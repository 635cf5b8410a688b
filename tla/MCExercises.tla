---------------------------- MODULE MCExercises ----------------------------
(***************************************************************************)
(* The small programs and modules of the repository, which do not interact: *)
(* each behaviour is one of one of them, while the others stay as they are, *)
(* so that the states of all are checked and not their product.             *)
(***************************************************************************)
EXTENDS MCHidCom, MCDirList, MCItoa, MyTimer, MyDebugfs, RfCardHid, HidOpen, Bits, Bcd,
        Backtrace, TeamBalance

CONSTANTS u1, u2, c1, c2

\* Stacks shorter than the buffer, as long and longer, with an address that is
\* not known before and after it is full.
SomeStacks == {<<>>, <<3, 0>>, <<3, 2, 1>>, <<0, 4, 3, 0, 2, 1>>, <<4, 3, 2, 0, 0>>, <<5, 4, 3, 0, 2>>}

EveryWord == 0 .. 16 ^ W - 1

VARIABLE running   \* the one this behaviour is of

Programs == {"hidcom", "dirlist", "itoa", "timer", "debugfs", "rfcard", "open", "bits", "bcd",
             "backtrace", "team"}

ExercisesInit ==
  /\ running \in Programs
  /\ Init
  /\ ListInit
  /\ ItoaInit
  /\ TimerInit /\ (running # "timer" => jiffies = 0)
  /\ DebugfsInit
  /\ RfInit
  /\ OpenInit
  /\ running # "open" => dev_info = "other" /\ \A n \in DOMAIN plugged : plugged[n] = "none"
  /\ BitsInit
  /\ BcdInit
  /\ BacktraceInit
  /\ TeamInit /\ (running # "team" => \A k \in DOMAIN values : values[k] = 0)

\* Three of the programs stop; main of the others is called again.
stopped == \/ running = "open" /\ looking \in {"ENODEV", "closed"}
           \/ running = "team" /\ next > N
           \/ running = "rfcard" /\ \A c \in Cards : card[c] = "gone"

ExercisesNext ==
  /\ UNCHANGED running
  /\ IF running = "hidcom"    THEN Next          ELSE UNCHANGED vars
  /\ IF running = "dirlist"   THEN ListNext      ELSE UNCHANGED listVars
  /\ IF running = "itoa"      THEN ItoaNext      ELSE UNCHANGED itoaVars
  /\ IF running = "timer"     THEN TimerNext     ELSE UNCHANGED timerVars
  /\ IF running = "debugfs"   THEN DebugfsNext   ELSE UNCHANGED debugfsVars
  /\ IF running = "rfcard"    THEN RfNext \/ (stopped /\ UNCHANGED rfVars)
                              ELSE UNCHANGED rfVars
  /\ IF running = "open"      THEN OpenNext \/ (stopped /\ UNCHANGED openVars)
                              ELSE UNCHANGED openVars
  /\ IF running = "bits"      THEN BitsNext      ELSE UNCHANGED bitsVars
  /\ IF running = "bcd"       THEN BcdNext       ELSE UNCHANGED bcdVars
  /\ IF running = "backtrace" THEN BacktraceNext ELSE UNCHANGED backtraceVars
  /\ IF running = "team"      THEN deal \/ (stopped /\ UNCHANGED teamVars)
                              ELSE UNCHANGED teamVars

\* Of the program that runs: a process goes on, a timer that is due runs, and so
\* does the call that waits for one.
ExercisesFairness ==
  /\ WF_listVars(running = "dirlist" /\ ListStep)
  /\ WF_timerVars(running = "timer" /\ (expire \/ callback_func))
  /\ WF_timerVars(running = "timer" /\ unloaded)
  /\ WF_backtraceVars(running = "backtrace" /\ BacktraceStep)

ExercisesSpec ==
  /\ ExercisesInit
  /\ [][ExercisesNext]_<<running, vars, listVars, itoaVars, timerVars, debugfsVars, rfVars,
                         openVars, bitsVars, bcdVars, backtraceVars, teamVars>>
  /\ ExercisesFairness

\* Every program that the code brings to an end comes to it: a run of the lister,
\* in any version and whatever fails (dirlist.c:27-231); the removal of the timer,
\* be it pending, running or long over (my_timer.c:28); the program that faults,
\* with a handler or none, and in the handler, since the write to address 0 is
\* not made again (backTraceInSig.cc:135).
ProgramsEnd == ListingEnds /\ RemovalEnds /\ FaultEndsProgram
=============================================================================
