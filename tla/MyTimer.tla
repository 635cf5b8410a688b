------------------------------ MODULE MyTimer ------------------------------
(***************************************************************************)
(* The kernel timer of k_a_dd/timer/my_timer.c: loading sets it going,     *)
(* removing the module cancels it.  The kernel's timers are modelled from  *)
(* how the module uses them: a counter of ticks that wraps around, whose   *)
(* distance to a timer's expiry is read as a signed number, and an expiry  *)
(* that runs beside whatever else happens.                                 *)
(***************************************************************************)
EXTENDS Integers

CONSTANTS Wrap,   \* the values of jiffies: 2^32, or fewer
          Delay   \* msecs_to_jiffies(200)

ASSUME TimerAssumption == Wrap \in Nat \ {0} /\ Delay \in 0 .. Wrap - 1

VARIABLES jiffies,
          my_timer,   \* "idle", "pending" or "running"
          expires,
          live        \* the module: "unloaded", "loaded" or "leaving"

timerVars == <<jiffies, my_timer, expires, live>>

\* The counter does not start at 0: the kernel was up before.
TimerInit == /\ jiffies \in 0 .. Wrap - 1
             /\ my_timer = "idle" /\ expires = 0
             /\ live = "unloaded"

\* mod_timer takes the time of expiry and is given the length of the wait.
mod_timer == expires' = Delay

mytimer_init ==
  /\ live = "unloaded"
  /\ mod_timer /\ my_timer' = "pending"
  /\ live' = "loaded"
  /\ UNCHANGED jiffies

due == LET ahead == (expires - jiffies) % Wrap IN ahead = 0 \/ ahead >= Wrap \div 2

\* The softirq that runs the timers visits every tick.
tick == /\ ~(my_timer = "pending" /\ due)
        /\ jiffies' = (jiffies + 1) % Wrap
        /\ UNCHANGED <<my_timer, expires, live>>

expire == /\ my_timer = "pending" /\ due
          /\ my_timer' = "running"
          /\ UNCHANGED <<jiffies, expires, live>>

callback_func == /\ my_timer = "running"
                 /\ my_timer' = "idle"
                 /\ UNCHANGED <<jiffies, expires, live>>

mytimer_exit == /\ live = "loaded"
                /\ live' = "leaving"
                /\ UNCHANGED <<jiffies, my_timer, expires>>

\* del_timer: it does not wait for a callback that runs on another processor.
del_timer_slip == my_timer' = IF my_timer = "pending" THEN "idle" ELSE my_timer

del_timer_sync == my_timer # "running" /\ my_timer' = "idle"

\* The end of mytimer_exit: the kernel frees the module's memory.
unloaded == /\ live = "leaving"
            /\ del_timer_sync
            /\ live' = "unloaded"
            /\ UNCHANGED <<jiffies, expires>>

TimerNext == mytimer_init \/ tick \/ expire \/ callback_func \/ mytimer_exit \/ unloaded

TimerSpec == TimerInit /\ [][TimerNext]_timerVars

-----------------------------------------------------------------------------
(* Properties.                                                             *)

\* The callback, its text and the string it prints belong to the module: when
\* that is gone, no timer is pending and no callback runs (my_timer.c:28).
NothingRunsAfterUnload == live = "unloaded" => my_timer = "idle"

\* Removing the module comes to an end, whether the timer is pending, running
\* or has long run (my_timer.c:28).
RemovalEnds == live = "leaving" ~> live = "unloaded"
=============================================================================
