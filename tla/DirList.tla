------------------------------ MODULE DirList ------------------------------
(***************************************************************************)
(* The lister of lang/c/linux/dirlist.c in its three versions: dirlist     *)
(* (readdir), dirlist_r (readdir_r) and _scandir.  main calls one of them; *)
(* each calls itself for every directory that it comes across, so that the *)
(* calls in progress are a stack.  A name is the sequence of its           *)
(* characters, because two tests look at the first of them.  What the C    *)
(* library does is modelled from how the program uses it; the order in     *)
(* which a directory gives its entries is any.                             *)
(***************************************************************************)
EXTENDS Naturals, SequencesExt, FiniteSetsExt

CONSTANTS Listing,     \* the names in each directory, by its path
          MaxStreams,  \* directory streams a process may have open
          MaxFailures  \* bound: library calls that fail

\* A path is the sequence of the names in it, without the one given to main.
Root  == <<>>
Names == UNION {Listing[d] : d \in DOMAIN Listing}
Dots  == {<<".">>, <<".", ".">>}

\* Directories hang together by their names, `.' and `..' aside: the lister does
\* not follow symbolic links.
ASSUME ListingAssumption ==
  /\ Root \in DOMAIN Listing
  /\ DOMAIN Listing \subseteq Seq(Names)
  /\ Names \subseteq Seq(STRING) \ {<<>>}
  /\ \A d \in DOMAIN Listing : IsFiniteSet(Listing[d])
  /\ \A d \in DOMAIN Listing \ {Root} :
       Front(d) \in DOMAIN Listing /\ Last(d) \in Listing[Front(d)] \ Dots
  /\ MaxStreams \in Nat \ {0} /\ MaxFailures \in Nat

VARIABLES version,   \* the one that main calls, "none" before it does
          calls,     \* calls in progress, the innermost last
          errno,
          streams,   \* open directory streams
          heap,      \* blocks allocated by malloc and scandir
          printed,   \* the paths that were
          hidden,    \* entries of scandir whose turn ended at `continue' (history)
          failures,  \* library calls that failed in this run (history)
          alarm,     \* the end of a directory was reported as an error (history)
          missed     \* a readdir that failed was not (history)

listVars == <<version, calls, errno, streams, heap, printed, hidden, failures, alarm, missed>>

Versions == {"dirlist", "dirlist_r", "_scandir"}

call(path) == [path |-> path, pc |-> "opendir", left |-> {}, olderrno |-> "0"]

ListInit == /\ version = "none"
            /\ calls = <<>> /\ errno = "0" /\ streams = 0 /\ heap = 0
            /\ printed = {} /\ hidden = 0 /\ failures = <<>>
            /\ alarm = FALSE /\ missed = FALSE

\* main, and again in a new process.
list_main == /\ calls = <<>>
             /\ version' \in Versions
             /\ calls' = <<call(Root)>> /\ errno' = "0" /\ streams' = 0 /\ heap' = 0
             /\ printed' = {} /\ hidden' = 0 /\ failures' = <<>>
             /\ alarm' = FALSE /\ missed' = FALSE

here        == Last(calls)
here_at(s)  == here.pc = s
becomes(r)  == calls' = Append(Front(calls), r)
goto(s)     == becomes([here EXCEPT !.pc = s])
return_up   == calls' = Front(calls)   \* the caller ignores what is returned
succeeds    == UNCHANGED <<failures, errno>>
fails(f, e) == /\ Len(failures) < MaxFailures
               /\ failures' = Append(failures, f) /\ errno' = e

\* Every stream the process may have is open.
exhausted(f) == /\ streams = MaxStreams
                /\ failures' = Append(failures, f) /\ errno' = "EMFILE"

-----------------------------------------------------------------------------

\* The character after the dots, which is the end of the name or is not.
is_dot_or_dotdot(name) ==
  name[1] = "." /\ Len(name) = IF Len(name) > 1 /\ name[2] = "." THEN 2 ELSE 1

opendir ==
  /\ here_at("opendir")
  /\ \/ /\ streams < MaxStreams /\ succeeds
        /\ streams' = streams + 1 /\ goto("malloc")
     \/ /\ fails("opendir", "EACCES") \/ exhausted("opendir")
        /\ return_up /\ UNCHANGED streams
  /\ UNCHANGED <<version, heap, printed, hidden, alarm, missed>>

Blocks == IF version = "dirlist_r" THEN 2 ELSE 1

\* The stream is left open.
out_of_memory_slip == UNCHANGED streams /\ return_up

\* A second malloc that fails has the block of the first freed, too.
out_of_memory == streams' = streams - 1 /\ return_up

malloc ==
  /\ here_at("malloc")
  /\ \/ /\ succeeds /\ heap' = heap + Blocks /\ UNCHANGED streams
        /\ IF version = "_scandir" THEN goto("scandir")
           ELSE becomes([here EXCEPT !.pc = "top", !.left = Listing[here.path]])
     \/ fails("malloc", "ENOMEM") /\ out_of_memory /\ UNCHANGED heap
  /\ UNCHANGED <<version, printed, hidden, alarm, missed>>

\* It opens a stream of its own, and allocates the list and each entry.
scandir ==
  /\ here_at("scandir")
  /\ \/ /\ streams < MaxStreams /\ succeeds
        /\ heap' = heap + 1 + Cardinality(Listing[here.path])
        /\ becomes([here EXCEPT !.pc = "top", !.left = Listing[here.path]])
     \/ /\ fails("scandir", "ENOMEM") \/ exhausted("scandir")
        /\ goto("free") /\ UNCHANGED heap
  /\ UNCHANGED <<version, streams, printed, hidden, alarm, missed>>

\* errno is saved before the loop and not in it.
top_slip == here_at("top") /\ goto("read")

\* The top of the loop.
top == here_at("top") /\ becomes([here EXCEPT !.pc = "read", !.olderrno = errno])

loop == top /\ UNCHANGED <<version, errno, streams, heap, printed, hidden, failures, alarm, missed>>

\* The count goes down at the end of a turn that `continue' does not come to.
rest_slip(name) == IF is_dot_or_dotdot(name) THEN here.left ELSE here.left \ {name}
rest(name)      == here.left \ {name}

\* _scandir frees an entry, but for those that `continue' keeps from it.
freed(name) == IF version = "_scandir"
               THEN IF is_dot_or_dotdot(name)
                    THEN hidden' = hidden + 1 /\ UNCHANGED heap
                    ELSE heap' = heap - 1 /\ UNCHANGED hidden
               ELSE UNCHANGED <<heap, hidden>>

read_entry(name) ==
  /\ here_at("read") /\ name \in here.left
  /\ freed(name)
  /\ LET turned == [here EXCEPT !.pc = "top", !.left = rest(name)]
         path   == Append(here.path, name)
     IN  IF is_dot_or_dotdot(name)
         THEN becomes(turned) /\ UNCHANGED printed
         ELSE /\ printed' = printed \cup {path}
              /\ calls' = Front(calls) \o <<turned, [call(path) EXCEPT !.pc = "lstat"]>>
  /\ UNCHANGED <<version, errno, streams, failures, alarm, missed>>

\* is_directory, and the call: what cannot be looked at is no directory.
lstat ==
  /\ here_at("lstat")
  /\ \/ /\ succeeds
        /\ IF here.path \in DOMAIN Listing THEN goto("opendir") ELSE return_up
     \/ (\E e \in {"EACCES", "EIO"} : fails("lstat", e)) /\ return_up
  /\ UNCHANGED <<version, streams, heap, printed, hidden, alarm, missed>>

\* dirlist tells an error from the end by a change of errno; dirlist_r, which is
\* given the number of the error, treats both alike.
readdir_fails ==
  /\ here_at("read") /\ version # "_scandir"
  /\ fails("readdir", "EIO")
  /\ missed' = (missed \/ version = "dirlist_r" \/ errno' = here.olderrno)
  /\ goto("free")
  /\ UNCHANGED <<version, streams, heap, printed, hidden, alarm>>

read_end ==
  /\ here_at("read") /\ here.left = {}
  /\ alarm' = (alarm \/ (version = "dirlist" /\ errno # here.olderrno))
  /\ heap' = IF version = "_scandir" THEN heap - 1 ELSE heap
  /\ goto("free")
  /\ UNCHANGED <<version, errno, streams, printed, hidden, failures, missed>>

free ==
  /\ here_at("free")
  /\ streams' = streams - 1 /\ heap' = heap - Blocks
  /\ return_up
  /\ UNCHANGED <<version, errno, printed, hidden, failures, alarm, missed>>

ListStep == /\ calls # <<>>
            /\ \/ opendir \/ malloc \/ scandir \/ loop \/ lstat
               \/ readdir_fails \/ read_end \/ free
               \/ \E name \in here.left : read_entry(name)

ListNext == list_main \/ ListStep

ListSpec == ListInit /\ [][ListNext]_listVars /\ WF_listVars(ListStep)
-----------------------------------------------------------------------------
(* Properties.                                                             *)

\* What is in the tree; the entries `.' and `..' are not.
AllPaths == UNION {{Append(d, n) : n \in Listing[d] \ Dots} : d \in DOMAIN Listing}

\* However a run went, every stream is closed and every block freed when it
\* ends, at any level; only _scandir keeps the entries it hides, which the
\* `continue' before their free makes it forget (dirlist.c:90-91).
NothingHeld == calls = <<>> => streams = 0 /\ heap = hidden

\* A run in which no call failed has printed everything but `.' and `..', and
\* nothing else; and the end of a directory is not taken for an error, whatever
\* the calls below it have left in errno (dirlist.c:30-37, 88-103, 150-163,
\* 201-225).
CompleteListing ==
  /\ ~alarm
  /\ printed \subseteq AllPaths
  /\ version # "none" /\ calls = <<>> /\ failures = <<>> => printed = AllPaths

\* "error detected when errno changed with readdir return NULL" and "else, end
\* of stream reached" (dirlist.c:206, 209): a readdir of dirlist that fails is
\* told from the end.
ReadErrorsReported == version = "dirlist" => ~missed

\* Every run ends, in any of the versions.
ListingEnds == (calls # <<>>) ~> (calls = <<>>)
=============================================================================
