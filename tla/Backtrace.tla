----------------------------- MODULE Backtrace -----------------------------
(***************************************************************************)
(* lang/cpp/backTrace/backTraceInSig.cc, as it is built for any but ARM: a *)
(* write to address 0 is answered by a handler that collects the addresses *)
(* of the callers in a buffer, prints them and ends the program.  The      *)
(* unwinder, which calls unwindCallback for a frame after the other until  *)
(* it is told to stop, and the kernel's signals are modelled from how the  *)
(* program uses them.                                                      *)
(***************************************************************************)
EXTENDS Naturals, SequencesExt

CONSTANTS BT_BUFFER_SIZE,
          Stacks   \* what there may be to unwind: sequences of addresses

ASSUME BacktraceAssumption == BT_BUFFER_SIZE \in Nat \ {0} /\ \A s \in Stacks : s \in Seq(Nat)

\* A frame whose address the unwinder does not know.
NoAddress == 0

VARIABLES process,    \* "main", "f1" .. "f3", "capture", "dump", "exited" or "killed"
          handled,    \* the handler of SIGSEGV is installed
          frames,     \* the stack when the fault occurred
          visited,    \* frames the callback was called for
          buffer,     \* buffer[1 .. current - buffer]
          idx         \* frames printed

backtraceVars == <<process, handled, frames, visited, buffer, idx>>

BacktraceInit == /\ process = "main" /\ handled = FALSE
                 /\ frames = <<>> /\ visited = 0 /\ buffer = <<>> /\ idx = 0

\* sigaction fails, and the program goes on without a handler, or not.
signal_init == /\ process = "main"
               /\ handled' \in BOOLEAN /\ process' = "f1"
               /\ UNCHANGED <<frames, visited, buffer, idx>>

f1 == process = "f1" /\ process' = "f2" /\ UNCHANGED <<handled, frames, visited, buffer, idx>>
f2 == process = "f2" /\ process' = "f3" /\ UNCHANGED <<handled, frames, visited, buffer, idx>>

\* The fault: the handler runs on the stack, with SIGSEGV blocked.
f3 == /\ process = "f3"
      /\ IF handled THEN process' = "capture" /\ frames' \in Stacks
         ELSE process' = "killed" /\ UNCHANGED frames
      /\ UNCHANGED <<handled, visited, buffer, idx>>

\* The callback looks for the end one place after it.
full_slip == Len(buffer) > BT_BUFFER_SIZE
full      == Len(buffer) = BT_BUFFER_SIZE

\* One call of the callback: _URC_END_OF_STACK ends the unwinding.
unwindCallback ==
  /\ process = "capture" /\ visited < Len(frames)
  /\ LET pc_ == frames[visited + 1]
     IN  IF pc_ # NoAddress /\ full
         THEN process' = "dump" /\ UNCHANGED <<visited, buffer>>
         ELSE /\ visited' = visited + 1
              /\ buffer' = IF pc_ = NoAddress THEN buffer ELSE Append(buffer, pc_)
              /\ UNCHANGED process
  /\ UNCHANGED <<handled, frames, idx>>

captureBacktrace_ends ==
  /\ process = "capture" /\ visited = Len(frames)
  /\ process' = "dump"
  /\ UNCHANGED <<handled, frames, visited, buffer, idx>>

dump_backtrace ==
  /\ process = "dump" /\ idx < Len(buffer)
  /\ idx' = idx + 1
  /\ UNCHANGED <<process, handled, frames, visited, buffer>>

handler_ends ==
  /\ process = "dump" /\ idx = Len(buffer)
  /\ process' = "exited"
  /\ UNCHANGED <<handled, frames, visited, buffer, idx>>

\* A fault while SIGSEGV is blocked.
second_fault == /\ process \in {"capture", "dump"}
                /\ process' = "killed"
                /\ UNCHANGED <<handled, frames, visited, buffer, idx>>

rerun == /\ process \in {"exited", "killed"}
         /\ process' = "main" /\ handled' = FALSE
         /\ frames' = <<>> /\ visited' = 0 /\ buffer' = <<>> /\ idx' = 0

BacktraceStep == \/ signal_init \/ f1 \/ f2 \/ f3 \/ unwindCallback \/ captureBacktrace_ends
                 \/ dump_backtrace \/ handler_ends \/ second_fault
BacktraceNext == BacktraceStep \/ rerun

BacktraceSpec == BacktraceInit /\ [][BacktraceNext]_backtraceVars

-----------------------------------------------------------------------------
(* Properties.                                                             *)

\* The frames among the first n whose address is known.
Known(n) == {i \in 1 .. n : frames[i] # NoAddress}

\* What the buffer holds are the innermost addresses that are known, in their
\* order and as many as there is room for (backTraceInSig.cc:59-79).
InnermostFrames ==
  process \in {"dump", "exited"} =>
    LET all == Cardinality(Known(Len(frames)))
    IN  /\ Len(buffer) = IF all <= BT_BUFFER_SIZE THEN all ELSE BT_BUFFER_SIZE
        /\ \A i \in Known(Len(frames)) : LET place == Cardinality(Known(i))
                                         IN  place <= Len(buffer) => buffer[place] = frames[i]

\* The program ends, with the handler or without, and if it faults again in the
\* handler: the write to address 0 is not made again and again
\* (backTraceInSig.cc:135).
FaultEndsProgram == (process = "f3") ~> (process \in {"exited", "killed"})
=============================================================================
