----------------------------- MODULE SimpleCdev -----------------------------
(***************************************************************************)
(* The character device of k_a_dd/cdev/simple_cdev.c: loading and removing *)
(* the module, and the threads that open /dev/scdev0 and read and write it *)
(* through one buffer, a cell at a time.  The kernel around it (reference  *)
(* counts of files and of the module, the device node, the semaphore) is   *)
(* modelled from how the module uses it.                                   *)
(***************************************************************************)
EXTENDS Naturals, Sequences, FiniteSets

CONSTANTS Threads,
          Files,           \* open files
          MAX_BUFFER_LEN,  \* cells of the buffer
          DefaultLen,      \* those the default string fills
          MaxInterrupts    \* bound: waits for the semaphore cut off by a signal

ASSUME CdevAssumption ==
  /\ MAX_BUFFER_LEN \in Nat /\ DefaultLen \in 0 .. MAX_BUFFER_LEN
  /\ MaxInterrupts \in Nat /\ IsFiniteSet(Threads)

VARIABLES mod,        \* "unloaded", "loading", "failing", "live", "unloading" or "oops"
          have,       \* what the module has got from the kernel
          todo,       \* what is left of an error path or of simple_exit
          sema,
          place,      \* sdev->buffer points to: "none", "live" or "freed" memory
          buffer,     \* what that holds
          open,
          overlapped, \* the last open came while a file was open (history)
          call,       \* what each thread is doing
          written,    \* something was written since the last open (history)
          interrupts  \* waits cut off since the module was loaded

module == <<mod, have, todo>>
data   == <<place, buffer, open, overlapped>>
vars   == <<module, data, sema, call, written, interrupts>>

Cells == 0 .. MAX_BUFFER_LEN - 1

NoCall == [pc |-> "out", op |-> "none", file |-> "none", at |-> 0, count |-> 0, got |-> <<>>, pos |-> 0]

Init == /\ mod = "unloaded" /\ have = {} /\ todo = <<>>
        /\ sema = 0
        /\ place = "none" /\ buffer = [c \in Cells |-> "junk"]
        /\ open = {} /\ overlapped = FALSE /\ call = [t \in Threads |-> NoCall]
        /\ written = FALSE /\ interrupts = 0

-----------------------------------------------------------------------------
(* Loading and removing the module, one kernel call at a time.             *)

Order == <<"mem", "region", "class", "cdev", "device">>

init_MUTEX == 1

\* The labels a failed step goes through; class_destroy left out.
err_slip(r) == CASE r = "mem"    -> <<>>
                 [] r = "region" -> <<"mem">>
                 [] r = "class"  -> <<"region", "mem">>
                 [] r = "cdev"   -> <<"region", "mem">>
                 [] r = "device" -> <<"cdev", "region", "mem">>

\* The labels a failed step goes through.
err(r) == CASE r = "mem"    -> <<>>
            [] r = "region" -> <<"mem">>
            [] r = "class"  -> <<"region", "mem">>
            [] r = "cdev"   -> <<"class", "region", "mem">>
            [] r = "device" -> <<"cdev", "class", "region", "mem">>

simple_init(r) ==
  /\ \/ r = "mem" /\ mod = "unloaded"
     \/ mod = "loading" /\ todo = <<>>
  /\ r = Order[Cardinality(have) + 1]
  /\ have' = have \cup {r}
  /\ mod' = IF r = "device" THEN "live" ELSE "loading"
  /\ IF r = "mem" THEN sema' = init_MUTEX /\ place' = "none" /\ interrupts' = 0
                  ELSE UNCHANGED <<sema, place, interrupts>>
  /\ UNCHANGED <<todo, buffer, open, overlapped, call, written>>

\* The step that would get r fails.
simple_init_fails(r) ==
  /\ mod = "loading" /\ todo = <<>>
  /\ r = Order[Cardinality(have) + 1]
  /\ todo' = err(r)
  /\ mod' = "failing"
  /\ UNCHANGED <<have, data, sema, call, written, interrupts>>

\* The kernel does not remove a module that has open files.
simple_exit ==
  /\ mod = "live" /\ open = {}
  /\ mod' = "unloading"
  /\ todo' = <<"device", "cdev", "class", "region", "mem">>
  /\ UNCHANGED <<have, data, sema, call, written, interrupts>>

\* The error path does not look whether a file was opened meanwhile; the last
\* step frees the device, and the kernel the module, under it.
Undo == /\ mod \in {"failing", "unloading"}
        /\ have' = have \ {Head(todo)}
        /\ todo' = Tail(todo)
        /\ mod' = IF todo' # <<>> THEN mod ELSE IF open = {} THEN "unloaded" ELSE "oops"
        /\ UNCHANGED <<data, sema, call, written, interrupts>>

-----------------------------------------------------------------------------
(* Opening and closing.                                                    *)

\* From cdev_add on, while the module is still being loaded or its loading undone,
\* and until cdev_del; not while it is removed.
MayOpen(f) == /\ f \notin open
              /\ mod \in {"loading", "failing", "live"} /\ "cdev" \in have

\* The default string is left out.
simple_open_slip(f) ==
  /\ MayOpen(f)
  /\ open' = open \cup {f}
  /\ place' = "live" /\ overlapped' = (open # {})
  /\ buffer' = [c \in Cells |-> "junk"]
  /\ written' = FALSE
  /\ UNCHANGED <<module, sema, call, interrupts>>

simple_open(f) ==
  /\ MayOpen(f)
  /\ open' = open \cup {f}
  /\ place' = "live" /\ overlapped' = (open # {})
  /\ buffer' = [c \in Cells |-> IF c < DefaultLen THEN "default" ELSE "junk"]
  /\ written' = FALSE
  /\ UNCHANGED <<module, sema, call, interrupts>>

\* kmalloc fails: the pointer is set before it is tested, the file is not open.
simple_open_fails(f) ==
  /\ MayOpen(f)
  /\ place' = "none" /\ overlapped' = (open # {})
  /\ UNCHANGED <<module, sema, buffer, open, call, written, interrupts>>

InUse(f) == \E t \in Threads : call[t].pc # "out" /\ call[t].file = f

\* kfree is left out.
simple_release_slip(f) ==
  /\ f \in open /\ ~InUse(f)
  /\ open' = open \ {f}
  /\ UNCHANGED <<module, sema, place, buffer, overlapped, call, written, interrupts>>

\* The last close of f, which the kernel puts after the calls on it.
simple_release(f) ==
  /\ f \in open /\ ~InUse(f)
  /\ open' = open \ {f}
  /\ \/ /\ place' = (IF place = "live" THEN "freed" ELSE place)
        /\ mod' = mod
     \/ place = "freed" /\ mod' = "oops" /\ place' = place   \* freed twice
  /\ UNCHANGED <<have, todo, sema, buffer, overlapped, call, written, interrupts>>

-----------------------------------------------------------------------------
(* simple_read() and simple_write().                                       *)

\* The length is cut to that of the buffer, wherever the call starts.
Clamp_slip(fpos, n) == IF n > MAX_BUFFER_LEN THEN MAX_BUFFER_LEN ELSE n
Clamp(fpos, n)      == IF n > MAX_BUFFER_LEN - fpos THEN MAX_BUFFER_LEN - fpos ELSE n

\* The position and the length are the caller's (pread, lseek): up to one past
\* what is accepted.  The call itself never advances the position.
Call(t, op, f, fpos, n) ==
  LET at == IF fpos > MAX_BUFFER_LEN THEN 0 ELSE fpos
  IN  /\ f \in open /\ call[t].pc = "out"
      /\ call' = [call EXCEPT ![t] = [NoCall EXCEPT !.pc = "down", !.op = op, !.file = f,
                                                    !.at = at, !.count = Clamp(at, n)]]
      /\ UNCHANGED <<module, data, sema, written, interrupts>>

At(t, from, to) == call[t].pc = from /\ call' = [call EXCEPT ![t].pc = to]

\* The semaphore is looked at and not taken.
down_slip(t) ==
  /\ sema > 0
  /\ At(t, "down", "copy")
  /\ UNCHANGED <<module, data, sema, written, interrupts>>

down(t) ==
  /\ sema > 0
  /\ sema' = sema - 1
  /\ At(t, "down", "copy")
  /\ UNCHANGED <<module, data, written, interrupts>>

\* A signal ends the wait; the call does not look at the result.
down_interrupted(t) ==
  /\ sema = 0 /\ interrupts < MaxInterrupts
  /\ interrupts' = interrupts + 1
  /\ At(t, "down", "copy")
  /\ UNCHANGED <<module, data, sema, written>>

copy(t) ==
  LET c == call[t]
  IN  /\ c.pc = "copy" /\ c.pos < c.count /\ place # "none"
      /\ IF c.op = "write"
         THEN /\ call' = [call EXCEPT ![t].pos = @ + 1]
              /\ buffer' = IF place = "live" THEN [buffer EXCEPT ![c.at + c.pos] = t] ELSE buffer
              /\ written' = TRUE
         ELSE /\ \E x \in IF place = "live" THEN {buffer[c.at + c.pos]} ELSE {"junk"} :
                   call' = [call EXCEPT ![t].pos = @ + 1, ![t].got = Append(@, x)]
              /\ UNCHANGED <<buffer, written>>
      /\ UNCHANGED <<module, sema, place, open, overlapped, interrupts>>

\* The pointer is NULL: the copy stops short (copied) or the kernel panics.
copy_oops(t) ==
  /\ call[t].pc = "copy" /\ call[t].pos < call[t].count /\ place = "none"
  /\ mod' = "oops"
  /\ UNCHANGED <<have, todo, data, sema, call, written, interrupts>>

\* What a copy that stops short leaves of the cells it did not come to: a read
\* nothing, a write what was there or zeroes.
Rest(c) ==
  LET cleared == [x \in Cells |-> IF x \in c.at + c.pos .. c.at + c.count - 1 THEN "zero" ELSE buffer[x]]
  IN  IF c.op = "write" /\ place = "live" THEN {buffer, cleared} ELSE {buffer}

\* The semaphore is kept when the copy was not whole.
copied_slip(t) ==
  LET c == call[t]
  IN  /\ c.pc = "copy"
      /\ call' = [call EXCEPT ![t] = NoCall]
      /\ sema' = IF c.pos = c.count THEN sema + 1 ELSE sema
      /\ buffer' \in Rest(c)
      /\ written' = (written \/ buffer' # buffer)
      /\ UNCHANGED <<module, place, open, overlapped, interrupts>>

\* The copy is whole, or the caller's memory faults and it stops short: up()
\* either way, and the call returns the number of cells copied.  (The debugging
\* printk of line 57 reads the caller's memory and may end the caller instead;
\* that is after up() and changes nothing here.)
copied(t) ==
  LET c == call[t]
  IN  /\ c.pc = "copy"
      /\ call' = [call EXCEPT ![t] = NoCall]
      /\ sema' = sema + 1
      /\ buffer' \in Rest(c)
      /\ written' = (written \/ buffer' # buffer)
      /\ UNCHANGED <<module, place, open, overlapped, interrupts>>

Step(t) == down(t) \/ down_interrupted(t) \/ copy(t) \/ copy_oops(t) \/ copied(t)

-----------------------------------------------------------------------------
\* The machine is started again.
Reboot == /\ mod = "oops"
          /\ mod' = "unloaded" /\ have' = {} /\ todo' = <<>>
          /\ sema' = 0
          /\ place' = "none" /\ buffer' = [c \in Cells |-> "junk"]
          /\ open' = {} /\ overlapped' = FALSE /\ call' = [t \in Threads |-> NoCall]
          /\ written' = FALSE /\ interrupts' = 0

Module == \/ \E r \in {Order[i] : i \in DOMAIN Order} : simple_init(r) \/ simple_init_fails(r)
          \/ simple_exit \/ Undo

Next == \/ /\ mod # "oops"
           /\ \/ Module
              \/ \E f \in Files : simple_open(f) \/ simple_open_fails(f) \/ simple_release(f)
              \/ \E t \in Threads, op \in {"read", "write"}, f \in Files,
                    fpos \in 0 .. MAX_BUFFER_LEN + 1, n \in 0 .. MAX_BUFFER_LEN + 1 :
                   Call(t, op, f, fpos, n)
              \/ \E t \in Threads : Step(t)
        \/ Reboot

Spec == Init /\ [][Next]_vars

-----------------------------------------------------------------------------
(* Properties.                                                             *)

Values == {"junk", "default", "zero"} \cup Threads

TypeOK == /\ mod \in {"unloaded", "loading", "failing", "live", "unloading", "oops"}
          /\ have \subseteq {Order[i] : i \in DOMAIN Order}
          /\ sema \in 0 .. 1 + MaxInterrupts
          /\ place \in {"none", "live", "freed"}
          /\ buffer \in [Cells -> Values]
          /\ open \subseteq Files
          /\ \A t \in Threads :
               LET c == call[t]
               IN  /\ c.pc \in {"out", "down", "copy"}
                   /\ c.at + c.count <= MAX_BUFFER_LEN   \* no cell past the buffer
                   /\ c.got \in Seq(Values) /\ c.pos <= c.count

\* A signal costs the lock once: without one, one thread at a time is between
\* down and up; each wait cut off adds one thread, for as long as the device
\* can be opened (simple_cdev.c:53-55, 74-76).
EachSignalCountsOnce ==
  mod \in {"loading", "failing", "live"} =>
    sema + Cardinality({t \in Threads : call[t].pc = "copy"}) = 1 + interrupts

\* "sema_init(&simple_dev->sema, 1)" (simple_cdev.c:122): one thread at a time
\* copies, signals or not.
OneCopyAtATime ==
  \A t, u \in Threads : call[t].pc = "copy" /\ call[u].pc = "copy" => t = u

\* With no wait cut off and one opener, what a read has copied so far is what the
\* buffer still holds: no read mixes what two writes wrote (simple_cdev.c:53-55,
\* 74-76).
ReadsOneVersion ==
  interrupts = 0 /\ ~overlapped =>
    \A t \in Threads : call[t].pc = "copy" =>
      \A i \in DOMAIN call[t].got : call[t].got[i] = buffer[call[t].at + i - 1]

\* "default string in buffer" (simple_cdev.c:92): that is what reads find there
\* until something is written.
DefaultString ==
  ~written => \A t \in Threads : \A i \in DOMAIN call[t].got :
                call[t].at + i - 1 < DefaultLen => call[t].got[i] = "default"

\* So it is as long as one file at a time is open.
DefaultUnlessOverlapped == ~overlapped => DefaultString

\* As long as one file at a time is open, the buffer is there exactly while it
\* is, over any number of opens, failed ones and overlapping ones in the past
\* included (simple_cdev.c:33-40, 81-96).
BufferAccounted == ~overlapped => (place = "live" <=> open # {})

\* However loading ends, and while the module goes, each thing it has from the
\* kernel stands on all those got before it, and in the end nothing is left
\* (simple_cdev.c:106-180).
Unwound ==
  /\ \E n \in 0 .. Len(Order) : have = {Order[i] : i \in 1 .. n}
  /\ mod = "unloaded" => have = {}
=============================================================================
