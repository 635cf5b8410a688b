-------------------------- MODULE SimpleCdevProofs --------------------------
(* Proofs about the character device, SimpleCdev.tla, for any number of     *)
(* threads, files, cells and signals.                                       *)
EXTENDS SimpleCdev, FiniteSetTheorems, TLAPS

-----------------------------------------------------------------------------
(* The inductive invariant.                                                *)

Calls == [pc : {"out", "down", "copy"}, op : {"none", "read", "write"}, file : Files \cup {"none"},
          at : Nat, count : Nat, got : Seq(Values), pos : Nat]

\* A call in progress is one on an open file, within the buffer; what it has read
\* are as many cells as it has come to.
CallOK(t) ==
  /\ call[t].at + call[t].count <= MAX_BUFFER_LEN /\ call[t].pos <= call[t].count
  /\ call[t].pc = "out" => call[t] = NoCall
  /\ call[t].pc # "out" => call[t].file \in open /\ call[t].op \in {"read", "write"}
  /\ call[t].op = "read" => Len(call[t].got) = call[t].pos
  /\ call[t].op # "read" => call[t].got = <<>>
  /\ call[t].pc # "copy" => call[t].got = <<>>

\* The first n of the five things.
Got(n) == {Order[i] : i \in 1 .. n}

\* The device can be opened, or what was opened is still used.
Up == mod \in {"loading", "failing", "live"}

ShapeInv ==
  /\ mod \in {"unloaded", "loading", "failing", "live", "unloading", "oops"}
  /\ sema \in 0 .. 1 + MaxInterrupts /\ interrupts \in 0 .. MaxInterrupts
  /\ place \in {"none", "live", "freed"} /\ buffer \in [Cells -> Values]
  /\ open \subseteq Files /\ overlapped \in BOOLEAN /\ written \in BOOLEAN
  /\ call \in [Threads -> Calls] /\ \A t \in Threads : CallOK(t)
  /\ open # {} => mod \in {"failing", "live", "oops"} \/ (mod = "loading" /\ have = Got(4))

Copying == {t \in Threads : call[t].pc = "copy"}

\* From the first step of loading on, and not in the last state alone.
CountInv == Up => sema + Cardinality(Copying) = 1 + interrupts

\* An error path and simple_exit give back what there is, in the opposite order;
\* after an oops some of it may be left.
StageInv ==
  /\ mod = "unloaded" => have = {} /\ todo = <<>>
  /\ mod = "loading" => todo = <<>> /\ \E n \in 1 .. 4 : have = Got(n)
  /\ mod = "live" => have = Got(5) /\ todo = <<>>
  /\ mod = "oops" => \E n \in 0 .. 5 : have = Got(n)
  /\ mod \in {"failing", "unloading"} =>
       \/ have = Got(1) /\ todo = <<"mem">>
       \/ have = Got(2) /\ todo = <<"region", "mem">>
       \/ have = Got(3) /\ todo = <<"class", "region", "mem">>
       \/ have = Got(4) /\ todo = <<"cdev", "class", "region", "mem">>
       \/ have = Got(5) /\ todo = <<"device", "cdev", "class", "region", "mem">>

BufferInv == /\ ~overlapped => \A f, g \in open : f = g
             /\ BufferAccounted

DefaultInv == /\ ~overlapped /\ ~written /\ open # {} =>
                   \A c \in Cells : c < DefaultLen => buffer[c] = "default"
              /\ DefaultUnlessOverlapped

CdevInv == ShapeInv /\ CountInv /\ StageInv /\ BufferInv /\ DefaultInv /\ ReadsOneVersion

-----------------------------------------------------------------------------
(* The five things the module gets from the kernel.                        *)

LEMMA GotSets ==
  /\ Got(0) = {} /\ Got(1) = {"mem"} /\ Got(2) = {"mem", "region"}
  /\ Got(3) = {"mem", "region", "class"} /\ Got(4) = {"mem", "region", "class", "cdev"}
  /\ Got(5) = {"mem", "region", "class", "cdev", "device"}
<1>1. Order[1] = "mem" /\ Order[2] = "region" /\ Order[3] = "class" /\ Order[4] = "cdev" /\ Order[5] = "device"
  BY DEF Order
<1>2. /\ 1 .. 0 = {} /\ 1 .. 1 = {1} /\ 1 .. 2 = {1, 2} /\ 1 .. 3 = {1, 2, 3} /\ 1 .. 4 = {1, 2, 3, 4}
      /\ 1 .. 5 = {1, 2, 3, 4, 5}
  OBVIOUS
<1> QED
  BY <1>1, <1>2 DEF Got

LEMMA GotCount == \A n \in 0 .. 5 : Cardinality(Got(n)) = n
<1>1. ASSUME NEW S, NEW x, IsFiniteSet(S), x \notin S
      PROVE  IsFiniteSet(S \cup {x}) /\ Cardinality(S \cup {x}) = Cardinality(S) + 1
  BY <1>1, FS_AddElement
<1>2. IsFiniteSet(Got(0)) /\ Cardinality(Got(0)) = 0
  BY GotSets, FS_EmptySet
<1>3. IsFiniteSet(Got(1)) /\ Cardinality(Got(1)) = 1
  <2>1. Got(1) = Got(0) \cup {"mem"} /\ "mem" \notin Got(0)
    BY GotSets
  <2> QED
    BY <1>1, <1>2, <2>1
<1>4. IsFiniteSet(Got(2)) /\ Cardinality(Got(2)) = 2
  <2>1. Got(2) = Got(1) \cup {"region"} /\ "region" \notin Got(1)
    BY GotSets
  <2> QED
    BY <1>1, <1>3, <2>1
<1>5. IsFiniteSet(Got(3)) /\ Cardinality(Got(3)) = 3
  <2>1. Got(3) = Got(2) \cup {"class"} /\ "class" \notin Got(2)
    BY GotSets
  <2> QED
    BY <1>1, <1>4, <2>1
<1>6. IsFiniteSet(Got(4)) /\ Cardinality(Got(4)) = 4
  <2>1. Got(4) = Got(3) \cup {"cdev"} /\ "cdev" \notin Got(3)
    BY GotSets
  <2> QED
    BY <1>1, <1>5, <2>1
<1>7. IsFiniteSet(Got(5)) /\ Cardinality(Got(5)) = 5
  <2>1. Got(5) = Got(4) \cup {"device"} /\ "device" \notin Got(4)
    BY GotSets
  <2> QED
    BY <1>1, <1>6, <2>1
<1> QED
  BY <1>2, <1>3, <1>4, <1>5, <1>6, <1>7

\* The step that is next when n of them are there.
LEMMA NextGot ==
  ASSUME NEW n \in 0 .. 4
  PROVE  Got(n + 1) = Got(n) \cup {Order[Cardinality(Got(n)) + 1]}
<1>1. Cardinality(Got(n)) = n
  BY GotCount
<1>2. 1 .. n + 1 = (1 .. n) \cup {n + 1}
  OBVIOUS
<1> QED
  BY <1>1, <1>2 DEF Got

-----------------------------------------------------------------------------
(* Threads and calls.                                                      *)

LEMMA CopyingFinite == IsFiniteSet(Copying) /\ Cardinality(Copying) \in Nat
  BY CdevAssumption, FS_Subset, FS_CardinalityType DEF CdevAssumption, Copying

\* Without an open file no call is in progress.
LEMMA NoCalls ==
  ASSUME ShapeInv, open = {}
  PROVE  (\A t \in Threads : call[t] = NoCall) /\ Copying = {} /\ Cardinality(Copying) = 0
<1>1. \A t \in Threads : call[t] = NoCall
  BY DEF ShapeInv, CallOK
<1>2. Copying = {}
  BY <1>1 DEF Copying, NoCall
<1> QED
  BY <1>1, <1>2, FS_EmptySet

\* As long as no wait was cut off, a thread that copies is the only one.
LEMMA OnlyCopier ==
  ASSUME ShapeInv, CountInv, Up, interrupts = 0,
         NEW t \in Threads, NEW u \in Threads, call[t].pc = "copy", call[u].pc = "copy"
  PROVE  t = u
<1>1. sema + Cardinality(Copying) = 1 /\ sema \in Nat /\ t \in Copying /\ u \in Copying
  BY DEF ShapeInv, CountInv, Up, Copying
<1>2. Cardinality(Copying \ {t}) = Cardinality(Copying) - 1 /\ IsFiniteSet(Copying \ {t})
  BY <1>1, CopyingFinite, FS_RemoveElement
<1>3. Cardinality(Copying \ {t}) = 0
  BY <1>1, <1>2, CopyingFinite, FS_CardinalityType
<1>4. Copying \ {t} = {}
  BY <1>2, <1>3, FS_EmptySet
<1> QED
  BY <1>1, <1>4

LEMMA NoCallTyped == NoCall \in Calls
<1>1. <<>> \in Seq(Values)
  OBVIOUS
<1> QED
  BY <1>1 DEF NoCall, Calls

\* A thread's call after a step that changes no other.
LEMMA CallsAfter ==
  ASSUME NEW t \in Threads, NEW c \in Calls, call \in [Threads -> Calls], call' = [call EXCEPT ![t] = c]
  PROVE  /\ call' \in [Threads -> Calls] /\ call'[t] = c
         /\ \A u \in Threads : u # t => call'[u] = call[u]
  OBVIOUS

\* Where nothing is open and nothing called, whatever was read and written.
LEMMA Idle ==
  ASSUME open' = {}, \A t \in Threads : call'[t] = NoCall, BufferInv'
  PROVE  DefaultInv' /\ ReadsOneVersion'
  BY DEF DefaultInv, DefaultUnlessOverlapped, DefaultString, ReadsOneVersion, NoCall

\* The machine is started, or started again.
Fresh == /\ mod = "unloaded" /\ have = {} /\ todo = <<>>
         /\ sema = 0
         /\ place = "none" /\ buffer = [c \in Cells |-> "junk"]
         /\ open = {} /\ overlapped = FALSE /\ call = [t \in Threads |-> NoCall]
         /\ written = FALSE /\ interrupts = 0

LEMMA FreshCdev == Fresh => CdevInv
<1> SUFFICES ASSUME Fresh PROVE CdevInv
  OBVIOUS
<1>1. call \in [Threads -> Calls] /\ \A t \in Threads : call[t] = NoCall
  BY NoCallTyped DEF Fresh
<1>2. \A t \in Threads : CallOK(t)
  BY <1>1, CdevAssumption DEF CdevAssumption, CallOK, NoCall
<1>3. ShapeInv
  <2>1. buffer \in [Cells -> Values]
    BY DEF Fresh, Values
  <2>2. sema \in 0 .. 1 + MaxInterrupts /\ interrupts \in 0 .. MaxInterrupts
    BY CdevAssumption DEF CdevAssumption, Fresh
  <2> QED
    BY <1>1, <1>2, <2>1, <2>2 DEF Fresh, ShapeInv
<1>4. CountInv /\ StageInv /\ BufferInv /\ DefaultInv /\ ReadsOneVersion
  BY DEF Fresh, CountInv, Up, StageInv, BufferInv, BufferAccounted, DefaultInv, DefaultUnlessOverlapped,
     DefaultString, ReadsOneVersion, NoCall
<1> QED
  BY <1>3, <1>4 DEF CdevInv

LEMMA CdevInit == Init => CdevInv
  BY FreshCdev DEF Init, Fresh

LEMMA RebootStep == Reboot => CdevInv'
<1> SUFFICES ASSUME Reboot PROVE CdevInv'
  OBVIOUS
<1>1. Fresh'
  BY DEF Reboot, Fresh
<1> QED
  BY <1>1, FreshCdev, PTL

-----------------------------------------------------------------------------
(* Loading and removing.                                                   *)

\* A step that touches the module alone.
LEMMA QuietStep ==
  ASSUME CdevInv, UNCHANGED <<data, sema, call, written, interrupts>>, StageInv', Up' => Up,
         mod' \in {"unloaded", "loading", "failing", "live", "unloading", "oops"},
         open # {} => mod' \in {"failing", "live", "oops"} \/ (mod' = "loading" /\ have' = Got(4))
  PROVE  CdevInv'
<1> USE DEF CdevInv, data
<1>1. ShapeInv'
  <2>1. \A t \in Threads : CallOK(t)'
    BY DEF ShapeInv, CallOK
  <2> QED
    BY <2>1 DEF ShapeInv, Got
<1>2. CountInv'
  BY DEF CountInv, Up, Copying
<1>3. BufferInv'
  BY DEF BufferInv, BufferAccounted
<1>4. DefaultInv' /\ ReadsOneVersion'
  BY DEF DefaultInv, DefaultUnlessOverlapped, DefaultString, ReadsOneVersion
<1> QED
  BY <1>1, <1>2, <1>3, <1>4

\* A file can be open before the last step, not before the others.
LEMMA InitStep ==
  ASSUME CdevInv, NEW r \in {Order[i] : i \in DOMAIN Order}, simple_init(r)
  PROVE  CdevInv'
<1> USE DEF CdevInv
<1>1. UNCHANGED <<todo, buffer, open, overlapped, call, written>>
  BY DEF simple_init
<1>2. PICK n \in 0 .. 4 : have = Got(n) /\ (n = 0 <=> mod = "unloaded") /\ todo = <<>>
  <2>1. CASE mod = "unloaded"
    <3>1. have = Got(0) /\ todo = <<>>
      BY <2>1, GotSets DEF StageInv
    <3> QED
      BY <2>1, <3>1
  <2>2. CASE mod = "loading"
    <3>1. PICK k \in 1 .. 4 : have = Got(k)
      BY <2>2 DEF StageInv
    <3>2. k \in 0 .. 4 /\ k # 0 /\ mod # "unloaded" /\ todo = <<>>
      BY <2>2 DEF StageInv
    <3> QED
      BY <3>1, <3>2
  <2> QED
    BY <2>1, <2>2 DEF simple_init
<1>3. have' = Got(n + 1) /\ r = Order[n + 1]
  BY <1>2, NextGot, GotCount DEF simple_init
<1>4. r = "mem" <=> n = 0
  BY <1>3 DEF Order
<1>5. r = "device" <=> n = 4
  BY <1>3 DEF Order
<1>6. n # 0 => mod = "loading"
  BY <1>2, <1>4 DEF simple_init
<1>7. open # {} => n = 4
  <2>1. open # {} => have = Got(4)
    BY <1>2, <1>6 DEF ShapeInv
  <2> QED
    BY <1>2, <2>1, GotCount
<1>8. StageInv'
  <2>1. CASE n = 4
    BY <1>1, <1>2, <1>3, <1>5, <2>1 DEF simple_init, StageInv
  <2>2. CASE n # 4
    <3>1. n + 1 \in 1 .. 4
      BY <2>2
    <3> QED
      BY <1>1, <1>2, <1>3, <1>5, <2>2, <3>1 DEF simple_init, StageInv
  <2> QED
    BY <2>1, <2>2
<1>9. CASE n = 0
  <2>1. open = {} /\ sema' = 1 /\ interrupts' = 0 /\ place' = "none" /\ mod' = "loading"
    BY <1>4, <1>5, <1>7, <1>9 DEF simple_init, init_MUTEX
  <2>2. (\A t \in Threads : call[t] = NoCall) /\ Copying = {} /\ Cardinality(Copying) = 0
    BY <2>1, NoCalls
  <2>3. ShapeInv'
    <3>1. \A t \in Threads : CallOK(t)'
      BY <1>1 DEF ShapeInv, CallOK
    <3> QED
      BY <1>1, <2>1, <3>1, CdevAssumption DEF CdevAssumption, ShapeInv
  <2>4. CountInv'
    BY <1>1, <2>1, <2>2 DEF CountInv, Up, Copying
  <2>5. BufferInv'
    BY <1>1, <2>1 DEF BufferInv, BufferAccounted
  <2>6. DefaultInv' /\ ReadsOneVersion'
    BY <1>1, <2>1, <2>2, <2>5, Idle
  <2> QED
    BY <1>8, <2>3, <2>4, <2>5, <2>6
<1>10. CASE n # 0
  <2>1. UNCHANGED <<sema, interrupts, place>> /\ mod = "loading" /\ mod' \in {"loading", "live"}
    BY <1>4, <1>6, <1>10 DEF simple_init
  <2>2. open # {} => mod' = "live"
    BY <1>5, <1>7 DEF simple_init
  <2> QED
    BY <1>1, <1>8, <2>1, <2>2, QuietStep DEF data, Up
<1> QED
  BY <1>9, <1>10

LEMMA InitFailsStep ==
  ASSUME CdevInv, NEW r \in {Order[i] : i \in DOMAIN Order}, simple_init_fails(r)
  PROVE  CdevInv'
<1> USE DEF CdevInv
<1>1. mod = "loading"
  BY DEF simple_init_fails
<1>2. PICK n \in 1 .. 4 : have = Got(n)
  BY <1>1 DEF StageInv
<1>3. r = Order[n + 1] /\ have' = Got(n) /\ todo' = err(r) /\ mod' = "failing"
  BY <1>2, GotCount DEF simple_init_fails
<1>4. StageInv'
  BY <1>3 DEF StageInv, err, Order
<1> QED
  BY <1>1, <1>3, <1>4, QuietStep DEF simple_init_fails, Up

LEMMA ExitStep ==
  ASSUME CdevInv, simple_exit
  PROVE  CdevInv'
<1>1. StageInv'
  BY DEF CdevInv, simple_exit, StageInv
<1> QED
  BY <1>1, QuietStep DEF simple_exit, Up

LEMMA UndoStep ==
  ASSUME CdevInv, Undo
  PROVE  CdevInv'
<1> USE DEF CdevInv
<1>1. /\ mod \in {"failing", "unloading"}
      /\ open # {} => mod = "failing"
      /\ UNCHANGED <<data, sema, call, written, interrupts>>
  BY DEF Undo, ShapeInv
<1>2. /\ mod' = (IF todo' # <<>> THEN mod ELSE IF open = {} THEN "unloaded" ELSE "oops")
      /\ have' = have \ {Head(todo)} /\ todo' = Tail(todo)
  BY DEF Undo
<1>3. StageInv'
  <2>1. CASE have = Got(1) /\ todo = <<"mem">>
    <3>1. todo' = <<>> /\ have' = {}
      BY <1>2, <2>1, GotSets
    <3>2. \E n \in 0 .. 5 : have' = Got(n)
      BY <3>1, GotSets
    <3> QED
      BY <1>2, <3>1, <3>2 DEF StageInv
  <2>2. CASE have = Got(2) /\ todo = <<"region", "mem">>
    <3>1. todo' = <<"mem">> /\ todo' # <<>> /\ have' = Got(1)
      BY <1>2, <2>2, GotSets
    <3> QED
      BY <1>1, <1>2, <3>1 DEF StageInv
  <2>3. CASE have = Got(3) /\ todo = <<"class", "region", "mem">>
    <3>1. todo' = <<"region", "mem">> /\ todo' # <<>> /\ have' = Got(2)
      BY <1>2, <2>3, GotSets
    <3> QED
      BY <1>1, <1>2, <3>1 DEF StageInv
  <2>4. CASE have = Got(4) /\ todo = <<"cdev", "class", "region", "mem">>
    <3>1. todo' = <<"class", "region", "mem">> /\ todo' # <<>> /\ have' = Got(3)
      BY <1>2, <2>4, GotSets
    <3> QED
      BY <1>1, <1>2, <3>1 DEF StageInv
  <2>5. CASE have = Got(5) /\ todo = <<"device", "cdev", "class", "region", "mem">>
    <3>1. todo' = <<"cdev", "class", "region", "mem">> /\ todo' # <<>> /\ have' = Got(4)
      BY <1>2, <2>5, GotSets
    <3> QED
      BY <1>1, <1>2, <3>1 DEF StageInv
  <2> QED
    BY <1>1, <2>1, <2>2, <2>3, <2>4, <2>5 DEF StageInv
<1> QED
  BY <1>1, <1>2, <1>3, QuietStep DEF Up

-----------------------------------------------------------------------------
(* Opening and closing.                                                    *)

\* What a module that is being loaded has got when it can be opened.
LEMMA LiveGot ==
  ASSUME CdevInv, mod \in {"loading", "failing", "live"}, "cdev" \in have
  PROVE  mod \in {"failing", "live"} \/ (mod = "loading" /\ have = Got(4))
<1> SUFFICES ASSUME mod = "loading" PROVE have = Got(4)
  OBVIOUS
<1>1. PICK n \in 1 .. 4 : have = Got(n)
  BY DEF CdevInv, StageInv
<1>2. n \notin {1, 2, 3}
  BY <1>1, GotSets
<1> QED
  BY <1>1, <1>2

LEMMA OpenStep ==
  ASSUME CdevInv, NEW f \in Files, simple_open(f)
  PROVE  CdevInv'
<1> USE DEF CdevInv, module
<1>1. /\ f \notin open /\ open' = open \cup {f} /\ place' = "live"
      /\ overlapped' = (open # {}) /\ written' = FALSE
      /\ buffer' = [c \in Cells |-> IF c < DefaultLen THEN "default" ELSE "junk"]
      /\ UNCHANGED <<mod, have, todo, sema, call, interrupts>>
  BY DEF simple_open, MayOpen
<1>2. ShapeInv'
  <2>1. buffer' \in [Cells -> Values]
    BY <1>1 DEF Values
  <2>2. \A t \in Threads : CallOK(t)'
    BY <1>1 DEF ShapeInv, CallOK
  <2>3. mod \in {"failing", "live"} \/ (mod = "loading" /\ have = Got(4))
    BY LiveGot DEF simple_open, MayOpen
  <2> QED
    BY <1>1, <2>1, <2>2, <2>3 DEF ShapeInv
<1>3. CountInv' /\ StageInv'
  BY <1>1 DEF CountInv, StageInv, Copying, Up
<1>4. BufferInv'
  BY <1>1 DEF BufferInv, BufferAccounted
<1>5. CASE open = {}
  <2>1. \A t \in Threads : call'[t] = NoCall
    BY <1>1, <1>5, NoCalls
  <2> QED
    BY <1>1, <1>2, <1>3, <1>4, <2>1 DEF DefaultInv, DefaultUnlessOverlapped, DefaultString, ReadsOneVersion, NoCall
<1>6. CASE open # {}
  BY <1>1, <1>2, <1>3, <1>4, <1>6 DEF DefaultInv, DefaultUnlessOverlapped, ReadsOneVersion
<1> QED
  BY <1>5, <1>6

LEMMA OpenFailsStep ==
  ASSUME CdevInv, NEW f \in Files, simple_open_fails(f)
  PROVE  CdevInv'
<1> USE DEF CdevInv, module
<1>1. /\ place' = "none" /\ overlapped' = (open # {})
      /\ UNCHANGED <<mod, have, todo, sema, buffer, open, call, written, interrupts>>
  BY DEF simple_open_fails
<1>2. ShapeInv'
  <2>1. \A t \in Threads : CallOK(t)'
    BY <1>1 DEF ShapeInv, CallOK
  <2> QED
    BY <1>1, <2>1 DEF ShapeInv
<1>3. CountInv' /\ StageInv'
  BY <1>1 DEF CountInv, Up, StageInv, Copying
<1>4. BufferInv'
  BY <1>1 DEF BufferInv, BufferAccounted
<1>5. DefaultInv' /\ ReadsOneVersion'
  <2>1. CASE open = {}
    BY <1>1, <1>4, <2>1, NoCalls, Idle
  <2>2. CASE open # {}
    BY <1>1, <2>2 DEF DefaultInv, DefaultUnlessOverlapped, ReadsOneVersion
  <2> QED
    BY <2>1, <2>2
<1> QED
  BY <1>2, <1>3, <1>4, <1>5

\* With one file open and no call on it, there is no call at all; the buffer of
\* several openers is lost, and nothing is claimed of it.
LEMMA ReleaseStep ==
  ASSUME CdevInv, mod # "oops", NEW f \in Files, simple_release(f)
  PROVE  CdevInv'
<1> USE DEF CdevInv
<1>1. /\ Up /\ f \in open /\ open' = open \ {f}
      /\ UNCHANGED <<have, todo, sema, buffer, overlapped, call, written, interrupts>>
      /\ mod' \in {mod, "oops"} /\ place' \in {"none", "live", "freed"}
      /\ place = "live" => place' = "freed" /\ mod' = mod
  BY DEF simple_release, ShapeInv, Up
<1>2. \A t \in Threads : call[t].pc # "out" => call[t].file \in open'
  BY <1>1 DEF simple_release, InUse, ShapeInv, CallOK
<1>3. ShapeInv'
  <2>1. \A t \in Threads : CallOK(t)'
    BY <1>1, <1>2 DEF ShapeInv, CallOK
  <2> QED
    BY <1>1, <2>1 DEF ShapeInv
<1>4. CountInv' /\ StageInv'
  BY <1>1 DEF CountInv, Up, StageInv, Copying
<1>5. ~overlapped => open' = {} /\ place' = "freed"
  BY <1>1 DEF BufferInv, BufferAccounted
<1>6. BufferInv'
  BY <1>1, <1>5 DEF BufferInv, BufferAccounted
<1>7. DefaultInv' /\ ReadsOneVersion'
  <2>1. CASE ~overlapped
    <3>1. \A t \in Threads : call'[t] = NoCall
      BY <1>1, <1>3, <1>5, <2>1 DEF ShapeInv, CallOK
    <3> QED
      BY <1>5, <1>6, <2>1, <3>1, Idle
  <2>2. CASE overlapped
    BY <1>1, <2>2 DEF DefaultInv, DefaultUnlessOverlapped, ReadsOneVersion
  <2> QED
    BY <2>1, <2>2
<1> QED
  BY <1>3, <1>4, <1>6, <1>7

-----------------------------------------------------------------------------
(* Reading and writing.                                                    *)

LEMMA CallStep ==
  ASSUME CdevInv, NEW t \in Threads, NEW op \in {"read", "write"}, NEW f \in Files,
         NEW fpos \in 0 .. MAX_BUFFER_LEN + 1, NEW n \in 0 .. MAX_BUFFER_LEN + 1,
         Call(t, op, f, fpos, n)
  PROVE  CdevInv'
<1> DEFINE at == IF fpos > MAX_BUFFER_LEN THEN 0 ELSE fpos
           c  == [NoCall EXCEPT !.pc = "down", !.op = op, !.file = f, !.at = at, !.count = Clamp(at, n)]
<1> USE DEF CdevInv, module, data
<1>1. /\ f \in open /\ call' = [call EXCEPT ![t] = c] /\ call[t].pc = "out"
      /\ UNCHANGED <<mod, have, todo, place, buffer, open, overlapped, sema, written, interrupts>>
  BY DEF Call
<1>2. MAX_BUFFER_LEN \in Nat
  BY CdevAssumption DEF CdevAssumption
<1>3. at \in Nat /\ Clamp(at, n) \in Nat /\ at + Clamp(at, n) <= MAX_BUFFER_LEN
  BY <1>2 DEF Clamp
<1> HIDE DEF at
<1>4. /\ c.pc = "down" /\ c.op = op /\ c.file = f /\ c.at = at /\ c.count = Clamp(at, n)
      /\ c.got = <<>> /\ c.pos = 0
  BY DEF NoCall
<1>5. c \in Calls
  <2> DEFINE c1 == [NoCall EXCEPT !.pc = "down"]
             c2 == [c1 EXCEPT !.op = op]
             c3 == [c2 EXCEPT !.file = f]
             c4 == [c3 EXCEPT !.at = at]
  <2>1. c1 \in Calls
    BY NoCallTyped DEF Calls
  <2> HIDE DEF c1
  <2>2. c2 \in Calls
    BY <2>1 DEF Calls
  <2> HIDE DEF c2
  <2>3. c3 \in Calls
    BY <2>2 DEF Calls
  <2> HIDE DEF c3
  <2>4. c4 \in Calls
    BY <1>3, <2>3 DEF Calls
  <2> HIDE DEF c4
  <2>5. [c4 EXCEPT !.count = Clamp(at, n)] \in Calls
    BY <1>3, <2>4 DEF Calls
  <2>6. c = [c4 EXCEPT !.count = Clamp(at, n)]
    BY DEF c1, c2, c3, c4
  <2> QED
    BY <2>5, <2>6
<1> HIDE DEF c
<1>6. /\ call' \in [Threads -> Calls] /\ call'[t] = c
      /\ \A u \in Threads : u # t => call'[u] = call[u]
  BY <1>1, <1>5, CallsAfter DEF ShapeInv
<1>7. ShapeInv'
  <2>1. CallOK(t)'
    BY <1>1, <1>3, <1>4, <1>6 DEF CallOK
  <2>2. \A u \in Threads : u # t => CallOK(u)'
    BY <1>1, <1>6 DEF ShapeInv, CallOK
  <2> QED
    BY <1>1, <1>6, <2>1, <2>2 DEF ShapeInv
<1>8. Copying' = Copying
  BY <1>1, <1>4, <1>6 DEF Copying
<1>9. CountInv' /\ StageInv' /\ BufferInv'
  BY <1>1, <1>8 DEF CountInv, Up, StageInv, BufferInv, BufferAccounted
<1>10. c.got = <<>> /\ c.pc = "down"
  BY <1>4
<1>11. DefaultInv'
  BY <1>1, <1>6, <1>10 DEF DefaultInv, DefaultUnlessOverlapped, DefaultString
<1>12. ReadsOneVersion'
  BY <1>1, <1>6, <1>10 DEF ReadsOneVersion
<1> QED
  BY <1>7, <1>9, <1>11, <1>12

\* A call in progress is on an open file, so that the module is there.
LEMMA InCall ==
  ASSUME CdevInv, mod # "oops", NEW t \in Threads, call[t].pc # "out"
  PROVE  /\ Up /\ open # {}
         /\ ~overlapped => place = "live"
         /\ sema \in Nat /\ interrupts \in Nat /\ sema + Cardinality(Copying) = 1 + interrupts
  BY DEF CdevInv, ShapeInv, CallOK, CountInv, BufferInv, BufferAccounted, Up

\* A thread comes past down(): it copies, and no other thread does so for that.
LEMMA Entered ==
  ASSUME CdevInv, mod # "oops", NEW t \in Threads, At(t, "down", "copy"), UNCHANGED <<module, data, written>>
  PROVE  /\ call' \in [Threads -> Calls] /\ \A u \in Threads : CallOK(u)'
         /\ \A u \in Threads : call'[u].got = call[u].got /\ call'[u].at = call[u].at
         /\ \A u \in Threads : call'[u].pc = "copy" => u = t \/ call[u].pc = "copy"
         /\ call'[t].got = <<>>
         /\ Cardinality(Copying') = Cardinality(Copying) + 1
         /\ StageInv' /\ BufferInv' /\ DefaultInv'
<1> DEFINE c == [call[t] EXCEPT !.pc = "copy"]
<1> USE DEF CdevInv, module, data
<1>1. /\ call[t].pc = "down" /\ call' = [call EXCEPT ![t] = c]
      /\ UNCHANGED <<mod, have, todo, place, buffer, open, overlapped, written>>
  BY DEF At
<1>2. call[t] \in Calls /\ CallOK(t)
  BY DEF ShapeInv
<1>3. c \in Calls
  BY <1>2 DEF Calls
<1>4. /\ c.pc = "copy" /\ c.op = call[t].op /\ c.file = call[t].file /\ c.at = call[t].at
      /\ c.count = call[t].count /\ c.got = call[t].got /\ c.pos = call[t].pos
  BY <1>2 DEF Calls
<1> HIDE DEF c
<1>5. /\ call' \in [Threads -> Calls] /\ call'[t] = c
      /\ \A u \in Threads : u # t => call'[u] = call[u]
  BY <1>1, <1>3, CallsAfter DEF ShapeInv
<1>6. \A u \in Threads : CallOK(u)'
  <2>1. CallOK(t)'
    BY <1>1, <1>2, <1>4, <1>5 DEF CallOK
  <2>2. \A u \in Threads : u # t => CallOK(u)'
    BY <1>1, <1>5 DEF ShapeInv, CallOK
  <2> QED
    BY <2>1, <2>2
<1>7. call[t].got = <<>>
  BY <1>1, <1>2 DEF CallOK
<1>8. Cardinality(Copying') = Cardinality(Copying) + 1
  <2>1. Copying' = Copying \cup {t} /\ t \notin Copying
    BY <1>1, <1>4, <1>5 DEF Copying
  <2> QED
    BY <2>1, CopyingFinite, FS_AddElement
<1>9. \A u \in Threads : call'[u].got = call[u].got /\ call'[u].at = call[u].at
  BY <1>4, <1>5
<1>10. StageInv' /\ BufferInv'
  BY <1>1 DEF StageInv, BufferInv, BufferAccounted
<1>11. DefaultInv'
  BY <1>1, <1>9 DEF DefaultInv, DefaultUnlessOverlapped, DefaultString
<1> QED
  BY <1>4, <1>5, <1>6, <1>7, <1>8, <1>9, <1>10, <1>11

LEMMA DownStep ==
  ASSUME CdevInv, mod # "oops", NEW t \in Threads, down(t)
  PROVE  CdevInv'
<1> USE DEF CdevInv
<1>1. /\ sema > 0 /\ sema' = sema - 1 /\ At(t, "down", "copy")
      /\ UNCHANGED <<module, data, written>> /\ UNCHANGED interrupts
  BY DEF down
<1>2. call[t].pc # "out"
  BY <1>1 DEF At
<1>3. Up /\ sema \in Nat /\ interrupts \in Nat /\ sema + Cardinality(Copying) = 1 + interrupts
  BY <1>2, InCall
<1>4. ShapeInv'
  <2>1. sema' \in 0 .. 1 + MaxInterrupts
    BY <1>1, CdevAssumption DEF CdevAssumption, ShapeInv
  <2> QED
    BY <1>1, <2>1, Entered DEF module, data, ShapeInv
<1>5. CountInv'
  BY <1>1, <1>3, Entered, CopyingFinite DEF CountInv, Up
<1>6. ReadsOneVersion'
  BY <1>1, Entered DEF module, data, ReadsOneVersion
<1> QED
  BY <1>1, <1>4, <1>5, <1>6, Entered

LEMMA InterruptedStep ==
  ASSUME CdevInv, mod # "oops", NEW t \in Threads, down_interrupted(t)
  PROVE  CdevInv'
<1> USE DEF CdevInv
<1>1. /\ sema = 0 /\ interrupts < MaxInterrupts /\ interrupts' = interrupts + 1 /\ At(t, "down", "copy")
      /\ UNCHANGED <<module, data, written>> /\ UNCHANGED sema
  BY DEF down_interrupted
<1>2. call[t].pc # "out"
  BY <1>1 DEF At
<1>3. Up /\ sema \in Nat /\ interrupts \in Nat /\ sema + Cardinality(Copying) = 1 + interrupts
  BY <1>2, InCall
<1>4. ShapeInv'
  <2>1. interrupts' \in 0 .. MaxInterrupts
    BY <1>1, CdevAssumption DEF CdevAssumption, ShapeInv
  <2> QED
    BY <1>1, <2>1, Entered DEF module, data, ShapeInv
<1>5. CountInv'
  BY <1>1, <1>3, Entered, CopyingFinite DEF CountInv, Up
<1>6. ReadsOneVersion'
  BY <1>1, <1>3 DEF ReadsOneVersion
<1> QED
  BY <1>1, <1>4, <1>5, <1>6, Entered

LEMMA OopsStep ==
  ASSUME CdevInv, mod # "oops", NEW t \in Threads, copy_oops(t)
  PROVE  CdevInv'
<1> USE DEF CdevInv, data
<1>1. Up /\ mod' = "oops" /\ UNCHANGED <<have, todo, data, sema, call, written, interrupts>>
  BY InCall DEF copy_oops
<1>2. ShapeInv'
  <2>1. \A u \in Threads : CallOK(u)'
    BY <1>1 DEF ShapeInv, CallOK
  <2> QED
    BY <1>1, <2>1 DEF ShapeInv
<1>3. CountInv' /\ StageInv' /\ BufferInv'
  BY <1>1 DEF CountInv, Up, StageInv, BufferInv, BufferAccounted
<1>4. DefaultInv' /\ ReadsOneVersion'
  BY <1>1 DEF DefaultInv, DefaultUnlessOverlapped, DefaultString, ReadsOneVersion
<1> QED
  BY <1>2, <1>3, <1>4

\* up(), after a copy that was whole or not.
LEMMA CopiedStep ==
  ASSUME CdevInv, mod # "oops", NEW t \in Threads, copied(t)
  PROVE  CdevInv'
<1> USE DEF CdevInv, module
<1>1. /\ call[t].pc = "copy" /\ call' = [call EXCEPT ![t] = NoCall] /\ sema' = sema + 1
      /\ buffer' \in Rest(call[t]) /\ written' = (written \/ buffer' # buffer)
      /\ UNCHANGED <<mod, have, todo, place, open, overlapped, interrupts>>
  BY DEF copied
<1>2. /\ Up /\ sema \in Nat /\ interrupts \in Nat
      /\ sema + Cardinality(Copying) = 1 + interrupts
  BY <1>1, InCall
<1>3. /\ call' \in [Threads -> Calls] /\ call'[t] = NoCall
      /\ \A u \in Threads : u # t => call'[u] = call[u]
  BY <1>1, NoCallTyped, CallsAfter DEF ShapeInv
<1>4. /\ IsFiniteSet(Copying \ {t}) /\ Copying' = Copying \ {t} /\ t \in Copying
      /\ Cardinality(Copying') = Cardinality(Copying) - 1
  <2>1. Copying' = Copying \ {t} /\ t \in Copying
    BY <1>1, <1>3 DEF Copying, NoCall
  <2> QED
    BY <2>1, CopyingFinite, FS_RemoveElement
<1>5. Cardinality(Copying) \in Nat /\ Cardinality(Copying') \in Nat
  BY <1>4, CopyingFinite, FS_CardinalityType
<1>6. ShapeInv'
  <2>1. sema' \in 0 .. 1 + MaxInterrupts
    BY <1>1, <1>2, <1>4, <1>5, CdevAssumption DEF CdevAssumption, ShapeInv
  <2>2. buffer' \in [Cells -> Values]
    BY <1>1 DEF Rest, ShapeInv, Values
  <2>3. CallOK(t)'
    BY <1>3, CdevAssumption DEF CdevAssumption, CallOK, NoCall
  <2>4. \A u \in Threads : u # t => CallOK(u)'
    BY <1>1, <1>3 DEF ShapeInv, CallOK
  <2>5. written' \in BOOLEAN
    BY <1>1
  <2> QED
    BY <1>1, <1>3, <2>1, <2>2, <2>3, <2>4, <2>5 DEF ShapeInv
<1>7. CountInv' /\ StageInv' /\ BufferInv'
  BY <1>1, <1>2, <1>4, <1>5 DEF CountInv, Up, StageInv, BufferInv, BufferAccounted
<1>8. DefaultInv'
  <2>1. NoCall.got = <<>>
    BY DEF NoCall
  <2>2. ~written' => ~written /\ buffer' = buffer
    BY <1>1 DEF ShapeInv
  <2>3. \A u \in Threads : \A i \in DOMAIN call'[u].got : call'[u] = call[u]
    BY <1>3, <2>1
  <2> QED
    BY <1>1, <2>2, <2>3 DEF DefaultInv, DefaultUnlessOverlapped, DefaultString
<1>9. ReadsOneVersion'
  <2>1. interrupts = 0 => Copying' = {}
    BY <1>1, <1>2, <1>4, OnlyCopier DEF Copying
  <2> QED
    BY <1>1, <2>1 DEF ReadsOneVersion, Copying
<1> QED
  BY <1>6, <1>7, <1>8, <1>9

\* One cell is copied.  A writer that is alone changes nothing that a read has
\* seen; what a reader gets is what the buffer holds, or anything if overlapping
\* openers lost it.
LEMMA CopyStep ==
  ASSUME CdevInv, mod # "oops", NEW t \in Threads, copy(t)
  PROVE  CdevInv'
<1> USE DEF CdevInv, module
<1>1. /\ call[t].pc = "copy" /\ call[t].pos < call[t].count
      /\ UNCHANGED <<mod, have, todo, sema, place, open, overlapped, interrupts>>
  BY DEF copy
<1>2. Up /\ (~overlapped => place = "live")
  BY <1>1, InCall
<1>3. call[t] \in Calls /\ CallOK(t) /\ buffer \in [Cells -> Values]
  BY DEF ShapeInv
<1>4. call[t].at + call[t].pos \in Cells /\ call[t].pos + 1 <= call[t].count
  BY <1>1, <1>3, CdevAssumption DEF CdevAssumption, Calls, CallOK, Cells
<1>5. CASE call[t].op = "write"
  <2> DEFINE c == [call[t] EXCEPT !.pos = @ + 1]
  <2>1. /\ call' = [call EXCEPT ![t] = c] /\ written' = TRUE
        /\ buffer' = IF place = "live" THEN [buffer EXCEPT ![call[t].at + call[t].pos] = t] ELSE buffer
    BY <1>5 DEF copy
  <2>2. c \in Calls
    BY <1>3 DEF Calls
  <2>3. /\ c.pc = "copy" /\ c.op = call[t].op /\ c.file = call[t].file /\ c.at = call[t].at
        /\ c.count = call[t].count /\ c.got = call[t].got /\ c.pos = call[t].pos + 1
    BY <1>1, <1>3 DEF Calls
  <2> HIDE DEF c
  <2>4. /\ call' \in [Threads -> Calls] /\ call'[t] = c
        /\ \A u \in Threads : u # t => call'[u] = call[u]
    BY <2>1, <2>2, CallsAfter DEF ShapeInv
  <2>5. ShapeInv'
    <3>1. buffer' \in [Cells -> Values]
      BY <1>3, <1>4, <2>1 DEF Values
    <3>2. CallOK(t)'
      BY <1>1, <1>3, <1>4, <1>5, <2>3, <2>4 DEF CallOK
    <3>3. \A u \in Threads : u # t => CallOK(u)'
      BY <1>1, <2>4 DEF ShapeInv, CallOK
    <3> QED
      BY <1>1, <2>1, <2>4, <3>1, <3>2, <3>3 DEF ShapeInv
  <2>6. Copying' = Copying
    BY <1>1, <2>3, <2>4 DEF Copying
  <2>7. CountInv' /\ StageInv' /\ BufferInv'
    BY <1>1, <2>6 DEF CountInv, Up, StageInv, BufferInv, BufferAccounted
  <2>8. DefaultInv'
    BY <2>1 DEF DefaultInv, DefaultUnlessOverlapped, DefaultString
  <2>9. ReadsOneVersion'
    <3>1. ASSUME interrupts = 0, NEW u \in Threads, call'[u].pc = "copy"
          PROVE  call'[u].got = <<>>
      <4>1. call[u].pc = "copy"
        BY <1>1, <2>4, <3>1
      <4>2. u = t
        BY <1>1, <1>2, <3>1, <4>1, OnlyCopier
      <4> QED
        BY <1>3, <1>5, <2>3, <2>4, <4>2 DEF CallOK
    <3> QED
      BY <1>1, <3>1 DEF ReadsOneVersion
  <2> QED
    BY <2>5, <2>7, <2>8, <2>9
<1>6. CASE call[t].op # "write"
  <2>1. PICK x \in IF place = "live" THEN {buffer[call[t].at + call[t].pos]} ELSE {"junk"} :
          call' = [call EXCEPT ![t].pos = @ + 1, ![t].got = Append(@, x)]
    BY <1>6 DEF copy
  <2>2. UNCHANGED <<buffer, written>>
    BY <1>6 DEF copy
  <2> DEFINE c == [call[t] EXCEPT !.pos = @ + 1, !.got = Append(@, x)]
  <2>3. call' = [call EXCEPT ![t] = c]
    BY <2>1 DEF ShapeInv
  <2>4. x \in Values
    BY <1>3, <1>4 DEF Values
  <2>5. /\ call[t].got \in Seq(Values) /\ Append(call[t].got, x) \in Seq(Values)
        /\ Len(Append(call[t].got, x)) = Len(call[t].got) + 1
        /\ Append(call[t].got, x)[Len(call[t].got) + 1] = x
        /\ \A i \in 1 .. Len(call[t].got) : Append(call[t].got, x)[i] = call[t].got[i]
    BY <1>3, <2>4 DEF Calls
  <2>6. c \in Calls
    <3> DEFINE c1 == [call[t] EXCEPT !.pos = @ + 1]
    <3>1. c1 \in Calls /\ c1.got = call[t].got
      BY <1>3 DEF Calls
    <3> HIDE DEF c1
    <3>2. [c1 EXCEPT !.got = Append(call[t].got, x)] \in Calls
      BY <2>5, <3>1 DEF Calls
    <3>3. c = [c1 EXCEPT !.got = Append(call[t].got, x)]
      BY <3>1 DEF c1
    <3> QED
      BY <3>2, <3>3
  <2>7. /\ c.pc = "copy" /\ c.op = call[t].op /\ c.file = call[t].file /\ c.at = call[t].at
        /\ c.count = call[t].count /\ c.got = Append(call[t].got, x) /\ c.pos = call[t].pos + 1
    BY <1>1, <1>3 DEF Calls
  <2> HIDE DEF c
  <2>8. /\ call' \in [Threads -> Calls] /\ call'[t] = c
        /\ \A u \in Threads : u # t => call'[u] = call[u]
    BY <2>3, <2>6, CallsAfter DEF ShapeInv
  <2>9. call[t].op = "read" /\ Len(call[t].got) = call[t].pos
    BY <1>1, <1>3, <1>6 DEF CallOK
  <2>10. ShapeInv'
    <3>1. CallOK(t)'
      BY <1>1, <1>3, <1>4, <2>5, <2>7, <2>8, <2>9 DEF CallOK
    <3>2. \A u \in Threads : u # t => CallOK(u)'
      BY <1>1, <2>8 DEF ShapeInv, CallOK
    <3> QED
      BY <1>1, <2>2, <2>8, <3>1, <3>2 DEF ShapeInv
  <2>11. Copying' = Copying
    BY <1>1, <2>7, <2>8 DEF Copying
  <2>12. CountInv' /\ StageInv' /\ BufferInv'
    BY <1>1, <2>2, <2>11 DEF CountInv, Up, StageInv, BufferInv, BufferAccounted
  <2>13. DOMAIN c.got = 1 .. Len(call[t].got) + 1 /\ DOMAIN call[t].got = 1 .. Len(call[t].got)
         /\ Len(call[t].got) \in Nat
    BY <2>5, <2>7
  <2>14. ASSUME ~overlapped
         PROVE  c.at + (Len(call[t].got) + 1) - 1 \in Cells /\ x = buffer[c.at + (Len(call[t].got) + 1) - 1]
    <3>1. c.at + (Len(call[t].got) + 1) - 1 = call[t].at + call[t].pos
      BY <1>3, <2>7, <2>9 DEF Calls
    <3>2. x = buffer[call[t].at + call[t].pos]
      BY <1>2, <2>1, <2>14
    <3> QED
      BY <1>4, <3>1, <3>2
  <2>15. DefaultInv'
    <3>1. ASSUME ~overlapped, ~written, NEW i \in DOMAIN c.got, c.at + i - 1 < DefaultLen
          PROVE  c.got[i] = "default"
      <4>1. CASE i = Len(call[t].got) + 1
        <5>1. open # {}
          BY <1>1, InCall
        <5>2. c.got[i] = buffer[c.at + i - 1] /\ c.at + i - 1 \in Cells
          BY <2>5, <2>7, <2>14, <3>1, <4>1
        <5> QED
          BY <3>1, <5>1, <5>2 DEF DefaultInv
      <4>2. CASE i \in DOMAIN call[t].got
        <5>1. c.got[i] = call[t].got[i] /\ c.at = call[t].at
          BY <2>5, <2>7, <2>13, <4>2
        <5> QED
          BY <3>1, <4>2, <5>1 DEF DefaultInv, DefaultUnlessOverlapped, DefaultString
      <4> QED
        BY <2>13, <4>1, <4>2
    <3>2. ASSUME ~overlapped, ~written, NEW u \in Threads, NEW i \in DOMAIN call'[u].got,
                 call'[u].at + i - 1 < DefaultLen
          PROVE  call'[u].got[i] = "default"
      <4>1. CASE u = t
        BY <2>8, <3>1, <3>2, <4>1
      <4>2. CASE u # t
        BY <2>8, <3>2, <4>2 DEF DefaultInv, DefaultUnlessOverlapped, DefaultString
      <4> QED
        BY <4>1, <4>2
    <3> QED
      BY <1>1, <2>2, <3>2 DEF DefaultInv, DefaultUnlessOverlapped, DefaultString
  <2>16. ReadsOneVersion'
    <3>1. ASSUME interrupts = 0, ~overlapped, NEW i \in DOMAIN c.got
          PROVE  c.got[i] = buffer[c.at + i - 1]
      <4>1. CASE i = Len(call[t].got) + 1
        BY <2>5, <2>7, <2>14, <3>1, <4>1
      <4>2. CASE i \in DOMAIN call[t].got
        <5>1. c.got[i] = call[t].got[i] /\ c.at = call[t].at
          BY <2>5, <2>7, <2>13, <4>2
        <5> QED
          BY <1>1, <3>1, <4>2, <5>1 DEF ReadsOneVersion
      <4> QED
        BY <2>13, <4>1, <4>2
    <3>2. ASSUME interrupts = 0, ~overlapped, NEW u \in Threads, call'[u].pc = "copy",
                 NEW i \in DOMAIN call'[u].got
          PROVE  call'[u].got[i] = buffer[call'[u].at + i - 1]
      <4>1. CASE u = t
        BY <2>8, <3>1, <3>2, <4>1
      <4>2. CASE u # t
        BY <2>8, <3>2, <4>2 DEF ReadsOneVersion
      <4> QED
        BY <4>1, <4>2
    <3> QED
      BY <1>1, <2>2, <3>2 DEF ReadsOneVersion
  <2> QED
    BY <2>10, <2>12, <2>15, <2>16
<1> QED
  BY <1>5, <1>6

-----------------------------------------------------------------------------
(* The theorems.                                                           *)

LEMMA Inductive == CdevInv /\ [Next]_vars => CdevInv'
<1> SUFFICES ASSUME CdevInv, [Next]_vars PROVE CdevInv'
  OBVIOUS
<1>1. CASE UNCHANGED vars
  <2>1. UNCHANGED <<mod, have, todo, place, buffer, open, overlapped, sema, call, written, interrupts>>
    BY <1>1 DEF vars, module, data
  <2>2. ShapeInv'
    BY <2>1 DEF CdevInv, ShapeInv, CallOK
  <2>3. CountInv' /\ StageInv' /\ BufferInv' /\ DefaultInv' /\ ReadsOneVersion'
    BY <2>1 DEF CdevInv, CountInv, Up, Copying, StageInv, BufferInv, BufferAccounted, DefaultInv,
       DefaultUnlessOverlapped, DefaultString, ReadsOneVersion
  <2> QED
    BY <2>2, <2>3 DEF CdevInv
<1>2. CASE Reboot
  BY <1>2, RebootStep
<1>3. CASE mod # "oops" /\ Module
  BY <1>3, InitStep, InitFailsStep, ExitStep, UndoStep DEF Module
<1>4. ASSUME mod # "oops", NEW f \in Files, simple_open(f) \/ simple_open_fails(f) \/ simple_release(f)
      PROVE  CdevInv'
  BY <1>4, OpenStep, OpenFailsStep, ReleaseStep
<1>5. ASSUME NEW t \in Threads, NEW op \in {"read", "write"}, NEW f \in Files,
             NEW fpos \in 0 .. MAX_BUFFER_LEN + 1, NEW n \in 0 .. MAX_BUFFER_LEN + 1, Call(t, op, f, fpos, n)
      PROVE  CdevInv'
  BY <1>5, CallStep
<1>6. ASSUME mod # "oops", NEW t \in Threads, Step(t)
      PROVE  CdevInv'
  BY <1>6, DownStep, InterruptedStep, CopyStep, OopsStep, CopiedStep DEF Step
<1> QED
  BY <1>1, <1>2, <1>3, <1>4, <1>5, <1>6 DEF Next

\* At any time the module has the first so many of the five things.
LEMMA SomeGot ==
  ASSUME CdevInv
  PROVE  \E n \in 0 .. 5 : have = Got(n)
<1>1. mod \in {"unloaded", "loading", "failing", "live", "unloading", "oops"} /\ StageInv
  BY DEF CdevInv, ShapeInv
<1>2. CASE mod = "unloaded"
  <2>1. have = Got(0)
    BY <1>1, <1>2, GotSets DEF StageInv
  <2> QED
    BY <2>1
<1>3. CASE mod = "loading"
  BY <1>1, <1>3 DEF StageInv
<1>4. CASE mod \in {"live", "oops"}
  BY <1>1, <1>4 DEF StageInv
<1>5. CASE mod \in {"failing", "unloading"}
  <2>1. have \in {Got(1), Got(2), Got(3), Got(4), Got(5)}
    BY <1>1, <1>5 DEF StageInv
  <2> QED
    BY <2>1
<1> QED
  BY <1>1, <1>2, <1>3, <1>4, <1>5

\* The invariant holds of every behaviour, for any value of the constants.
THEOREM CdevCorrect == Spec => []CdevInv
  BY CdevInit, Inductive, PTL DEF Spec

\* For any number of threads, files, cells and signals: the lock counts one, and
\* one more for each wait that a signal cut off.
THEOREM SignalsCount == Spec => []EachSignalCountsOnce
<1>1. CdevInv => EachSignalCountsOnce
  BY DEF CdevInv, CountInv, Copying, Up, EachSignalCountsOnce
<1> QED
  BY <1>1, CdevCorrect, PTL

\* For any of them: without a signal and with one opener no read mixes two writes.
THEOREM ReadsWhole == Spec => []ReadsOneVersion
<1>1. CdevInv => ReadsOneVersion
  BY DEF CdevInv
<1> QED
  BY <1>1, CdevCorrect, PTL

\* For any of them: one opener at a time reads the default string until
\* something is written.
THEOREM DefaultRead == Spec => []DefaultUnlessOverlapped
<1>1. CdevInv => DefaultUnlessOverlapped
  BY DEF CdevInv, DefaultInv
<1> QED
  BY <1>1, CdevCorrect, PTL

\* For any of them: one opener at a time has a buffer, and none is left over.
THEOREM BufferFreed == Spec => []BufferAccounted
<1>1. CdevInv => BufferAccounted
  BY DEF CdevInv, BufferInv
<1> QED
  BY <1>1, CdevCorrect, PTL

\* Whichever step of loading fails, what was got before it is given back.
THEOREM LoadingUnwound == Spec => []Unwound
<1>1. CdevInv => Unwound
  <2> SUFFICES ASSUME CdevInv PROVE Unwound
    OBVIOUS
  <2>1. \E n \in 0 .. 5 : have = Got(n)
    BY SomeGot
  <2> QED
    BY <2>1 DEF CdevInv, StageInv, Unwound, Got, Order
<1> QED
  BY <1>1, CdevCorrect, PTL

\* For any of them the state keeps its shape; no call reaches a cell past the
\* buffer.
THEOREM TypeCorrect == Spec => []TypeOK
<1>1. CdevInv => TypeOK
  <2> SUFFICES ASSUME CdevInv PROVE TypeOK
    OBVIOUS
  <2>1. have \subseteq {Order[i] : i \in DOMAIN Order}
    <3>1. \E n \in 0 .. 5 : have = Got(n)
      BY SomeGot
    <3> QED
      BY <3>1 DEF Got, Order
  <2>2. \A t \in Threads : call[t] \in Calls /\ CallOK(t)
    BY DEF CdevInv, ShapeInv
  <2> QED
    BY <2>1, <2>2 DEF CdevInv, ShapeInv, CallOK, Calls, TypeOK
<1> QED
  BY <1>1, CdevCorrect, PTL
=============================================================================
