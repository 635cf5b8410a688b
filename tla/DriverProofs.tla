---------------------------- MODULE DriverProofs ----------------------------
(* Proofs about the small drivers and exercises of k_a_dd: the timer,        *)
(* MyTimer.tla, the files in debugfs, MyDebugfs.tla, the driver of the RF    *)
(* card, RfCardHid.tla, and the search for it, HidOpen.tla; for any counter, *)
(* users, cards, numbers and nodes.                                          *)
EXTENDS MyTimer, MyDebugfs, RfCardHid, HidOpen, TLAPS

-----------------------------------------------------------------------------
(* The timer.                                                              *)

\* A timer is pending or running only while there is a module.
TimerInv == /\ live \in {"unloaded", "loaded", "leaving"}
            /\ my_timer \in {"idle", "pending", "running"}
            /\ NothingRunsAfterUnload

\* del_timer_sync at the end of mytimer_exit is enough: whenever the module's
\* memory is free, no timer is pending and no callback runs.
THEOREM TimerUnloadSafe == TimerSpec => []NothingRunsAfterUnload
<1>1. TimerInit => TimerInv
  BY DEF TimerInit, TimerInv, NothingRunsAfterUnload
<1>2. TimerInv /\ [TimerNext]_timerVars => TimerInv'
  <2> SUFFICES ASSUME TimerInv, [TimerNext]_timerVars PROVE TimerInv'
    OBVIOUS
  <2> USE DEF TimerInv, NothingRunsAfterUnload
  <2>1. CASE mytimer_init
    BY <2>1 DEF mytimer_init
  <2>2. CASE tick
    BY <2>2 DEF tick
  <2>3. CASE expire
    BY <2>3 DEF expire
  <2>4. CASE callback_func
    BY <2>4 DEF callback_func
  <2>5. CASE mytimer_exit
    BY <2>5 DEF mytimer_exit
  <2>6. CASE unloaded
    BY <2>6 DEF unloaded, del_timer_sync
  <2>7. CASE UNCHANGED timerVars
    BY <2>7 DEF timerVars
  <2> QED
    BY <2>1, <2>2, <2>3, <2>4, <2>5, <2>6, <2>7 DEF TimerNext
<1>3. TimerInv => NothingRunsAfterUnload
  BY DEF TimerInv
<1> QED
  BY <1>1, <1>2, <1>3, PTL DEF TimerSpec

-----------------------------------------------------------------------------
(* The files in debugfs.                                                   *)

\* What is there at each step of mydebugfs_init; and who has a file open while
\* there is none to open had it open at a removal.
DebugfsInv == /\ step \in {"unloaded", "dir", "u8_a", "blob", "live"}
              /\ step \in {"unloaded", "dir"} => entries = {}
              /\ step = "u8_a" => entries = {"dir"}
              /\ step = "blob" => entries = {"dir", "u8_a"}
              /\ step = "live" => entries = {"dir", "u8_a", "blob"}
              /\ \A u \in Users : step \in {"unloaded", "dir"} /\ opened[u] # "none" => u \in survived
              /\ opened \in [Users -> {"none", "u8_a", "blob"}]
              /\ stale \subseteq survived

LEMMA DebugfsInitInv == DebugfsInit => DebugfsInv
  BY DEF DebugfsInit, DebugfsInv

LEMMA DebugfsStepInv == DebugfsInv /\ [DebugfsNext]_debugfsVars => DebugfsInv'
<1> SUFFICES ASSUME DebugfsInv, [DebugfsNext]_debugfsVars PROVE DebugfsInv'
  OBVIOUS
<1> USE DEF DebugfsInv
<1>1. CASE mydebugfs_init
  BY <1>1 DEF mydebugfs_init
<1>2. CASE dir_fails
  BY <1>2 DEF dir_fails
<1>3. CASE create
  BY <1>3 DEF create, after
<1>4. CASE removed
  BY <1>4 DEF removed, remove_recursive
<1>5. ASSUME NEW u \in Users, NEW f \in FilesOf, open_file(u, f)
      PROVE  DebugfsInv'
  BY <1>5 DEF open_file, FilesOf
<1>6. ASSUME NEW u \in Users, access(u)
      PROVE  DebugfsInv'
  BY <1>6 DEF access
<1>7. ASSUME NEW u \in Users, close_file(u)
      PROVE  DebugfsInv'
  BY <1>7 DEF close_file
<1>8. CASE UNCHANGED debugfsVars
  BY <1>8 DEF debugfsVars
<1> QED
  BY <1>1, <1>2, <1>3, <1>4, <1>5, <1>6, <1>7, <1>8 DEF DebugfsNext, Fail, mydebugfs_exit

\* For any users: a load makes all of the entries or none, and a removal leaves
\* none, so that the next load finds the name free.
THEOREM DebugfsAllOrNone == DebugfsSpec => []EntriesAllOrNone
<1>1. DebugfsInv => EntriesAllOrNone
  BY DEF DebugfsInv, EntriesAllOrNone, FilesOf
<1> QED
  BY <1>1, DebugfsInitInv, DebugfsStepInv, PTL DEF DebugfsSpec

\* For any users: the memory of a removed module is reached through files that
\* were open when it was removed and through no other.
THEOREM DebugfsStaleFiles == DebugfsSpec => []OnlyOldFilesStale
<1>1. DebugfsInv => OnlyOldFilesStale
  BY DEF DebugfsInv, OnlyOldFilesStale
<1> QED
  BY <1>1, DebugfsInitInv, DebugfsStepInv, PTL DEF DebugfsSpec

-----------------------------------------------------------------------------
(* The driver of the RF card.                                              *)

\* What a card has at each step of its probe, and after it.
CardInv(c) ==
  /\ card[c] \in Steps \cup {"absent", "bound", "refused", "gone"}
  /\ c \in sc <=> \/ card[c] \in Steps \ {"alloc"}
                  \/ card[c] \in {"bound", "gone"} /\ c \in cdevs
  /\ c \in started <=> \/ card[c] \in {"send", "receive", "region", "cdev", "add"}
                       \/ card[c] = "bound" /\ c \in cdevs
  /\ c \in cdevs => card[c] \in {"bound", "gone"}
  /\ c \in reserved => card[c] \in {"bound", "gone", "absent"}

RfInv == /\ DOMAIN card = Cards
         /\ \A c \in Cards : CardInv(c)

LEMMA RfInitInv == RfInit => RfInv
  BY DEF RfInit, RfInv, CardInv, Steps

\* A step of one card's probe or removal changes that card alone.
LEMMA RfStepInv == RfInv /\ [RfNext]_rfVars => RfInv'
<1> SUFFICES ASSUME RfInv, [RfNext]_rfVars PROVE RfInv'
  OBVIOUS
<1>1. CASE UNCHANGED rfVars
  BY <1>1 DEF rfVars, RfInv, CardInv
<1>2. ASSUME NEW c \in Cards,
             \/ rf_probe(c) \/ kzalloc(c) \/ hid_parse(c) \/ hid_hw_start(c)
             \/ rf_msg_read(c) \/ alloc_chrdev_region(c) \/ cdev_alloc(c)
             \/ cdev_add(c) \/ rf_remove(c) \/ replug(c)
      PROVE  RfInv'
  <2> USE DEF RfInv
  <2> SUFFICES ASSUME NEW d \in Cards PROVE DOMAIN card' = Cards /\ CardInv(d)'
    OBVIOUS
  <2>0. CardInv(c) /\ CardInv(d)
    OBVIOUS
  <2> USE <2>0 DEF CardInv, Steps, goes
  <2>1. CASE rf_probe(c)
    BY <2>1 DEF rf_probe
  <2>2. CASE kzalloc(c)
    BY <2>2 DEF kzalloc
  <2>3. CASE hid_parse(c)
    BY <2>3 DEF hid_parse, err_free
  <2>4. CASE hid_hw_start(c)
    BY <2>4 DEF hid_hw_start, err_free
  <2>5. CASE rf_msg_read(c)
    BY <2>5 DEF rf_msg_read
  <2>6. CASE alloc_chrdev_region(c)
    BY <2>6 DEF alloc_chrdev_region, err_stop, err_free
  <2>7. CASE cdev_alloc(c)
    BY <2>7 DEF cdev_alloc, err_cdev_num, err_stop, err_free
  <2>8. CASE cdev_add(c)
    BY <2>8 DEF cdev_add, err_cdev_num, err_stop, err_free
  <2>9. CASE rf_remove(c)
    BY <2>9 DEF rf_remove
  <2>10. CASE replug(c)
    BY <2>10 DEF replug
  <2> QED
    BY <1>2, <2>1, <2>2, <2>3, <2>4, <2>5, <2>6, <2>7, <2>8, <2>9, <2>10
<1> QED
  BY <1>1, <1>2 DEF RfNext

\* For any cards probed in any order, and any numbers: a probe that fails undoes
\* what it did, the number included; a card that is bound has its memory, its
\* running hardware and its character device together or has none of the three,
\* and removal leaves the first and the last behind.
THEOREM RfProbe == RfSpec => []NoProbeHalfDone
<1>1. RfInv => RefusedLeavesNothing
  BY DEF RfInv, CardInv, Steps, RefusedLeavesNothing
<1>2. RfInv => BoundWholeOrEmpty
  BY DEF RfInv, CardInv, Steps, BoundWholeOrEmpty
<1>3. RfInv => NoProbeHalfDone
  BY <1>1, <1>2 DEF NoProbeHalfDone
<1> QED
  BY <1>3, RfInitInv, RfStepInv, PTL DEF RfSpec

\* A card that is probed while no other is has the device pointer for itself.
OwnInv == /\ DOMAIN card = Cards
          /\ \A c \in Probing : c \notin overlapped => __dev = c /\ Probing = {c}
          /\ OwnCardUnlessOverlapped

\* A card that is not seen for the first time starts no probe.
LEMMA NoneStarts ==
  ASSUME NEW c \in Cards, NEW s, DOMAIN card = Cards, goes(c, s), c \in Probing \/ s \notin Steps
  PROVE  DOMAIN card' = Cards /\ Probing' \subseteq Probing
<1>1. DOMAIN card' = Cards /\ \A d \in Cards : card'[d] = IF d = c THEN s ELSE card[d]
  BY DEF goes
<1> QED BY <1>1 DEF Probing

LEMMA OwnKept ==
  ASSUME OwnInv, DOMAIN card' = Cards, Probing' \subseteq Probing,
         UNCHANGED <<__dev, overlapped>>,
         misdirected' \subseteq misdirected \cup overlapped
  PROVE  OwnInv'
<1>1. /\ misdirected \subseteq overlapped
      /\ \A d \in Probing : d \notin overlapped => __dev = d /\ Probing = {d}
  BY DEF OwnInv, OwnCardUnlessOverlapped
<1>2. ASSUME NEW d \in Probing', d \notin overlapped' PROVE __dev' = d /\ Probing' = {d}
  <2>1. __dev = d /\ Probing = {d}
    BY <1>1, <1>2
  <2> QED BY <1>2, <2>1
<1>3. misdirected' \subseteq overlapped'
  BY <1>1
<1> QED BY <1>2, <1>3 DEF OwnInv, OwnCardUnlessOverlapped

LEMMA OwnStepInv == OwnInv /\ [RfNext]_rfVars => OwnInv'
<1> SUFFICES ASSUME OwnInv, [RfNext]_rfVars PROVE OwnInv'
  OBVIOUS
<1>1. CASE UNCHANGED rfVars
  BY <1>1 DEF rfVars, OwnInv, OwnCardUnlessOverlapped, Probing
<1>2. ASSUME NEW c \in Cards, rf_probe(c) PROVE OwnInv'
  <2>1. /\ DOMAIN card = Cards /\ misdirected \subseteq overlapped
        /\ card' = [card EXCEPT ![c] = "alloc"] /\ __dev' = c
        /\ misdirected' = misdirected \ {c}
        /\ overlapped' = IF Probing = {} THEN overlapped \ {c} ELSE overlapped \cup {c} \cup Probing
    BY <1>2 DEF rf_probe, goes, set_dev, OwnInv, OwnCardUnlessOverlapped
  <2>2. DOMAIN card' = Cards /\ Probing' = Probing \cup {c}
    BY <2>1 DEF Probing, Steps
  <2>3. CASE Probing = {}
    BY <2>1, <2>2, <2>3 DEF OwnInv, OwnCardUnlessOverlapped
  <2>4. CASE Probing # {}
    <3>1. overlapped' = overlapped \cup {c} \cup Probing
      BY <2>1, <2>4
    <3>2. \A d \in Probing' : d \in overlapped'
      BY <2>2, <3>1
    <3>3. misdirected' \subseteq overlapped'
      BY <2>1, <3>1
    <3> QED BY <2>2, <3>2, <3>3 DEF OwnInv, OwnCardUnlessOverlapped
  <2> QED BY <2>3, <2>4
<1>3. ASSUME NEW c \in Cards, rf_msg_read(c) PROVE OwnInv'
  <2>1. c \in Probing /\ DOMAIN card = Cards
    BY <1>3 DEF rf_msg_read, Probing, Steps, OwnInv
  <2>2. DOMAIN card' = Cards /\ Probing' \subseteq Probing
    BY <1>3, <2>1, NoneStarts DEF rf_msg_read
  <2>3. UNCHANGED <<__dev, overlapped>> /\ misdirected' \subseteq misdirected \cup overlapped
    BY <1>3, <2>1 DEF rf_msg_read, OwnInv
  <2> QED BY <2>2, <2>3, OwnKept
<1>4. ASSUME NEW c \in Cards,
             \/ kzalloc(c) \/ hid_parse(c) \/ hid_hw_start(c)
             \/ alloc_chrdev_region(c) \/ cdev_alloc(c) \/ cdev_add(c)
      PROVE  OwnInv'
  <2>1. c \in Probing /\ DOMAIN card = Cards
    BY <1>4 DEF Probing, Steps, OwnInv,
       kzalloc, hid_parse, hid_hw_start, alloc_chrdev_region, cdev_alloc, cdev_add
  <2>2. UNCHANGED <<__dev, overlapped, misdirected>>
    BY <1>4 DEF kzalloc, hid_parse, hid_hw_start, alloc_chrdev_region, cdev_alloc, cdev_add
  <2>3. \E s : goes(c, s)
    BY <1>4, Zenon DEF kzalloc, hid_parse, hid_hw_start, alloc_chrdev_region, cdev_alloc, cdev_add,
       err_cdev_num, err_stop, err_free
  <2>4. DOMAIN card' = Cards /\ Probing' \subseteq Probing
    BY <2>1, <2>3, NoneStarts
  <2> QED BY <2>2, <2>4, OwnKept
<1>5. ASSUME NEW c \in Cards, rf_remove(c) \/ replug(c) PROVE OwnInv'
  <2>1. UNCHANGED <<__dev, overlapped, misdirected>> /\ DOMAIN card = Cards
    BY <1>5 DEF rf_remove, replug, OwnInv
  <2>2. "gone" \notin Steps /\ "absent" \notin Steps /\ (goes(c, "gone") \/ goes(c, "absent"))
    BY <1>5 DEF rf_remove, replug, Steps
  <2>3. DOMAIN card' = Cards /\ Probing' \subseteq Probing
    BY <2>1, <2>2, NoneStarts
  <2> QED BY <2>1, <2>3, OwnKept
<1> QED
  BY <1>1, <1>2, <1>3, <1>4, <1>5 DEF RfNext

\* For any cards and numbers: the messages of a probe go to its own card, the one
\* device pointer of the driver notwithstanding, if no other probe runs beside it.
THEOREM RfOwnCard == RfSpec => []OwnCardUnlessOverlapped
<1>1. RfInit => OwnInv
  BY DEF RfInit, OwnInv, OwnCardUnlessOverlapped, Probing, Steps
<1>2. OwnInv => OwnCardUnlessOverlapped
  BY DEF OwnInv
<1> QED
  BY <1>1, <1>2, OwnStepInv, PTL DEF RfSpec

-----------------------------------------------------------------------------
(* The search for it.                                                      *)

\* A card ends the search; what the stack held counts before the first answer.
OpenInv == /\ node \in 0 .. Nodes
           /\ plugged \in [0 .. Nodes - 1 -> {"none", "other", "card"}]
           /\ looking \in {"open", "ask", "found", "ENODEV", "closed"}
           /\ looking \in {"open", "ask", "found"} => node < Nodes
           /\ fds = IF looking \in {"ask", "found"} THEN {node} ELSE {}
           /\ looking \in {"open", "ask"} /\ dev_info = "card" => tried = {} /\ answered = {}
           /\ FoundIsCard

LEMMA OpenInitInv == OpenInit => OpenInv
  BY NodesAssumption DEF NodesAssumption, OpenInit, OpenInv, FoundIsCard

LEMMA OpenStepInv == OpenInv /\ [OpenNext]_openVars => OpenInv'
<1> SUFFICES ASSUME OpenInv, [OpenNext]_openVars PROVE OpenInv'
  OBVIOUS
<1> USE NodesAssumption DEF NodesAssumption, OpenInv, FoundIsCard
<1>1. CASE open_node
  BY <1>1 DEF open_node, next_node
<1>2. CASE ask_node
  <2>1. /\ looking = "ask" /\ plugged' = plugged /\ tried' = tried \cup {node}
        /\ \/ dev_info' = plugged[node]
           \/ dev_info' = dev_info /\ answered' = answered
    BY <1>2 DEF ask_node
  <2>2. CASE dev_info' = "card"
    <3>1. node' = node /\ looking' = "found" /\ fds' = fds
      BY <1>2, <2>2 DEF ask_node, is_card
    <3>2. plugged[node] # "card" => tried' = {node} /\ answered' = {}
      BY <2>1, <2>2
    <3> QED
      BY <2>1, <3>1, <3>2
  <2>3. CASE dev_info' # "card"
    BY <1>2, <2>1, <2>3 DEF ask_node, is_card, close, next_node
  <2> QED
    BY <2>2, <2>3
<1>3. CASE rf_close
  BY <1>3 DEF rf_close, close
<1>4. CASE UNCHANGED openVars
  BY <1>4 DEF openVars
<1> QED
  BY <1>1, <1>2, <1>3, <1>4 DEF OpenNext

\* For any number of nodes: at most the one that rf_open returns stays open.
THEOREM OpenLeavesOne == OpenSpec => []OneNodeOpen
<1>1. OpenInv => OneNodeOpen
  BY DEF OpenInv, OneNodeOpen
<1> QED
  BY <1>1, OpenInitInv, OpenStepInv, PTL DEF OpenSpec

\* For any nodes, and whatever the stack held: only the card is taken for the
\* card, unless the first node that is asked does not answer.
THEOREM OpenFindsCard == OpenSpec => []FoundIsCard
<1>1. OpenInv => FoundIsCard
  BY DEF OpenInv
<1> QED
  BY <1>1, OpenInitInv, OpenStepInv, PTL DEF OpenSpec
=============================================================================
