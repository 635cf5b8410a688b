----------------------------- MODULE RfCardHid -----------------------------
(***************************************************************************)
(* The driver of the RF card, k_a_dd/usb/hid/rfcard-hid.c: probing a card, *)
(* step by step, and removing it.  Two cards may be probed at one time, by *)
(* the loading of the driver and by the hub.  The kernel is modelled from  *)
(* how the driver calls it.  The file does not compile as it stands (no    *)
(* semicolon after the union of line 30, RF_MSG_LEN and struct rf_msg not  *)
(* defined); it is modelled as it is written.                              *)
(***************************************************************************)
CONSTANTS Cards,
          Numbers   \* character device numbers the kernel has to give

VARIABLES card,        \* what each is at: "absent", a step, "bound", "refused" or "gone"
          sc,          \* cards whose struct rf_msg is allocated
          started,     \* cards whose hardware is
          cdevs,       \* cards with a character device, and its number
          region,      \* numbers that are taken
          reserved,    \* cards whose last probe has taken one of them (history)
          __dev,       \* the device messages go to
          overlapped,  \* cards probed while another was (history)
          misdirected  \* cards whose message went to another (history)

rfVars == <<card, sc, started, cdevs, region, reserved, __dev, overlapped, misdirected>>

Steps   == {"alloc", "parse", "start", "send", "receive", "region", "cdev", "add"}
Probing == {c \in Cards : card[c] \in Steps}

RfInit == /\ card = [c \in Cards |-> "absent"]
          /\ sc = {} /\ started = {} /\ cdevs = {} /\ region = {} /\ reserved = {}
          /\ __dev = "none" /\ overlapped = {} /\ misdirected = {}

goes(c, s) == card' = [card EXCEPT ![c] = s]

\* The device is taken when the driver first sees one.
set_dev_slip(c) == __dev' = IF __dev = "none" THEN c ELSE __dev
set_dev(c)      == __dev' = c

rf_probe(c) ==
  /\ card[c] = "absent"
  /\ goes(c, "alloc") /\ set_dev(c)
  /\ overlapped' = IF Probing = {} THEN overlapped \ {c} ELSE overlapped \cup {c} \cup Probing
  /\ misdirected' = misdirected \ {c} /\ reserved' = reserved \ {c}
  /\ UNCHANGED <<sc, started, cdevs, region>>

kzalloc(c) ==
  /\ card[c] = "alloc"
  /\ \/ goes(c, "parse") /\ sc' = sc \cup {c}
     \/ goes(c, "refused") /\ UNCHANGED sc
  /\ UNCHANGED <<started, cdevs, region, reserved, __dev, overlapped, misdirected>>

\* err_free, which follows err_stop: the caller is told of an error if ret is one.
err_free(c, ret) == goes(c, IF ret = 0 THEN "bound" ELSE "refused") /\ sc' = sc \ {c}

\* The hardware is not stopped.
err_stop_slip(c, ret) == UNCHANGED started /\ err_free(c, ret)
err_stop(c, ret)      == started' = started \ {c} /\ err_free(c, ret)

hid_parse(c) ==
  /\ card[c] = "parse"
  /\ \/ goes(c, "start") /\ UNCHANGED sc
     \/ err_free(c, 1)
  /\ UNCHANGED <<started, cdevs, region, reserved, __dev, overlapped, misdirected>>

hid_hw_start(c) ==
  /\ card[c] = "start"
  /\ \/ goes(c, "send") /\ started' = started \cup {c} /\ UNCHANGED sc
     \/ err_free(c, 1) /\ UNCHANGED started
  /\ UNCHANGED <<cdevs, region, reserved, __dev, overlapped, misdirected>>

\* The answer is asked for if the request was sent; what comes of it is ignored.
rf_msg_read(c) ==
  /\ \/ card[c] = "send" /\ (goes(c, "receive") \/ goes(c, "region"))
     \/ card[c] = "receive" /\ goes(c, "region")
  /\ misdirected' = IF __dev = c THEN misdirected ELSE misdirected \cup {c}
  /\ UNCHANGED <<sc, started, cdevs, region, reserved, __dev, overlapped>>

\* `if (!ret) goto err_stop': a number is taken, and ret is 0.
alloc_chrdev_region(c) ==
  /\ card[c] = "region"
  /\ \/ /\ \E n \in Numbers \ region : region' = region \cup {n}
        /\ reserved' = reserved \cup {c}
        /\ err_stop(c, 0)
     \/ goes(c, "cdev") /\ UNCHANGED <<region, reserved, sc, started>>
  /\ UNCHANGED <<cdevs, __dev, overlapped, misdirected>>

\* err_cdev_num: cdev_num was never set; it may be a number that is taken.
err_cdev_num(c) == /\ \E n \in Numbers : region' \in {region, region \ {n}}
                   /\ err_stop(c, 1)

cdev_alloc(c) ==
  /\ card[c] = "cdev"
  /\ \/ goes(c, "add") /\ UNCHANGED <<region, sc, started>>
     \/ err_cdev_num(c)
  /\ UNCHANGED <<cdevs, reserved, __dev, overlapped, misdirected>>

\* cdev_add, and cdev_del at err_cdev_del.
cdev_add(c) ==
  /\ card[c] = "add"
  /\ \/ goes(c, "bound") /\ cdevs' = cdevs \cup {c} /\ UNCHANGED <<region, sc, started>>
     \/ err_cdev_num(c) /\ UNCHANGED cdevs
  /\ UNCHANGED <<reserved, __dev, overlapped, misdirected>>

\* kfree(hid_get_drvdata(hdev)) frees nothing: hid_set_drvdata is commented out.
rf_remove(c) == /\ card[c] = "bound"
                /\ goes(c, "gone")
                /\ started' = started \ {c}
                /\ UNCHANGED <<sc, cdevs, region, reserved, __dev, overlapped, misdirected>>

\* A card comes back.  Bound: not one of which something was left behind.
replug(c) == /\ card[c] \in {"refused", "gone"} /\ c \notin sc
             /\ goes(c, "absent")
             /\ UNCHANGED <<sc, started, cdevs, region, reserved, __dev, overlapped, misdirected>>

RfNext == \E c \in Cards : \/ rf_probe(c) \/ kzalloc(c) \/ hid_parse(c) \/ hid_hw_start(c)
                           \/ rf_msg_read(c) \/ alloc_chrdev_region(c) \/ cdev_alloc(c)
                           \/ cdev_add(c) \/ rf_remove(c) \/ replug(c)

RfSpec == RfInit /\ [][RfNext]_rfVars

-----------------------------------------------------------------------------
(* Properties.                                                             *)

\* A probe that returned an error has undone what it did, whichever step
\* failed: nothing allocated, no hardware started, no number taken
\* (rfcard-hid.c:218-226).
RefusedLeavesNothing ==
  \A c \in Cards : card[c] = "refused" => c \notin sc \cup started \cup cdevs \cup reserved

\* A probe that returned 0 has all of memory, running hardware and character
\* device, or none of them: none on the path of line 197, which goes to the
\* middle of the labels.  rf_remove stops the hardware and nothing else
\* (rfcard-hid.c:196-198, 229-233).
BoundWholeOrEmpty ==
  \A c \in Cards :
    /\ card[c] = "bound" => (c \in started <=> c \in cdevs) /\ (c \in sc <=> c \in cdevs)
    /\ card[c] = "gone"  => c \notin started /\ (c \in sc <=> c \in cdevs)

\* Of each card the driver holds memory, hardware and character device together
\* or none of the three, and of a refused one nothing at all.  The number is not
\* among the three: the path of line 197 keeps it.
NoProbeHalfDone == RefusedLeavesNothing /\ BoundWholeOrEmpty

\* With the one device pointer of line 22, the messages of a probe go to its
\* own card unless another probe runs beside it (rfcard-hid.c:55, 71, 168).
OwnCardUnlessOverlapped == misdirected \subseteq overlapped
=============================================================================
