------------------------------- MODULE HidCom -------------------------------
(***************************************************************************)
(* The user-space tool of the RF card (k_a_dd/usb/hid/hidcom.c): send_data *)
(* cuts the caller's buffer into messages of one feature report each and   *)
(* puts the card's answer together.  A message stands for the bytes off .. *)
(* off + len - 1 of the caller's buffer.  The card is not in the           *)
(* repository: it takes every message and answers as it likes.             *)
(***************************************************************************)
EXTENDS Integers, SequencesExt

CONSTANTS Sizes,       \* lengths of what is sent (0: nothing is)
          RcvSizes,    \* lengths of receive buffers (0: nothing is received)
          ReplyLens,   \* lengths that a message of the card's answer says it has
          MaxReplies   \* bound: messages of an answer

MSG_MAX_LEN  == 32
MAX_DATASIZE == 30
Capacity     == MSG_MAX_LEN - 4   \* the data bytes for which there is room

ASSUME HidAssumption == /\ Sizes \subseteq Nat /\ RcvSizes \subseteq Nat
                        /\ ReplyLens \subseteq Nat /\ MaxReplies \in Nat

VARIABLES pc,        \* "idle", "send", "receive" or "killed"
          size,      \* send_data's send_len and rcv_len
          rcv_size,
          count,     \* send_msg: bytes left to send
          msg_len,   \* send_msg: where the next message starts
          sent,      \* messages the card has taken in this call
          replies,   \* messages of the answer, as read
          got,       \* rcv_msg: bytes written to the buffer
          faults,    \* ioctls that failed and bad messages, in this call
          ret        \* what send_data returned

vars == <<pc, size, rcv_size, count, msg_len, sent, replies, got, faults, ret>>

Init == /\ pc = "idle" /\ size = 0 /\ rcv_size = 0
        /\ count = 0 /\ msg_len = 0 /\ got = 0
        /\ sent = <<>> /\ replies = <<>> /\ faults = 0 /\ ret = 0

return(r) == pc' = "idle" /\ ret' = r

\* Nothing to send and nothing to receive: the call just returns 0.
send_data(n, m) ==
  /\ pc = "idle"
  /\ size' = n /\ rcv_size' = m
  /\ count' = n /\ msg_len' = 0 /\ got' = 0
  /\ sent' = <<>> /\ replies' = <<>> /\ faults' = 0
  /\ IF n > 0 THEN pc' = "send" /\ ret' = 0
     ELSE IF m > 0 THEN pc' = "receive" /\ ret' = 0
     ELSE return(0)

-----------------------------------------------------------------------------
(* Sending.                                                                *)

\* `count < MAX_DATASIZE': 30 bytes go as MULTI and nothing follows.
FitsInOne_slip == count < MAX_DATASIZE
FitsInOne      == count <= MAX_DATASIZE

ChunkLen      == IF FitsInOne THEN count ELSE MAX_DATASIZE

\* The next message starts where this one ended, had there been but one.
NextStart_slip == 0
NextStart      == ChunkLen

\* The check byte is written at value[count + 1].  Past the room of the message
\* the write is undefined: what msg_out then reads as the check byte is
\* anything.
Checks == IF ChunkLen <= Capacity THEN {TRUE} ELSE BOOLEAN

Message(check) == [status |-> IF FitsInOne THEN "SINGLE" ELSE "MULTI",
                   off |-> msg_len, len |-> ChunkLen, check |-> check]

send_msg ==
  /\ pc = "send"
  /\ \E check \in Checks : sent' = Append(sent, Message(check))
  /\ msg_len' = NextStart
  /\ count' = count - ChunkLen
  /\ IF count' > 0 THEN UNCHANGED <<pc, ret>>
     ELSE IF rcv_size > 0 THEN pc' = "receive" /\ ret' = ret
     ELSE return(msg_len')
  /\ UNCHANGED <<size, rcv_size, replies, got, faults>>

\* msg_out: HIDIOCSUSAGES or HIDIOCSREPORT fails and the card has nothing.
send_msg_fails ==
  /\ pc = "send"
  /\ faults' = faults + 1
  /\ return(-1)
  /\ UNCHANGED <<size, rcv_size, count, msg_len, sent, replies, got>>

\* The undefined write ends the process.
send_msg_killed ==
  /\ pc = "send"
  /\ ChunkLen > Capacity
  /\ pc' = "killed"
  /\ UNCHANGED <<size, rcv_size, count, msg_len, sent, replies, got, faults, ret>>

\* The tool is started again.
main == /\ pc = "killed"
        /\ pc' = "idle" /\ ret' = 0 /\ size' = 0 /\ rcv_size' = 0
        /\ count' = 0 /\ msg_len' = 0 /\ got' = 0
        /\ sent' = <<>> /\ replies' = <<>> /\ faults' = 0

-----------------------------------------------------------------------------
(* Receiving.                                                              *)

\* msg_in has read and checked a message of n bytes, for which there is room; a
\* longer answer than the bound allows does not happen.  "User should make sure
\* rcv_buffer enough to hold coming msgs" (line 237): the answer fits.  The
\* code's own test for that (line 147) never fires, its operand being unsigned.
rcv_msg(status, n) ==
  /\ pc = "receive"
  /\ n <= Capacity
  /\ Len(replies) < MaxReplies
  /\ status = "MULTI" => Len(replies) < MaxReplies - 1
  /\ got + n <= rcv_size
  /\ replies' = Append(replies, [status |-> status, len |-> n])
  /\ got' = got + n
  /\ IF status = "MULTI" THEN UNCHANGED <<pc, ret>> ELSE return(got')
  /\ UNCHANGED <<size, rcv_size, count, msg_len, sent, faults>>

\* A failed report ends the answer: what came so far is returned.
rcv_msg_fails_slip ==
  /\ pc = "receive"
  /\ faults' = faults + 1
  /\ return(got)
  /\ UNCHANGED <<size, rcv_size, count, msg_len, sent, replies, got>>

\* msg_in: an ioctl fails, or check_msg refuses a message that is not too long.
rcv_msg_fails ==
  /\ pc = "receive"
  /\ faults' = faults + 1
  /\ return(-1)
  /\ UNCHANGED <<size, rcv_size, count, msg_len, sent, replies, got>>

\* A message that says it has more than there is room for is copied to the end
\* of what it says, past in_msg and over what lies behind it on the stack, and
\* only then checked and refused.  What is undefined either ends the process, or
\* has hit nothing that it needs to return.
rcv_msg_overruns(n) ==
  /\ pc = "receive"
  /\ n > Capacity
  /\ faults' = faults + 1
  /\ \/ return(-1)
     \/ pc' = "killed" /\ ret' = ret
  /\ UNCHANGED <<size, rcv_size, count, msg_len, sent, replies, got>>

Step == \/ send_msg \/ send_msg_fails \/ send_msg_killed
        \/ rcv_msg_fails
        \/ \E status \in {"SINGLE", "MULTI"}, n \in ReplyLens : rcv_msg(status, n)
        \/ \E n \in ReplyLens : rcv_msg_overruns(n)

Next == \/ \E n \in Sizes, m \in RcvSizes : send_data(n, m)
        \/ Step
        \/ main

Spec == Init /\ [][Next]_vars

-----------------------------------------------------------------------------
(* Properties.                                                             *)

\* The bytes in the first i messages, for each i, and in all of them.
Bytes(ms) == LET first[i \in 0 .. Len(ms)] == IF i = 0 THEN 0 ELSE first[i - 1] + ms[i].len
             IN  first
Total(ms) == Bytes(ms)[Len(ms)]

\* "buf may be multi 32-bytes msgs" (hidcom.c:208): the messages carry the
\* caller's bytes in order, each starting where the one before it ended.
ChunksInOrder ==
  \A i \in DOMAIN sent : sent[i].off = Bytes(sent)[i - 1]

\* When the tool turns to the answer or returns with no fault, the card has had
\* every byte, and can tell: the last message and no other is SINGLE, none is
\* empty.
AllSent ==
  pc = "receive" \/ (pc = "idle" /\ ret >= 0) =>
    /\ Total(sent) = size
    /\ \A i \in DOMAIN sent : (sent[i].status = "SINGLE") = (i = Len(sent)) /\ sent[i].len > 0

\* The card has the caller's bytes in order from the first on, and in the end all
\* of them (hidcom.c:215-232).  Of buffers that take three messages the first is
\* not true.
SentWhole == ChunksInOrder /\ AllSent

\* A call that returns gives -1 exactly when something failed, and otherwise an
\* answer that is whole (hidcom.c:142-153, 248-258).  One whose answer has a
\* message of more than 28 bytes may not return.
FaultsReported ==
  pc = "idle" =>
    /\ ret = -1 <=> faults > 0
    /\ ret >= 0 /\ rcv_size > 0 =>
         replies # <<>> /\ Last(replies).status = "SINGLE" /\ ret = Total(replies)

\* "include data length and check byte" (hidcom.c:33): the data of a message
\* leaves room for both, so that check_msg, which the tool applies to what it
\* receives, would take the message.
RoomForLengthAndCheck == \A i \in DOMAIN sent : sent[i].len + 2 <= MAX_DATASIZE
=============================================================================
