------------------------------ MODULE HidOpen ------------------------------
(***************************************************************************)
(* rf_open and rf_close of k_a_dd/usb/hid/hidcom.c: the tool opens one     *)
(* hiddev node after the other until one says that it is the card.         *)
(***************************************************************************)
EXTENDS Integers

CONSTANT Nodes   \* how many are looked at: 20 in the code

ASSUME NodesAssumption == Nodes \in Nat \ {0}

VARIABLES plugged,   \* what each node is: "none", "other" or "card"
          looking,   \* "open", "ask", "found", "ENODEV" or "closed"
          node,      \* i
          dev_info,  \* what the last ioctl that succeeded told
          fds,       \* nodes that are open
          tried,     \* nodes that were asked, and
          answered   \* those that told what they are (history)

openVars == <<plugged, looking, node, dev_info, fds, tried, answered>>

\* dev_info is what the stack holds: some one value, which may be the card's.
OpenInit == /\ plugged \in [0 .. Nodes - 1 -> {"none", "other", "card"}]
            /\ looking = "open" /\ node = 0 /\ dev_info \in {"other", "card"}
            /\ fds = {} /\ tried = {} /\ answered = {}

next_node == /\ node' = node + 1
             /\ looking' = IF node' < Nodes THEN "open" ELSE "ENODEV"

\* A node that is there may still not be opened.
open_node == /\ looking = "open"
             /\ \/ /\ plugged[node] # "none"
                   /\ fds' = fds \cup {node} /\ looking' = "ask" /\ UNCHANGED node
                \/ next_node /\ UNCHANGED fds
             /\ UNCHANGED <<plugged, dev_info, tried, answered>>

\* One of the two numbers is enough, and others of the vendor have that one.
is_card_slip(info) == info \in {"other", "card"}

\* Vendor and product.
is_card(info) == info = "card"

close == fds' = fds \ {node}

\* The ioctl's result is not looked at: if it fails, dev_info is as before.
ask_node ==
  /\ looking = "ask"
  /\ tried' = tried \cup {node}
  /\ \/ dev_info' = plugged[node] /\ answered' = answered \cup {node}
     \/ UNCHANGED <<dev_info, answered>>
  /\ IF is_card(dev_info') THEN looking' = "found" /\ UNCHANGED <<node, fds>>
     ELSE close /\ next_node
  /\ UNCHANGED plugged

rf_close == /\ looking = "found"
            /\ close /\ looking' = "closed"
            /\ UNCHANGED <<plugged, node, dev_info, tried, answered>>

OpenNext == open_node \/ ask_node \/ rf_close

OpenSpec == OpenInit /\ [][OpenNext]_openVars

-----------------------------------------------------------------------------
(* Properties.                                                             *)

\* When rf_open returns, the node it returns is open and no other; after
\* rf_close, or when there is no card, none is (hidcom.c:73-83, 88).
OneNodeOpen == fds = IF looking \in {"ask", "found"} THEN {node} ELSE {}

\* What is taken for the card is the card, but for one case: the first node of
\* all that are asked does not answer.  What an earlier node said is never taken
\* for the card, whichever nodes answer (hidcom.c:76-80).
FoundIsCard ==
  looking = "found" /\ plugged[node] # "card" => tried = {node} /\ answered = {}
=============================================================================
