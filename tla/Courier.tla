------------------------------- MODULE Courier --------------------------------
(***************************************************************************)
(* What the WhatsApp outbox promises, whoever does the work: a message     *)
(* waits, is in one pair of hands at a time, and ends sent or failed.  A   *)
(* sent message is never taken up again; a failed one only when the admin  *)
(* puts it back.                                                           *)
(***************************************************************************)
CONSTANT Messages

VARIABLE state  \* state[m]: none, waiting, sending, sent or failed

Init == state = [m \in Messages |-> "none"]

Turn(m, from, to) == state[m] = from /\ state' = [state EXCEPT ![m] = to]

Accept(m)   == Turn(m, "none", "waiting")
TakeUp(m)   == Turn(m, "waiting", "sending")
Delivered(m) == Turn(m, "sending", "sent")
GiveBack(m) == Turn(m, "sending", "waiting")
GiveUp(m)   == Turn(m, "sending", "failed")

(* The admin puts the failed messages back, all at once. *)
Requeue(set) ==
  /\ \A m \in set : state[m] = "failed"
  /\ state' = [m \in Messages |-> IF m \in set THEN "waiting" ELSE state[m]]

Next ==
  \/ \E m \in Messages :
       Accept(m) \/ TakeUp(m) \/ Delivered(m) \/ GiveBack(m) \/ GiveUp(m)
  \/ \E set \in SUBSET Messages : Requeue(set)

Spec == Init /\ [][Next]_state
===============================================================================
