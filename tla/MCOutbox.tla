------------------------------- MODULE MCOutbox -------------------------------
(* The outbox on a small instance: two senders, one message held back by the *)
(* provider's budget and one that is sent even in quiet hours.  Taking one   *)
(* row of two per flush puts the first in the way of the second, as taking   *)
(* two rows of three does.                                                   *)
EXTENDS Outbox
===============================================================================
