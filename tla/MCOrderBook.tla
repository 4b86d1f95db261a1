----------------------------- MODULE MCOrderBook -----------------------------
(* TLC instances of OrderBook. *)
EXTENDS OrderScreens, TLC

CONSTANTS r1

AllToOneRep == [o \in Orders |-> r1]
Symmetry == Permutations(Subs) \cup Permutations(Rets)

(* Bounds: a deadline passes or moves only while the order alone is on the  *)
(* books; the run of the rep's page has it among sales and returns.          *)
DeadlinesMoveEarly ==
  (moved = {} /\ \A o \in Orders : ~late[o]) \/ (DOMAIN sub = {} /\ DOMAIN ret = {})
=============================================================================
