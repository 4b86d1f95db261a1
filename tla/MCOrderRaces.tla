---------------------------- MODULE MCOrderRaces -----------------------------
(* TLC instances of OrderRaces. *)
EXTENDS OrderRaces, TLC

CONSTANTS i1, i2, t1, t2, p1, p2

OneProduct == [i \in Rows |-> p1]
TwoBoxes == [p \in Products |-> 2]
ByHalves == [i \in Rows |-> IF i \in {i1, t1} THEN p1 ELSE p2]
OneBoxEach == [p \in Products |-> 1]
=============================================================================
