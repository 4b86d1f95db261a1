------------------------------ MODULE MCCashBook ------------------------------
(* The finance ledger on a small instance: two brands, one wallet each. *)
EXTENDS CashBook, TLC

CONSTANTS s1, s2, r1, r2, r3, x1, w1

MCWalletOf == [x \in Sales |-> 1]
MCTotal == [x \in Sales |-> 2]
MCPaid == [x \in Sales |-> 1]
MCOpening == [a \in Wallets |-> IF a = 1 THEN 1 ELSE 0]

Symmetry == Permutations(Sessions) \cup Permutations(Rows)
===============================================================================
