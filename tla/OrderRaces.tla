------------------------------ MODULE OrderRaces -----------------------------
(***************************************************************************)
(* The contended handlers of one order, statement by statement.            *)
(*                                                                         *)
(* OrderBook takes each handler as one step.  Here a handler is a session  *)
(* that reads its row outside the transaction, then runs a Postgres READ   *)
(* COMMITTED transaction: every statement reads what is committed at that  *)
(* moment, an update locks its row until the commit, and nothing is seen   *)
(* by others before the commit.  A transaction that fails, or outlives its *)
(* 30 seconds, is rolled back and its locks are dropped.                   *)
(*                                                                         *)
(* Each row carries one box.  The deadline is far away, so an order is     *)
(* OPEN, PARTIAL or SETTLED.                                               *)
(***************************************************************************)
EXTENDS Integers, FiniteSetsExt, SequencesExt

CONSTANTS Sessions,    \* handlers that may be in flight together
          Products,
          Subs, Rets,  \* pending submissions and returns of the order
          ProductOf,   \* ProductOf[i]: the product of row i
          Issued,      \* Issued[p]: boxes of p on the order
          Nobody       \* holder of a free lock

Rows == Subs \cup Rets

ASSUME RaceAssumption ==
  /\ Subs \cap Rets = {} /\ Nobody \notin Sessions \cup Rows
  /\ IsFiniteSet(Rows)
  /\ ProductOf \in [Rows -> Products]
  /\ Issued \in [Products -> Nat \ {0}]

(* The statements of each handler, in the order they run.                  *)
(* Mutant: settledValue is written, locking the order, before stock moves. *)
ApprovalOrderFirst == <<"idle", "order", "check", "number", "insert", "value",
                        "avail", "post", "close", "idle">>
Approval == <<"idle", "order", "check", "number", "insert", "avail", "post",
              "value", "close", "idle">>
ReturnApproval == <<"idle", "avail", "post", "mark", "read", "write", "idle">>
Drop == <<"idle", "drop", "idle">>        \* reject, cancel or expire

VARIABLES
  st,      \* st[i]: committed status of row i
  moves,   \* moves[i]: times the box of row i left the rep, committed
  status,  \* Settlement.status, committed
  sales,   \* Sale rows of the day, committed
  plan,    \* plan[s]: the statements session s still has to run
  row,     \* row[s]: the row it decides
  num,     \* num[s]: the sale number it counted
  new,     \* new[s]: the status it computed for the order
  lock,    \* who holds the sale number, each rep stock row, each row, the order
  overlap  \* history: rows two handlers worked on at once

vars == <<st, moves, status, sales, plan, row, num, new, lock, overlap>>

Locks == {"sale", "order"} \cup Products \cup Rows
Pc(s) == plan[s][1]

Init ==
  /\ st = [i \in Rows |-> "PENDING"]
  /\ moves = [i \in Rows |-> 0]
  /\ status = "OPEN"
  /\ sales = 0
  /\ plan = [s \in Sessions |-> <<"idle">>]
  /\ row = [s \in Sessions |-> Nobody]
  /\ num = [s \in Sessions |-> 0]
  /\ new = [s \in Sessions |-> "OPEN"]
  /\ lock = [l \in Locks |-> Nobody]
  /\ overlap = {}

-----------------------------------------------------------------------------
(* orderBreakdown: the boxes settled and returned of each product, those   *)
(* of the caller's own transaction included.                               *)
Settled(p, mine) ==
  SumFunction([i \in {j \in Subs : ProductOf[j] = p} |->
                 moves[i] + (IF i \in mine THEN 1 ELSE 0)])
(* Mutant: PENDING returns count as returned. *)
ReturnedOrPending(p, mine) ==
  Cardinality({i \in Rets : /\ ProductOf[i] = p
                            /\ st[i] \in {"PENDING", "APPROVED"}})
Returned(p, mine) ==
  Cardinality({i \in Rets : ProductOf[i] = p /\ (st[i] = "APPROVED" \/ i \in mine)})
Remaining(p, mine) == Issued[p] - Settled(p, mine) - Returned(p, mine)
AllAccounted(mine) == \A p \in Products : Remaining(p, mine) <= 0

(* recomputeStatus, once something was settled or returned.                *)
(* Mutant: it runs before the caller's own row is written. *)
RecomputedTooEarly(mine) == IF AllAccounted({}) THEN "SETTLED" ELSE "PARTIAL"
Recomputed(mine) == IF AllAccounted(mine) THEN "SETTLED" ELSE "PARTIAL"

(* Boxes of p the rep holds: those issued, less every committed movement.  *)
Held(p) ==
  Issued[p] - SumFunction([i \in {j \in Rows : ProductOf[j] = p} |-> moves[i]])

-----------------------------------------------------------------------------
(* A handler reads its row and goes on only if it is PENDING.              *)
(* Mutant: the status of the row is not looked at. *)
DecidableUnread(i) == TRUE
Decidable(i) == st[i] = "PENDING"

Begin(s, i, path) ==
  /\ Pc(s) = "idle"
  /\ plan' = [plan EXCEPT ![s] = Tail(path)]
  /\ row' = [row EXCEPT ![s] = i]
  /\ overlap' = IF \E t \in Sessions : row[t] = i
                THEN overlap \cup {i} ELSE overlap
  /\ UNCHANGED <<st, moves, status, sales, num, new, lock>>
StartApproval(s, i) == Decidable(i) /\ Begin(s, i, Approval)
StartReturnApproval(s, i) == Decidable(i) /\ Begin(s, i, ReturnApproval)
StartDrop(s, i) == Decidable(i) /\ Begin(s, i, Drop)

(* The next statement of s is at; it has run.                              *)
At(s, at) == Pc(s) = at
Proceed(s) == plan' = [plan EXCEPT ![s] = Tail(@)]
TakeLock(s, l) == lock[l] = Nobody /\ lock' = [lock EXCEPT ![l] = s]

(* The handler of s is over: its locks and what it had read are gone.      *)
End(s) ==
  /\ plan' = [plan EXCEPT ![s] = <<"idle">>]
  /\ row' = [row EXCEPT ![s] = Nobody]
  /\ num' = [num EXCEPT ![s] = 0]
  /\ new' = [new EXCEPT ![s] = "OPEN"]
  /\ lock' = [l \in Locks |-> IF lock[l] = s THEN Nobody ELSE lock[l]]
Rollback(s) ==
  /\ End(s)
  /\ UNCHANGED <<st, moves, status, sales, overlap>>
Read(s) ==
  /\ Proceed(s)
  /\ UNCHANGED <<st, moves, status, sales, row, num, new, lock, overlap>>
LockStep(s, l) ==
  /\ TakeLock(s, l)
  /\ Proceed(s)
  /\ UNCHANGED <<st, moves, status, sales, row, num, new, overlap>>

-----------------------------------------------------------------------------
(* settleBoxesTx, statement by statement. *)
ReadOrder(s) ==
  /\ At(s, "order")
  /\ IF status = "SETTLED" THEN Rollback(s) ELSE Read(s)
CheckOutstanding(s) ==
  /\ At(s, "check")
  /\ IF Remaining(ProductOf[row[s]], {}) < 1 THEN Rollback(s) ELSE Read(s)

(* nextDocNumber counts the sales it can see; the number must be unique,   *)
(* so an insert waits for a transaction that holds the same number and     *)
(* fails once that one has committed.                                      *)
CountSales(s) ==
  /\ At(s, "number")
  /\ num' = [num EXCEPT ![s] = sales + 1]
  /\ Proceed(s)
  /\ UNCHANGED <<st, moves, status, sales, row, new, lock, overlap>>
InsertSale(s) ==
  /\ At(s, "insert")
  /\ IF num[s] <= sales THEN Rollback(s) ELSE LockStep(s, "sale")

(* decreaseStock: assertAvailable, then the upsert of the rep's stock row. *)
CheckStock(s) ==
  /\ At(s, "avail")
  /\ IF Held(ProductOf[row[s]]) < 1 THEN Rollback(s) ELSE Read(s)
PostMovement(s) == At(s, "post") /\ LockStep(s, ProductOf[row[s]])
WriteSettledValue(s) == At(s, "value") /\ LockStep(s, "order")

(* recomputeStatus and the commit, with the order row locked all along.    *)
CommitApproval(s) ==
  LET i == row[s]
  IN /\ At(s, "close")
     /\ status' = Recomputed({i})
     /\ moves' = [moves EXCEPT ![i] = @ + 1]
     /\ sales' = sales + 1
     /\ st' = [st EXCEPT ![i] = "APPROVED"]
     /\ End(s)
     /\ UNCHANGED overlap

(* approveReturn: the return row is written, recomputeStatus reads, and    *)
(* only its update locks the order.                                        *)
MarkReturn(s) == At(s, "mark") /\ LockStep(s, row[s])
ReadBreakdown(s) ==
  /\ At(s, "read")
  /\ new' = [new EXCEPT ![s] = Recomputed({row[s]})]
  /\ Proceed(s)
  /\ UNCHANGED <<st, moves, status, sales, row, num, lock, overlap>>
CommitReturn(s) ==
  LET i == row[s]
  IN /\ At(s, "write")
     /\ lock["order"] = Nobody
     /\ status' = new[s]
     /\ moves' = [moves EXCEPT ![i] = @ + 1]
     /\ st' = [st EXCEPT ![i] = "APPROVED"]
     /\ End(s)
     /\ UNCHANGED <<sales, overlap>>

(* reject, rejectReturn, cancelReturn, expireStaleReturns: the update does *)
(* not look at the status again; a return also moves the deadline.         *)
CommitDrop(s) ==
  LET i == row[s]
  IN /\ At(s, "drop")
     /\ lock[i] = Nobody
     /\ i \in Rets => lock["order"] = Nobody
     /\ st' = [st EXCEPT ![i] = "DROPPED"]
     /\ End(s)
     /\ UNCHANGED <<moves, status, sales, overlap>>

(* The process dies or the transaction times out. *)
Crash(s) == Pc(s) # "idle" /\ Rollback(s)

-----------------------------------------------------------------------------
Statement(s) ==
  \/ ReadOrder(s) \/ CheckOutstanding(s) \/ CountSales(s) \/ InsertSale(s)
  \/ CheckStock(s) \/ PostMovement(s) \/ WriteSettledValue(s)
  \/ CommitApproval(s)
  \/ MarkReturn(s) \/ ReadBreakdown(s) \/ CommitReturn(s)
  \/ CommitDrop(s)

Next ==
  \E s \in Sessions :
    \/ \E i \in Subs : StartApproval(s, i)
    \/ \E i \in Rets : StartReturnApproval(s, i)
    \/ \E i \in Rows : StartDrop(s, i)
    \/ Statement(s)
    \/ Crash(s)

(* Nothing forces a request; a handler under way runs its statements.     *)
(* Strong fairness, because Postgres grants a lock to its waiters in the   *)
(* order they came: one who waits is not passed over for ever.             *)
Spec == Init /\ [][Next]_vars /\ \A s \in Sessions : SF_vars(Statement(s))

-----------------------------------------------------------------------------
Statements == {Approval[k] : k \in DOMAIN Approval}
              \cup {ReturnApproval[k] : k \in DOMAIN ReturnApproval}
              \cup {"drop"}
TypeOK ==
  /\ st \in [Rows -> {"PENDING", "APPROVED", "DROPPED"}]
  /\ moves \in [Rows -> Nat]
  /\ status \in {"OPEN", "PARTIAL", "SETTLED"}
  /\ sales \in Nat
  /\ plan \in [Sessions -> Seq(Statements)]
  /\ row \in [Sessions -> Rows \cup {Nobody}]
  /\ num \in [Sessions -> Nat]
  /\ new \in [Sessions -> {"OPEN", "PARTIAL", "SETTLED"}]
  /\ lock \in [Locks -> Sessions \cup {Nobody}]
  /\ \A l \in Locks, s \in Sessions : lock[l] = s => Pc(s) # "idle"
  /\ overlap \subseteq Rows

Quiet == \A s \in Sessions : Pc(s) = "idle"

(* When no handler is under way, an order with nothing owed is SETTLED.    *)
(* This holds for an order of ONE product, whatever overlaps: the stock    *)
(* row of the rep, locked until the commit, lets one decision through at a *)
(* time.  With two products it fails: an approved return computes the      *)
(* status before it locks the order.                                       *)
QuietOrderIsClosed == Quiet /\ AllAccounted({}) => status = "SETTLED"

(* What a row says happened is what happened to its box, unless two        *)
(* handlers worked on that row at once: they check the status before their *)
(* transactions and write it without looking again.                        *)
RowsTellTheTruth ==
  \A i \in Rows \ overlap : moves[i] = (IF st[i] = "APPROVED" THEN 1 ELSE 0)

(* A closed order owes nothing, unless a handler dropped a return that     *)
(* another was approving.                                                  *)
ClosedOwesNothing ==
  status = "SETTLED" => AllAccounted({}) \/ overlap \cap Rets # {}

(* Every handler comes to an end: the locks are taken in one order.        *)
HandlersFinish == \A s \in Sessions : Pc(s) # "idle" ~> Pc(s) = "idle"

(* "AUTO-CLOSES (status SETTLED) the moment every issued box is accounted  *)
(* for" (settlement.service.js:490-491), of an order of several products.      *)
OrderClosesByItself == QuietOrderIsClosed
=============================================================================
