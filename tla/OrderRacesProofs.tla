--------------------------- MODULE OrderRacesProofs ---------------------------
(***************************************************************************)
(* For any number of handlers, products and rows: what a submission or a   *)
(* return says happened is what happened to its box, unless two handlers   *)
(* worked on that row at once.  No lock is needed for it: a handler that   *)
(* is alone with a row it read as PENDING finds it so when it commits.     *)
(*                                                                         *)
(* For any number of products too, a closed order owes nothing, unless two *)
(* handlers worked on one return.  For an order of one product a quiet     *)
(* order that owes nothing is closed: this one does rest on the locks.     *)
(***************************************************************************)
EXTENDS OrderRaces, SumTheorems

Typed ==
  /\ st \in [Rows -> {"PENDING", "APPROVED", "DROPPED"}]
  /\ moves \in [Rows -> Nat]
  /\ row \in [Sessions -> Rows \cup {Nobody}]
  /\ plan = [s \in Sessions |-> plan[s]]

(* A session without a row is idle; one with a row that nobody else works  *)
(* on has that row still to decide.                                        *)
IdleIsFree == \A s \in Sessions : row[s] \notin Rows => Pc(s) = "idle"
AloneWithRow ==
  \A s \in Sessions : row[s] \in Rows \ overlap =>
    /\ st[row[s]] = "PENDING"
    /\ \A t \in Sessions : row[t] = row[s] => t = s

RaceInv == Typed /\ IdleIsFree /\ AloneWithRow /\ RowsTellTheTruth

LEMMA InitHolds == RaceAssumption /\ Init => RaceInv
<1>. SUFFICES ASSUME RaceAssumption, Init PROVE RaceInv
  OBVIOUS
<1>1. Typed
  BY DEF Init, Typed
<1>2. \A s \in Sessions : Pc(s) = "idle"
  BY DEF Init, Pc
<1>3. AloneWithRow
  BY DEF Init, AloneWithRow, RaceAssumption
<1>4. RowsTellTheTruth
  BY DEF Init, RowsTellTheTruth
<1>. QED
  BY <1>1, <1>2, <1>3, <1>4 DEF RaceInv, IdleIsFree

-----------------------------------------------------------------------------
(* A handler begins: it reads its row as PENDING, and crosses whoever is   *)
(* at work on it.                                                          *)
LEMMA BeginKeeps ==
  ASSUME RaceInv, NEW s \in Sessions, NEW i \in Rows, NEW path, Decidable(i), Begin(s, i, path)
  PROVE  RaceInv'
<1>. USE DEF RaceInv
<1>1. /\ UNCHANGED <<st, moves>>
      /\ row' = [row EXCEPT ![s] = i] /\ plan' = [plan EXCEPT ![s] = Tail(path)]
      /\ overlap' = IF \E t \in Sessions : row[t] = i THEN overlap \cup {i} ELSE overlap
  BY DEF Begin
<1>2. Typed'
  BY <1>1 DEF Typed
<1>3. row'[s] = i /\ \A t \in Sessions : t # s => row'[t] = row[t] /\ plan'[t] = plan[t]
  BY <1>1 DEF Typed
<1>4. IdleIsFree'
  BY <1>3 DEF IdleIsFree, Pc
<1>5. AloneWithRow'
  BY <1>1, <1>3 DEF AloneWithRow, Decidable
<1>6. RowsTellTheTruth'
  BY <1>1 DEF RowsTellTheTruth
<1>. QED
  BY <1>2, <1>4, <1>5, <1>6

(* A statement in the middle touches no row. *)
LEMMA MiddleKeeps ==
  ASSUME RaceInv, NEW s \in Sessions, Proceed(s), Pc(s) # "idle", UNCHANGED <<st, moves, row, overlap>>
  PROVE  RaceInv'
<1>. USE DEF RaceInv
<1>1. plan' = [plan EXCEPT ![s] = Tail(@)]
  BY DEF Proceed
<1>2. Typed' /\ AloneWithRow' /\ RowsTellTheTruth'
  BY <1>1 DEF Typed, AloneWithRow, RowsTellTheTruth
<1>3. \A t \in Sessions : t # s => plan'[t] = plan[t]
  BY <1>1 DEF Typed
<1>4. row[s] \in Rows
  BY DEF IdleIsFree
<1>5. IdleIsFree'
  BY <1>3, <1>4 DEF IdleIsFree, Pc
<1>. QED
  BY <1>2, <1>5

(* The end of a handler, that may decide its own row on the way out.       *)
LEMMA EndKeeps ==
  ASSUME RaceInv, RaceAssumption, NEW s \in Sessions, End(s), Pc(s) # "idle", UNCHANGED overlap,
         \/ UNCHANGED <<st, moves>>
         \/ /\ st' = [st EXCEPT ![row[s]] = "APPROVED"]
            /\ moves' = [moves EXCEPT ![row[s]] = @ + 1]
         \/ /\ st' = [st EXCEPT ![row[s]] = "DROPPED"]
            /\ UNCHANGED moves
  PROVE  RaceInv'
<1>. USE DEF RaceInv
<1> DEFINE i == row[s]
<1>1. i \in Rows
  BY DEF IdleIsFree
<1>2. /\ plan' = [plan EXCEPT ![s] = <<"idle">>] /\ row' = [row EXCEPT ![s] = Nobody]
  BY DEF End
<1>3. /\ plan'[s] = <<"idle">> /\ row'[s] = Nobody
      /\ \A t \in Sessions : t # s => plan'[t] = plan[t] /\ row'[t] = row[t]
  BY <1>2 DEF Typed
<1>. HIDE DEF i
<1>4. /\ \A j \in Rows : j # i => st'[j] = st[j] /\ moves'[j] = moves[j]
      /\ \/ st'[i] = st[i] /\ moves'[i] = moves[i]
         \/ st'[i] = "APPROVED" /\ moves'[i] = moves[i] + 1
         \/ st'[i] = "DROPPED" /\ moves'[i] = moves[i]
      /\ st' \in [Rows -> {"PENDING", "APPROVED", "DROPPED"}]
      /\ moves' \in [Rows -> Nat]
  BY <1>1 DEF Typed, i
<1>5. Typed'
  BY <1>2, <1>4 DEF Typed
<1>6. IdleIsFree'
  BY <1>3 DEF IdleIsFree, Pc
<1>7. i \notin overlap => st[i] = "PENDING" /\ moves[i] = 0 /\ \A t \in Sessions : row[t] = i => t = s
  BY <1>1 DEF AloneWithRow, RowsTellTheTruth, i
<1>8. AloneWithRow'
  <2>. SUFFICES ASSUME NEW t \in Sessions, row'[t] \in Rows \ overlap
                PROVE  st'[row'[t]] = "PENDING" /\ \A u \in Sessions : row'[u] = row'[t] => u = t
    BY DEF AloneWithRow
  <2>1. \A u \in Sessions : row'[u] \in Rows => u # s /\ row'[u] = row[u]
    BY <1>3 DEF RaceAssumption
  <2>2. row[t] # i
    BY <1>7, <2>1
  <2>3. st[row[t]] = "PENDING" /\ \A u \in Sessions : row[u] = row[t] => u = t
    BY <2>1 DEF AloneWithRow
  <2>. QED
    BY <1>4, <2>1, <2>2, <2>3
<1>9. RowsTellTheTruth'
  <2>. SUFFICES ASSUME NEW j \in Rows \ overlap
                PROVE  moves'[j] = (IF st'[j] = "APPROVED" THEN 1 ELSE 0)
    BY DEF RowsTellTheTruth
  <2>1. CASE j # i
    BY <2>1, <1>4 DEF RowsTellTheTruth
  <2>2. CASE j = i
    BY <2>2, <1>4, <1>7
  <2>. QED
    BY <2>1, <2>2
<1>. QED
  BY <1>5, <1>6, <1>8, <1>9

-----------------------------------------------------------------------------
LEMMA StatementKeeps ==
  ASSUME RaceInv, RaceAssumption, NEW s \in Sessions, Statement(s)
  PROVE  RaceInv'
<1>. USE DEF At
<1>1. Pc(s) # "idle"
  BY DEF Statement, ReadOrder, CheckOutstanding, CountSales, InsertSale, CheckStock,
     PostMovement, WriteSettledValue, CommitApproval, MarkReturn, ReadBreakdown,
     CommitReturn, CommitDrop
<1>2. ASSUME Rollback(s) PROVE RaceInv'
  BY <1>1, <1>2, EndKeeps DEF Rollback
<1>3. ASSUME Read(s) PROVE RaceInv'
  BY <1>1, <1>3, MiddleKeeps DEF Read
<1>4. ASSUME NEW l, LockStep(s, l) PROVE RaceInv'
  BY <1>1, <1>4, MiddleKeeps DEF LockStep
<1>5. CASE ReadOrder(s) \/ CheckOutstanding(s) \/ CheckStock(s)
  BY <1>2, <1>3, <1>5 DEF ReadOrder, CheckOutstanding, CheckStock
<1>6. CASE InsertSale(s) \/ PostMovement(s) \/ WriteSettledValue(s) \/ MarkReturn(s)
  BY <1>2, <1>4, <1>6 DEF InsertSale, PostMovement, WriteSettledValue, MarkReturn
<1>7. CASE CountSales(s) \/ ReadBreakdown(s)
  BY <1>1, <1>7, MiddleKeeps DEF CountSales, ReadBreakdown
<1>8. CASE CommitApproval(s)
  BY <1>1, <1>8, EndKeeps DEF CommitApproval
<1>9. CASE CommitReturn(s)
  BY <1>1, <1>9, EndKeeps DEF CommitReturn
<1>10. CASE CommitDrop(s)
  BY <1>1, <1>10, EndKeeps DEF CommitDrop
<1>. QED
  BY <1>5, <1>6, <1>7, <1>8, <1>9, <1>10 DEF Statement

LEMMA NextKeeps == RaceAssumption /\ RaceInv /\ [Next]_vars => RaceInv'
<1>. SUFFICES ASSUME RaceAssumption, RaceInv, [Next]_vars PROVE RaceInv'
  OBVIOUS
<1>1. CASE UNCHANGED vars
  BY <1>1 DEF vars, RaceInv, Typed, IdleIsFree, AloneWithRow, RowsTellTheTruth, Pc
<1>2. ASSUME NEW s \in Sessions,
             \/ \E i \in Subs : StartApproval(s, i)
             \/ \E i \in Rets : StartReturnApproval(s, i)
             \/ \E i \in Rows : StartDrop(s, i)
      PROVE  RaceInv'
  BY <1>2, BeginKeeps DEF StartApproval, StartReturnApproval, StartDrop, Rows
<1>3. ASSUME NEW s \in Sessions, Statement(s) PROVE RaceInv'
  BY <1>3, StatementKeeps
<1>4. ASSUME NEW s \in Sessions, Crash(s) PROVE RaceInv'
  BY <1>4, EndKeeps DEF Crash, Rollback
<1>. QED
  BY <1>1, <1>2, <1>3, <1>4 DEF Next

(* Whatever statements interleave, roll back or die: the box of a row left *)
(* the rep exactly if the row is APPROVED, unless two handlers worked on   *)
(* the row at once.                                                        *)
THEOREM RowsAlwaysTellTheTruth == Spec => []RowsTellTheTruth
<1>1. Init => RaceInv
  BY InitHolds, RaceAssumption
<1>2. RaceInv /\ [Next]_vars => RaceInv'
  BY NextKeeps, RaceAssumption
<1>3. RaceInv => RowsTellTheTruth
  BY DEF RaceInv
<1>. QED
  BY <1>1, <1>2, <1>3, PTL DEF Spec

-----------------------------------------------------------------------------
(* What an order owes, as a matter of the boxes that moved (m) and the     *)
(* statuses of the rows (a), with the caller's own rows counted in.        *)
SubsOf(p) == {i \in Subs : ProductOf[i] = p}
SettledOf(p, m, mine) ==
  [i \in SubsOf(p) |-> m[i] + (IF i \in mine THEN 1 ELSE 0)]
ReturnedOf(p, a, mine) ==
  {i \in Rets : ProductOf[i] = p /\ (a[i] = "APPROVED" \/ i \in mine)}
NothingOwed(m, a, mine) ==
  \A p \in Products :
    Issued[p] - SumFunction(SettledOf(p, m, mine)) - Cardinality(ReturnedOf(p, a, mine)) <= 0

LEMMA AccountedNow == ASSUME NEW mine PROVE AllAccounted(mine) <=> NothingOwed(moves, st, mine)
BY DEF AllAccounted, Remaining, Settled, Returned, NothingOwed, SubsOf, SettledOf, ReturnedOf
LEMMA AccountedThen == ASSUME NEW mine PROVE AllAccounted(mine)' <=> NothingOwed(moves', st', mine)
BY DEF AllAccounted, Remaining, Settled, Returned, NothingOwed, SubsOf, SettledOf, ReturnedOf

Moves == [Rows -> Nat]
Statuses == [Rows -> {"PENDING", "APPROVED", "DROPPED"}]

LEMMA SumsOfBoxes ==
  ASSUME RaceAssumption, NEW m \in Moves, NEW a, NEW mine, NEW p
  PROVE  /\ IsFiniteSet(SubsOf(p))
         /\ SettledOf(p, m, mine) \in [SubsOf(p) -> Int]
         /\ SumFunction(SettledOf(p, m, mine)) \in Int
         /\ IsFiniteSet(ReturnedOf(p, a, mine))
         /\ Cardinality(ReturnedOf(p, a, mine)) \in Nat
<1>. DEFINE D == SubsOf(p)
            f == SettledOf(p, m, mine)
<1>1. IsFiniteSet(Rows) /\ D \in SUBSET Rows /\ ReturnedOf(p, a, mine) \in SUBSET Rows
  BY DEF RaceAssumption, Rows, SubsOf, ReturnedOf
<1>2. IsFiniteSet(D) /\ IsFiniteSet(ReturnedOf(p, a, mine))
  BY <1>1, FS_Subset
<1>3. \A j \in D : m[j] + (IF j \in mine THEN 1 ELSE 0) \in Int
  BY <1>1 DEF Moves
<1>4. f \in [D -> Int]
  BY <1>3 DEF SettledOf
<1>5. SumFunction(f) \in Int
  <2>1. DOMAIN f = D /\ \A x \in DOMAIN f : f[x] \in Int
    BY <1>4
  <2>. HIDE DEF f, D
  <2>. QED
    BY <1>2, <2>1, SumFunctionIsInt
<1>. QED
  BY <1>2, <1>4, <1>5, FS_CardinalityType

(* A row decided counts as the caller counted it.                          *)
LEMMA DecidedCounts ==
  ASSUME NEW m \in Moves, NEW a \in Statuses, NEW i \in Rows
  PROVE  NothingOwed([m EXCEPT ![i] = @ + 1], [a EXCEPT ![i] = "APPROVED"], {})
           <=> NothingOwed(m, a, {i})
<1>. DEFINE m2 == [m EXCEPT ![i] = @ + 1]  a2 == [a EXCEPT ![i] = "APPROVED"]
<1>1. ASSUME NEW p PROVE SettledOf(p, m2, {}) = SettledOf(p, m, {i})
  <2>1. \A j \in Subs : m2[j] + (IF j \in {} THEN 1 ELSE 0) = m[j] + (IF j \in {i} THEN 1 ELSE 0)
    BY DEF Moves, Rows
  <2>. HIDE DEF m2
  <2>. QED
    BY <2>1 DEF SettledOf, SubsOf
<1>2. ASSUME NEW p PROVE ReturnedOf(p, a2, {}) = ReturnedOf(p, a, {i})
  BY DEF ReturnedOf, Rows, Statuses
<1>. HIDE DEF m2, a2
<1>3. NothingOwed(m2, a2, {}) <=> NothingOwed(m, a, {i})
  BY <1>1, <1>2 DEF NothingOwed
<1>. QED
  BY <1>3 DEF m2, a2

(* Where no box comes back and no return loses its approval, an order that *)
(* owed nothing goes on owing nothing.                                     *)
LEMMA StillNothingOwed ==
  ASSUME RaceAssumption, NEW m \in Moves, NEW m2 \in Moves, NEW a, NEW a2, NEW mine,
         \A j \in Subs : m[j] <= m2[j],
         \A j \in Rets : a[j] = "APPROVED" => a2[j] = "APPROVED",
         NothingOwed(m, a, mine)
  PROVE  NothingOwed(m2, a2, mine)
<1>. SUFFICES ASSUME NEW p \in Products
              PROVE  Issued[p] - SumFunction(SettledOf(p, m2, mine))
                       - Cardinality(ReturnedOf(p, a2, mine)) <= 0
  BY DEF NothingOwed
<1>. DEFINE f == SettledOf(p, m, mine)  g == SettledOf(p, m2, mine)
            R == ReturnedOf(p, a, mine)  R2 == ReturnedOf(p, a2, mine)
            D == SubsOf(p)
<1>1. /\ IsFiniteSet(D) /\ f \in [D -> Int] /\ g \in [D -> Int]
      /\ SumFunction(f) \in Int /\ SumFunction(g) \in Int
      /\ IsFiniteSet(R2) /\ Cardinality(R) \in Nat /\ Cardinality(R2) \in Nat
  <2>1. /\ IsFiniteSet(D) /\ f \in [D -> Int] /\ SumFunction(f) \in Int
        /\ Cardinality(R) \in Nat
    BY SumsOfBoxes
  <2>2. /\ g \in [D -> Int] /\ SumFunction(g) \in Int
        /\ IsFiniteSet(R2) /\ Cardinality(R2) \in Nat
    BY SumsOfBoxes
  <2>. QED
    BY <2>1, <2>2
<1>2. \A j \in D : f[j] <= g[j]
  <2>. SUFFICES ASSUME NEW j \in D PROVE f[j] <= g[j]
    OBVIOUS
  <2>1. m[j] \in Nat /\ m2[j] \in Nat /\ m[j] <= m2[j]
    BY DEF Moves, Rows, SubsOf
  <2>. QED
    BY <2>1 DEF SettledOf
<1>3. R \in SUBSET R2
  BY DEF ReturnedOf
<1>4. Issued[p] - SumFunction(f) - Cardinality(R) <= 0 /\ Issued[p] \in Int
  BY DEF NothingOwed, RaceAssumption
<1>. HIDE DEF f, g, R, R2, D
<1>5. SumFunction(f) <= SumFunction(g)
  BY <1>1, <1>2, SumNoLess
<1>6. Cardinality(R) <= Cardinality(R2)
  BY <1>1, <1>3, FS_Subset
<1>7. Issued[p] - SumFunction(g) - Cardinality(R2) <= 0
  BY <1>1, <1>4, <1>5, <1>6
<1>. QED
  BY <1>7 DEF g, R2

-----------------------------------------------------------------------------
(* The statements of a handler come in their order: from its posting on it *)
(* holds the stock row of its product, and what it writes was read just    *)
(* before.                                                                 *)
AfterPost == {"value", "close", "mark", "read", "write"}
Follows(at, to) ==
  /\ at # "idle"
  /\ to \in AfterPost => at \in AfterPost \cup {"post"}
  /\ to = "write" <=> at = "read"
Words == {"idle", "order", "check", "number", "insert", "avail", "post", "value",
          "close", "mark", "read", "write", "drop"}
OnPath(q) ==
  /\ q \in Seq(Words) /\ q # <<>> /\ q[Len(q)] = "idle"
  /\ \A k \in 1..(Len(q) - 1) : Follows(q[k], q[k + 1])

LEMMA PathsBegin ==
  ASSUME NEW path \in {Approval, ReturnApproval, Drop}
  PROVE  /\ OnPath(Tail(path)) /\ Tail(path)[1] \notin AfterPost
<1>1. CASE path = Approval
  <2>. DEFINE q == <<"order", "check", "number", "insert", "avail", "post",
                     "value", "close", "idle">>
  <2>1. Tail(path) = q
    BY <1>1 DEF Approval
  <2>2. q \in Seq(Words)
    <3>1. q \in [1..9 -> Words]
      BY DEF Words
    <3>. QED
      BY <3>1
  <2>4. Len(q) = 9 /\ Len(q) - 1 = 8
    OBVIOUS
  <2>5. q # <<>> /\ q[9] = "idle" /\ q[1] = "order"
    OBVIOUS
  <2>3. ASSUME NEW k \in 1..8 PROVE Follows(q[k], q[k + 1])
    <3>1. k \in {1, 2, 3, 4, 5, 6, 7, 8}
      OBVIOUS
    <3>. QED
      BY <3>1 DEF Follows, AfterPost
  <2>. HIDE DEF q
  <2>6. OnPath(q)
    BY <2>2, <2>3, <2>4, <2>5 DEF OnPath
  <2>. QED
    BY <2>1, <2>5, <2>6 DEF AfterPost
<1>2. CASE path = ReturnApproval
  <2>. DEFINE q == <<"avail", "post", "mark", "read", "write", "idle">>
  <2>1. Tail(path) = q
    BY <1>2 DEF ReturnApproval
  <2>2. q \in Seq(Words)
    <3>1. q \in [1..6 -> Words]
      BY DEF Words
    <3>. QED
      BY <3>1
  <2>4. Len(q) = 6 /\ Len(q) - 1 = 5
    OBVIOUS
  <2>5. q # <<>> /\ q[6] = "idle" /\ q[1] = "avail"
    OBVIOUS
  <2>3. ASSUME NEW k \in 1..5 PROVE Follows(q[k], q[k + 1])
    <3>1. k \in {1, 2, 3, 4, 5}
      OBVIOUS
    <3>. QED
      BY <3>1 DEF Follows, AfterPost
  <2>. HIDE DEF q
  <2>6. OnPath(q)
    BY <2>2, <2>3, <2>4, <2>5 DEF OnPath
  <2>. QED
    BY <2>1, <2>5, <2>6 DEF AfterPost
<1>3. CASE path = Drop
  <2>. DEFINE q == <<"drop", "idle">>
  <2>1. Tail(path) = q
    BY <1>3 DEF Drop
  <2>2. q \in Seq(Words)
    <3>1. q \in [1..2 -> Words]
      BY DEF Words
    <3>. QED
      BY <3>1
  <2>4. Len(q) = 2 /\ Len(q) - 1 = 1
    OBVIOUS
  <2>5. q # <<>> /\ q[2] = "idle" /\ q[1] = "drop"
    OBVIOUS
  <2>3. ASSUME NEW k \in 1..1 PROVE Follows(q[k], q[k + 1])
    <3>1. k = 1
      OBVIOUS
    <3>. QED
      BY <3>1 DEF Follows, AfterPost
  <2>. HIDE DEF q
  <2>6. OnPath(q)
    BY <2>2, <2>3, <2>4, <2>5 DEF OnPath
  <2>. QED
    BY <2>1, <2>5, <2>6 DEF AfterPost
<1>. QED
  BY <1>1, <1>2, <1>3

LEMMA PathGoesOn ==
  ASSUME NEW q, OnPath(q), q[1] # "idle"
  PROVE  /\ OnPath(Tail(q)) /\ Follows(q[1], Tail(q)[1])
<1>1. Len(q) \in Nat /\ Len(q) > 1
  BY DEF OnPath
<1>2. /\ Tail(q) \in Seq(Words) /\ Len(Tail(q)) = Len(q) - 1
      /\ \A k \in 1..(Len(q) - 1) : Tail(q)[k] = q[k + 1]
  BY <1>1 DEF OnPath
<1>3. Tail(q)[Len(q) - 1] = "idle" /\ Tail(q) # <<>>
  <2>1. Len(q) - 1 \in 1..(Len(q) - 1) /\ (Len(q) - 1) + 1 = Len(q)
    BY <1>1
  <2>2. Tail(q)[Len(q) - 1] = q[Len(q)]
    BY <1>2, <2>1
  <2>3. Len(Tail(q)) # 0 /\ Len(<<>>) = 0
    BY <1>1, <1>2
  <2>4. q[Len(q)] = "idle"
    BY DEF OnPath
  <2>. QED
    BY <2>2, <2>3, <2>4
<1>4. ASSUME NEW k \in 1..(Len(q) - 2) PROVE Follows(Tail(q)[k], Tail(q)[k + 1])
  <2>1. Tail(q)[k] = q[k + 1] /\ Tail(q)[k + 1] = q[k + 2]
    BY <1>1, <1>2
  <2>2. k + 1 \in 1..(Len(q) - 1) /\ (k + 1) + 1 = k + 2
    BY <1>1
  <2>3. Follows(q[k + 1], q[k + 2])
    BY <2>2 DEF OnPath
  <2>. QED
    BY <2>1, <2>3
<1>5. Follows(q[1], Tail(q)[1])
  BY <1>1, <1>2 DEF OnPath
<1>. QED
  BY <1>1, <1>2, <1>3, <1>4, <1>5 DEF OnPath

-----------------------------------------------------------------------------
WorkTyped ==
  /\ lock \in [Locks -> Sessions \cup {Nobody}]
  /\ new = [s \in Sessions |-> new[s]]
  /\ \A s \in Sessions : OnPath(plan[s])
HoldsStock ==
  \A s \in Sessions : Pc(s) \in AfterPost => lock[ProductOf[row[s]]] = s
WorkInv == RaceInv /\ WorkTyped /\ HoldsStock

(* Nobody comes to write the order's status but by reading it.             *)
ReadsStand ==
  \A t \in Sessions : Pc(t)' = "write" =>
    Pc(t) = "write" /\ new'[t] = new[t] /\ row'[t] = row[t]

LEMMA InitWorks == RaceAssumption /\ Init => WorkInv
<1>. SUFFICES ASSUME RaceAssumption, Init PROVE WorkInv
  OBVIOUS
<1>. DEFINE q == <<"idle">>
<1>1. OnPath(q)
  <2>1. q \in [1..1 -> Words]
    BY DEF Words
  <2>2. q \in Seq(Words) /\ Len(q) = 1 /\ q # <<>> /\ q[1] = "idle"
    BY <2>1
  <2>3. 1..(Len(q) - 1) = {}
    BY <2>2
  <2>. HIDE DEF q
  <2>. QED
    BY <2>2, <2>3 DEF OnPath
<1>2. WorkTyped
  <2>1. \A s \in Sessions : plan[s] = q
    BY DEF Init
  <2>. HIDE DEF q
  <2>. QED
    BY <1>1, <2>1 DEF Init, WorkTyped
<1>3. HoldsStock
  BY DEF Init, HoldsStock, Pc, AfterPost
<1>. QED
  BY <1>2, <1>3, InitHolds DEF WorkInv

LEMMA BeginWorks ==
  ASSUME RaceAssumption, WorkInv, NEW s \in Sessions, NEW i \in Rows,
         NEW path \in {Approval, ReturnApproval, Drop}, Decidable(i), Begin(s, i, path)
  PROVE  WorkInv' /\ ReadsStand
<1>1. RaceInv'
  BY BeginKeeps DEF WorkInv
<1>2. /\ \A t \in Sessions : t # s => plan'[t] = plan[t] /\ row'[t] = row[t]
      /\ plan'[s] = Tail(path) /\ UNCHANGED <<lock, new>>
  BY DEF Begin, WorkInv, RaceInv, Typed
<1>3. OnPath(plan'[s]) /\ plan'[s][1] \notin AfterPost
  BY <1>2, PathsBegin
<1>4. WorkTyped'
  BY <1>2, <1>3 DEF WorkInv, WorkTyped
<1>5. HoldsStock'
  BY <1>2, <1>3 DEF WorkInv, HoldsStock, Pc
<1>6. ReadsStand
  BY <1>2, <1>3 DEF ReadsStand, Pc, AfterPost
<1>. QED
  BY <1>1, <1>4, <1>5, <1>6 DEF WorkInv

(* A statement in the middle, that takes a lock at most. *)
LEMMA MiddleWorks ==
  ASSUME RaceAssumption, WorkInv, NEW s \in Sessions, Proceed(s), Pc(s) # "idle",
         UNCHANGED <<st, moves, row, overlap>>,
         \/ UNCHANGED lock /\ Pc(s) # "post"
         \/ \E l : TakeLock(s, l) /\ (Pc(s) = "post" => l = ProductOf[row[s]]),
         \/ UNCHANGED new
         \/ \E n : new' = [new EXCEPT ![s] = n]
  PROVE  WorkInv' /\ (Pc(s) # "read" => ReadsStand)
<1>1. RaceInv'
  BY MiddleKeeps DEF WorkInv
<1>2. /\ \A t \in Sessions : t # s => plan'[t] = plan[t] /\ row'[t] = row[t] /\ new'[t] = new[t]
      /\ plan'[s] = Tail(plan[s]) /\ row'[s] = row[s]
      /\ new' = [t \in Sessions |-> new'[t]]
  BY DEF Proceed, WorkInv, WorkTyped, RaceInv, Typed
<1>3. OnPath(plan'[s]) /\ Follows(plan[s][1], plan'[s][1])
  <2>1. OnPath(plan[s]) /\ plan[s][1] # "idle"
    BY DEF WorkInv, WorkTyped, Pc
  <2>2. OnPath(Tail(plan[s])) /\ Follows(plan[s][1], Tail(plan[s])[1])
    BY <2>1, PathGoesOn
  <2>. QED
    BY <1>2, <2>2
<1>4. row[s] \in Rows /\ ProductOf[row[s]] \in Locks
  BY DEF WorkInv, RaceInv, IdleIsFree, Locks, RaceAssumption
<1>5. /\ lock' \in [Locks -> Sessions \cup {Nobody}]
      /\ \A l \in Locks : lock[l] # Nobody => lock'[l] = lock[l]
      /\ Pc(s) = "post" => lock'[ProductOf[row[s]]] = s
  BY <1>4 DEF TakeLock, WorkInv, WorkTyped
<1>6. WorkTyped'
  BY <1>2, <1>3, <1>5 DEF WorkInv, WorkTyped
<1>7. HoldsStock'
  <2>. SUFFICES ASSUME NEW t \in Sessions, plan'[t][1] \in AfterPost
                PROVE  lock'[ProductOf[row'[t]]] = t
    BY DEF HoldsStock, Pc
  <2>1. row'[t] = row[t]
    BY <1>2
  <2>2. CASE Pc(t) \in AfterPost
    <3>1. lock[ProductOf[row[t]]] = t
      BY <2>2 DEF WorkInv, HoldsStock
    <3>2. row[t] \in Rows
      BY <2>2 DEF WorkInv, RaceInv, IdleIsFree, AfterPost
    <3>3. ProductOf[row[t]] \in Locks /\ t # Nobody
      BY <3>2 DEF Locks, RaceAssumption
    <3>. QED
      BY <1>5, <2>1, <3>1, <3>3
  <2>3. CASE Pc(t) \notin AfterPost
    <3>1. t = s
      BY <1>2, <2>3 DEF Pc
    <3>2. Pc(s) = "post"
      BY <1>3, <2>3, <3>1 DEF Follows, Pc
    <3>. QED
      BY <1>5, <2>1, <3>1, <3>2
  <2>. QED
    BY <2>2, <2>3
<1>8. Pc(s) # "read" => ReadsStand
  BY <1>2, <1>3 DEF ReadsStand, Follows, Pc
<1>. QED
  BY <1>1, <1>6, <1>7, <1>8 DEF WorkInv

(* The end of a handler drops its locks and no other's.                    *)
LEMMA EndWorks ==
  ASSUME RaceAssumption, WorkInv, NEW s \in Sessions, RaceInv', End(s)
  PROVE  WorkInv' /\ ReadsStand
<1>1. /\ \A t \in Sessions : t # s => plan'[t] = plan[t] /\ row'[t] = row[t] /\ new'[t] = new[t]
      /\ plan'[s] = <<"idle">>
      /\ new' = [t \in Sessions |-> new'[t]]
      /\ lock' = [l \in Locks |-> IF lock[l] = s THEN Nobody ELSE lock[l]]
  BY DEF End, WorkInv, WorkTyped, RaceInv, Typed
<1>2. OnPath(plan'[s]) /\ plan'[s][1] = "idle"
  <2>1. <<"idle">> \in [1..1 -> Words]
    BY DEF Words
  <2>2. plan'[s] \in Seq(Words) /\ Len(plan'[s]) = 1 /\ plan'[s] # <<>> /\ plan'[s][1] = "idle"
    BY <1>1, <2>1
  <2>3. 1..(Len(plan'[s]) - 1) = {}
    BY <2>2
  <2>. QED
    BY <2>2, <2>3 DEF OnPath
<1>3. WorkTyped'
  BY <1>1, <1>2 DEF WorkInv, WorkTyped
<1>4. HoldsStock'
  <2>. SUFFICES ASSUME NEW t \in Sessions, plan'[t][1] \in AfterPost
                PROVE  lock'[ProductOf[row'[t]]] = t
    BY DEF HoldsStock, Pc
  <2>1. t # s /\ Pc(t) \in AfterPost /\ row'[t] = row[t]
    BY <1>1, <1>2 DEF Pc, AfterPost
  <2>2. lock[ProductOf[row[t]]] = t
    BY <2>1 DEF WorkInv, HoldsStock
  <2>3. row[t] \in Rows
    BY <2>1 DEF WorkInv, RaceInv, IdleIsFree, AfterPost
  <2>4. ProductOf[row[t]] \in Locks
    BY <2>3 DEF Locks, RaceAssumption
  <2>. QED
    BY <1>1, <2>1, <2>2, <2>4
<1>5. ReadsStand
  BY <1>1, <1>2 DEF ReadsStand, Pc
<1>. QED
  BY <1>3, <1>4, <1>5 DEF WorkInv

(* What a step can be: one that decides no row and writes no status, the   *)
(* reading of the order, or a commit.                                      *)
Kept == UNCHANGED <<st, moves, status>> /\ overlap \subseteq overlap' /\ ReadsStand
Commit(s) == CommitApproval(s) \/ CommitReturn(s) \/ CommitDrop(s)

LEMMA StatementWorks ==
  ASSUME RaceAssumption, WorkInv, NEW s \in Sessions, Statement(s)
  PROVE  /\ WorkInv'
         /\ Kept \/ ReadBreakdown(s) \/ (Commit(s) /\ ReadsStand)
<1>. USE DEF At
<1>1. Pc(s) # "idle"
  BY DEF Statement, ReadOrder, CheckOutstanding, CountSales, InsertSale, CheckStock,
     PostMovement, WriteSettledValue, CommitApproval, MarkReturn, ReadBreakdown,
     CommitReturn, CommitDrop
<1>2. RaceInv'
  BY StatementKeeps DEF WorkInv
<1>3. ASSUME Rollback(s) PROVE WorkInv' /\ Kept
  BY <1>2, <1>3, EndWorks DEF Rollback, Kept
<1>4. ASSUME Read(s), Pc(s) # "read", Pc(s) # "post" PROVE WorkInv' /\ Kept
  BY <1>1, <1>4, MiddleWorks DEF Read, Kept
<1>5. ASSUME NEW l, LockStep(s, l), Pc(s) # "read", Pc(s) = "post" => l = ProductOf[row[s]]
      PROVE  WorkInv' /\ Kept
  BY <1>1, <1>5, MiddleWorks DEF LockStep, Kept
<1>6. CASE ReadOrder(s) \/ CheckOutstanding(s) \/ CheckStock(s)
  BY <1>3, <1>4, <1>6 DEF ReadOrder, CheckOutstanding, CheckStock
<1>7. CASE InsertSale(s) \/ PostMovement(s) \/ WriteSettledValue(s) \/ MarkReturn(s)
  BY <1>3, <1>5, <1>7 DEF InsertSale, PostMovement, WriteSettledValue, MarkReturn
<1>8. CASE CountSales(s)
  BY <1>1, <1>8, MiddleWorks DEF CountSales, Kept
<1>9. CASE ReadBreakdown(s)
  BY <1>1, <1>9, MiddleWorks DEF ReadBreakdown
<1>10. CASE Commit(s)
  <2>1. End(s)
    BY <1>10 DEF Commit, CommitApproval, CommitReturn, CommitDrop
  <2>. QED
    BY <1>2, <1>10, <2>1, EndWorks
<1>. QED
  BY <1>6, <1>7, <1>8, <1>9, <1>10 DEF Statement, Commit

LEMMA NextWorks ==
  ASSUME RaceAssumption, WorkInv, [Next]_vars
  PROVE  /\ WorkInv'
         /\ Kept \/ \E s \in Sessions : ReadBreakdown(s) \/ (Commit(s) /\ ReadsStand)
<1>1. CASE UNCHANGED vars
  BY <1>1 DEF vars, WorkInv, WorkTyped, HoldsStock, RaceInv, Typed, IdleIsFree, AloneWithRow,
              RowsTellTheTruth, Pc, Kept, ReadsStand
<1>2. ASSUME NEW s \in Sessions,
             \/ \E i \in Subs : StartApproval(s, i)
             \/ \E i \in Rets : StartReturnApproval(s, i)
             \/ \E i \in Rows : StartDrop(s, i)
      PROVE  WorkInv' /\ Kept
  <2>1. PICK i \in Rows, path \in {Approval, ReturnApproval, Drop} :
          Decidable(i) /\ Begin(s, i, path)
    BY <1>2 DEF StartApproval, StartReturnApproval, StartDrop, Rows
  <2>2. UNCHANGED <<st, moves, status>> /\ overlap \subseteq overlap'
    BY <2>1 DEF Begin
  <2>. QED
    BY <2>1, <2>2, BeginWorks DEF Kept
<1>3. ASSUME NEW s \in Sessions, Crash(s) PROVE WorkInv' /\ Kept
  <2>1. End(s) /\ UNCHANGED <<st, moves, status, overlap>>
    BY <1>3 DEF Crash, Rollback
  <2>2. RaceInv'
    BY <1>3, <2>1, EndKeeps DEF Crash, WorkInv
  <2>. QED
    BY <2>1, <2>2, EndWorks DEF Kept
<1>. QED
  BY <1>1, <1>2, <1>3, StatementWorks DEF Next

-----------------------------------------------------------------------------
(* What a commit does to the rows: it decides the session's own.           *)
LEMMA CommitDecides ==
  ASSUME RaceAssumption, WorkInv, NEW s \in Sessions, Commit(s)
  PROVE  /\ row[s] \in Rows /\ UNCHANGED overlap
         /\ \/ /\ CommitApproval(s) \/ CommitReturn(s)
               /\ st' = [st EXCEPT ![row[s]] = "APPROVED"]
               /\ moves' = [moves EXCEPT ![row[s]] = @ + 1]
            \/ /\ CommitDrop(s) /\ UNCHANGED <<moves, status>>
               /\ st' = [st EXCEPT ![row[s]] = "DROPPED"]
<1>1. Pc(s) # "idle"
  BY DEF Commit, CommitApproval, CommitReturn, CommitDrop, At
<1>2. row[s] \in Rows
  BY <1>1 DEF WorkInv, RaceInv, IdleIsFree
<1>. QED
  BY <1>2 DEF Commit, CommitApproval, CommitReturn, CommitDrop

LEMMA RowTypes ==
  ASSUME WorkInv
  PROVE  moves \in Moves /\ st \in Statuses
BY DEF WorkInv, RaceInv, Typed, Moves, Statuses

(* The rows count on, as long as no return is worked on twice: an approved *)
(* one is not dropped.                                                     *)
LEMMA CommitCountsOn ==
  ASSUME RaceAssumption, WorkInv, NEW s \in Sessions, Commit(s), overlap \cap Rets = {},
         NEW mine, NothingOwed(moves, st, mine)
  PROVE  NothingOwed(moves', st', mine)
<1>. DEFINE i == row[s]
<1>1. /\ i \in Rows
      /\ \/ st' = [st EXCEPT ![i] = "APPROVED"] /\ moves' = [moves EXCEPT ![i] = @ + 1]
         \/ st' = [st EXCEPT ![i] = "DROPPED"] /\ moves' = moves
  BY CommitDecides
<1>2. i \in Rets => st[i] = "PENDING"
  BY <1>1 DEF WorkInv, RaceInv, AloneWithRow
<1>. HIDE DEF i
<1>3. moves' \in Moves /\ \A j \in Subs : moves[j] <= moves'[j]
  <2>1. \A j \in Rows : moves[j] \in Nat /\ moves[j] + 1 \in Nat /\ moves[j] <= moves[j] + 1
    BY RowTypes DEF Moves
  <2>2. moves' \in Moves
    BY <1>1, <2>1, RowTypes DEF Moves
  <2>3. \A j \in Rows : moves'[j] = moves[j] \/ moves'[j] = moves[j] + 1
    BY <1>1, RowTypes DEF Moves
  <2>. QED
    BY <2>1, <2>2, <2>3 DEF Rows
<1>4. \A j \in Rets : st[j] = "APPROVED" => st'[j] = "APPROVED"
  BY <1>1, <1>2, RowTypes DEF Rows, Statuses
<1>. QED
  BY <1>3, <1>4, RowTypes, StillNothingOwed

(* A drop takes nothing off what is owed.                                  *)
LEMMA DropCountsNothing ==
  ASSUME RaceAssumption, WorkInv, NEW s \in Sessions, CommitDrop(s),
         NEW mine, NothingOwed(moves', st', mine)
  PROVE  NothingOwed(moves, st, mine)
<1>1. st' = [st EXCEPT ![row[s]] = "DROPPED"] /\ moves' = moves
  BY DEF CommitDrop
<1>2. \A j \in Rets : st'[j] = "APPROVED" => st[j] = "APPROVED"
  BY <1>1, RowTypes DEF Rows, Statuses
<1>3. \A j \in Subs : moves'[j] <= moves[j] /\ moves' \in Moves
  BY <1>1, RowTypes DEF Moves, Rows
<1>. QED
  BY <1>1, <1>2, <1>3, RowTypes, StillNothingOwed

(* What a commit of a decision computed for the order is what is owed once *)
(* it is done.                                                             *)
LEMMA CommitCounts ==
  ASSUME RaceAssumption, WorkInv, NEW s \in Sessions, CommitApproval(s) \/ CommitReturn(s)
  PROVE  NothingOwed(moves', st', {}) <=> NothingOwed(moves, st, {row[s]})
<1>1. /\ row[s] \in Rows
      /\ st' = [st EXCEPT ![row[s]] = "APPROVED"] /\ moves' = [moves EXCEPT ![row[s]] = @ + 1]
  BY CommitDecides DEF Commit, CommitApproval, CommitReturn
<1>. QED
  BY <1>1, RowTypes, DecidedCounts

-----------------------------------------------------------------------------
(* A handler about to close the order has read that it owes nothing.       *)
ClosingReads ==
  \A s \in Sessions : Pc(s) = "write" /\ new[s] = "SETTLED" =>
    NothingOwed(moves, st, {row[s]}) \/ overlap \cap Rets # {}
ClosedInv == WorkInv /\ ClosingReads /\ ClosedOwesNothing

LEMMA InitClosed == RaceAssumption /\ Init => ClosedInv
<1>. SUFFICES ASSUME RaceAssumption, Init PROVE ClosedInv
  OBVIOUS
<1>1. ClosingReads
  BY DEF Init, ClosingReads, Pc
<1>2. ClosedOwesNothing
  BY DEF Init, ClosedOwesNothing
<1>. QED
  BY <1>1, <1>2, InitWorks DEF ClosedInv

LEMMA NextClosed == RaceAssumption /\ ClosedInv /\ [Next]_vars => ClosedInv'
<1>. SUFFICES ASSUME RaceAssumption, ClosedInv, [Next]_vars PROVE ClosedInv'
  OBVIOUS
<1>0. /\ WorkInv /\ WorkInv'
      /\ Kept \/ \E s \in Sessions : ReadBreakdown(s) \/ (Commit(s) /\ ReadsStand)
  BY NextWorks DEF ClosedInv
<1>1. ClosedOwesNothing <=> (status = "SETTLED" => NothingOwed(moves, st, {}) \/ overlap \cap Rets # {})
  BY AccountedNow DEF ClosedOwesNothing
<1>2. ClosedOwesNothing' <=> (status' = "SETTLED" => NothingOwed(moves', st', {}) \/ overlap' \cap Rets # {})
  BY AccountedThen DEF ClosedOwesNothing
<1>3. CASE Kept
  <2>1. ClosedOwesNothing'
    BY <1>1, <1>2, <1>3 DEF ClosedInv, Kept
  <2>2. ClosingReads'
    BY <1>3 DEF ClosedInv, ClosingReads, Kept, ReadsStand
  <2>. QED
    BY <1>0, <2>1, <2>2 DEF ClosedInv
<1>4. ASSUME NEW s \in Sessions, ReadBreakdown(s) PROVE ClosedInv'
  <2>1. /\ UNCHANGED <<st, moves, status, row, overlap>>
        /\ new' = [new EXCEPT ![s] = Recomputed({row[s]})]
        /\ \A t \in Sessions : t # s => plan'[t] = plan[t]
    BY <1>0, <1>4 DEF ReadBreakdown, Proceed, WorkInv, RaceInv, Typed
  <2>2. ClosedOwesNothing'
    BY <1>1, <1>2, <2>1 DEF ClosedInv
  <2>3. new'[s] = "SETTLED" => NothingOwed(moves, st, {row[s]})
    BY <1>0, <2>1, AccountedNow DEF Recomputed, WorkInv, WorkTyped
  <2>4. \A t \in Sessions : t # s => new'[t] = new[t]
    BY <1>0, <2>1 DEF WorkInv, WorkTyped
  <2>5. ClosingReads'
    BY <2>1, <2>3, <2>4 DEF ClosedInv, ClosingReads, Pc
  <2>. QED
    BY <1>0, <2>2, <2>5 DEF ClosedInv
<1>5. ASSUME NEW s \in Sessions, Commit(s), ReadsStand PROVE ClosedInv'
  <2>. SUFFICES ASSUME overlap \cap Rets = {} PROVE ClosedInv'
    <3>1. overlap' = overlap
      BY <1>0, <1>5, CommitDecides
    <3>. QED
      BY <1>0, <1>2, <3>1 DEF ClosedInv, ClosingReads
  <2>1. \A mine : NothingOwed(moves, st, mine) => NothingOwed(moves', st', mine)
    BY <1>0, <1>5, CommitCountsOn
  <2>2. ClosingReads'
    BY <1>5, <2>1 DEF ClosedInv, ClosingReads, ReadsStand
  <2>3. status' = "SETTLED" => NothingOwed(moves', st', {})
    <3>1. CASE CommitApproval(s)
      <4>1. status' = "SETTLED" => NothingOwed(moves, st, {row[s]})
        BY <3>1, AccountedNow DEF CommitApproval, Recomputed
      <4>. QED
        BY <1>0, <3>1, <4>1, CommitCounts
    <3>2. CASE CommitReturn(s)
      <4>1. status' = "SETTLED" => NothingOwed(moves, st, {row[s]})
        BY <3>2 DEF CommitReturn, At, ClosedInv, ClosingReads
      <4>. QED
        BY <1>0, <3>2, <4>1, CommitCounts
    <3>3. CASE CommitDrop(s)
      BY <1>1, <2>1, <3>3 DEF CommitDrop, ClosedInv
    <3>. QED
      BY <1>5, <3>1, <3>2, <3>3 DEF Commit
  <2>. QED
    BY <1>0, <1>2, <2>2, <2>3 DEF ClosedInv
<1>. QED
  BY <1>0, <1>3, <1>4, <1>5

(* Of any number of products, whatever interleaves: a closed order owes    *)
(* nothing, unless two handlers worked on one return at once.              *)
THEOREM ClosedOrdersOweNothing == Spec => []ClosedOwesNothing
<1>1. Init => ClosedInv
  BY InitClosed, RaceAssumption
<1>2. ClosedInv /\ [Next]_vars => ClosedInv'
  BY NextClosed, RaceAssumption
<1>3. ClosedInv => ClosedOwesNothing
  BY DEF ClosedInv
<1>. QED
  BY <1>1, <1>2, <1>3, PTL DEF Spec

-----------------------------------------------------------------------------
(* An order of one product.  A handler about to write the status holds the *)
(* product's stock row, so nobody decides a row since it read: what it     *)
(* read stands, and an order it finds with nothing owed it closes.         *)
OpenReads ==
  \A s \in Sessions : Pc(s) = "write" /\ NothingOwed(moves, st, {row[s]}) => new[s] = "SETTLED"
NothingOwedIsClosed == NothingOwed(moves, st, {}) => status = "SETTLED"
QuietInv == WorkInv /\ OpenReads /\ NothingOwedIsClosed

LEMMA InitQuiet == RaceAssumption /\ Products # {} /\ Init => QuietInv
<1>. SUFFICES ASSUME RaceAssumption, Products # {}, Init PROVE QuietInv
  OBVIOUS
<1>1. OpenReads
  BY DEF Init, OpenReads, Pc
<1>2. ~NothingOwed(moves, st, {})
  <2>1. PICK p \in Products : TRUE
    OBVIOUS
  <2>2. ReturnedOf(p, st, {}) = {} /\ Issued[p] \in Nat \ {0}
    BY DEF Init, ReturnedOf, Rows, RaceAssumption
  <2>3. SumFunction(SettledOf(p, moves, {})) = 0
    <3>. DEFINE f == SettledOf(p, moves, {})
    <3>1. DOMAIN f = SubsOf(p) /\ \A i \in SubsOf(p) : f[i] = 0
      BY DEF Init, SettledOf, SubsOf, Rows
    <3>2. IsFiniteSet(SubsOf(p))
      <4>1. SubsOf(p) \in SUBSET Rows
        BY DEF SubsOf, Rows
      <4>. QED
        BY <4>1, FS_Subset DEF RaceAssumption
    <3>3. {i \in SubsOf(p) : f[i] = 1} = {}
      BY <3>1
    <3>4. SumFunction(f) = Cardinality({i \in SubsOf(p) : f[i] = 1})
      <4>. HIDE DEF f
      <4>. QED
        BY <3>1, <3>2, SumOfOnes
    <3>. QED
      BY <3>3, <3>4, FS_EmptySet
  <2>4. Cardinality(ReturnedOf(p, st, {})) = 0
    BY <2>2, FS_EmptySet
  <2>5. ~(Issued[p] - SumFunction(SettledOf(p, moves, {})) - Cardinality(ReturnedOf(p, st, {})) <= 0)
    BY <2>2, <2>3, <2>4
  <2>. QED
    BY <2>5 DEF NothingOwed
<1>. QED
  BY <1>1, <1>2, InitWorks DEF QuietInv, NothingOwedIsClosed

LEMMA NextQuiet ==
  ASSUME RaceAssumption, \A p, q \in Products : p = q
  PROVE  QuietInv /\ [Next]_vars => QuietInv'
<1>. SUFFICES ASSUME QuietInv, [Next]_vars PROVE QuietInv'
  OBVIOUS
<1>0. /\ WorkInv /\ WorkInv'
      /\ Kept \/ \E s \in Sessions : ReadBreakdown(s) \/ (Commit(s) /\ ReadsStand)
  BY NextWorks DEF QuietInv
<1>1. CASE Kept
  BY <1>0, <1>1 DEF QuietInv, OpenReads, NothingOwedIsClosed, Kept, ReadsStand
<1>2. ASSUME NEW s \in Sessions, ReadBreakdown(s) PROVE QuietInv'
  <2>1. /\ UNCHANGED <<st, moves, status, row>>
        /\ new' = [new EXCEPT ![s] = Recomputed({row[s]})]
        /\ \A t \in Sessions : t # s => plan'[t] = plan[t]
    BY <1>0, <1>2 DEF ReadBreakdown, Proceed, WorkInv, RaceInv, Typed
  <2>2. NothingOwed(moves, st, {row[s]}) => new'[s] = "SETTLED"
    BY <1>0, <2>1, AccountedNow DEF Recomputed, WorkInv, WorkTyped
  <2>3. \A t \in Sessions : t # s => new'[t] = new[t]
    BY <1>0, <2>1 DEF WorkInv, WorkTyped
  <2>4. OpenReads'
    BY <2>1, <2>2, <2>3 DEF QuietInv, OpenReads, Pc
  <2>. QED
    BY <1>0, <2>1, <2>4 DEF QuietInv, NothingOwedIsClosed
<1>3. ASSUME NEW s \in Sessions, CommitDrop(s), ReadsStand PROVE QuietInv'
  <2>1. \A mine : NothingOwed(moves', st', mine) => NothingOwed(moves, st, mine)
    BY <1>0, <1>3, DropCountsNothing
  <2>2. status' = status
    BY <1>3 DEF CommitDrop
  <2>3. OpenReads' /\ NothingOwedIsClosed'
    BY <1>3, <2>1, <2>2 DEF QuietInv, OpenReads, NothingOwedIsClosed, ReadsStand
  <2>. QED
    BY <1>0, <2>3 DEF QuietInv
<1>4. ASSUME NEW s \in Sessions, CommitApproval(s) \/ CommitReturn(s), ReadsStand PROVE QuietInv'
  <2>1. /\ Pc(s) \in AfterPost /\ plan' = [plan EXCEPT ![s] = <<"idle">>]
    BY <1>4 DEF CommitApproval, CommitReturn, At, End, AfterPost
  <2>2. Pc(s)' = "idle"
    BY <1>0, <2>1 DEF Pc, WorkInv, RaceInv, Typed
  <2>3. \A t \in Sessions : Pc(t) = "write" => t = s
    <3>. SUFFICES ASSUME NEW t \in Sessions, Pc(t) = "write" PROVE t = s
      OBVIOUS
    <3>1. lock[ProductOf[row[t]]] = t /\ lock[ProductOf[row[s]]] = s
      BY <1>0, <2>1 DEF WorkInv, HoldsStock, AfterPost
    <3>2. row[t] \in Rows /\ row[s] \in Rows
      BY <1>0, <2>1 DEF WorkInv, RaceInv, IdleIsFree, AfterPost
    <3>3. ProductOf[row[t]] = ProductOf[row[s]]
      BY <3>2 DEF RaceAssumption
    <3>. QED
      BY <3>1, <3>3
  <2>4. OpenReads'
    <3>1. \A t \in Sessions : Pc(t)' # "write"
      BY <1>4, <2>2, <2>3 DEF ReadsStand
    <3>. QED
      BY <3>1 DEF OpenReads
  <2>5. NothingOwedIsClosed'
    <3>1. NothingOwed(moves', st', {}) => NothingOwed(moves, st, {row[s]})
      BY <1>0, <1>4, CommitCounts
    <3>2. CASE CommitApproval(s)
      BY <3>1, <3>2, AccountedNow DEF CommitApproval, Recomputed, NothingOwedIsClosed
    <3>3. CASE CommitReturn(s)
      BY <3>1, <3>3 DEF CommitReturn, At, QuietInv, OpenReads, NothingOwedIsClosed
    <3>. QED
      BY <1>4, <3>2, <3>3
  <2>. QED
    BY <1>0, <2>4, <2>5 DEF QuietInv
<1>. QED
  BY <1>0, <1>1, <1>2, <1>3, <1>4 DEF Commit

(* However many handlers and rows: an order of one product that is quiet   *)
(* and owes nothing is closed.  Two products are enough to break it.       *)
THEOREM QuietOrdersAreClosed ==
  ASSUME Products # {}, \A p, q \in Products : p = q
  PROVE  Spec => []QuietOrderIsClosed
<1>1. Init => QuietInv
  BY InitQuiet, RaceAssumption
<1>2. QuietInv /\ [Next]_vars => QuietInv'
  BY NextQuiet, RaceAssumption
<1>3. QuietInv => QuietOrderIsClosed
  BY AccountedNow DEF QuietInv, NothingOwedIsClosed, QuietOrderIsClosed
<1>. QED
  BY <1>1, <1>2, <1>3, PTL DEF Spec
===============================================================================
