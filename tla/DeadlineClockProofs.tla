------------------------- MODULE DeadlineClockProofs -------------------------
(***************************************************************************)
(* A closed order stays closed whatever change of its deadline was under   *)
(* way when it closed: of the handlers that write the status, the undo     *)
(* claims the row in the state it was read in, and extendDeadline read a   *)
(* row that was not closed, so it can reopen one only by writing over an   *)
(* order it had not read.  And no time is taken back from a fined order:   *)
(* only the undo closes rows of the history, in its claim.                 *)
(*                                                                         *)
(* And the reminders, which run beside the deadline: each rings once, in   *)
(* order, when its time has come.                                          *)
(***************************************************************************)
EXTENDS MCClock, SumTheorems

(* No extension or undo in flight has read a closed order. *)
LiveWhenRead ==
  /\ job = [s \in Sessions |-> job[s]]
  /\ \A s \in Sessions :
       job[s].at \in {"extend", "undo"} => job[s].o.status # "SETTLED"

LEMMA InitLive == Init => LiveWhenRead
BY DEF Init, LiveWhenRead, Idle

(* A step changes the job of one session at most, and a session that comes *)
(* to extend or undo has just read the order, not closed.                  *)
LEMMA NextKeepsLive == LiveWhenRead /\ [Next]_vars => LiveWhenRead'
<1>. SUFFICES ASSUME LiveWhenRead, [Next]_vars
              PROVE  LiveWhenRead'
  OBVIOUS
<1>. USE DEF LiveWhenRead
<1>1. CASE UNCHANGED job
  BY <1>1
<1>2. ASSUME NEW s \in Sessions, NEW r, job' = [job EXCEPT ![s] = r],
             r.at \in {"extend", "undo"} => r.o.status # "SETTLED"
      PROVE  LiveWhenRead'
  BY <1>2
<1>3. ASSUME NEW s \in Sessions, End(s)
      PROVE  LiveWhenRead'
  BY <1>3, <1>2 DEF End, Idle
<1>4. ASSUME NEW s \in Handlers, Handle(s)
      PROVE  LiveWhenRead'
  <2>. s \in Sessions
    BY DEF Sessions
  <2>1. CASE StartSelfExtend(s)
    BY <2>1, <1>2 DEF StartSelfExtend, Start
  <2>2. CASE SelfExtend(s)
    BY <2>2, <1>3 DEF SelfExtend
  <2>3. CASE \E to \in Days : StartExtend(s, to)
    BY <2>3, <1>2 DEF StartExtend, Start, Order
  <2>4. CASE Extend(s)
    BY <2>4, <1>3 DEF Extend
  <2>5. CASE \E all \in BOOLEAN : StartUndo(s, all)
    BY <2>5, <1>2 DEF StartUndo, Start, Order
  <2>6. CASE Undo(s)
    BY <2>6, <1>3 DEF Undo
  <2>7. CASE \E t \in Rets : StartReject(s, t) \/ StartExpire(s, t)
    BY <2>7, <1>2 DEF StartReject, StartExpire, Start
  <2>8. CASE Reject(s)
    BY <2>8, <1>2 DEF Reject, Proceed
  <2>9. CASE ReadOrder(s)
    BY <2>9, <1>2, <1>3 DEF ReadOrder, Proceed
  <2>10. CASE GiveBack(s) \/ Expire(s)
    BY <2>10, <1>3 DEF GiveBack, Expire
  <2>. QED
    BY <1>4, <2>1, <2>2, <2>3, <2>4, <2>5, <2>6, <2>7, <2>8, <2>9, <2>10
    DEF Handle
<1>5. ASSUME NEW s \in Sweepers, Sweep(s)
      PROVE  LiveWhenRead'
  <2>. s \in Sessions
    BY DEF Sessions
  <2>1. CASE StartSweep(s)
    BY <2>1, <1>2 DEF StartSweep, Start
  <2>2. CASE CountPending(s)
    BY <2>2, <1>2, <1>3 DEF CountPending, Proceed
  <2>3. CASE ReadFresh(s)
    BY <2>3, <1>2, <1>3 DEF ReadFresh, Proceed
  <2>4. CASE CountCharged(s)
    BY <2>4, <1>2, <1>3 DEF CountCharged, Proceed
  <2>5. CASE Charge(s)
    <3>1. CASE End(s)
      BY <3>1, <1>3
    <3>2. CASE Proceed(s, [job[s] EXCEPT !.next = @ + 1])
      BY <3>2, <2>5, <1>2 DEF Proceed, Charge, At
    <3>. QED
      BY <2>5, <3>1, <3>2 DEF Charge
  <2>. QED
    BY <1>5, <2>1, <2>2, <2>3, <2>4, <2>5 DEF Sweep
<1>6. ASSUME NEW s \in Sessions, Crash(s)
      PROVE  LiveWhenRead'
  BY <1>6, <1>3 DEF Crash
<1>. QED
  BY <1>1, <1>4, <1>5, <1>6
  DEF Next, vars, ApproveSubmission, ApproveReturn, CreateReturn,
      RefreshOverdue, Tick

(* Of all the steps, only an extension, an undo and an approval write the  *)
(* status of an order that is closed.                                      *)
LEMMA ClosedStep ==
  LiveWhenRead /\ [Next]_vars =>
    (status = "SETTLED" /\ ~stale' => status' = "SETTLED")
<1>. SUFFICES ASSUME LiveWhenRead, Next, status = "SETTLED", ~stale'
              PROVE  status' = "SETTLED"
  BY DEF vars
<1>1. ASSUME NEW s \in Handlers, Handle(s)
      PROVE  status' = "SETTLED"
  <2>. s \in Sessions
    BY DEF Sessions
  <2>1. CASE Extend(s)
    <3>1. job[s].o.status # "SETTLED"
      BY <2>1 DEF Extend, At, LiveWhenRead
    <3>2. job[s].o # Order
      BY <3>1 DEF Order
    <3>. QED
      BY <2>1, <3>2 DEF Extend
  <2>2. CASE Undo(s)
    <3>1. job[s].o.status # "SETTLED"
      BY <2>2 DEF Undo, At, LiveWhenRead
    <3>2. ~Claims(job[s].o)
      BY <3>1 DEF Claims
    <3>. QED
      BY <2>2, <3>2 DEF Undo, order
  <2>3. CASE Expire(s)
    BY <2>3 DEF Expire, order
  <2>. QED
    BY <1>1, <2>1, <2>2, <2>3
    DEF Handle, Stored, order, StartSelfExtend, SelfExtend, StartExtend,
        StartUndo, StartReject, StartExpire, Reject, ReadOrder, GiveBack
<1>2. ASSUME NEW s \in Sweepers, Sweep(s)
      PROVE  status' = "SETTLED"
  BY <1>2 DEF Sweep, Stored, order, StartSweep, CountPending, ReadFresh,
              CountCharged, Charge
<1>3. ASSUME NEW s \in Sessions, Crash(s)
      PROVE  status' = "SETTLED"
  BY <1>3 DEF Crash, order
<1>4. ASSUME NEW closes \in BOOLEAN, NEW t \in Rets, ApproveReturn(t, closes)
      PROVE  status' = "SETTLED"
  BY <1>4 DEF ApproveReturn, Recompute
<1>. QED
  BY <1>1, <1>2, <1>3, <1>4
  DEF Next, ApproveSubmission, CreateReturn, RefreshOverdue, Tick, order

(* Whatever handlers, sweeps and crashes interleave, for any number of     *)
(* them: a closed order is reopened only by a handler that wrote over an   *)
(* order it had not read.                                                  *)
THEOREM ClosedOrdersStayClosed == Spec => ClosedStaysClosed
<1>1. Spec => []LiveWhenRead
  BY InitLive, NextKeepsLive, PTL DEF Spec
<1>. QED
  BY <1>1, ClosedStep, PTL DEF Spec, ClosedStaysClosed

-----------------------------------------------------------------------------
(* The history of the deadline is a list: rows are added at its end, and   *)
(* an undo rewrites them in place.                                         *)
HistoryIsAList == changes \in Seq(Range(changes))

LEMMA Appended ==
  ASSUME NEW S, NEW q \in Seq(S), NEW e
  PROVE  /\ Len(q) \in Nat /\ DOMAIN q = 1..Len(q)
         /\ Len(Append(q, e)) = Len(q) + 1
         /\ DOMAIN Append(q, e) = 1..(Len(q) + 1)
         /\ \A k \in 1..Len(q) : Append(q, e)[k] = q[k]
         /\ Append(q, e) \in Seq(S \cup {e})
<1>. DEFINE T == S \cup {e}
<1>1. q \in Seq(T) /\ e \in T
  OBVIOUS
<1>. QED
  BY <1>1

LEMMA StandingRows ==
  ASSUME NEW q, NEW n \in Nat, DOMAIN q = 1..n
  PROVE  IsFiniteSet(Open(q)) /\ Cardinality(Open(q)) \in Nat
<1>1. Open(q) \subseteq 1..n
  BY DEF Open
<1>2. IsFiniteSet(1..n)
  BY FS_Interval
<1>. QED
  BY <1>1, <1>2, FS_Subset, FS_CardinalityType

LEMMA HistoryStep ==
  ASSUME [Next]_vars
  PROVE  \/ UNCHANGED changes
         \/ \E kind, shift : changes' = Append(changes, Row(kind, shift))
         \/ ~AnyFine /\ \E K : changes' = [k \in DOMAIN changes |->
                              [changes[k] EXCEPT !.undone = @ \/ k \in K]]
<1>1. CASE UNCHANGED vars
  BY <1>1 DEF vars
<1>2. ASSUME NEW s \in Handlers, Handle(s)
      PROVE  \/ UNCHANGED changes
             \/ \E kind, shift : changes' = Append(changes, Row(kind, shift))
             \/ ~AnyFine /\ \E K : changes' = [k \in DOMAIN changes |->
                                  [changes[k] EXCEPT !.undone = @ \/ k \in K]]
  <2>1. CASE SelfExtend(s) \/ Extend(s)
    BY <2>1 DEF SelfExtend, Extend
  <2>2. CASE Undo(s)
    BY <2>2 DEF Undo, Claims, order
  <2>3. CASE Expire(s)
    BY <2>3 DEF Expire, order
  <2>. QED
    BY <1>2, <2>1, <2>2, <2>3
    DEF Handle, Stored, order, StartSelfExtend, StartExtend, StartUndo,
        StartReject, StartExpire, Reject, ReadOrder, GiveBack
<1>3. ASSUME NEW s \in Sweepers, Sweep(s)
      PROVE  UNCHANGED changes
  BY <1>3 DEF Sweep, Stored, order, StartSweep, CountPending, ReadFresh,
              CountCharged, Charge
<1>4. ASSUME NEW s \in Sessions, Crash(s)
      PROVE  UNCHANGED changes
  BY <1>4 DEF Crash, order
<1>5. CASE Next
  BY <1>2, <1>3, <1>4, <1>5
  DEF Next, ApproveSubmission, ApproveReturn, CreateReturn, RefreshOverdue,
      Tick, order
<1>. QED
  BY <1>1, <1>5

LEMMA HistoryKept == HistoryIsAList /\ [Next]_vars => HistoryIsAList'
<1>. SUFFICES ASSUME HistoryIsAList, [Next]_vars PROVE HistoryIsAList'
  OBVIOUS
<1>1. CASE UNCHANGED changes
  BY <1>1 DEF HistoryIsAList
<1>2. ASSUME NEW kind, NEW shift, changes' = Append(changes, Row(kind, shift))
      PROVE  HistoryIsAList'
  <2>1. /\ Len(changes) \in Nat /\ Len(changes') = Len(changes) + 1
        /\ DOMAIN changes' = 1..(Len(changes) + 1)
        /\ changes' \in Seq(Range(changes) \cup {Row(kind, shift)})
    BY <1>2, Appended DEF HistoryIsAList
  <2>2. changes' = [k \in 1..(Len(changes) + 1) |-> changes'[k]]
    BY <2>1
  <2>3. changes' \in Seq({changes'[k] : k \in 1..(Len(changes) + 1)})
    BY <2>1, <2>2
  <2>. QED
    BY <2>1, <2>3 DEF HistoryIsAList, Range
<1>3. ASSUME NEW K, changes' = [k \in DOMAIN changes |->
                              [changes[k] EXCEPT !.undone = @ \/ k \in K]]
      PROVE  HistoryIsAList'
  <2>1. Len(changes) \in Nat /\ DOMAIN changes = 1..Len(changes)
    BY DEF HistoryIsAList
  <2>2. changes' = [k \in 1..Len(changes) |-> changes'[k]]
    BY <1>3, <2>1
  <2>3. changes' \in Seq({changes'[k] : k \in 1..Len(changes)})
    BY <2>1, <2>2
  <2>4. DOMAIN changes' = 1..Len(changes)
    BY <2>2
  <2>. QED
    BY <2>3, <2>4 DEF HistoryIsAList, Range
<1>. QED
  BY <1>1, <1>2, <1>3, HistoryStep

(* Closing rows makes the list of those that stand shorter; adding one     *)
(* never does.                                                             *)
LEMMA FinedStep ==
  HistoryIsAList /\ [Next]_vars =>
    (Cardinality(Open(changes')) < Cardinality(Open(changes)) => ~AnyFine)
<1>. SUFFICES ASSUME HistoryIsAList, [Next]_vars,
                     Cardinality(Open(changes')) < Cardinality(Open(changes))
              PROVE  ~AnyFine
  OBVIOUS
<1>1. Len(changes) \in Nat /\ DOMAIN changes = 1..Len(changes)
  BY DEF HistoryIsAList
<1>2. IsFiniteSet(Open(changes)) /\ Cardinality(Open(changes)) \in Nat
  BY <1>1, StandingRows
<1>3. ~UNCHANGED changes
  BY <1>2
<1>4. ASSUME NEW kind, NEW shift, changes' = Append(changes, Row(kind, shift))
      PROVE  FALSE
  <2>1. /\ DOMAIN changes' = 1..(Len(changes) + 1)
        /\ \A k \in 1..Len(changes) : changes'[k] = changes[k]
    BY <1>4, Appended DEF HistoryIsAList
  <2>2. Open(changes) \subseteq Open(changes')
    BY <1>1, <2>1 DEF Open
  <2>3. IsFiniteSet(Open(changes')) /\ Cardinality(Open(changes')) \in Nat
    BY <1>1, <2>1, StandingRows
  <2>4. Cardinality(Open(changes)) <= Cardinality(Open(changes'))
    BY <2>2, <2>3, FS_Subset
  <2>. QED
    BY <1>2, <2>3, <2>4
<1>. QED
  BY <1>3, <1>4, HistoryStep

(* For any number of handlers, returns and changes: the deadline of an     *)
(* order that has drawn a fine is never brought back by an undo.           *)
THEOREM FinedTimeIsNotTakenBack == Spec => FinedTimeStands
<1>1. Init => HistoryIsAList
  BY DEF Init, HistoryIsAList, Range
<1>2. Spec => []HistoryIsAList
  BY <1>1, HistoryKept, PTL DEF Spec
<1>. QED
  BY <1>2, FinedStep, PTL DEF Spec, FinedTimeStands

-----------------------------------------------------------------------------
(* What rows of the history add up to.                                     *)
ChangeRow == [kind : {"SELF_EXTENSION", "ADMIN_EXTENSION"}, shift : Int,
              at : Int, undone : BOOLEAN]
OwnIn(chs) == {k \in Open(chs) : chs[k].kind = "SELF_EXTENSION"}

LEMMA ShiftIsInt ==
  ASSUME NEW chs \in Seq(ChangeRow), NEW K \in SUBSET (DOMAIN chs)
  PROVE  /\ IsFiniteSet(K)
         /\ \A k \in K : chs[k] \in ChangeRow /\ chs[k].shift \in Int
         /\ Shift(chs, K) \in Int
<1>1. DOMAIN chs = 1..Len(chs) /\ Len(chs) \in Nat
  OBVIOUS
<1>2. IsFiniteSet(K)
  <2>1. IsFiniteSet(1..Len(chs)) /\ K \in SUBSET (1..Len(chs))
    BY <1>1, FS_Interval
  <2>. QED
    BY <2>1, FS_Subset
<1>3. \A k \in K : chs[k] \in ChangeRow /\ chs[k].shift \in Int
  <2>1. \A k \in K : chs[k] \in ChangeRow
    BY <1>1
  <2>. QED
    BY <2>1 DEF ChangeRow
<1>4. Shift(chs, K) \in Int
  <2>. DEFINE f == [k \in K |-> chs[k].shift]
  <2>1. DOMAIN f = K /\ \A k \in K : f[k] \in Int
    BY <1>3
  <2>. HIDE DEF f
  <2>2. SumFunction(f) \in Int
    BY <1>2, <2>1, SumFunctionIsInt
  <2>. QED
    BY <2>2 DEF Shift, f
<1>. QED
  BY <1>2, <1>3, <1>4

LEMMA HistoryGrows ==
  ASSUME NEW chs \in Seq(ChangeRow), NEW r \in ChangeRow, ~r.undone
  PROVE  LET new == Append(chs, r)
         IN /\ new \in Seq(ChangeRow)
            /\ Shift(new, Open(new)) = Shift(chs, Open(chs)) + r.shift
            /\ OwnIn(new) = OwnIn(chs) \cup (IF r.kind = "SELF_EXTENSION" THEN {Len(chs) + 1} ELSE {})
<1>. DEFINE n == Len(chs) + 1
            new == Append(chs, r)
            f == [k \in Open(chs) |-> chs[k].shift]
            g == [k \in Open(new) |-> new[k].shift]
<1>1. /\ new \in Seq(ChangeRow) /\ DOMAIN chs = 1..Len(chs) /\ Len(chs) \in Nat
      /\ DOMAIN new = 1..n
      /\ new[n] = r /\ \A k \in 1..Len(chs) : new[k] = chs[k]
  OBVIOUS
<1>. HIDE DEF new
<1>2. Open(new) = Open(chs) \cup {n} /\ n \notin Open(chs)
  BY <1>1 DEF Open
<1>3. \A k \in Open(chs) : new[k] = chs[k]
  BY <1>1 DEF Open
<1>4. /\ IsFiniteSet(Open(chs)) /\ \A k \in Open(chs) : chs[k].shift \in Int
      /\ \A k \in Open(new) : new[k].shift \in Int
  BY <1>1, ShiftIsInt DEF Open
<1>5. /\ DOMAIN f = Open(chs) /\ DOMAIN g = Open(new)
      /\ \A k \in Open(chs) : f[k] = chs[k].shift /\ g[k] = chs[k].shift
      /\ g[n] = r.shift /\ r.shift \in Int
      /\ \A k \in Open(chs) : f[k] \in Int
      /\ \A k \in Open(new) : g[k] \in Int
  BY <1>1, <1>2, <1>3, <1>4
<1>. HIDE DEF f, g, n
<1>6. SumFunction(g) = SumFunction(f) - ValueAt(f, n) + ValueAt(g, n)
  <2>1. DOMAIN f \ {n} = DOMAIN g \ {n} /\ \A k \in DOMAIN f \ {n} : g[k] = f[k]
    BY <1>2, <1>5
  <2>. QED
    BY <2>1, <1>4, <1>5, SumDiffersAt
<1>7. ValueAt(f, n) = 0 /\ ValueAt(g, n) = r.shift
  BY <1>2, <1>5 DEF ValueAt
<1>8. SumFunction(f) \in Int
  BY <1>4, <1>5, SumFunctionIsInt
<1>9. Shift(new, Open(new)) = Shift(chs, Open(chs)) + r.shift
  BY <1>5, <1>6, <1>7, <1>8 DEF Shift, f, g
<1>10. OwnIn(new) = OwnIn(chs) \cup (IF r.kind = "SELF_EXTENSION" THEN {n} ELSE {})
  BY <1>1, <1>2, <1>3 DEF OwnIn
<1>. QED
  BY <1>1, <1>9, <1>10 DEF new, n

(* Undoing the open rows K takes what they added off.                      *)
LEMMA HistoryUndone ==
  ASSUME NEW chs \in Seq(ChangeRow), NEW K \in SUBSET Open(chs)
  PROVE  LET new == [k \in DOMAIN chs |-> [chs[k] EXCEPT !.undone = @ \/ k \in K]]
         IN /\ new \in Seq(ChangeRow)
            /\ Shift(new, Open(new)) = Shift(chs, Open(chs)) - Shift(chs, K)
            /\ OwnIn(new) = OwnIn(chs) \ K
<1>. DEFINE new == [k \in DOMAIN chs |-> [chs[k] EXCEPT !.undone = @ \/ k \in K]]
            f == [k \in Open(chs) |-> chs[k].shift]
            g == [k \in Open(new) |-> new[k].shift]
            u == [k \in K |-> chs[k].shift]
<1>1. DOMAIN chs = 1..Len(chs) /\ Len(chs) \in Nat /\ \A k \in DOMAIN chs : chs[k] \in ChangeRow
  OBVIOUS
<1>2. \A k \in DOMAIN chs : /\ new[k] \in ChangeRow /\ new[k].shift = chs[k].shift
                             /\ new[k].kind = chs[k].kind
                             /\ new[k].undone = (chs[k].undone \/ k \in K)
  BY <1>1 DEF ChangeRow
<1>3. DOMAIN new = DOMAIN chs
  OBVIOUS
<1>4. new \in Seq(ChangeRow)
  <2>1. new = [k \in 1..Len(chs) |-> new[k]]
    BY <1>1
  <2>. HIDE DEF new
  <2>. QED
    BY <1>1, <1>2, <1>3, <2>1
<1>. HIDE DEF new
<1>5. Open(new) = Open(chs) \ K /\ Open(chs) \subseteq DOMAIN chs
  BY <1>2, <1>3 DEF Open
<1>6. /\ IsFiniteSet(Open(chs)) /\ \A k \in Open(chs) : chs[k].shift \in Int
      /\ IsFiniteSet(K) /\ IsFiniteSet(Open(new))
  BY <1>5, ShiftIsInt, FS_Subset
<1>7. /\ DOMAIN f = Open(chs) /\ DOMAIN g = Open(new) /\ DOMAIN u = K
      /\ \A k \in Open(chs) : f[k] \in Int
      /\ \A k \in K : u[k] = f[k]
      /\ \A k \in Open(new) : g[k] = f[k]
  BY <1>2, <1>5, <1>6
<1>. HIDE DEF f, g, u
<1>8. SumFunctionOnSet(f, Open(chs)) = SumFunctionOnSet(f, K) + SumFunctionOnSet(f, Open(chs) \ K)
  BY <1>6, <1>7, SumOfParts
<1>9. SumFunction(g) = SumFunctionOnSet(f, Open(chs) \ K) /\ SumFunction(u) = SumFunctionOnSet(f, K)
  BY <1>5, <1>6, <1>7, SumOfSame DEF SumFunction
<1>10. SumFunction(u) \in Int /\ SumFunction(g) \in Int
  BY <1>6, <1>7, <1>5, SumFunctionIsInt
<1>11. Shift(new, Open(new)) = Shift(chs, Open(chs)) - Shift(chs, K)
  BY <1>7, <1>8, <1>9, <1>10 DEF Shift, f, g, u, SumFunction
<1>12. OwnIn(new) = OwnIn(chs) \ K
  BY <1>2, <1>5 DEF OwnIn
<1>. QED
  BY <1>4, <1>11, <1>12 DEF new

-----------------------------------------------------------------------------
(* What a handler under way has read.                                      *)
ClockTyped ==
  /\ now \in Int /\ deadline \in Int /\ credit \in Int
  /\ ext \in BOOLEAN /\ stale \in BOOLEAN
  /\ changes \in Seq(ChangeRow)
  /\ filed \in [Rets -> Int]
ReadTyped(r) ==
  /\ r.at \in {"selfExtend", "extend", "undo", "giveBack", "expire"} =>
       r.o.deadline \in Int /\ r.o.ext \in BOOLEAN /\ r.o.changes \in Seq(ChangeRow)
  /\ r.at = "selfExtend" => ~r.o.ext
  /\ r.at = "extend" => r.to \in Int
  /\ r.at = "undo" => r.K \in SUBSET Open(r.o.changes)
  /\ r.at \in {"reject", "readOrder", "giveBack", "expire"} => r.t \in Rets
  /\ r.at \in {"readOrder", "giveBack"} => r.end \in Int
ReadsTyped == job = [s \in Sessions |-> job[s]] /\ \A s \in Sessions : ReadTyped(job[s])

AccountInv == ClockTyped /\ ReadsTyped /\ DeadlineIsAccounted

LEMMA OneJob ==
  ASSUME ReadsTyped, NEW s \in Sessions, NEW r, job' = [job EXCEPT ![s] = r], ReadTyped(r)
  PROVE  ReadsTyped'
BY DEF ReadsTyped, ReadTyped, Open

LEMMA EndOfJob == ASSUME ReadsTyped, NEW s \in Sessions, End(s) PROVE ReadsTyped'
<1>1. ReadTyped(Idle)
  BY DEF ReadTyped, Idle
<1>. QED
  BY <1>1, OneJob DEF End

(* A step that leaves the order, its history and the hours given back.     *)
LEMMA NothingMoved ==
  ASSUME AccountInv, ReadsTyped', now' \in Int, filed' \in [Rets -> Int],
         UNCHANGED <<deadline, ext, changes, credit, stale>>
  PROVE  AccountInv'
BY DEF AccountInv, ClockTyped, DeadlineIsAccounted, OwnExtensions, Open, Shift

LEMMA Lengths == Window \in Int /\ Extension \in Int /\ MaxTime \in Nat /\ MaxTime # 0
BY ClockAssumption DEF ClockAssumption

LEMMA InitAccounted == ClockAssumption /\ Init => AccountInv
<1>. SUFFICES ASSUME ClockAssumption, Init PROVE AccountInv
  OBVIOUS
<1>1. ClockTyped
  <2>1. <<>> \in Seq(ChangeRow)
    OBVIOUS
  <2>2. filed \in [Rets -> Int]
    BY DEF Init
  <2>3. ext \in BOOLEAN /\ stale \in BOOLEAN
    BY Zenon DEF Init
  <2>4. now = 1 /\ deadline = 1 + Window /\ credit = 0 /\ changes = <<>>
    BY DEF Init
  <2>5. now \in Int /\ deadline \in Int /\ credit \in Int
    BY <2>4, Lengths
  <2>. QED
    BY <2>1, <2>2, <2>3, <2>4, <2>5 DEF ClockTyped
<1>2. ReadsTyped
  BY DEF Init, ReadsTyped, ReadTyped, Idle
<1>3. Open(changes) = {} /\ OwnExtensions = {}
  BY DEF Init, Open, OwnExtensions
<1>4. Shift(changes, {}) = 0
  <2>1. DOMAIN [k \in {} |-> changes[k].shift] = {}
    OBVIOUS
  <2>. QED
    BY <2>1, SumFunctionOfNothing DEF Shift
<1>5. deadline = 1 + Window + Shift(changes, Open(changes)) + credit
  <2>1. deadline = 1 + Window /\ credit = 0
    BY DEF Init
  <2>. QED
    BY <1>3, <1>4, <2>1, Lengths
<1>6. Cardinality(OwnExtensions) = 0 /\ ~ext
  BY <1>3, FS_EmptySet DEF Init
<1>7. DeadlineIsAccounted
  BY <1>5, <1>6 DEF DeadlineIsAccounted
<1>. QED
  BY <1>1, <1>2, <1>7 DEF AccountInv

(* A change of the deadline, written over the order it was read from: its  *)
(* row accounts for it.                                                    *)
LEMMA ChangeAccounted ==
  ASSUME AccountInv, NEW kind \in {"SELF_EXTENSION", "ADMIN_EXTENSION"}, NEW shift \in Int,
         NEW o, o.deadline \in Int,
         deadline' = o.deadline + shift,
         changes' = Append(changes, Row(kind, shift)),
         stale' = (stale \/ o # Order),
         IF kind = "SELF_EXTENSION" THEN ~o.ext /\ ext' = TRUE ELSE UNCHANGED ext,
         UNCHANGED <<now, credit, filed>>, ReadsTyped'
  PROVE  AccountInv'
<1>. USE DEF AccountInv, ClockTyped
<1>. DEFINE r == Row(kind, shift)
<1>1. r \in ChangeRow /\ ~r.undone /\ r.shift = shift /\ r.kind = kind
  BY DEF Row, ChangeRow
<1>. HIDE DEF r
<1>2. changes' = Append(changes, r)
  BY DEF r
<1>3. /\ changes' \in Seq(ChangeRow)
      /\ Shift(changes', Open(changes')) = Shift(changes, Open(changes)) + shift
      /\ OwnIn(changes') = OwnIn(changes) \cup
                             (IF kind = "SELF_EXTENSION" THEN {Len(changes) + 1} ELSE {})
  BY <1>1, <1>2, HistoryGrows
<1>4. ClockTyped'
  <2>1. ext' \in BOOLEAN /\ stale' \in BOOLEAN
    BY Zenon
  <2>2. deadline' \in Int /\ now' \in Int /\ credit' \in Int /\ filed' \in [Rets -> Int]
    OBVIOUS
  <2>. QED
    BY <1>3, <2>1, <2>2
<1>5. ASSUME ~stale' PROVE /\ deadline' = 1 + Window + Shift(changes', Open(changes')) + credit'
                           /\ Cardinality(OwnIn(changes')) = (IF ext' THEN 1 ELSE 0)
  <2>0. ~stale /\ o = Order
    BY <1>5
  <2>1. /\ o.deadline = deadline /\ o.ext = ext
        /\ deadline = 1 + Window + Shift(changes, Open(changes)) + credit
        /\ Cardinality(OwnIn(changes)) = (IF ext THEN 1 ELSE 0)
    <3>1. o.deadline = deadline /\ o.ext = ext
      BY <2>0 DEF Order
    <3>. QED
      BY <2>0, <3>1 DEF DeadlineIsAccounted, OwnExtensions, OwnIn
  <2>2. Open(changes) \in SUBSET DOMAIN changes /\ OwnIn(changes) \in SUBSET DOMAIN changes
    BY DEF Open, OwnIn
  <2>3. Shift(changes, Open(changes)) \in Int /\ IsFiniteSet(OwnIn(changes))
    BY <2>2, ShiftIsInt
  <2>4. deadline' = 1 + Window + Shift(changes', Open(changes')) + credit'
    <3>1. deadline' = 1 + Window + Shift(changes, Open(changes)) + credit + shift
      BY <2>1
    <3>2. credit' = credit /\ credit \in Int
      OBVIOUS
    <3>. HIDE DEF AccountInv, ClockTyped
    <3>. QED
      BY <1>3, <2>3, <3>1, <3>2, Lengths
  <2>5. CASE kind = "SELF_EXTENSION"
    <3>1. OwnIn(changes) = {}
      BY <2>1, <2>3, <2>5, FS_EmptySet
    <3>2. OwnIn(changes') = {Len(changes) + 1}
      BY <1>3, <2>5, <3>1
    <3>. QED
      BY <2>4, <2>5, <3>2, FS_Singleton
  <2>6. CASE kind # "SELF_EXTENSION"
    BY <1>3, <2>1, <2>4, <2>6
  <2>. QED
    BY <2>5, <2>6
<1>6. DeadlineIsAccounted'
  BY <1>5 DEF DeadlineIsAccounted, OwnExtensions, OwnIn
<1>. QED
  BY <1>4, <1>6

(* Hours given back move the deadline by what they are credited.           *)
LEMMA GivenBackAccounted ==
  ASSUME AccountInv, NEW o, o.deadline \in Int, NEW t \in Rets, NEW end \in Int,
         GivenBack(o, t, end), UNCHANGED <<now, ext, changes, filed>>, ReadsTyped'
  PROVE  AccountInv'
<1>. USE DEF AccountInv, ClockTyped
<1>1. /\ deadline' = o.deadline + end - filed[t]
      /\ credit' = credit + end - filed[t]
      /\ stale' = (stale \/ o # Order) /\ filed[t] \in Int
  BY DEF GivenBack
<1>2. ClockTyped'
  BY <1>1
<1>3. Shift(changes, Open(changes)) \in Int
  BY ShiftIsInt DEF Open
<1>4. DeadlineIsAccounted'
  <2>. SUFFICES ASSUME ~stale' PROVE DeadlineIsAccounted'
    BY DEF DeadlineIsAccounted
  <2>0. o = Order /\ ~stale
    BY <1>1
  <2>1. o.deadline = deadline
    BY <2>0 DEF Order
  <2>2. /\ deadline = 1 + Window + Shift(changes, Open(changes)) + credit
        /\ Cardinality(OwnExtensions) = (IF ext THEN 1 ELSE 0)
    BY <2>0 DEF DeadlineIsAccounted
  <2>3. deadline' = 1 + Window + Shift(changes, Open(changes)) + credit'
    BY <1>1, <1>3, <2>1, <2>2, Lengths
  <2>. QED
    BY <2>2, <2>3 DEF DeadlineIsAccounted, OwnExtensions, Open, Shift
<1>. QED
  BY <1>2, <1>4

(* An undo takes off what its rows added, and the rep's extension with it. *)
LEMMA UndoAccounted ==
  ASSUME AccountInv, NEW s \in Sessions, Undo(s)
  PROVE  AccountInv'
<1>. USE DEF AccountInv, ClockTyped
<1>. DEFINE o == job[s].o  K == job[s].K
<1>0. ReadsTyped'
  BY EndOfJob DEF Undo
<1>1. /\ o.deadline \in Int /\ o.changes \in Seq(ChangeRow) /\ K \in SUBSET Open(o.changes)
  BY DEF Undo, At, ReadsTyped, ReadTyped
<1>2. CASE ~Claims(o)
  BY <1>0, <1>2, NothingMoved DEF Undo, order
<1>3. CASE Claims(o)
  <2>1. /\ deadline' = o.deadline - Shift(o.changes, K)
        /\ ext' = (ext /\ \A k \in K : o.changes[k].kind # "SELF_EXTENSION")
        /\ changes' = [k \in DOMAIN changes |-> [changes[k] EXCEPT !.undone = @ \/ k \in K]]
        /\ stale' = (stale \/ o.changes # changes)
        /\ UNCHANGED <<now, credit, filed>>
    BY <1>3 DEF Undo
  <2>2. o.deadline = deadline
    BY <1>3 DEF Claims
  <2>. HIDE DEF o, K
  <2>3. changes' \in Seq(ChangeRow)
    <3>1. \A k \in DOMAIN changes : changes[k] \in ChangeRow
      OBVIOUS
    <3>2. \A k \in DOMAIN changes : [changes[k] EXCEPT !.undone = @ \/ k \in K] \in ChangeRow
      BY <3>1 DEF ChangeRow
    <3>3. changes' \in [1..Len(changes) -> ChangeRow] /\ Len(changes) \in Nat
      BY <2>1, <3>2
    <3>. QED
      BY <3>3
  <2>4. Shift(o.changes, K) \in Int
    BY <1>1, ShiftIsInt DEF Open
  <2>5. ClockTyped'
    BY <2>1, <2>2, <2>3, <2>4
  <2>6. ASSUME ~stale' PROVE /\ deadline' = 1 + Window + Shift(changes', Open(changes')) + credit'
                             /\ Cardinality(OwnIn(changes')) = (IF ext' THEN 1 ELSE 0)
    <3>1. /\ o.changes = changes /\ K \in SUBSET Open(changes)
          /\ deadline = 1 + Window + Shift(changes, Open(changes)) + credit
          /\ Cardinality(OwnIn(changes)) = (IF ext THEN 1 ELSE 0)
      BY <1>1, <2>1, <2>6 DEF DeadlineIsAccounted, OwnExtensions, OwnIn
    <3>2. /\ Shift(changes', Open(changes')) = Shift(changes, Open(changes)) - Shift(changes, K)
          /\ OwnIn(changes') = OwnIn(changes) \ K
      BY <2>1, <3>1, HistoryUndone
    <3>3. Open(changes) \in SUBSET DOMAIN changes /\ OwnIn(changes) \in SUBSET DOMAIN changes
      BY DEF Open, OwnIn
    <3>4. Shift(changes, Open(changes)) \in Int /\ IsFiniteSet(OwnIn(changes))
      BY <3>3, ShiftIsInt
    <3>5. deadline' = 1 + Window + Shift(changes', Open(changes')) + credit'
      <4>1. deadline' = (1 + Window + Shift(changes, Open(changes)) + credit) - Shift(changes, K)
        <5>1. deadline' = deadline - Shift(changes, K)
          BY <2>1, <2>2, <3>1
        <5>. HIDE DEF AccountInv, ClockTyped
        <5>. QED
          BY <3>1, <5>1
      <4>2. Shift(changes, K) \in Int /\ credit \in Int /\ credit' = credit
        BY <2>1, <2>4, <3>1
      <4>. HIDE DEF AccountInv, ClockTyped
      <4>. QED
        BY <3>2, <3>4, <4>1, <4>2, Lengths
    <3>6. ext' = (ext /\ OwnIn(changes) \cap K = {})
      BY <2>1, <3>1 DEF OwnIn
    <3>7. CASE ~ext
      <4>1. OwnIn(changes) = {}
        BY <3>1, <3>4, <3>7, FS_EmptySet
      <4>. QED
        BY <3>2, <3>5, <3>6, <3>7, <4>1, FS_EmptySet
    <3>8. CASE ext
      <4>1. PICK k : OwnIn(changes) = {k}
        BY <3>1, <3>4, <3>8, FS_Singleton
      <4>2. CASE k \in K
        <5>1. OwnIn(changes') = {} /\ ~ext'
          BY <3>2, <3>6, <4>1, <4>2
        <5>. QED
          BY <3>5, <5>1, FS_EmptySet
      <4>3. CASE k \notin K
        <5>1. OwnIn(changes') = {k} /\ ext'
          BY <3>2, <3>6, <3>8, <4>1, <4>3
        <5>2. Cardinality(OwnIn(changes')) = 1
          BY <5>1, FS_Singleton
        <5>. QED
          BY <3>5, <5>1, <5>2
      <4>. QED
        BY <4>2, <4>3
    <3>. QED
      BY <3>7, <3>8 
  <2>7. DeadlineIsAccounted'
    BY <2>6 DEF DeadlineIsAccounted, OwnExtensions, OwnIn
  <2>. QED
    BY <1>0, <2>5, <2>7
<1>. QED
  BY <1>2, <1>3

(* A finite set of numbers has a largest one, and Max names it.            *)
LEMMA MaxIsIn ==
  ASSUME NEW S \in SUBSET Int, IsFiniteSet(S), S # {}
  PROVE  Max(S) \in S
<1>. DEFINE P == {T \in SUBSET S : T # {} => \E x \in T : \A y \in T : x >= y}
<1>1. ASSUME NEW T \in SUBSET S, \A U \in SUBSET T : U # T => U \in P
      PROVE  T \in P
  <2>. SUFFICES ASSUME NEW z \in T PROVE \E x \in T : \A y \in T : x >= y
    OBVIOUS
  <2>1. T \ {z} \in P
    BY <1>1
  <2>2. CASE T \ {z} = {}
    <3>1. \A y \in T : z >= y
      BY <2>2
    <3>. QED
      BY <3>1
  <2>3. CASE T \ {z} # {}
    <3>1. PICK x \in T \ {z} : \A y \in T \ {z} : x >= y
      BY <2>1, <2>3
    <3>2. CASE x >= z
      <4>1. \A y \in T : x >= y
        BY <3>1, <3>2
      <4>. QED
        BY <4>1
    <3>3. CASE ~(x >= z)
      <4>1. \A y \in T : z >= y
        BY <3>1, <3>3
      <4>. QED
        BY <4>1
    <3>. QED
      BY <3>2, <3>3
  <2>. QED
    BY <2>2, <2>3
<1>. HIDE DEF P
<1>2. S \in P
  BY <1>1, SubsetInduction
<1>. QED
  BY <1>2 DEF P, Max

LEMMA HandleAccounted ==
  ASSUME AccountInv, NEW s \in Sessions, Handle(s)
  PROVE  AccountInv'
<1>. USE DEF AccountInv, ClockTyped
<1>0. Order.deadline = deadline /\ Order.ext = ext /\ Order.changes = changes
  BY DEF Order
<1>1. ASSUME NEW r, Start(s, r), Stored, ReadTyped(r) PROVE AccountInv'
  <2>1. ReadsTyped'
    BY <1>1, OneJob DEF Start
  <2>. QED
    BY <1>1, <2>1, NothingMoved DEF Stored, order
<1>2. CASE StartSelfExtend(s)
  <2>1. ReadTyped([at |-> "selfExtend", o |-> Order])
    BY <1>0, <1>2 DEF StartSelfExtend, Extendable, ReadTyped
  <2>. QED
    BY <1>1, <1>2, <2>1 DEF StartSelfExtend
<1>3. CASE SelfExtend(s)
  <2>1. ReadsTyped'
    BY <1>3, EndOfJob DEF SelfExtend
  <2>2. job[s].o.deadline \in Int /\ ~job[s].o.ext
    BY <1>3 DEF SelfExtend, At, ReadsTyped, ReadTyped
  <2>3. Extension \in Int
    BY ClockAssumption
  <2>. QED
    BY <1>3, <2>1, <2>2, <2>3, ChangeAccounted DEF SelfExtend
<1>4. CASE \E to \in Days : StartExtend(s, to)
  <2>1. PICK to \in Days : StartExtend(s, to)
    BY <1>4
  <2>2. to \in Int
    BY ClockAssumption DEF Days
  <2>3. ReadTyped([at |-> "extend", o |-> Order, to |-> to])
    BY <1>0, <2>2 DEF ReadTyped
  <2>. QED
    BY <1>1, <2>1, <2>3 DEF StartExtend
<1>5. CASE Extend(s)
  <2>1. ReadsTyped'
    BY <1>5, EndOfJob DEF Extend
  <2>2. job[s].o.deadline \in Int /\ job[s].to \in Int
    BY <1>5 DEF Extend, At, ReadsTyped, ReadTyped
  <2>. DEFINE shift == job[s].to - job[s].o.deadline
  <2>3. shift \in Int /\ deadline' = job[s].o.deadline + shift
    BY <1>5, <2>2 DEF Extend
  <2>4. changes' = Append(changes, Row("ADMIN_EXTENSION", shift))
    BY <1>5 DEF Extend
  <2>. HIDE DEF shift
  <2>. QED
    BY <1>5, <2>1, <2>2, <2>3, <2>4, ChangeAccounted DEF Extend
<1>6. CASE \E all \in BOOLEAN : StartUndo(s, all)
  <2>1. PICK K : /\ K = Open(changes) \/ K = {Max(Open(changes))}
                 /\ Open(changes) # {}
                 /\ Start(s, [at |-> "undo", o |-> Order, K |-> K]) /\ Stored
    BY <1>6 DEF StartUndo
  <2>2. K \in SUBSET Open(changes)
    <3>1. CASE K = {Max(Open(changes))}
      <4>1. Open(changes) \in SUBSET Int /\ IsFiniteSet(Open(changes))
        BY ShiftIsInt DEF Open
      <4>2. Max(Open(changes)) \in Open(changes)
        BY <2>1, <4>1, MaxIsIn
      <4>. QED
        BY <3>1, <4>2
    <3>. QED
      BY <2>1, <3>1
  <2>3. ReadTyped([at |-> "undo", o |-> Order, K |-> K])
    BY <1>0, <2>2 DEF ReadTyped
  <2>. QED
    BY <1>1, <2>1, <2>3
<1>7. CASE \E t \in Rets : StartReject(s, t) \/ StartExpire(s, t)
  <2>1. PICK t \in Rets : StartReject(s, t) \/ StartExpire(s, t)
    BY <1>7
  <2>2. ReadTyped([at |-> "reject", t |-> t])
    BY DEF ReadTyped
  <2>3. ReadTyped([at |-> "expire", t |-> t, o |-> Order])
    BY <1>0 DEF ReadTyped
  <2>. QED
    BY <1>1, <2>1, <2>2, <2>3 DEF StartReject, StartExpire
<1>8. CASE Reject(s)
  <2>1. job[s].t \in Rets
    BY <1>8 DEF Reject, At, ReadsTyped, ReadTyped
  <2>2. ReadTyped([at |-> "readOrder", t |-> job[s].t, end |-> now])
    BY <2>1 DEF ReadTyped
  <2>3. ReadsTyped'
    BY <1>8, <2>2, OneJob DEF Reject, Proceed
  <2>. QED
    BY <1>8, <2>3, NothingMoved DEF Reject, order
<1>9. CASE ReadOrder(s)
  <2>1. job[s].t \in Rets /\ job[s].end \in Int
    BY <1>9 DEF ReadOrder, At, ReadsTyped, ReadTyped
  <2>2. ReadTyped([at |-> "giveBack", t |-> job[s].t, end |-> job[s].end, o |-> Order])
    BY <1>0, <2>1 DEF ReadTyped
  <2>3. ReadsTyped'
    BY <1>9, <2>2, OneJob, EndOfJob DEF ReadOrder, Proceed
  <2>. QED
    BY <1>9, <2>3, NothingMoved DEF ReadOrder, Stored, order
<1>10. CASE GiveBack(s)
  <2>1. job[s].o.deadline \in Int /\ job[s].t \in Rets /\ job[s].end \in Int
    BY <1>10 DEF GiveBack, At, ReadsTyped, ReadTyped
  <2>2. ReadsTyped'
    BY <1>10, EndOfJob DEF GiveBack
  <2>. QED
    BY <1>10, <2>1, <2>2, GivenBackAccounted DEF GiveBack
<1>11. CASE Expire(s)
  <2>1. job[s].o.deadline \in Int /\ job[s].t \in Rets
    BY <1>11 DEF Expire, At, ReadsTyped, ReadTyped
  <2>2. ReadsTyped'
    BY <1>11, EndOfJob DEF Expire
  <2>3. CASE job[s].o.status = "SETTLED"
    BY <1>11, <2>2, <2>3, NothingMoved DEF Expire, order
  <2>4. CASE job[s].o.status # "SETTLED"
    BY <1>11, <2>1, <2>2, <2>4, GivenBackAccounted DEF Expire
  <2>. QED
    BY <2>3, <2>4
<1>. QED
  BY <1>2, <1>3, <1>4, <1>5, <1>6, <1>7, <1>8, <1>9, <1>10, <1>11, UndoAccounted DEF Handle

LEMMA NextAccounted == AccountInv /\ [Next]_vars => AccountInv'
<1>. SUFFICES ASSUME AccountInv, [Next]_vars PROVE AccountInv'
  OBVIOUS
<1>. USE DEF AccountInv, ClockTyped
<1>1. CASE UNCHANGED vars
  <2>1. ReadsTyped'
    BY <1>1 DEF vars, ReadsTyped
  <2>. QED
    BY <1>1, <2>1, NothingMoved DEF vars, order
<1>2. ASSUME NEW s \in Handlers, Handle(s) PROVE AccountInv'
  BY <1>2, HandleAccounted DEF Sessions
<1>3. ASSUME NEW s \in Sweepers, Sweep(s) PROVE AccountInv'
  <2>. s \in Sessions
    BY DEF Sessions
  <2>1. ASSUME NEW r, job' = [job EXCEPT ![s] = r], r.at \in {"pending", "fresh", "count", "charge"}
        PROVE  ReadsTyped'
    BY <2>1, OneJob DEF ReadTyped
  <2>2. ReadsTyped'
    <3>1. CASE StartSweep(s) \/ CountPending(s)
      BY <2>1, <3>1, EndOfJob DEF StartSweep, Start, CountPending, Proceed
    <3>2. CASE ReadFresh(s)
      BY <2>1, <3>2, EndOfJob DEF ReadFresh, Proceed
    <3>3. CASE CountCharged(s)
      BY <2>1, <3>3, EndOfJob DEF CountCharged, Proceed
    <3>4. CASE Charge(s)
      <4>1. [job[s] EXCEPT !.next = @ + 1].at = job[s].at
        OBVIOUS
      <4>2. job[s].at = "charge"
        BY <3>4 DEF Charge, At
      <4>. QED
        BY <2>1, <3>4, <4>1, <4>2, EndOfJob DEF Charge, Proceed
    <3>. QED
      BY <1>3, <3>1, <3>2, <3>3, <3>4 DEF Sweep
  <2>3. UNCHANGED <<now, deadline, ext, changes, credit, stale, filed>>
    BY <1>3 DEF Sweep, StartSweep, CountPending, ReadFresh, CountCharged, Charge, Stored, order
  <2>. QED
    BY <2>2, <2>3, NothingMoved
<1>4. ASSUME NEW s \in Sessions, Crash(s) PROVE AccountInv'
  <2>1. ReadsTyped'
    BY <1>4, EndOfJob DEF Crash
  <2>. QED
    BY <1>4, <2>1, NothingMoved DEF Crash, order
<1>5. ASSUME UNCHANGED job PROVE ReadsTyped'
  BY <1>5 DEF ReadsTyped
<1>6. ASSUME NEW closes \in BOOLEAN, \/ ApproveSubmission(closes)
                                     \/ \E t \in Rets : ApproveReturn(t, closes)
      PROVE  AccountInv'
  BY <1>5, <1>6, NothingMoved DEF ApproveSubmission, ApproveReturn
<1>7. ASSUME NEW t \in Rets, CreateReturn(t) PROVE AccountInv'
  BY <1>5, <1>7, NothingMoved DEF CreateReturn, order
<1>8. CASE RefreshOverdue \/ Tick
  BY <1>5, <1>8, NothingMoved DEF RefreshOverdue, Tick, order
<1>. QED
  BY <1>1, <1>2, <1>3, <1>4, <1>6, <1>7, <1>8 DEF Next

(* For any number of handlers, returns and changes: the deadline is the    *)
(* first one plus the changes that stand plus the days given back, and the *)
(* one extension of the rep is marked while it stands, unless a handler    *)
(* wrote over an order it had not read.                                    *)
THEOREM DeadlineAlwaysAccounted == Spec => []DeadlineIsAccounted
<1>1. Init => AccountInv
  BY InitAccounted, ClockAssumption
<1>2. AccountInv => DeadlineIsAccounted
  BY DEF AccountInv
<1>. QED
  BY <1>1, <1>2, NextAccounted, PTL DEF Spec

-----------------------------------------------------------------------------
(* One sweep at a time: the days fined are the first n, and a sweep that   *)
(* is charging is about to charge the next one.                            *)
OneFineADay(f, n) ==
  f \in [Days -> Nat] /\ \A d \in Days \ {0} : f[d] = (IF d <= n THEN 1 ELSE 0)
ChargesNext(r, n) ==
  r.at = "charge" => r.next \in Nat /\ (r.next = n + 1 \/ (n = MaxTime /\ r.next > n))
SweepInv ==
  /\ job = [s \in Sessions |-> job[s]]
  /\ \E n \in Days : OneFineADay(fines, n) /\ \A s \in Sweepers : ChargesNext(job[s], n)

(* What the sweep counts. *)
LEMMA ChargedDays ==
  ASSUME NEW n \in Days, OneFineADay(fines, n)
  PROVE  Charged = n
<1>. DEFINE f == [d \in Days \ {0} |-> fines[d]]
<1>1. IsFiniteSet(Days \ {0})
  <2>1. IsFiniteSet(Days)
    BY Lengths, FS_Interval DEF Days
  <2>. QED
    BY <2>1, FS_RemoveElement
<1>2. \A d \in Days \ {0} : f[d] \in {0, 1} /\ (f[d] = 1 <=> d <= n)
  BY DEF OneFineADay
<1>3. {d \in Days \ {0} : f[d] = 1} = 1..n
  BY <1>2, Lengths DEF Days
<1>4. Cardinality(1..n) = n
  <2>1. n \in Nat
    BY Lengths DEF Days
  <2>. QED
    BY <2>1, FS_Interval
<1>5. DOMAIN f = Days \ {0}
  OBVIOUS
<1>6. SumFunction(f) = Cardinality({d \in Days \ {0} : f[d] = 1})
  <2>. HIDE DEF f
  <2>. QED
    BY <1>1, <1>2, <1>5, SumOfOnes
<1>. QED
  BY <1>3, <1>4, <1>6 DEF Charged

(* A step that fines no late day and lets no sweep charge. *)
LEMMA NoDayFined ==
  ASSUME SweepInv, fines' \in [Days -> Nat], \A d \in Days \ {0} : fines'[d] = fines[d],
         job' = [s \in Sessions |-> job'[s]],
         \A s \in Sweepers : job'[s] = job[s] \/ job'[s].at # "charge"
  PROVE  SweepInv'
<1>1. PICK n \in Days : OneFineADay(fines, n) /\ \A s \in Sweepers : ChargesNext(job[s], n)
  BY DEF SweepInv
<1>2. OneFineADay(fines', n)
  BY <1>1 DEF OneFineADay
<1>3. \A s \in Sweepers : ChargesNext(job'[s], n)
  BY <1>1 DEF ChargesNext
<1>. QED
  BY <1>2, <1>3 DEF SweepInv

LEMMA InitSweeps == Init => SweepInv
<1>. SUFFICES ASSUME Init PROVE SweepInv
  OBVIOUS
<1>1. 0 \in Days
  BY Lengths DEF Days
<1>2. OneFineADay(fines, 0)
  BY DEF Init, OneFineADay, Days
<1>3. \A s \in Sweepers : ChargesNext(job[s], 0)
  BY DEF Init, ChargesNext, Sessions, Idle
<1>4. job = [s \in Sessions |-> job[s]]
  BY DEF Init
<1>. QED
  BY <1>1, <1>2, <1>3, <1>4 DEF SweepInv

(* A handler writes its own job, and fines day 0 at most. *)
LEMMA HandlersFineNoDay ==
  ASSUME SweepInv, NEW s \in Handlers, Handle(s)
  PROVE  SweepInv'
<1>1. PICK r : job' = [job EXCEPT ![s] = r]
  BY DEF Handle, StartSelfExtend, SelfExtend, StartExtend, Extend, StartUndo, Undo,
         StartReject, StartExpire, Reject, ReadOrder, GiveBack, Expire, Start, Proceed, End
<1>2. s \notin Sweepers /\ s \in Sessions
  BY ClockAssumption DEF ClockAssumption, Sessions
<1>3. fines' = fines \/ fines' = [fines EXCEPT ![0] = @ + 1]
  BY DEF Handle, StartSelfExtend, SelfExtend, StartExtend, Extend, StartUndo, Undo,
         StartReject, StartExpire, Reject, ReadOrder, GiveBack, Expire, Stored
<1>4. fines \in [Days -> Nat]
  BY DEF SweepInv, OneFineADay
<1>5. fines' \in [Days -> Nat] /\ \A d \in Days \ {0} : fines'[d] = fines[d]
  BY <1>3, <1>4
<1>6. job' = [x \in Sessions |-> job'[x]] /\ \A x \in Sweepers : job'[x] = job[x]
  BY <1>1, <1>2 DEF SweepInv, Sessions
<1>. QED
  BY <1>5, <1>6, NoDayFined

(* The only sweep there is counts what was charged and charges on from     *)
(* there.                                                                  *)
LEMMA SweepFinesNextDay ==
  ASSUME \A a, b \in Sweepers : a = b, SweepInv, NEW s \in Sweepers, Sweep(s)
  PROVE  SweepInv'
<1>. DEFINE Sole(r) == job' = [job EXCEPT ![s] = r]
<1>1. PICK n \in Days : OneFineADay(fines, n) /\ \A x \in Sweepers : ChargesNext(job[x], n)
  BY DEF SweepInv
<1>2. s \in Sessions /\ \A x \in Sweepers : x = s
  BY DEF Sessions
<1>3. ASSUME NEW r, Sole(r) PROVE job' = [x \in Sessions |-> job'[x]] /\ job'[s] = r
  BY <1>2, <1>3 DEF SweepInv
<1>4. ASSUME NEW r, Sole(r), r.at # "charge", UNCHANGED fines PROVE SweepInv'
  <2>1. fines' \in [Days -> Nat] /\ \A d \in Days \ {0} : fines'[d] = fines[d]
    BY <1>1, <1>4 DEF OneFineADay
  <2>. QED
    BY <1>2, <1>3, <1>4, <2>1, NoDayFined
<1>5. CASE StartSweep(s)
  <2>1. [at |-> "pending", day |-> now].at # "charge"
    OBVIOUS
  <2>. QED
    BY <1>4, <1>5, <2>1 DEF StartSweep, Start, Stored
<1>6. CASE CountPending(s)
  <2>1. [at |-> "fresh", day |-> job[s].day].at # "charge" /\ Idle.at # "charge"
    BY DEF Idle
  <2>. QED
    BY <1>4, <1>6, <2>1 DEF CountPending, Proceed, End, Stored
<1>7. CASE ReadFresh(s)
  <2>1. [at |-> "count", due |-> PenaltyDaysDue(Order, job[s].day)].at # "charge" /\ Idle.at # "charge"
    BY DEF Idle
  <2>. QED
    BY <1>4, <1>7, <2>1 DEF ReadFresh, Proceed, End, Stored
<1>8. CASE CountCharged(s)
  <2>. DEFINE r == [at |-> "charge", due |-> job[s].due, next |-> Charged + 1]
  <2>1. CASE NothingDue(job[s].due)
    <3>1. Idle.at # "charge"
      BY DEF Idle
    <3>. QED
      BY <1>4, <1>8, <2>1, <3>1 DEF CountCharged, End, Stored
  <2>2. CASE ~NothingDue(job[s].due)
    <3>1. r.next = n + 1 /\ n \in Nat
      BY <1>1, ChargedDays, Lengths DEF Days
    <3>2. ChargesNext(r, n)
      BY <3>1 DEF ChargesNext
    <3>3. Sole(r) /\ UNCHANGED fines
      BY <1>8, <2>2 DEF CountCharged, Proceed, Stored
    <3>. HIDE DEF r
    <3>. QED
      BY <1>1, <1>2, <1>3, <3>2, <3>3 DEF SweepInv
  <2>. QED
    BY <2>1, <2>2
<1>9. CASE Charge(s)
  <2>. DEFINE next == job[s].next
              m == IF n = MaxTime THEN n ELSE n + 1
  <2>1. fines' = [fines EXCEPT ![next] = @ + 1]
    BY <1>9 DEF Charge
  <2>2. next \in Nat /\ (next = n + 1 \/ (n = MaxTime /\ next > n))
    BY <1>1, <1>9 DEF Charge, At, ChargesNext
  <2>3. m \in Days /\ n \in Nat /\ m \in Nat /\ m <= MaxTime
    BY Lengths DEF Days
  <2>4. OneFineADay(fines', m)
    <3>1. fines \in [Days -> Nat]
      BY <1>1 DEF OneFineADay
    <3>2. fines' \in [Days -> Nat]
      <4>1. \A d \in Days : fines[d] \in Nat /\ fines[d] + 1 \in Nat
        BY <3>1
      <4>. HIDE DEF next
      <4>. QED
        BY <2>1, <3>1, <4>1
    <3>3. ASSUME NEW d \in Days \ {0} PROVE fines'[d] = (IF d <= m THEN 1 ELSE 0)
      <4>1. d \in Nat /\ d <= MaxTime /\ MaxTime \in Nat
        BY Lengths DEF Days
      <4>2. fines[d] = (IF d <= n THEN 1 ELSE 0)
        BY <1>1 DEF OneFineADay
      <4>3. fines'[d] = (IF d = next THEN fines[d] + 1 ELSE fines[d])
        BY <2>1, <3>1
      <4>. QED
        BY <2>2, <2>3, <4>1, <4>2, <4>3
    <3>. QED
      BY <3>2, <3>3 DEF OneFineADay
  <2>5. ASSUME NEW r, Sole(r), ChargesNext(r, m) PROVE SweepInv'
    BY <1>2, <1>3, <2>3, <2>4, <2>5 DEF SweepInv
  <2>6. CASE next = job[s].due
    <3>1. ChargesNext(Idle, m)
      BY DEF ChargesNext, Idle
    <3>. QED
      BY <1>9, <2>5, <2>6, <3>1 DEF Charge, End
  <2>7. CASE next # job[s].due
    <3>. DEFINE r == [job[s] EXCEPT !.next = @ + 1]
    <3>1. job' = [job EXCEPT ![s] = r]
      BY <1>9, <2>7 DEF Charge, Proceed
    <3>2. r.next = next + 1
      OBVIOUS
    <3>3. ChargesNext(r, m)
      <4>. HIDE DEF r
      <4>. QED
        BY <2>2, <2>3, <3>2, Lengths DEF ChargesNext
    <3>. HIDE DEF r
    <3>. QED
      BY <2>5, <3>1, <3>3
  <2>. QED
    BY <2>6, <2>7
<1>. QED
  BY <1>5, <1>6, <1>7, <1>8, <1>9 DEF Sweep

LEMMA NextSweeps ==
  ASSUME \A a, b \in Sweepers : a = b
  PROVE  SweepInv /\ [Next]_vars => SweepInv'
<1>. SUFFICES ASSUME SweepInv, [Next]_vars PROVE SweepInv'
  OBVIOUS
<1>1. ASSUME UNCHANGED <<fines, job>> PROVE SweepInv'
  BY <1>1 DEF SweepInv, OneFineADay, ChargesNext
<1>2. ASSUME NEW s \in Sessions, Crash(s) PROVE SweepInv'
  <2>1. fines' \in [Days -> Nat] /\ \A d \in Days \ {0} : fines'[d] = fines[d]
    BY <1>2 DEF Crash, SweepInv, OneFineADay
  <2>2. job' = [job EXCEPT ![s] = Idle] /\ Idle.at # "charge"
    BY <1>2 DEF Crash, End, Idle
  <2>3. job' = [x \in Sessions |-> job'[x]] /\ \A x \in Sweepers : job'[x] = job[x] \/ job'[x].at # "charge"
    BY <2>2 DEF SweepInv, Sessions
  <2>. QED
    BY <2>1, <2>3, NoDayFined
<1>3. ASSUME NEW closes \in BOOLEAN, \/ ApproveSubmission(closes)
                                     \/ \E t \in Rets : ApproveReturn(t, closes)
      PROVE  SweepInv'
  BY <1>1, <1>3 DEF ApproveSubmission, ApproveReturn
<1>4. ASSUME NEW t \in Rets, CreateReturn(t) PROVE SweepInv'
  BY <1>1, <1>4 DEF CreateReturn
<1>5. CASE RefreshOverdue \/ Tick \/ UNCHANGED vars
  BY <1>1, <1>5 DEF RefreshOverdue, Tick, vars
<1>. QED
  BY <1>2, <1>3, <1>4, <1>5, HandlersFineNoDay, SweepFinesNextDay DEF Next

(* However the deadline moves, whatever handlers run beside it and however *)
(* often it dies half way: a sweep that runs one at a time fines no late   *)
(* day twice.                                                              *)
THEOREM OneSweepFinesADayOnce ==
  ASSUME \A a, b \in Sweepers : a = b
  PROVE  Spec => []FinedOncePerDay
<1>1. SweepInv => FinedOncePerDay
  BY DEF SweepInv, OneFineADay, FinedOncePerDay
<1>2. Init => SweepInv
  BY InitSweeps
<1>3. SweepInv /\ [Next]_vars => SweepInv'
  BY NextSweeps
<1>. QED
  BY <1>1, <1>2, <1>3, PTL DEF Spec

-----------------------------------------------------------------------------
(* The reminders.  Between two settings of the deadline the stored stage   *)
(* only grows, since a claim must be ahead of it; so what rings, and what  *)
(* was claimed and has yet to ring, lies at or below it, each stage once.  *)
(* And a stage a sweep has read is one the deadline has reached, and time  *)
(* brings the deadline no further away.                                    *)
ReminderStates ==
  {Reminder!Idle} \cup [pc : {"claim"}, stage : 1..3]
  \cup [pc : {"ring"}, stage : 1..3, late : BOOLEAN]
LadderRow == [shift : Int, at : 0..MaxTicks, self : BOOLEAN]
Waits(s) == sweep[s] # Reminder!Idle
Claiming(s) == sweep[s].pc = "claim"
Rings(s) == sweep[s].pc = "ring" /\ sweep[s].late = FALSE
Excused == shifted \/ givenBack
Reached(k) == due - time <= 4 - k

ReminderFlags ==
  live \in BOOLEAN /\ shifted \in BOOLEAN /\ doubled \in BOOLEAN /\ givenBack \in BOOLEAN
ReminderTyped ==
  /\ time \in 0..MaxTicks /\ due \in Int /\ stage \in 0..3
  /\ resets \in 0..MaxResets
  /\ ladder \in Seq(LadderRow) /\ rung \in Seq(1..3)
  /\ sweep \in [Sweeps -> ReminderStates]
RangInOrder ==
  /\ \A i \in DOMAIN rung : rung[i] <= stage
  /\ \A i, j \in DOMAIN rung : i < j => rung[i] # rung[j] /\ (doubled \/ rung[i] < rung[j])
WillRing ==
  \A s \in Sweeps : Rings(s) =>
    /\ sweep[s].stage <= stage
    /\ \A i \in DOMAIN rung :
         rung[i] # sweep[s].stage /\ (doubled \/ rung[i] < sweep[s].stage)
    /\ \A t \in Sweeps : Rings(t) /\ sweep[t].stage = sweep[s].stage => s = t
OneSweeps == doubled \/ \A s, t \in Sweeps : Waits(s) /\ Waits(t) => s = t
DueReached ==
  /\ stage > 0 => Excused \/ Reached(stage)
  /\ \A s \in Sweeps : Claiming(s) => Excused \/ Reached(sweep[s].stage)
ReminderInv ==
  ReminderFlags /\ ReminderTyped /\ RangInOrder /\ WillRing /\ OneSweeps /\ DueReached

LEMMA RemindersInit == Reminder!Init => ReminderInv
<1>. SUFFICES ASSUME Reminder!Init PROVE ReminderInv
  OBVIOUS
<1>1. /\ time = 0 /\ due = FirstDue /\ stage = 0 /\ ladder = <<>> /\ resets = 0 /\ rung = <<>>
      /\ sweep = [s \in Sweeps |-> Reminder!Idle]
  BY DEF Reminder!Init
<1>2. ReminderFlags
  BY Zenon DEF Reminder!Init, ReminderFlags
<1>3. ReminderTyped
  BY <1>1, ReminderAssumption DEF ReminderTyped, ReminderStates
<1>4. \A s \in Sweeps : ~Waits(s) /\ ~Claiming(s) /\ ~Rings(s)
  BY <1>1 DEF Waits, Claiming, Rings, Reminder!Idle
<1>5. DOMAIN rung = {}
  BY <1>1
<1>6. RangInOrder /\ WillRing /\ OneSweeps
  BY <1>4, <1>5 DEF RangInOrder, WillRing, OneSweeps
<1>7. DueReached
  BY <1>1, <1>4 DEF DueReached
<1>. QED
  BY <1>2, <1>3, <1>6, <1>7 DEF ReminderInv

(* A sweep in a state, what its state says. *)
LEMMA SweepStates ==
  ASSUME ReminderTyped, NEW s \in Sweeps
  PROVE  /\ Claiming(s) => sweep[s].stage \in 1..3 /\ Waits(s)
         /\ sweep[s].pc = "ring" => sweep[s].stage \in 1..3 /\ Waits(s)
                                     /\ sweep[s] \in [pc : {"ring"}, stage : 1..3, late : BOOLEAN]
         /\ ~Waits(s) => ~Claiming(s) /\ ~Rings(s)
<1>1. sweep[s] \in ReminderStates
  BY DEF ReminderTyped
<1>. QED
  BY <1>1 DEF ReminderStates, Claiming, Rings, Waits, Reminder!Idle

(* A sweep that ends, or dies, takes nothing with it. *)
LEMMA SweepEnds ==
  ASSUME ReminderInv, NEW s \in Sweeps, sweep' = [sweep EXCEPT ![s] = Reminder!Idle],
         UNCHANGED <<time, due, live, stage, ladder, resets, rung, shifted, doubled, givenBack>>
  PROVE  ReminderInv'
<1>0. ReminderFlags /\ ReminderTyped /\ RangInOrder /\ WillRing /\ OneSweeps /\ DueReached
  BY DEF ReminderInv
<1>1. /\ sweep'[s] = Reminder!Idle
      /\ \A t \in Sweeps : t # s => sweep'[t] = sweep[t]
      /\ sweep' \in [Sweeps -> ReminderStates]
  BY <1>0 DEF ReminderTyped, ReminderStates
<1>2. /\ ~Claiming(s)' /\ ~Rings(s)' /\ ~Waits(s)'
      /\ \A t \in Sweeps : t # s => /\ Claiming(t)' <=> Claiming(t)
                                    /\ Rings(t)' <=> Rings(t)
                                    /\ Waits(t)' <=> Waits(t)
  BY <1>1 DEF Claiming, Rings, Waits, Reminder!Idle
<1>3. ReminderFlags'
  BY <1>0 DEF ReminderFlags
<1>4. ReminderTyped'
  BY <1>0, <1>1 DEF ReminderTyped
<1>5. RangInOrder'
  BY <1>0 DEF RangInOrder
<1>6. WillRing'
  BY <1>0, <1>1, <1>2 DEF WillRing
<1>7. OneSweeps'
  BY <1>0, <1>2 DEF OneSweeps
<1>8. DueReached'
  BY <1>0, <1>1, <1>2 DEF DueReached, Excused, Reached
<1>. QED
  BY <1>3, <1>4, <1>5, <1>6, <1>7, <1>8 DEF ReminderInv

(* A session moves and the deadline stands. *)
LEMMA StartSweepKeeps ==
  ASSUME ReminderInv, NEW s \in Sweeps, Reminder!StartSweep(s)
  PROVE  ReminderInv'
<1> DEFINE k == Reminder!reminderStageFor(due - time)
<1>0. ReminderFlags /\ ReminderTyped /\ RangInOrder /\ WillRing /\ OneSweeps /\ DueReached
  BY DEF ReminderInv
<1>1. /\ UNCHANGED <<time, due, live, stage, ladder, resets, rung, shifted, givenBack>>
      /\ sweep[s] = Reminder!Idle
      /\ k > stage
      /\ sweep' = [sweep EXCEPT ![s] = [pc |-> "claim", stage |-> k]]
  BY DEF Reminder!StartSweep, Reminder!Run
<1>2. doubled' = (doubled \/ Reminder!Sweeping)
  BY Zenon DEF Reminder!StartSweep
<1>3. k \in 1..3 /\ due - time <= 4 - k
  <2>1. time \in Int /\ due \in Int /\ stage \in 0..3
    BY <1>0, ReminderAssumption DEF ReminderTyped
  <2>. QED
    BY <1>1, <2>1 DEF Reminder!reminderStageFor
<1>. HIDE DEF k
<1>4. /\ sweep'[s] = [pc |-> "claim", stage |-> k]
      /\ \A t \in Sweeps : t # s => sweep'[t] = sweep[t]
      /\ sweep' \in [Sweeps -> ReminderStates]
  BY <1>0, <1>1, <1>3 DEF ReminderTyped, ReminderStates
<1>5. /\ Claiming(s)' /\ ~Rings(s)' /\ sweep'[s].stage = k
      /\ \A t \in Sweeps : t # s => /\ Claiming(t)' <=> Claiming(t)
                                    /\ Rings(t)' <=> Rings(t)
                                    /\ Waits(t)' <=> Waits(t)
  BY <1>4 DEF Claiming, Rings, Waits
<1>6. ReminderFlags'
  BY <1>0, <1>1, <1>2, Zenon DEF ReminderFlags
<1>7. ReminderTyped'
  BY <1>0, <1>1, <1>4 DEF ReminderTyped
<1>8. doubled => doubled'
  BY <1>2
<1>9. RangInOrder'
  BY <1>0, <1>1, <1>8 DEF RangInOrder
<1>10. WillRing'
  BY <1>0, <1>1, <1>4, <1>5, <1>8 DEF WillRing
<1>11. OneSweeps'
  <2>1. CASE Reminder!Sweeping
    BY <1>2, <2>1 DEF OneSweeps
  <2>2. CASE ~Reminder!Sweeping
    <3>1. \A t \in Sweeps : t # s => ~Waits(t)'
      BY <1>5, <2>2 DEF Waits, Reminder!Sweeping
    <3>. QED
      BY <3>1 DEF OneSweeps
  <2>. QED
    BY <2>1, <2>2
<1>12. DueReached'
  BY <1>0, <1>1, <1>3, <1>4, <1>5 DEF DueReached, Excused, Reached
<1>. QED
  BY <1>6, <1>7, <1>9, <1>10, <1>11, <1>12 DEF ReminderInv

LEMMA ClaimKeeps ==
  ASSUME ReminderInv, NEW s \in Sweeps, Reminder!Claim(s)
  PROVE  ReminderInv'
<1> DEFINE k == sweep[s].stage
<1>0. ReminderFlags /\ ReminderTyped /\ RangInOrder /\ WillRing /\ OneSweeps /\ DueReached
  BY DEF ReminderInv
<1>1. /\ UNCHANGED <<time, due, live, ladder, resets, rung, shifted, doubled, givenBack>>
      /\ Claiming(s)
  BY DEF Reminder!Claim, Claiming
<1>2. k \in 1..3 /\ Waits(s) /\ stage \in 0..3
  BY <1>0, <1>1, SweepStates DEF ReminderTyped
<1>3. ReminderFlags'
  BY <1>0, <1>1 DEF ReminderFlags
<1>4. CASE stage < k
  <2>1. /\ stage' = k
        /\ sweep' = [sweep EXCEPT ![s] = [pc |-> "ring", stage |-> k, late |-> FALSE]]
    BY <1>4 DEF Reminder!Claim, Reminder!Ahead, Reminder!Run
  <2>2. /\ sweep'[s] = [pc |-> "ring", stage |-> k, late |-> FALSE]
        /\ \A t \in Sweeps : t # s => sweep'[t] = sweep[t]
        /\ sweep' \in [Sweeps -> ReminderStates]
    BY <1>0, <1>2, <2>1 DEF ReminderTyped, ReminderStates
  <2>. HIDE DEF k
  <2>3. /\ ~Claiming(s)' /\ Rings(s)' /\ sweep'[s].stage = k
        /\ \A t \in Sweeps : t # s => /\ Claiming(t)' <=> Claiming(t)
                                      /\ Rings(t)' <=> Rings(t)
                                      /\ Waits(t)' <=> Waits(t)
    BY <2>2 DEF Claiming, Rings, Waits
  <2>4. ReminderTyped'
    BY <1>0, <1>1, <1>2, <2>1, <2>2 DEF ReminderTyped
  <2>5. \A i \in DOMAIN rung : rung[i] \in 1..3 /\ rung[i] < k
    BY <1>0, <1>2, <1>4 DEF ReminderTyped, RangInOrder
  <2>6. RangInOrder'
    BY <1>0, <1>1, <1>2, <2>1, <2>5 DEF RangInOrder
  <2>7. \A t \in Sweeps : Rings(t) => sweep[t].stage \in 1..3 /\ sweep[t].stage < k
    <3>. SUFFICES ASSUME NEW t \in Sweeps, Rings(t)
                  PROVE  sweep[t].stage \in 1..3 /\ sweep[t].stage < k
      OBVIOUS
    <3>1. sweep[t].stage \in 1..3 /\ sweep[t].stage <= stage
      BY <1>0, SweepStates DEF WillRing, Rings
    <3>. QED
      BY <1>2, <1>4, <3>1
  <2>8. WillRing'
    <3>. SUFFICES ASSUME NEW t \in Sweeps, Rings(t)'
                  PROVE  /\ sweep'[t].stage <= k
                         /\ \A i \in DOMAIN rung :
                              rung[i] # sweep'[t].stage /\ (doubled \/ rung[i] < sweep'[t].stage)
                         /\ \A u \in Sweeps : Rings(u)' /\ sweep'[u].stage = sweep'[t].stage => t = u
      BY <1>1, <2>1 DEF WillRing
    <3>1. CASE t = s
      <4>1. \A u \in Sweeps : u # s /\ Rings(u)' => sweep'[u].stage # k
        BY <1>2, <2>2, <2>3, <2>7
      <4>. QED
        BY <1>2, <2>3, <2>5, <3>1, <4>1
    <3>2. CASE t # s
      <4>1. Rings(t) /\ sweep'[t] = sweep[t]
        BY <2>2, <2>3, <3>2
      <4>2. sweep[t].stage \in 1..3 /\ sweep[t].stage < k
        BY <2>7, <4>1
      <4>3. /\ \A i \in DOMAIN rung :
                 rung[i] # sweep[t].stage /\ (doubled \/ rung[i] < sweep[t].stage)
            /\ \A u \in Sweeps : Rings(u) /\ sweep[u].stage = sweep[t].stage => t = u
        BY <1>0, <4>1 DEF WillRing
      <4>4. \A u \in Sweeps : Rings(u)' /\ sweep'[u].stage = sweep[t].stage => t = u
        BY <1>2, <2>2, <2>3, <4>2, <4>3
      <4>. QED
        BY <1>2, <4>1, <4>2, <4>3, <4>4
    <3>. QED
      BY <3>1, <3>2
  <2>9. OneSweeps'
    BY <1>0, <1>1, <1>2, <2>3 DEF OneSweeps
  <2>10. DueReached'
    <3>1. Excused \/ Reached(k)
      BY <1>0, <1>1 DEF DueReached, k
    <3>. QED
      BY <1>0, <1>1, <2>1, <2>2, <2>3, <3>1 DEF DueReached, Excused, Reached
  <2>. QED
    BY <1>3, <2>4, <2>6, <2>8, <2>9, <2>10 DEF ReminderInv
<1>5. CASE ~(stage < k)
  <2>1. stage' = stage /\ sweep' = [sweep EXCEPT ![s] = Reminder!Idle]
    BY <1>5 DEF Reminder!Claim, Reminder!Ahead, Reminder!Run
  <2>. QED
    BY <1>1, <2>1, SweepEnds
<1>. QED
  BY <1>4, <1>5

LEMMA RingKeeps ==
  ASSUME ReminderInv, NEW s \in Sweeps, Reminder!Ring(s)
  PROVE  ReminderInv'
<1> DEFINE k == sweep[s].stage
<1>0. ReminderFlags /\ ReminderTyped /\ RangInOrder /\ WillRing /\ OneSweeps /\ DueReached
  BY DEF ReminderInv
<1>1. /\ UNCHANGED <<time, due, live, stage, ladder, resets, shifted, doubled, givenBack>>
      /\ sweep[s].pc = "ring"
      /\ sweep' = [sweep EXCEPT ![s] = Reminder!Idle]
  BY DEF Reminder!Ring, Reminder!Run
<1>2. /\ k \in 1..3 /\ Waits(s) /\ stage \in 0..3
      /\ sweep[s].late \in BOOLEAN
  BY <1>0, <1>1, SweepStates DEF ReminderTyped
<1>3. CASE sweep[s].late
  <2>1. rung' = rung
    BY <1>3 DEF Reminder!Ring
  <2>. QED
    BY <1>1, <2>1, SweepEnds
<1>4. CASE ~sweep[s].late
  <2>1. rung' = Append(rung, k)
    BY <1>4 DEF Reminder!Ring
  <2>2. Rings(s)
    BY <1>1, <1>2, <1>4 DEF Rings
  <2>3. /\ k <= stage
        /\ \A i \in DOMAIN rung : rung[i] # k /\ (doubled \/ rung[i] < k)
        /\ \A t \in Sweeps : Rings(t) /\ sweep[t].stage = k => s = t
    BY <1>0, <2>2 DEF WillRing
  <2>4. rung \in Seq(1..3)
    BY <1>0 DEF ReminderTyped
  <2>. HIDE DEF k
  <2>5. /\ Len(rung) \in Nat /\ DOMAIN rung = 1..Len(rung)
        /\ DOMAIN rung' = 1..(Len(rung) + 1)
        /\ \A i \in 1..Len(rung) : rung'[i] = rung[i]
        /\ rung'[Len(rung) + 1] = k
        /\ rung' \in Seq(1..3)
    BY <1>2, <2>1, <2>4
  <2> DEFINE n == Len(rung)
  <2>. HIDE DEF n
  <2>6. /\ n \in Nat /\ DOMAIN rung = 1..n /\ DOMAIN rung' = 1..(n + 1)
        /\ \A i \in 1..(n + 1) : i \in 1..n \/ i = n + 1
        /\ \A i \in 1..n : rung'[i] = rung[i]
        /\ rung'[n + 1] = k
    BY <2>5 DEF n
  <2>7. /\ sweep'[s] = Reminder!Idle
        /\ \A t \in Sweeps : t # s => sweep'[t] = sweep[t]
        /\ sweep' \in [Sweeps -> ReminderStates]
    BY <1>0, <1>1 DEF ReminderTyped, ReminderStates
  <2>8. /\ ~Claiming(s)' /\ ~Rings(s)' /\ ~Waits(s)'
        /\ \A t \in Sweeps : t # s => /\ Claiming(t)' <=> Claiming(t)
                                      /\ Rings(t)' <=> Rings(t)
                                      /\ Waits(t)' <=> Waits(t)
    BY <2>7 DEF Claiming, Rings, Waits, Reminder!Idle
  <2>9. ReminderFlags'
    BY <1>0, <1>1 DEF ReminderFlags
  <2>10. ReminderTyped'
    BY <1>0, <1>1, <2>5, <2>7 DEF ReminderTyped
  <2>11. RangInOrder'
    <3>1. \A i \in DOMAIN rung' : rung'[i] <= stage
      BY <1>0, <2>3, <2>6 DEF RangInOrder
    <3>2. ASSUME NEW i \in DOMAIN rung', NEW j \in DOMAIN rung', i < j
          PROVE  rung'[i] # rung'[j] /\ (doubled \/ rung'[i] < rung'[j])
      <4>1. i \in 1..n
        BY <2>6, <3>2
      <4>2. CASE j \in 1..n
        BY <1>0, <2>6, <3>2, <4>1, <4>2 DEF RangInOrder
      <4>3. CASE j = n + 1
        BY <2>3, <2>6, <4>1, <4>3
      <4>. QED
        BY <2>6, <4>2, <4>3
    <3>. QED
      BY <1>1, <3>1, <3>2 DEF RangInOrder
  <2>12. WillRing'
    <3>. SUFFICES ASSUME NEW t \in Sweeps, Rings(t)'
                  PROVE  /\ sweep'[t].stage <= stage
                         /\ \A i \in DOMAIN rung' :
                              rung'[i] # sweep'[t].stage /\ (doubled \/ rung'[i] < sweep'[t].stage)
                         /\ \A u \in Sweeps : Rings(u)' /\ sweep'[u].stage = sweep'[t].stage => t = u
      BY <1>1 DEF WillRing
    <3>1. t # s /\ Rings(t) /\ sweep'[t] = sweep[t]
      BY <2>7, <2>8
    <3>2. /\ sweep[t].stage <= stage
          /\ \A i \in DOMAIN rung :
               rung[i] # sweep[t].stage /\ (doubled \/ rung[i] < sweep[t].stage)
          /\ \A u \in Sweeps : Rings(u) /\ sweep[u].stage = sweep[t].stage => t = u
      BY <1>0, <3>1 DEF WillRing
    <3>3. doubled
      <4>1. Waits(t)
        BY <1>0, <3>1, SweepStates
      <4>. QED
        BY <1>0, <1>2, <3>1, <4>1 DEF OneSweeps
    <3>4. k # sweep[t].stage
      BY <2>3, <3>1
    <3>5. \A i \in DOMAIN rung' : rung'[i] # sweep[t].stage
      BY <2>6, <3>2, <3>4
    <3>6. \A u \in Sweeps : Rings(u)' => Rings(u) /\ sweep'[u] = sweep[u]
      BY <2>7, <2>8
    <3>. QED
      BY <3>1, <3>2, <3>3, <3>5, <3>6
  <2>13. OneSweeps'
    BY <1>0, <1>1, <2>8 DEF OneSweeps
  <2>14. DueReached'
    BY <1>0, <1>1, <2>7, <2>8 DEF DueReached, Excused, Reached
  <2>. QED
    BY <2>9, <2>10, <2>11, <2>12, <2>13, <2>14 DEF ReminderInv
<1>. QED
  BY <1>3, <1>4

(* The deadline is set: what was claimed rings for the old one, so the     *)
(* stages begin anew; one that lies behind counts as reminded.             *)
LEMMA MoveKeeps ==
  ASSUME ReminderInv, NEW to \in Int, Reminder!Move(to), ladder' \in Seq(LadderRow)
  PROVE  ReminderInv'
<1>0. ReminderFlags /\ ReminderTyped /\ RangInOrder /\ WillRing /\ OneSweeps /\ DueReached
  BY DEF ReminderInv
<1>1. /\ due' = to /\ stage' = Reminder!Rearmed(to) /\ rung' = <<>>
      /\ resets < MaxResets /\ resets' = resets + 1
      /\ UNCHANGED <<time, live, doubled, givenBack>>
      /\ sweep' = [s \in Sweeps |->
                    IF sweep[s].pc = "ring" THEN [sweep[s] EXCEPT !.late = TRUE] ELSE sweep[s]]
  BY DEF Reminder!Move
<1>2. shifted' = (shifted \/ Reminder!Sweeping)
  BY Zenon DEF Reminder!Move
<1>3. ASSUME NEW s \in Sweeps
      PROVE  /\ sweep'[s] \in ReminderStates /\ ~Rings(s)'
             /\ Waits(s)' => Waits(s)
             /\ Claiming(s)' => Claiming(s) /\ sweep'[s] = sweep[s] /\ Waits(s)
  <2>1. sweep[s] \in ReminderStates
    BY <1>0 DEF ReminderTyped
  <2>2. CASE sweep[s].pc = "ring"
    <3>1. sweep[s] \in [pc : {"ring"}, stage : 1..3, late : BOOLEAN] /\ Waits(s)
      BY <1>0, <2>2, SweepStates
    <3>2. sweep'[s] = [sweep[s] EXCEPT !.late = TRUE]
      BY <1>1, <2>2
    <3>3. sweep'[s] \in [pc : {"ring"}, stage : 1..3, late : BOOLEAN]
          /\ sweep'[s].late = TRUE /\ sweep'[s].pc = "ring"
      BY <3>1, <3>2
    <3>. QED
      BY <3>1, <3>3 DEF ReminderStates, Rings, Claiming
  <2>3. CASE sweep[s].pc # "ring"
    <3>1. sweep'[s] = sweep[s]
      BY <1>1, <2>3
    <3>2. /\ Claiming(s)' <=> Claiming(s)
          /\ Waits(s)' <=> Waits(s)
          /\ ~Rings(s)'
      BY <2>3, <3>1 DEF Rings, Claiming, Waits
    <3>3. Claiming(s) => Waits(s)
      BY <1>0, SweepStates
    <3>. QED
      BY <2>1, <3>1, <3>2, <3>3
  <2>. QED
    BY <2>2, <2>3
<1>4. /\ time \in Int /\ stage' \in 0..3 /\ resets' \in 0..MaxResets
      /\ stage' > 0 => to - time <= 4 - stage'
  BY <1>0, <1>1, ReminderAssumption DEF ReminderTyped, Reminder!Rearmed
<1>5. ReminderFlags'
  BY <1>0, <1>1, <1>2, Zenon DEF ReminderFlags
<1>6. ReminderTyped'
  <2>1. sweep' \in [Sweeps -> ReminderStates]
    BY <1>1, <1>3
  <2>2. rung' \in Seq(1..3)
    BY <1>1
  <2>. QED
    BY <1>0, <1>1, <1>4, <2>1, <2>2 DEF ReminderTyped
<1>7. DOMAIN rung' = {}
  BY <1>1
<1>8. RangInOrder' /\ WillRing'
  BY <1>3, <1>7 DEF RangInOrder, WillRing
<1>9. OneSweeps'
  BY <1>0, <1>1, <1>3 DEF OneSweeps
<1>10. DueReached'
  <2>1. stage' > 0 => Reached(stage)'
    BY <1>1, <1>4 DEF Reached
  <2>2. ASSUME NEW s \in Sweeps, Claiming(s)' PROVE Excused'
    <3>1. Reminder!Sweeping
      BY <1>3, <2>2 DEF Reminder!Sweeping, Waits
    <3>. QED
      BY <1>2, <3>1 DEF Excused
  <2>. QED
    BY <2>1, <2>2 DEF DueReached
<1>. QED
  BY <1>5, <1>6, <1>8, <1>9, <1>10 DEF ReminderInv

LEMMA ReminderSums == ASSUME NEW f PROVE Reminder!SumFunction(f) = SumFunction(f)
BY Zenon DEF Reminder!SumFunction, Reminder!SumFunctionOnSet, Reminder!FoldFunctionOnSet,
  Reminder!MapThenFoldSet, SumFunction, SumFunctionOnSet, FoldFunctionOnSet, MapThenFoldSet

LEMMA DeadlineSet ==
  ASSUME ReminderInv,
         \/ \E to \in 1..(MaxTicks + 1) : Reminder!ExtendDeadline(to)
         \/ Reminder!SelfExtend
         \/ \E all \in BOOLEAN : Reminder!UndoDeadlineChange(all)
  PROVE  ReminderInv'
<1>1. /\ ladder \in Seq(LadderRow) /\ due \in Int /\ time \in 0..MaxTicks
      /\ MaxTicks \in Nat /\ SelfRungs \in Int
  BY ReminderAssumption DEF ReminderInv, ReminderTyped
<1>2. ASSUME NEW to \in Int, NEW self \in BOOLEAN, Reminder!Change(to, self)
      PROVE  ReminderInv'
  <2> DEFINE row == [shift |-> to - due, at |-> time, self |-> self]
  <2>1. row \in LadderRow
    BY <1>1, <1>2 DEF LadderRow
  <2>2. ladder' = Append(ladder, row) /\ Reminder!Move(to)
    BY <1>2 DEF Reminder!Change
  <2>. HIDE DEF row
  <2>3. ladder' \in Seq(LadderRow)
    BY <1>1, <2>1, <2>2
  <2>. QED
    BY <1>2, <2>2, <2>3, MoveKeeps
<1>3. ASSUME NEW to \in 1..(MaxTicks + 1), Reminder!ExtendDeadline(to) PROVE ReminderInv'
  <2>1. to \in Int /\ FALSE \in BOOLEAN
    BY <1>1
  <2>2. Reminder!Change(to, FALSE)
    BY <1>3 DEF Reminder!ExtendDeadline
  <2>. QED
    BY <1>2, <2>1, <2>2
<1>4. ASSUME Reminder!SelfExtend PROVE ReminderInv'
  <2>1. due + SelfRungs \in Int /\ TRUE \in BOOLEAN
    BY <1>1
  <2>. QED
    BY <1>2, <1>4, <2>1 DEF Reminder!SelfExtend
<1>5. ASSUME NEW all \in BOOLEAN, Reminder!UndoDeadlineChange(all) PROVE ReminderInv'
  <2> DEFINE k == IF all THEN 1 ELSE Len(ladder)
             f == [i \in k..Len(ladder) |-> ladder[i].shift]
             to == due - Reminder!SumFunction(f)
  <2>1. ladder # <<>> /\ ladder' = SubSeq(ladder, 1, k - 1) /\ Reminder!Move(to)
    BY <1>5 DEF Reminder!UndoDeadlineChange
  <2>2. Len(ladder) \in Nat /\ Len(ladder) >= 1 /\ k \in 1..Len(ladder)
    BY <1>1, <2>1
  <2>. HIDE DEF k
  <2>3. \A i \in k..Len(ladder) : ladder[i].shift \in Int
    <3>1. \A i \in 1..Len(ladder) : ladder[i] \in LadderRow
      BY <1>1
    <3>. QED
      BY <2>2, <3>1 DEF LadderRow
  <2>4. IsFiniteSet(k..Len(ladder))
    BY <2>2, FS_Interval
  <2>5. DOMAIN f = k..Len(ladder) /\ \A i \in DOMAIN f : f[i] \in Int
    BY <2>3
  <2>. HIDE DEF f
  <2>6. SumFunction(f) \in Int
    BY <2>4, <2>5, SumFunctionIsInt
  <2>7. to \in Int
    BY <1>1, <2>6, ReminderSums
  <2>8. ladder' \in Seq(LadderRow)
    BY <1>1, <2>1, <2>2
  <2>. HIDE DEF to
  <2>. QED
    BY <2>1, <2>7, <2>8, MoveKeeps
<1>. QED
  BY <1>3, <1>4, <1>5

LEMMA TimeClosesIn ==
  ASSUME NEW d \in Int, NEW t \in Int, NEW u \in Int, NEW n \in 0..3, d - t <= 4 - n, u >= t
  PROVE  d - u <= 4 - n
OBVIOUS

(* Time passes, hours are given back, the order closes. *)
LEMMA DueStands ==
  ASSUME ReminderInv, Reminder!GiveBack \/ Reminder!Settle \/ Reminder!Tick
  PROVE  ReminderInv'
<1>0. ReminderFlags /\ ReminderTyped /\ RangInOrder /\ WillRing /\ OneSweeps /\ DueReached
  BY DEF ReminderInv
<1>1. UNCHANGED <<stage, ladder, resets, rung, sweep, doubled>>
  BY DEF Reminder!GiveBack, Reminder!Settle, Reminder!Tick, Reminder!history
<1>2. \A s \in Sweeps : /\ Claiming(s)' <=> Claiming(s)
                        /\ Rings(s)' <=> Rings(s)
                        /\ Waits(s)' <=> Waits(s)
  BY <1>1 DEF Claiming, Rings, Waits
<1>3. RangInOrder' /\ OneSweeps'
  BY <1>0, <1>1, <1>2 DEF RangInOrder, OneSweeps
<1>4. WillRing'
  BY <1>0, <1>1, <1>2 DEF WillRing
<1>5. ReminderFlags'
  BY <1>0, <1>1, Zenon DEF ReminderFlags, Reminder!GiveBack, Reminder!Settle, Reminder!Tick
<1>6. /\ time' \in 0..MaxTicks /\ due' \in Int
  BY <1>0, ReminderAssumption
     DEF ReminderTyped, Reminder!GiveBack, Reminder!Settle, Reminder!Tick
<1>7. ReminderTyped'
  BY <1>0, <1>1, <1>6 DEF ReminderTyped
<1>8. Excused' \/ (due' = due /\ time' >= time /\ (Excused => Excused'))
  <2>1. CASE Reminder!GiveBack
    BY <2>1 DEF Reminder!GiveBack, Excused
  <2>2. CASE Reminder!Settle
    BY <1>0, <2>2, ReminderAssumption DEF Reminder!Settle, Excused, ReminderTyped
  <2>3. CASE Reminder!Tick
    BY <1>0, <2>3, ReminderAssumption DEF Reminder!Tick, Excused, ReminderTyped
  <2>. QED
    BY <2>1, <2>2, <2>3
<1>9. ASSUME NEW k \in 0..3, Excused \/ Reached(k) PROVE Excused' \/ due' - time' <= 4 - k
  <2>1. time \in Int /\ time' \in Int /\ due \in Int /\ due' \in Int
    BY <1>0, <1>6, ReminderAssumption DEF ReminderTyped
  <2>2. CASE Excused'
    BY <2>2
  <2>3. CASE ~Excused'
    <3>1. due' = due /\ time' >= time /\ Reached(k)
      BY <1>8, <1>9, <2>3
    <3>2. due - time <= 4 - k
      BY <3>1 DEF Reached
    <3>3. due' - time' <= 4 - k
      BY <2>1, <3>1, <3>2, TimeClosesIn
    <3>. QED
      BY <3>3
  <2>. QED
    BY <2>2, <2>3
<1>10. DueReached'
  <2>1. stage \in 0..3 /\ \A s \in Sweeps : Claiming(s) => sweep[s].stage \in 0..3
    BY <1>0, SweepStates DEF ReminderTyped
  <2>. QED
    BY <1>0, <1>1, <1>2, <1>9, <2>1 DEF DueReached, Reached
<1>. QED
  BY <1>3, <1>4, <1>5, <1>7, <1>10 DEF ReminderInv

LEMMA RemindersNext == ReminderInv /\ [Reminder!Next]_Reminder!vars => ReminderInv'
<1>. SUFFICES ASSUME ReminderInv, [Reminder!Next]_Reminder!vars PROVE ReminderInv'
  OBVIOUS
<1>1. ASSUME NEW s \in Sweeps, Reminder!Crash(s) PROVE ReminderInv'
  BY <1>1, SweepEnds DEF Reminder!Crash, Reminder!Run
<1>2. CASE UNCHANGED Reminder!vars
  <2>1. UNCHANGED <<time, due, live, stage, ladder, resets, rung, sweep, shifted, doubled, givenBack>>
    BY <1>2 DEF Reminder!vars
  <2>. QED
    BY <2>1 DEF ReminderInv, ReminderFlags, ReminderTyped, RangInOrder, WillRing, OneSweeps,
       DueReached, Excused, Reached, Claiming, Rings, Waits
<1>. QED
  BY <1>1, <1>2, StartSweepKeeps, ClaimKeeps, RingKeeps, DeadlineSet, DueStands DEF Reminder!Next

(* Since the reminders were armed last each one rang at most once, in      *)
(* order unless two sweeps overlapped; and no stage counts as reminded     *)
(* that the deadline has not reached, unless the deadline moved while a    *)
(* sweep was under way or by the hours of a dropped return.                *)
THEOREM RemindersAlwaysEscalate == ClockSpec => []RemindersEscalate
<1>1. ClockInit => ReminderInv
  BY RemindersInit DEF ClockInit
<1>2. ReminderInv /\ [ClockNext]_<<clock, vars, reminderVars>> => ReminderInv'
  <2>1. [ClockNext]_<<clock, vars, reminderVars>> => [Reminder!Next]_Reminder!vars
    BY DEF ClockNext, reminderVars, Reminder!vars
  <2>. QED
    BY <2>1, RemindersNext
<1>3. ReminderInv => RemindersEscalate
  <2>. SUFFICES ASSUME ReminderInv PROVE RemindersEscalate
    OBVIOUS
  <2>0. ReminderFlags /\ ReminderTyped /\ RangInOrder /\ DueReached
    BY DEF ReminderInv
  <2>1. {live, shifted, doubled, givenBack} \subseteq BOOLEAN
    BY <2>0, Zenon DEF ReminderFlags
  <2>2. /\ time \in 0..MaxTicks /\ due \in Int /\ stage \in 0..3 /\ resets \in 0..MaxResets
    BY <2>0 DEF ReminderTyped
  <2>3. Reminder!TypeOK
    BY <2>1, <2>2, Zenon DEF Reminder!TypeOK
  <2>4. Reminder!RemindersEscalate
    BY <2>0 DEF RangInOrder, DueReached, Excused, Reached, Reminder!RemindersEscalate
  <2>. QED
    BY <2>3, <2>4 DEF RemindersEscalate
<1>. QED
  BY <1>1, <1>2, <1>3, PTL DEF ClockSpec
=============================================================================
