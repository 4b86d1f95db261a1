---------------------------- MODULE CashBookProofs ----------------------------
(***************************************************************************)
(* Proofs about CashBook, for any number of requests, rows, sales, payouts *)
(* and wallets.  The recorders and the backfill post from what they read   *)
(* earlier, so the invariant speaks of the documents a session still means *)
(* to post: a document nobody else turned to has no row yet.               *)
(***************************************************************************)
EXTENDS CashBook, SumTheorems

Documents == Sales \cup Payouts

(* A document is posted, or about to be, only after it was committed.      *)
KnownFirst ==
  /\ \A x \in Sales : sale[x] = "NONE" =>
       RowsOf(x) = {} /\ \A s \in Sessions : x \notin Plans(h[s])
  /\ \A w \in Payouts : paidAt[w] = 0 =>
       RowsOf(w) = {} /\ \A s \in Sessions : w \notin Plans(h[s])
  /\ \A x \in Sales : sale[x] # "NONE" => soldAt[x] > 0

(* Whoever means to post a document nobody else turned to is alone with    *)
(* it, and it has no row yet.                                              *)
PlannedAlone ==
  \A d \in Documents \ contested, s \in Sessions : d \in Plans(h[s]) =>
    RowsOf(d) = {} /\ \A t \in Sessions : d \in Plans(h[t]) => t = s

OneRow == \A d \in Documents \ contested : \A q, r \in RowsOf(d) : q = r

(* A cancelled sale is out of everybody's hands, and out of the ledger.    *)
CancelledIsClear ==
  \A x \in Sales \ late : sale[x] = "CANCELLED" =>
    RowsOf(x) = {} /\ \A s \in Sessions : x \notin Plans(h[s])

DocumentInv == KnownFirst /\ PlannedAlone /\ OneRow /\ CancelledIsClear

-----------------------------------------------------------------------------
(* What a session still means to post. *)
LEMMA PlansByState ==
  ASSUME NEW state
  PROVE  /\ state.pc \in {"income", "payout"} => Plans(state) = {state.ref}
         /\ state.pc \in {"sales", "payouts"} => Plans(state) = state.todo
         /\ state.pc \notin {"income", "payout", "sales", "payouts"} => Plans(state) = {}
BY DEF Plans

LEMMA IdlePlansNothing == Plans(Idle) = {} /\ Idle.pc = "idle"
BY DEF Plans, Idle

(* What a session in hand has read. *)
LEMMA StateOfSession ==
  ASSUME TypeOK, NEW s \in Sessions
  PROVE  /\ h[s].pc = "income" => h[s].ref \in Sales
         /\ h[s].pc = "payout" => h[s].ref \in Payouts
         /\ h[s].pc = "sales" => /\ h[s].todo \subseteq Sales /\ h[s].listed \subseteq Sales
                                 /\ h[s].default \in Wallets
                                 /\ h[s] = [pc |-> "sales", todo |-> h[s].todo,
                                            listed |-> h[s].listed, default |-> h[s].default]
         /\ h[s].pc = "payouts" => /\ h[s].todo \subseteq Payouts
                                   /\ h[s].listed \subseteq Documents
                                   /\ h[s] = [pc |-> "payouts", todo |-> h[s].todo,
                                              listed |-> h[s].listed]
         /\ h[s].pc = "transfer" => /\ h[s].from \in Wallets /\ h[s].to \in Wallets
                                    /\ h[s].amount \in Nat \ {0}
<1>1. h[s] \in SessionState
  BY DEF TypeOK
<1>. QED
  BY <1>1 DEF SessionState, Idle, Documents

(* A row of the ledger by its type. *)
LEMMA EntryKinds ==
  ASSUME TypeOK, NEW r \in Rows
  PROVE  /\ row[r].amount \in Nat
         /\ row[r].account \in Wallets \cup {Record}
         /\ row[r].ref \in Sales => row[r].type = "SETTLEMENT" /\ row[r].dir = "IN"
         /\ row[r].ref \in Payouts => row[r].type = "COMMISSION_PAYMENT"
         /\ row[r].type = "NONE" => row[r] = NoRow
         /\ row[r].type # "NONE" => row[r].at \in 1..Periods
<1>1. row[r] \in Entry
  BY DEF TypeOK
<1>. QED
  BY <1>1, CashBookAssumption DEF Entry, NoRow, Record

(* The first of some wallets is one of them. *)
LEMMA LeastExists ==
  ASSUME NEW T \in SUBSET Wallets, T # {}
  PROVE  Min(T) \in T
<1>. DEFINE Least(U) == {n \in U : \A m \in U : n <= m}
            P == {U \in SUBSET Wallets : U # {} => Least(U) # {}}
<1>1. ASSUME NEW U \in SUBSET Wallets, \A V \in SUBSET U : V # U => V \in P, U # {}
      PROVE  Least(U) # {}
  <2>1. PICK a \in U : TRUE
    BY <1>1
  <2>2. U \subseteq Nat
    BY CashBookAssumption
  <2>3. U \ {a} \in P
    BY <1>1, <2>1
  <2>4. CASE U = {a}
    BY <2>2, <2>4
  <2>5. CASE U # {a}
    <3>1. PICK n \in U \ {a} : \A m \in U \ {a} : n <= m
      BY <2>1, <2>3, <2>5
    <3>2. a \in Nat /\ n \in Nat /\ \A m \in U : m \in Nat
      BY <2>1, <2>2
    <3>3. (\A m \in U : n <= m) \/ (\A m \in U : a <= m)
      BY <3>1, <3>2
    <3>. QED
      BY <2>1, <3>1, <3>3
  <2>. QED
    BY <2>4, <2>5
<1>2. \A U \in SUBSET Wallets : (\A V \in SUBSET U : V # U => V \in P) => U \in P
  BY <1>1
<1>. HIDE DEF P
<1>3. SUBSET Wallets \subseteq P
  BY <1>2, CashBookAssumption, SubsetInduction
<1>4. Least(T) # {}
  BY <1>3 DEF P
<1>. QED
  BY <1>4 DEF Min

(* A wallet the defaults name exists. *)
LEMMA DefaultIsOpen ==
  ASSUME TypeOK, DefaultAccount # None
  PROVE  DefaultAccount \in Wallets
<1>1. active # {} /\ active \subseteq Wallets /\ DefaultAccount = Min(active)
  BY DEF DefaultAccount, TypeOK
<1>. QED
  BY <1>1, LeastExists DEF TypeOK

-----------------------------------------------------------------------------
(* TypeOK.  Every entry that is written is one of its kind; a sale that is *)
(* posted was made, so it has a date.                                      *)
LEMMA PostType ==
  ASSUME TypeOK, NEW r \in Rows, NEW type, NEW dir, NEW a, NEW amount, NEW at, NEW ref,
         [type |-> type, dir |-> dir, account |-> a, amount |-> amount,
          at |-> at, ref |-> ref] \in Entry,
         Post(r, type, dir, a, amount, at, ref)
  PROVE  row' \in [Rows -> Entry]
BY DEF Post, TypeOK

LEMMA SaleEntry ==
  ASSUME NEW a \in Wallets, NEW n \in Nat, NEW at \in 1..Periods, NEW x \in Sales
  PROVE  [type |-> "SETTLEMENT", dir |-> "IN", account |-> a, amount |-> n,
          at |-> at, ref |-> x] \in Entry
BY DEF Entry

LEMMA PayoutEntry ==
  ASSUME NEW at \in 1..Periods, NEW w \in Payouts
  PROVE  [type |-> "COMMISSION_PAYMENT", dir |-> "OUT", account |-> Record, amount |-> 1,
          at |-> at, ref |-> w] \in Entry
BY DEF Entry

LEMMA RunType ==
  ASSUME TypeOK, NEW s \in Sessions, NEW state \in SessionState, Run(s, state)
  PROVE  h' \in [Sessions -> SessionState]
BY DEF Run, TypeOK

LEMMA IdleType == Idle \in SessionState
BY DEF SessionState

(* The documents a session means to post are dated. *)
LEMMA PlannedIsDated ==
  ASSUME TypeOK, KnownFirst, NEW s \in Sessions
  PROVE  /\ \A x \in Sales : x \in Plans(h[s]) => soldAt[x] \in 1..Periods
         /\ \A w \in Payouts : w \in Plans(h[s]) => paidAt[w] \in 1..Periods
BY CashBookAssumption DEF TypeOK, KnownFirst

LEMMA SettlementIsWallet ==
  ASSUME NEW x \in Sales, SettlementAccount(x) # None
  PROVE  SettlementAccount(x) \in Wallets
BY CashBookAssumption DEF SettlementAccount

LEMMA LessToDo ==
  ASSUME TypeOK, NEW s \in Sessions, h[s].pc \in {"sales", "payouts"}, NEW d
  PROVE  LET rest == [h[s] EXCEPT !.todo = @ \ {d}]
         IN /\ rest \in SessionState
            /\ rest.pc = h[s].pc /\ rest.listed = h[s].listed
            /\ rest.todo = h[s].todo \ {d}
<1>. DEFINE rest == [h[s] EXCEPT !.todo = @ \ {d}]
<1>1. CASE h[s].pc = "sales"
  <2>1. /\ h[s].todo \subseteq Sales /\ h[s].listed \subseteq Sales /\ h[s].default \in Wallets
        /\ h[s] = [pc |-> "sales", todo |-> h[s].todo,
                   listed |-> h[s].listed, default |-> h[s].default]
    BY <1>1, StateOfSession
  <2>2. rest = [pc |-> "sales", todo |-> h[s].todo \ {d},
                listed |-> h[s].listed, default |-> h[s].default]
    BY <2>1
  <2>3. rest \in SessionState
    BY <2>1, <2>2 DEF SessionState
  <2>. QED
    BY <1>1, <2>2, <2>3
<1>2. CASE h[s].pc = "payouts"
  <2>1. /\ h[s].todo \subseteq Payouts /\ h[s].listed \subseteq Documents
        /\ h[s] = [pc |-> "payouts", todo |-> h[s].todo, listed |-> h[s].listed]
    BY <1>2, StateOfSession
  <2>2. rest = [pc |-> "payouts", todo |-> h[s].todo \ {d}, listed |-> h[s].listed]
    BY <2>1
  <2>3. rest \in SessionState
    BY <2>1, <2>2 DEF SessionState, Documents
  <2>. QED
    BY <1>2, <2>2, <2>3
<1>. QED
  BY <1>1, <1>2

LEMMA RecordersType ==
  ASSUME TypeOK, KnownFirst, NEW s \in Sessions,
         RecordSaleIncome(s) \/ RecordCommissionPayment(s)
           \/ (\E x \in Sales : BackfillSale(s, x)) \/ (\E w \in Payouts : BackfillPayout(s, w))
  PROVE  TypeOK'
<1>1. CASE RecordSaleIncome(s)
  <2>. PICK x \in Sales : x = h[s].ref
    BY <1>1, StateOfSession DEF RecordSaleIncome
  <2>1. soldAt[x] \in 1..Periods
    BY <1>1, PlansByState, PlannedIsDated DEF RecordSaleIncome
  <2>2. h' \in [Sessions -> SessionState]
    BY <1>1, IdleType, RunType DEF RecordSaleIncome
  <2>3. row' \in [Rows -> Entry]
    <3>1. CASE SettlementAccount(x) = None
      BY <1>1, <3>1 DEF RecordSaleIncome, TypeOK
    <3>2. CASE SettlementAccount(x) # None
      <4>1. PICK r \in Free : Post(r, "SETTLEMENT", "IN", SettlementAccount(x), Paid[x], soldAt[x], x)
        BY <1>1, <3>2 DEF RecordSaleIncome
      <4>2. r \in Rows /\ SettlementAccount(x) \in Wallets /\ Paid[x] \in Nat
        BY <3>2, SettlementIsWallet, CashBookAssumption DEF Free
      <4>. QED
        BY <2>1, <4>1, <4>2, SaleEntry, PostType
    <3>. QED
      BY <3>1, <3>2
  <2>. QED
    BY <1>1, <2>2, <2>3 DEF RecordSaleIncome, TypeOK, documents, history
<1>2. CASE RecordCommissionPayment(s)
  <2>. PICK w \in Payouts : w = h[s].ref
    BY <1>2, StateOfSession DEF RecordCommissionPayment
  <2>1. paidAt[w] \in 1..Periods
    BY <1>2, PlansByState, PlannedIsDated DEF RecordCommissionPayment
  <2>2. h' \in [Sessions -> SessionState]
    BY <1>2, IdleType, RunType DEF RecordCommissionPayment
  <2>3. row' \in [Rows -> Entry]
    <3>1. PICK r \in Free : Post(r, "COMMISSION_PAYMENT", "OUT", Record, 1, paidAt[w], w)
      BY <1>2 DEF RecordCommissionPayment
    <3>. QED
      BY <2>1, <3>1, PayoutEntry, PostType DEF Free
  <2>. QED
    BY <1>2, <2>2, <2>3 DEF RecordCommissionPayment, TypeOK, documents, history
<1>3. ASSUME NEW x \in Sales, BackfillSale(s, x) PROVE TypeOK'
  <2>. DEFINE a == IF SettlementAccount(x) # None THEN SettlementAccount(x) ELSE h[s].default
  <2>1. soldAt[x] \in 1..Periods
    BY <1>3, PlansByState, PlannedIsDated DEF BackfillSale
  <2>2. a \in Wallets /\ Total[x] \in Nat
    BY <1>3, StateOfSession, SettlementIsWallet, CashBookAssumption DEF BackfillSale
  <2>3. row' \in [Rows -> Entry]
    <3>1. PICK r \in Free : Post(r, "SETTLEMENT", "IN", a, Total[x], soldAt[x], x)
      BY <1>3 DEF BackfillSale
    <3>. HIDE DEF a
    <3>. QED
      BY <2>1, <2>2, <3>1, SaleEntry, PostType DEF Free
  <2>4. h' \in [Sessions -> SessionState]
    <3>1. [h[s] EXCEPT !.todo = @ \ {x}] \in SessionState
      BY <1>3, LessToDo DEF BackfillSale
    <3>. QED
      BY <1>3, <3>1, RunType DEF BackfillSale
  <2>. QED
    BY <1>3, <2>3, <2>4 DEF BackfillSale, TypeOK, documents, history
<1>4. ASSUME NEW w \in Payouts, BackfillPayout(s, w) PROVE TypeOK'
  <2>1. paidAt[w] \in 1..Periods
    BY <1>4, PlansByState, PlannedIsDated DEF BackfillPayout
  <2>2. row' \in [Rows -> Entry]
    <3>1. PICK r \in Free : Post(r, "COMMISSION_PAYMENT", "OUT", Record, 1, paidAt[w], w)
      BY <1>4 DEF BackfillPayout
    <3>. QED
      BY <2>1, <3>1, PayoutEntry, PostType DEF Free
  <2>3. h' \in [Sessions -> SessionState]
    <3>1. [h[s] EXCEPT !.todo = @ \ {w}] \in SessionState
      BY <1>4, LessToDo DEF BackfillPayout
    <3>. QED
      BY <1>4, <3>1, RunType DEF BackfillPayout
  <2>. QED
    BY <1>4, <2>2, <2>3 DEF BackfillPayout, TypeOK, documents, history
<1>. QED
  BY <1>1, <1>2, <1>3, <1>4

LEMMA RequestsType ==
  ASSUME TypeOK, NEW s \in Sessions,
         \/ \E x \in Sales : MakeSale(s, x)
         \/ \E w \in Payouts : PayWithdrawal(s, w)
         \/ StartBackfill(s) \/ ListPayouts(s) \/ EndBackfill(s) \/ Crash(s)
         \/ \E a, b \in Wallets, n \in Amounts : StartTransfer(s, a, b, n)
  PROVE  TypeOK'
<1>1. ASSUME NEW x \in Sales, MakeSale(s, x) PROVE TypeOK'
  <2>1. [pc |-> "income", ref |-> x] \in SessionState
    BY DEF SessionState
  <2>2. h' \in [Sessions -> SessionState]
    BY <1>1, <2>1, IdleType, RunType DEF MakeSale
  <2>. QED
    BY <1>1, <2>2 DEF MakeSale, TypeOK, history
<1>2. ASSUME NEW w \in Payouts, PayWithdrawal(s, w) PROVE TypeOK'
  <2>1. [pc |-> "payout", ref |-> w] \in SessionState
    BY DEF SessionState
  <2>2. h' \in [Sessions -> SessionState]
    BY <1>2, <2>1, RunType DEF PayWithdrawal
  <2>. QED
    BY <1>2, <2>2 DEF PayWithdrawal, TypeOK, history
<1>3. CASE StartBackfill(s)
  <2>. DEFINE live == {x \in Sales : sale[x] = "LIVE"}
  <2>1. [pc |-> "sales", todo |-> Missing(live), listed |-> live, default |-> DefaultAccount]
          \in SessionState
    BY <1>3, DefaultIsOpen DEF StartBackfill, SessionState, Missing
  <2>2. h' \in [Sessions -> SessionState]
    BY <1>3, <2>1, RunType DEF StartBackfill
  <2>3. contested' \subseteq Sales \cup Payouts
    BY <1>3 DEF StartBackfill, Contests, Missing, TypeOK
  <2>. QED
    BY <1>3, <2>2, <2>3 DEF StartBackfill, TypeOK, documents
<1>4. CASE ListPayouts(s)
  <2>. DEFINE paid == {w \in Payouts : paidAt[w] > 0}
  <2>1. [pc |-> "payouts", todo |-> Missing(paid), listed |-> h[s].listed \cup paid]
          \in SessionState
    BY <1>4, StateOfSession DEF ListPayouts, SessionState, Missing
  <2>2. h' \in [Sessions -> SessionState]
    BY <1>4, <2>1, RunType DEF ListPayouts
  <2>3. contested' \subseteq Sales \cup Payouts
    BY <1>4 DEF ListPayouts, Contests, Missing, TypeOK
  <2>. QED
    BY <1>4, <2>2, <2>3 DEF ListPayouts, TypeOK, documents
<1>5. CASE EndBackfill(s) \/ Crash(s)
  <2>1. h' \in [Sessions -> SessionState]
    BY <1>5, IdleType, RunType DEF EndBackfill, Crash
  <2>. QED
    BY <1>5, <2>1 DEF EndBackfill, Crash, TypeOK, documents, history
<1>6. ASSUME NEW a \in Wallets, NEW b \in Wallets, NEW n \in Amounts, StartTransfer(s, a, b, n)
      PROVE  TypeOK'
  <2>1. [pc |-> "transfer", from |-> a, to |-> b, amount |-> n] \in SessionState
    BY CashBookAssumption DEF SessionState, Amounts
  <2>2. h' \in [Sessions -> SessionState]
    BY <1>6, <2>1, RunType DEF StartTransfer
  <2>. QED
    BY <1>6, <2>2 DEF StartTransfer, ByHand, TypeOK, documents, history
<1>. QED
  BY <1>1, <1>2, <1>3, <1>4, <1>5, <1>6

LEMMA LegEntry ==
  ASSUME NEW a \in Wallets, NEW n \in Nat, NEW at \in 1..Periods, NEW q \in Rows
  PROVE  /\ [type |-> "TRANSFER", dir |-> "OUT", account |-> a, amount |-> n,
             at |-> at, ref |-> None] \in Entry
         /\ [type |-> "TRANSFER", dir |-> "IN", account |-> a, amount |-> n,
             at |-> at, ref |-> q] \in Entry
BY DEF Entry

(* The two rows a transfer writes. *)
LEMMA TransferWrites ==
  ASSUME TypeOK, NEW s \in Sessions, WriteTransfer(s)
  PROVE  \E out, in \in Free :
           /\ out # in
           /\ row' = [r \in Rows |->
                CASE r = out -> [type |-> "TRANSFER", dir |-> "OUT", account |-> h[s].from,
                                 amount |-> h[s].amount, at |-> now, ref |-> None]
                  [] r = in -> [type |-> "TRANSFER", dir |-> "IN", account |-> h[s].to,
                                amount |-> h[s].amount, at |-> now, ref |-> out]
                  [] OTHER -> row[r]]
<1>. DEFINE leg == [type |-> "TRANSFER", dir |-> "OUT", account |-> h[s].from,
                    amount |-> h[s].amount, at |-> now, ref |-> None]
<1>1. PICK out \in Free, in \in Free :
        /\ out # in
        /\ row' = [row EXCEPT ![out] = leg,
                              ![in] = [leg EXCEPT !.dir = "IN", !.account = h[s].to, !.ref = out]]
  BY DEF WriteTransfer
<1>2. [leg EXCEPT !.dir = "IN", !.account = h[s].to, !.ref = out]
        = [type |-> "TRANSFER", dir |-> "IN", account |-> h[s].to,
           amount |-> h[s].amount, at |-> now, ref |-> out]
  <2>. DEFINE in1 == [leg EXCEPT !.dir = "IN"]
              in2 == [in1 EXCEPT !.account = h[s].to]
  <2>1. in1 = [type |-> "TRANSFER", dir |-> "IN", account |-> h[s].from,
               amount |-> h[s].amount, at |-> now, ref |-> None]
    OBVIOUS
  <2>. HIDE DEF in1
  <2>2. in2 = [type |-> "TRANSFER", dir |-> "IN", account |-> h[s].to,
               amount |-> h[s].amount, at |-> now, ref |-> None]
    BY <2>1
  <2>. HIDE DEF in2, leg
  <2>3. [in2 EXCEPT !.ref = out]
          = [type |-> "TRANSFER", dir |-> "IN", account |-> h[s].to,
             amount |-> h[s].amount, at |-> now, ref |-> out]
    BY <2>2
  <2>4. [leg EXCEPT !.dir = "IN", !.account = h[s].to, !.ref = out] = [in2 EXCEPT !.ref = out]
    BY DEF in1, in2
  <2>. QED
    BY <2>3, <2>4
<1>. HIDE DEF leg
<1>3. row' = [r \in Rows |->
                CASE r = out -> leg
                  [] r = in -> [type |-> "TRANSFER", dir |-> "IN", account |-> h[s].to,
                                amount |-> h[s].amount, at |-> now, ref |-> out]
                  [] OTHER -> row[r]]
  BY <1>1, <1>2 DEF TypeOK, Free
<1>. QED
  BY <1>1, <1>3 DEF leg

(* An edit leaves an entry one of its kind. *)
Kinds(types, dirs, accounts, refs) ==
  [type : types, dir : dirs, account : accounts, amount : Nat, at : 1..Periods, ref : refs]

LEMMA EditedKind ==
  ASSUME NEW T, NEW D, NEW A, NEW R, NEW e \in Kinds(T, D, A, R),
         NEW a \in A, NEW n \in Nat, NEW p \in 1..Periods
  PROVE  [e EXCEPT !.account = a, !.amount = n, !.at = p] \in Kinds(T, D, A, R)
BY DEF Kinds

LEMMA EntryIsOfAKind ==
  Entry = {NoRow} \cup Kinds({"SETTLEMENT"}, {"IN"}, Wallets, Sales)
          \cup Kinds({"INCOME", "OWNER_CONTRIBUTION"}, {"IN"}, Wallets, {None})
          \cup Kinds({"EXPENSE", "OWNER_DRAWING"}, {"OUT"}, Wallets, {None})
          \cup Kinds({"COMMISSION_PAYMENT"}, {"OUT"}, {Record}, Payouts)
          \cup Kinds({"TRANSFER"}, {"OUT"}, Wallets, {None})
          \cup Kinds({"TRANSFER"}, {"IN"}, Wallets, Rows)
BY DEF Entry, Kinds

LEMMA TypeOfKind ==
  ASSUME NEW T, NEW D, NEW A, NEW R, NEW e \in Kinds(T, D, A, R)
  PROVE  e.type \in T
BY DEF Kinds

LEMMA EditedEntry ==
  ASSUME NEW e \in Entry, e.type # "NONE", NEW n \in 0..MaxAmount, NEW p \in 1..Periods,
         NEW a \in (IF e.type = "COMMISSION_PAYMENT" THEN {Record} ELSE Wallets)
  PROVE  [e EXCEPT !.account = a, !.amount = n, !.at = p] \in Entry
<1>. DEFINE new == [e EXCEPT !.account = a, !.amount = n, !.at = p]
<1>0. n \in Nat /\ e # NoRow
  BY CashBookAssumption DEF NoRow
<1>1. ASSUME e \in Kinds({"SETTLEMENT"}, {"IN"}, Wallets, Sales)
      PROVE  new \in Kinds({"SETTLEMENT"}, {"IN"}, Wallets, Sales)
  <2>1. a \in Wallets
    BY <1>1, TypeOfKind
  <2>. QED
    BY <1>0, <1>1, <2>1, EditedKind
<1>2. ASSUME e \in Kinds({"INCOME", "OWNER_CONTRIBUTION"}, {"IN"}, Wallets, {None})
      PROVE  new \in Kinds({"INCOME", "OWNER_CONTRIBUTION"}, {"IN"}, Wallets, {None})
  <2>1. a \in Wallets
    BY <1>2, TypeOfKind
  <2>. QED
    BY <1>0, <1>2, <2>1, EditedKind
<1>3. ASSUME e \in Kinds({"EXPENSE", "OWNER_DRAWING"}, {"OUT"}, Wallets, {None})
      PROVE  new \in Kinds({"EXPENSE", "OWNER_DRAWING"}, {"OUT"}, Wallets, {None})
  <2>1. a \in Wallets
    BY <1>3, TypeOfKind
  <2>. QED
    BY <1>0, <1>3, <2>1, EditedKind
<1>4. ASSUME e \in Kinds({"COMMISSION_PAYMENT"}, {"OUT"}, {Record}, Payouts)
      PROVE  new \in Kinds({"COMMISSION_PAYMENT"}, {"OUT"}, {Record}, Payouts)
  <2>1. a \in {Record}
    BY <1>4, TypeOfKind
  <2>. QED
    BY <1>0, <1>4, <2>1, EditedKind
<1>5. ASSUME e \in Kinds({"TRANSFER"}, {"OUT"}, Wallets, {None})
      PROVE  new \in Kinds({"TRANSFER"}, {"OUT"}, Wallets, {None})
  <2>1. a \in Wallets
    BY <1>5, TypeOfKind
  <2>. QED
    BY <1>0, <1>5, <2>1, EditedKind
<1>6. ASSUME e \in Kinds({"TRANSFER"}, {"IN"}, Wallets, Rows)
      PROVE  new \in Kinds({"TRANSFER"}, {"IN"}, Wallets, Rows)
  <2>1. a \in Wallets
    BY <1>6, TypeOfKind
  <2>. QED
    BY <1>0, <1>6, <2>1, EditedKind
<1>. HIDE DEF new
<1>7. new \in Entry
  BY <1>0, <1>1, <1>2, <1>3, <1>4, <1>5, <1>6, EntryIsOfAKind
<1>. QED
  BY <1>7 DEF new

LEMMA LedgerType ==
  ASSUME TypeOK,
         \/ \E s \in Sessions : WriteTransfer(s)
         \/ \E x \in Sales : CancelSale(x)
         \/ \E t \in Manual, a \in Wallets, n \in Amounts, p \in 1..Periods :
              RecordTransaction(t, a, n, p)
         \/ \E r \in Rows, a \in Wallets \cup {Record}, n \in 0..MaxAmount, p \in 1..Periods :
              UpdateTransaction(r, a, n, p)
         \/ \E r \in Rows : DeleteTransaction(r)
         \/ \E a \in Wallets : SetActive(a)
         \/ NextPeriod
  PROVE  TypeOK'
<1>1. ASSUME NEW s \in Sessions, WriteTransfer(s) PROVE TypeOK'
  <2>1. /\ h[s].from \in Wallets /\ h[s].to \in Wallets /\ h[s].amount \in Nat
        /\ now \in 1..Periods
    BY <1>1, StateOfSession DEF WriteTransfer, TypeOK
  <2>2. row' \in [Rows -> Entry]
    <3>1. PICK out, in \in Free :
           /\ out # in
           /\ row' = [r \in Rows |->
                CASE r = out -> [type |-> "TRANSFER", dir |-> "OUT", account |-> h[s].from,
                                 amount |-> h[s].amount, at |-> now, ref |-> None]
                  [] r = in -> [type |-> "TRANSFER", dir |-> "IN", account |-> h[s].to,
                                amount |-> h[s].amount, at |-> now, ref |-> out]
                  [] OTHER -> row[r]]
      BY <1>1, TransferWrites
    <3>2. out \in Rows
      BY DEF Free
    <3>. QED
      BY <2>1, <3>1, <3>2, LegEntry DEF TypeOK
  <2>3. h' \in [Sessions -> SessionState]
    BY <1>1, IdleType, RunType DEF WriteTransfer
  <2>. QED
    BY <1>1, <2>2, <2>3 DEF WriteTransfer, TypeOK, documents, history
<1>2. ASSUME NEW x \in Sales, CancelSale(x) PROVE TypeOK'
  <2>1. row' \in [Rows -> Entry]
    BY <1>2 DEF CancelSale, Reversed, TypeOK, Entry
  <2>. QED
    BY <1>2, <2>1 DEF CancelSale, TypeOK
<1>3. ASSUME NEW t \in Manual, NEW a \in Wallets, NEW n \in Amounts, NEW p \in 1..Periods,
             RecordTransaction(t, a, n, p)
      PROVE  TypeOK'
  <2>1. [type |-> t[1], dir |-> t[2], account |-> a, amount |-> n, at |-> p, ref |-> None] \in Entry
    BY CashBookAssumption DEF Manual, Amounts, Entry
  <2>2. row' \in [Rows -> Entry]
    BY <1>3, <2>1, PostType DEF RecordTransaction, Free
  <2>. QED
    BY <1>3, <2>2 DEF RecordTransaction, ByHand, TypeOK, documents, history
<1>4. ASSUME NEW r \in Rows, NEW a \in Wallets \cup {Record}, NEW n \in 0..MaxAmount,
             NEW p \in 1..Periods, UpdateTransaction(r, a, n, p)
      PROVE  TypeOK'
  <2>. DEFINE new == [row[r] EXCEPT !.account = a, !.amount = n, !.at = p]
  <2>1. row[r] \in Entry
    BY DEF TypeOK
  <2>2. /\ row[r].type # "NONE"
        /\ a \in (IF row[r].type = "COMMISSION_PAYMENT" THEN {Record} ELSE Wallets)
    BY <1>4 DEF UpdateTransaction, Editable
  <2>3. new \in Entry
    BY <2>1, <2>2, EditedEntry, CashBookAssumption
  <2>4. row' = [row EXCEPT ![r] = new]
    BY <1>4 DEF UpdateTransaction, TypeOK
  <2>. HIDE DEF new
  <2>5. row' \in [Rows -> Entry]
    BY <2>3, <2>4 DEF TypeOK
  <2>6. edited' \in BOOLEAN
    BY <1>4, Zenon DEF UpdateTransaction
  <2>7. entries' \in Nat
    <3>1. ByHand
      BY <1>4 DEF UpdateTransaction
    <3>. QED
      BY <3>1 DEF ByHand, TypeOK
  <2>8. UNCHANGED <<active, sale, soldAt, paidAt, now, h, contested, late>>
    BY <1>4 DEF UpdateTransaction, documents
  <2>. QED
    BY <2>5, <2>6, <2>7, <2>8 DEF TypeOK
<1>5. ASSUME NEW r \in Rows, DeleteTransaction(r) PROVE TypeOK'
  <2>1. row' \in [Rows -> Entry]
    BY <1>5 DEF DeleteTransaction, TypeOK, Entry
  <2>. QED
    BY <1>5, <2>1 DEF DeleteTransaction, ByHand, TypeOK, documents, history
<1>6. ASSUME NEW a \in Wallets, SetActive(a) PROVE TypeOK'
  BY <1>6 DEF SetActive, ByHand, TypeOK, documents, history
<1>7. CASE NextPeriod
  BY <1>7, CashBookAssumption DEF NextPeriod, TypeOK, history
<1>. QED
  BY <1>1, <1>2, <1>3, <1>4, <1>5, <1>6, <1>7

LEMMA NextType == TypeOK /\ KnownFirst /\ [Next]_vars => TypeOK'
<1>. SUFFICES ASSUME TypeOK, KnownFirst, [Next]_vars PROVE TypeOK'
  OBVIOUS
<1>1. CASE UNCHANGED vars
  BY <1>1 DEF vars, TypeOK
<1>2. CASE Next
  BY <1>2, RecordersType, RequestsType, LedgerType DEF Next, Session
<1>. QED
  BY <1>1, <1>2

LEMMA InitType == ASSUME Init PROVE TypeOK
<1>1. row \in [Rows -> Entry]
  BY DEF Init, Entry
<1>2. h \in [Sessions -> SessionState]
  BY IdleType DEF Init
<1>3. active \subseteq Wallets /\ now \in 1..Periods /\ entries \in Nat
  BY CashBookAssumption DEF Init
<1>4. /\ sale \in [Sales -> {"NONE", "LIVE", "CANCELLED"}]
      /\ soldAt \in [Sales -> 0..Periods] /\ paidAt \in [Payouts -> 0..Periods]
  BY CashBookAssumption DEF Init
<1>5. contested = {} /\ late = {} /\ edited \in BOOLEAN
  BY DEF Init
<1>. QED
  BY <1>1, <1>2, <1>3, <1>4, <1>5 DEF TypeOK

-----------------------------------------------------------------------------
(* The documents.  A step that starts nothing leaves every document with   *)
(* the rows it has, or fewer, unless it posts one that its session meant   *)
(* to post and no longer does.                                             *)
Dwindles(d) ==
  \/ RowsOf(d)' \subseteq RowsOf(d)
  \/ \E s \in Sessions, r \in Rows : /\ d \in Plans(h[s]) /\ d \notin Plans(h'[s])
                                    /\ RowsOf(d)' \subseteq RowsOf(d) \cup {r}
StartsNothing ==
  /\ \A t \in Sessions : Plans(h'[t]) \subseteq Plans(h[t])
  /\ \A d \in Documents : Dwindles(d)
  /\ UNCHANGED <<sale, soldAt, paidAt, contested, late>>

LEMMA StartsNothingKeeps ==
  ASSUME TypeOK, DocumentInv, StartsNothing
  PROVE  DocumentInv'
<1>1. ASSUME NEW d \in Documents, \A s \in Sessions : d \notin Plans(h[s])
      PROVE  /\ RowsOf(d)' \subseteq RowsOf(d)
             /\ \A s \in Sessions : d \notin Plans(h'[s])
  BY <1>1 DEF StartsNothing, Dwindles
<1>2. KnownFirst'
  BY <1>1 DEF KnownFirst, DocumentInv, StartsNothing, Documents
<1>3. CancelledIsClear'
  BY <1>1 DEF CancelledIsClear, DocumentInv, StartsNothing, Documents
<1>4. PlannedAlone'
  <2>. SUFFICES ASSUME NEW d \in Documents \ contested, NEW s \in Sessions, d \in Plans(h'[s])
                PROVE  RowsOf(d)' = {} /\ \A t \in Sessions : d \in Plans(h'[t]) => t = s
    BY DEF PlannedAlone, StartsNothing
  <2>1. d \in Plans(h[s])
    BY DEF StartsNothing
  <2>2. RowsOf(d) = {} /\ \A t \in Sessions : d \in Plans(h[t]) => t = s
    BY <2>1 DEF PlannedAlone, DocumentInv
  <2>. QED
    BY <2>2 DEF StartsNothing, Dwindles
<1>5. OneRow'
  <2>. SUFFICES ASSUME NEW d \in Documents \ contested, NEW q \in RowsOf(d)', NEW r \in RowsOf(d)'
                PROVE  q = r
    BY DEF OneRow, StartsNothing
  <2>1. CASE RowsOf(d)' \subseteq RowsOf(d)
    BY <2>1 DEF OneRow, DocumentInv
  <2>2. ASSUME NEW s \in Sessions, NEW e \in Rows, d \in Plans(h[s]),
               RowsOf(d)' \subseteq RowsOf(d) \cup {e}
        PROVE  q = r
    BY <2>2 DEF PlannedAlone, DocumentInv
  <2>. QED
    BY <2>1, <2>2 DEF StartsNothing, Dwindles
<1>. QED
  BY <1>2, <1>3, <1>4, <1>5 DEF DocumentInv

(* The rows of a document after a step, by what the step wrote.            *)
LEMMA PostedRows ==
  ASSUME TypeOK, NEW r \in Free, NEW type, NEW dir, NEW a, NEW amount, NEW at, NEW ref,
         Post(r, type, dir, a, amount, at, ref), NEW d
  PROVE  RowsOf(d)' \subseteq IF d = ref THEN RowsOf(d) \cup {r} ELSE RowsOf(d)
BY DEF Post, RowsOf, TypeOK, Free

LEMMA RunPlans ==
  ASSUME TypeOK, NEW s \in Sessions, NEW state, Run(s, state), NEW t \in Sessions
  PROVE  h'[t] = IF t = s THEN state ELSE h[t]
BY DEF Run, TypeOK

LEMMA PostingStartsNothing ==
  ASSUME TypeOK, NEW s \in Sessions, NEW d \in Plans(h[s]), NEW state, Run(s, state),
         Plans(state) \subseteq Plans(h[s]) \ {d}, NEW r \in Free,
         NEW type, NEW dir, NEW a, NEW amount, NEW at,
         Post(r, type, dir, a, amount, at, d),
         UNCHANGED <<sale, soldAt, paidAt, contested, late>>
  PROVE  StartsNothing
<1>1. \A t \in Sessions : Plans(h'[t]) \subseteq Plans(h[t])
  BY RunPlans
<1>2. ASSUME NEW e \in Documents PROVE Dwindles(e)
  <2>1. d \notin Plans(h'[s])
    BY RunPlans
  <2>2. r \in Rows
    BY DEF Free
  <2>3. RowsOf(e)' \subseteq IF e = d THEN RowsOf(e) \cup {r} ELSE RowsOf(e)
    BY PostedRows
  <2>. QED
    BY <2>1, <2>2, <2>3 DEF Dwindles
<1>. QED
  BY <1>1, <1>2 DEF StartsNothing

LEMMA QuietStartsNothing ==
  ASSUME NEW s \in Sessions, NEW state, TypeOK, Run(s, state), Plans(state) \subseteq Plans(h[s]),
         \A d \in Documents : RowsOf(d)' \subseteq RowsOf(d),
         UNCHANGED <<sale, soldAt, paidAt, contested, late>>
  PROVE  StartsNothing
BY RunPlans DEF StartsNothing, Dwindles

LEMMA PostsStartNothing ==
  ASSUME TypeOK, NEW s \in Sessions,
         RecordSaleIncome(s) \/ RecordCommissionPayment(s)
           \/ (\E x \in Sales : BackfillSale(s, x)) \/ (\E w \in Payouts : BackfillPayout(s, w))
  PROVE  StartsNothing
<1>1. CASE RecordSaleIncome(s)
  <2>. DEFINE x == h[s].ref
              a == SettlementAccount(x)
  <2>1. Plans(h[s]) = {x} /\ Plans(Idle) = {} /\ Run(s, Idle)
    BY <1>1, PlansByState, IdlePlansNothing DEF RecordSaleIncome
  <2>2. UNCHANGED <<sale, soldAt, paidAt, contested, late>>
    BY <1>1 DEF RecordSaleIncome, documents, history
  <2>3. CASE a = None
    <3>1. \A d \in Documents : RowsOf(d)' \subseteq RowsOf(d)
      BY <1>1, <2>3 DEF RecordSaleIncome, RowsOf
    <3>. QED
      BY <2>1, <2>2, <3>1, QuietStartsNothing
  <2>4. CASE a # None
    <3>1. PICK r \in Free : Post(r, "SETTLEMENT", "IN", a, Paid[x], soldAt[x], x)
      BY <1>1, <2>4 DEF RecordSaleIncome
    <3>2. x \in Plans(h[s]) /\ Plans(Idle) \subseteq Plans(h[s]) \ {x}
      BY <2>1
    <3>. HIDE DEF x, a
    <3>. QED
      BY <2>1, <2>2, <3>1, <3>2, PostingStartsNothing
  <2>. QED
    BY <2>3, <2>4
<1>2. CASE RecordCommissionPayment(s)
  <2>. DEFINE w == h[s].ref
  <2>1. Plans(h[s]) = {w} /\ Plans(Idle) = {} /\ Run(s, Idle)
    BY <1>2, PlansByState, IdlePlansNothing DEF RecordCommissionPayment
  <2>2. UNCHANGED <<sale, soldAt, paidAt, contested, late>>
    BY <1>2 DEF RecordCommissionPayment, documents, history
  <2>3. PICK r \in Free : Post(r, "COMMISSION_PAYMENT", "OUT", Record, 1, paidAt[w], w)
    BY <1>2 DEF RecordCommissionPayment
  <2>4. w \in Plans(h[s]) /\ Plans(Idle) \subseteq Plans(h[s]) \ {w}
    BY <2>1
  <2>. HIDE DEF w
  <2>. QED
    BY <2>1, <2>2, <2>3, <2>4, PostingStartsNothing
<1>3. ASSUME NEW x \in Sales, BackfillSale(s, x) PROVE StartsNothing
  <2>. DEFINE a == IF SettlementAccount(x) # None THEN SettlementAccount(x) ELSE h[s].default
              rest == [h[s] EXCEPT !.todo = @ \ {x}]
  <2>1. /\ h[s].pc = "sales" /\ x \in h[s].todo /\ Run(s, rest)
        /\ UNCHANGED <<sale, soldAt, paidAt, contested, late>>
    BY <1>3 DEF BackfillSale, documents, history
  <2>2. PICK r \in Free : Post(r, "SETTLEMENT", "IN", a, Total[x], soldAt[x], x)
    BY <1>3 DEF BackfillSale
  <2>3. rest.pc = h[s].pc /\ rest.todo = h[s].todo \ {x}
    BY <2>1, LessToDo
  <2>. HIDE DEF rest, a
  <2>4. x \in Plans(h[s]) /\ Plans(rest) \subseteq Plans(h[s]) \ {x}
    BY <2>1, <2>3, PlansByState
  <2>. QED
    BY <2>1, <2>2, <2>4, PostingStartsNothing
<1>4. ASSUME NEW w \in Payouts, BackfillPayout(s, w) PROVE StartsNothing
  <2>. DEFINE rest == [h[s] EXCEPT !.todo = @ \ {w}]
  <2>1. /\ h[s].pc = "payouts" /\ w \in h[s].todo /\ Run(s, rest)
        /\ UNCHANGED <<sale, soldAt, paidAt, contested, late>>
    BY <1>4 DEF BackfillPayout, documents, history
  <2>2. PICK r \in Free : Post(r, "COMMISSION_PAYMENT", "OUT", Record, 1, paidAt[w], w)
    BY <1>4 DEF BackfillPayout
  <2>3. rest.pc = h[s].pc /\ rest.todo = h[s].todo \ {w}
    BY <2>1, LessToDo
  <2>. HIDE DEF rest
  <2>4. w \in Plans(h[s]) /\ Plans(rest) \subseteq Plans(h[s]) \ {w}
    BY <2>1, <2>3, PlansByState
  <2>. QED
    BY <2>1, <2>2, <2>4, PostingStartsNothing
<1>. QED
  BY <1>1, <1>2, <1>3, <1>4

(* What is entered by hand, or moved between wallets, names no document.   *)
LEMMA NoneIsNoDocument == None \notin Documents /\ Rows \cap Documents = {}
BY CashBookAssumption DEF Documents

LEMMA OthersStartNothing ==
  ASSUME TypeOK,
         \/ \E s \in Sessions :
              \/ EndBackfill(s) \/ Crash(s) \/ WriteTransfer(s)
              \/ \E a, b \in Wallets, n \in Amounts : StartTransfer(s, a, b, n)
         \/ \E t \in Manual, a \in Wallets, n \in Amounts, p \in 1..Periods :
              RecordTransaction(t, a, n, p)
         \/ \E r \in Rows, a \in Wallets \cup {Record}, n \in 0..MaxAmount, p \in 1..Periods :
              UpdateTransaction(r, a, n, p)
         \/ \E r \in Rows : DeleteTransaction(r)
         \/ \E a \in Wallets : SetActive(a)
         \/ NextPeriod
  PROVE  StartsNothing
<1>0. Plans(Idle) = {}
  BY IdlePlansNothing
<1>1. ASSUME NEW s \in Sessions, EndBackfill(s) \/ Crash(s) PROVE StartsNothing
  <2>1. Run(s, Idle) /\ UNCHANGED <<sale, soldAt, paidAt, contested, late>>
    BY <1>1 DEF EndBackfill, Crash, documents, history
  <2>2. \A d \in Documents : RowsOf(d)' \subseteq RowsOf(d)
    BY <1>1 DEF EndBackfill, Crash, RowsOf
  <2>. QED
    BY <1>0, <2>1, <2>2, QuietStartsNothing
<1>2. ASSUME NEW s \in Sessions, WriteTransfer(s) PROVE StartsNothing
  <2>1. Run(s, Idle) /\ UNCHANGED <<sale, soldAt, paidAt, contested, late>>
    BY <1>2 DEF WriteTransfer, documents, history
  <2>2. \A d \in Documents : RowsOf(d)' \subseteq RowsOf(d)
    <3>1. PICK out \in Free, in \in Free :
           /\ out # in
           /\ row' = [r \in Rows |->
                CASE r = out -> [type |-> "TRANSFER", dir |-> "OUT", account |-> h[s].from,
                                 amount |-> h[s].amount, at |-> now, ref |-> None]
                  [] r = in -> [type |-> "TRANSFER", dir |-> "IN", account |-> h[s].to,
                                amount |-> h[s].amount, at |-> now, ref |-> out]
                  [] OTHER -> row[r]]
      BY <1>2, TransferWrites
    <3>2. out \in Rows
      BY DEF Free
    <3>3. ASSUME NEW r \in Rows PROVE row'[r].ref = row[r].ref \/ row'[r].ref \notin Documents
      BY <3>1, <3>2, NoneIsNoDocument
    <3>. QED
      BY <3>3 DEF RowsOf
  <2>. QED
    BY <1>0, <2>1, <2>2, QuietStartsNothing
<1>3. ASSUME NEW s \in Sessions, NEW a \in Wallets, NEW b \in Wallets, NEW n \in Amounts,
             StartTransfer(s, a, b, n)
      PROVE  StartsNothing
  <2>. DEFINE state == [pc |-> "transfer", from |-> a, to |-> b, amount |-> n]
  <2>1. Run(s, state) /\ UNCHANGED <<sale, soldAt, paidAt, contested, late>>
    BY <1>3 DEF StartTransfer, documents, history
  <2>2. \A d \in Documents : RowsOf(d)' \subseteq RowsOf(d)
    BY <1>3 DEF StartTransfer, RowsOf
  <2>3. state.pc = "transfer"
    OBVIOUS
  <2>. HIDE DEF state
  <2>4. Plans(state) = {}
    BY <2>3, PlansByState
  <2>. QED
    BY <2>1, <2>2, <2>4, QuietStartsNothing
<1>4. ASSUME \A d \in Documents : RowsOf(d)' \subseteq RowsOf(d),
             UNCHANGED <<sale, soldAt, paidAt, h, contested, late>>
      PROVE  StartsNothing
  BY <1>4 DEF StartsNothing, Dwindles
<1>5. ASSUME NEW t \in Manual, NEW a \in Wallets, NEW n \in Amounts, NEW p \in 1..Periods,
             RecordTransaction(t, a, n, p)
      PROVE  StartsNothing
  <2>1. PICK r \in Free : Post(r, t[1], t[2], a, n, p, None)
    BY <1>5 DEF RecordTransaction
  <2>2. \A d \in Documents : RowsOf(d)' \subseteq RowsOf(d)
    BY <2>1, PostedRows, NoneIsNoDocument
  <2>3. UNCHANGED <<sale, soldAt, paidAt, h, contested, late>>
    BY <1>5 DEF RecordTransaction, documents, history
  <2>. QED
    BY <1>4, <2>2, <2>3
<1>6. ASSUME NEW r \in Rows, NEW a \in Wallets \cup {Record}, NEW n \in 0..MaxAmount,
             NEW p \in 1..Periods, UpdateTransaction(r, a, n, p)
      PROVE  StartsNothing
  <2>1. \A d \in Documents : RowsOf(d)' \subseteq RowsOf(d)
    <3>. DEFINE new == [row[r] EXCEPT !.account = a, !.amount = n, !.at = p]
    <3>1. row' = [row EXCEPT ![r] = new]
      BY <1>6 DEF UpdateTransaction, TypeOK
    <3>2. new.ref = row[r].ref
      OBVIOUS
    <3>. HIDE DEF new
    <3>. QED
      BY <3>1, <3>2 DEF RowsOf, TypeOK
  <2>2. UNCHANGED <<sale, soldAt, paidAt, h, contested, late>>
    BY <1>6 DEF UpdateTransaction, documents
  <2>. QED
    BY <1>4, <2>1, <2>2
<1>7. ASSUME NEW r \in Rows, DeleteTransaction(r) PROVE StartsNothing
  <2>1. \A d \in Documents : RowsOf(d)' \subseteq RowsOf(d)
    BY <1>7, NoneIsNoDocument DEF DeleteTransaction, RowsOf, NoRow
  <2>2. UNCHANGED <<sale, soldAt, paidAt, h, contested, late>>
    BY <1>7 DEF DeleteTransaction, documents, history
  <2>. QED
    BY <1>4, <2>1, <2>2
<1>8. ASSUME (\E a \in Wallets : SetActive(a)) \/ NextPeriod PROVE StartsNothing
  <2>1. \A d \in Documents : RowsOf(d)' \subseteq RowsOf(d)
    BY <1>8 DEF SetActive, NextPeriod, RowsOf
  <2>2. UNCHANGED <<sale, soldAt, paidAt, h, contested, late>>
    BY <1>8 DEF SetActive, NextPeriod, documents, history
  <2>. QED
    BY <1>4, <2>1, <2>2
<1>. QED
  BY <1>1, <1>2, <1>3, <1>5, <1>6, <1>7, <1>8

(* A session that turns to documents without a row is alone with those     *)
(* nobody else means to post; the others are contested from now on.        *)
LEMMA TurningKeeps ==
  ASSUME TypeOK, DocumentInv, NEW s \in Sessions, NEW state, Run(s, state),
         UNCHANGED row, contested \subseteq contested',
         \A d \in Plans(state) : RowsOf(d) = {},
         \A d \in Plans(state), t \in Sessions \ {s} : d \in Plans(h[t]) => d \in contested'
  PROVE  PlannedAlone' /\ OneRow'
<1>1. \A t \in Sessions : h'[t] = IF t = s THEN state ELSE h[t]
  BY RunPlans
<1>2. \A d : RowsOf(d)' = RowsOf(d)
  BY DEF RowsOf
<1>3. OneRow'
  BY <1>2 DEF OneRow, DocumentInv
<1>4. PlannedAlone'
  <2>. SUFFICES ASSUME NEW d \in Documents \ contested', NEW u \in Sessions, d \in Plans(h'[u])
                PROVE  RowsOf(d) = {} /\ \A t \in Sessions : d \in Plans(h'[t]) => t = u
    BY <1>2 DEF PlannedAlone
  <2>1. CASE u = s
    BY <1>1, <2>1
  <2>2. CASE u # s
    BY <1>1, <2>2 DEF PlannedAlone, DocumentInv
  <2>. QED
    BY <2>1, <2>2
<1>. QED
  BY <1>3, <1>4

LEMMA MakeSaleKeeps ==
  ASSUME TypeOK, DocumentInv, NEW s \in Sessions, NEW x \in Sales, MakeSale(s, x)
  PROVE  DocumentInv'
<1>. DEFINE state == IF Paid[x] > 0 THEN [pc |-> "income", ref |-> x] ELSE Idle
<1>1. /\ h[s] = Idle /\ sale[x] = "NONE"
      /\ sale' = [sale EXCEPT ![x] = "LIVE"] /\ soldAt' = [soldAt EXCEPT ![x] = now]
      /\ Run(s, state) /\ UNCHANGED <<row, paidAt, contested, late>>
  BY DEF MakeSale, history
<1>2. [pc |-> "income", ref |-> x].pc = "income" /\ [pc |-> "income", ref |-> x].ref = x
  OBVIOUS
<1>3. Plans(state) \subseteq {x}
  BY <1>2, PlansByState, IdlePlansNothing
<1>. HIDE DEF state
<1>4. \A t \in Sessions : h'[t] = IF t = s THEN state ELSE h[t]
  BY <1>1, RunPlans
<1>5. \A d : RowsOf(d)' = RowsOf(d)
  BY <1>1 DEF RowsOf
<1>6. RowsOf(x) = {} /\ \A t \in Sessions : x \notin Plans(h[t])
  BY <1>1 DEF DocumentInv, KnownFirst
<1>7. PlannedAlone' /\ OneRow'
  BY <1>1, <1>3, <1>6, TurningKeeps
<1>8. KnownFirst'
  <2>1. now > 0 /\ x \notin Payouts
    BY CashBookAssumption DEF TypeOK
  <2>2. ASSUME NEW w \in Payouts PROVE x # w
    BY <2>1
  <2>3. ASSUME NEW y \in Sales, sale'[y] = "NONE"
        PROVE  RowsOf(y)' = {} /\ \A t \in Sessions : y \notin Plans(h'[t])
    <3>1. y # x /\ sale[y] = "NONE"
      BY <1>1, <2>3 DEF TypeOK
    <3>. QED
      BY <1>3, <1>4, <1>5, <3>1 DEF DocumentInv, KnownFirst
  <2>4. ASSUME NEW w \in Payouts, paidAt'[w] = 0
        PROVE  RowsOf(w)' = {} /\ \A t \in Sessions : w \notin Plans(h'[t])
    BY <1>1, <1>3, <1>4, <1>5, <2>2, <2>4 DEF DocumentInv, KnownFirst
  <2>5. \A y \in Sales : sale'[y] # "NONE" => soldAt'[y] > 0
    BY <1>1, <2>1 DEF DocumentInv, KnownFirst, TypeOK
  <2>. QED
    BY <2>3, <2>4, <2>5 DEF KnownFirst
<1>9. CancelledIsClear'
  <2>. SUFFICES ASSUME NEW y \in Sales \ late, sale'[y] = "CANCELLED"
                PROVE  RowsOf(y)' = {} /\ \A t \in Sessions : y \notin Plans(h'[t])
    BY <1>1 DEF CancelledIsClear
  <2>1. y # x /\ sale[y] = "CANCELLED"
    BY <1>1 DEF TypeOK
  <2>. QED
    BY <1>3, <1>4, <1>5, <2>1 DEF DocumentInv, CancelledIsClear
<1>. QED
  BY <1>7, <1>8, <1>9 DEF DocumentInv

LEMMA PayWithdrawalKeeps ==
  ASSUME TypeOK, DocumentInv, NEW s \in Sessions, NEW w \in Payouts, PayWithdrawal(s, w)
  PROVE  DocumentInv'
<1>. DEFINE state == [pc |-> "payout", ref |-> w]
<1>1. /\ h[s] = Idle /\ paidAt[w] = 0 /\ paidAt' = [paidAt EXCEPT ![w] = now]
      /\ Run(s, state) /\ UNCHANGED <<row, sale, soldAt, contested, late>>
  BY DEF PayWithdrawal, history
<1>2. state.pc = "payout" /\ state.ref = w
  OBVIOUS
<1>. HIDE DEF state
<1>3. Plans(state) = {w}
  BY <1>2, PlansByState
<1>4. \A t \in Sessions : h'[t] = IF t = s THEN state ELSE h[t]
  BY <1>1, RunPlans
<1>5. \A d : RowsOf(d)' = RowsOf(d)
  BY <1>1 DEF RowsOf
<1>6. RowsOf(w) = {} /\ \A t \in Sessions : w \notin Plans(h[t])
  BY <1>1 DEF DocumentInv, KnownFirst
<1>7. PlannedAlone' /\ OneRow'
  BY <1>1, <1>3, <1>6, TurningKeeps
<1>8. \A x \in Sales : x # w
  BY CashBookAssumption
<1>9. KnownFirst'
  <2>1. ASSUME NEW v \in Payouts, paidAt'[v] = 0
        PROVE  RowsOf(v)' = {} /\ \A t \in Sessions : v \notin Plans(h'[t])
    <3>1. v # w /\ paidAt[v] = 0
      BY <1>1, <2>1 DEF TypeOK
    <3>. QED
      BY <1>3, <1>4, <1>5, <3>1 DEF DocumentInv, KnownFirst
  <2>. QED
    BY <1>1, <1>3, <1>4, <1>5, <1>8, <2>1 DEF DocumentInv, KnownFirst
<1>10. CancelledIsClear'
  BY <1>1, <1>3, <1>4, <1>5, <1>8 DEF DocumentInv, CancelledIsClear
<1>. QED
  BY <1>7, <1>9, <1>10 DEF DocumentInv

(* A listing finds what has no row. *)
LEMMA ListingKeeps ==
  ASSUME TypeOK, DocumentInv, NEW s \in Sessions, NEW docs, NEW state,
         Plans(state) = Missing(docs), Run(s, state), Contests(s, Missing(docs)),
         \A x \in Sales : x \in docs => sale[x] = "LIVE",
         \A w \in Payouts : w \in docs => paidAt[w] > 0,
         UNCHANGED <<row, sale, soldAt, paidAt, late>>
  PROVE  DocumentInv'
<1>1. \A t \in Sessions : h'[t] = IF t = s THEN state ELSE h[t]
  BY RunPlans
<1>2. \A d : RowsOf(d)' = RowsOf(d)
  BY DEF RowsOf
<1>3. Plans(state) \subseteq docs /\ \A d \in Plans(state) : RowsOf(d) = {}
  BY DEF Missing
<1>4. contested \subseteq contested'
  BY DEF Contests
<1>5. \A d \in Plans(state), t \in Sessions \ {s} : d \in Plans(h[t]) => d \in contested'
  BY DEF Contests
<1>6. PlannedAlone' /\ OneRow'
  BY <1>3, <1>4, <1>5, TurningKeeps
<1>7. KnownFirst'
  BY <1>1, <1>2, <1>3 DEF DocumentInv, KnownFirst, TypeOK
<1>8. CancelledIsClear'
  BY <1>1, <1>2, <1>3 DEF DocumentInv, CancelledIsClear
<1>. QED
  BY <1>6, <1>7, <1>8 DEF DocumentInv

LEMMA BackfillListsKeep ==
  ASSUME TypeOK, DocumentInv, NEW s \in Sessions, StartBackfill(s) \/ ListPayouts(s)
  PROVE  DocumentInv'
<1>1. CASE StartBackfill(s)
  <2>. DEFINE live == {x \in Sales : sale[x] = "LIVE"}
              state == [pc |-> "sales", todo |-> Missing(live), listed |-> live,
                        default |-> DefaultAccount]
  <2>1. /\ Run(s, state) /\ Contests(s, Missing(live))
        /\ UNCHANGED <<row, sale, soldAt, paidAt, late>>
    BY <1>1 DEF StartBackfill, documents
  <2>2. state.pc = "sales" /\ state.todo = Missing(live)
    OBVIOUS
  <2>3. /\ \A x \in Sales : x \in live => sale[x] = "LIVE"
        /\ \A w \in Payouts : w \in live => paidAt[w] > 0
    BY CashBookAssumption
  <2>. HIDE DEF state, live
  <2>4. Plans(state) = Missing(live)
    BY <2>2, PlansByState
  <2>. QED
    BY <2>1, <2>3, <2>4, ListingKeeps
<1>2. CASE ListPayouts(s)
  <2>. DEFINE paid == {w \in Payouts : paidAt[w] > 0}
              state == [pc |-> "payouts", todo |-> Missing(paid), listed |-> h[s].listed \cup paid]
  <2>1. /\ Run(s, state) /\ Contests(s, Missing(paid))
        /\ UNCHANGED <<row, sale, soldAt, paidAt, late>>
    BY <1>2 DEF ListPayouts, documents
  <2>2. state.pc = "payouts" /\ state.todo = Missing(paid)
    OBVIOUS
  <2>3. /\ \A x \in Sales : x \in paid => sale[x] = "LIVE"
        /\ \A w \in Payouts : w \in paid => paidAt[w] > 0
    BY CashBookAssumption
  <2>. HIDE DEF state, paid
  <2>4. Plans(state) = Missing(paid)
    BY <2>2, PlansByState
  <2>. QED
    BY <2>1, <2>3, <2>4, ListingKeeps
<1>. QED
  BY <1>1, <1>2

(* A cancellation takes the rows of its sale, money in like all of them.   *)
LEMMA CancelSaleKeeps ==
  ASSUME TypeOK, DocumentInv, NEW x \in Sales, CancelSale(x)
  PROVE  DocumentInv'
<1>1. /\ sale[x] = "LIVE" /\ row' = Reversed(x) /\ sale' = [sale EXCEPT ![x] = "CANCELLED"]
      /\ UNCHANGED <<soldAt, paidAt, h, contested>>
      /\ late' = IF \E s \in Sessions : x \in Plans(h[s]) THEN late \cup {x} ELSE late
  BY DEF CancelSale
<1>2. \A d \in Documents : RowsOf(d)' \subseteq RowsOf(d)
  BY <1>1, NoneIsNoDocument DEF Reversed, RowsOf, NoRow
<1>3. RowsOf(x)' = {}
  <2>1. \A r \in Rows : row[r].ref = x => row[r].dir = "IN"
    BY EntryKinds
  <2>. QED
    BY <1>1, <2>1, CashBookAssumption DEF Reversed, RowsOf, NoRow
<1>4. KnownFirst'
  BY <1>1, <1>2 DEF DocumentInv, KnownFirst, TypeOK, Documents
<1>5. PlannedAlone' /\ OneRow'
  BY <1>1, <1>2 DEF DocumentInv, PlannedAlone, OneRow
<1>6. CancelledIsClear'
  <2>. SUFFICES ASSUME NEW y \in Sales \ late', sale'[y] = "CANCELLED"
                PROVE  RowsOf(y)' = {} /\ \A s \in Sessions : y \notin Plans(h[s])
    BY <1>1 DEF CancelledIsClear
  <2>1. CASE y = x
    BY <1>1, <1>3, <2>1
  <2>2. CASE y # x
    BY <1>1, <1>2, <2>2 DEF DocumentInv, CancelledIsClear, TypeOK, Documents
  <2>. QED
    BY <2>1, <2>2
<1>. QED
  BY <1>4, <1>5, <1>6 DEF DocumentInv

LEMMA NextDocuments == TypeOK /\ DocumentInv /\ [Next]_vars => DocumentInv'
<1>. SUFFICES ASSUME TypeOK, DocumentInv, [Next]_vars PROVE DocumentInv'
  OBVIOUS
<1>1. CASE UNCHANGED vars
  BY <1>1 DEF vars, DocumentInv, KnownFirst, PlannedAlone, OneRow, CancelledIsClear, RowsOf
<1>2. CASE Next
  BY <1>2, PostsStartNothing, OthersStartNothing, StartsNothingKeeps, MakeSaleKeeps,
     PayWithdrawalKeeps, BackfillListsKeep, CancelSaleKeeps
  DEF Next, Session
<1>. QED
  BY <1>1, <1>2

LEMMA InitDocuments == Init => DocumentInv
BY IdlePlansNothing, NoneIsNoDocument
DEF Init, DocumentInv, KnownFirst, PlannedAlone, OneRow, CancelledIsClear, RowsOf, NoRow, Documents

LEMMA DocumentsHold == Spec => [](TypeOK /\ DocumentInv)
<1>1. Init => TypeOK /\ DocumentInv
  BY InitType, InitDocuments
<1>2. TypeOK /\ DocumentInv /\ [Next]_vars => (TypeOK /\ DocumentInv)'
  BY NextType, NextDocuments DEF DocumentInv
<1>. QED
  BY <1>1, <1>2, PTL DEF Spec

(* Whatever recorders and backfills run at once, die half way or are       *)
(* repeated, for any number of them: a document has at most one row unless *)
(* two of them meant to post it, and a cancelled sale has none unless one  *)
(* still meant to post it when it was cancelled.                           *)
THEOREM DocumentsAreMirroredOnce == Spec => []Mirrored
<1>1. TypeOK /\ DocumentInv => Mirrored
  <2>. SUFFICES ASSUME TypeOK, DocumentInv PROVE Mirrored
    OBVIOUS
  <2>1. ASSUME NEW d \in Documents \ contested PROVE Cardinality(RowsOf(d)) <= 1
    <3>1. CASE RowsOf(d) = {}
      BY <3>1, FS_EmptySet
    <3>2. ASSUME NEW r \in RowsOf(d) PROVE Cardinality(RowsOf(d)) = 1
      <4>1. RowsOf(d) = {r}
        BY DEF DocumentInv, OneRow
      <4>. QED
        BY <4>1, FS_Singleton
    <3>. QED
      BY <3>1, <3>2
  <2>2. ASSUME NEW x \in Sales \ late, sale[x] # "LIVE" PROVE RowsOf(x) = {}
    BY <2>2 DEF TypeOK, DocumentInv, KnownFirst, CancelledIsClear
  <2>. QED
    BY <2>1, <2>2 DEF Mirrored, Documents
<1>. QED
  BY <1>1, DocumentsHold, PTL

-----------------------------------------------------------------------------
(* The legs of transfers.  A row that refers to another is a leg of money  *)
(* in, what it refers to is the leg of money out it came from, and no      *)
(* other leg came from there: whatever is written, edited or deleted, legs *)
(* come and go in pairs.                                                   *)
Leg(r, dir) == row[r].type = "TRANSFER" /\ row[r].dir = dir

ComesFrom(r, o) == Leg(o, "OUT") /\ (row[o].amount = row[r].amount \/ edited)
LegsPair ==
  \A r \in Rows :
    /\ Leg(r, "IN") => ComesFrom(r, row[r].ref)
    /\ Leg(r, "OUT") => \E q \in Rows : RowsOf(r) = {q}

LEMMA LegKinds ==
  ASSUME TypeOK, NEW r \in Rows
  PROVE  /\ row[r].ref \in Rows <=> Leg(r, "IN")
         /\ row[r].type = "TRANSFER" => Leg(r, "IN") \/ Leg(r, "OUT")
         /\ Leg(r, "OUT") => row[r].ref = None
         /\ row[r].type = "TRANSFER" => row[r].account \in Wallets
         /\ row[r].ref \in Documents => row[r].type \in {"SETTLEMENT", "COMMISSION_PAYMENT"}
<1>1. row[r] \in Entry
  BY DEF TypeOK
<1>. QED
  BY <1>1, CashBookAssumption DEF Entry, NoRow, Leg, Documents

(* A step that writes no leg keeps the pairs. *)
LEMMA LegsUntouched ==
  ASSUME TypeOK, TypeOK', LegsPair, edited => edited',
         \A r \in Rows : "TRANSFER" \in {row[r].type, row'[r].type} => row'[r] = row[r]
  PROVE  LegsPair'
<1>1. \A r \in Rows : row[r].type = "TRANSFER" <=> row'[r].type = "TRANSFER"
  OBVIOUS
<1>2. ASSUME NEW r \in Rows PROVE RowsOf(r)' = RowsOf(r)
  <2>1. \A q \in Rows : row[q].ref = r => row[q].type = "TRANSFER"
    BY LegKinds DEF Leg
  <2>2. \A q \in Rows : row'[q].ref = r => row'[q].type = "TRANSFER"
    <3>1. ASSUME NEW q \in Rows, row'[q].ref = r PROVE row'[q].type = "TRANSFER"
      <4>1. row'[q] \in Entry
        BY DEF TypeOK
      <4>. QED
        BY <3>1, <4>1, CashBookAssumption DEF Entry, NoRow
    <3>. QED
      BY <3>1
  <2>. QED
    BY <2>1, <2>2 DEF RowsOf
<1>3. ASSUME NEW r \in Rows, Leg(r, "IN")' PROVE ComesFrom(r, row[r].ref)'
  <2>1. row'[r] = row[r] /\ Leg(r, "IN")
    BY <1>1, <1>3 DEF Leg
  <2>2. row[r].ref \in Rows /\ Leg(row[r].ref, "OUT")
    BY <2>1, LegKinds DEF LegsPair, ComesFrom
  <2>3. row'[row[r].ref] = row[row[r].ref]
    BY <2>2 DEF Leg
  <2>. QED
    BY <2>1, <2>2, <2>3 DEF LegsPair, ComesFrom, Leg
<1>4. ASSUME NEW r \in Rows, Leg(r, "OUT")' PROVE \E q \in Rows : RowsOf(r)' = {q}
  <2>1. Leg(r, "OUT")
    BY <1>1, <1>4 DEF Leg
  <2>. QED
    BY <1>2, <2>1 DEF LegsPair
<1>. QED
  BY <1>3, <1>4 DEF LegsPair

(* The recorders, the backfill and the form write one row where there was  *)
(* none, and it is no leg.                                                 *)
Writes(r, ref) ==
  /\ \A q \in Rows \ {r} : row'[q] = row[q]
  /\ row'[r].type # "TRANSFER" /\ row'[r].ref = ref

LEMMA PostWrites ==
  ASSUME TypeOK, NEW r \in Free, NEW type, type # "TRANSFER", NEW dir, NEW a, NEW amount,
         NEW at, NEW ref, Post(r, type, dir, a, amount, at, ref)
  PROVE  Writes(r, ref)
BY DEF Post, TypeOK, Free, Writes

LEMMA StepsWrite ==
  ASSUME TypeOK
  PROVE  /\ \A s \in Sessions : RecordSaleIncome(s) =>
              row' = row \/ \E r \in Free : Writes(r, h[s].ref)
         /\ \A s \in Sessions : RecordCommissionPayment(s) =>
              \E r \in Free : Writes(r, h[s].ref)
         /\ \A s \in Sessions, x \in Sales : BackfillSale(s, x) =>
              \E r \in Free : Writes(r, x)
         /\ \A s \in Sessions, w \in Payouts : BackfillPayout(s, w) =>
              \E r \in Free : Writes(r, w)
         /\ \A t \in Manual, a \in Wallets, n \in Amounts, p \in 1..Periods :
              RecordTransaction(t, a, n, p) => \E r \in Free : Writes(r, None)
<1>1. ASSUME NEW s \in Sessions, RecordSaleIncome(s), row' # row
      PROVE  \E r \in Free : Writes(r, h[s].ref)
  <2>. DEFINE x == h[s].ref
              a == SettlementAccount(x)
  <2>1. PICK r \in Free : Post(r, "SETTLEMENT", "IN", a, Paid[x], soldAt[x], x)
    BY <1>1 DEF RecordSaleIncome
  <2>. HIDE DEF x, a
  <2>2. Writes(r, x)
    BY <2>1, PostWrites
  <2>. QED
    BY <2>2 DEF x
<1>2. ASSUME NEW s \in Sessions, RecordCommissionPayment(s)
      PROVE  \E r \in Free : Writes(r, h[s].ref)
  <2>. DEFINE w == h[s].ref
  <2>1. PICK r \in Free : Post(r, "COMMISSION_PAYMENT", "OUT", Record, 1, paidAt[w], w)
    BY <1>2 DEF RecordCommissionPayment
  <2>. HIDE DEF w
  <2>2. Writes(r, w)
    BY <2>1, PostWrites
  <2>. QED
    BY <2>2 DEF w
<1>3. ASSUME NEW s \in Sessions, NEW x \in Sales, BackfillSale(s, x)
      PROVE  \E r \in Free : Writes(r, x)
  <2>. DEFINE a == IF SettlementAccount(x) # None THEN SettlementAccount(x) ELSE h[s].default
  <2>1. PICK r \in Free : Post(r, "SETTLEMENT", "IN", a, Total[x], soldAt[x], x)
    BY <1>3 DEF BackfillSale
  <2>. HIDE DEF a
  <2>. QED
    BY <2>1, PostWrites
<1>4. ASSUME NEW s \in Sessions, NEW w \in Payouts, BackfillPayout(s, w)
      PROVE  \E r \in Free : Writes(r, w)
  <2>1. PICK r \in Free : Post(r, "COMMISSION_PAYMENT", "OUT", Record, 1, paidAt[w], w)
    BY <1>4 DEF BackfillPayout
  <2>. QED
    BY <2>1, PostWrites
<1>5. ASSUME NEW t \in Manual, NEW a \in Wallets, NEW n \in Amounts, NEW p \in 1..Periods,
             RecordTransaction(t, a, n, p)
      PROVE  \E r \in Free : Writes(r, None)
  <2>1. PICK r \in Free : Post(r, t[1], t[2], a, n, p, None)
    BY <1>5 DEF RecordTransaction
  <2>2. t[1] # "TRANSFER"
    BY DEF Manual
  <2>. QED
    BY <2>1, <2>2, PostWrites
<1>. QED
  BY <1>1, <1>2, <1>3, <1>4, <1>5

(* A row that is written alone leaves the legs and the documents' rows.    *)
LEMMA WritesKeep ==
  ASSUME TypeOK, TypeOK', LegsPair, NEW ref, NEW r \in Free, Writes(r, ref), edited' = edited
  PROVE  /\ LegsPair'
         /\ \A d \in Documents : RowsOf(d) \subseteq RowsOf(d)'
         /\ r \in RowsOf(ref)'
<1>1. r \in Rows /\ row[r] = NoRow
  BY EntryKinds DEF Free
<1>2. LegsPair'
  BY <1>1, LegsUntouched DEF Writes, NoRow
<1>3. \A d \in Documents : RowsOf(d) \subseteq RowsOf(d)'
  BY <1>1, NoneIsNoDocument DEF Writes, RowsOf, NoRow
<1>4. r \in RowsOf(ref)'
  BY <1>1 DEF Writes, RowsOf
<1>. QED
  BY <1>2, <1>3, <1>4

(* Both legs are written at once, in rows that nothing refers to. *)
LEMMA WriteTransferKeeps ==
  ASSUME TypeOK, LegsPair, NEW s \in Sessions, WriteTransfer(s)
  PROVE  /\ LegsPair'
         /\ \A d \in Documents : RowsOf(d) \subseteq RowsOf(d)'
<1>1. PICK out \in Free, in \in Free :
        /\ out # in
        /\ row' = [r \in Rows |->
             CASE r = out -> [type |-> "TRANSFER", dir |-> "OUT", account |-> h[s].from,
                              amount |-> h[s].amount, at |-> now, ref |-> None]
               [] r = in -> [type |-> "TRANSFER", dir |-> "IN", account |-> h[s].to,
                             amount |-> h[s].amount, at |-> now, ref |-> out]
               [] OTHER -> row[r]]
  BY TransferWrites
<1>2. out \in Rows /\ in \in Rows /\ row[out] = NoRow /\ row[in] = NoRow
  BY EntryKinds DEF Free
<1>3. /\ \A r \in Rows \ {out, in} : row'[r] = row[r]
      /\ Leg(out, "OUT")' /\ row'[out].ref = None /\ row'[out].amount = h[s].amount
      /\ Leg(in, "IN")' /\ row'[in].ref = out /\ row'[in].amount = h[s].amount
      /\ ~Leg(out, "IN")' /\ ~Leg(in, "OUT")'
  BY <1>1, <1>2 DEF Leg
<1>. HIDE DEF Leg
<1>4. \A r \in Rows : row[r].ref \notin {out, in}
  BY <1>2, LegKinds DEF LegsPair, ComesFrom, Leg, NoRow
<1>5. edited' = edited
  BY DEF WriteTransfer, history
<1>6. ASSUME NEW r \in Rows, Leg(r, "IN")'
      PROVE  ComesFrom(r, row[r].ref)'
  <2>1. CASE r = in
    BY <1>3, <2>1 DEF ComesFrom
  <2>2. CASE r # in
    <3>1. r # out
      BY <1>3, <1>6
    <3>2. row'[r] = row[r] /\ Leg(r, "IN")
      BY <1>3, <1>6, <2>2, <3>1 DEF Leg
    <3>3. row[r].ref \in Rows \ {out, in}
      BY <1>4, <3>2, LegKinds
    <3>4. row'[row[r].ref] = row[row[r].ref]
      BY <1>3, <3>3
    <3>. QED
      BY <1>5, <3>2, <3>4 DEF LegsPair, ComesFrom, Leg
  <2>. QED
    BY <2>1, <2>2
<1>7. ASSUME NEW r \in Rows, Leg(r, "OUT")' PROVE \E q \in Rows : RowsOf(r)' = {q}
  <2>1. CASE r = out
    <3>1. RowsOf(out)' = {in}
      BY <1>2, <1>3, <1>4, CashBookAssumption DEF RowsOf
    <3>. QED
      BY <1>2, <2>1, <3>1
  <2>2. CASE r # out
    <3>1. r # in
      BY <1>3, <1>7
    <3>2. Leg(r, "OUT")
      BY <1>3, <1>7, <2>2, <3>1 DEF Leg
    <3>3. RowsOf(r)' = RowsOf(r)
      BY <1>2, <1>3, <2>2, CashBookAssumption DEF RowsOf, NoRow
    <3>. QED
      BY <3>2, <3>3 DEF LegsPair
  <2>. QED
    BY <2>1, <2>2
<1>8. LegsPair'
  BY <1>6, <1>7 DEF LegsPair
<1>9. \A d \in Documents : RowsOf(d) \subseteq RowsOf(d)'
  BY <1>2, <1>3, NoneIsNoDocument DEF RowsOf, NoRow
<1>. QED
  BY <1>8, <1>9

(* An edit changes no reference. *)
LEMMA UpdateKeeps ==
  ASSUME TypeOK, LegsPair, NEW r \in Rows, NEW a, NEW n, NEW p, UpdateTransaction(r, a, n, p)
  PROVE  /\ LegsPair'
         /\ \A d \in Documents : RowsOf(d) \subseteq RowsOf(d)'
<1>. DEFINE new == [row[r] EXCEPT !.account = a, !.amount = n, !.at = p]
<1>1. row' = [row EXCEPT ![r] = new]
  BY DEF UpdateTransaction, TypeOK
<1>2. row[r] \in Entry
  BY DEF TypeOK
<1>3. new.type = row[r].type /\ new.dir = row[r].dir /\ new.ref = row[r].ref /\ new.amount = n
  BY <1>2 DEF Entry, NoRow
<1>. HIDE DEF new
<1>4. /\ \A q \in Rows : /\ row'[q].type = row[q].type /\ row'[q].dir = row[q].dir
                         /\ row'[q].ref = row[q].ref
      /\ \A q \in Rows \ {r} : row'[q].amount = row[q].amount
      /\ row'[r].amount = n
  BY <1>1, <1>3 DEF TypeOK
<1>5. \A d : RowsOf(d)' = RowsOf(d)
  BY <1>4 DEF RowsOf
<1>6. /\ edited => edited'
      /\ row[r].type = "TRANSFER" /\ n # row[r].amount => edited'
  BY DEF UpdateTransaction
<1>7. \A q \in Rows, dir \in {"IN", "OUT"} : Leg(q, dir)' <=> Leg(q, dir)
  BY <1>4 DEF Leg
<1>8. ASSUME NEW q \in Rows, Leg(q, "IN")'
      PROVE  ComesFrom(q, row[q].ref)'
  <2>0. PICK o \in Rows : o = row[q].ref
    BY <1>7, <1>8, LegKinds
  <2>1. Leg(q, "IN") /\ row[q].ref = o /\ row'[q].ref = o
    BY <1>4, <1>7, <1>8, <2>0
  <2>2. Leg(o, "OUT") /\ (row[o].amount = row[q].amount \/ edited)
    BY <2>1 DEF LegsPair, ComesFrom
  <2>3. Leg(o, "OUT")'
    BY <1>7, <2>1, <2>2
  <2>4. row'[o].amount = row'[q].amount \/ edited'
    BY <1>4, <1>6, <2>1, <2>2 DEF Leg
  <2>. QED
    BY <2>1, <2>3, <2>4 DEF ComesFrom
<1>9. \A q \in Rows : Leg(q, "OUT")' => \E e \in Rows : RowsOf(q)' = {e}
  BY <1>5, <1>7 DEF LegsPair
<1>. QED
  BY <1>5, <1>8, <1>9 DEF LegsPair

(* A cancellation takes rows of its sale, which are no legs. *)
LEMMA CancelSaleLegs ==
  ASSUME TypeOK, TypeOK', LegsPair, NEW x \in Sales, CancelSale(x)
  PROVE  /\ LegsPair'
         /\ \A d \in Documents \ {x} : RowsOf(d) \subseteq RowsOf(d)'
         /\ sale'[x] = "CANCELLED"
<1>1. row' = Reversed(x) /\ edited' = edited
  BY DEF CancelSale
<1>2. \A r \in Rows : row[r].ref = x => row[r].type # "TRANSFER"
  BY EntryKinds
<1>3. \A r \in Rows : "TRANSFER" \in {row[r].type, row'[r].type} => row'[r] = row[r]
  BY <1>1, <1>2 DEF Reversed, NoRow
<1>4. LegsPair'
  BY <1>1, <1>3, LegsUntouched
<1>5. \A d \in Documents \ {x} : RowsOf(d) \subseteq RowsOf(d)'
  BY <1>1 DEF Reversed, RowsOf
<1>. QED
  BY <1>4, <1>5 DEF CancelSale, TypeOK

(* A deletion takes a row of no document, and a leg with its other leg.    *)
LEMMA DeleteKeeps ==
  ASSUME TypeOK, LegsPair, NEW r \in Rows, DeleteTransaction(r)
  PROVE  /\ LegsPair'
         /\ \A d \in Documents : RowsOf(d) \subseteq RowsOf(d)'
<1>1. /\ row' = [q \in Rows |-> IF q \in Legs(r) THEN NoRow ELSE row[q]]
      /\ row[r].type \notin {"NONE", "SETTLEMENT", "COMMISSION_PAYMENT"} /\ edited' = edited
  BY DEF DeleteTransaction, Deletable, history
<1>2. \A q \in Rows : q \in Legs(r) => row[q].ref \notin Documents
  <2>1. ASSUME NEW q \in Rows, q \in Legs(r), q # r PROVE row[q].type = "TRANSFER"
    <3>1. row[q].ref = r \/ (q = row[r].ref /\ row[r].type = "TRANSFER")
      BY <2>1 DEF Legs, RowsOf
    <3>. QED
      BY <2>1, <3>1, LegKinds DEF LegsPair, ComesFrom, Leg
  <2>2. \A q \in Rows : q \in Legs(r) => row[q].type \notin {"SETTLEMENT", "COMMISSION_PAYMENT"}
    BY <1>1, <2>1
  <2>. QED
    BY <2>2, LegKinds
<1>3. \A d \in Documents : RowsOf(d) \subseteq RowsOf(d)'
  BY <1>1, <1>2 DEF RowsOf
(* The legs that stay refer to legs that stay. *)
<1>4. ASSUME NEW q \in Rows, Leg(q, "IN"), q \in Legs(r) \/ row[q].ref \in Legs(r)
      PROVE  q \in Legs(r) /\ row[q].ref \in Legs(r)
  <2>. DEFINE o == row[q].ref
  <2>1. o \in Rows /\ Leg(o, "OUT") /\ o # q
    BY <1>4, LegKinds DEF LegsPair, ComesFrom, Leg
  <2>2. RowsOf(o) = {q}
    <3>1. PICK e \in Rows : RowsOf(o) = {e}
      BY <2>1 DEF LegsPair
    <3>2. q \in RowsOf(o)
      BY DEF RowsOf
    <3>. QED
      BY <3>1, <3>2
  <2>3. q = r \/ o = r
    <3>1. ASSUME NEW e \in Rows, e \in Legs(r), e # r
          PROVE  (row[e].ref = r /\ Leg(e, "IN")) \/ (e = row[r].ref /\ Leg(r, "IN") /\ RowsOf(e) = {r})
      <4>1. CASE row[e].ref = r
        BY <4>1, LegKinds
      <4>2. CASE e = row[r].ref
        <5>1. Leg(r, "IN")
          BY <4>2, LegKinds
        <5>2. Leg(e, "OUT")
          BY <4>2, <5>1 DEF LegsPair, ComesFrom
        <5>3. PICK i \in Rows : RowsOf(e) = {i}
          BY <5>2 DEF LegsPair
        <5>4. r \in RowsOf(e)
          BY <4>2 DEF RowsOf
        <5>. QED
          BY <4>2, <5>1, <5>3, <5>4
      <4>. QED
        BY <3>1, <4>1, <4>2 DEF Legs, RowsOf
    <3>2. CASE q \in Legs(r) /\ q # r
      <4>1. ~(q = row[r].ref /\ Leg(r, "IN"))
        BY <1>4 DEF LegsPair, ComesFrom, Leg
      <4>. QED
        BY <3>1, <3>2, <4>1
    <3>3. CASE o \in Legs(r) /\ o # r
      <4>1. ~Leg(o, "IN")
        BY <2>1 DEF Leg
      <4>2. RowsOf(o) = {r}
        BY <2>1, <3>1, <3>3, <4>1
      <4>. QED
        BY <2>2, <4>2
    <3>. QED
      BY <1>4, <3>2, <3>3
  <2>4. CASE q = r
    BY <1>4, <2>4 DEF Legs, Leg
  <2>5. CASE o = r
    <3>1. row[r].type = "TRANSFER"
      BY <2>1, <2>5 DEF Leg
    <3>. QED
      BY <2>2, <2>5, <3>1 DEF Legs
  <2>. QED
    BY <2>3, <2>4, <2>5
<1>5. \A q \in Rows : row'[q].type = "TRANSFER" => q \notin Legs(r) /\ row'[q] = row[q]
  BY <1>1 DEF NoRow
<1>6. ASSUME NEW q \in Rows, Leg(q, "IN")'
      PROVE  ComesFrom(q, row[q].ref)'
  <2>. DEFINE o == row[q].ref
  <2>1. row'[q] = row[q] /\ Leg(q, "IN") /\ q \notin Legs(r) /\ o \in Rows
    BY <1>5, <1>6, LegKinds DEF Leg
  <2>2. o \notin Legs(r)
    BY <1>4, <2>1
  <2>3. row'[o] = row[o]
    BY <1>1, <2>1, <2>2
  <2>. QED
    BY <1>1, <2>1, <2>3 DEF LegsPair, ComesFrom, Leg
<1>7. ASSUME NEW q \in Rows, Leg(q, "OUT")' PROVE \E e \in Rows : RowsOf(q)' = {e}
  <2>1. Leg(q, "OUT") /\ q \notin Legs(r)
    BY <1>5, <1>7 DEF Leg
  <2>2. PICK e \in Rows : RowsOf(q) = {e}
    BY <2>1 DEF LegsPair
  <2>3. row[e].ref = q
    BY <2>2 DEF RowsOf
  <2>4. e \notin Legs(r)
    BY <1>4, <2>1, <2>3, LegKinds
  <2>5. RowsOf(q)' = {e}
    BY <1>1, <2>2, <2>4, CashBookAssumption DEF RowsOf, NoRow
  <2>. QED
    BY <2>5
<1>8. LegsPair'
  BY <1>6, <1>7 DEF LegsPair
<1>. QED
  BY <1>3, <1>8

(* Every step keeps the legs in pairs, and no step but a cancellation      *)
(* takes a row from a document.                                            *)
LEMMA NextLegs ==
  ASSUME TypeOK, KnownFirst, LegsPair, [Next]_vars
  PROVE  /\ LegsPair'
         /\ \A d \in Documents : RowsOf(d) \subseteq RowsOf(d)' \/ (d \in Sales /\ sale'[d] = "CANCELLED")
<1>0. TypeOK'
  BY NextType
<1>1. ASSUME UNCHANGED <<row, edited>>
      PROVE  LegsPair' /\ \A d \in Documents : RowsOf(d) \subseteq RowsOf(d)'
  BY <1>1 DEF LegsPair, ComesFrom, Leg, RowsOf
<1>2. ASSUME NEW s \in Sessions, RecordSaleIncome(s) \/ RecordCommissionPayment(s)
      PROVE  LegsPair' /\ \A d \in Documents : RowsOf(d) \subseteq RowsOf(d)'
  <2>1. edited' = edited
    BY <1>2 DEF RecordSaleIncome, RecordCommissionPayment, history
  <2>2. row' = row \/ \E r \in Free : Writes(r, h[s].ref)
    BY <1>2, StepsWrite
  <2>. QED
    BY <1>0, <1>1, <2>1, <2>2, WritesKeep
<1>3. ASSUME NEW s \in Sessions, NEW x \in Sales, BackfillSale(s, x)
      PROVE  LegsPair' /\ \A d \in Documents : RowsOf(d) \subseteq RowsOf(d)'
  <2>1. edited' = edited
    BY <1>3 DEF BackfillSale, history
  <2>. QED
    BY <1>0, <1>3, <2>1, StepsWrite, WritesKeep
<1>4. ASSUME NEW s \in Sessions, NEW w \in Payouts, BackfillPayout(s, w)
      PROVE  LegsPair' /\ \A d \in Documents : RowsOf(d) \subseteq RowsOf(d)'
  <2>1. edited' = edited
    BY <1>4 DEF BackfillPayout, history
  <2>. QED
    BY <1>0, <1>4, <2>1, StepsWrite, WritesKeep
<1>5. ASSUME NEW t \in Manual, NEW a \in Wallets, NEW n \in Amounts, NEW p \in 1..Periods,
             RecordTransaction(t, a, n, p)
      PROVE  LegsPair' /\ \A d \in Documents : RowsOf(d) \subseteq RowsOf(d)'
  <2>1. edited' = edited
    BY <1>5 DEF RecordTransaction, history
  <2>. QED
    BY <1>0, <1>5, <2>1, StepsWrite, WritesKeep
<1>6. ASSUME \/ \E s \in Sessions :
                  \/ \E x \in Sales : MakeSale(s, x)
                  \/ \E w \in Payouts : PayWithdrawal(s, w)
                  \/ StartBackfill(s) \/ ListPayouts(s) \/ EndBackfill(s) \/ Crash(s)
                  \/ \E a, b \in Wallets, n \in Amounts : StartTransfer(s, a, b, n)
             \/ \E a \in Wallets : SetActive(a)
             \/ NextPeriod
      PROVE  LegsPair' /\ \A d \in Documents : RowsOf(d) \subseteq RowsOf(d)'
  <2>1. UNCHANGED <<row, edited>>
    BY <1>6 DEF MakeSale, PayWithdrawal, StartBackfill, ListPayouts, EndBackfill, Crash,
       StartTransfer, SetActive, NextPeriod, history
  <2>. QED
    BY <1>1, <2>1
<1>7. CASE UNCHANGED vars
  BY <1>1, <1>7 DEF vars
<1>8. ASSUME NEW x \in Sales, CancelSale(x)
      PROVE  /\ LegsPair' /\ sale'[x] = "CANCELLED"
             /\ \A d \in Documents \ {x} : RowsOf(d) \subseteq RowsOf(d)'
  BY <1>0, <1>8, CancelSaleLegs
<1>9. CASE Next
  BY <1>2, <1>3, <1>4, <1>5, <1>6, <1>8, <1>9, WriteTransferKeeps, UpdateKeeps, DeleteKeeps
  DEF Next, Session
<1>. QED
  BY <1>7, <1>9

-----------------------------------------------------------------------------
(* A backfill loses no document it listed.  Each is still to be posted,    *)
(* has a row, or is a cancelled sale.                                      *)
Settled(d) == RowsOf(d) # {} \/ (d \in Sales /\ sale[d] = "CANCELLED")

Tracked ==
  \A s \in Sessions : h[s].pc \in {"sales", "payouts"} =>
    \A d \in h[s].listed : d \in h[s].todo \/ Settled(d)

LEMMA CancelledForGood ==
  ASSUME TypeOK, [Next]_vars, NEW x \in Sales, sale[x] = "CANCELLED"
  PROVE  sale'[x] = "CANCELLED"
<1>1. CASE UNCHANGED sale
  BY <1>1
<1>2. ASSUME NEW s \in Sessions, NEW y \in Sales, MakeSale(s, y) PROVE sale'[x] = "CANCELLED"
  BY <1>2 DEF MakeSale, TypeOK
<1>3. ASSUME NEW y \in Sales, CancelSale(y) PROVE sale'[x] = "CANCELLED"
  BY <1>3 DEF CancelSale, TypeOK
<1>4. ASSUME \/ \E s \in Sessions :
                  \/ \E w \in Payouts : PayWithdrawal(s, w) \/ BackfillPayout(s, w)
                  \/ \E y \in Sales : BackfillSale(s, y)
                  \/ RecordSaleIncome(s) \/ RecordCommissionPayment(s)
                  \/ StartBackfill(s) \/ ListPayouts(s) \/ EndBackfill(s) \/ Crash(s)
                  \/ \E a, b \in Wallets, n \in Amounts : StartTransfer(s, a, b, n)
                  \/ WriteTransfer(s)
             \/ \E t \in Manual, a \in Wallets, n \in Amounts, p \in 1..Periods :
                  RecordTransaction(t, a, n, p)
             \/ \E r \in Rows, a \in Wallets \cup {Record}, n \in 0..MaxAmount, p \in 1..Periods :
                  UpdateTransaction(r, a, n, p)
             \/ \E r \in Rows : DeleteTransaction(r)
             \/ \E a \in Wallets : SetActive(a)
             \/ NextPeriod
      PROVE  UNCHANGED sale
  BY <1>4 DEF PayWithdrawal, BackfillPayout, BackfillSale, RecordSaleIncome,
     RecordCommissionPayment, StartBackfill, ListPayouts, EndBackfill, Crash, StartTransfer,
     WriteTransfer, RecordTransaction, UpdateTransaction, DeleteTransaction, SetActive,
     NextPeriod, documents
<1>. QED
  BY <1>1, <1>2, <1>3, <1>4 DEF Next, Session, vars

LEMMA SettledStays ==
  ASSUME TypeOK, KnownFirst, LegsPair, [Next]_vars, NEW d \in Documents, Settled(d)
  PROVE  Settled(d)'
<1>1. CASE d \in Sales /\ sale[d] = "CANCELLED"
  BY <1>1, CancelledForGood DEF Settled
<1>2. CASE RowsOf(d) # {}
  BY <1>2, NextLegs DEF Settled
<1>. QED
  BY <1>1, <1>2 DEF Settled

(* Only its own steps turn a session into a backfill or change its lists.  *)
LEMMA BackfillSteps ==
  ASSUME TypeOK, [Next]_vars, NEW s \in Sessions, h'[s].pc \in {"sales", "payouts"}
  PROVE  \/ h'[s] = h[s]
         \/ StartBackfill(s) \/ ListPayouts(s)
         \/ \E d \in Documents : BackfillSale(s, d) \/ BackfillPayout(s, d)
<1>1. CASE UNCHANGED h
  BY <1>1
<1>2. ASSUME NEW t \in Sessions, Session(t) PROVE t # s => h'[s] = h[s]
  BY <1>2 DEF Session, MakeSale, PayWithdrawal, BackfillPayout, BackfillSale, RecordSaleIncome,
     RecordCommissionPayment, StartBackfill, ListPayouts, EndBackfill, Crash, StartTransfer,
     WriteTransfer, Run, TypeOK
<1>3. ASSUME NEW state, Run(s, state), state.pc \notin {"sales", "payouts"} PROVE FALSE
  BY <1>3, RunPlans
<1>4. ASSUME \/ \E x \in Sales : MakeSale(s, x)
             \/ \E w \in Payouts : PayWithdrawal(s, w)
             \/ RecordSaleIncome(s) \/ RecordCommissionPayment(s)
             \/ EndBackfill(s) \/ Crash(s) \/ WriteTransfer(s)
             \/ \E a, b \in Wallets, n \in Amounts : StartTransfer(s, a, b, n)
      PROVE  FALSE
  <2>1. ASSUME Run(s, Idle) PROVE FALSE
    BY <1>3, <2>1, IdlePlansNothing
  <2>2. ASSUME NEW x \in Sales, MakeSale(s, x) PROVE FALSE
    <3>1. Run(s, IF Paid[x] > 0 THEN [pc |-> "income", ref |-> x] ELSE Idle)
      BY <2>2 DEF MakeSale
    <3>2. Run(s, [pc |-> "income", ref |-> x])
      BY <2>1, <3>1
    <3>. QED
      BY <1>3, <3>2
  <2>3. ASSUME NEW w \in Payouts, PayWithdrawal(s, w) PROVE FALSE
    <3>1. Run(s, [pc |-> "payout", ref |-> w])
      BY <2>3 DEF PayWithdrawal
    <3>. QED
      BY <1>3, <3>1
  <2>4. ASSUME NEW a \in Wallets, NEW b \in Wallets, NEW n \in Amounts, StartTransfer(s, a, b, n)
        PROVE  FALSE
    <3>1. Run(s, [pc |-> "transfer", from |-> a, to |-> b, amount |-> n])
      BY <2>4 DEF StartTransfer
    <3>. QED
      BY <1>3, <3>1
  <2>. QED
    BY <1>4, <2>1, <2>2, <2>3, <2>4 DEF RecordSaleIncome, RecordCommissionPayment,
       EndBackfill, Crash, WriteTransfer
<1>5. ASSUME NEW t \in Sessions, Session(t) PROVE \/ h'[s] = h[s]
         \/ StartBackfill(s) \/ ListPayouts(s)
         \/ \E d \in Documents : BackfillSale(s, d) \/ BackfillPayout(s, d)
  <2>1. CASE t # s
    BY <1>2, <1>5, <2>1
  <2>2. CASE t = s
    BY <1>4, <1>5, <2>2 DEF Session, Documents
  <2>. QED
    BY <2>1, <2>2
<1>6. ASSUME \/ \E x \in Sales : CancelSale(x)
             \/ \E t \in Manual, a \in Wallets, n \in Amounts, p \in 1..Periods :
                  RecordTransaction(t, a, n, p)
             \/ \E r \in Rows, a \in Wallets \cup {Record}, n \in 0..MaxAmount, p \in 1..Periods :
                  UpdateTransaction(r, a, n, p)
             \/ \E r \in Rows : DeleteTransaction(r)
             \/ \E a \in Wallets : SetActive(a)
             \/ NextPeriod
      PROVE  UNCHANGED h
  BY <1>6 DEF CancelSale, RecordTransaction, UpdateTransaction, DeleteTransaction, SetActive,
     NextPeriod
<1>. QED
  BY <1>1, <1>5, <1>6 DEF Next, vars

LEMMA NextTracked ==
  ASSUME TypeOK, KnownFirst, LegsPair, Tracked, [Next]_vars
  PROVE  Tracked'
<1>. SUFFICES ASSUME NEW s \in Sessions, h'[s].pc \in {"sales", "payouts"},
                     NEW d \in h'[s].listed
              PROVE  d \in h'[s].todo \/ Settled(d)'
  BY DEF Tracked
<1>0. TypeOK'
  BY NextType
<1>1. d \in Documents
  <2>1. h'[s] \in SessionState
    BY <1>0 DEF TypeOK
  <2>. QED
    BY <2>1 DEF SessionState, Idle, Documents
<1>2. ASSUME h[s].pc \in {"sales", "payouts"}, d \in h[s].listed
      PROVE  d \in h[s].todo \/ Settled(d)'
  <2>1. d \in h[s].todo \/ Settled(d)
    BY <1>2 DEF Tracked
  <2>. QED
    BY <1>1, <2>1, SettledStays
<1>3. CASE h'[s] = h[s]
  BY <1>2, <1>3
<1>4. CASE StartBackfill(s)
  <2>. DEFINE live == {x \in Sales : sale[x] = "LIVE"}
              state == [pc |-> "sales", todo |-> Missing(live), listed |-> live,
                        default |-> DefaultAccount]
  <2>1. Run(s, state) /\ row' = row
    BY <1>4 DEF StartBackfill
  <2>2. state.todo = Missing(live) /\ state.listed = live
    OBVIOUS
  <2>. HIDE DEF state, live
  <2>3. h'[s] = state
    BY <2>1, RunPlans
  <2>4. d \in live => d \in Missing(live) \/ RowsOf(d) # {}
    BY DEF Missing
  <2>5. RowsOf(d)' = RowsOf(d)
    BY <2>1 DEF RowsOf
  <2>. QED
    BY <2>2, <2>3, <2>4, <2>5 DEF Settled
<1>5. CASE ListPayouts(s)
  <2>. DEFINE paid == {w \in Payouts : paidAt[w] > 0}
              state == [pc |-> "payouts", todo |-> Missing(paid), listed |-> h[s].listed \cup paid]
  <2>1. Run(s, state) /\ row' = row /\ h[s].pc = "sales" /\ h[s].todo = {}
    BY <1>5 DEF ListPayouts
  <2>2. state.todo = Missing(paid) /\ state.listed = h[s].listed \cup paid
    OBVIOUS
  <2>. HIDE DEF state, paid
  <2>3. h'[s] = state
    BY <2>1, RunPlans
  <2>4. d \in paid => d \in Missing(paid) \/ RowsOf(d) # {}
    BY DEF Missing
  <2>5. RowsOf(d)' = RowsOf(d)
    BY <2>1 DEF RowsOf
  <2>6. d \in h[s].listed => Settled(d)'
    BY <1>2, <2>1
  <2>. QED
    BY <2>2, <2>3, <2>4, <2>5, <2>6 DEF Settled
<1>6. ASSUME NEW e \in Documents, BackfillSale(s, e) \/ BackfillPayout(s, e)
      PROVE  d \in h'[s].todo \/ Settled(d)'
  <2>. DEFINE rest == [h[s] EXCEPT !.todo = @ \ {e}]
  <2>1. Run(s, rest) /\ h[s].pc \in {"sales", "payouts"} /\ e \in h[s].todo /\ edited' = edited
    BY <1>6 DEF BackfillSale, BackfillPayout, history
  <2>2. rest.listed = h[s].listed /\ rest.todo = h[s].todo \ {e}
    BY <2>1, LessToDo
  <2>. HIDE DEF rest
  <2>3. h'[s] = rest
    BY <2>1, RunPlans
  <2>4. e \in Sales \/ e \in Payouts
    BY DEF Documents
  <2>5. BackfillSale(s, e) => e \in Sales
    BY <2>1, StateOfSession DEF BackfillSale
  <2>6. BackfillPayout(s, e) => e \in Payouts
    BY <2>1, StateOfSession DEF BackfillPayout
  <2>7. \E r \in Free : Writes(r, e)
    BY <1>6, <2>5, <2>6, StepsWrite
  <2>8. RowsOf(e)' # {}
    BY <1>0, <2>1, <2>7, WritesKeep
  <2>. QED
    BY <1>2, <2>1, <2>2, <2>3, <2>8 DEF Settled
<1>. QED
  BY <1>3, <1>4, <1>5, <1>6, BackfillSteps

BookInv == TypeOK /\ DocumentInv /\ LegsPair /\ Tracked

LEMMA BookHolds == Spec => []BookInv
<1>1. Init => BookInv
  <2>1. Init => LegsPair /\ Tracked
    BY IdlePlansNothing DEF Init, LegsPair, Leg, NoRow, Tracked
  <2>. QED
    BY <2>1, InitType, InitDocuments DEF BookInv
<1>2. BookInv /\ [Next]_vars => BookInv'
  BY NextType, NextDocuments, NextLegs, NextTracked DEF BookInv, DocumentInv
<1>. QED
  BY <1>1, <1>2, PTL DEF Spec

(* A backfill that runs to its end leaves a row for every payout and every *)
(* sale it listed that was not cancelled, however many recorders, other    *)
(* backfills, edits and deletions ran in between.                          *)
THEOREM BackfillLeavesNoGap == Spec => BackfillCompletes
<1>1. BookInv /\ [Next]_vars =>
        [\A s \in Sessions : EndBackfill(s) =>
           \A d \in h[s].listed :
             RowsOf(d) # {} \/ (d \in Sales /\ sale[d] = "CANCELLED")]_vars
  <2>. SUFFICES ASSUME BookInv, NEW s \in Sessions, EndBackfill(s), NEW d \in h[s].listed
                PROVE  RowsOf(d) # {} \/ (d \in Sales /\ sale[d] = "CANCELLED")
    OBVIOUS
  <2>. QED
    BY DEF EndBackfill, BookInv, Tracked, Settled
<1>. QED
  BY <1>1, BookHolds, PTL DEF Spec, BackfillCompletes

-----------------------------------------------------------------------------
(* Sums over the ledger. *)
Amount == [r \in Rows |-> row[r].amount]

LEMMA NetIsInt ==
  ASSUME TypeOK, NEW S \in SUBSET Rows
  PROVE  /\ IsFiniteSet(S) /\ Sum(S) \in Int /\ Net(S) \in Int
         /\ \A r \in S : Amount[r] \in Int
<1>1. \A r \in Rows : Amount[r] \in Int
  BY EntryKinds DEF Amount
<1>2. \A T \in SUBSET S : IsFiniteSet(T)
  BY CashBookAssumption, FS_Subset
<1>3. ASSUME NEW T \in SUBSET S PROVE Sum(T) \in Int
  BY <1>1, <1>2, SumIsInt DEF Sum, Amount
<1>. QED
  BY <1>1, <1>2, <1>3 DEF Net

LEMMA NetOfNothing == Net({}) = 0
<1>1. {r \in {} : row[r].dir = "IN"} = {} /\ {r \in {} : row[r].dir = "OUT"} = {}
  OBVIOUS
<1>. QED
  BY <1>1, SumOfNothing DEF Net, Sum

(* The net of some rows is that of a part of them and that of the rest.    *)
LEMMA NetOfParts ==
  ASSUME TypeOK, NEW S \in SUBSET Rows, NEW A \in SUBSET S
  PROVE  Net(S) = Net(A) + Net(S \ A)
<1>. DEFINE Of(T, dir) == {r \in T : row[r].dir = dir}
<1>1. ASSUME NEW dir PROVE Sum(Of(S, dir)) = Sum(Of(A, dir)) + Sum(Of(S \ A, dir))
  <2>1. Of(A, dir) \in SUBSET Of(S, dir) /\ Of(S, dir) \ Of(A, dir) = Of(S \ A, dir)
        /\ Of(S, dir) \in SUBSET Rows
    OBVIOUS
  <2>. HIDE DEF Of
  <2>2. IsFiniteSet(Of(S, dir)) /\ \A r \in Of(S, dir) : Amount[r] \in Int
    BY <2>1, NetIsInt
  <2>3. SumFunctionOnSet(Amount, Of(S, dir))
          = SumFunctionOnSet(Amount, Of(A, dir)) + SumFunctionOnSet(Amount, Of(S, dir) \ Of(A, dir))
    BY <2>1, <2>2, SumOfParts
  <2>. QED
    BY <2>1, <2>3 DEF Sum, Amount
<1>2. \A T \in SUBSET S, dir \in {"IN", "OUT"} : Sum(Of(T, dir)) \in Int
  BY NetIsInt
<1>3. \A T : Net(T) = Sum(Of(T, "IN")) - Sum(Of(T, "OUT"))
  BY DEF Net
<1>4. S \ A \in SUBSET S
  OBVIOUS
<1>. HIDE DEF Of
<1>5. /\ Sum(Of(A, "IN")) \in Int /\ Sum(Of(A, "OUT")) \in Int
      /\ Sum(Of(S \ A, "IN")) \in Int /\ Sum(Of(S \ A, "OUT")) \in Int
  BY <1>2, <1>4
<1>6. /\ Sum(Of(S, "IN")) = Sum(Of(A, "IN")) + Sum(Of(S \ A, "IN"))
      /\ Sum(Of(S, "OUT")) = Sum(Of(A, "OUT")) + Sum(Of(S \ A, "OUT"))
  BY <1>1
<1>. QED
  BY <1>3, <1>5, <1>6

(* The balances of some wallets add up to what they opened with and the    *)
(* net of their rows.                                                      *)
RowsOn(T) == {r \in Rows : row[r].account \in T}

LEMMA BalancesAddUp ==
  ASSUME TypeOK, NEW A \in SUBSET Wallets
  PROVE  SumFunction([a \in A |-> Balance(a)]) = SumFunctionOnSet(Opening, A) + Net(RowsOn(A))
<1>. DEFINE Balances(T) == [a \in T |-> Balance(a)]
            P == {T \in SUBSET A : SumFunction(Balances(T)) = SumFunctionOnSet(Opening, T) + Net(RowsOn(T))}
<1>0. IsFiniteSet(A) /\ \A a \in A : Opening[a] \in Int
  <2>1. IsFiniteSet(Wallets) /\ Opening \in [Wallets -> Nat]
    BY CashBookAssumption
  <2>2. IsFiniteSet(A)
    BY <2>1, FS_Subset
  <2>. QED
    BY <2>1, <2>2
<1>1. \A a : Balance(a) = Opening[a] + Net(RowsOn({a}))
  <2>1. \A a : {r \in Rows : row[r].account = a} = RowsOn({a})
    BY DEF RowsOn
  <2>. QED
    BY <2>1 DEF Balance
<1>2. \A a \in A : Balance(a) \in Int /\ Net(RowsOn({a})) \in Int
  <2>1. \A a : Net(RowsOn({a})) \in Int
    BY NetIsInt DEF RowsOn
  <2>. SUFFICES ASSUME NEW a \in A PROVE Balance(a) \in Int /\ Net(RowsOn({a})) \in Int
    OBVIOUS
  <2>2. Opening[a] \in Int /\ Net(RowsOn({a})) \in Int
    BY <1>0, <2>1
  <2>3. Balance(a) = Opening[a] + Net(RowsOn({a}))
    BY <1>1
  <2>. QED
    BY <2>2, <2>3
<1>3. ASSUME NEW T \in SUBSET A, \A U \in SUBSET T : U # T => U \in P
      PROVE  T \in P
  <2>0. IsFiniteSet(T)
    BY <1>0, FS_Subset
  <2>1. CASE T = {}
    <3>1. RowsOn(T) = {} /\ DOMAIN Balances(T) = {}
      BY <2>1 DEF RowsOn
    <3>2. SumFunction(Balances(T)) = 0
      <4>. HIDE DEF Balances
      <4>. QED
        BY <3>1, SumFunctionOfNothing
    <3>3. SumFunctionOnSet(Opening, T) = 0 /\ Net(RowsOn(T)) = 0
      BY <2>1, <3>1, SumOfNothing, NetOfNothing
    <3>. QED
      BY <3>2, <3>3
  <2>2. CASE T # {}
    <3>1. PICK y \in T : TRUE
      BY <2>2
    <3>. DEFINE W == T \ {y}
    <3>2. W \in SUBSET T /\ W # T /\ W \in P /\ y \in A /\ IsFiniteSet(W)
      BY <1>3, <2>0, <3>1, FS_Subset
    <3>3. SumFunction(Balances(W)) = SumFunctionOnSet(Opening, W) + Net(RowsOn(W))
      BY <3>2
    <3>4. SumFunctionOnSet(Opening, T) = Opening[y] + SumFunctionOnSet(Opening, W)
      BY <1>0, <2>0, <3>1, SumOfOneMore
    <3>5. SumFunction(Balances(T)) = Balance(y) + SumFunction(Balances(W))
      <4>. DEFINE f == Balances(T)  g == Balances(W)
      <4>1. DOMAIN f = T /\ DOMAIN g = W /\ f[y] = Balance(y) /\ \A a \in W : f[a] = g[a]
        OBVIOUS
      <4>2. \A a \in T : f[a] \in Int
        BY <1>2
      <4>. HIDE DEF f, g
      <4>3. SumFunctionOnSet(f, T) = f[y] + SumFunctionOnSet(f, W)
        BY <2>0, <3>1, <4>2, SumOfOneMore
      <4>4. SumFunctionOnSet(f, W) = SumFunctionOnSet(g, W)
        BY <3>2, <4>1, SumOfSame
      <4>5. SumFunction(f) = Balance(y) + SumFunction(g)
        BY <4>1, <4>3, <4>4 DEF SumFunction
      <4>. QED
        BY <4>5 DEF f, g
    <3>6. Net(RowsOn(T)) = Net(RowsOn({y})) + Net(RowsOn(W))
      <4>1. /\ RowsOn(T) \in SUBSET Rows /\ RowsOn({y}) \in SUBSET RowsOn(T)
            /\ RowsOn(T) \ RowsOn({y}) = RowsOn(W)
        BY <3>1 DEF RowsOn
      <4>. QED
        BY <4>1, NetOfParts
    <3>7. /\ SumFunctionOnSet(Opening, W) \in Int /\ Net(RowsOn(W)) \in Int
          /\ Net(RowsOn({y})) \in Int /\ Opening[y] \in Int
      <4>1. Net(RowsOn(W)) \in Int
        BY NetIsInt DEF RowsOn
      <4>2. SumFunctionOnSet(Opening, W) \in Int
        BY <1>0, <3>2, SumIsInt
      <4>. QED
        BY <1>0, <1>2, <3>2, <4>1, <4>2
    <3>8. SumFunction(Balances(T)) = SumFunctionOnSet(Opening, T) + Net(RowsOn(T))
      <4>1. Balance(y) = Opening[y] + Net(RowsOn({y}))
        BY <1>1
      <4>. HIDE DEF Balances, W
      <4>. QED
        BY <3>3, <3>4, <3>5, <3>6, <3>7, <4>1
    <3>. QED
      BY <3>8
  <2>. QED
    BY <2>1, <2>2
<1>. HIDE DEF P
<1>4. A \in P
  BY <1>0, <1>3, SubsetInduction
<1>. QED
  BY <1>4 DEF P

-----------------------------------------------------------------------------
(* The rows on the active wallets, told apart as a statement from period p *)
(* on tells them apart: what the business traded before and since, what    *)
(* the owner moved before and since, and the transfers.                    *)
OwnMoney == {"OWNER_CONTRIBUTION", "OWNER_DRAWING"}
Traded(from, to) == {r \in Booked(from, to) : row[r].type \notin NonTrade}
Owned(from, to) == {r \in Booked(from, to) : row[r].type \in OwnMoney}
Moved == {r \in Rows : row[r].type = "TRANSFER" /\ row[r].account \in active}

LEMMA EntryByUse ==
  ASSUME TypeOK, NEW r \in Rows
  PROVE  /\ row[r].type \in {"NONE", "COMMISSION_PAYMENT"} <=> row[r].account \notin Wallets
         /\ row[r].account \in Wallets \cup {Record}
         /\ row[r].type = "NONE" => row[r].at = 0
         /\ row[r].type # "NONE" => row[r].at \in 1..Periods
         /\ row[r].type \in NonTrade <=>
              row[r].type \in OwnMoney \cup {"TRANSFER", "COMMISSION_PAYMENT"}
<1>1. row[r] \in Entry
  BY DEF TypeOK
<1>2. Record \notin Wallets
  BY CashBookAssumption DEF Record
<1>. QED
  BY <1>1, <1>2 DEF Entry, NoRow, OwnMoney, NonTrade

LEMMA RowsByUse ==
  ASSUME TypeOK, NEW p \in 1..Periods
  PROVE  /\ \A from \in {1, p}, to \in {p - 1, Periods} :
              Traded(from, to) \subseteq RowsOn(active) /\ Owned(from, to) \subseteq RowsOn(active)
         /\ Moved \subseteq RowsOn(active)
         /\ Owned(p, Periods) = (((RowsOn(active) \ Moved) \ Traded(1, p - 1))
                                   \ Traded(p, Periods)) \ Owned(1, p - 1)
         /\ Traded(1, p - 1) \cap Moved = {}
         /\ Traded(p, Periods) \cap (Moved \cup Traded(1, p - 1)) = {}
         /\ Owned(1, p - 1) \cap (Moved \cup Traded(1, p - 1) \cup Traded(p, Periods)) = {}
<1>0. active \subseteq Wallets /\ Record \notin Wallets /\ p \in Int /\ Periods \in Int /\ p <= Periods /\ 1 <= p
  BY CashBookAssumption DEF TypeOK, Record
<1>1. ASSUME NEW r \in Rows, NEW from \in {1, p}, NEW to \in {p - 1, Periods}
      PROVE  /\ r \in Traded(from, to) <=>
                  row[r].account \in active /\ row[r].at \in from..to
                    /\ row[r].type \notin {"TRANSFER"} \cup OwnMoney
             /\ r \in Owned(from, to) <=>
                  row[r].account \in active /\ row[r].at \in from..to /\ row[r].type \in OwnMoney
  <2>1. row[r].at \in from..to => row[r].type # "NONE"
    BY <1>0, EntryByUse
  <2>2. row[r].account \in active \cup {Record} /\ row[r].type \notin {"NONE", "COMMISSION_PAYMENT"}
          => row[r].account \in active
    BY <1>0, EntryByUse
  <2>3. row[r].account \in active => row[r].type \notin {"NONE", "COMMISSION_PAYMENT"}
    BY <1>0, EntryByUse
  <2>4. "COMMISSION_PAYMENT" \notin OwnMoney /\ "NONE" \notin OwnMoney
    BY DEF OwnMoney
  <2>5. row[r].type \in NonTrade <=> row[r].type \in OwnMoney \cup {"TRANSFER", "COMMISSION_PAYMENT"}
    BY EntryByUse
  <2>. QED
    BY <2>1, <2>2, <2>3, <2>4, <2>5 DEF Traded, Owned, Booked
<1>2. ASSUME NEW r \in RowsOn(active)
      PROVE  row[r].at \in Int /\ (row[r].at \in 1..(p - 1) \/ row[r].at \in p..Periods)
                /\ ~(row[r].at \in 1..(p - 1) /\ row[r].at \in p..Periods)
  <2>1. row[r].at \in 1..Periods
    BY <1>0, EntryByUse DEF RowsOn
  <2>. QED
    BY <1>0, <2>1
<1>3. "TRANSFER" \notin OwnMoney
  BY DEF OwnMoney
<1>4. \A from, to : Traded(from, to) \subseteq Rows /\ Owned(from, to) \subseteq Rows
  BY DEF Traded, Owned, Booked
<1>5. Moved \subseteq RowsOn(active) /\ RowsOn(active) \subseteq Rows
  BY DEF Moved, RowsOn
<1>6. \A from \in {1, p}, to \in {p - 1, Periods} :
        Traded(from, to) \subseteq RowsOn(active) /\ Owned(from, to) \subseteq RowsOn(active)
  BY <1>1, <1>4 DEF RowsOn
<1>7. ASSUME NEW r \in RowsOn(active)
      PROVE  /\ r \in Moved <=> row[r].type = "TRANSFER"
             /\ r \in Traded(1, p - 1) <=> row[r].at \in 1..(p - 1) /\ row[r].type \notin {"TRANSFER"} \cup OwnMoney
             /\ r \in Traded(p, Periods) <=> row[r].at \in p..Periods /\ row[r].type \notin {"TRANSFER"} \cup OwnMoney
             /\ r \in Owned(1, p - 1) <=> row[r].at \in 1..(p - 1) /\ row[r].type \in OwnMoney
             /\ r \in Owned(p, Periods) <=> row[r].at \in p..Periods /\ row[r].type \in OwnMoney
  BY <1>1 DEF RowsOn, Moved
<1>. HIDE DEF RowsOn
<1>. QED
  BY <1>2, <1>3, <1>5, <1>6, <1>7

(* What a statement says and leaves out adds up to the cash there is.      *)
LEMMA ClosingAddsUp ==
  ASSUME TypeOK, NEW p \in 1..Periods
  PROVE  ClosingBalance(p) + OwnerMovement(1, p - 1) + TransferNet = Cash
<1>. DEFINE On == RowsOn(active)
            S1 == On \ Moved
            S2 == S1 \ Traded(1, p - 1)
            S3 == S2 \ Traded(p, Periods)
<1>1. /\ Moved \in SUBSET On /\ On \in SUBSET Rows
      /\ S1 \in SUBSET Rows /\ Traded(1, p - 1) \in SUBSET S1
      /\ S2 \in SUBSET Rows /\ Traded(p, Periods) \in SUBSET S2
      /\ S3 \in SUBSET Rows /\ Owned(1, p - 1) \in SUBSET S3
      /\ Owned(p, Periods) = S3 \ Owned(1, p - 1)
  <2>1. On \in SUBSET Rows
    BY DEF RowsOn
  <2>. QED
    BY <2>1, RowsByUse
<1>2. /\ Net(On) = Net(Moved) + Net(S1)
      /\ Net(S1) = Net(Traded(1, p - 1)) + Net(S2)
      /\ Net(S2) = Net(Traded(p, Periods)) + Net(S3)
      /\ Net(S3) = Net(Owned(1, p - 1)) + Net(Owned(p, Periods))
  <2>. HIDE DEF On
  <2>1. Net(On) = Net(Moved) + Net(S1)
    BY <1>1, NetOfParts
  <2>. HIDE DEF S1
  <2>2. Net(S1) = Net(Traded(1, p - 1)) + Net(S2)
    BY <1>1, NetOfParts
  <2>. HIDE DEF S2
  <2>3. Net(S2) = Net(Traded(p, Periods)) + Net(S3)
    BY <1>1, NetOfParts
  <2>. HIDE DEF S3
  <2>4. Net(S3) = Net(Owned(1, p - 1)) + Net(Owned(p, Periods))
    BY <1>1, NetOfParts
  <2>. QED
    BY <2>1, <2>2, <2>3, <2>4
<1>3. Cash = SumFunctionOnSet(Opening, active) + Net(On)
  BY BalancesAddUp DEF Cash, TypeOK
<1>4. /\ FlowBetween(1, p - 1) = Net(Traded(1, p - 1))
      /\ FlowBetween(p, Periods) = Net(Traded(p, Periods))
      /\ OwnerMovement(1, p - 1) = Net(Owned(1, p - 1))
      /\ OwnerMovement(p, Periods) = Net(Owned(p, Periods))
      /\ TransferNet = Net(Moved)
  BY DEF FlowBetween, OwnerMovement, TransferNet, Traded, Owned, Moved, OwnMoney
<1>5. ClosingBalance(p) = SumFunctionOnSet(Opening, active) + FlowBetween(1, p - 1)
                            + FlowBetween(p, Periods) + OwnerMovement(p, Periods)
  BY DEF ClosingBalance, OpeningBalance
<1>6. SumFunctionOnSet(Opening, active) \in Int
  <2>1. Opening \in [Wallets -> Nat] /\ IsFiniteSet(Wallets) /\ active \subseteq Wallets
    BY CashBookAssumption DEF TypeOK
  <2>2. IsFiniteSet(active) /\ \A a \in active : Opening[a] \in Int
    BY <2>1, FS_Subset
  <2>. QED
    BY <2>2, SumIsInt
<1>7. /\ Net(Traded(1, p - 1)) \in Int /\ Net(Traded(p, Periods)) \in Int
      /\ Net(Owned(1, p - 1)) \in Int /\ Net(Owned(p, Periods)) \in Int
      /\ Net(Moved) \in Int
  <2>1. /\ Traded(1, p - 1) \in SUBSET Rows /\ Traded(p, Periods) \in SUBSET Rows
        /\ Owned(1, p - 1) \in SUBSET Rows /\ Owned(p, Periods) \in SUBSET Rows
        /\ Moved \in SUBSET Rows
    BY DEF Traded, Owned, Moved, Booked
  <2>. QED
    BY <2>1, NetIsInt
<1>. HIDE DEF On, S1, S2, S3
<1>. QED
  BY <1>2, <1>3, <1>4, <1>5, <1>6, <1>7

(* While every wallet is open, transfers move money and make none: each    *)
(* leg of money in is the image of one leg of money out.                   *)
LEMMA TransfersCancelOut ==
  ASSUME TypeOK, LegsPair, active = Wallets, ~edited
  PROVE  TransferNet = 0
<1>. DEFINE Ins == {r \in Rows : Leg(r, "IN")}
            Outs == {r \in Rows : Leg(r, "OUT")}
            m == [r \in Ins |-> row[r].ref]
<1>1. Moved = Ins \cup Outs
  BY LegKinds DEF Moved, Leg
<1>2. {r \in Moved : row[r].dir = "IN"} = Ins /\ {r \in Moved : row[r].dir = "OUT"} = Outs
  BY <1>1 DEF Leg
<1>3. m \in [Ins -> Outs]
  BY LegKinds DEF LegsPair, ComesFrom
<1>4. \A q, r \in Ins : m[q] = m[r] => q = r
  <2>. SUFFICES ASSUME NEW q \in Ins, NEW r \in Ins, row[q].ref = row[r].ref PROVE q = r
    OBVIOUS
  <2>1. PICK o \in Outs : o = row[q].ref /\ o = row[r].ref
    BY <1>3
  <2>2. PICK e \in Rows : RowsOf(o) = {e}
    BY <2>1 DEF LegsPair
  <2>. QED
    BY <2>1, <2>2 DEF RowsOf
<1>5. {m[r] : r \in Ins} = Outs
  <2>1. ASSUME NEW o \in Outs PROVE \E r \in Ins : m[r] = o
    <3>1. PICK e \in Rows : RowsOf(o) = {e}
      BY DEF LegsPair
    <3>2. row[e].ref = o
      BY <3>1 DEF RowsOf
    <3>3. e \in Ins
      BY <3>2, LegKinds
    <3>. QED
      BY <3>2, <3>3
  <2>. QED
    BY <1>3, <2>1
<1>6. \A r \in Ins : Amount[r] = Amount[m[r]]
  BY <1>3, LegKinds DEF LegsPair, ComesFrom, Amount
<1>7. IsFiniteSet(Ins) /\ \A o \in Outs : Amount[o] \in Int
  BY NetIsInt
<1>. HIDE DEF Ins, Outs, m
<1>8. SumFunctionOnSet(Amount, Ins) = SumFunctionOnSet(Amount, Outs)
  <2>1. m \in Bijection(Ins, Outs)
    BY <1>3, <1>4, <1>5 DEF Bijection, Injection, Surjection, IsInjective
  <2>. QED
    BY <1>6, <1>7, <2>1, SumOfBijection
<1>9. Sum(Ins) = Sum(Outs)
  BY <1>8 DEF Sum, Amount
<1>10. Sum(Outs) \in Int
  BY NetIsInt DEF Outs
<1>11. TransferNet = Net(Moved)
  BY DEF TransferNet, Moved
<1>12. Net(Moved) = Sum(Ins) - Sum(Outs)
  BY <1>2 DEF Net
<1>. QED
  BY <1>9, <1>10, <1>11, <1>12

(* A statement of any window closes on the cash of the active accounts,    *)
(* short of the owner's money from before it and of what was moved to or   *)
(* from a closed wallet, whatever was entered, edited or deleted.          *)
THEOREM StatementsCloseOnCash == Spec => []ClosingIsCash
<1>1. BookInv => ClosingIsCash
  BY ClosingAddsUp, TransfersCancelOut DEF BookInv, ClosingIsCash
<1>. QED
  BY <1>1, BookHolds, PTL
===============================================================================
