------------------------------- MODULE CashBook -------------------------------
(***************************************************************************)
(* The finance ledger: FinanceTransaction rows and the accounts they are   *)
(* filed on (src/server/src/services/finance.service.js), beside the sales *)
(* and payouts they mirror (sales.service.js, settlementSubmission.service *)
(* .js, commissions.controller.js).                                        *)
(*                                                                         *)
(* The row of a sale or a payout is written after the document committed,  *)
(* by a call nobody waits for, and every load of the overview runs a       *)
(* backfill that posts what is missing, row by row and outside any         *)
(* transaction.  Only a cancelled sale and the two legs of a transfer are  *)
(* written inside one.                                                     *)
(***************************************************************************)
EXTENDS Integers, FiniteSets, FiniteSetsExt, Functions

CONSTANTS Sessions,   \* requests that may be in flight together
          Rows,       \* rows of FinanceTransaction that may exist
          Sales,      \* cash sales, of a settlement or of the warehouse
          Payouts,    \* commission withdrawals that may be paid
          Wallets,    \* BusinessAccount rows that hold money, by sortOrder
          WalletOf,   \* WalletOf[x]: the wallet of the brand sale x belongs to
          Total,      \* Total[x]: what sale x was invoiced
          Paid,       \* Paid[x]: what reached the till
          Opening,    \* Opening[a]: openingBalance
          Periods,    \* bound: 1..Periods, windows a report may start with
          MaxAmount,  \* bound: amount of an entry made by hand
          MaxEntries, \* bound: entries, edits and account changes by hand
          None

ASSUME CashBookAssumption ==
  /\ Wallets \subseteq Nat \ {0} /\ IsFiniteSet(Wallets) /\ IsFiniteSet(Rows)
  /\ WalletOf \in [Sales -> Wallets]
  /\ Total \in [Sales -> Nat \ {0}] /\ Paid \in [Sales -> Nat]
  /\ \A x \in Sales : Paid[x] <= Total[x]
  /\ Opening \in [Wallets -> Nat]
  /\ Periods \in Nat \ {0} /\ MaxAmount \in Nat /\ MaxEntries \in Nat
  /\ None \notin Rows \cup Sales \cup Payouts
  /\ Rows \cap (Sales \cup Payouts) = {} /\ Sales \cap Payouts = {}

VARIABLES
  row,       \* row[r]: the ledger, NoRow where there is none
  active,    \* wallets that are isActive
  sale,      \* sale[x]: "NONE", "LIVE" or "CANCELLED"
  soldAt,    \* soldAt[x]: the period of the sale
  paidAt,    \* paidAt[w]: the period a withdrawal was paid in, 0 before
  now,       \* the current period
  h,         \* h[s]: what session s does next and what it has read
  entries,   \* counter for the bound
  contested, \* history: documents two sessions meant to post at once
  late,      \* history: sales cancelled while a session meant to post them
  edited     \* history: the amount of a transfer's leg was changed

vars == <<row, active, sale, soldAt, paidAt, now, h, entries, contested, late, edited>>
documents == <<sale, soldAt, paidAt, now>>
history == <<contested, late, edited>>

Record == 0             \* the account of type COMMISSION: it holds no money
Idle == [pc |-> "idle"]
NoRow == [type |-> "NONE", dir |-> "NONE", account |-> Record, amount |-> 0,
          at |-> 0, ref |-> None]

(* NON_TRADE_TYPES, and what the owner and the admin enter by hand.        *)
(* Mutant: payouts count as the business trading. *)
NonTradeButPayouts == {"TRANSFER", "OWNER_CONTRIBUTION", "OWNER_DRAWING"}
NonTrade == {"TRANSFER", "OWNER_CONTRIBUTION", "OWNER_DRAWING", "COMMISSION_PAYMENT"}
Manual == {<<"INCOME", "IN">>, <<"EXPENSE", "OUT">>,
           <<"OWNER_CONTRIBUTION", "IN">>, <<"OWNER_DRAWING", "OUT">>}

Init ==
  /\ row = [r \in Rows |-> NoRow]
  /\ active = Wallets
  /\ sale = [x \in Sales |-> "NONE"] /\ soldAt = [x \in Sales |-> 0]
  /\ paidAt = [w \in Payouts |-> 0]
  /\ now = 1
  /\ h = [s \in Sessions |-> Idle]
  /\ entries = 0 /\ contested = {} /\ late = {} /\ edited = FALSE

-----------------------------------------------------------------------------
Free == {r \in Rows : row[r].type = "NONE"}
RowsOf(ref) == {r \in Rows : row[r].ref = ref}
Sum(S) == SumFunctionOnSet([r \in Rows |-> row[r].amount], S)
Net(S) == Sum({r \in S : row[r].dir = "IN"}) - Sum({r \in S : row[r].dir = "OUT"})

(* accountBalances: rows of the Record never touch a balance.              *)
Balance(a) == Opening[a] + Net({r \in Rows : row[r].account = a})
Cash == SumFunction([a \in active |-> Balance(a)])

(* flowBetween, ownerFigures.accountMovement: active accounts only, and the *)
(* record of the payouts is one of them.                                    *)
Booked(from, to) == {r \in Rows : /\ row[r].account \in active \cup {Record}
                                  /\ row[r].at \in from..to}
FlowBetween(from, to) == Net({r \in Booked(from, to) : row[r].type \notin NonTrade})
OwnerMovement(from, to) ==
  Net({r \in Booked(from, to) : row[r].type \in {"OWNER_CONTRIBUTION", "OWNER_DRAWING"}})

(* cashflow for a window from period p on. *)
OpeningBalance(p) == SumFunctionOnSet(Opening, active) + FlowBetween(1, p - 1)
ClosingBalance(p) ==
  OpeningBalance(p) + FlowBetween(p, Periods) + OwnerMovement(p, Periods)

(* settlementAccountFor: every wallet here belongs to a brand, so a brand  *)
(* whose wallet is closed has nowhere to settle; defaultAccount.           *)
SettlementAccount(x) == IF WalletOf[x] \in active THEN WalletOf[x] ELSE None
DefaultAccount == IF active = {} THEN None ELSE Min(active)

Run(s, state) == h' = [h EXCEPT ![s] = state]

(* The documents session s still means to post. *)
Plans(state) ==
  CASE state.pc \in {"income", "payout"} -> {state.ref}
    [] state.pc \in {"sales", "payouts"} -> state.todo
    [] OTHER -> {}
Contests(s, docs) ==
  contested' = contested \cup
    {d \in docs : \E t \in Sessions \ {s} : d \in Plans(h[t])}

Post(r, type, dir, a, amount, at, ref) ==
  row' = [row EXCEPT ![r] = [type |-> type, dir |-> dir, account |-> a,
                             amount |-> amount, at |-> at, ref |-> ref]]

-----------------------------------------------------------------------------
(* A sale commits; only then, and unawaited, recordSaleIncome runs.        *)
MakeSale(s, x) ==
  /\ h[s] = Idle /\ sale[x] = "NONE"
  /\ sale' = [sale EXCEPT ![x] = "LIVE"]
  /\ soldAt' = [soldAt EXCEPT ![x] = now]
  /\ Run(s, IF Paid[x] > 0 THEN [pc |-> "income", ref |-> x] ELSE Idle)
  /\ UNCHANGED <<row, active, paidAt, now, entries, history>>

RecordSaleIncome(s) ==
  /\ h[s].pc = "income"
  /\ LET x == h[s].ref
         a == SettlementAccount(x)
     IN IF a = None
        THEN row' = row
        ELSE \E r \in Free : Post(r, "SETTLEMENT", "IN", a, Paid[x], soldAt[x], x)
  /\ Run(s, Idle)
  /\ UNCHANGED <<active, documents, entries, history>>

(* A withdrawal is PAID; recordCommissionPayment files it on the Record.   *)
PayWithdrawal(s, w) ==
  /\ h[s] = Idle /\ paidAt[w] = 0
  /\ paidAt' = [paidAt EXCEPT ![w] = now]
  /\ Run(s, [pc |-> "payout", ref |-> w])
  /\ UNCHANGED <<row, active, sale, soldAt, now, entries, history>>

RecordCommissionPayment(s) ==
  /\ h[s].pc = "payout"
  /\ \E r \in Free : Post(r, "COMMISSION_PAYMENT", "OUT", Record, 1, paidAt[h[s].ref], h[s].ref)
  /\ Run(s, Idle)
  /\ UNCHANGED <<active, documents, entries, history>>

(* cancelSale: the income goes and the sale is CANCELLED in one            *)
(* transaction.                                                            *)
Reversed(x) == [r \in Rows |-> IF row[r].ref = x /\ row[r].dir = "IN" THEN NoRow ELSE row[r]]
CancelSale(x) ==
  /\ sale[x] = "LIVE"
  /\ row' = Reversed(x)
  /\ sale' = [sale EXCEPT ![x] = "CANCELLED"]
  /\ late' = IF \E s \in Sessions : x \in Plans(h[s]) THEN late \cup {x} ELSE late
  /\ UNCHANGED <<active, soldAt, paidAt, now, h, entries, contested, edited>>

-----------------------------------------------------------------------------
(* backfillFromHistory: list what has no row, then post it one by one      *)
(* without looking again.  "listed" is history: what there was to mirror.  *)
(* Mutant: everything is posted, whatever rows there are. *)
MissingAll(docs) == docs
Missing(docs) == {d \in docs : RowsOf(d) = {}}

StartBackfill(s) ==
  LET live == {x \in Sales : sale[x] = "LIVE"}
      todo == Missing(live)
  IN /\ h[s] = Idle
     /\ DefaultAccount # None
     /\ Run(s, [pc |-> "sales", todo |-> todo, listed |-> live, default |-> DefaultAccount])
     /\ Contests(s, todo)
     /\ UNCHANGED <<row, active, documents, entries, late, edited>>

(* A sale whose brand has no open wallet falls back to the default account *)
(* read at the start; the total is posted, whatever was paid.              *)
BackfillSale(s, x) ==
  /\ h[s].pc = "sales" /\ x \in h[s].todo
  /\ LET a == IF SettlementAccount(x) # None THEN SettlementAccount(x) ELSE h[s].default
     IN \E r \in Free : Post(r, "SETTLEMENT", "IN", a, Total[x], soldAt[x], x)
  /\ Run(s, [h[s] EXCEPT !.todo = @ \ {x}])
  /\ UNCHANGED <<active, documents, entries, history>>

ListPayouts(s) ==
  LET paid == {w \in Payouts : paidAt[w] > 0}
      todo == Missing(paid)
  IN /\ h[s].pc = "sales" /\ h[s].todo = {}
     /\ Run(s, [pc |-> "payouts", todo |-> todo, listed |-> h[s].listed \cup paid])
     /\ Contests(s, todo)
     /\ UNCHANGED <<row, active, documents, entries, late, edited>>

BackfillPayout(s, w) ==
  /\ h[s].pc = "payouts" /\ w \in h[s].todo
  /\ \E r \in Free : Post(r, "COMMISSION_PAYMENT", "OUT", Record, 1, paidAt[w], w)
  /\ Run(s, [h[s] EXCEPT !.todo = @ \ {w}])
  /\ UNCHANGED <<active, documents, entries, history>>

EndBackfill(s) ==
  /\ h[s].pc = "payouts" /\ h[s].todo = {}
  /\ Run(s, Idle)
  /\ UNCHANGED <<row, active, documents, entries, history>>

-----------------------------------------------------------------------------
ByHand == entries < MaxEntries /\ entries' = entries + 1

(* recordTransaction for an expense, an income or the owner's own money,   *)
(* dated as the form says.                                                 *)
RecordTransaction(t, a, amount, at) ==
  /\ ByHand
  /\ a \in active
  /\ \E r \in Free : Post(r, t[1], t[2], a, amount, at, None)
  /\ UNCHANGED <<active, documents, h, history>>

(* transferBetweenAccounts: the balance is read outside the transaction    *)
(* that writes the two legs.                                               *)
StartTransfer(s, a, b, amount) ==
  /\ h[s] = Idle
  /\ ByHand
  /\ {a, b} \subseteq active /\ a # b
  /\ Balance(a) >= amount
  /\ Run(s, [pc |-> "transfer", from |-> a, to |-> b, amount |-> amount])
  /\ UNCHANGED <<row, active, documents, history>>

WriteTransfer(s) ==
  /\ h[s].pc = "transfer"
  /\ \E out \in Free, in \in Free :
       /\ out # in
       /\ LET leg == [type |-> "TRANSFER", dir |-> "OUT", account |-> h[s].from,
                      amount |-> h[s].amount, at |-> now, ref |-> None]
          IN row' = [row EXCEPT ![out] = leg,
                                ![in] = [leg EXCEPT !.dir = "IN", !.account = h[s].to,
                                                    !.ref = out]]
  /\ Run(s, Idle)
  /\ UNCHANGED <<active, documents, entries, history>>

(* updateTransaction: a payout stays on the Record and everything else off *)
(* it; the amount of a sale and the brand's own wallet are kept.  A leg of *)
(* a transfer is a row like any other, a closed wallet will do, and so     *)
(* will an amount of zero, which recordTransaction refuses.                *)
Editable(r, a, amount) ==
  /\ row[r].type # "NONE"
  /\ IF row[r].type = "COMMISSION_PAYMENT" THEN a = Record ELSE a \in Wallets
  /\ row[r].type = "SETTLEMENT" => amount = row[r].amount /\ a = WalletOf[row[r].ref]

UpdateTransaction(r, a, amount, at) ==
  /\ ByHand
  /\ Editable(r, a, amount)
  /\ row' = [row EXCEPT ![r].account = a, ![r].amount = amount, ![r].at = at]
  /\ edited' = (edited \/ (row[r].type = "TRANSFER" /\ amount # row[r].amount))
  /\ UNCHANGED <<active, documents, h, contested, late>>

(* deleteTransaction: never the row of a document; both legs of a transfer. *)
(* Mutant: any row can be deleted. *)
DeletableAny(r) == row[r].type # "NONE"
Deletable(r) == row[r].type \notin {"NONE", "SETTLEMENT", "COMMISSION_PAYMENT"}

Legs(r) == {r} \cup (IF row[r].type = "TRANSFER" THEN RowsOf(r) \cup {row[r].ref} ELSE {})

DeleteTransaction(r) ==
  /\ ByHand
  /\ Deletable(r)
  /\ row' = [q \in Rows |-> IF q \in Legs(r) THEN NoRow ELSE row[q]]
  /\ UNCHANGED <<active, documents, h, history>>

(* updateAccount: a wallet is closed or opened again. *)
SetActive(a) ==
  /\ ByHand
  /\ active' = IF a \in active THEN active \ {a} ELSE active \cup {a}
  /\ UNCHANGED <<row, documents, h, history>>

NextPeriod ==
  /\ now < Periods
  /\ now' = now + 1
  /\ UNCHANGED <<row, active, sale, soldAt, paidAt, h, entries, history>>

(* The process ends, or a write fails: both recorders and the backfill     *)
(* swallow the error.                                                      *)
Crash(s) ==
  /\ h[s] # Idle
  /\ Run(s, Idle)
  /\ UNCHANGED <<row, active, documents, entries, history>>

-----------------------------------------------------------------------------
Amounts == 1..MaxAmount

Session(s) ==
  \/ \E x \in Sales : MakeSale(s, x) \/ BackfillSale(s, x)
  \/ \E w \in Payouts : PayWithdrawal(s, w) \/ BackfillPayout(s, w)
  \/ RecordSaleIncome(s) \/ RecordCommissionPayment(s)
  \/ StartBackfill(s) \/ ListPayouts(s) \/ EndBackfill(s)
  \/ \E a, b \in Wallets, n \in Amounts : StartTransfer(s, a, b, n)
  \/ WriteTransfer(s)
  \/ Crash(s)

Next ==
  \/ \E s \in Sessions : Session(s)
  \/ \E x \in Sales : CancelSale(x)
  \/ \E t \in Manual, a \in Wallets, n \in Amounts, p \in 1..Periods :
       RecordTransaction(t, a, n, p)
  \/ \E r \in Rows, a \in Wallets \cup {Record}, n \in 0..MaxAmount, p \in 1..Periods :
       UpdateTransaction(r, a, n, p)
  \/ \E r \in Rows : DeleteTransaction(r)
  \/ \E a \in Wallets : SetActive(a)
  \/ NextPeriod

Spec == Init /\ [][Next]_vars

-----------------------------------------------------------------------------
Entry ==
  {NoRow} \cup
  [type : {"SETTLEMENT"}, dir : {"IN"}, account : Wallets,
   amount : Nat, at : 1..Periods, ref : Sales]
  \cup [type : {"INCOME", "OWNER_CONTRIBUTION"}, dir : {"IN"}, account : Wallets,
        amount : Nat, at : 1..Periods, ref : {None}]
  \cup [type : {"EXPENSE", "OWNER_DRAWING"}, dir : {"OUT"}, account : Wallets,
        amount : Nat, at : 1..Periods, ref : {None}]
  \cup [type : {"COMMISSION_PAYMENT"}, dir : {"OUT"}, account : {Record},
        amount : Nat, at : 1..Periods, ref : Payouts]
  \cup [type : {"TRANSFER"}, dir : {"OUT"}, account : Wallets,
        amount : Nat, at : 1..Periods, ref : {None}]
  \cup [type : {"TRANSFER"}, dir : {"IN"}, account : Wallets,
        amount : Nat, at : 1..Periods, ref : Rows]

SessionState ==
  {Idle}
  \cup [pc : {"income"}, ref : Sales]
  \cup [pc : {"payout"}, ref : Payouts]
  \cup [pc : {"sales"}, todo : SUBSET Sales, listed : SUBSET Sales, default : Wallets]
  \cup [pc : {"payouts"}, todo : SUBSET Payouts, listed : SUBSET (Sales \cup Payouts)]
  \cup [pc : {"transfer"}, from : Wallets, to : Wallets, amount : Nat \ {0}]

(* Every variable has its type: whatever is edited, a payout stays on the  *)
(* Record, everything else off it, and a sale is mirrored by money in.     *)
TypeOK ==
  /\ row \in [Rows -> Entry]
  /\ active \subseteq Wallets
  /\ sale \in [Sales -> {"NONE", "LIVE", "CANCELLED"}]
  /\ soldAt \in [Sales -> 0..Periods] /\ paidAt \in [Payouts -> 0..Periods]
  /\ now \in 1..Periods
  /\ h \in [Sessions -> SessionState]
  /\ entries \in Nat
  /\ contested \subseteq Sales \cup Payouts /\ late \subseteq Sales /\ edited \in BOOLEAN

(* "Idempotent, keyed by refId, so it never double-counts": a document has *)
(* at most one row unless two sessions meant to post it at once, and a     *)
(* cancelled sale has none unless it was cancelled under a session that    *)
(* still meant to post it.                                                 *)
Mirrored ==
  /\ \A d \in (Sales \cup Payouts) \ contested : Cardinality(RowsOf(d)) <= 1
  /\ \A x \in Sales \ late : sale[x] # "LIVE" => RowsOf(x) = {}

(* A backfill that reaches its end leaves every payout and every sale it   *)
(* listed with a row, whatever a crashed recorder missed and whatever was  *)
(* deleted meanwhile; only a cancelled sale has lost its own.              *)
BackfillCompletes ==
  [][\A s \in Sessions : EndBackfill(s) =>
       \A d \in h[s].listed :
         RowsOf(d) # {} \/ (d \in Sales /\ sale[d] = "CANCELLED")]_vars

(* A statement of any window closes on the cash the active accounts hold,  *)
(* short of two things it leaves out: the owner's own money from before    *)
(* the window, and transfers to or from a wallet closed since.  While all  *)
(* wallets are open and no leg was edited, transfers add up to nothing.    *)
TransferNet ==
  Net({r \in Rows : row[r].type = "TRANSFER" /\ row[r].account \in active})
ClosingIsCash ==
  /\ \A p \in 1..Periods :
       ClosingBalance(p) + OwnerMovement(1, p - 1) + TransferNet = Cash
  /\ active = Wallets /\ ~edited => TransferNet = 0
===============================================================================
