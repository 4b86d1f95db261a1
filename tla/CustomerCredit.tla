---------------------------- MODULE CustomerCredit ----------------------------
(***************************************************************************)
(* Credit sales of a warehouse: the debt, the payments on it and the sale  *)
(* they belong to (src/server/src/services/credit.service.js and the       *)
(* credit half of sales.service.js).                                       *)
(*                                                                         *)
(* A payment and a cancellation are transactions under READ COMMITTED that *)
(* read the debt without locking it: each is a step that reads and decides *)
(* and a step that commits what was computed from that read.  The commits  *)
(* take the row of the debt before the row of the sale, so they queue and  *)
(* never deadlock.                                                         *)
(***************************************************************************)
EXTENDS Integers, FiniteSets

CONSTANTS Sessions,     \* requests that may be in flight together
          Sales,        \* credit sales that may be made
          MaxPrincipal  \* bound: the total of a credit sale

VARIABLES
  sale,     \* sale[v]: status, amountPaid and balanceDue
  credit,   \* credit[v]: status, principal, amountPaid and balance
  paid,     \* paid[v]: the sum of the CreditPayment rows of v
  due,      \* the sales whose due date has passed
  back,     \* back[v]: how often the boxes of v were put back on the shelf
  h,        \* h[s]: what session s read, and is about to commit
  crossed   \* history: sales two sessions worked on at once

vars == <<sale, credit, paid, due, back, h, crossed>>

Idle == [pc |-> "idle"]
NoSale == [status |-> "NONE", amountPaid |-> 0, balanceDue |-> 0]
NoCredit == [status |-> "NONE", principal |-> 0, amountPaid |-> 0, balance |-> 0]

Init ==
  /\ sale = [v \in Sales |-> NoSale] /\ credit = [v \in Sales |-> NoCredit]
  /\ paid = [v \in Sales |-> 0] /\ back = [v \in Sales |-> 0]
  /\ due = {} /\ h = [s \in Sessions |-> Idle] /\ crossed = {}

-----------------------------------------------------------------------------
computeStatus(balance, amountPaid, late) ==
  CASE balance <= 0 -> "PAID"
    [] balance > 0 /\ late -> "OVERDUE"
    [] balance > 0 /\ ~late -> IF amountPaid > 0 THEN "PARTIAL" ELSE "OPEN"

(* deriveStatus: a down payment above the total leaves nothing due. *)
BalanceDue(total, down) == IF down >= total THEN 0 ELSE total - down

(* createSaleTx with type CREDIT: the sale, the debt and the down payment, *)
(* in one transaction.  The due date may lie in the past.                  *)
CreditSale(v, total, down, late) ==
  LET left == BalanceDue(total, down)
  IN /\ credit[v].status = "NONE"
     /\ sale' = [sale EXCEPT ![v] =
          [status |-> IF left = 0 THEN "PAID" ELSE IF down > 0 THEN "PARTIAL" ELSE "UNPAID",
           amountPaid |-> down, balanceDue |-> left]]
     /\ credit' = [credit EXCEPT ![v] =
          [status |-> computeStatus(left, down, FALSE),
           principal |-> total, amountPaid |-> down, balance |-> left]]
     /\ paid' = [paid EXCEPT ![v] = down]
     /\ due' = IF late THEN due \cup {v} ELSE due
     /\ UNCHANGED <<back, h, crossed>>

(* Session s turns to sale v, holding what it read. *)
Begin(s, state) ==
  /\ h[s] = Idle
  /\ h' = [h EXCEPT ![s] = state]
  /\ crossed' = IF \E t \in Sessions : h[t] # Idle /\ h[t].of = state.of
                THEN crossed \cup {state.of} ELSE crossed
  /\ UNCHANGED <<sale, credit, paid, due, back>>

(* recordPayment: refused on a debt that is paid or written off, and above *)
(* the balance that was read.                                              *)
(* Mutant: the cap is the principal. *)
MayPayPrincipal(debt, n) == debt.status \notin {"NONE", "PAID", "WRITTEN_OFF"} /\ n <= debt.principal
MayPay(debt, n) == debt.status \notin {"NONE", "PAID", "WRITTEN_OFF"} /\ n <= debt.balance

StartPayment(s, v, n) ==
  /\ MayPay(credit[v], n)
  /\ Begin(s, [pc |-> "pay", of |-> v, read |-> credit[v], amount |-> n])

(* The row of the payment is inserted; the debt and the sale are set to    *)
(* what the read makes of them.                                            *)
RecordPayment(s) ==
  LET v == h[s].of
      newPaid == h[s].read.amountPaid + h[s].amount
      newBalance == h[s].read.principal - newPaid
  IN /\ h[s].pc = "pay"
     /\ paid' = [paid EXCEPT ![v] = @ + h[s].amount]
     /\ credit' = [credit EXCEPT ![v] =
          [@ EXCEPT !.amountPaid = newPaid, !.balance = newBalance,
                    !.status = computeStatus(newBalance, newPaid, v \in due)]]
     /\ sale' = [sale EXCEPT ![v] =
          [status |-> IF newBalance <= 0 THEN "PAID" ELSE "PARTIAL",
           amountPaid |-> newPaid, balanceDue |-> newBalance]]
     /\ h' = [h EXCEPT ![s] = Idle]
     /\ UNCHANGED <<due, back, crossed>>

(* cancelSale: the boxes go back, the debt is written off and the sale     *)
(* owes nothing.  What was paid stays paid.                                *)
MayCancel(status) == status \notin {"NONE", "CANCELLED"}

StartCancel(s, v) ==
  /\ MayCancel(sale[v].status)
  /\ Begin(s, [pc |-> "cancel", of |-> v])
CancelSale(s) ==
  LET v == h[s].of
  IN /\ h[s].pc = "cancel"
     /\ back' = [back EXCEPT ![v] = @ + 1]
     /\ credit' = [credit EXCEPT ![v].status = "WRITTEN_OFF", ![v].balance = 0]
     /\ sale' = [sale EXCEPT ![v].status = "CANCELLED", ![v].balanceDue = 0]
     /\ h' = [h EXCEPT ![s] = Idle]
     /\ UNCHANGED <<paid, due, crossed>>

(* refreshOverdue: one conditional update. *)
Flaggable(v) == v \in due /\ credit[v].balance > 0 /\ credit[v].status \in {"OPEN", "PARTIAL"}
refreshOverdue ==
  /\ \E v \in Sales : Flaggable(v)
  /\ credit' = [v \in Sales |->
       IF Flaggable(v) THEN [credit[v] EXCEPT !.status = "OVERDUE"] ELSE credit[v]]
  /\ UNCHANGED <<sale, paid, due, back, h, crossed>>

(* The due date of a debt passes. *)
DuePasses(v) ==
  /\ credit[v].status # "NONE" /\ v \notin due
  /\ due' = due \cup {v}
  /\ UNCHANGED <<sale, credit, paid, back, h, crossed>>

(* The process dies with the transaction open: nothing is written. *)
Rollback(s) ==
  /\ h[s] # Idle
  /\ h' = [h EXCEPT ![s] = Idle]
  /\ UNCHANGED <<sale, credit, paid, due, back, crossed>>

Next ==
  \/ \E v \in Sales, total \in 1..MaxPrincipal, down \in 0..MaxPrincipal, late \in BOOLEAN :
       CreditSale(v, total, down, late)
  \/ \E v \in Sales : DuePasses(v)
  \/ refreshOverdue
  \/ \E s \in Sessions :
       \/ \E v \in Sales, n \in 1..MaxPrincipal : StartPayment(s, v, n)
       \/ \E v \in Sales : StartCancel(s, v)
       \/ RecordPayment(s) \/ CancelSale(s) \/ Rollback(s)

Spec == Init /\ [][Next]_vars

-----------------------------------------------------------------------------
Debts == [status : {"NONE", "OPEN", "PARTIAL", "PAID", "OVERDUE", "WRITTEN_OFF"},
          principal : Nat, amountPaid : Nat, balance : Int]
SaleRows == [status : {"NONE", "UNPAID", "PARTIAL", "PAID", "CANCELLED"},
             amountPaid : Nat, balanceDue : Int]

TypeOK ==
  /\ sale \in [Sales -> SaleRows] /\ credit \in [Sales -> Debts]
  /\ paid \in [Sales -> Nat] /\ back \in [Sales -> Nat]
  /\ due \subseteq Sales /\ crossed \subseteq Sales
  /\ h \in [Sessions ->
       {Idle} \cup [pc : {"pay"}, of : Sales, read : Debts, amount : Nat]
              \cup [pc : {"cancel"}, of : Sales]]

(* A debt, its payments and its sale agree: the payments add up to what    *)
(* the debt says was paid, debt and sale show the same money, a live debt  *)
(* is what is left of the principal, and a cancelled sale owes nothing and *)
(* put its boxes back exactly once - unless two requests worked on the     *)
(* sale at once, when one writes over the other.                           *)
CreditAddsUp ==
  \A v \in {u \in Sales \ crossed : credit[u].status # "NONE"} :
    /\ paid[v] = credit[v].amountPaid
    /\ sale[v].amountPaid = credit[v].amountPaid
    /\ sale[v].balanceDue = credit[v].balance
    /\ IF sale[v].status = "CANCELLED"
       THEN credit[v].status = "WRITTEN_OFF" /\ credit[v].balance = 0 /\ back[v] = 1
       ELSE credit[v].balance = BalanceDue(credit[v].principal, paid[v]) /\ back[v] = 0
===============================================================================
