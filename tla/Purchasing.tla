------------------------------ MODULE Purchasing ------------------------------
(***************************************************************************)
(* Purchase orders of one supplier and what is owed on them                *)
(* (src/server/src/services/purchase.service.js and the accounts payable   *)
(* of finance.service.js).                                                 *)
(*                                                                         *)
(* Every handler reads the order, decides, and writes by id without        *)
(* looking again; only the creation of an order and its receipt are        *)
(* transactions, and neither locks the row it read.  Payments are ledger   *)
(* rows keyed to an order or to the supplier; here they are their sums.    *)
(***************************************************************************)
EXTENDS Integers, FiniteSets, Functions

CONSTANTS Sessions,   \* requests that may be in flight together
          Orders,     \* purchase orders that may be created
          MaxCost,    \* bound: totalCost of an order
          MaxPaid,    \* bound: the payments on one order
          MaxBalance, \* bound: the payments, and the credits, of the supplier
          MaxAmends,  \* bound: payments edited or deleted in the ledger
          MaxLandings \* bound: times the boxes of one order land

VARIABLES
  po,          \* po[o]: status and totalCost of an order
  paid,        \* paid[o]: OUT rows with refType PurchaseOrder and refId o
  balancePaid, \* OUT rows with refType Supplier
  returned,    \* SupplierCredit: the value of the goods sent back
  arrived,     \* arrived[o]: how often the boxes of o were put on the shelf
  h,           \* h[s]: what session s writes next
  amends,      \* counter for the bound
  crossed,     \* history: orders two sessions worked on at once
  touched,     \* history: orders repriced, or with payments edited by hand
  loose        \* history: what lets the supplier be overpaid has happened

vars == <<po, paid, balancePaid, returned, arrived, h, amends, crossed, touched, loose>>

Idle == [pc |-> "idle"]
Exists(o) == po[o].status \in {"OPEN", "RECEIVED", "CANCELLED"}
Costs == 1..MaxCost

Init ==
  /\ po = [o \in Orders |-> [status |-> "NONE", cost |-> 0]]
  /\ paid = [o \in Orders |-> 0]
  /\ balancePaid = 0 /\ returned = 0
  /\ arrived = [o \in Orders |-> 0]
  /\ h = [s \in Sessions |-> Idle]
  /\ amends = 0 /\ crossed = {} /\ touched = {} /\ loose = FALSE

-----------------------------------------------------------------------------
(* supplierDetail: cancelled orders drop out with their payments; payments *)
(* and credits of the supplier as a whole always count.                    *)
Owing == {o \in Orders : po[o].status \in {"OPEN", "RECEIVED"}}
Outstanding ==
  SumFunction([o \in Owing |-> po[o].cost - paid[o]]) - returned - balancePaid

Run(s, state) == h' = [h EXCEPT ![s] = state]
Busy(s) == {t \in Sessions \ {s} : h[t] # Idle}
Begin(s, state) ==
  /\ h[s] = Idle
  /\ Run(s, state)
  /\ crossed' = crossed \cup
       {o \in Orders : /\ "order" \in DOMAIN state /\ state.order = o
                       /\ \E t \in Busy(s) : "order" \in DOMAIN h[t] /\ h[t].order = o}
  /\ loose' = (loose \/ Busy(s) # {})
  /\ UNCHANGED <<po, paid, balancePaid, returned, arrived, amends, touched>>

Unallocated == balancePaid + returned > 0

-----------------------------------------------------------------------------
(* createPurchaseOrder, with the payment made at the counter.              *)
AtCounter(cost, amount) == amount <= cost

CreatePurchaseOrder(o, cost, amount) ==
  /\ po[o].status = "NONE"
  /\ AtCounter(cost, amount)
  /\ po' = [po EXCEPT ![o] = [status |-> "OPEN", cost |-> cost]]
  /\ paid' = [paid EXCEPT ![o] = amount]
  /\ UNCHANGED <<balancePaid, returned, arrived, h, amends, crossed, touched, loose>>

(* paySupplier: at most what is left of this order, whatever the supplier  *)
(* as a whole is owed.                                                     *)
Payable(o, n) ==
  Exists(o) /\ po[o].status # "CANCELLED" /\ n <= po[o].cost - paid[o]

StartPaySupplier(s, o, n) ==
  /\ Payable(o, n)
  /\ Begin(s, [pc |-> "pay", order |-> o, amount |-> n])
PaySupplier(s) ==
  /\ h[s].pc = "pay"
  /\ paid[h[s].order] + h[s].amount <= MaxPaid
  /\ paid' = [paid EXCEPT ![h[s].order] = @ + h[s].amount]
  /\ loose' = (loose \/ Unallocated)
  /\ Run(s, Idle)
  /\ UNCHANGED <<po, balancePaid, returned, arrived, amends, crossed, touched>>

(* paySupplierBalance and recordSupplierCredit: at most the whole debt.    *)
WithinDebt(n) == n <= Outstanding

StartSupplierLevel(s, kind, n) ==
  /\ WithinDebt(n)
  /\ Begin(s, [pc |-> kind, amount |-> n])
PaySupplierBalance(s) ==
  /\ h[s].pc = "balance"
  /\ balancePaid + h[s].amount <= MaxBalance
  /\ balancePaid' = balancePaid + h[s].amount
  /\ Run(s, Idle)
  /\ UNCHANGED <<po, paid, returned, arrived, amends, crossed, touched, loose>>
RecordSupplierCredit(s) ==
  /\ h[s].pc = "credit"
  /\ returned + h[s].amount <= MaxBalance
  /\ returned' = returned + h[s].amount
  /\ Run(s, Idle)
  /\ UNCHANGED <<po, paid, balancePaid, arrived, amends, crossed, touched, loose>>

-----------------------------------------------------------------------------
(* updatePurchaseOrder: a new status, or new lines and with them a new     *)
(* cost; cancelling asks whether the order was paid.  The form may say     *)
(* RECEIVED, which puts nothing on the shelf.                              *)
Cancellable(o) == paid[o] = 0

StartUpdate(s, o, status) ==
  /\ Exists(o) /\ po[o].status # "RECEIVED"
  /\ status = "CANCELLED" => Cancellable(o)
  /\ Begin(s, [pc |-> "status", order |-> o, to |-> status])
StartReprice(s, o, cost) ==
  /\ Exists(o) /\ po[o].status # "RECEIVED"
  /\ Begin(s, [pc |-> "cost", order |-> o, cost |-> cost])

(* The update is by id: it fails only if the row is gone.                  *)
UpdatePurchaseOrder(s) ==
  LET o == h[s].order
  IN /\ h[s].pc \in {"status", "cost"}
     /\ po' = IF ~Exists(o) THEN po
              ELSE IF h[s].pc = "status" THEN [po EXCEPT ![o].status = h[s].to]
              ELSE [po EXCEPT ![o].cost = h[s].cost]
     /\ touched' = IF h[s].pc = "cost" THEN touched \cup {o} ELSE touched
     /\ loose' = (loose \/ Unallocated \/ h[s].pc = "cost")
     /\ Run(s, Idle)
     /\ UNCHANGED <<paid, balancePaid, returned, arrived, amends, crossed>>

(* deletePurchaseOrder: never a received or a paid one. *)
StartDelete(s, o) ==
  /\ Exists(o) /\ po[o].status # "RECEIVED"
  /\ Cancellable(o)
  /\ Begin(s, [pc |-> "delete", order |-> o])
DeletePurchaseOrder(s) ==
  LET o == h[s].order
  IN /\ h[s].pc = "delete"
     /\ po' = IF Exists(o) THEN [po EXCEPT ![o].status = "DELETED"] ELSE po
     /\ loose' = (loose \/ Unallocated)
     /\ Run(s, Idle)
     /\ UNCHANGED <<paid, balancePaid, returned, arrived, amends, crossed, touched>>

(* receivePurchaseOrder: the status is read in the transaction but not     *)
(* locked; boxes and status become visible together.                       *)
(* Mutant: a received order may be received again. *)
ReceivableAgain(o) == po[o].status \in {"OPEN", "RECEIVED"}
Receivable(o) == po[o].status = "OPEN"

StartReceive(s, o) ==
  /\ Receivable(o)
  /\ Begin(s, [pc |-> "receive", order |-> o])
ReceivePurchaseOrder(s) ==
  LET o == h[s].order
  IN /\ h[s].pc = "receive" /\ arrived[o] < MaxLandings
     /\ IF Exists(o)
        THEN /\ po' = [po EXCEPT ![o].status = "RECEIVED"]
             /\ arrived' = [arrived EXCEPT ![o] = @ + 1]
        ELSE UNCHANGED <<po, arrived>>
     /\ Run(s, Idle)
     /\ UNCHANGED <<paid, balancePaid, returned, amends, crossed, touched, loose>>

(* A payment row is edited or deleted in the ledger: nothing is compared   *)
(* with the order it pays.                                                 *)
AmendPayment(o, n) ==
  /\ amends < MaxAmends
  /\ amends' = amends + 1
  /\ paid[o] > 0 /\ n # paid[o]
  /\ paid' = [paid EXCEPT ![o] = n]
  /\ touched' = IF n > paid[o] THEN touched \cup {o} ELSE touched
  /\ loose' = (loose \/ n > paid[o])
  /\ UNCHANGED <<po, balancePaid, returned, arrived, h, crossed>>

Crash(s) ==
  /\ h[s] # Idle
  /\ Run(s, Idle)
  /\ UNCHANGED <<po, paid, balancePaid, returned, arrived, amends, crossed, touched, loose>>

-----------------------------------------------------------------------------
Session(s) ==
  \/ \E o \in Orders :
       \/ \E n \in 1..MaxPaid : StartPaySupplier(s, o, n)
       \/ \E status \in {"OPEN", "RECEIVED", "CANCELLED"} : StartUpdate(s, o, status)
       \/ \E cost \in Costs : StartReprice(s, o, cost)
       \/ StartDelete(s, o)
       \/ StartReceive(s, o)
  \/ \E kind \in {"balance", "credit"}, n \in 1..MaxBalance : StartSupplierLevel(s, kind, n)
  \/ PaySupplier(s) \/ PaySupplierBalance(s) \/ RecordSupplierCredit(s)
  \/ UpdatePurchaseOrder(s) \/ DeletePurchaseOrder(s) \/ ReceivePurchaseOrder(s)
  \/ Crash(s)

Next ==
  \/ \E s \in Sessions : Session(s)
  \/ \E o \in Orders, cost \in Costs, n \in 0..MaxCost : CreatePurchaseOrder(o, cost, n)
  \/ \E o \in Orders, n \in 0..MaxPaid : AmendPayment(o, n)

Spec == Init /\ [][Next]_vars

-----------------------------------------------------------------------------
SessionState ==
  {Idle}
  \cup [pc : {"pay"}, order : Orders, amount : Nat]
  \cup [pc : {"balance", "credit"}, amount : Nat]
  \cup [pc : {"status"}, order : Orders, to : {"OPEN", "RECEIVED", "CANCELLED"}]
  \cup [pc : {"cost"}, order : Orders, cost : Nat]
  \cup [pc : {"delete", "receive"}, order : Orders]

TypeOK ==
  /\ po \in [Orders -> [status : {"NONE", "OPEN", "RECEIVED", "CANCELLED", "DELETED"},
                        cost : Nat]]
  /\ paid \in [Orders -> Nat] /\ balancePaid \in Nat /\ returned \in Nat
  /\ arrived \in [Orders -> Nat]
  /\ h \in [Sessions -> SessionState]
  /\ amends \in Nat
  /\ crossed \subseteq Orders /\ touched \subseteq Orders /\ loose \in BOOLEAN

(* An order is never paid more than it costs, and none that was cancelled  *)
(* or deleted has money on it, unless two requests worked on it at once or *)
(* it was repriced or its payments edited by hand.                         *)
PaymentsFitOrders ==
  \A o \in Orders \ (crossed \cup touched) :
    /\ paid[o] <= po[o].cost
    /\ ~Exists(o) \/ po[o].status = "CANCELLED" => paid[o] = 0

(* "Over-payment is blocked": the supplier is never paid more than was     *)
(* bought, unless (loose) an order was paid or dropped while payments or   *)
(* credits of the supplier as a whole stood beside it, an order was        *)
(* repriced or a payment raised by hand, or two requests overlapped.       *)
SupplierNotOverpaid == loose \/ Outstanding >= 0

(* The boxes of an order land on the shelf once, and the order they came   *)
(* with is still there as RECEIVED, unless two requests worked on it at    *)
(* once.                                                                   *)
BoxesLandOnce ==
  \A o \in Orders \ crossed :
    arrived[o] <= 1 /\ (arrived[o] = 1 => po[o].status = "RECEIVED")
===============================================================================
