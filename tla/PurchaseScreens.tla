---------------------------- MODULE PurchaseScreens ----------------------------
(***************************************************************************)
(* What Purchases.jsx and the supplier pages of Finance.jsx show and offer *)
(* over the state of Purchasing, with the figures purchase.service.js and  *)
(* finance.service.js send them.  Nothing here changes the state.          *)
(***************************************************************************)
EXTENDS Purchasing

(* PurchaseOrders and PODetailModal: the buttons in the row of an order and*)
(* in its dialog, until it landed or was dropped.                          *)
RowOffered(o) ==
  IF Exists(o) /\ po[o].status \notin {"RECEIVED", "CANCELLED"}
  THEN {"edit", "delete", "receive"} ELSE {}
OrderOffered(o) ==
  LET landed == po[o].status = "RECEIVED"
  IN IF Exists(o) /\ ~landed /\ po[o].status # "CANCELLED"
     THEN {"delete", "edit", "receive"} ELSE {}

(* listPurchaseOrders: what is bought and has not landed.                  *)
OnTheWay ==
  LET incoming == {o \in Orders : po[o].status = "OPEN"}
  IN [orders |-> incoming,
      value  |-> SumFunction([o \in incoming |-> po[o].cost])]

-----------------------------------------------------------------------------
(* supplierDetail: the orders of a supplier, what was paid on each, and the*)
(* bill over all of them.                                                  *)
OrderLeft(o) == po[o].cost - paid[o]
(* Mutant: what went back is counted as paid as well. *)
SupplierTotalsTwice ==
  LET purchased == SumFunction([o \in Owing |-> po[o].cost])
      settled == SumFunction([o \in Owing |-> paid[o]]) + balancePaid + returned
  IN [purchased |-> purchased, returned |-> returned, paid |-> settled,
      outstanding |-> purchased - returned - settled]
SupplierTotals ==
  LET purchased == SumFunction([o \in Owing |-> po[o].cost])
      settled == SumFunction([o \in Owing |-> paid[o]]) + balancePaid
  IN [purchased |-> purchased, returned |-> returned, paid |-> settled,
      outstanding |-> purchased - returned - settled]

(* supplierSummaries and the cards of SuppliersTab: the same bill, built   *)
(* order by order.  The share paid is measured against what stayed.        *)
SupplierRow ==
  [outstanding |-> SumFunction([o \in Owing |-> OrderLeft(o)]) - returned - balancePaid,
   poCount |-> Cardinality(Owing)]
Billed == SupplierTotals.purchased - returned

(* The dialogs of SupplierDetailModal and the amounts they send: Pay PO,   *)
(* Pay supplier, Return goods, and what was paid at the counter.           *)
Amounts == 1..(MaxCost + MaxPaid + MaxBalance)
PayOffered(o) == o \in Owing /\ OrderLeft(o) > 0
PayOrderForm(o) == {n \in Amounts : PayOffered(o) /\ n <= OrderLeft(o)}
PaySupplierForm ==
  {n \in Amounts : SupplierTotals.outstanding > 0 /\ n <= SupplierTotals.outstanding}
ReturnGoodsForm == PaySupplierForm
NewPurchaseForm(cost) == {0} \cup {n \in Amounts : n <= cost}

-----------------------------------------------------------------------------
(* The pages and the services agree, on data just read: an order offers to *)
(* be received when its boxes may still land; deleting it takes nothing off*)
(* the shelf, and the boxes on the way have not landed, unless two requests*)
(* worked on the order; the dialogs send exactly the amounts the service   *)
(* takes for that order or that supplier; the list of suppliers and the    *)
(* page of one show one debt; and the bill after returns, less what was    *)
(* paid, is what is owed.                                                  *)
PagesAgree ==
  /\ \A o \in Orders :
       /\ RowOffered(o) = OrderOffered(o)
       /\ "receive" \in OrderOffered(o) <=> Receivable(o)
       /\ "delete" \in OrderOffered(o) /\ o \notin crossed => arrived[o] = 0
       /\ PayOrderForm(o) = {n \in Amounts : Payable(o, n)}
       /\ o \in OnTheWay.orders \ crossed => arrived[o] = 0
  /\ \A cost \in Costs : NewPurchaseForm(cost) = {n \in {0} \cup Amounts : AtCounter(cost, n)}
  /\ PaySupplierForm = {n \in Amounts : WithinDebt(n)}
  /\ SupplierRow.outstanding = SupplierTotals.outstanding
  /\ SupplierTotals.outstanding = Outstanding
  /\ Billed - SupplierTotals.paid = SupplierTotals.outstanding
  /\ OnTheWay.value <= SupplierTotals.purchased
===============================================================================
