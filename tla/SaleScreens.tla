------------------------------ MODULE SaleScreens ------------------------------
(***************************************************************************)
(* What Sales.jsx and Customers.jsx, and the debt figures of               *)
(* credit.service.js, say over the state of CustomerCredit.  Nothing here  *)
(* changes the state.                                                      *)
(***************************************************************************)
EXTENDS CustomerCredit, Functions

Recorded == {v \in Sales : sale[v].status # "NONE"}
Total(v) == credit[v].principal

(* listSales: a cancelled sale is listed and earns nothing; what is owed is*)
(* the balance of the sales that count.                                    *)
Counted == {v \in Recorded : sale[v].status # "CANCELLED"}
SaleSummary ==
  [revenue   |-> SumFunction([v \in Counted |-> Total(v)]),
   owed      |-> SumFunction([v \in Counted |-> sale[v].balanceDue]),
   unpaid    |-> Cardinality({v \in Counted : sale[v].balanceDue > 0}),
   sales     |-> Cardinality(Counted),
   cancelled |-> Cardinality(Recorded \ Counted)]

(* The chips: every sale under the status its row has.                     *)
ByStatus == [status \in {"PAID", "PARTIAL", "UNPAID", "CANCELLED"} |->
               Cardinality({v \in Recorded : sale[v].status = status})]
AllStatuses == SumFunction(ByStatus)

(* NewSaleModal: the amount the warning says will stay owed.               *)
Shortfall(total, amountPaid) == IF amountPaid >= total THEN 0 ELSE total - amountPaid

(* SaleDetail: cancelling is offered once, and the page says what happened.*)
CancelOffered(v) == v \in Recorded /\ sale[v].status # "CANCELLED"

-----------------------------------------------------------------------------
(* listCredit, debtSummary and the stats of a customer: the debts with a   *)
(* balance, and of those the ones whose date has passed.                   *)
(* Mutant: a debt that was flagged overdue is no longer counted. *)
OpenUnflagged == {v \in Sales : credit[v].balance > 0 /\ credit[v].status # "OVERDUE"}
Open == {v \in Sales : credit[v].balance > 0}
DebtSummary ==
  [totalOutstanding |-> SumFunction([v \in Open |-> credit[v].balance]),
   totalPrincipal   |-> SumFunction([v \in Open |-> credit[v].principal]),
   totalCollected   |-> SumFunction([v \in Open |-> credit[v].amountPaid]),
   openAccounts     |-> Cardinality(Open),
   overdueAmount    |-> SumFunction([v \in Open \cap due |-> credit[v].balance])]
CustomerStats ==
  [totalPurchases |-> SaleSummary.revenue, orderCount |-> SaleSummary.sales,
   outstandingDebt |-> SumFunction([v \in Open |-> credit[v].balance])]
(* CustomerDetail: the debts listed under Outstanding credit.              *)
ListedDebts == {v \in Recorded : credit[v].balance > 0}

-----------------------------------------------------------------------------
(* The pages agree with each other, unless two requests worked on one sale *)
(* at once: what the sales page says is owed is what the debt report and   *)
(* the customer's page say, on as many accounts; principal less collected  *)
(* is what is outstanding; a debt flagged overdue is one the report counts *)
(* by its date; a sale is in exactly one chip; and on data just read a     *)
(* cancellation that is offered is accepted, and a listed debt takes a     *)
(* payment up to its balance.                                              *)
PagesAgree ==
  LET said == SaleSummary
      debts == DebtSummary
  IN
  /\ AllStatuses = said.sales + said.cancelled
  /\ CustomerStats.outstandingDebt = debts.totalOutstanding
  /\ debts.totalPrincipal - debts.totalCollected = debts.totalOutstanding
  /\ \A v \in Recorded :
       /\ CancelOffered(v) <=> MayCancel(sale[v].status)
       /\ credit[v].status = "OVERDUE" => v \in due
       /\ v \in ListedDebts => MayPay(credit[v], credit[v].balance)
  /\ \A total \in 1..MaxPrincipal, down \in 0..MaxPrincipal :
       Shortfall(total, down) = BalanceDue(total, down)
  /\ crossed = {} =>
       /\ said.owed = debts.totalOutstanding
       /\ said.unpaid = debts.openAccounts
       /\ ListedDebts = Open
       /\ debts.overdueAmount <= said.owed
===============================================================================
