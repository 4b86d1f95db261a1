--------------------------------- MODULE Trade ---------------------------------
(***************************************************************************)
(* The rows the owner's figures are computed from: sales and their lines,  *)
(* boxes on the shelf and with the reps, supplier bills, ledger totals,    *)
(* customer debts and what reps may draw.  An action is what one handler   *)
(* leaves in those rows when it has finished; how the handlers interleave  *)
(* is the subject of the modules on their own books (OrderBook,            *)
(* InventoryLedger, CashBook, Purchasing, CustomerCredit, Payouts).        *)
(*                                                                         *)
(* A brand has one product, one wallet and one supplier; time is counted   *)
(* in reporting months, and a sale is of one box.                          *)
(***************************************************************************)
EXTENDS Integers, FiniteSets, FiniteSetsExt, TLC

CONSTANTS Brands,
          Team,      \* sales representatives
          Slots,     \* sales that may be made
          Price,     \* sellingPrice of a box
          Costs,     \* landed costs of a box
          Rate,      \* commission on a settled box
          Opening,   \* Opening[b]: openingBalance of the wallet of b
          MaxEvents  \* bound: events

VARIABLES
  sale,      \* sale[x]: the sale and its one line
  debt,      \* debt[x]: CreditSale.balance
  shelf,     \* shelf[b]: boxes in the warehouse
  hand,      \* hand[r][b]: boxes with a rep
  costPrice, \* costPrice[b]: Product.purchasePrice, 0 until a first delivery
  bill,      \* bill[b]: bills of the supplier, boxes on the way, payments, credits
  book,      \* book[k][b][t]: ledger rows of a kind on a wallet in a month
  payouts,   \* payouts[t]: COMMISSION_PAYMENT rows of a month
  draw,      \* draw[r]: withdrawals by status
  fined,     \* fined[r]: APPLIED penalties
  open,      \* wallets that are isActive
  staff,     \* reps that are isActive
  written,   \* history: value the boxes lost by correction or by a new price
  month,     \* the current month
  epoch,     \* the month of finance.epochAt
  events     \* counter for the bound

goods == <<shelf, hand, costPrice, written>>
money == <<book, payouts, open>>
reps == <<draw, fined, staff>>
trades == <<sale, debt>>
clock == <<month, epoch>>
vars == <<trades, goods, bill, money, reps, clock, events>>

Months == 1..2
Kinds == {"SALE", "INCOME", "EXPENSE", "STOCK_PURCHASE", "OWNER_CONTRIBUTION", "OWNER_DRAWING"}
NoSale == [st |-> "NONE"]
Live == {x \in Slots : sale[x].st = "LIVE"}
Unused == {x \in Slots : sale[x] = NoSale}
Sum(S, f(_)) == SumFunction([x \in S |-> f(x)])
Max0(n) == IF n > 0 THEN n ELSE 0

(* What a sold box cost: frozen at the sale, or today's price for a line    *)
(* that carries none (lineFinancials).                                     *)
LineCost(x) == IF sale[x].unitCost > 0 THEN sale[x].unitCost ELSE costPrice[sale[x].brand]

(* A month of trade has left one sale, on credit or of an order, its money *)
(* entered, with the commission perhaps promised, or still to be; a rep holds *)
(* a box of each brand and one is on the shelf, billed at the cost price   *)
(* they carry; another delivery is on its way.                             *)
FirstBrand == CHOOSE b \in Brands : TRUE
FirstSlot == CHOOSE x \in Slots : TRUE
Sold(b, r, w) ==
  [st |-> "LIVE", brand |-> b, rep |-> r, type |-> IF r = "direct" THEN "CREDIT" ELSE "CASH",
   off |-> 0, unitCost |-> costPrice[b], at |-> 1, posted |-> w]
Init ==
  /\ costPrice \in {[b \in Brands |-> c] : c \in {0, 1}}
  /\ \E r \in Team \cup {"direct"} :
     \E w \in IF r = "direct" THEN {"no"} ELSE {FirstBrand, "no"} :
     \E promised \in IF w = "no" THEN {0} ELSE 0..Rate :
       /\ sale = [[y \in Slots |-> NoSale] EXCEPT ![FirstSlot] = Sold(FirstBrand, r, w)]
       /\ debt = [y \in Slots |-> IF y = FirstSlot /\ r = "direct" THEN Price ELSE 0]
       /\ book = [k \in Kinds |-> [c \in Brands |-> [t \in Months |->
                    IF k = "SALE" /\ c = w /\ t = 1 THEN Price ELSE 0]]]
       /\ bill = [c \in Brands |->
                    [ordered |-> 1 + costPrice[c] *
                       (1 + Cardinality(Team) + (IF c = FirstBrand THEN 1 ELSE 0)),
                     awaited |-> 1, paid |-> 0, credited |-> 0]]
       /\ draw = [q \in Team |-> [PENDING |-> 0, APPROVED |-> IF q = r THEN promised ELSE 0,
                                  PAID |-> 0]]
  /\ shelf = [b \in Brands |-> 1]
  /\ hand = [r \in Team |-> [b \in Brands |-> 1]]
  /\ payouts = [t \in Months |-> 0]
  /\ fined = [r \in Team |-> 0]
  /\ open = Brands /\ staff = Team
  /\ written = 0
  /\ month = 1 /\ epoch \in Months
  /\ events = 0

(* The one beginning in which the sale was on credit and nothing was       *)
(* entered, promised or priced.                                            *)
NothingPosted ==
  /\ epoch = 1 /\ \A b \in Brands : costPrice[b] = 0
  /\ \A x \in Slots : debt[x] = 0 => sale[x] = NoSale

Event == events < MaxEvents /\ events' = events + 1
Enter(k, w, t, n) == book' = [book EXCEPT ![k][w][t] = @ + n]
Total(x) == Price - sale[x].off

-----------------------------------------------------------------------------
(* What a brand's sale leaves in its wallet: nothing if the wallet is       *)
(* closed, or if the entry, made after the sale and best effort, is lost.   *)
Landing(b) == {"no"} \cup ({b} \cap open)
PostSale(w, n) == IF w = "no" THEN book' = book ELSE Enter("SALE", w, month, n)

NextSlot == CHOOSE x \in Unused : TRUE
Enrol(b, r, type, off, w) ==
  /\ Unused # {}
  /\ sale' = [sale EXCEPT ![NextSlot] =
       [st |-> "LIVE", brand |-> b, rep |-> r, type |-> type, off |-> off,
        unitCost |-> costPrice[b], at |-> month, posted |-> w]]
  /\ PostSale(w, Price - off)

(* createSale over the counter, for cash or on credit, refused for a brand *)
(* with no wallet: the cost is frozen at today's cost price.                *)
SellFromShelf(b, type, off) ==
  /\ Event
  /\ shelf[b] > 0 /\ b \in open
  /\ \E w \in IF type = "CASH" THEN Landing(b) ELSE {"no"} :
       /\ Enrol(b, "direct", type, off, w)
       /\ debt' = [debt EXCEPT ![NextSlot] = IF type = "CREDIT" THEN Price - off ELSE 0]
  /\ shelf' = [shelf EXCEPT ![b] = @ - 1]
  /\ UNCHANGED <<hand, costPrice, written, bill, payouts, open, reps, clock>>

(* settleBoxesTx: a rep pays for a box of an order. *)
Settle(r, b) ==
  /\ Event
  /\ hand[r][b] > 0
  /\ \E w \in Landing(b) : Enrol(b, r, "CASH", 0, w)
  /\ hand' = [hand EXCEPT ![r][b] = @ - 1]
  /\ UNCHANGED <<debt, shelf, costPrice, written, bill, payouts, open, reps, clock>>

(* cancelSale: the box goes back where it came from, at today's price, the *)
(* income row goes, the debt is written off.                                *)
CancelSale(x) ==
  LET v == sale[x]
  IN /\ Event
     /\ x \in Live
     /\ sale' = [sale EXCEPT ![x].st = "CANCELLED"]
     /\ debt' = [debt EXCEPT ![x] = 0]
     /\ IF v.rep \in Team
        THEN hand' = [hand EXCEPT ![v.rep][v.brand] = @ + 1] /\ shelf' = shelf
        ELSE shelf' = [shelf EXCEPT ![v.brand] = @ + 1] /\ hand' = hand
     /\ written' = written + LineCost(x) - costPrice[v.brand]
     /\ IF v.posted = "no" THEN book' = book ELSE Enter("SALE", v.posted, v.at, -Total(x))
     /\ UNCHANGED <<costPrice, bill, payouts, open, reps, clock>>

(* recordPayment: the debt falls; nothing is posted to a wallet. *)
CollectDebt(x, n) ==
  /\ Event
  /\ n <= debt[x]
  /\ debt' = [debt EXCEPT ![x] = @ - n]
  /\ UNCHANGED <<sale, goods, bill, money, reps, clock>>

(* backfillFromHistory, run whenever the finance pages open: every live    *)
(* cash sale since the epoch that has no row gets one, in the wallet of its *)
(* brand or, if that is closed, in the default one.                         *)
OpenFinance ==
  LET missing == {x \in Live : sale[x].type = "CASH" /\ sale[x].posted = "no" /\ sale[x].at >= epoch}
  IN /\ Event
     /\ missing # {}
     /\ \E default \in open :
          LET wallet(x) == IF sale[x].brand \in open THEN sale[x].brand ELSE default
          IN /\ sale' = [x \in Slots |->
                           IF x \in missing THEN [sale[x] EXCEPT !.posted = wallet(x)] ELSE sale[x]]
             /\ book' = [book EXCEPT !["SALE"] = [w \in Brands |-> [t \in Months |->
                           @[w][t] + Sum({x \in missing : wallet(x) = w /\ sale[x].at = t}, Total)]]]
     /\ UNCHANGED <<debt, goods, bill, payouts, open, reps, clock>>

-----------------------------------------------------------------------------
(* createTransfer to a rep, and the boxes of a return back on the shelf. *)
Issue(r, b) ==
  /\ Event
  /\ r \in staff /\ shelf[b] > 0
  /\ shelf' = [shelf EXCEPT ![b] = @ - 1]
  /\ hand' = [hand EXCEPT ![r][b] = @ + 1]
  /\ UNCHANGED <<trades, costPrice, written, bill, money, reps, clock>>
TakeBack(r, b) ==
  /\ Event
  /\ hand[r][b] > 0
  /\ shelf' = [shelf EXCEPT ![b] = @ + 1]
  /\ hand' = [hand EXCEPT ![r][b] = @ - 1]
  /\ UNCHANGED <<trades, costPrice, written, bill, money, reps, clock>>

(* A stock correction, a count or a damage report. *)
Correct(b, d) ==
  /\ Event
  /\ shelf[b] + d >= 0
  /\ shelf' = [shelf EXCEPT ![b] = @ + d]
  /\ written' = written - d * costPrice[b]
  /\ UNCHANGED <<trades, hand, costPrice, bill, money, reps, clock>>

(* createPurchaseOrder and its cancellation; receivePurchaseOrder prices   *)
(* every box of the product at the landed cost of this delivery.           *)
Order(b, c) ==
  /\ Event
  /\ bill[b].awaited = 0
  /\ bill' = [bill EXCEPT ![b].ordered = @ + c, ![b].awaited = c]
  /\ UNCHANGED <<trades, goods, money, reps, clock>>
DropOrder(b) ==
  /\ Event
  /\ bill[b].awaited > 0
  /\ bill' = [bill EXCEPT ![b].ordered = @ - bill[b].awaited, ![b].awaited = 0]
  /\ UNCHANGED <<trades, goods, money, reps, clock>>
Stocked(b) == shelf[b] + Sum(Team, LAMBDA r : hand[r][b])
Uncosted(b) == Cardinality({x \in Live : sale[x].brand = b /\ sale[x].unitCost = 0})
Receive(b) ==
  LET c == bill[b].awaited
  IN /\ Event
     /\ c > 0
     /\ bill' = [bill EXCEPT ![b].awaited = 0]
     /\ shelf' = [shelf EXCEPT ![b] = @ + 1]
     /\ costPrice' = [costPrice EXCEPT ![b] = c]
     /\ written' = written - (c - costPrice[b]) * (Stocked(b) + Uncosted(b))
     /\ UNCHANGED <<trades, hand, money, reps, clock>>

Outstanding(b) == bill[b].ordered - bill[b].credited - bill[b].paid

(* paySupplierBalance, and recordSupplierCredit: at most what is owed. *)
PaySupplier(b, n) ==
  /\ Event
  /\ b \in open /\ n <= Outstanding(b)
  /\ bill' = [bill EXCEPT ![b].paid = @ + n]
  /\ Enter("STOCK_PURCHASE", b, month, n)
  /\ UNCHANGED <<trades, goods, payouts, open, reps, clock>>
SendBack(b, n) ==
  /\ Event
  /\ n <= Outstanding(b)
  /\ bill' = [bill EXCEPT ![b].credited = @ + n]
  /\ UNCHANGED <<trades, goods, money, reps, clock>>

-----------------------------------------------------------------------------
(* recordTransaction: an expense, another income, the owner's own money. *)
ByHand(k, b, t) ==
  /\ Event
  /\ b \in open
  /\ Enter(k, b, t, 1)
  /\ UNCHANGED <<trades, goods, bill, payouts, open, reps, clock>>

(* updateAccount: a wallet is closed, or opened again. *)
SwitchWallet(b) ==
  /\ Event
  /\ open' = IF b \in open THEN open \ {b} ELSE open \cup {b}
  /\ UNCHANGED <<trades, goods, bill, book, payouts, reps, clock>>

(* earnedForRep, penaltyBreakdownForRep, withdrawalTotals, computeForRep.  *)
Earned(r) == Rate * Cardinality({x \in Live : sale[x].rep = r})
Available(r) ==
  Earned(r) - draw[r].PENDING - draw[r].APPROVED - draw[r].PAID - fined[r]

(* requestWithdrawal; decideWithdrawal, whose payment is a row of the      *)
(* record of payouts and of no wallet.                                     *)
RequestPayout(r) ==
  /\ Event
  /\ Available(r) >= 1
  /\ draw' = [draw EXCEPT ![r].PENDING = @ + 1]
  /\ UNCHANGED <<trades, goods, bill, money, fined, staff, clock>>
DecidePayout(r, from, to) ==
  /\ Event
  /\ <<from, to>> \in {<<"PENDING", "APPROVED">>, <<"PENDING", "PAID">>, <<"APPROVED", "PAID">>}
  /\ draw[r][from] > 0
  /\ draw' = [draw EXCEPT ![r][from] = @ - 1, ![r][to] = @ + 1]
  /\ payouts' = IF to = "PAID" THEN [payouts EXCEPT ![month] = @ + 1] ELSE payouts
  /\ UNCHANGED <<trades, goods, bill, book, open, fined, staff, clock>>
RejectPayout(r) ==
  /\ Event
  /\ draw[r].PENDING > 0
  /\ draw' = [draw EXCEPT ![r].PENDING = @ - 1]
  /\ UNCHANGED <<trades, goods, bill, money, fined, staff, clock>>

(* A fine is charged, or waived. *)
Fine(r, d) ==
  /\ Event
  /\ fined[r] + d >= 0
  /\ fined' = [fined EXCEPT ![r] = @ + d]
  /\ UNCHANGED <<trades, goods, bill, money, draw, staff, clock>>

(* A rep leaves the team, or comes back. *)
SwitchRep(r) ==
  /\ Event
  /\ staff' = IF r \in staff THEN staff \ {r} ELSE staff \cup {r}
  /\ UNCHANGED <<trades, goods, bill, money, draw, fined, clock>>

NextMonth ==
  /\ month + 1 \in Months
  /\ month' = month + 1
  /\ UNCHANGED <<trades, goods, bill, money, reps, epoch, events>>

-----------------------------------------------------------------------------
Next ==
  \/ \E b \in Brands :
       \/ \E type \in {"CASH", "CREDIT"}, off \in 0..1 : SellFromShelf(b, type, off)
       \/ \E r \in Team : Settle(r, b)
  \/ \E x \in Slots : CancelSale(x) \/ \E n \in 1..Price : CollectDebt(x, n)
  \/ \E r \in Team, b \in Brands : Issue(r, b) \/ TakeBack(r, b)
  \/ \E b \in Brands :
       \/ \E d \in {-1, 1} : Correct(b, d)
       \/ DropOrder(b) \/ Receive(b) \/ SwitchWallet(b)
       \/ \E c \in Costs : Order(b, c)
       \/ \E n \in 1..2 : PaySupplier(b, n) \/ SendBack(b, n)
       \/ \E k \in Kinds \ {"SALE", "STOCK_PURCHASE"} : ByHand(k, b, month)
  \/ \E r \in Team :
       \/ RequestPayout(r) \/ RejectPayout(r) \/ SwitchRep(r)
       \/ \E from \in {"PENDING", "APPROVED"}, to \in {"APPROVED", "PAID"} :
            DecidePayout(r, from, to)
       \/ \E d \in {-1, 1} : Fine(r, d)
  \/ OpenFinance \/ NextMonth

Spec == Init /\ [][Next]_vars

(* No place holds less than nothing, no wallet has less sale money than    *)
(* was put in, and nothing is drawn, fined, paid or owed below zero.        *)
TypeOK ==
  /\ \A b \in Brands : shelf[b] >= 0 /\ bill[b].paid >= 0 /\ bill[b].awaited \in Costs \cup {0}
  /\ \A r \in Team, b \in Brands : hand[r][b] >= 0
  /\ \A k \in Kinds, b \in Brands, t \in Months : book[k][b][t] >= 0
  /\ \A x \in Slots : debt[x] >= 0 /\ (debt[x] > 0 => sale[x].st = "LIVE")
  /\ \A r \in Team : fined[r] >= 0 /\ \A st \in DOMAIN draw[r] : draw[r][st] >= 0
===============================================================================
