-------------------------------- MODULE Figures --------------------------------
(***************************************************************************)
(* What the owner's screens compute from the rows of Trade: the profit     *)
(* reports, the balances, the supplier bills, the balance sheet, and the   *)
(* pages and statements composed of them.  One operator per function of    *)
(* the services, named as there; a window is a set of months.              *)
(***************************************************************************)
EXTENDS Trade

Least(a, b) == IF a < b THEN a ELSE b
Everyone == Team \cup {"direct"}
(* resolveRange and rangeFor, whose dates are whole months here. *)
WindowOf(period) == IF period = "all" THEN Months ELSE {month}
(* clampToEpoch, epochWhere: money counts from the epoch on. *)
Clamped(W) == {t \in W : t >= epoch}
SoldIn(W) == {x \in Live : sale[x].at \in W}

-----------------------------------------------------------------------------
(* Profit: every line at what it brought in after the discount. *)
lineFinancialsListed(x) == [revenue |-> Price, cost |-> LineCost(x)]
lineFinancials(x) == [revenue |-> Price - sale[x].off, cost |-> LineCost(x)]
Profit(S) ==
  LET revenue == Sum(S, LAMBDA x : lineFinancials(x).revenue)
      cost == Sum(S, LAMBDA x : lineFinancials(x).cost)
  IN [revenue |-> revenue, cost |-> cost, profit |-> revenue - cost, boxes |-> Cardinality(S),
      commission |-> Rate * Cardinality({x \in S : sale[x].rep \in Team})]
OfBrand(S, b) == {x \in S : sale[x].brand = b}
OfRep(S, r) == {x \in S : sale[x].rep = r}
profitOverview(W) ==
  LET S == SoldIn(Clamped(W))
  IN [totals |-> Profit(S),
      byBrand |-> [b \in Brands |-> Profit(OfBrand(S, b))],
      byRep |-> [r \in Everyone |-> Profit(OfRep(S, r))]]
profitByPeriods(P) ==
  [p \in P |-> LET S == SoldIn(Clamped(WindowOf(p)))
               IN [totals |-> Profit(S), byBrand |-> [b \in Brands |-> Profit(OfBrand(S, b))]]]

(* The reports that read the totals stored on the sale. *)
Totals(S) ==
  [revenue |-> Sum(S, Total), cost |-> Sum(S, LAMBDA x : sale[x].unitCost),
   discounts |-> Sum(S, LAMBDA x : sale[x].off)]
salesReport(W) ==
  LET S == SoldIn(Clamped(W))
      paidBy(type) == Sum({x \in S : sale[x].type = type}, Total)
      all == Totals(S)
  IN [revenue |-> all.revenue, cost |-> all.cost, discounts |-> all.discounts,
      cash |-> paidBy("CASH"), credit |-> paidBy("CREDIT")]
profitReport(W) == Totals(SoldIn(Clamped(W)))
regionalPerformance(W) == [r \in Everyone |-> Totals(OfRep(SoldIn(Clamped(W)), r))]

(* The reports that read the lines at list price, before any discount. *)
Listed(S) == [revenue |-> Price * Cardinality(S), cost |-> Sum(S, LAMBDA x : sale[x].unitCost)]
productPerformance(W) == [b \in Brands |-> Listed(OfBrand(SoldIn(Clamped(W)), b))]
topProductsByRevenue(W) == [b \in Brands |-> Listed(OfBrand(SoldIn(Clamped(W)), b)).revenue]
dailySeries(W) == [t \in W |-> Listed(SoldIn({t}))]
brandBreakdown ==
  [b \in Brands |-> LET S == OfBrand(SoldIn(Clamped({month})), b)
                    IN [sales |-> Listed(S).revenue, cost |-> costPrice[b] * Cardinality(S),
                        units |-> Stocked(b), warehouse |-> shelf[b]]]
revenueByRep(W) == [r \in Team |-> Sum(OfRep(SoldIn(Clamped(W)), r), Total)]

-----------------------------------------------------------------------------
(* Money: the wallets and what moved through them. *)
Entered(K, B, W) == Sum(K \X B \X W, LAMBDA e : book[e[1]][e[2]][e[3]])
In == {"SALE", "INCOME", "OWNER_CONTRIBUTION"}
Trading == [in |-> {"SALE", "INCOME"}, out |-> {"EXPENSE", "STOCK_PURCHASE"}]
accountBalances ==
  [b \in open |-> LET W == Clamped(Months)
                  IN Opening[b] + Entered(In, {b}, W) - Entered(Kinds \ In, {b}, W)]
Moved(B, W) == [in |-> Entered(Trading.in, B, W), out |-> Entered(Trading.out, B, W)]
flowBetween(W) == Moved(open, W)
(* The money strip of the finance page counts closed wallets too. *)
flow(period) == Moved(Brands, Clamped(WindowOf(period)))
ownerFigures(W) ==
  LET C == Clamped(W)
      put == Entered({"OWNER_CONTRIBUTION"}, open, C)
      drawn == Entered({"OWNER_DRAWING"}, open, C)
      pocket == Sum(C, LAMBDA t : payouts[t])
  IN [intoAccounts |-> put, drawn |-> drawn, commissionFromPocket |-> pocket,
      accountMovement |-> put - drawn, total |-> put + pocket - drawn]
cashflow(W) ==
  LET C == Clamped(W)
      earlier == {t \in Clamped(Months) : \A u \in W : t < u}
      f == flowBetween(C)
      before == flowBetween(earlier)
      opening == Sum(open, LAMBDA b : Opening[b]) + before.in - before.out
  IN [opening |-> opening, in |-> f.in, out |-> f.out,
      closing |-> opening + f.in - f.out + ownerFigures(W).accountMovement]
otherIncome(W) == Entered({"INCOME"}, Brands, Clamped(W))
report(W) ==
  LET p == profitOverview(W).totals
      spent(k) == Entered({k}, Brands, Clamped(W))
  IN [revenue |-> p.revenue, cogs |-> p.cost, grossProfit |-> p.profit,
      expenses |-> spent("EXPENSE"), netProfit |-> p.profit - spent("EXPENSE"),
      supplierPayments |-> spent("STOCK_PURCHASE"), otherIncome |-> otherIncome(W),
      commissionPaid |-> Sum(Clamped(W), LAMBDA t : payouts[t]), cashFlow |-> cashflow(W)]
(* The ledger page: every row, the payouts taken back out of its totals. *)
listTransactions(W) ==
  [in |-> Entered(In, Brands, W), out |-> Entered(Kinds \ In, Brands, W),
   fromPocket |-> Sum(W, LAMBDA t : payouts[t])]

-----------------------------------------------------------------------------
(* Stock, debts, suppliers, reps. *)
valuation ==
  LET value(n) == Sum(Brands, LAMBDA b : n[b] * costPrice[b])
      held == [b \in Brands |-> Stocked(b) - shelf[b]]
  IN [warehouse |-> value(shelf), reps |-> value(held), total |-> value(shelf) + value(held),
      units |-> Sum(Brands, Stocked)]
repStockList(r) == Sum(Brands, LAMBDA b : hand[r][b] * costPrice[b])
debtSummary == Sum(Slots, LAMBDA x : debt[x])
supplierSummaries ==
  [b \in Brands |-> [purchased |-> bill[b].ordered, paid |-> bill[b].paid,
                     returned |-> bill[b].credited, outstanding |-> Outstanding(b)]]
(* Two aggregates over the rows of all suppliers: the card of the finance  *)
(* page, and the sum the dashboard takes of the summaries.                  *)
supplierOutstandingUncredited ==
  Max0(Sum(Brands, LAMBDA b : bill[b].ordered) - Sum(Brands, LAMBDA b : bill[b].paid))
supplierOutstanding ==
  LET all(f) == Sum(Brands, LAMBDA b : bill[b][f])
  IN Max0(all("ordered") - all("credited") - all("paid"))
supplierDue == Sum(Brands, LAMBDA b : supplierSummaries[b].outstanding)
supplierDueNow(b, costOfSold) == Least(Outstanding(b), Max0(costOfSold - bill[b].paid))
supplierDueNowAcross(byBrand) == Sum(Brands, LAMBDA b : supplierDueNow(b, byBrand[b].cost))
(* summaryAllReps looks at active reps only, and the payable adds what is  *)
(* approved for anybody.                                                    *)
summaryAllReps ==
  [available |-> Sum(staff, LAMBDA r : Max0(Available(r))),
   requested |-> Sum(staff, LAMBDA r : draw[r].PENDING)]
repCommissionPayable ==
  summaryAllReps.available + summaryAllReps.requested + Sum(Team, LAMBDA r : draw[r].APPROVED)
salesRepPerformance(W) ==
  [r \in staff |-> Totals(OfRep(SoldIn(Clamped(W)), r)) @@ [owed |-> Available(r)]]
salesReps ==
  [r \in Team |-> [sales |-> Sum(OfRep(Live, r), Total), value |-> repStockList(r),
                   owed |-> IF r \in staff THEN Available(r) ELSE 0]]

-----------------------------------------------------------------------------
(* The finance page: each wallet's cash split into what is due to the      *)
(* supplier now and what is the owner's, and the balance sheet.             *)
cashSplit(W) ==
  LET balance == accountBalances
      byBrand == profitOverview(W).byBrand
  IN [b \in open |->
     LET cash == balance[b]
         dueNow == supplierDueNow(b, byBrand[b].cost)
         setAside == Least(cash, dueNow)
     IN [cash |-> cash, dueNow |-> dueNow, dueLater |-> Max0(Outstanding(b) - dueNow),
         setAside |-> setAside, yours |-> cash - setAside]]
cashPosition == LET balance == accountBalances IN Sum(open, LAMBDA b : balance[b])
buildCapital ==
  LET holds == cashPosition + valuation.total
      dueNow == Least(supplierOutstanding, Max0(supplierDueNowAcross(profitOverview(Months).byBrand)))
      outside == supplierOutstanding + repCommissionPayable
      owner == ownerFigures(Months).total
  IN [holds |-> holds, dueNow |-> dueNow, dueLater |-> supplierOutstanding - dueNow,
      outside |-> outside, owner |-> owner, yourCapital |-> holds - outside,
      left |-> holds - (outside + owner)]
brandFinance(W) ==
  LET byBrand == profitOverview(W).byBrand
  IN [b \in Brands |->
     LET p == byBrand[b]
         spent(K) == Entered(K, {b}, Clamped(W))
     IN [revenue |-> p.revenue, expenses |-> spent({"EXPENSE"}), in |-> spent(In),
         out |-> spent(Kinds \ In), stock |-> Stocked(b) * costPrice[b]]]
earnedAllTime ==
  profitOverview(Months).totals.profit - Entered({"EXPENSE"}, Brands, Clamped(Months))
overview(W) ==
  LET p == profitOverview(W).totals
      spent == Entered({"EXPENSE"}, Brands, Clamped(W))
  IN [revenue |-> p.revenue, grossProfit |-> p.profit, expenses |-> spent,
      netProfit |-> p.profit - spent, cash |-> cashPosition, customersOwe |-> debtSummary,
      earnedAllTime |-> earnedAllTime]
(* The admin dashboard, and the statements sent by WhatsApp. *)
boxesShown == LET split == brandBreakdown IN Sum(Brands, LAMBDA b : split[b].units)
command ==
  LET periods == profitByPeriods({"month", "all"})
  IN [month |-> profitOverview({month}).totals, window |-> periods["month"].totals,
      brands |-> [b \in Brands |-> periods["month"].byBrand[b]],
      repSales |-> revenueByRep({month}), supplierDue |-> supplierDue,
      boxes |-> boxesShown]
buildMonthlyData ==
  LET r == report({month})
  IN [revenue |-> r.revenue, netProfit |-> r.netProfit, cash |-> cashPosition,
      brands |-> profitOverview({month}).byBrand, supplierDue |-> supplierDue,
      reps |-> [q \in Team |-> Listed(OfRep(SoldIn({month}), q)).revenue]]

-----------------------------------------------------------------------------
(* What the balance sheet says is left is what the trade made of the       *)
(* owner's opening money: no shilling and no box appears or disappears     *)
(* between the ledger, the stock, the bills and the reps' commission.  It  *)
(* is short by the parts no screen counts: money of sales that reached no  *)
(* wallet (debts collected included), what happened before the epoch,      *)
(* wallets that were closed, and balances of reps who left or owe.         *)
UnpostedSales == Sum({x \in SoldIn(Clamped(Months)) : sale[x].posted = "no"}, Total)
BeforeEpoch ==
  LET W == Months \ Clamped(Months)
  IN Entered({"STOCK_PURCHASE"}, Brands, W) + Sum(W, LAMBDA t : payouts[t])
     - Sum(SoldIn(W), LineCost)
ClosedWallets ==
  LET C == Clamped(Months)
      shut == Brands \ open
  IN Sum(shut, LAMBDA b : Opening[b]) + Moved(shut, C).in - Moved(shut, C).out
RepsUnseen ==
  Sum(Team \ staff, LAMBDA r : Available(r) + draw[r].PENDING)
  + Sum({r \in staff : Available(r) < 0}, Available)
BooksBalance ==
  supplierDue >= 0 =>
    buildCapital.left =
      Sum(Brands, LAMBDA b : Opening[b])
      + earnedAllTime + otherIncome(Months) - UnpostedSales
      - Sum(Brands, LAMBDA b : bill[b].awaited - bill[b].credited) - written
      - Sum(Team, Earned) + Sum(Team, LAMBDA r : fined[r])
      + BeforeEpoch - ClosedWallets + RepsUnseen

(* Screens that show one figure show one number: the reports split by      *)
(* brand, rep and region add up to the totals; the list prices differ from *)
(* them by the discounts alone; the two supplier debts, the two money      *)
(* strips, the two closing balances and the parts of the cash agree.        *)
FiguresAgree ==
  /\ \A p \in {"month", "all"} :
       LET W == WindowOf(p)
           o == profitOverview(W)
           net == o.totals.revenue
           s == salesReport(W)
           region == regionalPerformance(W)
           rep == revenueByRep(W)
           listed == productPerformance(W)
           c == cashflow(W)
           unposted == {x \in SoldIn(Clamped(W)) : sale[x].posted = "no"}
       IN /\ s.revenue = net /\ s.cash + s.credit = net
          /\ profitReport(W).revenue = net
          /\ profitByPeriods({p})[p].totals = o.totals
          /\ net = Sum(Brands, LAMBDA b : o.byBrand[b].revenue)
          /\ net = Sum(Everyone, LAMBDA r : o.byRep[r].revenue)
          /\ net = Sum(Everyone, LAMBDA r : region[r].revenue)
          /\ net = Sum(Team, LAMBDA r : rep[r]) + o.byRep["direct"].revenue
          /\ net + s.discounts = Sum(Brands, LAMBDA b : listed[b].revenue)
          /\ (\A x \in Live : sale[x].unitCost > 0) => s.cost = o.totals.cost
          /\ open = Brands =>
               /\ flow(p) = [in |-> c.in, out |-> c.out]
               /\ net - Sum(unposted, Total) = Entered({"SALE"}, Brands, Clamped(W))
          /\ p = "all" => c.closing = cashPosition
  /\ supplierDue >= 0 => supplierOutstanding = supplierDue
  /\ LET balance == accountBalances
         split == cashSplit(Months)
     IN \A b \in open : LET part == split[b] IN part.yours + part.setAside = balance[b]
  /\ valuation.reps = Sum(Team, repStockList)
  /\ boxesShown = valuation.units
===============================================================================
