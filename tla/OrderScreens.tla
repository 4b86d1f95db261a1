----------------------------- MODULE OrderScreens -----------------------------
(***************************************************************************)
(* What people see of an order, and what the screens let them send: the    *)
(* queries of settlement.service.js and returns.service.js (decorate,      *)
(* list, get, summary, returnsSummary) and the pages that show them        *)
(* (OrderDetail.jsx, Settlements.jsx, Returns.jsx), over the state of      *)
(* OrderBook.  Nothing here changes the state.  A form is the set of       *)
(* requests its buttons and inputs can produce from a page just loaded.    *)
(***************************************************************************)
EXTENDS OrderBook, FiniteSets

SumOver(S, f(_)) == SumFunction([x \in S |-> f(x)])
Placed == {o \in Orders : status[o] # "NONE"}

-----------------------------------------------------------------------------
(* effectiveStatus: a closed order is closed, any other past its deadline  *)
(* is overdue, swept or not.                                               *)
EffectiveStatus(o) ==
  IF status[o] # "SETTLED" /\ late[o] THEN "OVERDUE" ELSE status[o]
Settled(o) == EffectiveStatus(o) = "SETTLED"

(* orderBreakdown: a product shows at least zero boxes left. *)
Remaining(o, p) == Max0(Outstanding(o, p))
RemainingBoxes(o) == SumOver(Products, LAMBDA p : Remaining(o, p))

(* decorate: the order is worth its boxes; balance is what is not paid or  *)
(* returned.                                                               *)
AssignedValue(o) == SumOver(Products, LAMBDA p : issued[o][p])
ReturnedValue(o) == SumOver(Products, LAMBDA p : returned[o][p])
Balance(o) == Max0(AssignedValue(o) - value[o] - ReturnedValue(o))
ShowsSelfExtend(o) == ~Settled(o) /\ EffectiveStatus(o) # "OVERDUE"
ShowsUndo(o) == ~Settled(o) /\ o \in moved

(* boxesForOrders: one count for the whole order, clamped at the end. *)
OrderBoxes(o) ==
  LET iss == AssignedValue(o)
      stl == SumOver(Products, LAMBDA p : settled[o][p])
  IN [issued |-> iss, settled |-> stl, returned |-> ReturnedValue(o),
      remaining |-> Max0(iss - stl - ReturnedValue(o)),
      submitted |-> SumOver(Products, LAMBDA p : SubmittedBoxes(o, p, "PENDING")),
      returning |-> SumOver(Products, LAMBDA p : ReturnBoxes(o, p, "PENDING"))]

(* list: the overdue filter looks for orders the sweep has not marked. *)
OrderList(filter) ==
  CASE filter = "ALL" -> Placed
    [] filter = "OVERDUE" ->
         {o \in Placed : status[o] \in {"OPEN", "PARTIAL"} /\ late[o]}
    [] OTHER -> {o \in Placed : status[o] = filter}

(* summary: the live orders, the counts on the chips and the cards. *)
LiveOrders == {o \in Placed : status[o] \in Unpaid}
StatusCount(s) ==
  IF s = "SETTLED" THEN Cardinality(Placed) - Cardinality(LiveOrders)
  ELSE Cardinality({o \in LiveOrders : EffectiveStatus(o) = s})
BoxesWithReps == SumOver(LiveOrders, LAMBDA o : OrderBoxes(o).remaining)

-----------------------------------------------------------------------------
(* OrderDetail.jsx.  The settlement form offers the boxes in no pending    *)
(* submission and no pending return.                                       *)
(* Mutant: pending submissions are not taken off. *)
SettleMaxUnlocked(o, p) ==
  Max0(Remaining(o, p) - ReturnBoxes(o, p, "PENDING"))
SettleMax(o, p) ==
  Max0(Remaining(o, p) - SubmittedBoxes(o, p, "PENDING")
         - ReturnBoxes(o, p, "PENDING"))
SettleForm(o) ==
  {f \in Products \X (1..MaxLine) : f[2] <= SettleMax(o, f[1])}

(* The return form offers the boxes in no pending return, all GOOD. *)
ReturnMax(o, p) == Max0(Remaining(o, p) - ReturnBoxes(o, p, "PENDING"))
ReturnForm(o) ==
  {f \in Products \X Lines : f[2]["DAMAGED"] = 0 /\ f[2]["GOOD"] <= ReturnMax(o, f[1])}

(* The buttons of the order, by who looks at it: staff, or the order's own *)
(* rep.  A form with nothing to choose from sends nothing.                 *)
Offers(o, who) ==
  LET active == ~Settled(o)
      owed == active /\ RemainingBoxes(o) > 0
  IN {b \in {"settle", "return", "close", "more time", "extend", "undo"} :
        CASE b \in {"settle", "return"} -> owed
          [] b = "close" -> who = "staff" /\ active /\ RemainingBoxes(o) <= 0
          [] b = "more time" -> who = "rep" /\ active /\ ShowsSelfExtend(o)
          [] b = "extend" -> who = "staff" /\ active
          [] b = "undo" -> who = "staff" /\ active /\ ShowsUndo(o)}

(* settle(): the manual close. *)
CanClose(o) == status[o] # "SETTLED" /\ RemainingBoxes(o) <= 0

(* The bar of the order: waiting boxes are fitted into what is left. *)
BarWidth(o) ==
  LET b == OrderBoxes(o)
      subs == Max0(Min({b.submitted, RemainingBoxes(o)}))
      rets == Max0(Min({b.returning, RemainingBoxes(o) - subs}))
  IN b.settled + b.returned + subs + rets

(* Returns.jsx: the boxes of the returns filed under APPROVED. *)
ReturnsFiled(st) == {i \in DOMAIN ret : ret[i].st = st}
BoxesBack == SumOver(ReturnsFiled("APPROVED"), LAMBDA i : Boxes(ret[i].n))

-----------------------------------------------------------------------------
(* Whatever the page of an order lets a user send, on data just read, the  *)
(* service accepts: a settlement of boxes not already waiting, a return, a *)
(* close, the rep's own extension, an extension, an undo.                  *)
FormsAreAccepted ==
  \A o \in Placed, who \in {"staff", "rep"} :
    /\ "settle" \in Offers(o, who) =>
         \A f \in SettleForm(o) : CanSubmit(o, f[1], f[2])
    /\ "return" \in Offers(o, who) =>
         \A f \in ReturnForm(o) : CanReturn(o, f[1], f[2])
    /\ "close" \in Offers(o, who) => CanClose(o)
    /\ "more time" \in Offers(o, who) => CanSelfExtend(o)
    /\ "extend" \in Offers(o, who) => status[o] \in Unpaid
    /\ "undo" \in Offers(o, who) => CanUndo(o)

(* The pages tell one story: nothing is left to pay on a closed order      *)
(* unless one of its sales was cancelled; boxes and money left on an order *)
(* are the same boxes; the returns page counts back what the orders count  *)
(* returned; and the boxes the reps are said to hold are in their hands    *)
(* (but those a cancelled transfer took back or a cancelled sale put back  *)
(* on a closed order).  The bar is never longer than the order, but for an *)
(* order with boxes both settled and returned: a box in a pending return   *)
(* may be settled, the return then takes another of the rep's boxes, and   *)
(* the waiting boxes of other products come on top.                        *)
ScreensAgree ==
  /\ \A o \in Placed :
       /\ Settled(o) /\ Balance(o) > 0 => SaleReversed(o)
       /\ OrderBoxes(o).remaining = Balance(o)
       /\ (\A p \in Products : Outstanding(o, p) >= 0) => BarWidth(o) <= AssignedValue(o)
  /\ BoxesBack = SumOver(Placed, ReturnedValue)
  /\ (\A o \in Orders : xfer[o] # "CANCELLED" /\ ~SaleReversed(o)
        /\ \A p \in Products : Outstanding(o, p) >= 0) =>
       BoxesWithReps = SumOver(Reps, LAMBDA r : SumOver(Products, LAMBDA p : held[r][p]))

(* "a row can never be counted twice or missed" (settlement.service.js,    *)
(* summary): the overdue chip of Settlements.jsx counts the orders that    *)
(* its list then shows.                                                    *)
OverdueListComplete == Cardinality(OrderList("OVERDUE")) = StatusCount("OVERDUE")
===============================================================================
