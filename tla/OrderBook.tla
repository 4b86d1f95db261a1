------------------------------ MODULE OrderBook ------------------------------
(***************************************************************************)
(* The settlement lifecycle of The Lab (settlement.service.js,             *)
(* settlementSubmission.service.js, returns.service.js, cancelSale,        *)
(* createTransfer and cancelTransfer).                                     *)
(*                                                                         *)
(* Issuing stock to a rep opens an ORDER.  The rep submits settlements and *)
(* returns, the admin approves or rejects them, and recomputeStatus closes *)
(* the order once every issued box is settled or returned.  Here each      *)
(* handler is one step: OrderRaces takes the contended ones apart.         *)
(*                                                                         *)
(* Every price is one unit per box, so a value in money is a number of     *)
(* boxes; the code only compares these values with zero.  An order is      *)
(* named by a number and issuedAt follows the numbers (dispatchedAt comes  *)
(* with the request, so orders need not be created in that order).         *)
(***************************************************************************)
EXTENDS Integers, FiniteSetsExt

CONSTANTS Orders,      \* settlements, numbered by issuedAt
          Products,
          Reps,
          RepOf,       \* RepOf[o]: the rep order o is issued to
          Subs,        \* bound: settlement submissions ever made
          Rets,        \* bound: return requests ever made
          Stock,       \* boxes of each product in the warehouse at the start
          MaxLine,     \* bound: boxes in one request line
          MixedLines   \* may a return carry a GOOD and a DAMAGED line?

ASSUME OrderAssumption ==
  /\ Orders \subseteq Nat
  /\ \A S \in {Orders, Products, Reps, Subs, Rets} : IsFiniteSet(S)
  /\ RepOf \in [Orders -> Reps]
  /\ Stock \in Nat /\ MaxLine \in Nat
  /\ MixedLines \in BOOLEAN

Unpaid == {"OPEN", "PARTIAL", "OVERDUE"}
Status == Unpaid \cup {"NONE", "SETTLED"}
Condition == {"GOOD", "DAMAGED"}
(* REJECTED, CANCELLED and EXPIRED rows are counted by no query: "DROPPED". *)
Decision == {"PENDING", "APPROVED", "DROPPED"}
Lines == {l \in [Condition -> 0..MaxLine] :
            /\ l["GOOD"] + l["DAMAGED"] > 0
            /\ MixedLines \/ \E c \in Condition : l[c] = 0}
Quantity == {q \in [Products -> 0..MaxLine] : \E p \in Products : q[p] > 0}
NoBoxes == [p \in Products |-> 0]

VARIABLES
  status,    \* Settlement.status as stored ("NONE": not issued yet)
  late,      \* the clock is past deadlineAt
  moved,     \* orders with a deadline change that has not been undone
  issued,    \* boxes on the items of the order's transfer
  settled,   \* boxes on the order's sales that are not CANCELLED
  returned,  \* boxes on the order's APPROVED returns
  value,     \* Settlement.settledValue
  xfer,      \* StockTransfer.status of the order's transfer
  recalled,  \* boxes cancelTransfer took back from the rep
  sub,       \* SettlementSubmission rows by id, with the sale each became
  ret,       \* Return rows by id
  held,      \* boxes of a product each rep holds
  wh         \* boxes of a product in the warehouse

vars == <<status, late, moved, issued, settled, returned, value, xfer,
          recalled, sub, ret, held, wh>>

SubRow == [st: Decision, o: Orders, p: Products, n: 0..MaxLine,
           sale: {"NONE", "LIVE", "CANCELLED"}]
RetRow == [st: Decision, o: Orders, p: Products, n: [Condition -> 0..MaxLine]]

Init ==
  /\ status = [o \in Orders |-> "NONE"]
  /\ late = [o \in Orders |-> FALSE]
  /\ moved = {}
  /\ issued = [o \in Orders |-> NoBoxes]
  /\ settled = [o \in Orders |-> NoBoxes]
  /\ returned = [o \in Orders |-> NoBoxes]
  /\ value = [o \in Orders |-> 0]
  /\ xfer = [o \in Orders |-> "NONE"]
  /\ recalled = [o \in Orders |-> NoBoxes]
  /\ sub = <<>>
  /\ ret = <<>>
  /\ held = [r \in Reps |-> NoBoxes]
  /\ wh = [p \in Products |-> Stock]

-----------------------------------------------------------------------------
(* Sums over rows. *)
Boxes(l) == l["GOOD"] + l["DAMAGED"]
SubmissionsOf(o, p, st) ==
  {i \in DOMAIN sub : sub[i].o = o /\ sub[i].p = p /\ sub[i].st = st}
ReturnsOf(o, p, st) ==
  {i \in DOMAIN ret : ret[i].o = o /\ ret[i].p = p /\ ret[i].st = st}
SubmittedBoxes(o, p, st) == SumFunction([i \in SubmissionsOf(o, p, st) |-> sub[i].n])
ReturnBoxes(o, p, st) == SumFunction([i \in ReturnsOf(o, p, st) |-> Boxes(ret[i].n)])

(* productOutstanding: issued - settled - returned, pending rows included. *)
Outstanding(o, p) == issued[o][p] - settled[o][p] - returned[o][p]

(* Boxes that can still be submitted: not those on a PENDING submission.   *)
Submittable(o, p) == Outstanding(o, p) - SubmittedBoxes(o, p, "PENDING")

(* Boxes that can still be returned: not those in a PENDING return.        *)
(* Mutant: pending returns are not subtracted. *)
ReturnableIgnoringPending(o, p) == Outstanding(o, p)
Returnable(o, p) == Outstanding(o, p) - ReturnBoxes(o, p, "PENDING")

(* recomputeStatus, given the boxes it reads from the rows of the order.   *)
Accounted(iss, stl, rtn) == \A p \in Products : iss[p] - stl[p] - rtn[p] <= 0
ProgressStatus(val, rtn) ==
  IF val > 0 \/ \E p \in Products : rtn[p] > 0 THEN "PARTIAL" ELSE "OPEN"
(* Mutant: returned boxes are forgotten when deciding to close. *)
RecomputedFromSales(o, iss, stl, rtn, val) ==
  IF Accounted(iss, stl, NoBoxes) THEN "SETTLED"
  ELSE IF late[o] THEN "OVERDUE" ELSE ProgressStatus(val, rtn)
(* Mutant: one product accounted for closes the order. *)
RecomputedOnAnyProduct(o, iss, stl, rtn, val) ==
  IF \E p \in Products : iss[p] > 0 /\ iss[p] - stl[p] - rtn[p] <= 0
  THEN "SETTLED" ELSE IF late[o] THEN "OVERDUE" ELSE ProgressStatus(val, rtn)
Recomputed(o, iss, stl, rtn, val) ==
  IF Accounted(iss, stl, rtn) THEN "SETTLED"
  ELSE IF late[o] THEN "OVERDUE" ELSE ProgressStatus(val, rtn)

Plus(q, d) == [p \in Products |-> q[p] + d[p]]
Minus(q, d) == [p \in Products |-> q[p] - d[p]]
Only(p, n) == [NoBoxes EXCEPT ![p] = n]
WithRow(rows, i, row) ==
  [j \in DOMAIN rows \cup {i} |-> IF j = i THEN row ELSE rows[j]]

-----------------------------------------------------------------------------
(* transferStock from the warehouse to the rep of o: every line is checked *)
(* against the warehouse balance.                                          *)
MoveToRep(o, q) ==
  /\ \A p \in Products : wh[p] >= q[p]
  /\ wh' = Minus(wh, q)
  /\ held' = [held EXCEPT ![RepOf[o]] = Plus(@, q)]

(* createTransfer WAREHOUSE_TO_REP and createForIssuance. *)
CreateTransfer(o, q) ==
  /\ status[o] = "NONE"
  /\ MoveToRep(o, q)
  /\ issued' = [issued EXCEPT ![o] = q]
  /\ xfer' = [xfer EXCEPT ![o] = "COMPLETED"]
  /\ status' = [status EXCEPT ![o] = "OPEN"]
  /\ UNCHANGED <<late, moved, settled, returned, value, recalled, sub, ret>>

(* addStockToRep: the latest unsettled order of the rep grows, whatever    *)
(* became of its transfer; with none, a fresh order is opened.             *)
UnsettledOf(r) == {o \in Orders : RepOf[o] = r /\ status[o] \in Unpaid}
AppendToOrder(o, p, n) ==
  /\ o \in UnsettledOf(RepOf[o])
  /\ \A x \in UnsettledOf(RepOf[o]) : x <= o
  /\ MoveToRep(o, Only(p, n))
  /\ issued' = [issued EXCEPT ![o][p] = @ + n]
  /\ status' = [status EXCEPT ![o] =
       Recomputed(o, issued'[o], settled[o], returned[o], value[o])]
  /\ UNCHANGED <<late, moved, settled, returned, value, xfer, recalled, sub,
                 ret>>
AddStockToRep(o, p, n) ==
  \/ AppendToOrder(o, p, n)
  \/ UnsettledOf(RepOf[o]) = {} /\ CreateTransfer(o, Only(p, n))

(* cancelTransfer: the stock goes back, the order is left as it is. *)
CancelTransfer(o) ==
  /\ xfer[o] = "COMPLETED"
  /\ \A p \in Products : held[RepOf[o]][p] >= issued[o][p]
  /\ held' = [held EXCEPT ![RepOf[o]] = Minus(@, issued[o])]
  /\ wh' = Plus(wh, issued[o])
  /\ recalled' = [recalled EXCEPT ![o] = issued[o]]
  /\ xfer' = [xfer EXCEPT ![o] = "CANCELLED"]
  /\ UNCHANGED <<status, late, moved, issued, settled, returned, value, sub,
                 ret>>

(* submit: a PENDING submission, nothing else moves. *)
CanSubmit(o, p, n) == status[o] \in Unpaid /\ n <= Submittable(o, p)
Submit(i, o, p, n) ==
  /\ i \notin DOMAIN sub
  /\ CanSubmit(o, p, n)
  /\ sub' = WithRow(sub, i, [st |-> "PENDING", o |-> o, p |-> p, n |-> n,
                             sale |-> "NONE"])
  /\ UNCHANGED <<status, late, moved, issued, settled, returned, value, xfer,
                 recalled, ret, held, wh>>

(* The check of settleBoxesTx at the time of approval.                     *)
(* Mutant: the outstanding boxes are not checked again. *)
SettleableUnchecked(o, p, n) == TRUE
Settleable(o, p, n) == n <= Outstanding(o, p)

(* assertAvailable on the rep's balance.                                   *)
(* Mutant: the rep's stock is not checked. *)
InHandUnchecked(o, p, n) == TRUE
InHand(o, p, n) == held[RepOf[o]][p] >= n

(* approve: settleBoxesTx books a CASH sale out of the rep's stock. *)
ApproveSubmission(i) ==
  LET o == sub[i].o
      p == sub[i].p
      n == sub[i].n
  IN /\ sub[i].st = "PENDING"
     /\ status[o] # "SETTLED"
     /\ Settleable(o, p, n)
     /\ InHand(o, p, n)
     /\ held' = [held EXCEPT ![RepOf[o]][p] = @ - n]
     /\ settled' = [settled EXCEPT ![o][p] = @ + n]
     /\ value' = [value EXCEPT ![o] = @ + n]
     /\ status' = [status EXCEPT ![o] =
          Recomputed(o, issued[o], settled'[o], returned[o], value'[o])]
     /\ sub' = [sub EXCEPT ![i].st = "APPROVED", ![i].sale = "LIVE"]
     /\ UNCHANGED <<late, moved, issued, returned, xfer, recalled, ret, wh>>

RejectSubmission(i) ==
  /\ sub[i].st = "PENDING"
  /\ sub' = [sub EXCEPT ![i].st = "DROPPED"]
  /\ UNCHANGED <<status, late, moved, issued, settled, returned, value, xfer,
                 recalled, ret, held, wh>>

(* cancelSale: recomputeStatus runs before the sale is marked CANCELLED,   *)
(* so it still counts the boxes of the sale as settled.                    *)
Max0(n) == IF n > 0 THEN n ELSE 0
(* Mutant: the settled value is not rolled back. *)
RolledBackNot(v, n) == v
RolledBack(v, n) == Max0(v - n)
(* Mutant: the reversal rows are forgotten. *)
NotPutBack(q, d) == q
PutBack(q, d) == Plus(q, d)
CancelSale(i) ==
  LET o == sub[i].o
      p == sub[i].p
      n == sub[i].n
  IN /\ sub[i].sale = "LIVE"
     /\ held' = [held EXCEPT ![RepOf[o]] = PutBack(@, Only(p, n))]
     /\ value' = [value EXCEPT ![o] = RolledBack(@, n)]
     /\ status' = [status EXCEPT ![o] =
          Recomputed(o, issued[o], settled[o], returned[o], value'[o])]
     /\ settled' = [settled EXCEPT ![o][p] = @ - n]
     /\ sub' = [sub EXCEPT ![i].sale = "CANCELLED"]
     /\ UNCHANGED <<late, moved, issued, returned, xfer, recalled, ret, wh>>

-----------------------------------------------------------------------------
(* createReturn for one order: validateSettlementLines compares each LINE  *)
(* with the boxes left, not the lines together.                            *)
CanReturn(o, p, l) ==
  /\ status[o] \in Unpaid
  /\ issued[o][p] > 0
  /\ \A c \in Condition : l[c] <= Returnable(o, p)
NewReturn(o, p, l) == [st |-> "PENDING", o |-> o, p |-> p, n |-> l]
CreateReturn(i, o, p, l) ==
  /\ i \notin DOMAIN ret
  /\ CanReturn(o, p, l)
  /\ ret' = WithRow(ret, i, NewReturn(o, p, l))
  /\ UNCHANGED <<status, late, moved, issued, settled, returned, value, xfer,
                 recalled, sub, held, wh>>

(* createReturn without an order: the boxes go to the rep's unsettled      *)
(* orders, oldest first, one return per order; all must find a place.      *)
Allocated(r, p, n, o) ==
  LET older == {x \in UnsettledOf(r) : x < o}
      before == SumFunction([x \in older |-> Max0(Returnable(x, p))])
  IN IF o \in UnsettledOf(r)
     THEN Min({Max0(n - before), Max0(Returnable(o, p))}) ELSE 0

CreateUnlinkedReturn(r, p, c, n) ==
  LET part == [o \in Orders |-> Allocated(r, p, n, o)]
      takers == {o \in Orders : part[o] > 0}
  IN /\ part \in [Orders -> 0..n]
     /\ SumFunction(part) >= n
     /\ \E id \in [takers -> Rets \ DOMAIN ret] :
          /\ \A x, y \in takers : id[x] = id[y] => x = y
          /\ ret' = [i \in DOMAIN ret \cup {id[o] : o \in takers} |->
                      IF i \in DOMAIN ret THEN ret[i]
                      ELSE LET o == CHOOSE x \in takers : id[x] = i
                           IN NewReturn(o, p, [k \in Condition |->
                                IF k = c THEN part[o] ELSE 0])]
     /\ UNCHANGED <<status, late, moved, issued, settled, returned, value,
                    xfer, recalled, sub, held, wh>>

(* approveReturn: rep to warehouse, DAMAGED boxes are written off there.   *)
(* The order is recomputed even if it is SETTLED by now, and the boxes are *)
(* not compared with those left on it.                                     *)
Restocked(l) == l["GOOD"]
ApproveReturn(i) ==
  LET o == ret[i].o
      p == ret[i].p
      n == Boxes(ret[i].n)
  IN /\ ret[i].st = "PENDING"
     /\ InHand(o, p, n)
     /\ held' = [held EXCEPT ![RepOf[o]][p] = @ - n]
     /\ wh' = [wh EXCEPT ![p] = @ + Restocked(ret[i].n)]
     /\ ret' = [ret EXCEPT ![i].st = "APPROVED"]
     /\ returned' = [returned EXCEPT ![o][p] = @ + n]
     /\ status' = [status EXCEPT ![o] =
          Recomputed(o, issued[o], settled[o], returned'[o], value[o])]
     /\ UNCHANGED <<late, moved, issued, settled, value, xfer, recalled, sub>>

(* rejectReturn, cancelReturn, expireStaleReturns: the hours the return    *)
(* sat pending are given back, which may put the deadline ahead again.     *)
DropReturn(i) ==
  LET o == ret[i].o
  IN /\ ret[i].st = "PENDING"
     /\ ret' = [ret EXCEPT ![i].st = "DROPPED"]
     /\ \E l \in BOOLEAN :
          /\ l # late[o] => late[o] /\ status[o] # "SETTLED"
          /\ late' = [late EXCEPT ![o] = l]
     /\ UNCHANGED <<status, moved, issued, settled, returned, value, xfer,
                    recalled, sub, held, wh>>

-----------------------------------------------------------------------------
(* The clock passes deadlineAt of an order. *)
DeadlinePasses(o) ==
  /\ status[o] # "NONE" /\ ~late[o]
  /\ late' = [late EXCEPT ![o] = TRUE]
  /\ UNCHANGED <<status, moved, issued, settled, returned, value, xfer,
                 recalled, sub, ret, held, wh>>

(* refreshOverdue: one updateMany of the sweep, over all orders.           *)
Flaggable == {o \in Orders : late[o] /\ status[o] \in {"OPEN", "PARTIAL"}}
RefreshOverdue ==
  /\ Flaggable # {}
  /\ status' = [o \in Orders |->
                 IF o \in Flaggable THEN "OVERDUE" ELSE status[o]]
  /\ UNCHANGED <<late, moved, issued, settled, returned, value, xfer,
                 recalled, sub, ret, held, wh>>

Revived(o) == IF status[o] = "OVERDUE" THEN ProgressStatus(value[o], returned[o])
              ELSE status[o]

(* extendDeadline: the new deadline is in the future. *)
ExtendDeadline(o) ==
  /\ status[o] \in Unpaid
  /\ late' = [late EXCEPT ![o] = FALSE]
  /\ status' = [status EXCEPT ![o] = Revived(o)]
  /\ moved' = moved \cup {o}
  /\ UNCHANGED <<issued, settled, returned, value, xfer, recalled, sub, ret,
                 held, wh>>

(* selfExtend: 96 more hours on an order that is not overdue. *)
CanSelfExtend(o) == status[o] \in {"OPEN", "PARTIAL"} /\ ~late[o]
SelfExtend(o) ==
  /\ CanSelfExtend(o)
  /\ moved' = moved \cup {o}
  /\ UNCHANGED <<status, late, issued, settled, returned, value, xfer,
                 recalled, sub, ret, held, wh>>

(* undoDeadlineChange, of the last change or of all: the restored deadline *)
(* may be past, and then the order is overdue at once.                     *)
CanUndo(o) == o \in moved /\ status[o] \in Unpaid
UndoDeadlineChange(o) ==
  /\ CanUndo(o)
  /\ \E l \in BOOLEAN :
       /\ late' = [late EXCEPT ![o] = l]
       /\ status' = [status EXCEPT ![o] = IF l THEN "OVERDUE" ELSE Revived(o)]
  /\ moved' \in {moved, moved \ {o}}
  /\ UNCHANGED <<issued, settled, returned, value, xfer, recalled, sub, ret,
                 held, wh>>

-----------------------------------------------------------------------------
Next ==
  \/ \E o \in Orders, q \in Quantity : CreateTransfer(o, q)
  \/ \E o \in Orders, p \in Products, n \in 1..MaxLine :
       AddStockToRep(o, p, n)
  \/ \E o \in Orders :
       \/ CancelTransfer(o) \/ DeadlinePasses(o) \/ ExtendDeadline(o)
       \/ SelfExtend(o) \/ UndoDeadlineChange(o)
  \/ \E i \in Subs, o \in Orders, p \in Products, n \in 1..MaxLine :
       Submit(i, o, p, n)
  \/ \E i \in DOMAIN sub :
       ApproveSubmission(i) \/ RejectSubmission(i) \/ CancelSale(i)
  \/ \E i \in Rets, o \in Orders, p \in Products, l \in Lines :
       CreateReturn(i, o, p, l)
  \/ \E r \in Reps, p \in Products, c \in Condition, n \in 1..MaxLine :
       CreateUnlinkedReturn(r, p, c, n)
  \/ \E i \in DOMAIN ret : ApproveReturn(i) \/ DropReturn(i)
  \/ RefreshOverdue

(* The sweep runs from cron every day, and when an admin asks for it. *)
Spec == Init /\ [][Next]_vars

-----------------------------------------------------------------------------
TypeOK ==
  /\ status \in [Orders -> Status]
  /\ late \in [Orders -> BOOLEAN]
  /\ moved \subseteq Orders
  /\ issued \in [Orders -> [Products -> Nat]]
  /\ settled \in [Orders -> [Products -> Int]]
  /\ returned \in [Orders -> [Products -> Nat]]
  /\ value \in [Orders -> Nat]
  /\ xfer \in [Orders -> {"NONE", "COMPLETED", "CANCELLED"}]
  /\ recalled \in [Orders -> [Products -> Nat]]
  /\ DOMAIN sub \subseteq Subs /\ sub \in [DOMAIN sub -> SubRow]
  /\ DOMAIN ret \subseteq Rets /\ ret \in [DOMAIN ret -> RetRow]
  /\ held \in [Reps -> [Products -> Nat]]
  /\ wh \in [Products -> Nat]

AllAccounted(o) == Accounted(issued[o], settled[o], returned[o])

(* An order is closed in the very step that accounts for its last box,     *)
(* whichever of the six handlers that was: the manual close of settle() is *)
(* never needed while handlers do not overlap.                             *)
AutoCloses ==
  \A o \in Orders : status[o] # "NONE" /\ AllAccounted(o) =>
    status[o] = "SETTLED"

(* An order is closed only while every box of it is settled or returned,   *)
(* but for one cause: a sale of the order has been cancelled, and          *)
(* cancelSale recomputes too early.                                        *)
SaleReversed(o) == \E i \in DOMAIN sub : sub[i].o = o /\ sub[i].sale = "CANCELLED"
ClosedHonest ==
  \A o \in Orders :
    status[o] = "SETTLED" => AllAccounted(o) \/ SaleReversed(o)

(* A settlement only ever takes boxes the order still owes: a submission   *)
(* that was in order when it was made is refused once approved returns     *)
(* have taken its boxes.                                                   *)
SettlesOnlyOwed ==
  [][\A o \in Orders, p \in Products :
       settled'[o][p] > settled[o][p] =>
         settled'[o][p] + returned'[o][p] <= issued'[o][p]]_vars

(* "the same box can never sit in two return requests at once"             *)
(* (returns.service.js:57): returned and locked boxes fit the order.       *)
BoxesReturnedOnce ==
  \A o \in Orders, p \in Products :
    returned[o][p] + ReturnBoxes(o, p, "PENDING") <= issued[o][p]

(* What the order shows agrees with the rows it is computed from: settled  *)
(* boxes with live sales, returned boxes with approved returns, and the    *)
(* stored settledValue with the value of the live sales.                   *)
LiveSales(o, p) ==
  {i \in DOMAIN sub : sub[i].o = o /\ sub[i].p = p /\ sub[i].sale = "LIVE"}
LiveSaleBoxes(o, p) == SumFunction([i \in LiveSales(o, p) |-> sub[i].n])
CountersAreSums ==
  \A o \in Orders :
    /\ \A p \in Products : settled[o][p] = LiveSaleBoxes(o, p)
    /\ \A p \in Products : returned[o][p] = ReturnBoxes(o, p, "APPROVED")
    /\ value[o] = SumFunction(settled[o])

(* A rep holds exactly the boxes its orders do not account for, less the   *)
(* ones a cancelled transfer took back, and the warehouse holds the rest:  *)
(* all but what the reps hold, what was sold and what came back damaged.   *)
BackOnShelf(p) == {i \in DOMAIN ret : ret[i].p = p /\ ret[i].st = "APPROVED"}
DamagedBoxes(p) == SumFunction([i \in BackOnShelf(p) |-> ret[i].n["DAMAGED"]])
OrdersOf(r) == {o \in Orders : RepOf[o] = r}
HeldMatchesOrders ==
  \A p \in Products :
    /\ \A r \in Reps :
         held[r][p] = SumFunction([o \in OrdersOf(r) |->
                                     Outstanding(o, p) - recalled[o][p]])
    /\ wh[p] + SumFunction([r \in Reps |-> held[r][p]])
         = Stock - SumFunction([o \in Orders |-> settled[o][p]]) - DamagedBoxes(p)

-----------------------------------------------------------------------------
(* Statements of the documentation that the code does not keep.            *)

(* "An order closes only when every issued box is settled or returned"     *)
(* (README.md:57), taken of the order as it stands.                        *)
ClosedMeansAccounted ==
  \A o \in Orders : status[o] = "SETTLED" => AllAccounted(o)
=============================================================================
