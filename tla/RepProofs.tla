------------------------------- MODULE RepProofs -------------------------------
(***************************************************************************)
(* For any number of handlers, requests, fines, tiers, sales, brands,      *)
(* products and server processes, what the page of a rep stands on keeps   *)
(* its promises.                                                           *)
(*                                                                         *)
(* Orders: first what holds whatever the sums over rows return - types,    *)
(* closing, what an approval may take; then, with SumTheorems, what        *)
(* relates the counters and stocks to the rows.                            *)
(*                                                                         *)
(* Payouts: requests alone never overdraw the balance, a window serves one *)
(* request, a decision stands.  Without a race the one request that has    *)
(* passed the check still fits the balance, whatever moves the balance     *)
(* meanwhile; and a window is in one place at a time: open in the row, in  *)
(* the hands of a handler, or spent on a request that lives.               *)
(*                                                                         *)
(* Bonus: every sale an award counts is dated before the payment, and the  *)
(* next run is counted from the payment, so runs share no sale.            *)
(*                                                                         *)
(* Rates: a rate is written for a start ahead, so it prices nothing that   *)
(* was issued; and the copy a process keeps prices every box as the rows   *)
(* do, but for boxes issued after the start of something written since.    *)
(*                                                                         *)
(* Pages: what a form offers on data just read is compared, desk by desk,  *)
(* with the guard of the handler it calls; and what the lists of orders    *)
(* add up is followed from one table of boxes, by row and by column.       *)
(***************************************************************************)
EXTENDS MCRep, SumTheorems

-----------------------------------------------------------------------------
(* The orders of the reps (OrderBook).                                     *)

(* Nothing has been settled or returned on an order not issued yet. *)
UnissuedIsBlank ==
  \A o \in Orders : status[o] = "NONE" =>
    /\ settled[o] = NoBoxes
    /\ returned[o] = NoBoxes

(* Submissions and returns are made on issued orders. *)
RowsOnIssued ==
  /\ \A i \in DOMAIN sub : status[sub[i].o] # "NONE"
  /\ \A i \in DOMAIN ret : status[ret[i].o] # "NONE"

OrderInv == TypeOK /\ UnissuedIsBlank /\ RowsOnIssued /\ AutoCloses /\ ClosedHonest

-----------------------------------------------------------------------------
(* Arithmetic on quantities, one product at a time. *)
LEMMA NoBoxesType == NoBoxes \in [Products -> Nat]
BY DEF NoBoxes

LEMMA OnlyType ==
  ASSUME NEW p \in Products, NEW n \in Nat
  PROVE  /\ Only(p, n) \in [Products -> Nat]
         /\ Only(p, n)[p] = n
BY DEF Only, NoBoxes

LEMMA LineIsNat == 0..MaxLine \subseteq Nat /\ 1..MaxLine \subseteq Nat
BY OrderAssumption

LEMMA StatusTypes ==
  /\ Unpaid \subseteq Status
  /\ "NONE" \notin Unpaid /\ "SETTLED" \notin Unpaid
BY DEF Unpaid, Status

(* What recomputeStatus writes: SETTLED exactly when nothing is owed. *)
LEMMA RecomputedType ==
  ASSUME NEW o, NEW iss, NEW stl, NEW rtn, NEW val
  PROVE  /\ Recomputed(o, iss, stl, rtn, val) \in Status \ {"NONE"}
         /\ Recomputed(o, iss, stl, rtn, val) = "SETTLED" <=>
              Accounted(iss, stl, rtn)
BY DEF Recomputed, ProgressStatus, Status, Unpaid

LEMMA RevivedType ==
  ASSUME TypeOK, NEW o \in Orders, status[o] \in Unpaid
  PROVE  Revived(o) \in Unpaid
BY DEF TypeOK, Revived, ProgressStatus, Unpaid, Status

(* A row belongs to an order, names a product and a number of boxes. *)
LEMMA RowTypes ==
  ASSUME TypeOK
  PROVE  /\ \A i \in DOMAIN sub : /\ sub[i].o \in Orders
                                  /\ sub[i].p \in Products
                                  /\ sub[i].n \in Nat
         /\ \A i \in DOMAIN ret : /\ ret[i].o \in Orders
                                  /\ ret[i].p \in Products
                                  /\ Boxes(ret[i].n) \in Nat
                                  /\ Restocked(ret[i].n) \in Nat
<1>1. \A r \in SubRow : r.o \in Orders /\ r.p \in Products /\ r.n \in Nat
  BY LineIsNat DEF SubRow
<1>2. \A r \in RetRow : /\ r.o \in Orders /\ r.p \in Products
                        /\ r.n \in [Condition -> 0..MaxLine]
  BY DEF RetRow
<1>3. \A l \in [Condition -> 0..MaxLine] :
        Boxes(l) \in Nat /\ Restocked(l) \in Nat
  BY OrderAssumption DEF Condition, Boxes, Restocked
<1>4. /\ \A i \in DOMAIN sub : sub[i] \in SubRow
      /\ \A i \in DOMAIN ret : ret[i] \in RetRow
  BY DEF TypeOK
<1>. QED
  BY <1>1, <1>2, <1>3, <1>4

(* Moving boxes to a rep leaves both stocks well typed. *)
LEMMA MoveToRepType ==
  ASSUME TypeOK, NEW o \in Orders, NEW q \in [Products -> Nat], MoveToRep(o, q)
  PROVE  held' \in [Reps -> [Products -> Nat]] /\ wh' \in [Products -> Nat]
<1>1. RepOf[o] \in Reps
  BY OrderAssumption
<1>2. Plus(held[RepOf[o]], q) \in [Products -> Nat]
  BY <1>1 DEF TypeOK, Plus
<1>3. Minus(wh, q) \in [Products -> Nat]
  BY DEF TypeOK, Minus, MoveToRep
<1>. QED
  BY <1>1, <1>2, <1>3 DEF TypeOK, MoveToRep

-----------------------------------------------------------------------------
(* The order book opens empty. *)
LEMMA InitInv == Init => OrderInv
<1>. SUFFICES ASSUME Init PROVE OrderInv
  OBVIOUS
<1>1. DOMAIN sub = {} /\ DOMAIN ret = {}
  BY DEF Init
<1>2. sub \in [DOMAIN sub -> SubRow] /\ ret \in [DOMAIN ret -> RetRow]
  BY <1>1 DEF Init
<1>3. TypeOK
  BY <1>1, <1>2, NoBoxesType, OrderAssumption DEF Init, TypeOK, Status
<1>4. UnissuedIsBlank /\ RowsOnIssued /\ AutoCloses /\ ClosedHonest
  BY <1>1 DEF Init, UnissuedIsBlank, RowsOnIssued, AutoCloses, ClosedHonest
<1>. QED
  BY <1>3, <1>4 DEF OrderInv

-----------------------------------------------------------------------------
(* Issuing: a fresh order opens with at least one box owed. *)
LEMMA CreateTransferKeeps ==
  ASSUME OrderInv, NEW o \in Orders, NEW q \in [Products -> Nat],
         NEW p \in Products, q[p] > 0, CreateTransfer(o, q)
  PROVE  OrderInv'
<1>. USE DEF OrderInv
<1>1. TypeOK'
  BY MoveToRepType DEF TypeOK, CreateTransfer, Status, Unpaid
<1>2. UnissuedIsBlank' /\ RowsOnIssued'
  BY RowTypes DEF TypeOK, CreateTransfer, UnissuedIsBlank, RowsOnIssued
<1>3. ~AllAccounted(o)'
  <2>1. settled[o][p] = 0 /\ returned[o][p] = 0
    BY DEF UnissuedIsBlank, CreateTransfer, NoBoxes
  <2>2. issued'[o][p] = q[p] /\ settled' = settled /\ returned' = returned
    BY DEF TypeOK, CreateTransfer
  <2>. QED
    BY <2>1, <2>2 DEF AllAccounted, Accounted
<1>4. AutoCloses'
  BY <1>3 DEF TypeOK, CreateTransfer, AutoCloses, AllAccounted
<1>5. ClosedHonest'
  BY DEF TypeOK, CreateTransfer, ClosedHonest, AllAccounted, SaleReversed
<1>. QED
  BY <1>1, <1>2, <1>4, <1>5

(* Adding boxes to an unsettled order: it is recomputed on the spot. *)
LEMMA AppendKeeps ==
  ASSUME OrderInv, NEW o \in Orders, NEW p \in Products, NEW n \in Nat,
         AppendToOrder(o, p, n)
  PROVE  OrderInv'
<1>. USE DEF OrderInv
<1>1. status[o] \in Unpaid /\ MoveToRep(o, Only(p, n))
  BY DEF AppendToOrder, UnsettledOf
<1>2. issued' \in [Orders -> [Products -> Nat]]
  BY DEF TypeOK, AppendToOrder
<1>3. status' \in [Orders -> Status] /\ status'[o] # "NONE"
  BY RecomputedType DEF TypeOK, AppendToOrder
<1>4. TypeOK'
  BY <1>1, <1>2, <1>3, OnlyType, MoveToRepType DEF TypeOK, AppendToOrder
<1>5. UnissuedIsBlank' /\ RowsOnIssued'
  BY <1>3, RowTypes DEF TypeOK, AppendToOrder, UnissuedIsBlank, RowsOnIssued
<1>6. status'[o] = "SETTLED" <=> AllAccounted(o)'
  BY RecomputedType DEF TypeOK, AppendToOrder, AllAccounted
<1>7. \A x \in Orders : x # o => status'[x] = status[x] /\ issued'[x] = issued[x]
  BY DEF TypeOK, AppendToOrder
<1>8. AutoCloses'
  BY <1>6, <1>7 DEF AppendToOrder, AutoCloses, AllAccounted
<1>9. ClosedHonest'
  BY <1>6, <1>7 DEF AppendToOrder, ClosedHonest, AllAccounted, SaleReversed
<1>. QED
  BY <1>4, <1>5, <1>8, <1>9

LEMMA AddStockKeeps ==
  ASSUME OrderInv, NEW o \in Orders, NEW p \in Products, NEW n \in 1..MaxLine,
         AddStockToRep(o, p, n)
  PROVE  OrderInv'
<1>1. n \in Nat /\ n > 0
  BY OrderAssumption
<1>2. CASE AppendToOrder(o, p, n)
  BY <1>1, <1>2, AppendKeeps
<1>3. CASE CreateTransfer(o, Only(p, n))
  BY <1>1, <1>3, OnlyType, CreateTransferKeeps
<1>. QED
  BY <1>2, <1>3 DEF AddStockToRep

(* Cancelling a transfer leaves the order alone. *)
LEMMA CancelTransferKeeps ==
  ASSUME OrderInv, NEW o \in Orders, CancelTransfer(o)
  PROVE  OrderInv'
<1>. USE DEF OrderInv
<1>1. RepOf[o] \in Reps
  BY OrderAssumption
<1>2. Minus(held[RepOf[o]], issued[o]) \in [Products -> Nat]
  BY <1>1 DEF TypeOK, CancelTransfer, Minus
<1>3. Plus(wh, issued[o]) \in [Products -> Nat]
  BY DEF TypeOK, Plus
<1>4. TypeOK'
  BY <1>1, <1>2, <1>3 DEF TypeOK, CancelTransfer
<1>5. UnissuedIsBlank' /\ RowsOnIssued' /\ AutoCloses' /\ ClosedHonest'
  BY DEF CancelTransfer, UnissuedIsBlank, RowsOnIssued, AutoCloses,
         ClosedHonest, AllAccounted, SaleReversed
<1>. QED
  BY <1>4, <1>5

-----------------------------------------------------------------------------
(* Submissions. *)
LEMMA SubmitKeeps ==
  ASSUME OrderInv, NEW i \in Subs, NEW o \in Orders, NEW p \in Products,
         NEW n \in 1..MaxLine, Submit(i, o, p, n)
  PROVE  OrderInv'
<1>. USE DEF OrderInv
<1>. DEFINE row == [st |-> "PENDING", o |-> o, p |-> p, n |-> n, sale |-> "NONE"]
<1>1. row \in SubRow /\ row.o = o /\ row.sale = "NONE"
  BY OrderAssumption DEF SubRow, Decision
<1>2. sub' = WithRow(sub, i, row) /\ i \notin DOMAIN sub
  BY DEF Submit, CanSubmit
<1>3. /\ DOMAIN sub' = DOMAIN sub \cup {i}
      /\ sub'[i] = row
      /\ \A j \in DOMAIN sub : sub'[j] = sub[j]
  BY <1>2 DEF WithRow
<1>4. sub' \in [DOMAIN sub' -> SubRow] /\ DOMAIN sub' \subseteq Subs
  BY <1>1, <1>2, <1>3 DEF TypeOK, WithRow
<1>5. TypeOK'
  BY <1>4 DEF TypeOK, Submit, CanSubmit
<1>6. UnissuedIsBlank' /\ RowsOnIssued'
  BY <1>1, <1>3, StatusTypes DEF Submit, CanSubmit, UnissuedIsBlank, RowsOnIssued
<1>7. AutoCloses' /\ ClosedHonest'
  BY <1>3 DEF Submit, CanSubmit, AutoCloses, ClosedHonest, AllAccounted, SaleReversed
<1>. QED
  BY <1>5, <1>6, <1>7

LEMMA RejectSubmissionKeeps ==
  ASSUME OrderInv, NEW i \in DOMAIN sub, RejectSubmission(i)
  PROVE  OrderInv'
<1>. USE DEF OrderInv
<1>1. sub[i] \in SubRow /\ [sub[i] EXCEPT !.st = "DROPPED"] \in SubRow
  BY DEF TypeOK, SubRow, Decision
<1>2. /\ DOMAIN sub' = DOMAIN sub
      /\ sub'[i] = [sub[i] EXCEPT !.st = "DROPPED"]
      /\ \A j \in DOMAIN sub : sub'[j].o = sub[j].o /\ sub'[j].sale = sub[j].sale
      /\ \A j \in DOMAIN sub : j # i => sub'[j] = sub[j]
  BY <1>1 DEF TypeOK, RejectSubmission, SubRow
<1>3. sub' \in [DOMAIN sub' -> SubRow]
  BY <1>1, <1>2 DEF TypeOK, RejectSubmission
<1>4. TypeOK'
  BY <1>2, <1>3 DEF TypeOK, RejectSubmission
<1>5. UnissuedIsBlank' /\ RowsOnIssued' /\ AutoCloses' /\ ClosedHonest'
  BY <1>2 DEF RejectSubmission, UnissuedIsBlank, RowsOnIssued, AutoCloses,
              ClosedHonest, AllAccounted, SaleReversed
<1>. QED
  BY <1>4, <1>5

(* Approval: the order is recomputed with the boxes just settled. *)
LEMMA ApproveSubmissionKeeps ==
  ASSUME OrderInv, NEW i \in DOMAIN sub, ApproveSubmission(i)
  PROVE  OrderInv'
<1>. USE DEF OrderInv
<1>0. PICK o \in Orders, p \in Products, n \in Nat :
        sub[i].o = o /\ sub[i].p = p /\ sub[i].n = n
  BY RowTypes
<1>1. o \in Orders /\ p \in Products /\ n \in Nat /\ RepOf[o] \in Reps
  BY OrderAssumption
<1>2. sub[i] \in SubRow
  BY DEF TypeOK
<1>3. [sub[i] EXCEPT !.st = "APPROVED", !.sale = "LIVE"] \in SubRow
  BY <1>2 DEF SubRow, Decision
<1>4. /\ DOMAIN sub' = DOMAIN sub
      /\ sub'[i] = [sub[i] EXCEPT !.st = "APPROVED", !.sale = "LIVE"]
      /\ \A j \in DOMAIN sub : j # i => sub'[j] = sub[j]
      /\ sub' \in [DOMAIN sub' -> SubRow]
  BY <1>3 DEF TypeOK, ApproveSubmission
<1>5. \A j \in DOMAIN sub : sub'[j].o = sub[j].o
  BY <1>2, <1>4 DEF SubRow
<1>6. /\ status' = [status EXCEPT ![o] =
           Recomputed(o, issued[o], settled'[o], returned[o], value'[o])]
      /\ settled' = [settled EXCEPT ![o][p] = @ + n]
      /\ held' = [held EXCEPT ![RepOf[o]][p] = @ - n]
      /\ value' = [value EXCEPT ![o] = @ + n]
      /\ held[RepOf[o]][p] >= n
      /\ UNCHANGED <<late, moved, issued, returned, xfer, recalled, ret, wh>>
  BY <1>0 DEF ApproveSubmission, InHand
<1>7. status' \in [Orders -> Status] /\ status'[o] # "NONE"
  BY <1>1, <1>6, RecomputedType DEF TypeOK
<1>8. /\ settled' \in [Orders -> [Products -> Int]]
      /\ value' \in [Orders -> Nat]
      /\ held' \in [Reps -> [Products -> Nat]]
  BY <1>1, <1>6 DEF TypeOK
<1>9. TypeOK'
  BY <1>4, <1>6, <1>7, <1>8 DEF TypeOK
<1>10. \A x \in Orders : x # o => /\ status'[x] = status[x]
                                  /\ settled'[x] = settled[x]
  BY <1>1, <1>6 DEF TypeOK
<1>11. status'[o] = "SETTLED" <=> AllAccounted(o)'
  BY <1>1, <1>6, RecomputedType DEF TypeOK, AllAccounted
<1>12. UnissuedIsBlank' /\ RowsOnIssued'
  BY <1>4, <1>5, <1>6, <1>7, <1>10, RowTypes DEF UnissuedIsBlank, RowsOnIssued
<1>13. AutoCloses'
  BY <1>6, <1>10, <1>11 DEF AutoCloses, AllAccounted
<1>14. \A x \in Orders : x # o => (SaleReversed(x) => SaleReversed(x)')
  BY <1>0, <1>4 DEF SaleReversed
<1>15. ClosedHonest'
  BY <1>6, <1>10, <1>11, <1>14 DEF ClosedHonest, AllAccounted
<1>. QED
  BY <1>9, <1>12, <1>13, <1>15

(* A cancelled sale: the recomputation still counts it, so the order may   *)
(* stay closed, but never be left open with nothing owed.                  *)
LEMMA CancelSaleKeeps ==
  ASSUME OrderInv, NEW i \in DOMAIN sub, CancelSale(i)
  PROVE  OrderInv'
<1>. USE DEF OrderInv
<1>0. PICK o \in Orders, p \in Products, n \in Nat :
        sub[i].o = o /\ sub[i].p = p /\ sub[i].n = n
  BY RowTypes
<1>1. o \in Orders /\ p \in Products /\ n \in Nat /\ RepOf[o] \in Reps
  BY OrderAssumption
<1>2. sub[i] \in SubRow
  BY DEF TypeOK
<1>3. [sub[i] EXCEPT !.sale = "CANCELLED"] \in SubRow
  BY <1>2 DEF SubRow
<1>4. /\ DOMAIN sub' = DOMAIN sub
      /\ sub'[i] = [sub[i] EXCEPT !.sale = "CANCELLED"]
      /\ \A j \in DOMAIN sub : j # i => sub'[j] = sub[j]
      /\ sub' \in [DOMAIN sub' -> SubRow]
  BY <1>3 DEF TypeOK, CancelSale
<1>5. /\ \A j \in DOMAIN sub : sub'[j].o = sub[j].o
      /\ sub'[i].sale = "CANCELLED"
  BY <1>2, <1>4 DEF SubRow
<1>6. /\ status' = [status EXCEPT ![o] =
           Recomputed(o, issued[o], settled[o], returned[o], value'[o])]
      /\ settled' = [settled EXCEPT ![o][p] = @ - n]
      /\ held' = [held EXCEPT ![RepOf[o]] = Plus(@, Only(p, n))]
      /\ value' = [value EXCEPT ![o] = Max0(@ - n)]
      /\ UNCHANGED <<late, moved, issued, returned, xfer, recalled, ret, wh>>
  BY <1>0 DEF CancelSale, PutBack, RolledBack
<1>7. status' \in [Orders -> Status] /\ status'[o] # "NONE"
  BY <1>1, <1>6, RecomputedType DEF TypeOK
<1>8. /\ settled' \in [Orders -> [Products -> Int]]
      /\ value' \in [Orders -> Nat]
  BY <1>1, <1>6 DEF TypeOK, Max0
<1>9. held' \in [Reps -> [Products -> Nat]]
  <2>1. Plus(held[RepOf[o]], Only(p, n)) \in [Products -> Nat]
    <3>1. held[RepOf[o]] \in [Products -> Nat]
      BY <1>1 DEF TypeOK
    <3>2. Only(p, n) \in [Products -> Nat]
      BY <1>1, OnlyType
    <3>. QED
      BY <3>1, <3>2 DEF Plus
  <2>. QED
    BY <1>1, <1>6, <2>1 DEF TypeOK
<1>10. TypeOK'
  BY <1>4, <1>6, <1>7, <1>8, <1>9 DEF TypeOK
<1>11. \A x \in Orders : x # o => /\ status'[x] = status[x]
                                  /\ settled'[x] = settled[x]
  BY <1>1, <1>6 DEF TypeOK
<1>12. UnissuedIsBlank' /\ RowsOnIssued'
  BY <1>4, <1>5, <1>6, <1>7, <1>11, RowTypes DEF UnissuedIsBlank, RowsOnIssued
<1>13. AllAccounted(o)' => Accounted(issued[o], settled[o], returned[o])
  <2>1. \A x \in Products : settled'[o][x] <= settled[o][x]
    BY <1>1, <1>6 DEF TypeOK
  <2>2. \A x \in Products : /\ issued[o][x] \in Int /\ returned[o][x] \in Int
                            /\ settled[o][x] \in Int /\ settled'[o][x] \in Int
    BY <1>1, <1>8 DEF TypeOK
  <2>. QED
    BY <1>6, <2>1, <2>2 DEF AllAccounted, Accounted
<1>14. AllAccounted(o)' => status'[o] = "SETTLED"
  BY <1>1, <1>6, <1>13, RecomputedType DEF TypeOK
<1>15. AutoCloses'
  BY <1>6, <1>11, <1>14 DEF AutoCloses, AllAccounted
<1>16. SaleReversed(o)'
  BY <1>0, <1>4, <1>5 DEF SaleReversed
<1>17. \A x \in Orders : x # o => (SaleReversed(x) => SaleReversed(x)')
  BY <1>0, <1>4 DEF SaleReversed
<1>18. ClosedHonest'
  BY <1>6, <1>11, <1>16, <1>17 DEF ClosedHonest, AllAccounted
<1>. QED
  BY <1>10, <1>12, <1>15, <1>18

-----------------------------------------------------------------------------
(* Returns.  A line of a request fits a row. *)
LEMMA NewReturnType ==
  ASSUME NEW o \in Orders, NEW p \in Products,
         NEW l \in [Condition -> 0..MaxLine]
  PROVE  NewReturn(o, p, l) \in RetRow /\ NewReturn(o, p, l).o = o
BY DEF NewReturn, RetRow, Decision

(* Requests leave the order as it is: only rows of issued orders appear. *)
LEMMA RequestKeeps ==
  ASSUME OrderInv,
         UNCHANGED <<status, late, moved, issued, settled, returned, value,
                     xfer, recalled, sub, held, wh>>,
         DOMAIN ret' \subseteq Rets, ret' \in [DOMAIN ret' -> RetRow],
         \A i \in DOMAIN ret' : status[ret'[i].o] # "NONE"
  PROVE  OrderInv'
<1>1. TypeOK'
  BY DEF OrderInv, TypeOK
<1>2. UnissuedIsBlank' /\ AutoCloses' /\ ClosedHonest'
  BY DEF OrderInv, UnissuedIsBlank, AutoCloses, ClosedHonest, AllAccounted,
         SaleReversed
<1>3. RowsOnIssued'
  BY DEF OrderInv, RowsOnIssued
<1>. QED
  BY <1>1, <1>2, <1>3 DEF OrderInv

LEMMA CreateReturnKeeps ==
  ASSUME OrderInv, NEW i \in Rets, NEW o \in Orders, NEW p \in Products,
         NEW l \in Lines, CreateReturn(i, o, p, l)
  PROVE  OrderInv'
<1>1. l \in [Condition -> 0..MaxLine]
  BY DEF Lines
<1>2. NewReturn(o, p, l) \in RetRow /\ NewReturn(o, p, l).o = o
  BY <1>1, NewReturnType
<1>3. /\ DOMAIN ret' = DOMAIN ret \cup {i}
      /\ ret'[i] = NewReturn(o, p, l)
      /\ \A j \in DOMAIN ret : ret'[j] = ret[j]
      /\ ret' \in [DOMAIN ret' -> RetRow]
  BY <1>2 DEF CreateReturn, CanReturn, WithRow, OrderInv, TypeOK
<1>4. status[o] # "NONE"
  BY StatusTypes DEF CreateReturn, CanReturn
<1>5. \A j \in DOMAIN ret' : status[ret'[j].o] # "NONE"
  BY <1>2, <1>3, <1>4 DEF OrderInv, RowsOnIssued
<1>6. DOMAIN ret' \subseteq Rets
  BY <1>3 DEF OrderInv, TypeOK
<1>. QED
  BY <1>3, <1>5, <1>6, RequestKeeps DEF CreateReturn, CanReturn

(* The parts of an unlinked return all lie on unsettled orders. *)
LEMMA CreateUnlinkedReturnKeeps ==
  ASSUME OrderInv, NEW r \in Reps, NEW p \in Products, NEW c \in Condition,
         NEW n \in 1..MaxLine, CreateUnlinkedReturn(r, p, c, n)
  PROVE  OrderInv'
<1>. DEFINE part == [o \in Orders |-> Allocated(r, p, n, o)]
            takers == {o \in Orders : part[o] > 0}
            lineOf(o) == [k \in Condition |-> IF k = c THEN part[o] ELSE 0]
<1>1. PICK id \in [takers -> Rets \ DOMAIN ret] :
        /\ \A x, y \in takers : id[x] = id[y] => x = y
        /\ ret' = [i \in DOMAIN ret \cup {id[o] : o \in takers} |->
                    IF i \in DOMAIN ret THEN ret[i]
                    ELSE LET o == CHOOSE x \in takers : id[x] = i
                         IN NewReturn(o, p, lineOf(o))]
  BY DEF CreateUnlinkedReturn
<1>2. \A o \in Orders : lineOf(o) \in [Condition -> 0..MaxLine]
  <2>1. part \in [Orders -> 0..n]
    BY DEF CreateUnlinkedReturn
  <2>2. \A o \in Orders : part[o] \in 0..MaxLine
    BY <2>1, OrderAssumption
  <2>. HIDE DEF part
  <2>. QED
    BY <2>2, OrderAssumption
<1>3. \A o \in takers : status[o] # "NONE"
  BY StatusTypes DEF Allocated, UnsettledOf
<1>. HIDE DEF part, lineOf
<1>4. \A i \in {id[o] : o \in takers} :
        LET o == CHOOSE x \in takers : id[x] = i IN o \in takers
  OBVIOUS
<1>5. \A i \in DOMAIN ret' :
        ret'[i] \in RetRow /\ status[ret'[i].o] # "NONE"
  <2>. SUFFICES ASSUME NEW i \in DOMAIN ret'
                PROVE  ret'[i] \in RetRow /\ status[ret'[i].o] # "NONE"
    OBVIOUS
  <2>1. CASE i \in DOMAIN ret
    BY <1>1, <2>1 DEF OrderInv, TypeOK, RowsOnIssued
  <2>2. CASE i \notin DOMAIN ret
    <3>1. PICK o \in takers : ret'[i] = NewReturn(o, p, lineOf(o))
      BY <1>1, <1>4, <2>2
    <3>. QED
      BY <1>2, <1>3, <3>1, NewReturnType
  <2>. QED
    BY <2>1, <2>2
<1>6. DOMAIN ret' \subseteq Rets
  BY <1>1 DEF OrderInv, TypeOK
<1>7. ret' \in [DOMAIN ret' -> RetRow]
  BY <1>1, <1>5
<1>. QED
  BY <1>5, <1>6, <1>7, RequestKeeps DEF CreateUnlinkedReturn

(* An approved return recomputes its order, closed or not. *)
LEMMA ApproveReturnKeeps ==
  ASSUME OrderInv, NEW i \in DOMAIN ret, ApproveReturn(i)
  PROVE  OrderInv'
<1>. USE DEF OrderInv
<1>0. PICK o \in Orders, p \in Products, n \in Nat, g \in Nat :
        /\ ret[i].o = o /\ ret[i].p = p
        /\ Boxes(ret[i].n) = n /\ Restocked(ret[i].n) = g
  BY RowTypes
<1>1. RepOf[o] \in Reps
  BY OrderAssumption
<1>2. ret[i] \in RetRow
  BY DEF TypeOK
<1>3. [ret[i] EXCEPT !.st = "APPROVED"] \in RetRow
  BY <1>2 DEF RetRow, Decision
<1>4. /\ DOMAIN ret' = DOMAIN ret
      /\ ret'[i] = [ret[i] EXCEPT !.st = "APPROVED"]
      /\ \A j \in DOMAIN ret : j # i => ret'[j] = ret[j]
      /\ ret' \in [DOMAIN ret' -> RetRow]
  BY <1>3 DEF TypeOK, ApproveReturn
<1>5. \A j \in DOMAIN ret : ret'[j].o = ret[j].o
  BY <1>2, <1>4 DEF RetRow
<1>6. /\ status' = [status EXCEPT ![o] =
           Recomputed(o, issued[o], settled[o], returned'[o], value[o])]
      /\ returned' = [returned EXCEPT ![o][p] = @ + n]
      /\ held' = [held EXCEPT ![RepOf[o]][p] = @ - n]
      /\ wh' = [wh EXCEPT ![p] = @ + g]
      /\ held[RepOf[o]][p] >= n
      /\ UNCHANGED <<late, moved, issued, settled, value, xfer, recalled, sub>>
  BY <1>0 DEF ApproveReturn, InHand
<1>7. status' \in [Orders -> Status] /\ status'[o] # "NONE"
  BY <1>6, RecomputedType DEF TypeOK
<1>8. /\ returned' \in [Orders -> [Products -> Nat]]
      /\ held' \in [Reps -> [Products -> Nat]]
      /\ wh' \in [Products -> Nat]
  BY <1>1, <1>6 DEF TypeOK
<1>9. TypeOK'
  BY <1>4, <1>6, <1>7, <1>8 DEF TypeOK
<1>10. \A x \in Orders : x # o => /\ status'[x] = status[x]
                                  /\ returned'[x] = returned[x]
  BY <1>6 DEF TypeOK
<1>11. status'[o] = "SETTLED" <=> AllAccounted(o)'
  BY <1>6, RecomputedType DEF TypeOK, AllAccounted
<1>12. UnissuedIsBlank' /\ RowsOnIssued'
  BY <1>4, <1>5, <1>6, <1>7, <1>10, RowTypes DEF UnissuedIsBlank, RowsOnIssued
<1>13. AutoCloses'
  BY <1>6, <1>10, <1>11 DEF AutoCloses, AllAccounted
<1>14. ClosedHonest'
  BY <1>6, <1>10, <1>11 DEF ClosedHonest, AllAccounted, SaleReversed
<1>. QED
  BY <1>9, <1>12, <1>13, <1>14

LEMMA DropReturnKeeps ==
  ASSUME OrderInv, NEW i \in DOMAIN ret, DropReturn(i)
  PROVE  OrderInv'
<1>. USE DEF OrderInv
<1>1. ret[i] \in RetRow /\ [ret[i] EXCEPT !.st = "DROPPED"] \in RetRow
  BY DEF TypeOK, RetRow, Decision
<1>2. /\ DOMAIN ret' = DOMAIN ret
      /\ ret'[i] = [ret[i] EXCEPT !.st = "DROPPED"]
      /\ \A j \in DOMAIN ret : j # i => ret'[j] = ret[j]
      /\ ret' \in [DOMAIN ret' -> RetRow]
  BY <1>1 DEF TypeOK, DropReturn
<1>3. \A j \in DOMAIN ret : ret'[j].o = ret[j].o
  BY <1>1, <1>2 DEF RetRow
<1>4. TypeOK'
  <2>1. ret[i].o \in Orders
    BY RowTypes
  <2>2. late' \in [Orders -> BOOLEAN]
    BY <2>1 DEF TypeOK, DropReturn
  <2>. QED
    BY <1>2, <2>2 DEF TypeOK, DropReturn
<1>5. UnissuedIsBlank' /\ RowsOnIssued' /\ AutoCloses' /\ ClosedHonest'
  BY <1>2, <1>3 DEF DropReturn, UnissuedIsBlank, RowsOnIssued, AutoCloses,
                    ClosedHonest, AllAccounted, SaleReversed
<1>. QED
  BY <1>4, <1>5

-----------------------------------------------------------------------------
(* Steps that only move an unsettled order between the unsettled statuses. *)
LEMMA UnsettledMoveKeeps ==
  ASSUME OrderInv, NEW status2 \in [Orders -> Status], status' = status2,
         late' \in [Orders -> BOOLEAN], moved' \subseteq Orders,
         \A o \in Orders : status2[o] = status[o]
                           \/ (status[o] \in Unpaid /\ status2[o] \in Unpaid),
         UNCHANGED <<issued, settled, returned, value, xfer, recalled, sub,
                     ret, held, wh>>
  PROVE  OrderInv'
<1>. USE DEF OrderInv
<1>1. TypeOK'
  BY DEF TypeOK
<1>2. \A o \in Orders :
        /\ status'[o] = "NONE" <=> status[o] = "NONE"
        /\ status'[o] = "SETTLED" <=> status[o] = "SETTLED"
  BY StatusTypes
<1>3. UnissuedIsBlank' /\ RowsOnIssued'
  BY <1>2, RowTypes DEF UnissuedIsBlank, RowsOnIssued
<1>4. AutoCloses' /\ ClosedHonest'
  BY <1>2 DEF AutoCloses, ClosedHonest, AllAccounted, SaleReversed
<1>. QED
  BY <1>1, <1>3, <1>4

(* The steps of the clock, the sweep and the deadline changes. *)
LEMMA DeadlineStepKeeps ==
  ASSUME OrderInv,
         \/ RefreshOverdue
         \/ \E o \in Orders : \/ DeadlinePasses(o) \/ ExtendDeadline(o)
                              \/ SelfExtend(o) \/ UndoDeadlineChange(o)
  PROVE  OrderInv'
<1>. USE DEF OrderInv
<1>1. CASE RefreshOverdue
  <2>1. status' \in [Orders -> Status]
    BY <1>1 DEF TypeOK, RefreshOverdue, Status, Unpaid
  <2>2. \A o \in Orders : status'[o] = status[o]
           \/ (status[o] \in Unpaid /\ status'[o] \in Unpaid)
    BY <1>1 DEF RefreshOverdue, Flaggable, Unpaid
  <2>. QED
    BY <1>1, <2>1, <2>2, UnsettledMoveKeeps DEF TypeOK, RefreshOverdue
<1>2. ASSUME NEW o \in Orders, DeadlinePasses(o) PROVE OrderInv'
  BY <1>2, UnsettledMoveKeeps DEF TypeOK, DeadlinePasses
<1>3. ASSUME NEW o \in Orders, ExtendDeadline(o) PROVE OrderInv'
  <2>1. Revived(o) \in Unpaid /\ status[o] \in Unpaid
    BY <1>3, RevivedType DEF ExtendDeadline
  <2>2. status' \in [Orders -> Status]
    BY <1>3, <2>1, StatusTypes DEF TypeOK, ExtendDeadline
  <2>3. \A x \in Orders : status'[x] = status[x]
           \/ (status[x] \in Unpaid /\ status'[x] \in Unpaid)
    BY <1>3, <2>1 DEF TypeOK, ExtendDeadline
  <2>. QED
    BY <1>3, <2>2, <2>3, UnsettledMoveKeeps DEF TypeOK, ExtendDeadline
<1>4. ASSUME NEW o \in Orders, SelfExtend(o) PROVE OrderInv'
  BY <1>4, UnsettledMoveKeeps DEF TypeOK, SelfExtend, CanSelfExtend
<1>5. ASSUME NEW o \in Orders, UndoDeadlineChange(o) PROVE OrderInv'
  <2>1. Revived(o) \in Unpaid /\ status[o] \in Unpaid
    BY <1>5, RevivedType DEF UndoDeadlineChange, CanUndo
  <2>2. PICK l \in BOOLEAN :
          /\ late' = [late EXCEPT ![o] = l]
          /\ status' = [status EXCEPT ![o] = IF l THEN "OVERDUE" ELSE Revived(o)]
    BY <1>5 DEF UndoDeadlineChange, CanUndo
  <2>3. (IF l THEN "OVERDUE" ELSE Revived(o)) \in Unpaid
    BY <2>1 DEF Unpaid
  <2>4. status' \in [Orders -> Status]
    BY <2>2, <2>3, StatusTypes DEF TypeOK
  <2>5. \A x \in Orders : status'[x] = status[x]
           \/ (status[x] \in Unpaid /\ status'[x] \in Unpaid)
    BY <2>1, <2>2, <2>3 DEF TypeOK
  <2>6. late' \in [Orders -> BOOLEAN] /\ moved' \subseteq Orders
    BY <1>5, <2>2 DEF TypeOK, UndoDeadlineChange, CanUndo
  <2>. QED
    BY <1>5, <2>4, <2>5, <2>6, UnsettledMoveKeeps DEF UndoDeadlineChange, CanUndo
<1>. QED
  BY <1>1, <1>2, <1>3, <1>4, <1>5

-----------------------------------------------------------------------------
LEMMA NextKeeps == OrderInv /\ [Next]_vars => OrderInv'
<1>. SUFFICES ASSUME OrderInv, [Next]_vars PROVE OrderInv'
  OBVIOUS
<1>1. ASSUME NEW o \in Orders, NEW q \in Quantity, CreateTransfer(o, q)
      PROVE  OrderInv'
  <2>1. q \in [Products -> Nat] /\ \E p \in Products : q[p] > 0
    BY OrderAssumption DEF Quantity
  <2>. QED
    BY <1>1, <2>1, CreateTransferKeeps
<1>2. ASSUME NEW o \in Orders, NEW p \in Products, NEW n \in 1..MaxLine,
             AddStockToRep(o, p, n)
      PROVE  OrderInv'
  BY <1>2, AddStockKeeps
<1>3. ASSUME NEW o \in Orders, CancelTransfer(o) PROVE OrderInv'
  BY <1>3, CancelTransferKeeps
<1>4. CASE \/ RefreshOverdue
           \/ \E o \in Orders : \/ DeadlinePasses(o) \/ ExtendDeadline(o)
                                \/ SelfExtend(o) \/ UndoDeadlineChange(o)
  BY <1>4, DeadlineStepKeeps
<1>5. ASSUME NEW i \in Subs, NEW o \in Orders, NEW p \in Products,
             NEW n \in 1..MaxLine, Submit(i, o, p, n)
      PROVE  OrderInv'
  BY <1>5, SubmitKeeps
<1>6. ASSUME NEW i \in DOMAIN sub,
             ApproveSubmission(i) \/ RejectSubmission(i) \/ CancelSale(i)
      PROVE  OrderInv'
  BY <1>6, ApproveSubmissionKeeps, RejectSubmissionKeeps, CancelSaleKeeps
<1>7. ASSUME NEW i \in Rets, NEW o \in Orders, NEW p \in Products,
             NEW l \in Lines, CreateReturn(i, o, p, l)
      PROVE  OrderInv'
  BY <1>7, CreateReturnKeeps
<1>8. ASSUME NEW r \in Reps, NEW p \in Products, NEW c \in Condition,
             NEW n \in 1..MaxLine, CreateUnlinkedReturn(r, p, c, n)
      PROVE  OrderInv'
  BY <1>8, CreateUnlinkedReturnKeeps
<1>9. ASSUME NEW i \in DOMAIN ret, ApproveReturn(i) \/ DropReturn(i)
      PROVE  OrderInv'
  BY <1>9, ApproveReturnKeeps, DropReturnKeeps
<1>10. CASE UNCHANGED vars
  BY <1>10 DEF vars, OrderInv, TypeOK, UnissuedIsBlank, RowsOnIssued,
               AutoCloses, ClosedHonest, AllAccounted, SaleReversed
<1>. QED
  BY <1>1, <1>2, <1>3, <1>4, <1>5, <1>6, <1>7, <1>8, <1>9, <1>10 DEF Next

LEMMA InvAlways == Spec => []OrderInv
BY InitInv, NextKeeps, PTL DEF Spec

(* Every stock, counter and row keeps its type; in particular no rep and   *)
(* no warehouse is ever short of boxes.                                    *)
THEOREM TypeCorrect == Spec => []TypeOK
<1>1. OrderInv => TypeOK
  BY DEF OrderInv
<1>. QED
  BY <1>1, InvAlways, PTL

(* An order with nothing owed is SETTLED, whichever handler took its last  *)
(* box.                                                                    *)
THEOREM OrdersCloseThemselves == Spec => []AutoCloses
<1>1. OrderInv => AutoCloses
  BY DEF OrderInv
<1>. QED
  BY <1>1, InvAlways, PTL

(* A SETTLED order owes nothing, unless one of its sales was cancelled. *)
THEOREM ClosedOrdersAreHonest == Spec => []ClosedHonest
<1>1. OrderInv => ClosedHonest
  BY DEF OrderInv
<1>. QED
  BY <1>1, InvAlways, PTL

-----------------------------------------------------------------------------
(* Only an approval adds settled boxes, and only boxes still owed. *)
LEMMA SettleStep ==
  ASSUME OrderInv, [Next]_vars
  PROVE  [\A o \in Orders, p \in Products :
            settled'[o][p] > settled[o][p] =>
              settled'[o][p] + returned'[o][p] <= issued'[o][p]]_vars
<1>1. TypeOK
  BY DEF OrderInv
<1>2. ASSUME NEW x \in Orders, NEW y \in Products,
             settled'[x][y] > settled[x][y]
      PROVE  settled'[x][y] + returned'[x][y] <= issued'[x][y]
  <2>1. PICK i \in DOMAIN sub : ApproveSubmission(i)
    <3>1. ~UNCHANGED settled
      BY <1>1, <1>2 DEF TypeOK
    <3>2. ASSUME NEW i \in DOMAIN sub, CancelSale(i) PROVE FALSE
      <4>1. PICK o \in Orders, p \in Products, n \in Nat :
              sub[i].o = o /\ sub[i].p = p /\ sub[i].n = n
        BY <1>1, RowTypes
      <4>2. settled' = [settled EXCEPT ![o][p] = @ - n]
        BY <3>2, <4>1 DEF CancelSale
      <4>3. settled \in [Orders -> [Products -> Int]]
        BY <1>1 DEF TypeOK
      <4>4. settled'[x][y] = settled[x][y] \/ settled'[x][y] = settled[x][y] - n
        BY <4>2, <4>3
      <4>. QED
        BY <1>2, <4>3, <4>4
    <3>3. ASSUME NEW o \in Orders, NEW p \in Products, NEW n,
                 \/ \E q \in Quantity : CreateTransfer(o, q)
                 \/ AddStockToRep(o, p, n) \/ CancelTransfer(o)
          PROVE  UNCHANGED settled
      BY <3>3 DEF CreateTransfer, AddStockToRep, AppendToOrder, CancelTransfer
    <3>4. ASSUME NEW o \in Orders, \/ DeadlinePasses(o) \/ ExtendDeadline(o)
                                  \/ SelfExtend(o) \/ UndoDeadlineChange(o)
          PROVE  UNCHANGED settled
      BY <3>4 DEF DeadlinePasses, ExtendDeadline, SelfExtend, UndoDeadlineChange
    <3>5. ASSUME NEW i, \/ RejectSubmission(i) \/ ApproveReturn(i) \/ DropReturn(i)
                        \/ \E o, p, n : Submit(i, o, p, n) \/ CreateReturn(i, o, p, n)
          PROVE  UNCHANGED settled
      BY <3>5 DEF RejectSubmission, ApproveReturn, DropReturn, Submit, CreateReturn
    <3>6. ASSUME RefreshOverdue \/ \E r, p, c, n : CreateUnlinkedReturn(r, p, c, n)
          PROVE  UNCHANGED settled
      BY <3>6 DEF RefreshOverdue, CreateUnlinkedReturn
    <3>7. CASE UNCHANGED vars
      BY <3>7, <3>1 DEF vars
    <3>. QED
      BY <3>1, <3>2, <3>3, <3>4, <3>5, <3>6, <3>7 DEF Next
  <2>2. PICK o \in Orders, p \in Products, n \in Nat :
          sub[i].o = o /\ sub[i].p = p /\ sub[i].n = n
    BY <1>1, RowTypes
  <2>3. /\ settled' = [settled EXCEPT ![o][p] = @ + n]
        /\ n <= issued[o][p] - settled[o][p] - returned[o][p]
        /\ UNCHANGED <<issued, returned>>
    BY <2>1, <2>2 DEF ApproveSubmission, Settleable, Outstanding
  <2>4. x = o /\ y = p
    BY <1>1, <1>2, <2>3 DEF TypeOK
  <2>. QED
    BY <1>1, <2>3, <2>4 DEF TypeOK
<1>. QED
  BY <1>2

(* No submission is approved for boxes an approved return has taken. *)
THEOREM SettlementsTakeOwedBoxes == Spec => SettlesOnlyOwed
BY InvAlways, SettleStep, PTL DEF Spec, SettlesOnlyOwed

-----------------------------------------------------------------------------
(* The sums of the book, over any rows s of submissions and t of returns,  *)
(* and what one row adds to them.                                          *)
SoldRows(s, o, p) ==
  {i \in DOMAIN s : s[i].o = o /\ s[i].p = p /\ s[i].sale = "LIVE"}
SoldIn(s, o, p) == SumFunction([i \in SoldRows(s, o, p) |-> s[i].n])
SoldBy(s, i, o, p) == IF i \in SoldRows(s, o, p) THEN s[i].n ELSE 0

ReturnRows(t, o, p, st) ==
  {i \in DOMAIN t : t[i].o = o /\ t[i].p = p /\ t[i].st = st}
BoxesIn(t, o, p, st) == SumFunction([i \in ReturnRows(t, o, p, st) |-> Boxes(t[i].n)])
BoxesBy(t, i, o, p, st) == IF i \in ReturnRows(t, o, p, st) THEN Boxes(t[i].n) ELSE 0

LEMMA SumsNow ==
  /\ \A o, p : LiveSaleBoxes(o, p) = SoldIn(sub, o, p)
  /\ \A o, p, st : ReturnBoxes(o, p, st) = BoxesIn(ret, o, p, st)
BY DEF LiveSaleBoxes, LiveSales, SoldIn, SoldRows, ReturnBoxes, ReturnsOf,
       BoxesIn, ReturnRows

LEMMA SumsThen ==
  /\ \A o, p : LiveSaleBoxes(o, p)' = SoldIn(sub', o, p)
  /\ \A o, p, st : ReturnBoxes(o, p, st)' = BoxesIn(ret', o, p, st)
BY DEF LiveSaleBoxes, LiveSales, SoldIn, SoldRows, ReturnBoxes, ReturnsOf,
       BoxesIn, ReturnRows

(* Rows that are finite in number and count boxes. *)
SaleLike(s) == IsFiniteSet(DOMAIN s) /\ \A j \in DOMAIN s : s[j].n \in Nat
ReturnLike(t) == IsFiniteSet(DOMAIN t) /\ \A j \in DOMAIN t : Boxes(t[j].n) \in Nat

LEMMA RowsAreLike == ASSUME TypeOK PROVE SaleLike(sub) /\ ReturnLike(ret)
<1>1. IsFiniteSet(Subs) /\ IsFiniteSet(Rets)
  BY OrderAssumption
<1>2. DOMAIN sub \in SUBSET Subs /\ DOMAIN ret \in SUBSET Rets
  BY DEF TypeOK
<1>3. IsFiniteSet(DOMAIN sub) /\ IsFiniteSet(DOMAIN ret)
  BY <1>1, <1>2, FS_Subset
<1>. QED
  BY <1>3, RowTypes DEF SaleLike, ReturnLike

LEMMA RowsStayLike == ASSUME TypeOK' PROVE SaleLike(sub') /\ ReturnLike(ret')
<1>1. IsFiniteSet(Subs) /\ IsFiniteSet(Rets)
  BY OrderAssumption
<1>2. DOMAIN sub' \in SUBSET Subs /\ DOMAIN ret' \in SUBSET Rets
  BY DEF TypeOK
<1>3. IsFiniteSet(DOMAIN sub') /\ IsFiniteSet(DOMAIN ret')
  BY <1>1, <1>2, FS_Subset
<1>4. /\ \A i \in DOMAIN sub' : sub'[i] \in SubRow
      /\ \A i \in DOMAIN ret' : ret'[i] \in RetRow
  BY DEF TypeOK
<1>5. \A row \in SubRow : row.n \in Nat
  BY LineIsNat DEF SubRow
<1>6. \A row \in RetRow : Boxes(row.n) \in Nat
  BY OrderAssumption DEF RetRow, Boxes, Condition
<1>. QED
  BY <1>3, <1>4, <1>5, <1>6 DEF SaleLike, ReturnLike

(* One row written: the sums move by what it adds now less what it added. *)
LEMMA SoldMoves ==
  ASSUME NEW s, NEW s2, SaleLike(s), SaleLike(s2), NEW i, NEW o, NEW p,
         DOMAIN s2 \ {i} = DOMAIN s \ {i}, \A j \in DOMAIN s \ {i} : s2[j] = s[j]
  PROVE  /\ SoldIn(s2, o, p) = SoldIn(s, o, p) - SoldBy(s, i, o, p) + SoldBy(s2, i, o, p)
         /\ SoldIn(s, o, p) \in Nat /\ SoldBy(s, i, o, p) <= SoldIn(s, o, p)
<1>. DEFINE f == [j \in SoldRows(s, o, p) |-> s[j].n]
            g == [j \in SoldRows(s2, o, p) |-> s2[j].n]
<1>0. SoldRows(s, o, p) \in SUBSET DOMAIN s
  BY DEF SoldRows
<1>1. IsFiniteSet(SoldRows(s, o, p))
  BY <1>0, FS_Subset DEF SaleLike
<1>2. SoldRows(s2, o, p) \ {i} = SoldRows(s, o, p) \ {i}
  BY DEF SoldRows
<1>3. /\ DOMAIN f = SoldRows(s, o, p) /\ DOMAIN g = SoldRows(s2, o, p)
      /\ \A x \in DOMAIN f : f[x] = s[x].n /\ f[x] \in Nat
      /\ \A x \in DOMAIN g : g[x] = s2[x].n /\ g[x] \in Nat
  BY DEF SaleLike, SoldRows
<1>4. \A x \in DOMAIN f \ {i} : g[x] = f[x]
  BY <1>2, <1>3 DEF SoldRows
<1>5. ValueAt(f, i) = SoldBy(s, i, o, p) /\ ValueAt(g, i) = SoldBy(s2, i, o, p)
  BY DEF ValueAt, SoldBy
<1>. HIDE DEF f, g
<1>6. /\ \A x \in DOMAIN f : f[x] \in Int /\ f[x] \in Nat
      /\ \A x \in DOMAIN g : g[x] \in Int
  BY <1>3
<1>7. SumFunction(g) = SumFunction(f) - ValueAt(f, i) + ValueAt(g, i)
  BY <1>1, <1>2, <1>3, <1>4, <1>6, SumDiffersAt
<1>8. SumFunction(f) \in Nat /\ \A x \in DOMAIN f : f[x] <= SumFunction(f)
  BY <1>1, <1>3, <1>6, SumFunctionIsNat
<1>9. ValueAt(f, i) <= SumFunction(f)
  BY <1>3, <1>8 DEF ValueAt
<1>10. SumFunction(f) = SoldIn(s, o, p) /\ SumFunction(g) = SoldIn(s2, o, p)
  BY DEF f, g, SoldIn
<1>. QED
  BY <1>5, <1>7, <1>8, <1>9, <1>10

(* The same for returns; only the rows counted need to be the same.        *)
LEMMA BoxesMove ==
  ASSUME NEW t, NEW t2, ReturnLike(t), ReturnLike(t2), NEW i, NEW o, NEW p, NEW st,
         ReturnRows(t2, o, p, st) \ {i} = ReturnRows(t, o, p, st) \ {i},
         \A j \in ReturnRows(t, o, p, st) \ {i} : t2[j].n = t[j].n
  PROVE  /\ BoxesIn(t2, o, p, st)
              = BoxesIn(t, o, p, st) - BoxesBy(t, i, o, p, st) + BoxesBy(t2, i, o, p, st)
         /\ BoxesIn(t, o, p, st) \in Nat
         /\ BoxesBy(t, i, o, p, st) <= BoxesIn(t, o, p, st)
<1>. DEFINE f == [j \in ReturnRows(t, o, p, st) |-> Boxes(t[j].n)]
            g == [j \in ReturnRows(t2, o, p, st) |-> Boxes(t2[j].n)]
<1>0. ReturnRows(t, o, p, st) \in SUBSET DOMAIN t
  BY DEF ReturnRows
<1>1. IsFiniteSet(ReturnRows(t, o, p, st))
  BY <1>0, FS_Subset DEF ReturnLike
<1>3. /\ DOMAIN f = ReturnRows(t, o, p, st) /\ DOMAIN g = ReturnRows(t2, o, p, st)
      /\ \A x \in DOMAIN f : f[x] = Boxes(t[x].n) /\ f[x] \in Nat
      /\ \A x \in DOMAIN g : g[x] = Boxes(t2[x].n) /\ g[x] \in Nat
  BY DEF ReturnLike, ReturnRows
<1>4. \A x \in DOMAIN f \ {i} : g[x] = f[x]
  BY <1>3
<1>5. ValueAt(f, i) = BoxesBy(t, i, o, p, st) /\ ValueAt(g, i) = BoxesBy(t2, i, o, p, st)
  BY DEF ValueAt, BoxesBy
<1>. HIDE DEF f, g
<1>6. /\ \A x \in DOMAIN f : f[x] \in Int /\ f[x] \in Nat
      /\ \A x \in DOMAIN g : g[x] \in Int
  BY <1>3
<1>7. SumFunction(g) = SumFunction(f) - ValueAt(f, i) + ValueAt(g, i)
  BY <1>1, <1>3, <1>4, <1>6, SumDiffersAt
<1>8. SumFunction(f) \in Nat /\ \A x \in DOMAIN f : f[x] <= SumFunction(f)
  BY <1>1, <1>3, <1>6, SumFunctionIsNat
<1>9. ValueAt(f, i) <= SumFunction(f)
  BY <1>3, <1>8 DEF ValueAt
<1>10. SumFunction(f) = BoxesIn(t, o, p, st) /\ SumFunction(g) = BoxesIn(t2, o, p, st)
  BY DEF f, g, BoxesIn
<1>. QED
  BY <1>5, <1>7, <1>8, <1>9, <1>10

LEMMA BoxesMoveAtRow ==
  ASSUME NEW t, NEW t2, ReturnLike(t), ReturnLike(t2), NEW i, NEW o, NEW p, NEW st,
         DOMAIN t2 \ {i} = DOMAIN t \ {i}, \A j \in DOMAIN t \ {i} : t2[j] = t[j]
  PROVE  /\ BoxesIn(t2, o, p, st)
              = BoxesIn(t, o, p, st) - BoxesBy(t, i, o, p, st) + BoxesBy(t2, i, o, p, st)
         /\ BoxesIn(t, o, p, st) \in Nat
         /\ BoxesBy(t, i, o, p, st) <= BoxesIn(t, o, p, st)
<1>1. ReturnRows(t2, o, p, st) \ {i} = ReturnRows(t, o, p, st) \ {i}
  BY DEF ReturnRows
<1>2. \A j \in ReturnRows(t, o, p, st) \ {i} : t2[j].n = t[j].n
  BY DEF ReturnRows
<1>. QED
  BY <1>1, <1>2, BoxesMove

-----------------------------------------------------------------------------
(* CountersAreSums.  A sale follows the decision on its submission: there  *)
(* is none while it is pending, so an approval books its boxes once.       *)
SaleFollows ==
  \A i \in DOMAIN sub : sub[i].st = "PENDING" => sub[i].sale = "NONE"

CounterInv == SaleFollows /\ CountersAreSums

(* The counters, as what they are over the rows given. *)
Counted(s, t, stl, rtn, val) ==
  \A o \in Orders :
    /\ \A p \in Products : stl[o][p] = SoldIn(s, o, p)
    /\ \A p \in Products : rtn[o][p] = BoxesIn(t, o, p, "APPROVED")
    /\ val[o] = SumFunction(stl[o])

LEMMA CountedNow == CountersAreSums <=> Counted(sub, ret, settled, returned, value)
BY SumsNow DEF CountersAreSums, Counted

LEMMA CountedThen == Counted(sub', ret', settled', returned', value') => CountersAreSums'
BY SumsThen DEF CountersAreSums, Counted

LEMMA SettledIsNat ==
  ASSUME TypeOK, CountersAreSums
  PROVE  settled \in [Orders -> [Products -> Nat]]
<1>1. ASSUME NEW o \in Orders, NEW p \in Products PROVE settled[o][p] \in Nat
  <2>1. settled[o][p] = SoldIn(sub, o, p)
    BY CountedNow DEF Counted
  <2>2. SoldIn(sub, o, p) \in Nat
    BY RowsAreLike, SoldMoves
  <2>. QED
    BY <2>1, <2>2
<1>2. settled \in [Orders -> [Products -> Int]]
  BY DEF TypeOK
<1>. QED
  BY <1>1, <1>2

(* Steps that touch neither rows nor counters. *)
LEMMA RowsAloneCount ==
  ASSUME CounterInv, UNCHANGED <<settled, returned, value, sub, ret>>
  PROVE  CounterInv'
<1>1. SaleFollows'
  BY DEF CounterInv, SaleFollows
<1>2. Counted(sub', ret', settled', returned', value')
  BY CountedNow DEF CounterInv
<1>. QED
  BY <1>1, <1>2, CountedThen DEF CounterInv

(* A submission row is made or dropped: no sale comes or goes. *)
LEMMA SaleRowsStand ==
  ASSUME TypeOK, TypeOK', CounterInv, NEW i,
         DOMAIN sub' \ {i} = DOMAIN sub \ {i},
         \A j \in DOMAIN sub \ {i} : sub'[j] = sub[j],
         \A o, p : SoldBy(sub', i, o, p) = SoldBy(sub, i, o, p),
         i \in DOMAIN sub' /\ sub'[i].st = "PENDING" => sub'[i].sale = "NONE",
         UNCHANGED <<settled, returned, value, ret>>
  PROVE  CounterInv'
<1>1. \A o, p : SoldIn(sub', o, p) = SoldIn(sub, o, p)
  <2>1. SaleLike(sub) /\ SaleLike(sub')
    BY RowsAreLike, RowsStayLike
  <2>. SUFFICES ASSUME NEW o, NEW p PROVE SoldIn(sub', o, p) = SoldIn(sub, o, p)
    OBVIOUS
  <2>2. /\ SoldIn(sub', o, p)
             = SoldIn(sub, o, p) - SoldBy(sub, i, o, p) + SoldBy(sub', i, o, p)
        /\ SoldIn(sub, o, p) \in Nat
    BY <2>1, SoldMoves
  <2>3. SoldBy(sub, i, o, p) \in Nat
    BY <2>1 DEF SoldBy, SoldRows, SaleLike
  <2>. QED
    BY <2>2, <2>3
<1>2. SaleFollows'
  BY DEF CounterInv, SaleFollows
<1>3. Counted(sub', ret', settled', returned', value')
  BY <1>1, CountedNow DEF CounterInv, Counted
<1>. QED
  BY <1>2, <1>3, CountedThen DEF CounterInv

LEMMA SubmitCounts ==
  ASSUME TypeOK, TypeOK', CounterInv, NEW i \in Subs, NEW o \in Orders,
         NEW p \in Products, NEW n, Submit(i, o, p, n)
  PROVE  CounterInv'
<1>1. /\ sub' = WithRow(sub, i, [st |-> "PENDING", o |-> o, p |-> p, n |-> n,
                                 sale |-> "NONE"])
      /\ i \notin DOMAIN sub /\ UNCHANGED <<settled, returned, value, ret>>
  BY DEF Submit
<1>2. /\ DOMAIN sub' \ {i} = DOMAIN sub \ {i} /\ i \in DOMAIN sub'
      /\ \A j \in DOMAIN sub \ {i} : sub'[j] = sub[j]
      /\ sub'[i].sale = "NONE"
  BY <1>1 DEF WithRow
<1>3. \A x, y : SoldBy(sub', i, x, y) = 0 /\ SoldBy(sub, i, x, y) = 0
  BY <1>1, <1>2 DEF SoldBy, SoldRows
<1>. QED
  BY <1>1, <1>2, <1>3, SaleRowsStand

LEMMA RejectSubmissionCounts ==
  ASSUME TypeOK, TypeOK', CounterInv, NEW i \in DOMAIN sub, RejectSubmission(i)
  PROVE  CounterInv'
<1>1. /\ sub' = [sub EXCEPT ![i] = [@ EXCEPT !.st = "DROPPED"]]
      /\ UNCHANGED <<settled, returned, value, ret>>
  BY DEF RejectSubmission
<1>2. sub[i] \in SubRow /\ sub \in [DOMAIN sub -> SubRow]
  BY DEF TypeOK
<1>3. /\ DOMAIN sub' = DOMAIN sub
      /\ \A j \in DOMAIN sub \ {i} : sub'[j] = sub[j]
      /\ sub'[i] = [sub[i] EXCEPT !.st = "DROPPED"]
  BY <1>1, <1>2
<1>4. /\ sub'[i].o = sub[i].o /\ sub'[i].p = sub[i].p /\ sub'[i].n = sub[i].n
      /\ sub'[i].sale = sub[i].sale /\ sub'[i].st = "DROPPED"
  BY <1>2, <1>3 DEF SubRow
<1>5. \A x, y : SoldBy(sub', i, x, y) = SoldBy(sub, i, x, y)
  BY <1>3, <1>4 DEF SoldBy, SoldRows
<1>. QED
  BY <1>1, <1>3, <1>4, <1>5, SaleRowsStand

(* The counters of one order and product follow the sale that comes or     *)
(* goes: d boxes more, or fewer.                                           *)
SaleWritten(i, o, p, d) ==
  /\ DOMAIN sub' = DOMAIN sub
  /\ \A j \in DOMAIN sub \ {i} : sub'[j] = sub[j]
  /\ sub'[i].st # "PENDING"
  /\ \A x \in Orders, y \in Products :
       SoldBy(sub', i, x, y) - SoldBy(sub, i, x, y) = IF x = o /\ y = p THEN d ELSE 0
  /\ settled' = [settled EXCEPT ![o][p] = @ + d]
  /\ value' = [value EXCEPT ![o] = @ + d]
  /\ UNCHANGED <<returned, ret>>

LEMMA SaleCounts ==
  ASSUME TypeOK, TypeOK', CounterInv, NEW i \in DOMAIN sub, NEW o \in Orders,
         NEW p \in Products, NEW d \in Int, SaleWritten(i, o, p, d)
  PROVE  CounterInv'
<1>. USE DEF SaleWritten
<1>1. Counted(sub, ret, settled, returned, value)
  BY CountedNow DEF CounterInv
<1>2. /\ settled \in [Orders -> [Products -> Int]] /\ value \in [Orders -> Nat]
      /\ IsFiniteSet(Products)
  BY OrderAssumption DEF TypeOK
<1>3. SaleLike(sub) /\ SaleLike(sub')
  BY RowsAreLike, RowsStayLike
<1>4. \A x \in Orders, y \in Products :
        settled'[x][y] = settled[x][y] + (IF x = o /\ y = p THEN d ELSE 0)
  BY <1>2
<1>5. ASSUME NEW x \in Orders, NEW y \in Products
      PROVE  settled'[x][y] = SoldIn(sub', x, y)
  <2>1. /\ SoldIn(sub', x, y)
             = SoldIn(sub, x, y) - SoldBy(sub, i, x, y) + SoldBy(sub', i, x, y)
        /\ SoldIn(sub, x, y) \in Nat
    BY <1>3, SoldMoves
  <2>2. SoldBy(sub, i, x, y) \in Nat /\ SoldBy(sub', i, x, y) \in Nat
    BY <1>3 DEF SoldBy, SoldRows, SaleLike
  <2>3. settled[x][y] = SoldIn(sub, x, y)
    BY <1>1 DEF Counted
  <2>. QED
    BY <1>4, <2>1, <2>2, <2>3
<1>6. ASSUME NEW x \in Orders PROVE value'[x] = SumFunction(settled'[x])
  <2>1. value[x] = SumFunction(settled[x])
    BY <1>1 DEF Counted
  <2>2. CASE x # o
    BY <1>2, <2>1, <2>2
  <2>3. CASE x = o
    <3>1. /\ DOMAIN settled[o] = Products /\ DOMAIN settled'[o] = Products
          /\ \A y \in Products : settled[o][y] \in Int /\ settled'[o][y] \in Int
          /\ \A y \in Products \ {p} : settled'[o][y] = settled[o][y]
      BY <1>2
    <3>2. SumFunction(settled'[o])
            = SumFunction(settled[o]) - ValueAt(settled[o], p) + ValueAt(settled'[o], p)
      <4>. DEFINE f == settled[o]
                  g == settled'[o]
      <4>1. /\ IsFiniteSet(DOMAIN f) /\ DOMAIN f \ {p} = DOMAIN g \ {p}
            /\ \A y \in DOMAIN f \ {p} : g[y] = f[y]
            /\ \A y \in DOMAIN f : f[y] \in Int
            /\ \A y \in DOMAIN g : g[y] \in Int
        BY <1>2, <3>1
      <4>. HIDE DEF f, g
      <4>2. SumFunction(g) = SumFunction(f) - ValueAt(f, p) + ValueAt(g, p)
        BY <4>1, SumDiffersAt
      <4>. QED
        BY <4>2 DEF f, g
    <3>3. ValueAt(settled[o], p) = settled[o][p] /\ ValueAt(settled'[o], p) = settled'[o][p]
      BY <3>1 DEF ValueAt
    <3>4. settled'[o][p] = settled[o][p] + d /\ settled[o][p] \in Int
      BY <1>2
    <3>5. value'[o] = value[o] + d /\ value[o] \in Int
      BY <1>2
    <3>. QED
      BY <2>1, <2>3, <3>2, <3>3, <3>4, <3>5
  <2>. QED
    BY <2>2, <2>3
<1>7. Counted(sub', ret', settled', returned', value')
  BY <1>1, <1>5, <1>6 DEF Counted
<1>8. SaleFollows'
  BY DEF CounterInv, SaleFollows
<1>. QED
  BY <1>7, <1>8, CountedThen DEF CounterInv

LEMMA ApproveSubmissionCounts ==
  ASSUME TypeOK, TypeOK', CounterInv, NEW i \in DOMAIN sub, ApproveSubmission(i)
  PROVE  CounterInv'
<1>0. PICK o \in Orders, p \in Products, n \in Nat :
        sub[i].o = o /\ sub[i].p = p /\ sub[i].n = n
  BY RowTypes
<1>1. sub[i] \in SubRow /\ sub \in [DOMAIN sub -> SubRow]
  BY DEF TypeOK
<1>2. /\ sub' = [sub EXCEPT ![i] = [@ EXCEPT !.st = "APPROVED", !.sale = "LIVE"]]
      /\ settled' = [settled EXCEPT ![o][p] = @ + n]
      /\ value' = [value EXCEPT ![o] = @ + n]
      /\ sub[i].st = "PENDING" /\ UNCHANGED <<returned, ret>>
  BY <1>0 DEF ApproveSubmission
<1>3. /\ DOMAIN sub' = DOMAIN sub
      /\ \A j \in DOMAIN sub \ {i} : sub'[j] = sub[j]
      /\ sub'[i] = [sub[i] EXCEPT !.st = "APPROVED", !.sale = "LIVE"]
  BY <1>1, <1>2
<1>4. /\ sub'[i].o = o /\ sub'[i].p = p /\ sub'[i].n = n
      /\ sub'[i].sale = "LIVE" /\ sub'[i].st = "APPROVED"
  BY <1>0, <1>1, <1>3 DEF SubRow
<1>5. sub[i].sale = "NONE"
  BY <1>2 DEF CounterInv, SaleFollows
<1>6. \A x \in Orders, y \in Products :
        /\ SoldBy(sub, i, x, y) = 0
        /\ SoldBy(sub', i, x, y) = IF x = o /\ y = p THEN n ELSE 0
  BY <1>0, <1>3, <1>4, <1>5 DEF SoldBy, SoldRows
<1>7. \A x \in Orders, y \in Products :
        SoldBy(sub', i, x, y) - SoldBy(sub, i, x, y) = IF x = o /\ y = p THEN n ELSE 0
  BY <1>6
<1>8. SaleWritten(i, o, p, n)
  BY <1>2, <1>3, <1>4, <1>7 DEF SaleWritten
<1>. QED
  BY <1>8, SaleCounts

(* The sale that goes was counted, so the value is never cut off at zero.  *)
LEMMA CancelSaleCounts ==
  ASSUME TypeOK, TypeOK', CounterInv, NEW i \in DOMAIN sub, CancelSale(i)
  PROVE  CounterInv'
<1>0. PICK o \in Orders, p \in Products, n \in Nat :
        sub[i].o = o /\ sub[i].p = p /\ sub[i].n = n
  BY RowTypes
<1>1. sub[i] \in SubRow /\ sub \in [DOMAIN sub -> SubRow]
  BY DEF TypeOK
<1>2. /\ sub' = [sub EXCEPT ![i] = [@ EXCEPT !.sale = "CANCELLED"]]
      /\ settled' = [settled EXCEPT ![o][p] = @ - n]
      /\ value' = [value EXCEPT ![o] = Max0(@ - n)]
      /\ sub[i].sale = "LIVE" /\ UNCHANGED <<returned, ret>>
  BY <1>0 DEF CancelSale, RolledBack
<1>3. /\ DOMAIN sub' = DOMAIN sub
      /\ \A j \in DOMAIN sub \ {i} : sub'[j] = sub[j]
      /\ sub'[i] = [sub[i] EXCEPT !.sale = "CANCELLED"]
  BY <1>1, <1>2
<1>4. /\ sub'[i].st = sub[i].st /\ sub'[i].sale = "CANCELLED"
      /\ sub[i].st # "PENDING"
  BY <1>1, <1>2, <1>3 DEF SubRow, CounterInv, SaleFollows
<1>5. \A x \in Orders, y \in Products :
        /\ SoldBy(sub', i, x, y) = 0
        /\ SoldBy(sub, i, x, y) = IF x = o /\ y = p THEN n ELSE 0
  BY <1>0, <1>2, <1>3, <1>4 DEF SoldBy, SoldRows
<1>. PICK d \in Int : d = 0 - n
  OBVIOUS
<1>6. \A x \in Orders, y \in Products :
        SoldBy(sub', i, x, y) - SoldBy(sub, i, x, y) = IF x = o /\ y = p THEN d ELSE 0
  BY <1>5
<1>7. value[o] >= n
  <2>1. settled[o][p] = SoldIn(sub, o, p) /\ value[o] = SumFunction(settled[o])
    BY CountedNow DEF CounterInv, Counted
  <2>2. n <= settled[o][p]
    BY <1>3, <1>5, <2>1, RowsAreLike, RowsStayLike, SoldMoves
  <2>3. settled \in [Orders -> [Products -> Nat]] /\ IsFiniteSet(Products)
    BY OrderAssumption, SettledIsNat DEF CounterInv
  <2>4. /\ DOMAIN settled[o] = Products
        /\ \A y \in DOMAIN settled[o] : settled[o][y] \in Nat
    BY <2>3
  <2>5. settled[o][p] <= value[o] /\ value[o] \in Nat
    BY <2>1, <2>3, <2>4, SumFunctionIsNat
  <2>. QED
    BY <2>2, <2>3, <2>5
<1>8. value' = [value EXCEPT ![o] = @ + d] /\ settled' = [settled EXCEPT ![o][p] = @ + d]
  <2>1. value[o] \in Nat /\ settled[o][p] \in Int
    BY DEF TypeOK
  <2>2. Max0(value[o] - n) = value[o] + d
    BY <1>7, <2>1 DEF Max0
  <2>3. settled[o][p] - n = settled[o][p] + d
    BY <2>1
  <2>. QED
    BY <1>2, <2>2, <2>3
<1>9. SaleWritten(i, o, p, d)
  BY <1>2, <1>3, <1>4, <1>6, <1>8 DEF SaleWritten
<1>. QED
  BY <1>9, SaleCounts

(* What the return handlers write, row by row. *)
LEMMA RequestedRow ==
  ASSUME TypeOK, NEW i \in Rets, NEW o \in Orders, NEW p \in Products,
         NEW l \in Lines, CreateReturn(i, o, p, l)
  PROVE  /\ i \notin DOMAIN ret /\ DOMAIN ret' = DOMAIN ret \cup {i}
         /\ ret'[i] = NewReturn(o, p, l)
         /\ \A j \in DOMAIN ret : ret'[j] = ret[j]
         /\ UNCHANGED <<status, issued, settled, returned, value, sub>>
<1>1. ret' = WithRow(ret, i, NewReturn(o, p, l)) /\ i \notin DOMAIN ret
  BY DEF CreateReturn
<1>2. UNCHANGED <<status, issued, settled, returned, value, sub>>
  BY DEF CreateReturn
<1>. QED
  BY <1>1, <1>2 DEF WithRow

LEMMA DecidedRow ==
  ASSUME TypeOK, NEW i \in DOMAIN ret, NEW st \in Decision,
         ret' = [ret EXCEPT ![i].st = st]
  PROVE  /\ DOMAIN ret' = DOMAIN ret
         /\ \A j \in DOMAIN ret \ {i} : ret'[j] = ret[j]
         /\ ret'[i].o = ret[i].o /\ ret'[i].p = ret[i].p /\ ret'[i].n = ret[i].n
         /\ ret'[i].st = st
<1>1. ret[i] \in RetRow /\ ret \in [DOMAIN ret -> RetRow]
  BY DEF TypeOK
<1>2. ret'[i] = [ret[i] EXCEPT !.st = st]
  BY <1>1
<1>. QED
  BY <1>1, <1>2 DEF RetRow

LEMMA MinOfTwo ==
  ASSUME NEW a \in Int, NEW b \in Int PROVE Min({a, b}) <= b
<1>1. \E x \in {a, b} : \A y \in {a, b} : x <= y
  OBVIOUS
<1>. QED
  BY <1>1 DEF Min

LEMMA ReturnableIsInt ==
  ASSUME TypeOK, NEW o \in Orders, NEW p \in Products PROVE Returnable(o, p) \in Int
<1>1. ReturnBoxes(o, p, "PENDING") \in Nat
  BY SumsNow, RowsAreLike, BoxesMoveAtRow
<1>2. Outstanding(o, p) \in Int
  BY DEF TypeOK, Outstanding
<1>. QED
  BY <1>1, <1>2 DEF Returnable

(* The parts of an unlinked return: one row per order, within what can     *)
(* still be returned on it.                                                *)
LEMMA UnlinkedRows ==
  ASSUME TypeOK, NEW r \in Reps, NEW p \in Products, NEW c \in Condition,
         NEW n \in 1..MaxLine, CreateUnlinkedReturn(r, p, c, n)
  PROVE  /\ DOMAIN ret \subseteq DOMAIN ret'
         /\ \A i \in DOMAIN ret : ret'[i] = ret[i]
         /\ \A i \in DOMAIN ret' \ DOMAIN ret :
              /\ ret'[i].st = "PENDING" /\ ret'[i].p = p /\ ret'[i].o \in Orders
              /\ Boxes(ret'[i].n) <= Returnable(ret'[i].o, p)
         /\ \A i, j \in DOMAIN ret' \ DOMAIN ret : ret'[i].o = ret'[j].o => i = j
         /\ UNCHANGED <<status, issued, settled, returned, value, sub>>
<1>. DEFINE part == [o \in Orders |-> Allocated(r, p, n, o)]
            takers == {o \in Orders : part[o] > 0}
            lineOf(o) == [k \in Condition |-> IF k = c THEN part[o] ELSE 0]
            at(i, id) == CHOOSE x \in takers : id[x] = i
<1>1. PICK id \in [takers -> Rets \ DOMAIN ret] :
        /\ \A x, y \in takers : id[x] = id[y] => x = y
        /\ ret' = [i \in DOMAIN ret \cup {id[o] : o \in takers} |->
                    IF i \in DOMAIN ret THEN ret[i]
                    ELSE NewReturn(at(i, id), p, lineOf(at(i, id)))]
  BY DEF CreateUnlinkedReturn
<1>2. part \in [Orders -> 0..n] /\ n \in Nat
  BY OrderAssumption DEF CreateUnlinkedReturn
<1>3. ASSUME NEW o \in takers PROVE part[o] <= Returnable(o, p)
  <2>. DEFINE older == {x \in UnsettledOf(r) : x < o}
              before == SumFunction([x \in older |-> Max0(Returnable(x, p))])
              room == n - before
  <2>1. part[o] = Allocated(r, p, n, o) /\ part[o] > 0
    OBVIOUS
  <2>2. before \in Int
    <3>. DEFINE f == [x \in older |-> Max0(Returnable(x, p))]
    <3>1. older \in SUBSET Orders /\ IsFiniteSet(Orders)
      BY OrderAssumption DEF UnsettledOf
    <3>2. IsFiniteSet(DOMAIN f)
      BY <3>1, FS_Subset
    <3>3. \A x \in DOMAIN f : f[x] \in Int
      BY <3>1, ReturnableIsInt DEF Max0
    <3>. HIDE DEF f
    <3>4. SumFunction(f) \in Int
      BY <3>2, <3>3, SumFunctionIsInt
    <3>. QED
      BY <3>4 DEF f
  <2>. HIDE DEF part, before
  <2>3. Max0(room) \in Int /\ Max0(Returnable(o, p)) \in Int /\ Returnable(o, p) \in Int
    BY <1>2, <2>2, ReturnableIsInt DEF Max0
  <2>4. Allocated(r, p, n, o) = IF o \in UnsettledOf(r)
          THEN Min({Max0(room), Max0(Returnable(o, p))}) ELSE 0
    BY DEF Allocated, before
  <2>. HIDE DEF room
  <2>5. part[o] <= Max0(Returnable(o, p))
    BY <2>1, <2>3, <2>4, MinOfTwo
  <2>6. part[o] \in Int
    BY <1>2
  <2>. QED
    BY <2>1, <2>3, <2>5, <2>6 DEF Max0
<1>4. ASSUME NEW o \in takers PROVE Boxes(lineOf(o)) = part[o]
  <2>1. part[o] \in Nat
    BY <1>2
  <2>. HIDE DEF part
  <2>. QED
    BY <2>1 DEF Boxes, Condition
<1>. HIDE DEF part, lineOf
<1>5. ASSUME NEW i \in DOMAIN ret' \ DOMAIN ret
      PROVE  \E o \in takers : id[o] = i /\ ret'[i] = NewReturn(o, p, lineOf(o))
  <2>1. \E x \in takers : id[x] = i
    BY <1>1
  <2>2. at(i, id) \in takers /\ id[at(i, id)] = i
    BY <2>1
  <2>3. ret'[i] = NewReturn(at(i, id), p, lineOf(at(i, id)))
    BY <1>1
  <2>. QED
    BY <2>2, <2>3
<1>6. DOMAIN ret \subseteq DOMAIN ret' /\ \A i \in DOMAIN ret : ret'[i] = ret[i]
  BY <1>1
<1>7. ASSUME NEW i \in DOMAIN ret' \ DOMAIN ret
      PROVE  /\ ret'[i].st = "PENDING" /\ ret'[i].p = p /\ ret'[i].o \in takers
             /\ Boxes(ret'[i].n) <= Returnable(ret'[i].o, p)
             /\ id[ret'[i].o] = i
  BY <1>3, <1>4, <1>5 DEF NewReturn
<1>8. \A i, j \in DOMAIN ret' \ DOMAIN ret : ret'[i].o = ret'[j].o => i = j
  BY <1>7
<1>9. UNCHANGED <<status, issued, settled, returned, value, sub>>
  BY DEF CreateUnlinkedReturn
<1>. QED
  BY <1>6, <1>7, <1>8, <1>9

(* The same rows are counted. *)
LEMMA BoxesStand ==
  ASSUME NEW t, NEW t2, NEW o, NEW p, NEW st,
         ReturnRows(t2, o, p, st) = ReturnRows(t, o, p, st),
         \A j \in ReturnRows(t, o, p, st) : t2[j].n = t[j].n
  PROVE  BoxesIn(t2, o, p, st) = BoxesIn(t, o, p, st)
<1>1. [j \in ReturnRows(t2, o, p, st) |-> Boxes(t2[j].n)]
        = [j \in ReturnRows(t, o, p, st) |-> Boxes(t[j].n)]
  OBVIOUS
<1>. QED
  BY <1>1 DEF BoxesIn

(* Steps that approve no return. *)
LEMMA NothingReturnedCounts ==
  ASSUME CounterInv,
         \A o, p : ReturnRows(ret', o, p, "APPROVED") = ReturnRows(ret, o, p, "APPROVED"),
         \A o, p : \A j \in ReturnRows(ret, o, p, "APPROVED") : ret'[j].n = ret[j].n,
         UNCHANGED <<settled, returned, value, sub>>
  PROVE  CounterInv'
<1>1. \A o, p : BoxesIn(ret', o, p, "APPROVED") = BoxesIn(ret, o, p, "APPROVED")
  BY BoxesStand
<1>2. SaleFollows'
  BY DEF CounterInv, SaleFollows
<1>3. Counted(sub', ret', settled', returned', value')
  BY <1>1, CountedNow DEF CounterInv, Counted
<1>. QED
  BY <1>2, <1>3, CountedThen DEF CounterInv

LEMMA CreateReturnCounts ==
  ASSUME TypeOK, CounterInv, NEW i \in Rets, NEW o \in Orders, NEW p \in Products,
         NEW l \in Lines, CreateReturn(i, o, p, l)
  PROVE  CounterInv'
<1>1. /\ i \notin DOMAIN ret /\ DOMAIN ret' = DOMAIN ret \cup {i}
      /\ ret'[i] = NewReturn(o, p, l)
      /\ \A j \in DOMAIN ret : ret'[j] = ret[j]
      /\ UNCHANGED <<status, issued, settled, returned, value, sub>>
  BY RequestedRow
<1>2. ret'[i].st = "PENDING"
  BY <1>1 DEF NewReturn
<1>3. \A x, y : ReturnRows(ret', x, y, "APPROVED") = ReturnRows(ret, x, y, "APPROVED")
  BY <1>1, <1>2 DEF ReturnRows
<1>4. \A x, y : \A j \in ReturnRows(ret, x, y, "APPROVED") : ret'[j].n = ret[j].n
  BY <1>1 DEF ReturnRows
<1>. QED
  BY <1>1, <1>3, <1>4, NothingReturnedCounts

LEMMA CreateUnlinkedReturnCounts ==
  ASSUME TypeOK, CounterInv, NEW r \in Reps, NEW p \in Products, NEW c \in Condition,
         NEW n \in 1..MaxLine, CreateUnlinkedReturn(r, p, c, n)
  PROVE  CounterInv'
<1>1. /\ DOMAIN ret \subseteq DOMAIN ret'
      /\ \A i \in DOMAIN ret : ret'[i] = ret[i]
      /\ \A i \in DOMAIN ret' \ DOMAIN ret : ret'[i].st = "PENDING"
      /\ UNCHANGED <<status, issued, settled, returned, value, sub>>
  BY UnlinkedRows
<1>2. \A x, y : ReturnRows(ret', x, y, "APPROVED") = ReturnRows(ret, x, y, "APPROVED")
  BY <1>1 DEF ReturnRows
<1>3. \A x, y : \A j \in ReturnRows(ret, x, y, "APPROVED") : ret'[j].n = ret[j].n
  BY <1>1 DEF ReturnRows
<1>. QED
  BY <1>1, <1>2, <1>3, NothingReturnedCounts

LEMMA DropReturnCounts ==
  ASSUME TypeOK, CounterInv, NEW i \in DOMAIN ret, DropReturn(i)
  PROVE  CounterInv'
<1>1. /\ ret' = [ret EXCEPT ![i].st = "DROPPED"] /\ ret[i].st = "PENDING"
      /\ UNCHANGED <<settled, returned, value, sub>>
  BY DEF DropReturn
<1>2. "DROPPED" \in Decision
  BY DEF Decision
<1>3. /\ DOMAIN ret' = DOMAIN ret
      /\ \A j \in DOMAIN ret \ {i} : ret'[j] = ret[j]
      /\ ret'[i].st = "DROPPED"
  BY <1>1, <1>2, DecidedRow
<1>4. \A x, y : ReturnRows(ret', x, y, "APPROVED") = ReturnRows(ret, x, y, "APPROVED")
  BY <1>1, <1>3 DEF ReturnRows
<1>5. \A x, y : \A j \in ReturnRows(ret, x, y, "APPROVED") : ret'[j].n = ret[j].n
  BY <1>1, <1>3 DEF ReturnRows
<1>. QED
  BY <1>1, <1>4, <1>5, NothingReturnedCounts

LEMMA ApproveReturnCounts ==
  ASSUME TypeOK, TypeOK', CounterInv, NEW i \in DOMAIN ret, ApproveReturn(i)
  PROVE  CounterInv'
<1>0. PICK o \in Orders, p \in Products, n \in Nat :
        ret[i].o = o /\ ret[i].p = p /\ Boxes(ret[i].n) = n
  BY RowTypes
<1>1. /\ ret' = [ret EXCEPT ![i].st = "APPROVED"] /\ ret[i].st = "PENDING"
      /\ returned' = [returned EXCEPT ![o][p] = @ + n]
      /\ UNCHANGED <<settled, value, sub>>
  BY <1>0 DEF ApproveReturn
<1>2. "APPROVED" \in Decision
  BY DEF Decision
<1>3. /\ DOMAIN ret' = DOMAIN ret
      /\ \A j \in DOMAIN ret \ {i} : ret'[j] = ret[j]
      /\ ret'[i].o = o /\ ret'[i].p = p /\ ret'[i].n = ret[i].n
      /\ ret'[i].st = "APPROVED"
  BY <1>0, <1>1, <1>2, DecidedRow
<1>4. \A x \in Orders, y \in Products :
        /\ BoxesBy(ret, i, x, y, "APPROVED") = 0
        /\ BoxesBy(ret', i, x, y, "APPROVED") = IF x = o /\ y = p THEN n ELSE 0
  BY <1>0, <1>1, <1>3 DEF BoxesBy, ReturnRows
<1>5. \A x \in Orders, y \in Products :
        returned'[x][y] = returned[x][y] + (IF x = o /\ y = p THEN n ELSE 0)
  BY <1>1 DEF TypeOK
<1>6. Counted(sub, ret, settled, returned, value)
  BY CountedNow DEF CounterInv
<1>7. ASSUME NEW x \in Orders, NEW y \in Products
      PROVE  returned'[x][y] = BoxesIn(ret', x, y, "APPROVED")
  <2>1. /\ BoxesIn(ret', x, y, "APPROVED") = BoxesIn(ret, x, y, "APPROVED")
             - BoxesBy(ret, i, x, y, "APPROVED") + BoxesBy(ret', i, x, y, "APPROVED")
        /\ BoxesIn(ret, x, y, "APPROVED") \in Nat
    BY <1>3, RowsAreLike, RowsStayLike, BoxesMoveAtRow
  <2>2. returned[x][y] = BoxesIn(ret, x, y, "APPROVED")
    BY <1>6 DEF Counted
  <2>. QED
    BY <1>4, <1>5, <2>1, <2>2
<1>8. Counted(sub', ret', settled', returned', value')
  BY <1>1, <1>6, <1>7 DEF Counted
<1>9. SaleFollows'
  BY <1>1 DEF CounterInv, SaleFollows
<1>. QED
  BY <1>8, <1>9, CountedThen DEF CounterInv

-----------------------------------------------------------------------------
(* Steps that move boxes or clocks, and leave rows and counters alone. *)
LEMMA OtherStepsStand ==
  ASSUME \/ \E o \in Orders, q \in Quantity : CreateTransfer(o, q)
         \/ \E o \in Orders, p \in Products, n \in 1..MaxLine : AddStockToRep(o, p, n)
         \/ \E o \in Orders : \/ CancelTransfer(o) \/ DeadlinePasses(o)
                              \/ ExtendDeadline(o) \/ SelfExtend(o)
                              \/ UndoDeadlineChange(o)
         \/ RefreshOverdue
         \/ UNCHANGED vars
  PROVE  UNCHANGED <<settled, returned, value, sub, ret>>
<1>1. ASSUME NEW o, NEW q, CreateTransfer(o, q)
      PROVE  UNCHANGED <<settled, returned, value, sub, ret>>
  BY <1>1 DEF CreateTransfer
<1>2. ASSUME NEW o, NEW p, NEW n, AddStockToRep(o, p, n)
      PROVE  UNCHANGED <<settled, returned, value, sub, ret>>
  BY <1>1, <1>2 DEF AddStockToRep, AppendToOrder
<1>3. ASSUME NEW o, \/ CancelTransfer(o) \/ DeadlinePasses(o) \/ ExtendDeadline(o)
                    \/ SelfExtend(o) \/ UndoDeadlineChange(o)
      PROVE  UNCHANGED <<settled, returned, value, sub, ret>>
  BY <1>3 DEF CancelTransfer, DeadlinePasses, ExtendDeadline, SelfExtend,
              UndoDeadlineChange
<1>4. CASE RefreshOverdue \/ UNCHANGED vars
  BY <1>4 DEF RefreshOverdue, vars
<1>. QED
  BY <1>1, <1>2, <1>3, <1>4

LEMMA CounterNext ==
  ASSUME TypeOK, TypeOK', CounterInv, [Next]_vars PROVE CounterInv'
<1>1. CASE UNCHANGED <<settled, returned, value, sub, ret>>
  BY <1>1, RowsAloneCount
<1>2. ASSUME NEW i \in Subs, NEW o \in Orders, NEW p \in Products,
             NEW n \in 1..MaxLine, Submit(i, o, p, n)
      PROVE  CounterInv'
  BY <1>2, SubmitCounts
<1>3. ASSUME NEW i \in DOMAIN sub,
             ApproveSubmission(i) \/ RejectSubmission(i) \/ CancelSale(i)
      PROVE  CounterInv'
  BY <1>3, ApproveSubmissionCounts, RejectSubmissionCounts, CancelSaleCounts
<1>4. ASSUME NEW i \in Rets, NEW o \in Orders, NEW p \in Products,
             NEW l \in Lines, CreateReturn(i, o, p, l)
      PROVE  CounterInv'
  BY <1>4, CreateReturnCounts
<1>5. ASSUME NEW r \in Reps, NEW p \in Products, NEW c \in Condition,
             NEW n \in 1..MaxLine, CreateUnlinkedReturn(r, p, c, n)
      PROVE  CounterInv'
  BY <1>5, CreateUnlinkedReturnCounts
<1>6. ASSUME NEW i \in DOMAIN ret, ApproveReturn(i) \/ DropReturn(i)
      PROVE  CounterInv'
  BY <1>6, ApproveReturnCounts, DropReturnCounts
<1>. QED
  BY <1>1, <1>2, <1>3, <1>4, <1>5, <1>6, OtherStepsStand DEF Next

LEMMA CounterInit == ASSUME Init PROVE CounterInv
<1>1. DOMAIN sub = {} /\ DOMAIN ret = {}
  BY DEF Init
<1>2. \A o, p : SoldIn(sub, o, p) = 0
  <2>. SUFFICES ASSUME NEW o, NEW p PROVE SoldIn(sub, o, p) = 0
    OBVIOUS
  <2>1. SoldRows(sub, o, p) = {}
    BY <1>1 DEF SoldRows
  <2>. QED
    BY <2>1, SumFunctionOfNothing DEF SoldIn
<1>3. \A o, p, st : BoxesIn(ret, o, p, st) = 0
  <2>. SUFFICES ASSUME NEW o, NEW p, NEW st PROVE BoxesIn(ret, o, p, st) = 0
    OBVIOUS
  <2>1. ReturnRows(ret, o, p, st) = {}
    BY <1>1 DEF ReturnRows
  <2>. QED
    BY <2>1, SumFunctionOfNothing DEF BoxesIn
<1>4. SumFunction(NoBoxes) = 0
  <2>1. IsFiniteSet(DOMAIN NoBoxes) /\ \A p \in DOMAIN NoBoxes : NoBoxes[p] = 0
    BY OrderAssumption DEF NoBoxes
  <2>. QED
    BY <2>1, SumOfZeros
<1>5. Counted(sub, ret, settled, returned, value)
  BY <1>2, <1>3, <1>4 DEF Counted, Init, NoBoxes
<1>6. SaleFollows
  BY <1>1 DEF SaleFollows
<1>. QED
  BY <1>5, <1>6, CountedNow DEF CounterInv

LEMMA CountersHold == Spec => [](OrderInv /\ CounterInv)
<1>1. OrderInv => TypeOK
  BY DEF OrderInv
<1>2. OrderInv' => TypeOK'
  BY DEF OrderInv
<1>. QED
  BY <1>1, <1>2, InvAlways, CounterInit, CounterNext, PTL DEF Spec

(* What an order shows - boxes settled, boxes returned, value settled - is *)
(* what its rows add up to, however many there are and whatever became of  *)
(* them.                                                                   *)
THEOREM CountersAlwaysAddUp == Spec => []CountersAreSums
<1>1. CounterInv => CountersAreSums
  BY DEF CounterInv
<1>. QED
  BY <1>1, CountersHold, PTL

-----------------------------------------------------------------------------
(* BoxesReturnedOnce.  Where a request has lines of one condition only,    *)
(* the check of each line is the check of the request.                     *)
LockedFit(t, iss, rtn) ==
  \A o \in Orders, p \in Products : rtn[o][p] + BoxesIn(t, o, p, "PENDING") <= iss[o][p]

LEMMA FitNow == BoxesReturnedOnce <=> LockedFit(ret, issued, returned)
BY SumsNow DEF BoxesReturnedOnce, LockedFit

LEMMA FitThen == LockedFit(ret', issued', returned') => BoxesReturnedOnce'
BY SumsThen DEF BoxesReturnedOnce, LockedFit

(* Steps that leave the returns alone: an order only grows, and it opens   *)
(* with no return on it.                                                   *)
LEMMA GrowingFits ==
  ASSUME OrderInv, OrderInv', BoxesReturnedOnce, UNCHANGED <<ret, returned>>,
         \A o \in Orders : \/ \A p \in Products : issued[o][p] <= issued'[o][p]
                           \/ status[o] = "NONE"
  PROVE  BoxesReturnedOnce'
<1>1. ASSUME NEW o \in Orders, NEW p \in Products
      PROVE  returned'[o][p] + BoxesIn(ret', o, p, "PENDING") <= issued'[o][p]
  <2>1. BoxesIn(ret, o, p, "PENDING") \in Nat
    BY RowsAreLike, BoxesMoveAtRow DEF OrderInv
  <2>2. returned[o][p] \in Nat /\ issued[o][p] \in Nat /\ issued'[o][p] \in Nat
    BY DEF OrderInv, TypeOK
  <2>3. CASE issued[o][p] <= issued'[o][p]
    <3>1. returned[o][p] + BoxesIn(ret, o, p, "PENDING") <= issued[o][p]
      BY FitNow DEF LockedFit
    <3>. QED
      BY <2>1, <2>2, <2>3, <3>1
  <2>4. CASE status[o] = "NONE"
    <3>1. returned[o][p] = 0
      BY <2>4 DEF OrderInv, UnissuedIsBlank, NoBoxes
    <3>2. ReturnRows(ret, o, p, "PENDING") = {}
      BY <2>4 DEF OrderInv, RowsOnIssued, ReturnRows
    <3>3. BoxesIn(ret, o, p, "PENDING") = 0
      BY <3>2, SumFunctionOfNothing DEF BoxesIn
    <3>. QED
      BY <2>2, <3>1, <3>3
  <2>. QED
    BY <2>3, <2>4
<1>. QED
  BY <1>1, FitThen DEF LockedFit

LEMMA OtherStepsGrow ==
  ASSUME TypeOK,
         \/ \E o \in Orders, q \in Quantity : CreateTransfer(o, q)
         \/ \E o \in Orders, p \in Products, n \in 1..MaxLine : AddStockToRep(o, p, n)
         \/ \E o \in Orders : \/ CancelTransfer(o) \/ DeadlinePasses(o)
                              \/ ExtendDeadline(o) \/ SelfExtend(o)
                              \/ UndoDeadlineChange(o)
         \/ RefreshOverdue
         \/ UNCHANGED vars
  PROVE  \A o \in Orders : \/ \A p \in Products : issued[o][p] <= issued'[o][p]
                           \/ status[o] = "NONE"
<1>0. \A o \in Orders, p \in Products : issued[o][p] \in Nat
  BY DEF TypeOK
<1>1. ASSUME NEW x \in Orders, NEW q, CreateTransfer(x, q), NEW o \in Orders
      PROVE  \/ \A p \in Products : issued[o][p] <= issued'[o][p]
             \/ status[o] = "NONE"
  <2>1. status[x] = "NONE" /\ issued' = [issued EXCEPT ![x] = q]
    BY <1>1 DEF CreateTransfer
  <2>. QED
    BY <1>0, <2>1 DEF TypeOK
<1>2. ASSUME NEW x \in Orders, NEW y \in Products, NEW n \in 1..MaxLine,
             AppendToOrder(x, y, n), NEW o \in Orders, NEW p \in Products
      PROVE  issued[o][p] <= issued'[o][p]
  <2>1. issued' = [issued EXCEPT ![x][y] = @ + n] /\ n \in Nat
    BY <1>2, OrderAssumption DEF AppendToOrder
  <2>2. issued'[o][p] = issued[o][p] \/ issued'[o][p] = issued[o][p] + n
    BY <2>1 DEF TypeOK
  <2>. QED
    BY <1>0, <2>1, <2>2
<1>3. ASSUME NEW o, \/ CancelTransfer(o) \/ DeadlinePasses(o) \/ ExtendDeadline(o)
                    \/ SelfExtend(o) \/ UndoDeadlineChange(o)
      PROVE  UNCHANGED issued
  BY <1>3 DEF CancelTransfer, DeadlinePasses, ExtendDeadline, SelfExtend,
              UndoDeadlineChange
<1>4. CASE RefreshOverdue \/ UNCHANGED vars
  BY <1>0, <1>4 DEF RefreshOverdue, vars
<1>5. UNCHANGED issued => \A o \in Orders, p \in Products : issued[o][p] <= issued'[o][p]
  BY <1>0
<1>. QED
  BY <1>1, <1>2, <1>3, <1>4, <1>5 DEF AddStockToRep

(* A request of d boxes within what can still be returned. *)
LEMMA RequestFits ==
  ASSUME OrderInv, OrderInv', CounterInv, BoxesReturnedOnce,
         UNCHANGED <<issued, returned>>, NEW o \in Orders, NEW p \in Products, NEW i,
         ReturnRows(ret', o, p, "PENDING") \ {i} = ReturnRows(ret, o, p, "PENDING") \ {i},
         \A j \in ReturnRows(ret, o, p, "PENDING") \ {i} : ret'[j].n = ret[j].n,
         \/ BoxesBy(ret', i, o, p, "PENDING") = 0
         \/ BoxesBy(ret', i, o, p, "PENDING") <= Returnable(o, p)
  PROVE  returned'[o][p] + BoxesIn(ret', o, p, "PENDING") <= issued'[o][p]
<1>0. ReturnLike(ret) /\ ReturnLike(ret')
  BY RowsAreLike, RowsStayLike DEF OrderInv
<1>. DEFINE old == BoxesIn(ret, o, p, "PENDING")
            new == BoxesIn(ret', o, p, "PENDING")
            more == BoxesBy(ret', i, o, p, "PENDING")
            less == BoxesBy(ret, i, o, p, "PENDING")
<1>1. new = old - less + more /\ old \in Nat
  BY <1>0, BoxesMove
<1>2. less \in Nat /\ more \in Nat
  BY <1>0 DEF BoxesBy, ReturnRows, ReturnLike
<1>3. returned[o][p] + old <= issued[o][p]
  BY FitNow DEF LockedFit
<1>4. /\ returned[o][p] \in Nat /\ issued[o][p] \in Nat /\ settled[o][p] \in Nat
      /\ returned'[o][p] = returned[o][p] /\ issued'[o][p] = issued[o][p]
  BY SettledIsNat DEF CounterInv, OrderInv, TypeOK
<1>5. Returnable(o, p) = issued[o][p] - settled[o][p] - returned[o][p] - old
  BY SumsNow DEF Returnable, Outstanding
<1>. HIDE DEF old, new, more, less
<1>6. more = 0 \/ more <= Returnable(o, p)
  BY DEF more
<1>7. returned[o][p] + new <= issued[o][p]
  BY <1>1, <1>2, <1>3, <1>4, <1>5, <1>6
<1>. QED
  BY <1>4, <1>7 DEF new

LEMMA CreateReturnFits ==
  ASSUME ~MixedLines, OrderInv, OrderInv', CounterInv, BoxesReturnedOnce,
         NEW i \in Rets, NEW o \in Orders, NEW p \in Products, NEW l \in Lines,
         CreateReturn(i, o, p, l)
  PROVE  BoxesReturnedOnce'
<1>1. /\ i \notin DOMAIN ret /\ DOMAIN ret' = DOMAIN ret \cup {i}
      /\ ret'[i] = NewReturn(o, p, l)
      /\ \A j \in DOMAIN ret : ret'[j] = ret[j]
      /\ UNCHANGED <<status, issued, settled, returned, value, sub>>
  BY RequestedRow DEF OrderInv
<1>2. ret'[i].o = o /\ ret'[i].p = p /\ ret'[i].n = l
  BY <1>1 DEF NewReturn
<1>3. Boxes(l) <= Returnable(o, p)
  <2>1. \A c \in Condition : l[c] <= Returnable(o, p)
    BY DEF CreateReturn, CanReturn
  <2>2. l \in [Condition -> 0..MaxLine] /\ \E c \in Condition : l[c] = 0
    BY DEF Lines
  <2>3. Boxes(l) = l["GOOD"] \/ Boxes(l) = l["DAMAGED"]
    BY <2>2, OrderAssumption DEF Boxes, Condition
  <2>. QED
    BY <2>1, <2>3 DEF Condition
<1>4. ASSUME NEW x \in Orders, NEW y \in Products
      PROVE  returned'[x][y] + BoxesIn(ret', x, y, "PENDING") <= issued'[x][y]
  <2>1. ReturnRows(ret', x, y, "PENDING") \ {i} = ReturnRows(ret, x, y, "PENDING") \ {i}
    BY <1>1 DEF ReturnRows
  <2>2. \A j \in ReturnRows(ret, x, y, "PENDING") \ {i} : ret'[j].n = ret[j].n
    BY <1>1 DEF ReturnRows
  <2>3. \/ BoxesBy(ret', i, x, y, "PENDING") = 0
        \/ BoxesBy(ret', i, x, y, "PENDING") <= Returnable(x, y)
    BY <1>2, <1>3 DEF BoxesBy, ReturnRows
  <2>. QED
    BY <1>1, <2>1, <2>2, <2>3, RequestFits
<1>. QED
  BY <1>4, FitThen DEF LockedFit

LEMMA CreateUnlinkedReturnFits ==
  ASSUME OrderInv, OrderInv', CounterInv, BoxesReturnedOnce,
         NEW r \in Reps, NEW p \in Products, NEW c \in Condition,
         NEW n \in 1..MaxLine, CreateUnlinkedReturn(r, p, c, n)
  PROVE  BoxesReturnedOnce'
<1>1. /\ DOMAIN ret \subseteq DOMAIN ret'
      /\ \A i \in DOMAIN ret : ret'[i] = ret[i]
      /\ \A i \in DOMAIN ret' \ DOMAIN ret :
           /\ ret'[i].st = "PENDING" /\ ret'[i].p = p /\ ret'[i].o \in Orders
           /\ Boxes(ret'[i].n) <= Returnable(ret'[i].o, p)
      /\ \A i, j \in DOMAIN ret' \ DOMAIN ret : ret'[i].o = ret'[j].o => i = j
      /\ UNCHANGED <<status, issued, settled, returned, value, sub>>
  BY UnlinkedRows DEF OrderInv
<1>2. ASSUME NEW x \in Orders, NEW y \in Products
      PROVE  returned'[x][y] + BoxesIn(ret', x, y, "PENDING") <= issued'[x][y]
  <2>0. \A j \in ReturnRows(ret, x, y, "PENDING") : ret'[j].n = ret[j].n
    BY <1>1 DEF ReturnRows
  <2>1. ASSUME NEW i \in DOMAIN ret' \ DOMAIN ret, ret'[i].o = x, y = p
        PROVE  returned'[x][y] + BoxesIn(ret', x, y, "PENDING") <= issued'[x][y]
    <3>1. ReturnRows(ret', x, y, "PENDING") \ {i} = ReturnRows(ret, x, y, "PENDING") \ {i}
      BY <1>1, <2>1 DEF ReturnRows
    <3>2. \/ BoxesBy(ret', i, x, y, "PENDING") = 0
          \/ BoxesBy(ret', i, x, y, "PENDING") <= Returnable(x, y)
      BY <1>1, <2>1 DEF BoxesBy
    <3>. QED
      BY <1>1, <2>0, <3>1, <3>2, RequestFits
  <2>2. ASSUME \A i \in DOMAIN ret' \ DOMAIN ret : ret'[i].o = x => y # p
        PROVE  returned'[x][y] + BoxesIn(ret', x, y, "PENDING") <= issued'[x][y]
    <3>1. ReturnRows(ret', x, y, "PENDING") = ReturnRows(ret, x, y, "PENDING")
      BY <1>1, <2>2 DEF ReturnRows
    <3>2. BoxesIn(ret', x, y, "PENDING") = BoxesIn(ret, x, y, "PENDING")
      BY <2>0, <3>1, BoxesStand
    <3>3. returned[x][y] + BoxesIn(ret, x, y, "PENDING") <= issued[x][y]
      BY FitNow DEF LockedFit
    <3>. QED
      BY <1>1, <3>2, <3>3
  <2>. QED
    BY <2>1, <2>2
<1>. QED
  BY <1>2, FitThen DEF LockedFit

(* A decision takes the boxes of the request out of the locked ones. *)
LEMMA DecisionFits ==
  ASSUME OrderInv, OrderInv', BoxesReturnedOnce, NEW i \in DOMAIN ret,
         ApproveReturn(i) \/ DropReturn(i)
  PROVE  BoxesReturnedOnce'
<1>0. PICK o \in Orders, p \in Products, n \in Nat :
        ret[i].o = o /\ ret[i].p = p /\ Boxes(ret[i].n) = n
  BY RowTypes DEF OrderInv
<1>1. PICK st \in {"APPROVED", "DROPPED"} :
        /\ ret' = [ret EXCEPT ![i].st = st] /\ ret[i].st = "PENDING"
        /\ \/ returned' = [returned EXCEPT ![o][p] = @ + n]
           \/ returned' = returned
        /\ UNCHANGED issued
  BY <1>0 DEF ApproveReturn, DropReturn
<1>2. /\ DOMAIN ret' = DOMAIN ret
      /\ \A j \in DOMAIN ret \ {i} : ret'[j] = ret[j]
      /\ ret'[i].st = st
  BY <1>1, DecidedRow DEF Decision, OrderInv
<1>3. \A x \in Orders, y \in Products :
        /\ BoxesBy(ret', i, x, y, "PENDING") = 0
        /\ BoxesBy(ret, i, x, y, "PENDING") = IF x = o /\ y = p THEN n ELSE 0
  BY <1>0, <1>1, <1>2 DEF BoxesBy, ReturnRows
<1>4. \A x \in Orders, y \in Products :
        \/ returned'[x][y] = returned[x][y]
        \/ x = o /\ y = p /\ returned'[x][y] = returned[x][y] + n
  BY <1>1 DEF OrderInv, TypeOK
<1>5. ASSUME NEW x \in Orders, NEW y \in Products
      PROVE  returned'[x][y] + BoxesIn(ret', x, y, "PENDING") <= issued'[x][y]
  <2>1. /\ BoxesIn(ret', x, y, "PENDING") = BoxesIn(ret, x, y, "PENDING")
             - BoxesBy(ret, i, x, y, "PENDING") + BoxesBy(ret', i, x, y, "PENDING")
        /\ BoxesIn(ret, x, y, "PENDING") \in Nat
    BY <1>2, RowsAreLike, RowsStayLike, BoxesMoveAtRow DEF OrderInv
  <2>2. returned[x][y] + BoxesIn(ret, x, y, "PENDING") <= issued[x][y]
    BY FitNow DEF LockedFit
  <2>3. returned[x][y] \in Nat /\ issued[x][y] \in Nat /\ issued'[x][y] = issued[x][y]
    BY <1>1 DEF OrderInv, TypeOK
  <2>. QED
    BY <1>3, <1>4, <2>1, <2>2, <2>3
<1>. QED
  BY <1>5, FitThen DEF LockedFit

LEMMA OnceNext ==
  ASSUME ~MixedLines, OrderInv, OrderInv', CounterInv, BoxesReturnedOnce, [Next]_vars
  PROVE  BoxesReturnedOnce'
<1>1. ASSUME \/ \E o \in Orders, q \in Quantity : CreateTransfer(o, q)
             \/ \E o \in Orders, p \in Products, n \in 1..MaxLine : AddStockToRep(o, p, n)
             \/ \E o \in Orders : \/ CancelTransfer(o) \/ DeadlinePasses(o)
                                  \/ ExtendDeadline(o) \/ SelfExtend(o)
                                  \/ UndoDeadlineChange(o)
             \/ RefreshOverdue
             \/ UNCHANGED vars
      PROVE  BoxesReturnedOnce'
  <2>1. UNCHANGED <<ret, returned>>
    BY <1>1, OtherStepsStand
  <2>2. \A o \in Orders : \/ \A p \in Products : issued[o][p] <= issued'[o][p]
                          \/ status[o] = "NONE"
    BY <1>1, OtherStepsGrow DEF OrderInv
  <2>. QED
    BY <2>1, <2>2, GrowingFits
<1>2. ASSUME UNCHANGED <<ret, returned, issued>> PROVE BoxesReturnedOnce'
  BY <1>2, FitNow, FitThen
<1>3. ASSUME NEW i, \/ ApproveSubmission(i) \/ RejectSubmission(i) \/ CancelSale(i)
                    \/ \E o, p, n : Submit(i, o, p, n)
      PROVE  UNCHANGED <<ret, returned, issued>>
  BY <1>3 DEF ApproveSubmission, RejectSubmission, CancelSale, Submit
<1>4. ASSUME NEW i \in Rets, NEW o \in Orders, NEW p \in Products,
             NEW l \in Lines, CreateReturn(i, o, p, l)
      PROVE  BoxesReturnedOnce'
  BY <1>4, CreateReturnFits
<1>5. ASSUME NEW r \in Reps, NEW p \in Products, NEW c \in Condition,
             NEW n \in 1..MaxLine, CreateUnlinkedReturn(r, p, c, n)
      PROVE  BoxesReturnedOnce'
  BY <1>5, CreateUnlinkedReturnFits
<1>6. ASSUME NEW i \in DOMAIN ret, ApproveReturn(i) \/ DropReturn(i)
      PROVE  BoxesReturnedOnce'
  BY <1>6, DecisionFits
<1>. QED
  BY <1>1, <1>2, <1>3, <1>4, <1>5, <1>6 DEF Next

(* No box sits in two return requests at once, where a request carries     *)
(* lines of one condition; each line is checked alone, and a GOOD and a    *)
(* DAMAGED line of one request do count the same boxes twice.              *)
THEOREM NoBoxIsReturnedTwice == ASSUME ~MixedLines PROVE Spec => []BoxesReturnedOnce
<1>1. Init => BoxesReturnedOnce
  <2>. SUFFICES ASSUME Init PROVE BoxesReturnedOnce
    OBVIOUS
  <2>1. \A o, p : ReturnRows(ret, o, p, "PENDING") = {}
    BY DEF Init, ReturnRows
  <2>2. \A o, p : BoxesIn(ret, o, p, "PENDING") = 0
    BY <2>1, SumFunctionOfNothing DEF BoxesIn
  <2>. QED
    BY <2>2, FitNow DEF LockedFit, Init, NoBoxes
<1>2. OrderInv /\ OrderInv' /\ CounterInv /\ BoxesReturnedOnce /\ [Next]_vars
        => BoxesReturnedOnce'
  BY OnceNext
<1>. QED
  BY <1>1, <1>2, CountersHold, PTL DEF Spec

-----------------------------------------------------------------------------
(* HeldMatchesOrders.  An order not issued has no items and no transfer,   *)
(* and boxes are recalled once, by the transfer that is then CANCELLED.    *)
UnissuedHasNoItems ==
  \A o \in Orders : status[o] = "NONE" => issued[o] = NoBoxes /\ xfer[o] = "NONE"

RecalledOnce == \A o \in Orders : xfer[o] # "CANCELLED" => recalled[o] = NoBoxes

StockInv == UnissuedHasNoItems /\ RecalledOnce /\ HeldMatchesOrders

(* Sums of one product over orders or reps, and the boxes left with a rep. *)
Column(f, S, p) == [x \in S |-> f[x][p]]
Left(iss, stl, rtn, rec) ==
  [o \in Orders |-> [p \in Products |-> iss[o][p] - stl[o][p] - rtn[o][p] - rec[o][p]]]

DamagedRows(t, p) == {i \in DOMAIN t : t[i].p = p /\ t[i].st = "APPROVED"}
DamagedIn(t, p) == SumFunction([i \in DamagedRows(t, p) |-> t[i].n["DAMAGED"]])
DamagedBy(t, i, p) == IF i \in DamagedRows(t, p) THEN t[i].n["DAMAGED"] ELSE 0

Balanced(h, w, left, stl, t) ==
  \A p \in Products :
    /\ \A r \in Reps : h[r][p] = SumFunction(Column(left, OrdersOf(r), p))
    /\ w[p] + SumFunction(Column(h, Reps, p))
         = Stock - SumFunction(Column(stl, Orders, p)) - DamagedIn(t, p)

Shift(f, g, a, S, p) == IF a \in S THEN g[a][p] - f[a][p] ELSE 0

LEMMA ColumnMoves ==
  ASSUME NEW S, IsFiniteSet(S), NEW f, NEW g, NEW a, NEW p,
         \A x \in S : f[x][p] \in Int /\ g[x][p] \in Int,
         \A x \in S \ {a} : g[x] = f[x]
  PROVE  /\ SumFunction(Column(f, S, p)) \in Int
         /\ SumFunction(Column(g, S, p))
              = SumFunction(Column(f, S, p)) + Shift(f, g, a, S, p)
<1>. DEFINE u == Column(f, S, p)
            v == Column(g, S, p)
<1>1. /\ DOMAIN u = S /\ DOMAIN v = S
      /\ \A x \in S : u[x] = f[x][p] /\ v[x] = g[x][p]
  BY DEF Column
<1>. HIDE DEF u, v
<1>2. /\ IsFiniteSet(DOMAIN u) /\ DOMAIN u \ {a} = DOMAIN v \ {a}
      /\ \A x \in DOMAIN u \ {a} : v[x] = u[x]
      /\ \A x \in DOMAIN u : u[x] \in Int
      /\ \A x \in DOMAIN v : v[x] \in Int
  BY <1>1
<1>3. SumFunction(v) = SumFunction(u) - ValueAt(u, a) + ValueAt(v, a)
  BY <1>2, SumDiffersAt
<1>4. SumFunction(u) \in Int
  BY <1>2, SumFunctionIsInt
<1>5. /\ a \in S => ValueAt(u, a) = f[a][p] /\ ValueAt(v, a) = g[a][p]
      /\ a \notin S => ValueAt(u, a) = 0 /\ ValueAt(v, a) = 0
  BY <1>1 DEF ValueAt
<1>6. SumFunction(v) = SumFunction(u) + Shift(f, g, a, S, p)
  BY <1>3, <1>4, <1>5 DEF Shift
<1>. QED
  BY <1>4, <1>6 DEF u, v

LEMMA DamagedMoves ==
  ASSUME NEW t, NEW t2, NEW i, NEW p, IsFiniteSet(DOMAIN t),
         DOMAIN t2 \ {i} = DOMAIN t \ {i}, \A j \in DOMAIN t \ {i} : t2[j] = t[j],
         \A j \in DOMAIN t : t[j].n["DAMAGED"] \in Int,
         \A j \in DOMAIN t2 : t2[j].n["DAMAGED"] \in Int
  PROVE  /\ DamagedIn(t, p) \in Int
         /\ DamagedIn(t2, p) = DamagedIn(t, p) - DamagedBy(t, i, p) + DamagedBy(t2, i, p)
<1>. DEFINE f == [j \in DamagedRows(t, p) |-> t[j].n["DAMAGED"]]
            g == [j \in DamagedRows(t2, p) |-> t2[j].n["DAMAGED"]]
<1>0. DamagedRows(t, p) \in SUBSET DOMAIN t
  BY DEF DamagedRows
<1>1. IsFiniteSet(DamagedRows(t, p))
  BY <1>0, FS_Subset
<1>2. DamagedRows(t2, p) \ {i} = DamagedRows(t, p) \ {i}
  BY DEF DamagedRows
<1>3. /\ DOMAIN f = DamagedRows(t, p) /\ DOMAIN g = DamagedRows(t2, p)
      /\ \A x \in DOMAIN f : f[x] = t[x].n["DAMAGED"] /\ f[x] \in Int
      /\ \A x \in DOMAIN g : g[x] = t2[x].n["DAMAGED"] /\ g[x] \in Int
  BY DEF DamagedRows
<1>4. \A x \in DOMAIN f \ {i} : g[x] = f[x]
  BY <1>2, <1>3 DEF DamagedRows
<1>5. ValueAt(f, i) = DamagedBy(t, i, p) /\ ValueAt(g, i) = DamagedBy(t2, i, p)
  BY DEF ValueAt, DamagedBy
<1>. HIDE DEF f, g
<1>6. /\ \A x \in DOMAIN f : f[x] \in Int
      /\ \A x \in DOMAIN g : g[x] \in Int
  BY <1>3
<1>7. SumFunction(g) = SumFunction(f) - ValueAt(f, i) + ValueAt(g, i)
  BY <1>1, <1>2, <1>3, <1>4, <1>6, SumDiffersAt
<1>8. SumFunction(f) \in Int
  BY <1>1, <1>3, <1>6, SumFunctionIsInt
<1>9. SumFunction(f) = DamagedIn(t, p) /\ SumFunction(g) = DamagedIn(t2, p)
  BY DEF f, g, DamagedIn
<1>. QED
  BY <1>5, <1>7, <1>8, <1>9

LEMMA DamagedStand ==
  ASSUME NEW t, NEW t2, NEW p, DamagedRows(t2, p) = DamagedRows(t, p),
         \A j \in DamagedRows(t, p) : t2[j].n = t[j].n
  PROVE  DamagedIn(t2, p) = DamagedIn(t, p)
<1>1. [j \in DamagedRows(t2, p) |-> t2[j].n["DAMAGED"]]
        = [j \in DamagedRows(t, p) |-> t[j].n["DAMAGED"]]
  OBVIOUS
<1>. QED
  BY <1>1 DEF DamagedIn

LEMMA DamagedIsInt ==
  /\ TypeOK => \A p : DamagedIn(ret, p) \in Int
  /\ TypeOK' => \A p : DamagedIn(ret', p) \in Int
<1>0. \A row \in RetRow : row.n["DAMAGED"] \in Int
  BY OrderAssumption DEF RetRow, Condition
<1>1. ASSUME TypeOK PROVE \A p : DamagedIn(ret, p) \in Int
  <2>1. \A j \in DOMAIN ret : ret[j].n["DAMAGED"] \in Int
    BY <1>0, <1>1 DEF TypeOK
  <2>2. IsFiniteSet(DOMAIN ret)
    BY <1>1, RowsAreLike DEF ReturnLike
  <2>. QED
    BY <2>1, <2>2, DamagedMoves
<1>2. ASSUME TypeOK' PROVE \A p : DamagedIn(ret', p) \in Int
  <2>1. \A j \in DOMAIN ret' : ret'[j].n["DAMAGED"] \in Int
    BY <1>0, <1>2 DEF TypeOK
  <2>2. IsFiniteSet(DOMAIN ret')
    BY <1>2, RowsStayLike DEF ReturnLike
  <2>. QED
    BY <2>1, <2>2, DamagedMoves
<1>. QED
  BY <1>1, <1>2

LEMMA BalancedNow ==
  HeldMatchesOrders <=>
    Balanced(held, wh, Left(issued, settled, returned, recalled), settled, ret)
<1>1. \A r, p : p \in Products =>
        [o \in OrdersOf(r) |-> Outstanding(o, p) - recalled[o][p]]
          = Column(Left(issued, settled, returned, recalled), OrdersOf(r), p)
  BY DEF Column, Left, Outstanding, OrdersOf
<1>2. \A p : /\ [r \in Reps |-> held[r][p]] = Column(held, Reps, p)
             /\ [o \in Orders |-> settled[o][p]] = Column(settled, Orders, p)
             /\ DamagedBoxes(p) = DamagedIn(ret, p)
  BY DEF Column, DamagedBoxes, BackOnShelf, DamagedIn, DamagedRows
<1>. DEFINE inHand(r, p) ==
              SumFunction([o \in OrdersOf(r) |-> Outstanding(o, p) - recalled[o][p]])
            allHeld(p) == SumFunction([r \in Reps |-> held[r][p]])
            allSold(p) == SumFunction([o \in Orders |-> settled[o][p]])
<1>3. HeldMatchesOrders <=>
        \A p \in Products :
          /\ \A r \in Reps : held[r][p] = inHand(r, p)
          /\ wh[p] + allHeld(p) = Stock - allSold(p) - DamagedBoxes(p)
  BY DEF HeldMatchesOrders
<1>4. \A p \in Products :
        /\ \A r : inHand(r, p)
             = SumFunction(Column(Left(issued, settled, returned, recalled), OrdersOf(r), p))
        /\ allHeld(p) = SumFunction(Column(held, Reps, p))
        /\ allSold(p) = SumFunction(Column(settled, Orders, p))
  BY <1>1, <1>2
<1>. HIDE DEF inHand, allHeld, allSold
<1>. QED
  BY <1>2, <1>3, <1>4 DEF Balanced

LEMMA BalancedThen ==
  Balanced(held', wh', Left(issued', settled', returned', recalled'), settled', ret')
    => HeldMatchesOrders'
<1>1. \A r, p : p \in Products =>
        [o \in OrdersOf(r) |-> Outstanding(o, p)' - recalled'[o][p]]
          = Column(Left(issued', settled', returned', recalled'), OrdersOf(r), p)
  BY DEF Column, Left, Outstanding, OrdersOf
<1>2. \A p : /\ [r \in Reps |-> held'[r][p]] = Column(held', Reps, p)
             /\ [o \in Orders |-> settled'[o][p]] = Column(settled', Orders, p)
             /\ DamagedBoxes(p)' = DamagedIn(ret', p)
  BY DEF Column, DamagedBoxes, BackOnShelf, DamagedIn, DamagedRows
<1>. QED
  BY <1>1, <1>2 DEF HeldMatchesOrders, Balanced

(* Boxes that move at one order and its rep.  What the rep holds moves by  *)
(* what is left of the order, and what leaves warehouse and rep together   *)
(* was sold or written off.                                                *)
Moved(o) ==
  /\ \A x \in Orders \ {o} :
       /\ issued'[x] = issued[x] /\ settled'[x] = settled[x]
       /\ returned'[x] = returned[x] /\ recalled'[x] = recalled[x]
  /\ \A r \in Reps \ {RepOf[o]} : held'[r] = held[r]
  /\ \A p \in Products :
       /\ held'[RepOf[o]][p] - held[RepOf[o]][p]
            = (issued'[o][p] - issued[o][p]) - (settled'[o][p] - settled[o][p])
              - (returned'[o][p] - returned[o][p]) - (recalled'[o][p] - recalled[o][p])
       /\ (wh'[p] - wh[p]) + (held'[RepOf[o]][p] - held[RepOf[o]][p])
            = (settled[o][p] - settled'[o][p]) + (DamagedIn(ret, p) - DamagedIn(ret', p))

LEMMA MovedBalances ==
  ASSUME TypeOK, TypeOK', HeldMatchesOrders, NEW o \in Orders, Moved(o)
  PROVE  HeldMatchesOrders'
<1>. DEFINE left == Left(issued, settled, returned, recalled)
            then == Left(issued', settled', returned', recalled')
            rep == RepOf[o]
<1>0. /\ IsFiniteSet(Orders) /\ IsFiniteSet(Reps) /\ rep \in Reps
      /\ \A r : o \in OrdersOf(r) <=> r = rep
      /\ \A r : OrdersOf(r) \in SUBSET Orders
      /\ Stock \in Int
  BY OrderAssumption DEF OrdersOf
<1>1. \A x \in Orders, p \in Products :
        /\ issued[x][p] \in Int /\ settled[x][p] \in Int
        /\ returned[x][p] \in Int /\ recalled[x][p] \in Int
        /\ issued'[x][p] \in Int /\ settled'[x][p] \in Int
        /\ returned'[x][p] \in Int /\ recalled'[x][p] \in Int
  BY DEF TypeOK
<1>2. \A p \in Products : /\ wh[p] \in Int /\ wh'[p] \in Int
                          /\ \A r \in Reps : held[r][p] \in Int /\ held'[r][p] \in Int
  BY DEF TypeOK
<1>3. /\ \A x \in Orders, p \in Products :
           /\ left[x][p] = issued[x][p] - settled[x][p] - returned[x][p] - recalled[x][p]
           /\ then[x][p] = issued'[x][p] - settled'[x][p] - returned'[x][p] - recalled'[x][p]
      /\ \A x \in Orders \ {o} : then[x] = left[x]
  BY DEF Left, Moved
<1>4. \A x \in Orders, p \in Products : left[x][p] \in Int /\ then[x][p] \in Int
  BY <1>1, <1>3
<1>5. \A p \in Products :
        held'[rep][p] - held[rep][p] = then[o][p] - left[o][p]
  BY <1>0, <1>1, <1>2, <1>3 DEF Moved
<1>6. Balanced(held, wh, left, settled, ret)
  BY BalancedNow
<1>. HIDE DEF left, then, rep
<1>7. ASSUME NEW p \in Products, NEW r \in Reps
      PROVE  held'[r][p] = SumFunction(Column(then, OrdersOf(r), p))
  <2>1. IsFiniteSet(OrdersOf(r))
    BY <1>0, FS_Subset
  <2>2. /\ \A x \in OrdersOf(r) : left[x][p] \in Int /\ then[x][p] \in Int
        /\ \A x \in OrdersOf(r) \ {o} : then[x] = left[x]
    BY <1>0, <1>3, <1>4
  <2>3. /\ SumFunction(Column(left, OrdersOf(r), p)) \in Int
        /\ SumFunction(Column(then, OrdersOf(r), p))
             = SumFunction(Column(left, OrdersOf(r), p)) + Shift(left, then, o, OrdersOf(r), p)
    BY <2>1, <2>2, ColumnMoves
  <2>4. held[r][p] = SumFunction(Column(left, OrdersOf(r), p))
    BY <1>6 DEF Balanced
  <2>5. CASE r = rep
    BY <1>0, <1>2, <1>4, <1>5, <2>3, <2>4, <2>5 DEF Shift
  <2>6. CASE r # rep
    <3>1. held'[r] = held[r]
      BY <2>6 DEF Moved, rep
    <3>. QED
      BY <1>0, <2>3, <2>4, <2>6, <3>1 DEF Shift
  <2>. QED
    BY <2>5, <2>6
<1>8. ASSUME NEW p \in Products
      PROVE  wh'[p] + SumFunction(Column(held', Reps, p))
               = Stock - SumFunction(Column(settled', Orders, p)) - DamagedIn(ret', p)
  <2>1. /\ SumFunction(Column(held, Reps, p)) \in Int
        /\ SumFunction(Column(held', Reps, p))
             = SumFunction(Column(held, Reps, p)) + Shift(held, held', rep, Reps, p)
    <3>. DEFINE f == held
                g == held'
    <3>1. /\ \A x \in Reps : f[x][p] \in Int /\ g[x][p] \in Int
          /\ \A x \in Reps \ {rep} : g[x] = f[x]
      BY <1>2 DEF Moved, rep
    <3>2. IsFiniteSet(Reps)
      BY <1>0
    <3>. HIDE DEF f, g
    <3>3. /\ SumFunction(Column(f, Reps, p)) \in Int
          /\ SumFunction(Column(g, Reps, p))
               = SumFunction(Column(f, Reps, p)) + Shift(f, g, rep, Reps, p)
      BY <3>1, <3>2, ColumnMoves
    <3>. QED
      BY <3>3 DEF f, g
  <2>2. /\ SumFunction(Column(settled, Orders, p)) \in Int
        /\ SumFunction(Column(settled', Orders, p))
             = SumFunction(Column(settled, Orders, p)) + Shift(settled, settled', o, Orders, p)
    <3>. DEFINE f == settled
                g == settled'
    <3>1. /\ \A x \in Orders : f[x][p] \in Int /\ g[x][p] \in Int
          /\ \A x \in Orders \ {o} : g[x] = f[x]
      BY <1>1 DEF Moved
    <3>2. IsFiniteSet(Orders)
      BY <1>0
    <3>. HIDE DEF f, g
    <3>3. /\ SumFunction(Column(f, Orders, p)) \in Int
          /\ SumFunction(Column(g, Orders, p))
               = SumFunction(Column(f, Orders, p)) + Shift(f, g, o, Orders, p)
      BY <3>1, <3>2, ColumnMoves
    <3>. QED
      BY <3>3 DEF f, g
  <2>3. wh[p] + SumFunction(Column(held, Reps, p))
          = Stock - SumFunction(Column(settled, Orders, p)) - DamagedIn(ret, p)
    BY <1>6 DEF Balanced
  <2>4. DamagedIn(ret, p) \in Int /\ DamagedIn(ret', p) \in Int
    BY DamagedIsInt
  <2>5. (wh'[p] - wh[p]) + (held'[rep][p] - held[rep][p])
          = (settled[o][p] - settled'[o][p]) + (DamagedIn(ret, p) - DamagedIn(ret', p))
    BY DEF Moved, rep
  <2>6. /\ wh[p] \in Int /\ wh'[p] \in Int /\ held[rep][p] \in Int /\ held'[rep][p] \in Int
        /\ settled[o][p] \in Int /\ settled'[o][p] \in Int
    BY <1>0, <1>1, <1>2
  <2>. QED
    <3>1. Shift(held, held', rep, Reps, p) = held'[rep][p] - held[rep][p]
      BY <1>0 DEF Shift
    <3>2. Shift(settled, settled', o, Orders, p) = settled'[o][p] - settled[o][p]
      BY DEF Shift
    <3>. QED
      BY <1>0, <2>1, <2>2, <2>3, <2>4, <2>5, <2>6, <3>1, <3>2
<1>9. Balanced(held', wh', then, settled', ret')
  BY <1>7, <1>8 DEF Balanced
<1>. QED
  BY <1>9, BalancedThen DEF then

(* Steps that move no box: requests, decisions against, the clock. *)
LEMMA NothingMoved ==
  ASSUME HeldMatchesOrders,
         UNCHANGED <<issued, settled, returned, recalled, held, wh>>,
         \A p : DamagedIn(ret', p) = DamagedIn(ret, p)
  PROVE  HeldMatchesOrders'
BY BalancedNow, BalancedThen DEF Balanced

(* An order once issued stays issued, and its items and transfer stand     *)
(* where a step leaves them alone.                                         *)
LEMMA FrameStands ==
  ASSUME UnissuedHasNoItems, RecalledOnce, UNCHANGED <<issued, xfer, recalled>>,
         \A o \in Orders : status'[o] = "NONE" => status[o] = "NONE"
  PROVE  UnissuedHasNoItems' /\ RecalledOnce'
BY DEF UnissuedHasNoItems, RecalledOnce

LEMMA RecomputedStaysIssued ==
  ASSUME TypeOK, NEW o \in Orders, NEW iss, NEW stl, NEW rtn, NEW val,
         status' = [status EXCEPT ![o] = Recomputed(o, iss, stl, rtn, val)]
  PROVE  \A x \in Orders : status'[x] = "NONE" => status[x] = "NONE"
<1>1. status'[o] # "NONE"
  BY RecomputedType DEF TypeOK
<1>. QED
  BY <1>1 DEF TypeOK

(* Boxes go out to the rep of an order and onto its items. *)
LEMMA HandOutMoves ==
  ASSUME TypeOK, TypeOK', NEW o \in Orders, NEW q \in [Products -> Nat], MoveToRep(o, q),
         \A x \in Orders \ {o} : issued'[x] = issued[x],
         \A p \in Products : issued'[o][p] = issued[o][p] + q[p],
         UNCHANGED <<settled, returned, recalled, ret>>
  PROVE  Moved(o)
<1>1. RepOf[o] \in Reps
  BY OrderAssumption
<1>2. \A p \in Products : held'[RepOf[o]][p] = held[RepOf[o]][p] + q[p]
  BY <1>1 DEF MoveToRep, Plus, TypeOK
<1>3. \A p \in Products : wh'[p] = wh[p] - q[p]
  BY DEF MoveToRep, Minus
<1>4. \A r \in Reps \ {RepOf[o]} : held'[r] = held[r]
  BY DEF MoveToRep, TypeOK
<1>5. \A p \in Products :
        /\ held[RepOf[o]][p] \in Int /\ wh[p] \in Int /\ q[p] \in Int
        /\ issued[o][p] \in Int /\ settled[o][p] \in Int
        /\ returned[o][p] \in Int /\ recalled[o][p] \in Int
        /\ DamagedIn(ret, p) \in Int
  BY <1>1, DamagedIsInt DEF TypeOK
<1>6. \A p \in Products :
        /\ settled'[o][p] = settled[o][p] /\ returned'[o][p] = returned[o][p]
        /\ recalled'[o][p] = recalled[o][p] /\ DamagedIn(ret', p) = DamagedIn(ret, p)
  OBVIOUS
<1>7. ASSUME NEW p \in Products
      PROVE
       /\ held'[RepOf[o]][p] - held[RepOf[o]][p]
            = (issued'[o][p] - issued[o][p]) - (settled'[o][p] - settled[o][p])
              - (returned'[o][p] - returned[o][p]) - (recalled'[o][p] - recalled[o][p])
       /\ (wh'[p] - wh[p]) + (held'[RepOf[o]][p] - held[RepOf[o]][p])
            = (settled[o][p] - settled'[o][p]) + (DamagedIn(ret, p) - DamagedIn(ret', p))
  BY <1>2, <1>3, <1>5, <1>6
<1>. QED
  BY <1>4, <1>7 DEF Moved

LEMMA CreateTransferBalances ==
  ASSUME OrderInv, OrderInv', StockInv, NEW o \in Orders, NEW q \in [Products -> Nat],
         CreateTransfer(o, q)
  PROVE  StockInv'
<1>1. /\ status[o] = "NONE" /\ MoveToRep(o, q)
      /\ issued' = [issued EXCEPT ![o] = q]
      /\ xfer' = [xfer EXCEPT ![o] = "COMPLETED"]
      /\ status' = [status EXCEPT ![o] = "OPEN"]
      /\ UNCHANGED <<settled, returned, recalled, ret>>
  BY DEF CreateTransfer
<1>2. issued[o] = NoBoxes /\ recalled[o] = NoBoxes
  BY <1>1 DEF StockInv, UnissuedHasNoItems, RecalledOnce
<1>3. /\ \A x \in Orders \ {o} : issued'[x] = issued[x]
      /\ \A p \in Products : issued'[o][p] = issued[o][p] + q[p]
  BY <1>1, <1>2 DEF OrderInv, TypeOK, NoBoxes
<1>4. Moved(o)
  BY <1>1, <1>3, HandOutMoves DEF OrderInv
<1>5. HeldMatchesOrders'
  BY <1>4, MovedBalances DEF OrderInv, StockInv
<1>6. UnissuedHasNoItems' /\ RecalledOnce'
  BY <1>1, <1>2 DEF OrderInv, TypeOK, StockInv, UnissuedHasNoItems, RecalledOnce
<1>. QED
  BY <1>5, <1>6 DEF StockInv

LEMMA AddStockBalances ==
  ASSUME OrderInv, OrderInv', StockInv, NEW o \in Orders, NEW p \in Products,
         NEW n \in 1..MaxLine, AddStockToRep(o, p, n)
  PROVE  StockInv'
<1>0. n \in Nat /\ Only(p, n) \in [Products -> Nat]
  BY OrderAssumption, OnlyType
<1>1. CASE CreateTransfer(o, Only(p, n))
  BY <1>0, <1>1, CreateTransferBalances
<1>2. CASE AppendToOrder(o, p, n)
  <2>1. /\ status[o] \in Unpaid /\ MoveToRep(o, Only(p, n))
        /\ issued' = [issued EXCEPT ![o][p] = @ + n]
        /\ status' = [status EXCEPT ![o] =
             Recomputed(o, issued'[o], settled[o], returned[o], value[o])]
        /\ UNCHANGED <<settled, returned, recalled, ret, xfer>>
    BY <1>2 DEF AppendToOrder, UnsettledOf
  <2>2. /\ \A x \in Orders \ {o} : issued'[x] = issued[x]
        /\ \A y \in Products : issued'[o][y] = issued[o][y] + Only(p, n)[y]
    BY <1>0, <2>1 DEF OrderInv, TypeOK, Only, NoBoxes
  <2>3. Moved(o)
    BY <1>0, <2>1, <2>2, HandOutMoves DEF OrderInv
  <2>4. HeldMatchesOrders'
    BY <2>3, MovedBalances DEF OrderInv, StockInv
  <2>5. /\ \A x \in Orders \ {o} : status'[x] = status[x]
        /\ status'[o] # "NONE"
    BY <2>1, RecomputedType DEF OrderInv, TypeOK
  <2>6. UnissuedHasNoItems' /\ RecalledOnce'
    BY <2>1, <2>2, <2>5 DEF StockInv, UnissuedHasNoItems, RecalledOnce
  <2>. QED
    BY <2>4, <2>6 DEF StockInv
<1>. QED
  BY <1>1, <1>2 DEF AddStockToRep

LEMMA CancelTransferBalances ==
  ASSUME OrderInv, OrderInv', StockInv, NEW o \in Orders, CancelTransfer(o)
  PROVE  StockInv'
<1>1. /\ xfer[o] = "COMPLETED"
      /\ held' = [held EXCEPT ![RepOf[o]] = Minus(@, issued[o])]
      /\ wh' = Plus(wh, issued[o])
      /\ recalled' = [recalled EXCEPT ![o] = issued[o]]
      /\ xfer' = [xfer EXCEPT ![o] = "CANCELLED"]
      /\ UNCHANGED <<status, issued, settled, returned, ret>>
  BY DEF CancelTransfer
<1>2. RepOf[o] \in Reps /\ recalled[o] = NoBoxes /\ status[o] # "NONE"
  BY <1>1, OrderAssumption DEF StockInv, RecalledOnce, UnissuedHasNoItems
<1>3. \A p \in Products :
        /\ held'[RepOf[o]][p] = held[RepOf[o]][p] - issued[o][p]
        /\ wh'[p] = wh[p] + issued[o][p]
        /\ recalled'[o][p] = issued[o][p] /\ recalled[o][p] = 0
        /\ DamagedIn(ret', p) = DamagedIn(ret, p)
  BY <1>1, <1>2 DEF OrderInv, TypeOK, Minus, Plus, NoBoxes
<1>4. \A p \in Products :
        /\ held[RepOf[o]][p] \in Int /\ wh[p] \in Int
        /\ issued[o][p] \in Int /\ settled[o][p] \in Int
        /\ returned[o][p] \in Int /\ DamagedIn(ret, p) \in Int
  BY <1>2, DamagedIsInt DEF OrderInv, TypeOK
<1>5. /\ \A r \in Reps \ {RepOf[o]} : held'[r] = held[r]
      /\ \A x \in Orders \ {o} : recalled'[x] = recalled[x] /\ xfer'[x] = xfer[x]
      /\ xfer'[o] = "CANCELLED"
  BY <1>1 DEF OrderInv, TypeOK
<1>6. ASSUME NEW p \in Products
      PROVE
       /\ held'[RepOf[o]][p] - held[RepOf[o]][p]
            = (issued'[o][p] - issued[o][p]) - (settled'[o][p] - settled[o][p])
              - (returned'[o][p] - returned[o][p]) - (recalled'[o][p] - recalled[o][p])
       /\ (wh'[p] - wh[p]) + (held'[RepOf[o]][p] - held[RepOf[o]][p])
            = (settled[o][p] - settled'[o][p]) + (DamagedIn(ret, p) - DamagedIn(ret', p))
  <2>1. /\ issued'[o][p] = issued[o][p] /\ settled'[o][p] = settled[o][p]
        /\ returned'[o][p] = returned[o][p]
    BY <1>1
  <2>. QED
    BY <1>3, <1>4, <2>1
<1>7. Moved(o)
  BY <1>1, <1>5, <1>6 DEF Moved
<1>8. HeldMatchesOrders'
  BY <1>7, MovedBalances DEF OrderInv, StockInv
<1>9. UnissuedHasNoItems' /\ RecalledOnce'
  BY <1>1, <1>2, <1>5 DEF StockInv, UnissuedHasNoItems, RecalledOnce
<1>. QED
  BY <1>8, <1>9 DEF StockInv

(* Boxes of one product are sold or come back from a cancelled sale: d     *)
(* more with the rep, d fewer settled.                                     *)
LEMMA SaleBalances ==
  ASSUME OrderInv, OrderInv', StockInv, NEW o \in Orders, NEW p \in Products,
         NEW d \in Int,
         \A r \in Reps \ {RepOf[o]} : held'[r] = held[r],
         \A y \in Products :
           held'[RepOf[o]][y] = held[RepOf[o]][y] + (IF y = p THEN d ELSE 0),
         \A x \in Orders \ {o} : settled'[x] = settled[x],
         \A y \in Products :
           settled'[o][y] = settled[o][y] - (IF y = p THEN d ELSE 0),
         UNCHANGED <<issued, returned, recalled, wh, ret>>
  PROVE  HeldMatchesOrders'
<1>1. RepOf[o] \in Reps
  BY OrderAssumption
<1>2. \A y \in Products :
        /\ held[RepOf[o]][y] \in Int /\ wh[y] \in Int
        /\ issued[o][y] \in Int /\ settled[o][y] \in Int
        /\ returned[o][y] \in Int /\ recalled[o][y] \in Int
        /\ DamagedIn(ret, y) \in Int
  BY <1>1, DamagedIsInt DEF OrderInv, TypeOK
<1>3. ASSUME NEW y \in Products
      PROVE
       /\ held'[RepOf[o]][y] - held[RepOf[o]][y]
            = (issued'[o][y] - issued[o][y]) - (settled'[o][y] - settled[o][y])
              - (returned'[o][y] - returned[o][y]) - (recalled'[o][y] - recalled[o][y])
       /\ (wh'[y] - wh[y]) + (held'[RepOf[o]][y] - held[RepOf[o]][y])
            = (settled[o][y] - settled'[o][y]) + (DamagedIn(ret, y) - DamagedIn(ret', y))
  <2>1. /\ issued'[o][y] = issued[o][y] /\ returned'[o][y] = returned[o][y]
        /\ recalled'[o][y] = recalled[o][y] /\ wh'[y] = wh[y]
        /\ DamagedIn(ret', y) = DamagedIn(ret, y)
    OBVIOUS
  <2>. DEFINE e == IF y = p THEN d ELSE 0
  <2>2. /\ held'[RepOf[o]][y] = held[RepOf[o]][y] + e
        /\ settled'[o][y] = settled[o][y] - e /\ e \in Int
    OBVIOUS
  <2>. HIDE DEF e
  <2>. QED
    BY <1>2, <2>1, <2>2
<1>4. Moved(o)
  BY <1>3 DEF Moved
<1>. QED
  BY <1>4, MovedBalances DEF OrderInv, StockInv

LEMMA ApproveSubmissionBalances ==
  ASSUME OrderInv, OrderInv', StockInv, NEW i \in DOMAIN sub, ApproveSubmission(i)
  PROVE  StockInv'
<1>0. PICK o \in Orders, p \in Products, n \in Nat :
        sub[i].o = o /\ sub[i].p = p /\ sub[i].n = n
  BY RowTypes DEF OrderInv
<1>. PICK d \in Int : d = 0 - n
  OBVIOUS
<1>1. /\ held' = [held EXCEPT ![RepOf[o]][p] = @ - n]
      /\ settled' = [settled EXCEPT ![o][p] = @ + n]
      /\ status' = [status EXCEPT ![o] =
           Recomputed(o, issued[o], settled'[o], returned[o], value'[o])]
      /\ UNCHANGED <<issued, returned, recalled, wh, ret, xfer>>
  BY <1>0 DEF ApproveSubmission
<1>2. RepOf[o] \in Reps
  BY OrderAssumption
<1>3. /\ \A r \in Reps \ {RepOf[o]} : held'[r] = held[r]
      /\ \A y \in Products :
           held'[RepOf[o]][y] = held[RepOf[o]][y] + (IF y = p THEN d ELSE 0)
  BY <1>1, <1>2 DEF OrderInv, TypeOK
<1>4. /\ \A x \in Orders \ {o} : settled'[x] = settled[x]
      /\ \A y \in Products :
           settled'[o][y] = settled[o][y] - (IF y = p THEN d ELSE 0)
  BY <1>1 DEF OrderInv, TypeOK
<1>5. HeldMatchesOrders'
  BY <1>1, <1>3, <1>4, SaleBalances
<1>6. \A x \in Orders : status'[x] = "NONE" => status[x] = "NONE"
  BY <1>1, RecomputedStaysIssued DEF OrderInv
<1>. QED
  BY <1>1, <1>5, <1>6, FrameStands DEF StockInv

LEMMA CancelSaleBalances ==
  ASSUME OrderInv, OrderInv', StockInv, NEW i \in DOMAIN sub, CancelSale(i)
  PROVE  StockInv'
<1>0. PICK o \in Orders, p \in Products, n \in Nat :
        sub[i].o = o /\ sub[i].p = p /\ sub[i].n = n
  BY RowTypes DEF OrderInv
<1>1. /\ held' = [held EXCEPT ![RepOf[o]] = Plus(@, Only(p, n))]
      /\ settled' = [settled EXCEPT ![o][p] = @ - n]
      /\ status' = [status EXCEPT ![o] =
           Recomputed(o, issued[o], settled[o], returned[o], value'[o])]
      /\ UNCHANGED <<issued, returned, recalled, wh, ret, xfer>>
  BY <1>0 DEF CancelSale, PutBack
<1>2. RepOf[o] \in Reps
  BY OrderAssumption
<1>3. /\ \A r \in Reps \ {RepOf[o]} : held'[r] = held[r]
      /\ \A y \in Products :
           held'[RepOf[o]][y] = held[RepOf[o]][y] + (IF y = p THEN n ELSE 0)
  BY <1>1, <1>2 DEF OrderInv, TypeOK, Plus, Only, NoBoxes
<1>4. /\ \A x \in Orders \ {o} : settled'[x] = settled[x]
      /\ \A y \in Products :
           settled'[o][y] = settled[o][y] - (IF y = p THEN n ELSE 0)
  BY <1>1 DEF OrderInv, TypeOK
<1>5. HeldMatchesOrders'
  <2>1. n \in Int
    OBVIOUS
  <2>. QED
    BY <1>1, <1>3, <1>4, <2>1, SaleBalances
<1>6. \A x \in Orders : status'[x] = "NONE" => status[x] = "NONE"
  BY <1>1, RecomputedStaysIssued DEF OrderInv
<1>. QED
  BY <1>1, <1>5, <1>6, FrameStands DEF StockInv

(* The GOOD boxes reach the shelf, the DAMAGED ones are written off. *)
LEMMA ApproveReturnBalances ==
  ASSUME OrderInv, OrderInv', StockInv, NEW i \in DOMAIN ret, ApproveReturn(i)
  PROVE  StockInv'
<1>0. PICK o \in Orders, p \in Products, g \in Nat, b \in Nat :
        /\ ret[i].o = o /\ ret[i].p = p
        /\ ret[i].n["GOOD"] = g /\ ret[i].n["DAMAGED"] = b
  <2>1. ret[i] \in RetRow
    BY DEF OrderInv, TypeOK
  <2>. QED
    BY <2>1, OrderAssumption DEF RetRow, Condition
<1>1. /\ ret' = [ret EXCEPT ![i].st = "APPROVED"] /\ ret[i].st = "PENDING"
      /\ held' = [held EXCEPT ![RepOf[o]][p] = @ - (g + b)]
      /\ wh' = [wh EXCEPT ![p] = @ + g]
      /\ returned' = [returned EXCEPT ![o][p] = @ + (g + b)]
      /\ status' = [status EXCEPT ![o] =
           Recomputed(o, issued[o], settled[o], returned'[o], value[o])]
      /\ UNCHANGED <<issued, settled, recalled, xfer>>
  BY <1>0 DEF ApproveReturn, Boxes, Restocked
<1>2. RepOf[o] \in Reps
  BY OrderAssumption
<1>3. "APPROVED" \in Decision
  BY DEF Decision
<1>4. /\ DOMAIN ret' = DOMAIN ret
      /\ \A j \in DOMAIN ret \ {i} : ret'[j] = ret[j]
      /\ ret'[i].p = p /\ ret'[i].n = ret[i].n /\ ret'[i].st = "APPROVED"
  BY <1>0, <1>1, <1>3, DecidedRow DEF OrderInv
<1>5. ASSUME NEW y \in Products
      PROVE  /\ DamagedIn(ret', y) = DamagedIn(ret, y) + (IF y = p THEN b ELSE 0)
             /\ DamagedIn(ret, y) \in Int
  <2>1. DamagedBy(ret, i, y) = 0 /\ DamagedBy(ret', i, y) = IF y = p THEN b ELSE 0
    BY <1>0, <1>1, <1>4 DEF DamagedBy, DamagedRows
  <2>2. \A row \in RetRow : row.n["DAMAGED"] \in Int
    BY OrderAssumption DEF RetRow, Condition
  <2>3. /\ \A j \in DOMAIN ret : ret[j].n["DAMAGED"] \in Int
        /\ \A j \in DOMAIN ret' : ret'[j].n["DAMAGED"] \in Int
    BY <2>2 DEF OrderInv, TypeOK
  <2>4. IsFiniteSet(DOMAIN ret)
    BY RowsAreLike DEF ReturnLike, OrderInv
  <2>5. /\ DamagedIn(ret, y) \in Int
        /\ DamagedIn(ret', y) = DamagedIn(ret, y) - DamagedBy(ret, i, y) + DamagedBy(ret', i, y)
    BY <1>4, <2>3, <2>4, DamagedMoves
  <2>. QED
    BY <2>1, <2>5
<1>6. /\ \A r \in Reps \ {RepOf[o]} : held'[r] = held[r]
      /\ \A x \in Orders \ {o} : returned'[x] = returned[x]
  BY <1>1 DEF OrderInv, TypeOK
<1>7. \A y \in Products :
        /\ held[RepOf[o]][y] \in Int /\ wh[y] \in Int
        /\ issued[o][y] \in Int /\ settled[o][y] \in Int
        /\ returned[o][y] \in Int /\ recalled[o][y] \in Int
  BY <1>2 DEF OrderInv, TypeOK
<1>8. \A y \in Products :
        /\ held'[RepOf[o]][y] = held[RepOf[o]][y] - (IF y = p THEN g + b ELSE 0)
        /\ wh'[y] = wh[y] + (IF y = p THEN g ELSE 0)
        /\ returned'[o][y] = returned[o][y] + (IF y = p THEN g + b ELSE 0)
  <2>1. \A y \in Products :
          held'[RepOf[o]][y] = held[RepOf[o]][y] - (IF y = p THEN g + b ELSE 0)
    BY <1>1, <1>2, <1>7 DEF OrderInv, TypeOK
  <2>2. \A y \in Products : wh'[y] = wh[y] + (IF y = p THEN g ELSE 0)
    BY <1>1, <1>7 DEF OrderInv, TypeOK
  <2>3. \A y \in Products :
          returned'[o][y] = returned[o][y] + (IF y = p THEN g + b ELSE 0)
    BY <1>1, <1>7 DEF OrderInv, TypeOK
  <2>. QED
    BY <2>1, <2>2, <2>3
<1>9. ASSUME NEW y \in Products
      PROVE
       /\ held'[RepOf[o]][y] - held[RepOf[o]][y]
            = (issued'[o][y] - issued[o][y]) - (settled'[o][y] - settled[o][y])
              - (returned'[o][y] - returned[o][y]) - (recalled'[o][y] - recalled[o][y])
       /\ (wh'[y] - wh[y]) + (held'[RepOf[o]][y] - held[RepOf[o]][y])
            = (settled[o][y] - settled'[o][y]) + (DamagedIn(ret, y) - DamagedIn(ret', y))
  <2>1. /\ issued'[o][y] = issued[o][y] /\ settled'[o][y] = settled[o][y]
        /\ recalled'[o][y] = recalled[o][y]
    BY <1>1
  <2>2. CASE y = p
    BY <1>5, <1>7, <1>8, <2>1, <2>2
  <2>3. CASE y # p
    BY <1>5, <1>7, <1>8, <2>1, <2>3
  <2>. QED
    BY <2>2, <2>3
<1>10. Moved(o)
  BY <1>1, <1>6, <1>9 DEF Moved
<1>11. HeldMatchesOrders'
  BY <1>10, MovedBalances DEF OrderInv, StockInv
<1>12. \A x \in Orders : status'[x] = "NONE" => status[x] = "NONE"
  BY <1>1, RecomputedStaysIssued DEF OrderInv
<1>. QED
  BY <1>1, <1>11, <1>12, FrameStands DEF StockInv

(* The other steps move no box: they write rows that are not approved, or  *)
(* the clock.                                                              *)
LEMMA RowStepBalances ==
  ASSUME StockInv, UNCHANGED <<status, issued, settled, returned, xfer, recalled, held, wh>>,
         \A p : DamagedRows(ret', p) = DamagedRows(ret, p),
         \A p : \A j \in DamagedRows(ret, p) : ret'[j].n = ret[j].n
  PROVE  StockInv'
<1>1. \A p : DamagedIn(ret', p) = DamagedIn(ret, p)
  BY DamagedStand
<1>2. HeldMatchesOrders'
  BY <1>1, NothingMoved DEF StockInv
<1>. QED
  BY <1>2, FrameStands DEF StockInv

LEMMA SubmissionRowBalances ==
  ASSUME StockInv, NEW i, \/ RejectSubmission(i) \/ \E o, p, n : Submit(i, o, p, n)
  PROVE  StockInv'
<1>1. UNCHANGED <<status, issued, settled, returned, xfer, recalled, held, wh, ret>>
  BY DEF RejectSubmission, Submit
<1>. QED
  BY <1>1, RowStepBalances

LEMMA CreateReturnBalances ==
  ASSUME OrderInv, StockInv, NEW i \in Rets, NEW o \in Orders, NEW p \in Products,
         NEW l \in Lines, CreateReturn(i, o, p, l)
  PROVE  StockInv'
<1>1. /\ i \notin DOMAIN ret /\ DOMAIN ret' = DOMAIN ret \cup {i}
      /\ ret'[i] = NewReturn(o, p, l)
      /\ \A j \in DOMAIN ret : ret'[j] = ret[j]
  BY RequestedRow DEF OrderInv
<1>2. ret'[i].st = "PENDING"
  BY <1>1 DEF NewReturn
<1>3. \A y : DamagedRows(ret', y) = DamagedRows(ret, y)
  BY <1>1, <1>2 DEF DamagedRows
<1>4. \A y : \A j \in DamagedRows(ret, y) : ret'[j].n = ret[j].n
  BY <1>1 DEF DamagedRows
<1>5. UNCHANGED <<status, issued, settled, returned, xfer, recalled, held, wh>>
  BY DEF CreateReturn
<1>. QED
  BY <1>3, <1>4, <1>5, RowStepBalances

LEMMA CreateUnlinkedReturnBalances ==
  ASSUME OrderInv, StockInv, NEW r \in Reps, NEW p \in Products, NEW c \in Condition,
         NEW n \in 1..MaxLine, CreateUnlinkedReturn(r, p, c, n)
  PROVE  StockInv'
<1>1. /\ DOMAIN ret \subseteq DOMAIN ret'
      /\ \A i \in DOMAIN ret : ret'[i] = ret[i]
      /\ \A i \in DOMAIN ret' \ DOMAIN ret : ret'[i].st = "PENDING"
  BY UnlinkedRows DEF OrderInv
<1>2. \A y : DamagedRows(ret', y) = DamagedRows(ret, y)
  BY <1>1 DEF DamagedRows
<1>3. \A y : \A j \in DamagedRows(ret, y) : ret'[j].n = ret[j].n
  BY <1>1 DEF DamagedRows
<1>4. UNCHANGED <<status, issued, settled, returned, xfer, recalled, held, wh>>
  BY DEF CreateUnlinkedReturn
<1>. QED
  BY <1>2, <1>3, <1>4, RowStepBalances

LEMMA DropReturnBalances ==
  ASSUME OrderInv, StockInv, NEW i \in DOMAIN ret, DropReturn(i)
  PROVE  StockInv'
<1>1. /\ ret' = [ret EXCEPT ![i].st = "DROPPED"] /\ ret[i].st = "PENDING"
      /\ UNCHANGED <<status, issued, settled, returned, xfer, recalled, held, wh>>
  BY DEF DropReturn
<1>2. "DROPPED" \in Decision
  BY DEF Decision
<1>3. /\ DOMAIN ret' = DOMAIN ret
      /\ \A j \in DOMAIN ret \ {i} : ret'[j] = ret[j]
      /\ ret'[i].st = "DROPPED"
  BY <1>1, <1>2, DecidedRow DEF OrderInv
<1>4. \A y : DamagedRows(ret', y) = DamagedRows(ret, y)
  BY <1>1, <1>3 DEF DamagedRows
<1>5. \A y : \A j \in DamagedRows(ret, y) : ret'[j].n = ret[j].n
  BY <1>1, <1>3 DEF DamagedRows
<1>. QED
  BY <1>1, <1>4, <1>5, RowStepBalances

LEMMA ClockStepBalances ==
  ASSUME OrderInv, StockInv,
         \/ RefreshOverdue
         \/ \E o \in Orders : \/ DeadlinePasses(o) \/ ExtendDeadline(o)
                              \/ SelfExtend(o) \/ UndoDeadlineChange(o)
  PROVE  StockInv'
<1>1. UNCHANGED <<issued, settled, returned, xfer, recalled, held, wh, ret>>
  BY DEF RefreshOverdue, DeadlinePasses, ExtendDeadline, SelfExtend,
         UndoDeadlineChange
<1>2. \A x \in Orders : status'[x] = "NONE" => status[x] = "NONE"
  <2>1. ASSUME NEW o \in Orders, DeadlinePasses(o) \/ SelfExtend(o) PROVE status' = status
    BY <2>1 DEF DeadlinePasses, SelfExtend
  <2>2. ASSUME NEW o \in Orders, ExtendDeadline(o) \/ UndoDeadlineChange(o),
               NEW x \in Orders, status'[x] = "NONE"
        PROVE  status[x] = "NONE"
    <3>1. status[o] \in Unpaid
      BY <2>2 DEF ExtendDeadline, UndoDeadlineChange, CanUndo
    <3>2. Revived(o) # "NONE"
      BY <3>1, RevivedType, StatusTypes DEF OrderInv
    <3>3. \/ status' = [status EXCEPT ![o] = Revived(o)]
          \/ status' = [status EXCEPT ![o] = "OVERDUE"]
      BY <2>2 DEF ExtendDeadline, UndoDeadlineChange
    <3>. QED
      BY <2>2, <3>2, <3>3 DEF OrderInv, TypeOK
  <2>3. ASSUME RefreshOverdue, NEW x \in Orders, status'[x] = "NONE"
        PROVE  status[x] = "NONE"
    BY <2>3 DEF RefreshOverdue
  <2>. QED
    BY <2>1, <2>2, <2>3
<1>3. HeldMatchesOrders'
  BY <1>1, NothingMoved DEF StockInv
<1>. QED
  BY <1>1, <1>2, <1>3, FrameStands DEF StockInv

LEMMA StockNext ==
  ASSUME OrderInv, OrderInv', StockInv, [Next]_vars PROVE StockInv'
<1>1. ASSUME NEW o \in Orders, NEW q \in Quantity, CreateTransfer(o, q)
      PROVE  StockInv'
  <2>1. q \in [Products -> Nat]
    BY OrderAssumption DEF Quantity
  <2>. QED
    BY <1>1, <2>1, CreateTransferBalances
<1>2. ASSUME NEW o \in Orders, NEW p \in Products, NEW n \in 1..MaxLine,
             AddStockToRep(o, p, n)
      PROVE  StockInv'
  BY <1>2, AddStockBalances
<1>3. ASSUME NEW o \in Orders, CancelTransfer(o) PROVE StockInv'
  BY <1>3, CancelTransferBalances
<1>4. CASE \/ RefreshOverdue
           \/ \E o \in Orders : \/ DeadlinePasses(o) \/ ExtendDeadline(o)
                                \/ SelfExtend(o) \/ UndoDeadlineChange(o)
  BY <1>4, ClockStepBalances
<1>5. ASSUME NEW i, \/ RejectSubmission(i) \/ \E o, p, n : Submit(i, o, p, n)
      PROVE  StockInv'
  BY <1>5, SubmissionRowBalances
<1>6. ASSUME NEW i \in DOMAIN sub, ApproveSubmission(i) \/ CancelSale(i)
      PROVE  StockInv'
  BY <1>6, ApproveSubmissionBalances, CancelSaleBalances
<1>7. ASSUME NEW i \in Rets, NEW o \in Orders, NEW p \in Products,
             NEW l \in Lines, CreateReturn(i, o, p, l)
      PROVE  StockInv'
  BY <1>7, CreateReturnBalances
<1>8. ASSUME NEW r \in Reps, NEW p \in Products, NEW c \in Condition,
             NEW n \in 1..MaxLine, CreateUnlinkedReturn(r, p, c, n)
      PROVE  StockInv'
  BY <1>8, CreateUnlinkedReturnBalances
<1>9. ASSUME NEW i \in DOMAIN ret, ApproveReturn(i) \/ DropReturn(i)
      PROVE  StockInv'
  BY <1>9, ApproveReturnBalances, DropReturnBalances
<1>10. CASE UNCHANGED vars
  <2>1. UNCHANGED <<status, issued, settled, returned, xfer, recalled, held, wh, ret>>
    BY <1>10 DEF vars
  <2>. QED
    BY <2>1, RowStepBalances
<1>. QED
  BY <1>1, <1>2, <1>3, <1>4, <1>5, <1>6, <1>7, <1>8, <1>9, <1>10 DEF Next

(* At the start nothing is held, sold or damaged: every sum is zero.       *)
LEMMA StockInit == ASSUME Init PROVE StockInv
<1>1. UnissuedHasNoItems /\ RecalledOnce
  BY DEF Init, UnissuedHasNoItems, RecalledOnce
<1>2. ASSUME NEW S, IsFiniteSet(S), NEW f, NEW p, \A x \in S : f[x][p] = 0
      PROVE  SumFunction(Column(f, S, p)) = 0
  <2>. DEFINE u == Column(f, S, p)
  <2>1. DOMAIN u = S /\ \A x \in DOMAIN u : u[x] = 0
    BY <1>2 DEF Column
  <2>2. IsFiniteSet(DOMAIN u)
    BY <1>2, <2>1
  <2>. HIDE DEF u
  <2>3. SumFunction(u) = 0
    BY <2>1, <2>2, SumOfZeros
  <2>. QED
    BY <2>3 DEF u
<1>. DEFINE left == Left(issued, settled, returned, recalled)
<1>3. \A x \in Orders, p \in Products : left[x][p] = 0 /\ settled[x][p] = 0
  BY DEF Init, Left, NoBoxes
<1>4. \A r \in Reps, p \in Products : held[r][p] = 0
  BY DEF Init, NoBoxes
<1>. HIDE DEF left
<1>5. ASSUME NEW p \in Products, NEW r \in Reps
      PROVE  held[r][p] = SumFunction(Column(left, OrdersOf(r), p))
  <2>1. IsFiniteSet(Orders) /\ OrdersOf(r) \in SUBSET Orders
    BY OrderAssumption DEF OrdersOf
  <2>2. IsFiniteSet(OrdersOf(r)) /\ \A x \in OrdersOf(r) : left[x][p] = 0
    BY <1>3, <2>1, FS_Subset
  <2>3. SumFunction(Column(left, OrdersOf(r), p)) = 0
    BY <1>2, <2>2
  <2>. QED
    BY <1>4, <2>3
<1>6. ASSUME NEW p \in Products
      PROVE  wh[p] + SumFunction(Column(held, Reps, p))
               = Stock - SumFunction(Column(settled, Orders, p)) - DamagedIn(ret, p)
  <2>1. IsFiniteSet(Orders) /\ IsFiniteSet(Reps) /\ Stock \in Int
    BY OrderAssumption
  <2>2. \A x \in Reps : held[x][p] = 0
    BY <1>4
  <2>3. SumFunction(Column(held, Reps, p)) = 0
    BY <1>2, <2>1, <2>2
  <2>4. \A x \in Orders : settled[x][p] = 0
    BY <1>3
  <2>5. SumFunction(Column(settled, Orders, p)) = 0
    BY <1>2, <2>1, <2>4
  <2>6. DamagedRows(ret, p) = {}
    BY DEF Init, DamagedRows
  <2>7. DamagedIn(ret, p) = 0
    BY <2>6, SumFunctionOfNothing DEF DamagedIn
  <2>8. wh[p] = Stock
    BY DEF Init
  <2>. QED
    BY <2>1, <2>3, <2>5, <2>7, <2>8
<1>7. Balanced(held, wh, left, settled, ret)
  BY <1>5, <1>6 DEF Balanced
<1>8. HeldMatchesOrders
  BY <1>7, BalancedNow DEF left
<1>. QED
  BY <1>1, <1>8 DEF StockInv

(* No box is lost or made: what a rep holds is what its orders leave with  *)
(* it, and the warehouse holds the stock at the start less what the reps   *)
(* hold, what was sold and what came back damaged.                         *)
THEOREM StockAlwaysAddsUp == Spec => []HeldMatchesOrders
<1>1. Init => StockInv
  BY StockInit
<1>2. OrderInv /\ OrderInv' /\ StockInv /\ [Next]_vars => StockInv'
  BY StockNext
<1>3. StockInv => HeldMatchesOrders
  BY DEF StockInv
<1>. QED
  BY <1>1, <1>2, <1>3, InvAlways, PTL DEF Spec

-----------------------------------------------------------------------------
(* The payouts of a rep (Payouts).                                         *)

(* The balance, with what was taken off it put back. *)
AppliedFines == {f \in Fines : fine[f] = "APPLIED"}
Fined == Cardinality(AppliedFines)
Purse == gross + adjustment - withheld - Fined + debits
Asking(s) == asking[s].pc \in {"claim", "create"}
Deciding(s, w) == asking[s].pc \in {"decide", "handback"} /\ asking[s].row = w

PayoutTyped ==
  /\ gross \in Int /\ adjustment \in Int /\ withheld \in Int /\ debits \in Nat
  /\ onCommission \in BOOLEAN /\ raced \in BOOLEAN
  /\ fine \in [Fines -> {"NONE", "APPLIED", "WAIVED"}] /\ IsFiniteSet(AppliedFines)
  /\ req \in [Withdrawals -> [status : Payout!Statuses, amount : Nat, emergency : BOOLEAN]]
  /\ asking \in [Handlers -> Payout!Session]

OneAsks == raced \/ \A s, t \in Handlers : Asking(s) /\ Asking(t) => s = t

Fits ==
  \/ raced \/ disputed # {}
  \/ Purse >= 0 /\ \A s \in Handlers : Asking(s) => asking[s].amount <= Purse

(* Whoever decides on a request that no other decision crossed is alone,   *)
(* and the request is as it was read.                                      *)
OneDecides ==
  \A w \in Withdrawals \ disputed, s \in Handlers : Deciding(s, w) =>
    /\ \A t \in Handlers : Deciding(t, w) => t = s
    /\ asking[s].pc = "decide" => Payout!Decidable(w, asking[s].to)

PayoutInv == PayoutTyped /\ OneAsks /\ Fits /\ OneDecides

-----------------------------------------------------------------------------
LEMMA FinesCount == Payout!FineTotal = Fined
BY DEF Payout!FineTotal, Payout!Cardinality, Cardinality, Fined, AppliedFines

LEMMA PurseIsInt == ASSUME PayoutTyped PROVE Fined \in Nat /\ Purse \in Int
<1>1. Fined \in Nat
  BY FS_CardinalityType DEF PayoutTyped, Fined, AppliedFines
<1>. QED
  BY <1>1 DEF Purse, PayoutTyped

LEMMA PayoutInit == Payout!Init => PayoutInv
<1>. SUFFICES ASSUME Payout!Init PROVE PayoutInv
  OBVIOUS
<1>1. AppliedFines = {}
  BY DEF Payout!Init, AppliedFines
<1>2. IsFiniteSet(AppliedFines) /\ Fined = 0
  BY <1>1, FS_EmptySet DEF Fined, AppliedFines
<1>3. PayoutTyped
  <2>1. gross \in Int /\ adjustment \in Int /\ withheld \in Int /\ debits \in Nat
    BY DEF Payout!Init
  <2>2. onCommission \in BOOLEAN /\ raced \in BOOLEAN
    BY Zenon DEF Payout!Init
  <2>3. /\ fine \in [Fines -> {"NONE", "APPLIED", "WAIVED"}]
        /\ req \in [Withdrawals -> [status : Payout!Statuses, amount : Nat, emergency : BOOLEAN]]
    BY DEF Payout!Init, Payout!Statuses
  <2>4. asking \in [Handlers -> Payout!Session]
    BY DEF Payout!Init, Payout!Session
  <2>. QED
    BY <1>2, <2>1, <2>2, <2>3, <2>4 DEF PayoutTyped
<1>4. \A s \in Handlers : asking[s].pc = "idle"
  BY DEF Payout!Init, Payout!Idle
<1>. QED
  BY <1>2, <1>3, <1>4 DEF Payout!Init, PayoutInv, OneAsks, Fits, OneDecides, Purse, Asking,
     Deciding

(* What the arithmetic of a step comes to. *)
LEMMA PurseSums ==
  ASSUME NEW a \in Int, NEW b \in Int, NEW c \in Int, NEW d \in Int, NEW e \in Int,
         NEW a1 \in Int, NEW b1 \in Int, NEW e1 \in Int, a1 + b1 + e1 >= a + b + e
  PROVE  a1 + b1 - c - d + e1 >= a + b - c - d + e
OBVIOUS

LEMMA PurseSideways ==
  ASSUME NEW a \in Int, NEW b \in Int, NEW e \in Int, NEW a1 \in Int, NEW e1 \in Int,
         a1 + e1 >= a + e
  PROVE  a1 + b + e1 >= a + b + e /\ b + a1 + e1 >= b + a + e
OBVIOUS

LEMMA BalanceGrows ==
  ASSUME PayoutTyped, gross' \in Int, adjustment' \in Int, withheld' = withheld, debits' \in Nat,
         Fined' = Fined,
         gross' + adjustment' + debits' >= gross + adjustment + debits
  PROVE  Purse' >= Purse
<1>1. /\ gross \in Int /\ adjustment \in Int /\ withheld \in Int /\ debits \in Int
      /\ Fined \in Int /\ debits' \in Int
  BY PurseIsInt DEF PayoutTyped
<1>2. gross' + adjustment' - withheld - Fined + debits'
        >= gross + adjustment - withheld - Fined + debits
  BY <1>1, PurseSums
<1>3. Purse' = gross' + adjustment' - withheld - Fined + debits'
  BY DEF Purse
<1>4. Purse = gross + adjustment - withheld - Fined + debits
  BY DEF Purse
<1>. QED
  BY <1>2, <1>3, <1>4

LEMMA BalanceFreed ==
  ASSUME PayoutTyped, UNCHANGED <<gross, adjustment, debits>>,
         withheld \in Int, withheld' \in Int, withheld' <= withheld,
         Fined' = Fined
  PROVE  Purse' >= Purse
<1>1. ASSUME NEW a \in Int, NEW b \in Int, NEW c \in Int, NEW d \in Int, NEW e \in Int,
             NEW c1 \in Int, c1 <= c
      PROVE  a + b - c1 - d + e >= a + b - c - d + e
  BY <1>1
<1>2. /\ gross \in Int /\ adjustment \in Int /\ Fined \in Int /\ debits \in Int
  BY PurseIsInt DEF PayoutTyped
<1>3. gross + adjustment - withheld' - Fined + debits
        >= gross + adjustment - withheld - Fined + debits
  BY <1>1, <1>2
<1>4. Purse' = gross + adjustment - withheld' - Fined + debits
  BY DEF Purse
<1>5. Purse = gross + adjustment - withheld - Fined + debits
  BY DEF Purse
<1>. QED
  BY <1>3, <1>4, <1>5

(* A step that starts nothing and takes nothing off the balance. *)
LEMMA PurseSettles ==
  ASSUME PayoutInv, PayoutTyped', raced' = raced, disputed' = disputed,
         disputed = {} => Purse' >= Purse,
         \A s \in Handlers : Asking(s)' => Asking(s) /\ asking'[s].amount = asking[s].amount
  PROVE  OneAsks' /\ Fits'
<1>1. Purse \in Int
  BY PurseIsInt DEF PayoutInv
<1>2. gross' \in Int /\ adjustment' \in Int /\ withheld' \in Int /\ debits' \in Nat
  BY DEF PayoutTyped
<1>3. Fined' \in Nat
  BY FS_CardinalityType DEF PayoutTyped, Fined, AppliedFines
<1>4. Purse' \in Int
  BY <1>2, <1>3 DEF Purse
<1>5. OneAsks'
  BY DEF PayoutInv, OneAsks
<1>6. \A s \in Handlers : Asking(s) => asking[s].amount \in Int
  BY DEF PayoutInv, PayoutTyped, Asking, Payout!Session, Payout!Idle
<1>7. Fits'
  BY <1>1, <1>4, <1>6 DEF PayoutInv, Fits
<1>. QED
  BY <1>5, <1>7

(* A step that starts no decision and touches no request under decision.   *)
LEMMA Undecided ==
  ASSUME PayoutInv, disputed' = disputed,
         \A s \in Handlers, w \in Withdrawals : Deciding(s, w)' =>
            /\ Deciding(s, w)
            /\ asking'[s].pc = "decide" => /\ asking[s].pc = "decide" /\ asking'[s].to = asking[s].to
                                           /\ w \in disputed \/ req'[w].status = req[w].status
  PROVE  OneDecides'
BY DEF PayoutInv, OneDecides, Payout!Decidable

(* The steps of others: fines, sales, the window, the switch, time. *)
LEMMA OthersKeep ==
  ASSUME PayoutInv,
         \/ Payout!OpenWindow \/ Payout!CloseWindow \/ Payout!Settle \/ Payout!CancelSale
            \/ Payout!SwitchCommission \/ Payout!Tick
         \/ \E f \in Fines : Payout!ApplyFine(f) \/ Payout!WaivePenalty(f)
  PROVE  PayoutInv'
<1>. USE DEF PayoutInv
<1>1. UNCHANGED <<asking, req, withheld, raced, disputed>>
  BY DEF Payout!OpenWindow, Payout!CloseWindow, Payout!Settle, Payout!CancelSale,
     Payout!SwitchCommission, Payout!Tick,
         Payout!ApplyFine, Payout!WaivePenalty, Payout!history
<1>2. PayoutTyped' /\ Purse' >= Purse
  <2>1. CASE Payout!OpenWindow \/ Payout!CloseWindow \/ Payout!Settle \/ Payout!CancelSale
             \/ Payout!SwitchCommission \/ Payout!Tick
    <3>1. fine' = fine
      BY <2>1 DEF Payout!OpenWindow, Payout!CloseWindow, Payout!Settle, Payout!CancelSale,
         Payout!SwitchCommission, Payout!Tick, Payout!rep
    <3>2. AppliedFines' = AppliedFines /\ Fined' = Fined /\ Fined \in Nat
      BY <3>1, PurseIsInt DEF AppliedFines, Fined
    <3>3. /\ gross' \in Int /\ adjustment' = adjustment /\ debits' \in Nat
          /\ gross' + debits' >= gross + debits
      <4>1. gross \in Int /\ debits \in Nat
        BY DEF PayoutTyped
      <4>2. CASE Payout!OpenWindow \/ Payout!CloseWindow \/ Payout!Tick \/ Payout!SwitchCommission
        BY <4>1, <4>2 DEF Payout!OpenWindow, Payout!CloseWindow, Payout!Tick,
           Payout!SwitchCommission, Payout!rep, Payout!history
      <4>3. CASE Payout!Settle \/ Payout!CancelSale
        BY <4>1, <4>3 DEF Payout!Settle, Payout!CancelSale, Payout!history
      <4>. QED
        BY <2>1, <4>2, <4>3
    <3>6. onCommission' \in BOOLEAN
      <4>1. onCommission \in BOOLEAN
        BY DEF PayoutTyped
      <4>2. onCommission' = onCommission \/ onCommission' = ~onCommission
        BY <2>1, Zenon DEF Payout!OpenWindow, Payout!CloseWindow, Payout!Settle,
           Payout!CancelSale, Payout!SwitchCommission, Payout!Tick, Payout!rep
      <4>. QED
        BY <4>1, <4>2, Zenon
    <3>4. PayoutTyped'
      BY <1>1, <3>1, <3>2, <3>3, <3>6 DEF PayoutTyped
    <3>5. Purse' >= Purse
      <4>1. gross \in Int /\ adjustment \in Int /\ debits \in Nat
        BY DEF PayoutTyped
      <4>2. gross' + adjustment + debits' >= gross + adjustment + debits
        <5>1. debits \in Int /\ debits' \in Int
          BY <4>1, <3>3
        <5>. QED
          BY <4>1, <3>3, <5>1, PurseSideways
      <4>3. PayoutTyped /\ adjustment' \in Int /\ withheld' = withheld
        BY <4>1, <1>1, <3>3
      <4>4. gross' + adjustment' + debits' >= gross + adjustment + debits
        BY <4>2, <3>3
      <4>. QED
        BY <4>3, <4>4, <3>2, <3>3, BalanceGrows
    <3>. QED
      BY <3>4, <3>5
  <2>2. ASSUME NEW f \in Fines, Payout!ApplyFine(f) PROVE PayoutTyped' /\ Purse' >= Purse
    <3>1. /\ fine' = [fine EXCEPT ![f] = "APPLIED"] /\ fine[f] = "NONE" /\ debits' = debits + 1
          /\ UNCHANGED <<gross, adjustment, onCommission>>
      BY <2>2 DEF Payout!ApplyFine
    <3>2. AppliedFines' = AppliedFines \cup {f} /\ f \notin AppliedFines
      BY <3>1 DEF AppliedFines, PayoutTyped
    <3>3. IsFiniteSet(AppliedFines') /\ Fined' = Fined + 1 /\ Fined \in Nat
      <4>1. IsFiniteSet(AppliedFines) /\ Fined \in Nat
        BY PurseIsInt DEF PayoutTyped
      <4>2. Fined = Cardinality(AppliedFines) /\ Fined' = Cardinality(AppliedFines')
        BY DEF Fined, AppliedFines
      <4>. QED
        BY <3>2, <4>1, <4>2, FS_AddElement
    <3>4. PayoutTyped'
      BY <1>1, <3>1, <3>3 DEF PayoutTyped
    <3>5. Purse' >= Purse
      BY <1>1, <3>1, <3>3 DEF Purse, PayoutTyped
    <3>. QED
      BY <3>4, <3>5
  <2>3. ASSUME NEW f \in Fines, Payout!WaivePenalty(f) PROVE PayoutTyped' /\ Purse' >= Purse
    <3>1. /\ fine' = [fine EXCEPT ![f] = "WAIVED"] /\ fine[f] = "APPLIED"
          /\ UNCHANGED <<gross, adjustment, onCommission, debits>>
      BY <2>3 DEF Payout!WaivePenalty, Payout!history
    <3>2. AppliedFines' = AppliedFines \ {f} /\ f \in AppliedFines
      BY <3>1 DEF AppliedFines, PayoutTyped
    <3>3. IsFiniteSet(AppliedFines') /\ Fined' = Fined - 1 /\ Fined \in Nat
      <4>1. IsFiniteSet(AppliedFines) /\ Fined \in Nat
        BY PurseIsInt DEF PayoutTyped
      <4>2. Fined = Cardinality(AppliedFines) /\ Fined' = Cardinality(AppliedFines')
        BY DEF Fined, AppliedFines
      <4>. QED
        BY <3>2, <4>1, <4>2, FS_RemoveElement
    <3>4. PayoutTyped'
      BY <1>1, <3>1, <3>3 DEF PayoutTyped
    <3>5. Purse' >= Purse
      BY <1>1, <3>1, <3>3 DEF Purse, PayoutTyped
    <3>. QED
      BY <3>4, <3>5
  <2>. QED
    BY <2>1, <2>2, <2>3
<1>3. OneAsks' /\ Fits'
  BY <1>1, <1>2, PurseSettles DEF Asking
<1>4. OneDecides'
  BY <1>1, Undecided DEF Deciding
<1>. QED
  BY <1>2, <1>3, <1>4

(* The steps of a handler that neither ask nor decide. *)
LEMMA OwnBusinessKeeps ==
  ASSUME PayoutInv, NEW s \in Handlers,
         \/ Payout!ClaimWindow(s) \/ Payout!HandBack(s) \/ Payout!WriteAdjust(s) \/ Payout!Crash(s)
         \/ \E d \in Payout!Correction : Payout!StartAdjust(s, d)
  PROVE  PayoutInv'
<1>. USE DEF PayoutInv
<1>1. UNCHANGED <<gross, onCommission, fine, req, withheld, raced, disputed>>
  BY DEF Payout!ClaimWindow, Payout!HandBack, Payout!WriteAdjust, Payout!Crash,
     Payout!StartAdjust, Payout!rep, Payout!history
<1>2. /\ adjustment' \in Int /\ debits' \in Nat
      /\ adjustment' + debits' >= adjustment + debits
  <2>1. adjustment \in Int /\ debits \in Nat
    BY DEF PayoutTyped
  <2>2. CASE Payout!WriteAdjust(s)
    <3>1. asking[s].next \in Int
      BY <2>2 DEF Payout!WriteAdjust, PayoutTyped, Payout!Session, Payout!Idle
    <3>. QED
      BY <2>1, <2>2, <3>1 DEF Payout!WriteAdjust
  <2>3. CASE Payout!ClaimWindow(s) \/ Payout!HandBack(s) \/ Payout!Crash(s)
             \/ \E d \in Payout!Correction : Payout!StartAdjust(s, d)
    <3>1. adjustment' = adjustment /\ debits' = debits
      BY <2>3 DEF Payout!ClaimWindow, Payout!HandBack, Payout!Crash, Payout!StartAdjust,
         Payout!rep, Payout!history
    <3>. QED
      BY <2>1, <3>1
  <2>. QED
    BY <2>2, <2>3
<1>3. /\ asking' \in [Handlers -> Payout!Session]
      /\ \A t \in Handlers : t # s => asking'[t] = asking[t]
      /\ asking'[s].pc \notin {"decide", "handback"}
      /\ asking'[s].pc \in {"claim", "create"} =>
           asking[s].pc \in {"claim", "create"} /\ asking'[s].amount = asking[s].amount
  <2>1. asking \in [Handlers -> Payout!Session] /\ Payout!Idle \in Payout!Session
    BY DEF PayoutTyped, Payout!Session
  <2>2. CASE Payout!ClaimWindow(s)
    <3>1. /\ asking[s].pc = "claim"
          /\ asking[s] \in [pc : {"claim", "create"}, amount : 1..MaxAmount, emergency : BOOLEAN]
      BY <2>1, <2>2 DEF Payout!ClaimWindow, Payout!Session, Payout!Idle
    <3>2. [asking[s] EXCEPT !.pc = "create"]
            \in [pc : {"claim", "create"}, amount : 1..MaxAmount, emergency : BOOLEAN]
      BY <3>1
    <3>3. [asking[s] EXCEPT !.pc = "create"] \in Payout!Session
      BY <3>2 DEF Payout!Session
    <3>4. \/ asking' = [asking EXCEPT ![s] = [asking[s] EXCEPT !.pc = "create"]]
          \/ asking' = [asking EXCEPT ![s] = Payout!Idle]
      BY <2>2 DEF Payout!ClaimWindow, Payout!Run
    <3>5. /\ [asking[s] EXCEPT !.pc = "create"].amount = asking[s].amount
          /\ [asking[s] EXCEPT !.pc = "create"].pc = "create"
      BY <3>1
    <3>. QED
      BY <2>1, <3>1, <3>3, <3>4, <3>5 DEF Payout!Idle
  <2>3. CASE Payout!HandBack(s) \/ Payout!WriteAdjust(s) \/ Payout!Crash(s)
    <3>1. asking' = [asking EXCEPT ![s] = Payout!Idle]
      BY <2>3 DEF Payout!HandBack, Payout!WriteAdjust, Payout!Crash, Payout!Run
    <3>. QED
      BY <2>1, <3>1 DEF Payout!Idle
  <2>4. ASSUME NEW d \in Payout!Correction, Payout!StartAdjust(s, d)
        PROVE  asking' = [asking EXCEPT ![s] = [pc |-> "adjust", next |-> adjustment + d]]
               /\ [pc |-> "adjust", next |-> adjustment + d] \in Payout!Session
    BY <2>4 DEF Payout!StartAdjust, Payout!Run, Payout!Session, PayoutTyped, Payout!Correction
  <2>5. CASE \E d \in Payout!Correction : Payout!StartAdjust(s, d)
    <3>1. PICK d \in Payout!Correction : Payout!StartAdjust(s, d)
      BY <2>5
    <3> DEFINE r == [pc |-> "adjust", next |-> adjustment + d]
    <3>2. asking' = [asking EXCEPT ![s] = r] /\ r \in Payout!Session /\ r.pc = "adjust"
      BY <2>4, <3>1
    <3>. HIDE DEF r
    <3>. QED
      BY <2>1, <3>2
  <2>. QED
    BY <2>2, <2>3, <2>5
<1>4. AppliedFines' = AppliedFines /\ Fined' = Fined
  BY <1>1 DEF AppliedFines, Fined
<1>5. PayoutTyped'
  BY <1>1, <1>2, <1>3, <1>4 DEF PayoutTyped
<1>6. Purse' >= Purse
  <2>1. gross \in Int /\ adjustment \in Int /\ debits \in Nat
    BY DEF PayoutTyped
  <2>2. gross' + adjustment' + debits' >= gross + adjustment + debits /\ gross' \in Int
    <3>1. debits \in Int /\ debits' \in Int
      BY <2>1, <1>2
    <3>2. gross + adjustment' + debits' >= gross + adjustment + debits
      BY <2>1, <1>2, <3>1, PurseSideways
    <3>3. gross' = gross
      BY <1>1
    <3>. QED
      BY <2>1, <3>2, <3>3
  <2>3. PayoutTyped /\ withheld' = withheld
    BY <1>1
  <2>. QED
    BY <2>2, <2>3, <1>2, <1>4, BalanceGrows
<1>7. OneAsks' /\ Fits'
  BY <1>1, <1>3, <1>5, <1>6, PurseSettles DEF Asking
<1>8. OneDecides'
  BY <1>1, <1>3, Undecided DEF Deciding
<1>. QED
  BY <1>5, <1>7, <1>8

-----------------------------------------------------------------------------
(* A request: what it asks for is checked against the balance, and still   *)
(* fits when it is created unless another was under way.                   *)
LEMMA StartRequestKeeps ==
  ASSUME PayoutInv, NEW s \in Handlers, NEW a \in 1..MaxAmount, Payout!StartRequest(s, a)
  PROVE  PayoutInv'
<1>. USE DEF PayoutInv
<1>1. /\ UNCHANGED <<gross, adjustment, onCommission, fine, req, withheld, debits, disputed>>
      /\ asking[s] = Payout!Idle /\ a <= Payout!Available
      /\ raced' = (raced \/ Payout!InFlight({"claim", "create"}) # {})
  BY DEF Payout!StartRequest, Payout!rep, Payout!WithinBalance
<1>2. PICK r \in [pc : {"claim", "create"}, amount : 1..MaxAmount, emergency : BOOLEAN] :
        asking' = [asking EXCEPT ![s] = r] /\ r.amount = a
  <2>1. \A pc \in {"claim", "create"}, e \in BOOLEAN :
          /\ [pc |-> pc, amount |-> a, emergency |-> e]
               \in [pc : {"claim", "create"}, amount : 1..MaxAmount, emergency : BOOLEAN]
          /\ [pc |-> pc, amount |-> a, emergency |-> e].amount = a
    OBVIOUS
  <2>2. \/ asking' = [asking EXCEPT ![s] = [pc |-> "create", amount |-> a, emergency |-> FALSE]]
        \/ asking' = [asking EXCEPT ![s] = [pc |-> "claim", amount |-> a, emergency |-> TRUE]]
    BY DEF Payout!StartRequest, Payout!Run
  <2>. QED
    BY <2>1, <2>2
<1>3. AppliedFines' = AppliedFines /\ Fined' = Fined
  BY <1>1 DEF AppliedFines, Fined
<1>4. raced' \in BOOLEAN /\ (raced => raced')
      /\ (~raced' => \A t \in Handlers : ~Asking(t))
  <2>1. raced \in BOOLEAN
    BY DEF PayoutTyped
  <2>2. Payout!InFlight({"claim", "create"}) = {} => \A t \in Handlers : ~Asking(t)
    BY DEF Payout!InFlight, Asking
  <2>. QED
    BY <1>1, <2>1, <2>2, Zenon
<1>5. /\ asking' \in [Handlers -> Payout!Session] /\ asking'[s] = r
      /\ \A t \in Handlers : t # s => asking'[t] = asking[t]
  BY <1>2 DEF PayoutTyped, Payout!Session
<1>6. PayoutTyped'
  BY <1>1, <1>3, <1>4, <1>5 DEF PayoutTyped
<1>7. OneAsks'
  BY <1>4, <1>5 DEF OneAsks, Asking
<1>8. a <= Purse /\ Purse' = Purse
  <2>1. gross \in Int /\ adjustment \in Int /\ withheld \in Int /\ Fined \in Nat /\ debits \in Nat
    BY PurseIsInt DEF PayoutTyped
  <2>2. a \in Int /\ a >= 1
    OBVIOUS
  <2>3. a <= gross + adjustment - withheld - Fined
    BY <1>1, <2>1, <2>2, FinesCount DEF Payout!Available
  <2>. QED
    BY <1>1, <1>3, <2>1, <2>2, <2>3 DEF Purse
<1>9. Fits'
  BY <1>1, <1>2, <1>4, <1>5, <1>8 DEF Fits, Asking
<1>10. OneDecides'
  BY <1>1, <1>2, <1>5, Undecided DEF Deciding
<1>. QED
  BY <1>6, <1>7, <1>9, <1>10

LEMMA CreateRequestKeeps ==
  ASSUME PayoutInv, NEW s \in Handlers, NEW w \in Withdrawals, Payout!CreateRequest(s, w)
  PROVE  PayoutInv'
<1>. USE DEF PayoutInv
<1>1. /\ UNCHANGED <<gross, adjustment, onCommission, fine, debits, raced, disputed>>
      /\ asking[s].pc = "create" /\ req[w].status = "NONE"
      /\ req' = [req EXCEPT ![w] = [status |-> "PENDING", amount |-> asking[s].amount,
                                    emergency |-> asking[s].emergency]]
      /\ withheld' = withheld + asking[s].amount
      /\ asking' = [asking EXCEPT ![s] = Payout!Idle]
  BY DEF Payout!CreateRequest, Payout!rep, Payout!history, Payout!Run
<1>2. asking[s].amount \in Nat /\ asking[s].emergency \in BOOLEAN
  BY <1>1 DEF PayoutTyped, Payout!Session, Payout!Idle
<1>3. AppliedFines' = AppliedFines /\ Fined' = Fined
  BY <1>1 DEF AppliedFines, Fined
<1>4. /\ asking' \in [Handlers -> Payout!Session] /\ asking'[s] = Payout!Idle
      /\ \A t \in Handlers : t # s => asking'[t] = asking[t]
  BY <1>1 DEF PayoutTyped, Payout!Session
<1>5. req' \in [Withdrawals -> [status : Payout!Statuses, amount : Nat, emergency : BOOLEAN]]
  BY <1>1, <1>2 DEF PayoutTyped, Payout!Statuses
<1>6. withheld' \in Int
  BY <1>1, <1>2 DEF PayoutTyped
<1>7. PayoutTyped'
  BY <1>1, <1>3, <1>4, <1>5, <1>6 DEF PayoutTyped
<1>8. OneAsks'
  BY <1>1, <1>4 DEF OneAsks, Asking, Payout!Idle
<1>9. Fits'
  <2>. SUFFICES ASSUME ~raced, disputed = {}
                PROVE  Purse' >= 0 /\ \A t \in Handlers : asking'[t].pc \notin {"claim", "create"}
    BY <1>1 DEF Fits, Asking
  <2>1. Asking(s) /\ asking[s].amount <= Purse
    BY <1>1 DEF Fits, Asking
  <2>2. Purse' = Purse - asking[s].amount
    <3>1. gross \in Int /\ adjustment \in Int /\ withheld \in Int /\ Fined \in Nat /\ debits \in Nat
      BY PurseIsInt DEF PayoutTyped
    <3>. QED
      BY <1>1, <1>2, <1>3, <3>1 DEF Purse
  <2>3. Purse' >= 0
    BY <2>1, <2>2, <1>2, PurseIsInt
  <2>4. \A t \in Handlers : t # s => ~Asking(t)
    BY <2>1 DEF OneAsks
  <2>. QED
    BY <2>3, <2>4, <1>4 DEF Asking, Payout!Idle
<1>10. OneDecides'
  <2>1. \A t \in Handlers, v \in Withdrawals : Deciding(t, v)' => Deciding(t, v) /\ asking'[t] = asking[t]
    BY <1>4 DEF Deciding, Payout!Idle
  <2>2. \A t \in Handlers : asking[t].pc = "decide" /\ Deciding(t, w) => w \in disputed
    BY <1>1 DEF OneDecides, Payout!Decidable
  <2>3. \A v \in Withdrawals : v # w => req'[v] = req[v]
    BY <1>1 DEF PayoutTyped
  <2>. QED
    BY <1>1, <2>1, <2>2, <2>3, Undecided
<1>. QED
  BY <1>7, <1>8, <1>9, <1>10

-----------------------------------------------------------------------------
(* A decision: alone on its request unless crossed, it finds the request   *)
(* as it read it, so it never puts back what the balance was given.        *)
LEMMA StartDecisionKeeps ==
  ASSUME PayoutInv, NEW s \in Handlers, NEW w \in Withdrawals,
         NEW to \in {"APPROVED", "REJECTED", "PAID"}, Payout!StartDecision(s, w, to)
  PROVE  PayoutInv'
<1>. USE DEF PayoutInv
<1> DEFINE r == [pc |-> "decide", row |-> w, to |-> to]
<1>1. /\ UNCHANGED <<gross, adjustment, onCommission, fine, req, withheld, debits, raced>>
      /\ asking[s] = Payout!Idle /\ Payout!Decidable(w, to) /\ asking' = [asking EXCEPT ![s] = r]
      /\ disputed' = IF \E t \in Payout!InFlight({"decide", "handback"}) : asking[t].row = w
                     THEN disputed \cup {w} ELSE disputed
  BY DEF Payout!StartDecision, Payout!rep, Payout!Run
<1>2. r \in Payout!Session /\ r.pc = "decide" /\ r.row = w /\ r.to = to
  BY DEF Payout!Session
<1>. HIDE DEF r
<1>3. /\ asking' \in [Handlers -> Payout!Session] /\ asking'[s] = r
      /\ \A t \in Handlers : t # s => asking'[t] = asking[t]
  BY <1>1, <1>2 DEF PayoutTyped
<1>4. AppliedFines' = AppliedFines /\ Fined' = Fined
  BY <1>1 DEF AppliedFines, Fined
<1>5. PayoutTyped'
  BY <1>1, <1>3, <1>4 DEF PayoutTyped
<1>6. \A t \in Handlers : Asking(t)' => Asking(t) /\ asking'[t] = asking[t]
  BY <1>2, <1>3 DEF Asking
<1>7. OneAsks'
  BY <1>1, <1>6 DEF OneAsks
<1>8. Fits'
  <2>1. Purse' = Purse
    BY <1>1, <1>4 DEF Purse
  <2>2. disputed' = {} => disputed = {}
    BY <1>1
  <2>. QED
    BY <1>1, <1>6, <2>1, <2>2 DEF Fits
<1>9. OneDecides'
  <2>1. w \notin disputed' => \A t \in Handlers : ~Deciding(t, w)
    BY <1>1 DEF Payout!InFlight, Deciding
  <2>2. disputed \subseteq disputed'
    BY <1>1
  <2>3. \A v \in Withdrawals : req'[v] = req[v]
    BY <1>1
  <2>4. \A t \in Handlers, v \in Withdrawals : Deciding(t, v)' => (t = s /\ v = w) \/ (t # s /\ Deciding(t, v))
    BY <1>2, <1>3 DEF Deciding
  <2>. SUFFICES ASSUME NEW v \in Withdrawals \ disputed', NEW t \in Handlers, Deciding(t, v)'
                PROVE  /\ \A u \in Handlers : Deciding(u, v)' => u = t
                       /\ asking'[t].pc = "decide" => Payout!Decidable(v, asking[t].to)'
    BY DEF OneDecides
  <2>5. CASE v = w
    <3>1. t = s /\ \A u \in Handlers : Deciding(u, v)' => u = s
      BY <2>1, <2>4, <2>5
    <3>2. Payout!Decidable(w, to)'
      BY <1>1, <2>3 DEF Payout!Decidable
    <3>. QED
      BY <1>2, <1>3, <2>5, <3>1, <3>2
  <2>6. CASE v # w
    <3>1. Deciding(t, v) /\ t # s /\ asking'[t] = asking[t]
      BY <1>3, <2>4, <2>6
    <3>2. /\ \A u \in Handlers : Deciding(u, v) => u = t
          /\ asking[t].pc = "decide" => Payout!Decidable(v, asking[t].to)
      BY <2>2, <3>1 DEF OneDecides
    <3>3. \A u \in Handlers : Deciding(u, v)' => u = t
      BY <2>4, <2>6, <3>2
    <3>5. asking'[t].pc = "decide" => Payout!Decidable(v, asking[t].to)'
      BY <2>3, <3>1, <3>2 DEF Payout!Decidable
    <3>. QED
      BY <3>3, <3>5
  <2>. QED
    BY <2>5, <2>6
<1>. QED
  BY <1>5, <1>7, <1>8, <1>9

LEMMA WriteDecisionKeeps ==
  ASSUME PayoutInv, NEW s \in Handlers, Payout!WriteDecision(s)
  PROVE  PayoutInv'
<1>. USE DEF PayoutInv
<1> DEFINE w == asking[s].row
           to == asking[s].to
           r == IF to = "REJECTED" /\ req[w].emergency
                THEN [pc |-> "handback", row |-> w] ELSE Payout!Idle
<1>1. /\ UNCHANGED <<gross, adjustment, onCommission, fine, debits, raced, disputed>>
      /\ asking[s].pc = "decide"
      /\ req' = [req EXCEPT ![w].status = to]
      /\ withheld' = withheld - Payout!Counted(req[w].status, req[w].amount)
                      + Payout!Counted(to, req[w].amount)
      /\ asking' = [asking EXCEPT ![s] = r]
  BY DEF Payout!WriteDecision, Payout!rep, Payout!history, Payout!Run
<1>2. w \in Withdrawals /\ to \in {"APPROVED", "REJECTED", "PAID"} /\ Deciding(s, w)
  BY <1>1 DEF PayoutTyped, Payout!Session, Payout!Idle, Deciding
<1>3. req[w].amount \in Nat /\ req[w].status \in Payout!Statuses
  BY <1>2 DEF PayoutTyped
<1>4. r \in Payout!Session /\ r.pc \in {"idle", "handback"} /\ (r.pc = "handback" => r.row = w)
  BY <1>2 DEF Payout!Session, Payout!Idle
<1>5. /\ Payout!Counted(req[w].status, req[w].amount) \in Nat
      /\ Payout!Counted(to, req[w].amount) \in Nat
      /\ req[w].status \in Payout!Live =>
           Payout!Counted(to, req[w].amount) <= Payout!Counted(req[w].status, req[w].amount)
  BY <1>2, <1>3 DEF Payout!Counted, Payout!Live
<1>. HIDE DEF w, to, r
<1>6. /\ asking' \in [Handlers -> Payout!Session] /\ asking'[s] = r
      /\ \A t \in Handlers : t # s => asking'[t] = asking[t]
  BY <1>1, <1>4 DEF PayoutTyped
<1>7. AppliedFines' = AppliedFines /\ Fined' = Fined
  BY <1>1 DEF AppliedFines, Fined
<1>8. req' \in [Withdrawals -> [status : Payout!Statuses, amount : Nat, emergency : BOOLEAN]]
  BY <1>1, <1>2 DEF PayoutTyped, Payout!Statuses
<1>9. withheld' \in Int
  BY <1>1, <1>5 DEF PayoutTyped
<1>10. PayoutTyped'
  BY <1>1, <1>6, <1>7, <1>8, <1>9 DEF PayoutTyped
<1>11. OneAsks' /\ Fits'
  <2>1. disputed = {} => Purse' >= Purse
    <3>. SUFFICES ASSUME disputed = {} PROVE Purse' >= Purse
      OBVIOUS
    <3>1. req[w].status \in Payout!Live
      BY <1>1, <1>2 DEF OneDecides, Payout!Decidable, Payout!Live, to
    <3>2. withheld \in Int
      BY DEF PayoutTyped
    <3>3. withheld' <= withheld
      BY <1>1, <1>5, <3>1, <3>2
    <3>. QED
      BY <1>1, <1>7, <1>9, <3>2, <3>3, BalanceFreed
  <2>2. \A t \in Handlers : Asking(t)' => Asking(t) /\ asking'[t].amount = asking[t].amount
    BY <1>4, <1>6 DEF Asking
  <2>. QED
    BY <1>1, <1>10, <2>1, <2>2, PurseSettles
<1>12. OneDecides'
  <2>1. \A t \in Handlers, v \in Withdrawals : Deciding(t, v)' =>
           /\ Deciding(t, v)
           /\ asking'[t].pc = "decide" => t # s /\ asking'[t] = asking[t]
    BY <1>1, <1>2, <1>4, <1>6 DEF Deciding
  <2>2. \A t \in Handlers : t # s /\ Deciding(t, w) => w \in disputed
    BY <1>2 DEF OneDecides
  <2>3. \A v \in Withdrawals : v # w => req'[v] = req[v]
    BY <1>1 DEF PayoutTyped
  <2>. QED
    BY <1>1, <2>1, <2>2, <2>3, Undecided
<1>. QED
  BY <1>10, <1>11, <1>12

-----------------------------------------------------------------------------
LEMMA PayoutNext == PayoutInv /\ [Payout!Next]_Payout!vars => PayoutInv'
<1>. SUFFICES ASSUME PayoutInv, [Payout!Next]_Payout!vars PROVE PayoutInv'
  OBVIOUS
<1>1. CASE UNCHANGED Payout!vars
  BY <1>1 DEF Payout!vars, PayoutInv, PayoutTyped, OneAsks, Fits, OneDecides, Purse, Fined,
              AppliedFines, Asking, Deciding, Payout!Decidable
<1>2. ASSUME NEW s \in Handlers, Payout!Handler(s) PROVE PayoutInv'
  BY <1>2, OwnBusinessKeeps, StartRequestKeeps, CreateRequestKeeps, StartDecisionKeeps,
     WriteDecisionKeeps DEF Payout!Handler
<1>. QED
  BY <1>1, <1>2, OthersKeep DEF Payout!Next


-----------------------------------------------------------------------------
(* What holds a window: the emergency requests alive, the handlers that    *)
(* have claimed one and not created their request yet, those about to hand *)
(* one back, and the window itself while it stands in the row.             *)
Alive == {w \in Withdrawals : req[w].emergency /\ req[w].status \in Payout!Live}
Admitted == {s \in Handlers : asking[s].pc = "create" /\ asking[s].emergency}
Returning == {s \in Handlers : asking[s].pc = "handback"}
Standing == IF windowAt = Payout!Closed THEN 0 ELSE 1
WindowsHeld == Cardinality(Alive) + Cardinality(Admitted) + Cardinality(Returning) + Standing

WindowTyped ==
  /\ windowAt \in Nat \cup {Payout!Closed} /\ clock \in Nat /\ opened \in Nat
  /\ IsFiniteSet(Alive) /\ IsFiniteSet(Admitted) /\ IsFiniteSet(Returning)
WindowInv == WindowTyped /\ (disputed # {} \/ WindowsHeld <= opened)

(* A set that gained or lost one element at most. *)
LEMMA OneMoreOrLess ==
  ASSUME NEW S, IsFiniteSet(S), NEW x, NEW T, T \subseteq S \cup {x}
  PROVE  /\ IsFiniteSet(T) /\ Cardinality(T) \in Nat /\ Cardinality(S) \in Nat
         /\ Cardinality(T) <= Cardinality(S) + 1
         /\ T \subseteq S => Cardinality(T) <= Cardinality(S)
         /\ T \subseteq S /\ x \in S /\ x \notin T => Cardinality(T) + 1 <= Cardinality(S)
<1>1. Cardinality(S) \in Nat
  BY FS_CardinalityType
<1>2. /\ IsFiniteSet(S \cup {x})
      /\ Cardinality(S \cup {x}) = IF x \in S THEN Cardinality(S) ELSE Cardinality(S) + 1
  BY FS_AddElement
<1>3. IsFiniteSet(T) /\ Cardinality(T) <= Cardinality(S \cup {x})
  BY <1>2, FS_Subset
<1>4. Cardinality(T) \in Nat
  BY <1>3, FS_CardinalityType
<1>5. T \subseteq S => Cardinality(T) <= Cardinality(S)
  BY FS_Subset
<1>6. T \subseteq S /\ x \in S /\ x \notin T => Cardinality(T) + 1 <= Cardinality(S)
  <2>. SUFFICES ASSUME T \subseteq S, x \in S, x \notin T
                PROVE  Cardinality(T) + 1 <= Cardinality(S)
    OBVIOUS
  <2>1. IsFiniteSet(S \ {x}) /\ Cardinality(S \ {x}) = Cardinality(S) - 1
    BY FS_RemoveElement
  <2>2. T \subseteq S \ {x}
    OBVIOUS
  <2>3. Cardinality(T) <= Cardinality(S \ {x})
    BY <2>1, <2>2, FS_Subset
  <2>. QED
    BY <1>1, <1>4, <2>1, <2>3
<1>. QED
  BY <1>1, <1>2, <1>3, <1>4, <1>5, <1>6

LEMMA WindowCounts ==
  ASSUME WindowTyped
  PROVE  /\ Cardinality(Alive) \in Nat /\ Cardinality(Admitted) \in Nat
         /\ Cardinality(Returning) \in Nat /\ Standing \in {0, 1}
BY FS_CardinalityType DEF WindowTyped, Standing

LEMMA ClosedIsNoTime == Payout!Closed \notin Nat
BY DEF Payout!Closed

(* A handler that takes no window and gives none back. *)
LEMMA HandlerHoldsNoMore ==
  ASSUME PayoutInv, WindowInv, NEW s \in Handlers,
         UNCHANGED <<windowAt, clock, opened, req>>,
         disputed \subseteq disputed',
         \A t \in Handlers : t # s => asking'[t] = asking[t],
         asking'[s].pc # "handback",
         asking'[s].pc = "create" => ~asking'[s].emergency
  PROVE  WindowInv'
<1>1. Alive' = Alive /\ Standing' = Standing
  BY DEF Alive, Standing
<1>2. Admitted' \subseteq Admitted /\ Returning' \subseteq Returning
  BY DEF Admitted, Returning
<1>3. /\ IsFiniteSet(Admitted') /\ Cardinality(Admitted') \in Nat
      /\ Cardinality(Admitted') <= Cardinality(Admitted)
  BY <1>2, OneMoreOrLess DEF WindowInv, WindowTyped
<1>4. /\ IsFiniteSet(Returning') /\ Cardinality(Returning') \in Nat
      /\ Cardinality(Returning') <= Cardinality(Returning)
  BY <1>2, OneMoreOrLess DEF WindowInv, WindowTyped
<1>5. WindowTyped'
  BY <1>1, <1>3, <1>4 DEF WindowInv, WindowTyped
<1>. QED
  BY <1>1, <1>3, <1>4, <1>5, WindowCounts DEF WindowInv, WindowTyped, WindowsHeld

LEMMA WindowStepOfOthers ==
  ASSUME PayoutInv, WindowInv,
         \/ Payout!OpenWindow \/ Payout!CloseWindow \/ Payout!Settle \/ Payout!CancelSale
         \/ Payout!SwitchCommission \/ Payout!Tick
         \/ \E f \in Fines : Payout!ApplyFine(f) \/ Payout!WaivePenalty(f)
  PROVE  WindowInv'
<1>1. UNCHANGED <<asking, req, disputed>>
  BY DEF Payout!OpenWindow, Payout!CloseWindow, Payout!Settle, Payout!CancelSale,
         Payout!SwitchCommission, Payout!Tick, Payout!ApplyFine, Payout!WaivePenalty,
         Payout!history
<1>2. Alive' = Alive /\ Admitted' = Admitted /\ Returning' = Returning
  BY <1>1 DEF Alive, Admitted, Returning
<1>3. /\ windowAt' \in Nat \cup {Payout!Closed} /\ clock' \in Nat /\ opened' \in Nat
      /\ Standing' + opened <= Standing + opened'
  <2>1. windowAt \in Nat \cup {Payout!Closed} /\ clock \in Nat /\ opened \in Nat
    BY DEF WindowInv, WindowTyped
  <2>2. CASE Payout!OpenWindow
    BY <2>1, <2>2 DEF Payout!OpenWindow, Standing
  <2>3. CASE Payout!CloseWindow
    BY <2>1, <2>3 DEF Payout!CloseWindow, Payout!history, Standing
  <2>4. CASE ~Payout!OpenWindow /\ ~Payout!CloseWindow
    <3>1. windowAt' = windowAt /\ opened' = opened /\ (clock' = clock \/ clock' = clock + 1)
      BY <2>4 DEF Payout!Settle, Payout!CancelSale, Payout!SwitchCommission, Payout!Tick,
         Payout!ApplyFine, Payout!WaivePenalty, Payout!history
    <3>. QED
      BY <2>1, <3>1 DEF Standing
  <2>. QED
    BY <2>2, <2>3, <2>4
<1>4. WindowTyped'
  BY <1>2, <1>3 DEF WindowInv, WindowTyped
<1>5. Standing' \in {0, 1}
  BY DEF Standing
<1>6. WindowsHeld' + opened <= WindowsHeld + opened'
  BY <1>2, <1>3, <1>5, WindowCounts DEF WindowInv, WindowTyped, WindowsHeld
<1>7. WindowsHeld \in Nat /\ WindowsHeld' \in Nat
  BY <1>2, <1>5, WindowCounts DEF WindowInv, WindowsHeld
<1>8. opened \in Nat /\ (disputed # {} \/ WindowsHeld <= opened)
  BY DEF WindowInv, WindowTyped
<1>9. disputed' # {} \/ WindowsHeld' <= opened'
  <2>1. \A a, b, c, d \in Nat : c + b <= a + d /\ a <= b => c <= d
    OBVIOUS
  <2>2. opened \in Nat /\ opened' \in Nat
    BY <1>3, <1>8
  <2>3. WindowsHeld <= opened => WindowsHeld' <= opened'
    BY <1>6, <1>7, <2>1, <2>2
  <2>. QED
    BY <1>1, <1>8, <2>3
<1>. QED
  BY <1>4, <1>9 DEF WindowInv

LEMMA ClaimHoldsOne ==
  ASSUME PayoutInv, WindowInv, NEW s \in Handlers, Payout!ClaimWindow(s)
  PROVE  WindowInv'
<1>1. /\ asking[s].pc = "claim" /\ UNCHANGED <<clock, opened, req, disputed>>
      /\ asking \in [Handlers -> Payout!Session]
  BY DEF Payout!ClaimWindow, Payout!history, PayoutInv, PayoutTyped
<1>2. CASE ~Payout!Claimed
  <2>1. windowAt' = windowAt /\ asking' = [asking EXCEPT ![s] = Payout!Idle]
    BY <1>2 DEF Payout!ClaimWindow, Payout!Run
  <2>. QED
    BY <1>1, <2>1, HandlerHoldsNoMore DEF Payout!Idle
<1>3. CASE Payout!Claimed
  <2>1. /\ windowAt # Payout!Closed /\ windowAt' = Payout!Closed
        /\ \A t \in Handlers : t # s => asking'[t] = asking[t]
    BY <1>1, <1>3 DEF Payout!ClaimWindow, Payout!Run, Payout!Claimed, Payout!WindowOpen
  <2>2. asking'[s] = [asking[s] EXCEPT !.pc = "create"]
    BY <1>1, <1>3 DEF Payout!ClaimWindow, Payout!Run
  <2>3. asking[s] \in [pc : {"claim", "create"}, amount : 1..MaxAmount, emergency : BOOLEAN]
    BY <1>1 DEF Payout!Session, Payout!Idle
  <2>4. asking'[s].pc = "create"
    BY <2>2, <2>3
  <2>5. Standing = 1 /\ Standing' = 0 /\ Alive' = Alive
    BY <1>1, <2>1 DEF Standing, Alive
  <2>6. Admitted' \subseteq Admitted \cup {s} /\ Returning' \subseteq Returning
    BY <2>1, <2>4 DEF Admitted, Returning
  <2>7. /\ IsFiniteSet(Admitted') /\ Cardinality(Admitted') \in Nat
        /\ Cardinality(Admitted') <= Cardinality(Admitted) + 1
    BY <2>6, OneMoreOrLess DEF WindowInv, WindowTyped
  <2>8. /\ IsFiniteSet(Returning') /\ Cardinality(Returning') \in Nat
        /\ Cardinality(Returning') <= Cardinality(Returning)
    BY <2>6, OneMoreOrLess DEF WindowInv, WindowTyped
  <2>9. WindowTyped'
    BY <1>1, <2>1, <2>5, <2>7, <2>8 DEF WindowInv, WindowTyped
  <2>. QED
    BY <1>1, <2>5, <2>7, <2>8, <2>9, WindowCounts DEF WindowInv, WindowTyped, WindowsHeld
<1>. QED
  BY <1>2, <1>3

LEMMA CreateHoldsOne ==
  ASSUME PayoutInv, WindowInv, NEW s \in Handlers, NEW w \in Withdrawals,
         Payout!CreateRequest(s, w)
  PROVE  WindowInv'
<1> DEFINE row == [status |-> "PENDING", amount |-> asking[s].amount,
                   emergency |-> asking[s].emergency]
<1>1. /\ asking[s].pc = "create" /\ UNCHANGED <<windowAt, clock, opened, disputed>>
      /\ req[w].status = "NONE" /\ row.emergency = asking[s].emergency
      /\ req' = [req EXCEPT ![w] = row]
      /\ asking' = [asking EXCEPT ![s] = Payout!Idle]
      /\ asking \in [Handlers -> Payout!Session]
      /\ req \in [Withdrawals -> [status : Payout!Statuses, amount : Nat, emergency : BOOLEAN]]
  BY DEF Payout!CreateRequest, Payout!history, Payout!Run, PayoutInv, PayoutTyped
<1>. HIDE DEF row
<1>2. /\ \A t \in Handlers : t # s => asking'[t] = asking[t]
      /\ asking'[s].pc = "idle"
  BY <1>1 DEF Payout!Idle
<1>3. CASE ~asking[s].emergency
  <2>1. Alive' = Alive
    <3>1. w \notin Alive /\ w \notin Alive'
      BY <1>1, <1>3 DEF Alive, Payout!Live
    <3>2. \A v \in Withdrawals : v # w => (v \in Alive' <=> v \in Alive)
      BY <1>1 DEF Alive
    <3>3. Alive \subseteq Withdrawals /\ Alive' \subseteq Withdrawals
      BY DEF Alive
    <3>. QED
      BY <3>1, <3>2, <3>3
  <2>2. Admitted' = Admitted /\ Returning' = Returning /\ Standing' = Standing
    BY <1>1, <1>2, <1>3 DEF Admitted, Returning, Standing
  <2>. QED
    BY <1>1, <2>1, <2>2 DEF WindowInv, WindowTyped, WindowsHeld
<1>4. CASE asking[s].emergency
  <2>1. Alive' \subseteq Alive \cup {w}
    BY <1>1 DEF Alive
  <2>2. Admitted' \subseteq Admitted /\ s \in Admitted /\ s \notin Admitted'
    BY <1>1, <1>2, <1>4 DEF Admitted
  <2>3. Returning' \subseteq Returning /\ Standing' = Standing
    BY <1>1, <1>2 DEF Returning, Standing
  <2>4. /\ IsFiniteSet(Alive') /\ Cardinality(Alive') \in Nat
        /\ Cardinality(Alive') <= Cardinality(Alive) + 1
    BY <2>1, OneMoreOrLess DEF WindowInv, WindowTyped
  <2>5. /\ IsFiniteSet(Admitted') /\ Cardinality(Admitted') \in Nat
        /\ Cardinality(Admitted') + 1 <= Cardinality(Admitted)
    BY <2>2, OneMoreOrLess DEF WindowInv, WindowTyped
  <2>6. /\ IsFiniteSet(Returning') /\ Cardinality(Returning') \in Nat
        /\ Cardinality(Returning') <= Cardinality(Returning)
    BY <2>3, OneMoreOrLess DEF WindowInv, WindowTyped
  <2>7. WindowTyped'
    BY <1>1, <2>4, <2>5, <2>6 DEF WindowInv, WindowTyped
  <2>. QED
    BY <1>1, <2>3, <2>4, <2>5, <2>6, <2>7, WindowCounts DEF WindowInv, WindowTyped, WindowsHeld
<1>. QED
  BY <1>3, <1>4

(* A decision finds the request alive unless another crossed it, so what   *)
(* it hands back is what the request held.                                 *)
LEMMA DecisionHoldsOne ==
  ASSUME PayoutInv, WindowInv, NEW s \in Handlers, Payout!WriteDecision(s)
  PROVE  WindowInv'
<1> DEFINE w == asking[s].row
           to == asking[s].to
           r == IF to = "REJECTED" /\ req[w].emergency
                THEN [pc |-> "handback", row |-> w] ELSE Payout!Idle
<1>1. /\ asking[s].pc = "decide" /\ UNCHANGED <<windowAt, clock, opened, disputed>>
      /\ req' = [req EXCEPT ![w].status = to]
      /\ asking' = [asking EXCEPT ![s] = r]
      /\ asking \in [Handlers -> Payout!Session]
      /\ req \in [Withdrawals -> [status : Payout!Statuses, amount : Nat, emergency : BOOLEAN]]
  BY DEF Payout!WriteDecision, Payout!history, Payout!Run, PayoutInv, PayoutTyped
<1>2. w \in Withdrawals /\ to \in {"APPROVED", "REJECTED", "PAID"} /\ Deciding(s, w)
  BY <1>1 DEF Payout!Session, Payout!Idle, Deciding
<1>3. w \notin disputed => req[w].status \in Payout!Live
  BY <1>1, <1>2 DEF PayoutInv, OneDecides, Payout!Decidable, Payout!Live
<1>4. /\ r.pc \in {"idle", "handback"}
      /\ r.pc = "handback" => to = "REJECTED" /\ req[w].emergency
  BY DEF Payout!Idle
<1>. HIDE DEF w, to, r
<1>5. /\ \A t \in Handlers : t # s => asking'[t] = asking[t]
      /\ asking'[s] = r
      /\ \A v \in Withdrawals : v # w => req'[v] = req[v]
      /\ req'[w].status = to /\ req'[w].emergency = req[w].emergency
  BY <1>1, <1>2
<1>6. Admitted' \subseteq Admitted /\ Returning' \subseteq Returning \cup {s} /\ Standing' = Standing
  BY <1>1, <1>4, <1>5 DEF Admitted, Returning, Standing
<1>7. Alive' \subseteq Alive \cup {w}
  BY <1>5 DEF Alive
<1>8. IsFiniteSet(Alive') /\ Cardinality(Alive') \in Nat
  BY <1>7, OneMoreOrLess DEF WindowInv, WindowTyped
<1>9. /\ IsFiniteSet(Admitted') /\ Cardinality(Admitted') \in Nat
      /\ Cardinality(Admitted') <= Cardinality(Admitted)
  BY <1>6, OneMoreOrLess DEF WindowInv, WindowTyped
<1>10. /\ IsFiniteSet(Returning') /\ Cardinality(Returning') \in Nat
       /\ Cardinality(Returning') <= Cardinality(Returning) + 1
       /\ Returning' \subseteq Returning => Cardinality(Returning') <= Cardinality(Returning)
  BY <1>6, OneMoreOrLess DEF WindowInv, WindowTyped
<1>11. WindowTyped'
  BY <1>1, <1>8, <1>9, <1>10 DEF WindowInv, WindowTyped
<1>12. ASSUME disputed = {} PROVE WindowsHeld' <= WindowsHeld
  <2>1. req[w].status \in Payout!Live
    BY <1>3, <1>12
  <2>2. Alive' \subseteq Alive
    BY <1>5, <1>2, <2>1 DEF Alive
  <2>3. Cardinality(Alive') <= Cardinality(Alive)
    BY <2>2, OneMoreOrLess DEF WindowInv, WindowTyped
  <2>4. CASE r.pc = "idle"
    <3>1. Returning' \subseteq Returning
      BY <1>5, <2>4 DEF Returning
    <3>. QED
      BY <1>6, <1>8, <1>9, <1>10, <2>3, <3>1, WindowCounts DEF WindowInv, WindowsHeld
  <2>5. CASE r.pc = "handback"
    <3>1. w \in Alive /\ w \notin Alive'
      BY <1>2, <1>4, <1>5, <2>1, <2>5 DEF Alive, Payout!Live
    <3>2. Cardinality(Alive') + 1 <= Cardinality(Alive)
      BY <2>2, <3>1, OneMoreOrLess DEF WindowInv, WindowTyped
    <3>. QED
      BY <1>6, <1>8, <1>9, <1>10, <3>2, WindowCounts DEF WindowInv, WindowsHeld
  <2>. QED
    BY <1>4, <2>4, <2>5
<1>13. WindowsHeld \in Nat /\ WindowsHeld' \in Nat /\ opened \in Nat
  BY <1>6, <1>8, <1>9, <1>10, WindowCounts DEF WindowInv, WindowTyped, WindowsHeld
<1>. QED
  BY <1>1, <1>11, <1>12, <1>13 DEF WindowInv

LEMMA HandBackHoldsOne ==
  ASSUME PayoutInv, WindowInv, NEW s \in Handlers, Payout!HandBack(s)
  PROVE  WindowInv'
<1>1. /\ asking[s].pc = "handback" /\ UNCHANGED <<clock, opened, req, disputed>>
      /\ windowAt' = clock /\ asking' = [asking EXCEPT ![s] = Payout!Idle]
      /\ asking \in [Handlers -> Payout!Session]
  BY DEF Payout!HandBack, Payout!history, Payout!Run, PayoutInv, PayoutTyped
<1>2. /\ \A t \in Handlers : t # s => asking'[t] = asking[t]
      /\ asking'[s].pc = "idle"
  BY <1>1 DEF Payout!Idle
<1>3. Alive' = Alive /\ Standing' \in {0, 1}
  BY <1>1 DEF Alive, Standing
<1>4. Admitted' \subseteq Admitted
  BY <1>2 DEF Admitted
<1>5. Returning' \subseteq Returning /\ s \in Returning /\ s \notin Returning'
  BY <1>1, <1>2 DEF Returning
<1>6. /\ IsFiniteSet(Admitted') /\ Cardinality(Admitted') \in Nat
      /\ Cardinality(Admitted') <= Cardinality(Admitted)
  BY <1>4, OneMoreOrLess DEF WindowInv, WindowTyped
<1>7. /\ IsFiniteSet(Returning') /\ Cardinality(Returning') \in Nat
      /\ Cardinality(Returning') + 1 <= Cardinality(Returning)
  BY <1>5, OneMoreOrLess DEF WindowInv, WindowTyped
<1>8. WindowTyped'
  BY <1>1, <1>3, <1>6, <1>7 DEF WindowInv, WindowTyped
<1>. QED
  BY <1>1, <1>3, <1>6, <1>7, <1>8, WindowCounts DEF WindowInv, WindowTyped, WindowsHeld

LEMMA WindowNext == PayoutInv /\ WindowInv /\ [Payout!Next]_Payout!vars => WindowInv'
<1>. SUFFICES ASSUME PayoutInv, WindowInv, [Payout!Next]_Payout!vars PROVE WindowInv'
  OBVIOUS
<1>1. CASE UNCHANGED Payout!vars
  BY <1>1 DEF Payout!vars, WindowInv, WindowTyped, WindowsHeld, Standing, Alive, Admitted,
     Returning
<1>2. ASSUME NEW s \in Handlers, Payout!Handler(s) PROVE WindowInv'
  <2>1. asking \in [Handlers -> Payout!Session]
    BY DEF PayoutInv, PayoutTyped
  <2>2. ASSUME NEW a \in 1..MaxAmount, Payout!StartRequest(s, a) PROVE WindowInv'
    <3>1. /\ UNCHANGED <<windowAt, clock, opened, req, disputed>>
          /\ \/ asking' = [asking EXCEPT ![s] = [pc |-> "create", amount |-> a, emergency |-> FALSE]]
             \/ asking' = [asking EXCEPT ![s] = [pc |-> "claim", amount |-> a, emergency |-> TRUE]]
      BY <2>2 DEF Payout!StartRequest, Payout!Run
    <3>2. /\ \A t \in Handlers : t # s => asking'[t] = asking[t]
          /\ asking'[s].pc # "handback"
          /\ asking'[s].pc = "create" => ~asking'[s].emergency
      BY <2>1, <3>1
    <3>. QED
      BY <3>1, <3>2, HandlerHoldsNoMore
  <2>3. ASSUME NEW w \in Withdrawals, NEW to \in {"APPROVED", "REJECTED", "PAID"},
               Payout!StartDecision(s, w, to)
        PROVE  WindowInv'
    <3>1. /\ UNCHANGED <<windowAt, clock, opened, req>> /\ disputed \subseteq disputed'
          /\ asking' = [asking EXCEPT ![s] = [pc |-> "decide", row |-> w, to |-> to]]
      BY <2>3 DEF Payout!StartDecision, Payout!Run
    <3>2. /\ \A t \in Handlers : t # s => asking'[t] = asking[t]
          /\ asking'[s].pc = "decide"
      BY <2>1, <3>1
    <3>. QED
      BY <3>1, <3>2, HandlerHoldsNoMore
  <2>4. ASSUME NEW d \in Payout!Correction, Payout!StartAdjust(s, d) PROVE WindowInv'
    <3>1. /\ UNCHANGED <<windowAt, clock, opened, req, disputed>>
          /\ asking' = [asking EXCEPT ![s] = [pc |-> "adjust", next |-> adjustment + d]]
      BY <2>4 DEF Payout!StartAdjust, Payout!Run
    <3>2. /\ \A t \in Handlers : t # s => asking'[t] = asking[t]
          /\ asking'[s].pc = "adjust"
      BY <2>1, <3>1
    <3>. QED
      BY <3>1, <3>2, HandlerHoldsNoMore
  <2>5. CASE Payout!WriteAdjust(s) \/ Payout!Crash(s)
    <3>1. /\ UNCHANGED <<windowAt, clock, opened, req, disputed>>
          /\ asking' = [asking EXCEPT ![s] = Payout!Idle]
      BY <2>5 DEF Payout!WriteAdjust, Payout!Crash, Payout!Run, Payout!history
    <3>2. /\ \A t \in Handlers : t # s => asking'[t] = asking[t]
          /\ asking'[s].pc = "idle"
      BY <2>1, <3>1 DEF Payout!Idle
    <3>. QED
      BY <3>1, <3>2, HandlerHoldsNoMore
  <2>. QED
    BY <1>2, <2>2, <2>3, <2>4, <2>5, ClaimHoldsOne, CreateHoldsOne, DecisionHoldsOne,
       HandBackHoldsOne DEF Payout!Handler
<1>. QED
  BY <1>1, <1>2, WindowStepOfOthers DEF Payout!Next

LEMMA WindowInit == Payout!Init => WindowInv
<1>. SUFFICES ASSUME Payout!Init PROVE WindowInv
  OBVIOUS
<1>1. Alive = {} /\ Admitted = {} /\ Returning = {} /\ Standing = 0
  BY DEF Payout!Init, Payout!Idle, Payout!Live, Alive, Admitted, Returning, Standing
<1>2. windowAt = Payout!Closed /\ clock = 0 /\ opened = 0
  BY DEF Payout!Init
<1>. QED
  BY <1>1, <1>2, FS_EmptySet DEF WindowInv, WindowTyped, WindowsHeld

LEMMA WindowsServeOnce == PayoutInv /\ WindowInv => Payout!OneRequestPerWindow
<1>. SUFFICES ASSUME PayoutInv, WindowInv, disputed = {}
              PROVE  Payout!Cardinality(Payout!Emergencies) <= opened
  BY DEF Payout!OneRequestPerWindow
<1>1. Payout!Cardinality(Payout!Emergencies) = Cardinality(Alive)
  BY DEF Payout!Cardinality, Cardinality, Payout!Emergencies, Alive
<1>. QED
  BY <1>1, WindowCounts DEF WindowInv, WindowTyped, WindowsHeld

-----------------------------------------------------------------------------
(* The rates.  What a box earns hangs on the rows that had started, and,   *)
(* while no two brands read the same, on those of its brand.               *)
Row == [brand : Brands \cup {Others}, perBox : 1..MaxRate, from : 0..MaxDay]
RateEdit ==
  {Rate!Idle} \cup [pc : {"create", "delete"}, row : Row, began : 0..MaxDay]
Edits(s) == editing[s] # Rate!Idle
Beginning(r) == r.brand = Others /\ r.from = 0

RateTyped ==
  /\ rates \subseteq Row /\ IsFiniteSet(rates)
  /\ \E r \in rates : Beginning(r)
  /\ key \in [Brands -> Names] /\ brandOf \in [Soap -> Brands]
  /\ day \in 0..MaxDay
  /\ editing \in [Admins -> RateEdit]
(* A rate waits to be written for a start that lay ahead when it was let in. *)
LaterThanBegun == \A s \in Admins : Edits(s) => editing[s].row.from > editing[s].began
RateBase == RateTyped /\ LaterThanBegun

Named(r) == [key |-> IF r.brand = Others THEN Others ELSE key[r.brand],
             perBox |-> r.perBox, from |-> r.from]
Latest(S) == {r.perBox : r \in {q \in S : \A u \in S : u.from <= q.from}}
Started(rows, t) == {r \in rows : r.from <= t}
OfKey(rows, k) == {r \in rows : r.key = k}
OfBrand(rows, b) == {r \in rows : r.brand = b}
OwnElse(own, fallback) == IF own # {} THEN own ELSE fallback

LEMMA PickIsLatest ==
  ASSUME NEW rows, NEW k, NEW t
  PROVE  Rate!Pick(rows, k, t)
           = Latest(OwnElse(OfKey(Started(rows, t), k), OfKey(Started(rows, t), Others)))
BY DEF Rate!Pick, Latest, OwnElse, OfKey, Started

LEMMA PickOfStarted ==
  ASSUME NEW R, NEW S, NEW k, NEW t, Started(R, t) = Started(S, t)
  PROVE  Rate!Pick(R, k, t) = Rate!Pick(S, k, t)
BY PickIsLatest

LEMMA LatestOfAlike ==
  ASSUME NEW S, NEW T,
         \A r \in S : \E q \in T : q.from = r.from /\ q.perBox = r.perBox,
         \A q \in T : \E r \in S : q.from = r.from /\ q.perBox = r.perBox
  PROVE  Latest(S) = Latest(T)
<1>1. Latest(S) \subseteq Latest(T)
  <2>. SUFFICES ASSUME NEW r \in S, \A u \in S : u.from <= r.from
                PROVE  r.perBox \in Latest(T)
    BY DEF Latest
  <2>1. PICK q \in T : q.from = r.from /\ q.perBox = r.perBox
    OBVIOUS
  <2>2. \A u \in T : u.from <= q.from
    BY <2>1
  <2>. QED
    BY <2>1, <2>2 DEF Latest
<1>2. Latest(T) \subseteq Latest(S)
  <2>. SUFFICES ASSUME NEW q \in T, \A u \in T : u.from <= q.from
                PROVE  q.perBox \in Latest(S)
    BY DEF Latest
  <2>1. PICK r \in S : q.from = r.from /\ q.perBox = r.perBox
    OBVIOUS
  <2>2. \A u \in S : u.from <= r.from
    BY <2>1
  <2>. QED
    BY <2>1, <2>2 DEF Latest
<1>. QED
  BY <1>1, <1>2

LEMMA TableIsNamed == Rate!Table = {Named(r) : r \in rates}
BY DEF Rate!Table, Rate!TableOf, Named

(* Without two brands that read the same, the rows of a brand's name are   *)
(* the rows of the brand.                                                  *)
LEMMA KeyIsBrand ==
  ASSUME RateTyped, ~Rate!Collision, NEW b \in Brands \cup {Others}, NEW t
  PROVE  OfKey(Started(Rate!Table, t), IF b = Others THEN Others ELSE key[b])
           = {Named(r) : r \in OfBrand(Started(rates, t), b)}
<1> DEFINE k == IF b = Others THEN Others ELSE key[b]
<1>1. \A r \in rates : r.brand \in Brands \cup {Others} /\ Named(r).from = r.from
  BY DEF RateTyped, Row, Named
<1>2. \A r \in rates : Named(r).key = k <=> r.brand = b
  <2>1. \A c \in Brands : key[c] \in Names /\ c # Others /\ key[c] # Others
    BY RepAssumption DEF RateTyped
  <2>2. \A c, d \in Brands : key[c] = key[d] => c = d
    BY DEF Rate!Collision
  <2>. QED
    BY <1>1, <2>1, <2>2 DEF Named
<1>. HIDE DEF k
<1>3. OfKey(Started(Rate!Table, t), k) = {Named(r) : r \in OfBrand(Started(rates, t), b)}
  BY <1>1, <1>2, TableIsNamed DEF OfKey, OfBrand, Started
<1>. QED
  BY <1>3 DEF k

LEMMA LatestOfNamed ==
  ASSUME NEW S PROVE Latest({Named(r) : r \in S}) = Latest(S)
<1>1. \A r \in S : Named(r).from = r.from /\ Named(r).perBox = r.perBox
  BY DEF Named
<1>. QED
  BY <1>1, LatestOfAlike

BrandRate(b, t) ==
  Latest(OwnElse(OfBrand(Started(rates, t), b), OfBrand(Started(rates, t), Others)))

LEMMA BoxRateIsBrandRate ==
  ASSUME RateTyped, ~Rate!Collision, NEW p \in Soap, NEW t
  PROVE  Rate!BoxRate(p, t) = BrandRate(brandOf[p], t)
<1> DEFINE b == brandOf[p]
           S == OfBrand(Started(rates, t), b)
           F == OfBrand(Started(rates, t), Others)
<1>1. b \in Brands /\ b # Others
  BY RepAssumption DEF RateTyped
<1>2. OfKey(Started(Rate!Table, t), key[b]) = {Named(r) : r \in S}
  BY <1>1, KeyIsBrand
<1>3. OfKey(Started(Rate!Table, t), Others) = {Named(r) : r \in F}
  BY KeyIsBrand
<1>4. Rate!BoxRate(p, t) = Latest(OwnElse({Named(r) : r \in S}, {Named(r) : r \in F}))
  BY <1>2, <1>3, PickIsLatest DEF Rate!BoxRate
<1>5. OwnElse({Named(r) : r \in S}, {Named(r) : r \in F}) = {Named(r) : r \in OwnElse(S, F)}
  BY DEF OwnElse
<1>6. Latest({Named(r) : r \in OwnElse(S, F)}) = Latest(OwnElse(S, F))
  BY LatestOfNamed
<1>. QED
  BY <1>4, <1>5, <1>6 DEF BrandRate

RatedByBrand ==
  \A p \in Soap, t \in Int : Rate!BoxRate(p, t) = BrandRate(brandOf[p], t)
LEMMA RatesByBrand == RateTyped /\ ~Rate!Collision => RatedByBrand
BY BoxRateIsBrandRate DEF RatedByBrand

-----------------------------------------------------------------------------
LEMMA RateInit == Rate!Init => RateBase
<1>. SUFFICES ASSUME Rate!Init PROVE RateBase
  OBVIOUS
<1>1. rates = {[brand |-> Others, perBox |-> 1, from |-> 0]} /\ day = 0
  BY DEF Rate!Init
<1>2. editing = [s \in Admins |-> Rate!Idle]
  BY DEF Rate!Init
<1>3. key \in [Brands -> Names] /\ brandOf \in [Soap -> Brands]
  BY DEF Rate!Init
<1>4. MaxDay \in Nat /\ MaxRate \in Nat \ {0}
  BY RepAssumption
<1>5. rates \subseteq Row /\ IsFiniteSet(rates) /\ \E r \in rates : Beginning(r)
  <2> DEFINE r == [brand |-> Others, perBox |-> 1, from |-> 0]
  <2>1. r \in Row /\ Beginning(r)
    BY <1>4 DEF Row, Beginning
  <2>. HIDE DEF r
  <2>2. rates = {r}
    BY <1>1 DEF r
  <2>. QED
    BY <2>1, <2>2, FS_Singleton
<1>6. day \in 0..MaxDay
  BY <1>1, <1>4
<1>7. editing \in [Admins -> RateEdit] /\ LaterThanBegun
  BY <1>2 DEF RateEdit, LaterThanBegun, Edits
<1>. QED
  BY <1>3, <1>5, <1>6, <1>7 DEF RateBase, RateTyped

(* What a write does to the rows. *)
LEMMA WrittenRow ==
  ASSUME RateBase, NEW s \in Admins, NEW v, Rate!WriteRate(s, v)
  PROVE  /\ Edits(s) /\ editing[s].row \in Row /\ editing[s].row.from > editing[s].began
         /\ editing[s].began \in Nat /\ editing[s].row.from \in Nat
         /\ rates' \subseteq rates \cup {editing[s].row}
         /\ rates \subseteq rates' \cup {editing[s].row}
         /\ UNCHANGED <<key, brandOf, day>>
         /\ editing' = [editing EXCEPT ![s] = Rate!Idle]
<1>1. Edits(s) /\ UNCHANGED <<key, brandOf, day>> /\ editing' = [editing EXCEPT ![s] = Rate!Idle]
  BY DEF Rate!WriteRate, Rate!Run, Edits
<1>2. editing[s] \in [pc : {"create", "delete"}, row : Row, began : 0..MaxDay]
  BY <1>1 DEF RateBase, RateTyped, RateEdit, Edits
<1>3. editing[s].row \in Row /\ editing[s].began \in 0..MaxDay
  BY <1>2
<1>4. editing[s].row.from \in 0..MaxDay
  BY <1>3 DEF Row
<1>5. \/ rates' = rates \ {editing[s].row} \/ rates' = rates \/ rates' = rates \cup {editing[s].row}
  BY DEF Rate!WriteRate
<1>6. editing[s].row.from > editing[s].began
  BY <1>1 DEF RateBase, LaterThanBegun
<1>7. editing[s].began \in Nat /\ editing[s].row.from \in Nat
  BY <1>3, <1>4
<1>. QED
  BY <1>1, <1>3, <1>5, <1>6, <1>7

LEMMA RateNext == RateBase /\ [Rate!Next]_Rate!vars => RateBase'
<1>. SUFFICES ASSUME RateBase, [Rate!Next]_Rate!vars PROVE RateBase'
  OBVIOUS
<1>. USE DEF RateBase
<1>1. CASE UNCHANGED Rate!vars
  BY <1>1 DEF Rate!vars, RateTyped, LaterThanBegun, Edits, Beginning
<1>2. ASSUME NEW s \in Admins, NEW state \in RateEdit,
             editing' = [editing EXCEPT ![s] = state], UNCHANGED <<rates, key, brandOf, day>>,
             state # Rate!Idle => state.row.from > state.began
      PROVE  RateBase'
  BY <1>2 DEF RateTyped, LaterThanBegun, Edits, Beginning
<1>3. ASSUME NEW s \in Admins, NEW b \in Brands \cup {Others}, NEW n \in 1..MaxRate,
             NEW from \in 0..MaxDay, Rate!StartCreate(s, b, n, from)
      PROVE  RateBase'
  <2> DEFINE state == [pc |-> "create", row |-> [brand |-> b, perBox |-> n, from |-> from],
                       began |-> day]
  <2>1. /\ editing' = [editing EXCEPT ![s] = state] /\ UNCHANGED <<rates, key, brandOf, day>>
        /\ from > day
    BY <1>3 DEF Rate!StartCreate, Rate!Run, Rate!Ahead
  <2>2. state \in RateEdit /\ state.row.from > state.began
    BY <2>1 DEF RateEdit, Row, RateTyped
  <2>. HIDE DEF state
  <2>. QED
    BY <1>2, <2>1, <2>2
<1>4. ASSUME NEW s \in Admins, NEW r \in rates, Rate!StartDelete(s, r) PROVE RateBase'
  <2> DEFINE state == [pc |-> "delete", row |-> r, began |-> day]
  <2>1. /\ editing' = [editing EXCEPT ![s] = state] /\ UNCHANGED <<rates, key, brandOf, day>>
        /\ r.from > day
    BY <1>4 DEF Rate!StartDelete, Rate!Run, Rate!Ahead
  <2>2. state \in RateEdit /\ state.row.from > state.began
    BY <2>1 DEF RateEdit, RateTyped
  <2>. HIDE DEF state
  <2>. QED
    BY <1>2, <2>1, <2>2
<1>5. ASSUME NEW s \in Admins, NEW v, Rate!WriteRate(s, v) PROVE RateBase'
  <2> DEFINE row == editing[s].row
  <2>1. /\ row \in Row /\ row.from > editing[s].began /\ editing[s].began \in Nat
        /\ row.from \in Nat
        /\ rates' \subseteq rates \cup {row} /\ rates \subseteq rates' \cup {row}
        /\ UNCHANGED <<key, brandOf, day>>
        /\ editing' = [editing EXCEPT ![s] = Rate!Idle]
    BY <1>5, WrittenRow
  <2>. HIDE DEF row
  <2>2. rates' \subseteq Row /\ IsFiniteSet(rates')
    <3>1. IsFiniteSet(rates \cup {row})
      BY FS_AddElement DEF RateTyped
    <3>. QED
      BY <2>1, <3>1, FS_Subset DEF RateTyped
  <2>3. \E r \in rates' : Beginning(r)
    <3>1. PICK r \in rates : Beginning(r)
      BY DEF RateTyped
    <3>2. r # row
      BY <2>1, <3>1 DEF Beginning
    <3>. QED
      BY <2>1, <3>1, <3>2
  <2>4. editing' \in [Admins -> RateEdit]
    BY <2>1 DEF RateTyped, RateEdit
  <2>5. LaterThanBegun'
    BY <2>1 DEF RateTyped, LaterThanBegun, Edits
  <2>6. RateTyped'
    BY <2>1, <2>2, <2>3, <2>4 DEF RateTyped, Beginning
  <2>. QED
    BY <2>5, <2>6
<1>6. ASSUME NEW b \in Brands, NEW k \in Names, Rate!RenameBrand(b, k) PROVE RateBase'
  BY <1>6 DEF Rate!RenameBrand, RateTyped, LaterThanBegun, Edits, Beginning
<1>7. ASSUME NEW p \in Soap, NEW b \in Brands, Rate!MoveProduct(p, b) PROVE RateBase'
  BY <1>7 DEF Rate!MoveProduct, RateTyped, LaterThanBegun, Edits, Beginning
<1>8. CASE Rate!Tick
  <2>1. day' \in 0..MaxDay
    BY <1>8, RepAssumption DEF Rate!Tick, RateTyped
  <2>2. UNCHANGED <<rates, key, brandOf, editing>>
    BY <1>8 DEF Rate!Tick
  <2>. QED
    BY <2>1, <2>2 DEF RateTyped, LaterThanBegun, Edits, Beginning
<1>9. ASSUME NEW v \in Processes, Rate!ReadRates(v) \/ Rate!Restart(v) PROVE RateBase'
  BY <1>9 DEF Rate!ReadRates, Rate!Restart, RateTyped, LaterThanBegun, Edits, Beginning
<1>. QED
  BY <1>1, <1>3, <1>4, <1>5, <1>6, <1>7, <1>8, <1>9 DEF Rate!Next

-----------------------------------------------------------------------------
LEMMA PricesStand == RateBase /\ RateBase' /\ [Rate!Next]_Rate!vars => Rate!PriceStands
<1>. SUFFICES ASSUME RateBase, RateBase', [Rate!Next]_Rate!vars, NEW p \in Soap, NEW t \in 0..day,
                     ~Rate!Collision, ~Rate!Collision', brandOf'[p] = brandOf[p],
                     \A s \in Admins : Rate!OverTaken(s) => editing'[s] # Rate!Idle
              PROVE  Rate!BoxRate(p, t)' = Rate!BoxRate(p, t)
  BY DEF Rate!PriceStands
<1>. USE DEF RateBase
<1>1. Rate!BoxRate(p, t) = BrandRate(brandOf[p], t)
  BY BoxRateIsBrandRate
<1>2. Rate!BoxRate(p, t)' = BrandRate(brandOf[p], t)'
  <2>1. RatedByBrand'
    BY RatesByBrand, PTL
  <2>. QED
    BY <2>1 DEF RatedByBrand
<1>3. Started(rates', t) = Started(rates, t)
  <2>1. CASE rates' = rates
    BY <2>1
  <2>2. ASSUME NEW s \in Admins, NEW v, Rate!WriteRate(s, v)
        PROVE  Started(rates', t) = Started(rates, t)
    <3>1. /\ Edits(s) /\ editing[s].row.from > editing[s].began
          /\ editing[s].began \in Nat /\ editing[s].row.from \in Nat
          /\ rates' \subseteq rates \cup {editing[s].row}
          /\ rates \subseteq rates' \cup {editing[s].row}
          /\ editing' = [editing EXCEPT ![s] = Rate!Idle]
      BY <2>2, WrittenRow
    <3>2. editing'[s] = Rate!Idle
      BY <3>1 DEF RateTyped
    <3>3. ~Rate!OverTaken(s)
      BY <3>2
    <3>4. editing[s].row.from > day /\ day \in Nat /\ t \in Nat /\ t <= day
      BY <3>1, <3>3 DEF Rate!OverTaken, Edits, RateTyped
    <3>5. ~(editing[s].row.from <= t)
      BY <3>1, <3>4
    <3>. QED
      BY <3>1, <3>5 DEF Started
  <2>. QED
    BY <2>1, <2>2 DEF Rate!Next, Rate!vars, Rate!StartCreate, Rate!StartDelete, Rate!ReadRates,
       Rate!Restart, Rate!RenameBrand, Rate!MoveProduct, Rate!Tick
<1>. QED
  BY <1>1, <1>2, <1>3 DEF BrandRate

-----------------------------------------------------------------------------
(* A copy a process keeps prices every box as the rows do, but for the     *)
(* boxes of orders made after the start of something written since.        *)
TableRow == [key : Names \cup {Others}, perBox : 1..MaxRate, from : 0..MaxDay]
Copies == {Rate!Cold} \cup [rows : SUBSET TableRow, at : 0..MaxDay]
Writes == [at : 0..MaxDay, from : 0..MaxDay]
Priced(v, p, t) == Rate!Pick(cache[v].rows, key[brandOf[p]], t) = Rate!BoxRate(p, t)
Outdated(v, t) == \E w \in written : w.from <= t /\ cache[v].at <= w.at
Kept(v) == cache[v] # Rate!Cold
CopyTyped ==
  /\ cache \in [Processes -> Copies] /\ written \subseteq Writes
  /\ \A v \in Processes : Kept(v) => cache[v].at <= day
CopiesHold ==
  \A v \in Processes, p \in Soap, t \in 0..MaxDay :
    Kept(v) => Priced(v, p, t) \/ Outdated(v, t)
CopyInv == CopyTyped /\ CopiesHold

LEMMA KeptCopy ==
  ASSUME CopyTyped, NEW v \in Processes, Kept(v)
  PROVE  cache[v] \in [rows : SUBSET TableRow, at : 0..MaxDay]
BY DEF CopyTyped, Copies, Kept

LEMMA TableIsTyped == ASSUME RateTyped PROVE Rate!Table \subseteq TableRow
<1>1. ASSUME NEW r \in rates PROVE Named(r) \in TableRow
  <2>1. r \in Row
    BY DEF RateTyped
  <2>2. r.brand \in Brands => key[r.brand] \in Names
    BY DEF RateTyped
  <2>. QED
    BY <2>1, <2>2 DEF Named, TableRow, Row
<1>. QED
  BY <1>1, TableIsNamed

(* Nothing new is kept: what was true of a copy stays so. *)
LEMMA CopiesStand ==
  ASSUME CopyInv, CopyTyped',
         \A v \in Processes : Kept(v)' => cache'[v] = cache[v],
         written \subseteq written',
         \A p \in Soap, t \in 0..MaxDay :
            \/ /\ Rate!BoxRate(p, t)' = Rate!BoxRate(p, t)
               /\ key'[brandOf'[p]] = key[brandOf[p]]
            \/ \E w \in written' : w.from <= t /\ w.at = day
  PROVE  CopyInv'
<1>. SUFFICES ASSUME NEW v \in Processes, NEW p \in Soap, NEW t \in 0..MaxDay, Kept(v)'
              PROVE  Priced(v, p, t)' \/ Outdated(v, t)'
  BY DEF CopyInv, CopiesHold
<1>1. cache'[v] = cache[v] /\ Kept(v) /\ cache[v].at <= day
  BY DEF CopyInv, CopyTyped, Kept
<1>2. CASE \E w \in written' : w.from <= t /\ w.at = day
  BY <1>1, <1>2 DEF Outdated
<1>3. CASE Rate!BoxRate(p, t)' = Rate!BoxRate(p, t) /\ key'[brandOf'[p]] = key[brandOf[p]]
  <2>1. Priced(v, p, t) \/ Outdated(v, t)
    BY <1>1 DEF CopyInv, CopiesHold
  <2>2. Outdated(v, t) => Outdated(v, t)'
    BY <1>1 DEF Outdated
  <2>3. Priced(v, p, t) => Priced(v, p, t)'
    BY <1>1, <1>3 DEF Priced
  <2>. QED
    BY <2>1, <2>2, <2>3
<1>. QED
  BY <1>2, <1>3

LEMMA CopyInit == Rate!Init => CopyInv
<1>. SUFFICES ASSUME Rate!Init PROVE CopyInv
  OBVIOUS
<1>1. cache = [v \in Processes |-> Rate!Cold] /\ written = {}
  BY DEF Rate!Init
<1>. HIDE DEF Rate!Cold
<1>. QED
  BY <1>1 DEF CopyInv, CopyTyped, CopiesHold, Kept, Copies

LEMMA RatesUnchanged ==
  ASSUME UNCHANGED <<rates, key, brandOf>>
  PROVE  \A p \in Soap, t \in 0..MaxDay :
            /\ Rate!BoxRate(p, t)' = Rate!BoxRate(p, t)
            /\ key'[brandOf'[p]] = key[brandOf[p]]
BY DEF Rate!BoxRate, Rate!Table, Rate!TableOf

LEMMA CopyReads ==
  ASSUME RateBase, CopyInv, NEW v \in Processes, Rate!ReadRates(v) PROVE CopyInv'
<1> DEFINE copy == [rows |-> Rate!Table, at |-> day]
<1>1. /\ cache' = [cache EXCEPT ![v] = copy]
      /\ UNCHANGED <<rates, key, brandOf, day, written>>
  BY DEF Rate!ReadRates
<1>2. copy \in Copies /\ copy.at = day /\ copy.rows = Rate!Table /\ day \in Int
  BY TableIsTyped DEF RateBase, RateTyped, Copies
<1>. HIDE DEF copy
<1>3. cache'[v] = copy /\ \A u \in Processes : u # v => cache'[u] = cache[u]
  BY <1>1 DEF CopyInv, CopyTyped
<1>4. CopyTyped'
  BY <1>1, <1>2, <1>3 DEF CopyInv, CopyTyped, Kept
<1>. SUFFICES ASSUME NEW u \in Processes, NEW p \in Soap, NEW t \in 0..MaxDay, Kept(u)'
              PROVE  Priced(u, p, t)' \/ Outdated(u, t)'
  BY <1>4 DEF CopyInv, CopiesHold
<1>5. Rate!BoxRate(p, t)' = Rate!BoxRate(p, t) /\ key'[brandOf'[p]] = key[brandOf[p]]
  BY <1>1, RatesUnchanged
<1>6. CASE u = v
  BY <1>2, <1>3, <1>5, <1>6 DEF Priced, Rate!BoxRate
<1>7. CASE u # v
  <2>1. Priced(u, p, t) \/ Outdated(u, t)
    BY <1>3, <1>7 DEF CopyInv, CopiesHold, Kept
  <2>2. Priced(u, p, t) => Priced(u, p, t)'
    BY <1>3, <1>5, <1>7 DEF Priced
  <2>3. Outdated(u, t) => Outdated(u, t)'
    BY <1>1, <1>3, <1>7 DEF Outdated
  <2>. QED
    BY <2>1, <2>2, <2>3
<1>. QED
  BY <1>6, <1>7

LEMMA CopyWrites ==
  ASSUME RateBase, RateBase', CopyInv, NEW s \in Admins, NEW v, Rate!WriteRate(s, v)
  PROVE  CopyInv'
<1> DEFINE row == editing[s].row
<1>1. /\ row \in Row /\ row.from \in Nat
      /\ rates' \subseteq rates \cup {row} /\ rates \subseteq rates' \cup {row}
      /\ UNCHANGED <<key, brandOf, day>>
  BY WrittenRow
<1>2. /\ written' = written \cup {[at |-> day, from |-> row.from]}
      /\ \/ cache' = cache \/ cache' = [cache EXCEPT ![v] = Rate!Cold]
  BY DEF Rate!WriteRate, Rate!Log
<1>. HIDE DEF row
<1>3. [at |-> day, from |-> row.from] \in Writes
  BY <1>1 DEF RateBase, RateTyped, Row, Writes
<1>4. /\ cache' \in [Processes -> Copies]
      /\ \A u \in Processes : cache'[u] = cache[u] \/ cache'[u] = Rate!Cold
  <2>. HIDE DEF Rate!Cold
  <2>. QED
    BY <1>2 DEF CopyInv, CopyTyped, Copies
<1>5. \A u \in Processes : Kept(u)' => cache'[u] = cache[u]
  BY <1>4 DEF Kept
<1>6. CopyTyped'
  BY <1>1, <1>2, <1>3, <1>4, <1>5 DEF CopyInv, CopyTyped, Kept
<1>7. ASSUME NEW p \in Soap, NEW t \in 0..MaxDay
      PROVE  \/ /\ Rate!BoxRate(p, t)' = Rate!BoxRate(p, t)
                /\ key'[brandOf'[p]] = key[brandOf[p]]
             \/ \E w \in written' : w.from <= t /\ w.at = day
  <2>1. CASE row.from <= t
    <3> DEFINE w == [at |-> day, from |-> row.from]
    <3>1. w \in written' /\ w.from = row.from /\ w.at = day
      BY <1>2
    <3>. HIDE DEF w
    <3>. QED
      BY <2>1, <3>1
  <2>2. CASE ~(row.from <= t)
    <3>1. Rate!Table' = {Named(r) : r \in rates'}
      <4>1. \A r : Named(r)' = Named(r)
        BY <1>1 DEF Named
      <4>2. Rate!Table' = {Named(r)' : r \in rates'}
        BY TableIsNamed DEF Rate!Table, Rate!TableOf, Named
      <4>. QED
        BY <4>1, <4>2 DEF Named
    <3>2. Named(row).from = row.from
      BY DEF Named
    <3>3. Started(Rate!Table', t) = Started(Rate!Table, t)
      BY <1>1, <2>2, <3>1, <3>2, TableIsNamed DEF Started
    <3>4. Rate!Pick(Rate!Table', key[brandOf[p]], t) = Rate!Pick(Rate!Table, key[brandOf[p]], t)
      BY <3>3, PickOfStarted
    <3>5. Rate!BoxRate(p, t)' = Rate!Pick(Rate!Table', key[brandOf[p]], t)
      BY <1>1 DEF Rate!BoxRate
    <3>. QED
      BY <1>1, <3>4, <3>5 DEF Rate!BoxRate
  <2>. QED
    BY <2>1, <2>2
<1>8. written \subseteq written'
  BY <1>2
<1>. QED
  BY <1>5, <1>6, <1>7, <1>8, CopiesStand

LEMMA CopyRelabels ==
  ASSUME RateBase, CopyInv, UNCHANGED <<cache, day>>,
         written' = written \cup {[at |-> day, from |-> 0]}
  PROVE  CopyInv'
<1> DEFINE w == [at |-> day, from |-> 0]
<1>1. w \in Writes /\ w.at = day /\ w.from = 0 /\ w \in written'
  BY RepAssumption DEF RateBase, RateTyped, Writes
<1>2. written' \subseteq Writes /\ written \subseteq written'
  BY <1>1 DEF CopyInv, CopyTyped
<1>3. CopyTyped'
  BY <1>2 DEF CopyInv, CopyTyped, Kept
<1>. HIDE DEF w
<1>4. \A t \in 0..MaxDay : w.from <= t /\ w.at = day
  BY <1>1
<1>5. \A p \in Soap, t \in 0..MaxDay : \E u \in written' : u.from <= t /\ u.at = day
  BY <1>1, <1>4
<1>. QED
  BY <1>2, <1>3, <1>5, CopiesStand DEF Kept

LEMMA CopyNext ==
  RateBase /\ RateBase' /\ CopyInv /\ [Rate!Next]_Rate!vars => CopyInv'
<1>. SUFFICES ASSUME RateBase, RateBase', CopyInv, [Rate!Next]_Rate!vars PROVE CopyInv'
  OBVIOUS
<1>1. ASSUME UNCHANGED <<rates, key, brandOf, cache, written>>, day' = day \/ day' = day + 1
      PROVE  CopyInv'
  <2>1. CopyTyped'
    <3>1. \A v \in Processes : Kept(v) => cache[v].at \in Int /\ cache[v].at <= day
      <4>. SUFFICES ASSUME NEW v \in Processes, Kept(v)
                    PROVE  cache[v].at \in Int /\ cache[v].at <= day
        OBVIOUS
      <4>. QED
        BY KeptCopy DEF CopyInv, CopyTyped
    <3>2. day \in Int
      BY DEF RateBase, RateTyped
    <3>. QED
      BY <1>1, <3>1, <3>2 DEF CopyInv, CopyTyped, Kept
  <2>. QED
    BY <1>1, <2>1, RatesUnchanged, CopiesStand DEF Kept
<1>2. CASE UNCHANGED Rate!vars
  BY <1>1, <1>2 DEF Rate!vars
<1>3. CASE Rate!Tick
  BY <1>1, <1>3 DEF Rate!Tick
<1>4. ASSUME NEW s \in Admins, NEW b \in Brands \cup {Others}, NEW n \in 1..MaxRate,
             NEW from \in 0..MaxDay, Rate!StartCreate(s, b, n, from)
      PROVE  CopyInv'
  BY <1>1, <1>4 DEF Rate!StartCreate
<1>5. ASSUME NEW s \in Admins, NEW r \in rates, Rate!StartDelete(s, r) PROVE CopyInv'
  BY <1>1, <1>5 DEF Rate!StartDelete
<1>6. ASSUME NEW b \in Brands, NEW k \in Names, Rate!RenameBrand(b, k) PROVE CopyInv'
  BY <1>6, CopyRelabels DEF Rate!RenameBrand, Rate!Log
<1>7. ASSUME NEW p \in Soap, NEW b \in Brands, Rate!MoveProduct(p, b) PROVE CopyInv'
  BY <1>7, CopyRelabels DEF Rate!MoveProduct, Rate!Log
<1>8. ASSUME NEW v \in Processes, Rate!Restart(v) PROVE CopyInv'
  <2>1. /\ cache' = [cache EXCEPT ![v] = Rate!Cold]
        /\ UNCHANGED <<rates, key, brandOf, day, written>>
    BY <1>8 DEF Rate!Restart
  <2>. HIDE DEF Rate!Cold
  <2>2. /\ cache' \in [Processes -> Copies]
        /\ \A u \in Processes : Kept(u)' => cache'[u] = cache[u]
    BY <2>1 DEF CopyInv, CopyTyped, Copies, Kept
  <2>3. CopyTyped'
    BY <2>1, <2>2 DEF CopyInv, CopyTyped, Kept
  <2>. QED
    BY <2>1, <2>2, <2>3, RatesUnchanged, CopiesStand
<1>. QED
  BY <1>2, <1>3, <1>4, <1>5, <1>6, <1>7, <1>8, CopyReads, CopyWrites DEF Rate!Next

-----------------------------------------------------------------------------
(* On a finite set that is not empty a function takes a largest value. *)
LEMMA LargestExists ==
  ASSUME NEW S, IsFiniteSet(S), S # {}, NEW f, \A x \in S : f[x] \in Int
  PROVE  \E x \in S : \A y \in S : f[y] <= f[x]
<1> DEFINE P == {T \in SUBSET S : T = {} \/ \E x \in T : \A y \in T : f[y] <= f[x]}
<1>1. ASSUME NEW T \in SUBSET S, \A U \in SUBSET T : U # T => U \in P
      PROVE  T \in P
  <2>. SUFFICES ASSUME T # {} PROVE \E x \in T : \A y \in T : f[y] <= f[x]
    OBVIOUS
  <2>1. PICK z \in T : TRUE
    OBVIOUS
  <2>2. T \ {z} \in P
    BY <1>1, <2>1
  <2>3. \A y \in T : f[y] \in Int
    OBVIOUS
  <2>4. CASE T \ {z} = {}
    <3>1. \A y \in T : y = z
      BY <2>4
    <3>. QED
      BY <2>3, <3>1
  <2>5. CASE T \ {z} # {}
    <3>1. PICK x \in T \ {z} : \A y \in T \ {z} : f[y] <= f[x]
      BY <2>2, <2>5
    <3>2. CASE f[z] <= f[x]
      BY <3>1, <3>2
    <3>3. CASE ~(f[z] <= f[x])
      <4>1. \A y \in T : f[y] <= f[z]
        BY <2>3, <3>1, <3>3
      <4>. QED
        BY <4>1
    <3>. QED
      BY <3>2, <3>3
  <2>. QED
    BY <2>4, <2>5
<1>2. S \in P
  <2>. HIDE DEF P
  <2>. QED
    BY <1>1, SubsetInduction
<1>. QED
  BY <1>2

LEMMA OneLatest ==
  ASSUME NEW S, IsFiniteSet(S), S # {}, \A r \in S : r.from \in Int,
         \A r, q \in S : r.from = q.from => r = q
  PROVE  \E n : Latest(S) = {n}
<1> DEFINE f == [r \in S |-> r.from]
<1>1. \A r \in S : f[r] = r.from /\ f[r] \in Int
  OBVIOUS
<1>. HIDE DEF f
<1>2. PICK r \in S : \A u \in S : f[u] <= f[r]
  BY <1>1, LargestExists
<1>5. \A u \in S : u.from <= r.from
  BY <1>1, <1>2
<1>6. ASSUME NEW q \in S, \A u \in S : u.from <= q.from PROVE q = r
  BY <1>5, <1>6
<1>7. Latest(S) = {r.perBox}
  BY <1>5, <1>6 DEF Latest
<1>. QED
  BY <1>7

LEMMA OnePrice ==
  ASSUME RateBase, ~Rate!Tied, ~Rate!Collision, NEW p \in Soap, NEW t \in 0..day
  PROVE  Rate!Cardinality(Rate!BoxRate(p, t)) = 1
<1> DEFINE b == brandOf[p]
           own == OfBrand(Started(rates, t), b)
           fallback == OfBrand(Started(rates, t), Others)
           S == OwnElse(own, fallback)
<1>. USE DEF RateBase
<1>1. Rate!BoxRate(p, t) = Latest(S)
  BY BoxRateIsBrandRate DEF BrandRate
<1>2. S \subseteq rates /\ IsFiniteSet(S)
  <2>1. S \subseteq rates
    BY DEF OwnElse, OfBrand, Started
  <2>. QED
    BY <2>1, FS_Subset DEF RateTyped
<1>3. S # {}
  <2>1. PICK r \in rates : Beginning(r)
    BY DEF RateTyped
  <2>2. r \in fallback
    BY <2>1 DEF OfBrand, Started, Beginning, RateTyped
  <2>. QED
    BY <2>2 DEF OwnElse
<1>4. \A r, q \in S : r.brand = q.brand
  BY DEF OwnElse, OfBrand
<1>5. \A r \in S : r.from \in Int
  BY <1>2 DEF RateTyped, Row
<1>6. \A r, q \in S : r.from = q.from => r = q
  BY <1>2, <1>4 DEF Rate!Tied
<1>. HIDE DEF S
<1>7. PICK n : Latest(S) = {n}
  BY <1>2, <1>3, <1>5, <1>6, OneLatest
<1>8. Cardinality({n}) = 1
  BY FS_Singleton
<1>9. Rate!Cardinality({n}) = Cardinality({n})
  BY DEF Rate!Cardinality, Cardinality
<1>. QED
  BY <1>1, <1>7, <1>8, <1>9

LEMMA QuotesHold == RateBase /\ CopyInv => Rate!QuotesAgree
<1>. SUFFICES ASSUME RateBase, CopyInv, NEW p \in Soap, NEW t \in 0..day
              PROVE  /\ Rate!Cardinality(Rate!BoxRate(p, t)) = 1 \/ Rate!Tied \/ Rate!Collision
                     /\ \A v \in Processes :
                          \/ Rate!Quoted(v, p, t) = Rate!BoxRate(p, t)
                          \/ \E w \in written : w.from <= t /\ day - w.at < CacheLife
  BY DEF Rate!QuotesAgree
<1>1. Rate!Cardinality(Rate!BoxRate(p, t)) = 1 \/ Rate!Tied \/ Rate!Collision
  BY OnePrice
<1>2. ASSUME NEW v \in Processes, Rate!Quoted(v, p, t) # Rate!BoxRate(p, t)
      PROVE  \E w \in written : w.from <= t /\ day - w.at < CacheLife
  <2>1. /\ Rate!CacheLive(v)
        /\ Rate!Pick(cache[v].rows, key[brandOf[p]], t) # Rate!BoxRate(p, t)
    BY <1>2 DEF Rate!Quoted
  <2>2. Kept(v) /\ day - cache[v].at < CacheLife
    BY <2>1 DEF Rate!CacheLive, Kept
  <2>3. day \in 0..MaxDay /\ MaxDay \in Int /\ t \in 0..MaxDay
    BY RepAssumption DEF RateBase, RateTyped
  <2>4. Outdated(v, t)
    BY <2>1, <2>2, <2>3 DEF CopyInv, CopiesHold, Priced
  <2>5. PICK w \in written : w.from <= t /\ cache[v].at <= w.at
    BY <2>4 DEF Outdated
  <2>6. w.at \in Int /\ cache[v].at \in Int /\ day \in Int
    BY <2>2, <2>3, KeptCopy DEF CopyInv, CopyTyped, Writes
  <2>7. \A a, b, d, c \in Int : a <= b /\ d - a < c => d - b < c
    OBVIOUS
  <2>8. CacheLife \in Int
    BY RepAssumption
  <2>9. day - w.at < CacheLife
    BY <2>2, <2>5, <2>6, <2>7, <2>8
  <2>. QED
    BY <2>5, <2>9
<1>. QED
  BY <1>1, <1>2

-----------------------------------------------------------------------------
(* The bonus.  Every sale an award counts is dated before the payment, and *)
(* the next run is counted from it; a payment under way is alone unless    *)
(* tangled, so its sales are still nobody's and its tier still says what   *)
(* was read.                                                               *)
TierRow == [target : 0..MaxTarget, amount : 0..MaxTarget, from : 0..MaxDate, active : BOOLEAN]
PayState ==
  [pc : {"pay"}, tier : Tiers, amount : 0..MaxTarget, cycle : 0..MaxDate,
   counted : SUBSET Withdrawals]
EditState == [pc : {"edit"}, tier : Tiers]
Award ==
  [tier : Tiers, cycle : 0..MaxDate, amount : 0..MaxTarget, counted : SUBSET Withdrawals,
   paidAt : 0..MaxDate]
Pays(s) == paying[s].pc = "pay"
Alters(s) == paying[s].pc = "edit"
Real(t) == rule[t].target > 0
Before(v, at) == sold[v] # Tier!Unsold /\ sold[v] < at

BonusTyped ==
  /\ rule \in [Tiers -> TierRow] /\ \A t \in Tiers : rule[t] = Tier!NoRule \/ Real(t)
  /\ sold \in [Withdrawals -> Int]
  /\ awards \subseteq Award
  /\ date \in 0..MaxDate
  /\ paying \in [Handlers -> {Tier!Idle} \cup PayState \cup EditState]
  /\ tangled \in BOOLEAN
SalesDated ==
  /\ \A v \in Withdrawals : sold[v] <= date
  /\ \A s \in Handlers : Pays(s) => \A v \in paying[s].counted : Before(v, date + 1)
  /\ \A a \in awards : a.paidAt <= date /\ \A v \in a.counted : Before(v, a.paidAt)
OnePays == \A s, t \in Handlers : Pays(s) /\ (Pays(t) \/ Alters(t)) => s = t
CountsFresh == \A s \in Handlers, a \in awards : Pays(s) => paying[s].counted \cap a.counted = {}
CountsApart == \A a, b \in awards : a # b => a.counted \cap b.counted = {}
Meets(t, amount, counted) ==
  Real(t) /\ amount = rule[t].amount /\ Tier!Cardinality(counted) >= rule[t].target
TermsStand ==
  /\ \A s \in Handlers : Pays(s) => Meets(paying[s].tier, paying[s].amount, paying[s].counted)
  /\ \A a \in awards : Meets(a.tier, a.amount, a.counted)
  /\ \A s \in Handlers, a \in awards : Alters(s) => a.tier # paying[s].tier
InOrder == OnePays /\ CountsFresh /\ CountsApart /\ TermsStand
BonusInv == BonusTyped /\ SalesDated /\ (tangled \/ InOrder)

LEMMA MarksOfSales ==
  /\ Tier!Unsold \in Int /\ Tier!Cancelled \in Int /\ Tier!Unsold < 0 /\ Tier!Cancelled < 0
  /\ Tier!Unsold # Tier!Cancelled
BY DEF Tier!Unsold, Tier!Cancelled

LEMMA ExistingIsReal ==
  ASSUME BonusTyped, NEW t \in Tiers PROVE Tier!Exists(t) <=> Real(t)
BY DEF BonusTyped, Tier!Exists, Tier!NoRule, Real

(* The bounds of a set of dates. *)
LEMMA LatestDate ==
  ASSUME NEW T, T \subseteq 0..MaxDate, T # {}
  PROVE  Tier!Max(T) \in T /\ \A x \in T : x <= Tier!Max(T)
<1> DEFINE f == [x \in T |-> x]
<1>1. IsFiniteSet(T)
  <2>1. 0 \in Int /\ MaxDate \in Int
    BY RepAssumption
  <2>. QED
    BY <2>1, FS_Interval, FS_Subset
<1>2. \A x \in T : f[x] = x /\ f[x] \in Int
  OBVIOUS
<1>. HIDE DEF f
<1>3. \E x \in T : \A y \in T : f[y] <= f[x]
  BY <1>1, <1>2, LargestExists
<1>4. \E x \in T : \A y \in T : x >= y
  BY <1>2, <1>3
<1>5. Tier!Max(T) \in T /\ \A y \in T : Tier!Max(T) >= y
  BY <1>4 DEF Tier!Max
<1>. QED
  BY <1>5

LEMMA EarliestDate ==
  ASSUME NEW T, T \subseteq 0..MaxDate, T # {}
  PROVE  Tier!Min(T) \in T
<1> DEFINE f == [x \in T |-> MaxDate - x]
<1>1. IsFiniteSet(T)
  <2>1. 0 \in Int /\ MaxDate \in Int
    BY RepAssumption
  <2>. QED
    BY <2>1, FS_Interval, FS_Subset
<1>2. \A x \in T : f[x] = MaxDate - x /\ f[x] \in Int /\ x \in Int /\ MaxDate \in Int
  BY RepAssumption
<1>. HIDE DEF f
<1>3. \E x \in T : \A y \in T : f[y] <= f[x]
  BY <1>1, <1>2, LargestExists
<1>4. \E x \in T : \A y \in T : x <= y
  BY <1>2, <1>3
<1>. QED
  BY <1>4 DEF Tier!Min

LEMMA RunBegins ==
  ASSUME BonusTyped, Tier!activeTiers # {}
  PROVE  Tier!CycleStart \in 0..MaxDate /\ \A a \in awards : a.paidAt <= Tier!CycleStart
<1> DEFINE T == {rule[t].from : t \in Tier!activeTiers}
           U == {Tier!Min(T)} \cup {a.paidAt : a \in awards}
<1>1. T \subseteq 0..MaxDate /\ T # {}
  <2>1. Tier!activeTiers \subseteq Tiers
    BY DEF Tier!activeTiers
  <2>. QED
    BY <2>1 DEF BonusTyped, TierRow
<1>2. Tier!Min(T) \in 0..MaxDate
  <2>. HIDE DEF T
  <2>. QED
    BY <1>1, EarliestDate
<1>3. U \subseteq 0..MaxDate /\ U # {} /\ \A a \in awards : a.paidAt \in U
  BY <1>2 DEF BonusTyped, Award
<1>4. Tier!CycleStart = Tier!Max(U)
  BY DEF Tier!CycleStart
<1>. HIDE DEF U
<1>. QED
  BY <1>3, <1>4, LatestDate

-----------------------------------------------------------------------------
LEMMA BonusInit == Tier!Init => BonusInv
<1>. SUFFICES ASSUME Tier!Init PROVE BonusInv
  OBVIOUS
<1>1. /\ rule = [t \in Tiers |-> Tier!NoRule] /\ sold = [v \in Withdrawals |-> Tier!Unsold]
      /\ awards = {} /\ date = 0 /\ paying = [s \in Handlers |-> Tier!Idle]
  BY DEF Tier!Init
<1>2. tangled \in BOOLEAN
  BY Zenon DEF Tier!Init
<1>3. Tier!NoRule \in TierRow
  BY RepAssumption DEF Tier!NoRule, TierRow
<1>4. BonusTyped
  <2>. HIDE DEF Tier!NoRule, Tier!Idle, TierRow
  <2>. QED
    BY <1>1, <1>2, <1>3, MarksOfSales, RepAssumption DEF BonusTyped
<1>5. \A s \in Handlers : ~Pays(s) /\ ~Alters(s)
  BY <1>1 DEF Pays, Alters, Tier!Idle
<1>6. SalesDated
  BY <1>1, <1>5, MarksOfSales DEF SalesDated
<1>7. InOrder
  BY <1>1, <1>5 DEF InOrder, OnePays, CountsFresh, CountsApart, TermsStand
<1>. QED
  BY <1>4, <1>6, <1>7 DEF BonusInv

(* A step that starts nothing, awards nothing and leaves the rules alone. *)
LEMMA BonusStands ==
  ASSUME BonusInv, UNCHANGED <<rule, awards, tangled>>,
         sold' \in [Withdrawals -> Int], date' \in 0..MaxDate, date <= date',
         paying' \in [Handlers -> {Tier!Idle} \cup PayState \cup EditState],
         \A s \in Handlers : paying'[s] = paying[s] \/ paying'[s] = Tier!Idle,
         \A v \in Withdrawals : sold'[v] <= date',
         \A v \in Withdrawals, at \in Int : Before(v, at) => Before(v, at)'
  PROVE  BonusInv'
<1>1. \A s \in Handlers : (Pays(s)' => Pays(s) /\ paying'[s] = paying[s])
                          /\ (Alters(s)' => Alters(s) /\ paying'[s] = paying[s])
  BY DEF Pays, Alters, Tier!Idle
<1>2. BonusTyped'
  BY DEF BonusInv, BonusTyped, Real
<1>3. SalesDated'
  <2>1. date \in Int /\ date' \in Int /\ date <= date'
    BY DEF BonusInv, BonusTyped
  <2>2. ASSUME NEW s \in Handlers, Pays(s)', NEW v \in paying'[s].counted
        PROVE  Before(v, date + 1)'
    <3>1. v \in Withdrawals /\ Before(v, date + 1)
      BY <1>1, <2>2 DEF BonusInv, BonusTyped, SalesDated, Pays, PayState, EditState, Tier!Idle
    <3>2. sold'[v] # Tier!Unsold /\ sold'[v] <= date'
      BY <2>1, <3>1 DEF Before
    <3>3. sold'[v] \in Int
      BY <3>1
    <3>. QED
      BY <2>1, <3>2, <3>3 DEF Before
  <2>3. ASSUME NEW a \in awards
        PROVE  a.paidAt <= date' /\ \A v \in a.counted : Before(v, a.paidAt)'
    <3>1. a \in Award /\ a.paidAt \in Int /\ a.counted \subseteq Withdrawals /\ a.paidAt <= date
      BY DEF BonusInv, BonusTyped, SalesDated, Award
    <3>2. \A v \in a.counted : Before(v, a.paidAt)
      BY DEF BonusInv, SalesDated
    <3>. QED
      BY <2>1, <3>1, <3>2
  <2>. QED
    BY <2>2, <2>3 DEF SalesDated, Before
<1>4. InOrder => InOrder'
  BY <1>1 DEF InOrder, OnePays, CountsFresh, CountsApart, TermsStand, Meets, Real
<1>. QED
  BY <1>2, <1>3, <1>4 DEF BonusInv

LEMMA ApproveStands ==
  ASSUME BonusInv, NEW v \in Withdrawals, NEW at \in 0..MaxDate, Tier!Approve(v, at)
  PROVE  BonusInv'
<1>1. /\ sold[v] = Tier!Unsold /\ at \in {date, date - 1}
      /\ sold' = [sold EXCEPT ![v] = at]
      /\ UNCHANGED <<rule, awards, tangled, date, paying>>
  BY DEF Tier!Approve
<1>2. /\ sold \in [Withdrawals -> Int] /\ date \in 0..MaxDate /\ date \in Int /\ at \in Int
      /\ paying \in [Handlers -> {Tier!Idle} \cup PayState \cup EditState]
      /\ \A u \in Withdrawals : sold[u] <= date
  BY DEF BonusInv, BonusTyped, SalesDated
<1>3. at <= date
  BY <1>1, <1>2
<1>4. sold'[v] = at /\ \A u \in Withdrawals : u # v => sold'[u] = sold[u]
  BY <1>1, <1>2
<1>5. sold' \in [Withdrawals -> Int] /\ \A u \in Withdrawals : sold'[u] <= date'
  BY <1>1, <1>2, <1>3, <1>4
<1>6. \A u \in Withdrawals, d \in Int : Before(u, d) => Before(u, d)'
  BY <1>1, <1>4 DEF Before
<1>. QED
  BY <1>1, <1>2, <1>5, <1>6, BonusStands

LEMMA CancelStands ==
  ASSUME BonusInv, NEW v \in Withdrawals, Tier!CancelSale(v) PROVE BonusInv'
<1>1. /\ sold[v] >= 0 /\ sold' = [sold EXCEPT ![v] = Tier!Cancelled]
      /\ UNCHANGED <<rule, awards, tangled, date, paying>>
  BY DEF Tier!CancelSale
<1>2. /\ sold \in [Withdrawals -> Int] /\ date \in 0..MaxDate /\ date \in Int
      /\ paying \in [Handlers -> {Tier!Idle} \cup PayState \cup EditState]
      /\ \A u \in Withdrawals : sold[u] <= date
  BY DEF BonusInv, BonusTyped, SalesDated
<1>3. sold'[v] = Tier!Cancelled /\ \A u \in Withdrawals : u # v => sold'[u] = sold[u]
  BY <1>1, <1>2
<1>4. Tier!Cancelled <= date /\ Tier!Cancelled <= sold[v]
  BY <1>1, <1>2, MarksOfSales
<1>5. sold' \in [Withdrawals -> Int] /\ \A u \in Withdrawals : sold'[u] <= date'
  BY <1>1, <1>2, <1>3, <1>4, MarksOfSales
<1>6. \A u \in Withdrawals, d \in Int : Before(u, d) => Before(u, d)'
  <2>. SUFFICES ASSUME NEW u \in Withdrawals, NEW d \in Int, Before(u, d) PROVE Before(u, d)'
    OBVIOUS
  <2>1. CASE u = v
    <3>1. sold[v] \in Int /\ sold[v] < d
      BY <1>2, <2>1 DEF Before
    <3>2. Tier!Cancelled < d
      BY <1>4, <3>1, MarksOfSales
    <3>. QED
      BY <1>3, <2>1, <3>2, MarksOfSales DEF Before
  <2>2. CASE u # v
    BY <1>3, <2>2 DEF Before
  <2>. QED
    BY <2>1, <2>2
<1>. QED
  BY <1>1, <1>2, <1>5, <1>6, BonusStands

LEMMA QuietStands ==
  ASSUME BonusInv, Tier!Tick \/ (\E s \in Handlers : Tier!Crash(s)) \/ UNCHANGED Tier!vars
  PROVE  BonusInv'
<1>1. /\ UNCHANGED <<rule, awards, tangled, sold>>
      /\ date' = date \/ (date' = date + 1 /\ date < MaxDate)
      /\ paying' = paying \/ \E s \in Handlers : paying' = [paying EXCEPT ![s] = Tier!Idle]
  BY DEF Tier!Tick, Tier!Crash, Tier!vars, Tier!Run
<1>2. /\ sold \in [Withdrawals -> Int] /\ date \in 0..MaxDate /\ MaxDate \in Int
      /\ paying \in [Handlers -> {Tier!Idle} \cup PayState \cup EditState]
      /\ \A u \in Withdrawals : sold[u] <= date
  BY RepAssumption DEF BonusInv, BonusTyped, SalesDated
<1>3. date' \in 0..MaxDate /\ date <= date' /\ date \in Int
  BY <1>1, <1>2
<1>4. \A u \in Withdrawals : sold'[u] <= date'
  BY <1>1, <1>2, <1>3
<1>5. /\ paying' \in [Handlers -> {Tier!Idle} \cup PayState \cup EditState]
      /\ \A s \in Handlers : paying'[s] = paying[s] \/ paying'[s] = Tier!Idle
  <2>. HIDE DEF Tier!Idle, PayState, EditState
  <2>. QED
    BY <1>1, <1>2
<1>. QED
  BY <1>1, <1>2, <1>3, <1>4, <1>5, BonusStands DEF Before

(* A payment begins: the sales counted are dated after every payment made, *)
(* so they are nobody's yet.                                               *)
LEMMA StartPaymentStands ==
  ASSUME BonusInv, NEW s \in Handlers, NEW asked \in Tiers, Tier!StartPayment(s, asked)
  PROVE  BonusInv'
<1> DEFINE C == Tier!CycleStart
           Q == Tier!QualifyingSales
<1>1. /\ paying[s] = Tier!Idle /\ Tier!activeTiers # {}
      /\ UNCHANGED <<rule, sold, awards, date>>
      /\ tangled' = (tangled \/ Tier!InFlight("pay") \/ Tier!InFlight("edit"))
  BY Zenon DEF Tier!StartPayment
<1>2. PICK t \in Tier!Reached :
        paying' = [paying EXCEPT ![s] = [pc |-> "pay", tier |-> t, amount |-> rule[t].amount,
                                         cycle |-> C, counted |-> Q]]
  BY DEF Tier!StartPayment, Tier!Run
<1> DEFINE P == [pc |-> "pay", tier |-> t, amount |-> rule[t].amount, cycle |-> C, counted |-> Q]
<1>3. /\ rule \in [Tiers -> TierRow] /\ sold \in [Withdrawals -> Int] /\ awards \subseteq Award
      /\ date \in 0..MaxDate /\ tangled \in BOOLEAN
      /\ paying \in [Handlers -> {Tier!Idle} \cup PayState \cup EditState]
      /\ \A v \in Withdrawals : sold[v] <= date
  BY DEF BonusInv, BonusTyped, SalesDated
<1>4. C \in 0..MaxDate /\ \A a \in awards : a.paidAt <= C
  BY <1>1, RunBegins DEF BonusInv
<1>5. t \in Tiers /\ Tier!Exists(t) /\ Tier!Cardinality(Q) >= rule[t].target
  BY DEF Tier!Reached, Tier!activeTiers
<1>6. Q \subseteq Withdrawals /\ \A v \in Q : sold[v] >= C
  BY DEF Tier!QualifyingSales
<1>. HIDE DEF C, Q
<1>7. P.pc = "pay" /\ P.tier = t /\ P.amount = rule[t].amount /\ P.counted = Q /\ P \in PayState
  BY <1>3, <1>4, <1>5, <1>6 DEF PayState, TierRow
<1>8. paying'[s] = P /\ \A u \in Handlers : u # s => paying'[u] = paying[u]
  BY <1>2, <1>3
<1>9. paying' \in [Handlers -> {Tier!Idle} \cup PayState \cup EditState]
  <2>. HIDE DEF P, PayState, EditState, Tier!Idle
  <2>. QED
    BY <1>2, <1>3, <1>7 DEF P
<1>. HIDE DEF P
<1>10. BonusTyped'
  BY <1>1, <1>3, <1>9, Zenon DEF BonusInv, BonusTyped, Real, Tier!InFlight
<1>11. \A v \in Q : Before(v, date + 1) /\ \A a \in awards : ~Before(v, a.paidAt)
  <2>. SUFFICES ASSUME NEW v \in Q, NEW a \in awards
                PROVE  Before(v, date + 1) /\ ~Before(v, a.paidAt)
    <3>1. \A v \in Q : Before(v, date + 1)
      BY <1>3, <1>4, <1>6, MarksOfSales DEF Before
    <3>. QED
      BY <3>1
  <2>1. sold[v] \in Int /\ sold[v] >= C /\ sold[v] <= date /\ C \in Int /\ date \in Int /\ C >= 0
    BY <1>3, <1>4, <1>6
  <2>2. a.paidAt \in Int /\ a.paidAt <= C
    BY <1>3, <1>4 DEF Award
  <2>. QED
    BY <2>1, <2>2, MarksOfSales DEF Before
<1>12. SalesDated'
  <2>1. ASSUME NEW u \in Handlers, Pays(u)', NEW v \in paying'[u].counted
        PROVE  Before(v, date + 1)
    BY <1>7, <1>8, <1>11, <2>1 DEF BonusInv, SalesDated, Pays
  <2>. QED
    BY <1>1, <2>1 DEF BonusInv, SalesDated, Before
<1>13. ASSUME ~tangled' PROVE InOrder'
  <2>1. InOrder /\ \A u \in Handlers : ~Pays(u) /\ ~Alters(u)
    BY <1>1, <1>3, <1>13, Zenon DEF BonusInv, Tier!InFlight, Pays, Alters
  <2>2. \A u \in Handlers : ~Alters(u)' /\ (Pays(u)' => u = s)
    BY <1>7, <1>8, <2>1 DEF Pays, Alters
  <2>3. OnePays'
    BY <2>2 DEF OnePays
  <2>4. CountsFresh'
    <3>1. ASSUME NEW a \in awards PROVE Q \cap a.counted = {}
      BY <1>11 DEF BonusInv, SalesDated
    <3>. QED
      BY <1>1, <1>7, <1>8, <2>2, <3>1 DEF CountsFresh
  <2>5. CountsApart'
    BY <1>1, <2>1 DEF InOrder, CountsApart
  <2>6. TermsStand'
    <3>1. Meets(t, P.amount, Q)
      BY <1>5, <1>7, ExistingIsReal DEF Meets, BonusInv
    <3>2. ASSUME NEW u \in Handlers, Pays(u)'
          PROVE  Meets(paying'[u].tier, paying'[u].amount, paying'[u].counted)
      BY <1>7, <1>8, <2>2, <3>1, <3>2
    <3>3. \A a \in awards : Meets(a.tier, a.amount, a.counted)
      BY <2>1 DEF InOrder, TermsStand
    <3>. QED
      BY <1>1, <2>2, <3>2, <3>3 DEF TermsStand, Meets, Real
  <2>. QED
    BY <2>3, <2>4, <2>5, <2>6 DEF InOrder
<1>. QED
  BY <1>10, <1>12, <1>13 DEF BonusInv

(* An award is inserted, dated after every sale it counts; when nothing    *)
(* else was under way its sales were nobody's.                             *)
LEMMA PayTierStands ==
  ASSUME BonusInv, NEW s \in Handlers, Tier!PayTier(s) PROVE BonusInv'
<1> DEFINE A == [tier |-> paying[s].tier, cycle |-> paying[s].cycle, amount |-> paying[s].amount,
                 counted |-> paying[s].counted, paidAt |-> date']
<1>1. /\ Pays(s) /\ date < MaxDate /\ date' = date + 1
      /\ awards' = awards \/ awards' = awards \cup {A}
      /\ paying' = [paying EXCEPT ![s] = Tier!Idle]
      /\ UNCHANGED <<rule, sold, tangled>>
  BY DEF Tier!PayTier, Tier!Run, Pays
<1>2. /\ rule \in [Tiers -> TierRow] /\ sold \in [Withdrawals -> Int] /\ awards \subseteq Award
      /\ date \in 0..MaxDate /\ MaxDate \in Int /\ tangled \in BOOLEAN
      /\ paying \in [Handlers -> {Tier!Idle} \cup PayState \cup EditState]
      /\ \A v \in Withdrawals : sold[v] <= date
  BY RepAssumption DEF BonusInv, BonusTyped, SalesDated
<1>3. paying[s] \in PayState
  BY <1>1, <1>2 DEF Pays, EditState, Tier!Idle
<1>4. date \in Int /\ date' \in 0..MaxDate
  BY <1>1, <1>2
<1>5. A \in Award
  BY <1>3, <1>4 DEF Award, PayState
<1>6. /\ A.paidAt = date' /\ A.tier = paying[s].tier /\ A.amount = paying[s].amount
      /\ A.counted = paying[s].counted
  OBVIOUS
<1>7. \A u \in Handlers : /\ ~(u = s /\ (Pays(u)' \/ Alters(u)'))
                          /\ u # s => paying'[u] = paying[u]
  BY <1>1, <1>2 DEF Pays, Alters, Tier!Idle
<1>8. paying' \in [Handlers -> {Tier!Idle} \cup PayState \cup EditState]
  <2>. HIDE DEF PayState, EditState, Tier!Idle
  <2>. QED
    BY <1>1, <1>2
<1>. HIDE DEF A
<1>9. BonusTyped'
  BY <1>1, <1>2, <1>4, <1>5, <1>8 DEF BonusInv, BonusTyped, Real
<1>10. SalesDated'
  <2>1. \A v \in Withdrawals : sold'[v] <= date'
    BY <1>1, <1>2, <1>4
  <2>2. ASSUME NEW u \in Handlers, Pays(u)', NEW v \in paying'[u].counted
        PROVE  Before(v, date + 1)'
    <3>1. Pays(u) /\ v \in paying[u].counted /\ paying[u] \in PayState
      BY <1>2, <1>7, <2>2 DEF Pays, EditState, Tier!Idle
    <3>2. v \in Withdrawals /\ Before(v, date + 1)
      BY <3>1 DEF BonusInv, SalesDated, PayState
    <3>. QED
      BY <1>1, <1>2, <1>4, <3>2 DEF Before
  <2>3. ASSUME NEW a \in awards' PROVE a.paidAt <= date' /\ \A v \in a.counted : Before(v, a.paidAt)
    <3>1. CASE a = A
      BY <1>1, <1>4, <1>6, <3>1 DEF BonusInv, SalesDated
    <3>2. CASE a \in awards
      <4>1. a.paidAt \in Int /\ a.paidAt <= date
        BY <1>2, <3>2 DEF BonusInv, SalesDated, Award
      <4>. QED
        BY <1>1, <1>4, <3>2, <4>1 DEF BonusInv, SalesDated
    <3>. QED
      BY <1>1, <2>3, <3>1, <3>2
  <2>. QED
    BY <1>1, <2>1, <2>2, <2>3 DEF SalesDated, Before
<1>11. ASSUME InOrder PROVE InOrder'
  <2>1. \A u \in Handlers : ~Pays(u)' /\ ~Alters(u)'
    BY <1>1, <1>7, <1>11 DEF InOrder, OnePays, Pays, Alters
  <2>2. CountsApart'
    BY <1>1, <1>6, <1>11 DEF InOrder, CountsApart, CountsFresh
  <2>3. \A a \in awards' : Meets(a.tier, a.amount, a.counted)
    BY <1>1, <1>6, <1>11 DEF InOrder, TermsStand
  <2>. QED
    BY <1>1, <2>1, <2>2, <2>3 DEF InOrder, OnePays, CountsFresh, TermsStand, Meets, Real
<1>. QED
  BY <1>1, <1>9, <1>10, <1>11 DEF BonusInv

(* An edit begins: nothing was awarded under the tier, and no payment is   *)
(* under way unless they are tangled.                                      *)
LEMMA StartUpdateStands ==
  ASSUME BonusInv, NEW s \in Handlers, NEW t \in Tiers, Tier!StartUpdate(s, t) PROVE BonusInv'
<1> DEFINE E == [pc |-> "edit", tier |-> t]
<1>1. /\ paying[s] = Tier!Idle /\ paying' = [paying EXCEPT ![s] = E]
      /\ \A a \in awards : a.tier # t
      /\ UNCHANGED <<rule, sold, awards, date>>
      /\ tangled' = (tangled \/ Tier!InFlight("pay"))
  BY Zenon DEF Tier!StartUpdate, Tier!Editable, Tier!Run
<1>2. /\ tangled \in BOOLEAN
      /\ paying \in [Handlers -> {Tier!Idle} \cup PayState \cup EditState]
  BY DEF BonusInv, BonusTyped
<1>3. E.pc = "edit" /\ E.tier = t /\ E \in EditState
  BY DEF EditState
<1>4. paying'[s] = E /\ \A u \in Handlers : u # s => paying'[u] = paying[u]
  BY <1>1, <1>2
<1>5. paying' \in [Handlers -> {Tier!Idle} \cup PayState \cup EditState]
  <2>. HIDE DEF E, PayState, EditState, Tier!Idle
  <2>. QED
    BY <1>1, <1>2, <1>3
<1>. HIDE DEF E
<1>6. BonusTyped'
  BY <1>1, <1>2, <1>5, Zenon DEF BonusInv, BonusTyped, Real, Tier!InFlight
<1>7. \A u \in Handlers : /\ Pays(u)' => u # s /\ Pays(u) /\ paying'[u] = paying[u]
                          /\ Alters(u)' /\ u # s => Alters(u) /\ paying'[u] = paying[u]
  BY <1>3, <1>4 DEF Pays, Alters
<1>8. SalesDated'
  BY <1>1, <1>7 DEF BonusInv, SalesDated, Before
<1>9. ASSUME ~tangled' PROVE InOrder'
  <2>1. InOrder /\ \A u \in Handlers : ~Pays(u)
    BY <1>1, <1>2, <1>9, Zenon DEF BonusInv, Tier!InFlight, Pays
  <2>2. \A u \in Handlers : ~Pays(u)'
    BY <1>7, <2>1
  <2>3. \A u \in Handlers, a \in awards : Alters(u)' => a.tier # paying'[u].tier
    BY <1>1, <1>3, <1>4, <1>7, <2>1 DEF InOrder, TermsStand
  <2>. QED
    BY <1>1, <2>1, <2>2, <2>3 DEF InOrder, OnePays, CountsFresh, CountsApart, TermsStand, Meets,
       Real
<1>. QED
  BY <1>6, <1>8, <1>9 DEF BonusInv

(* The rules move only where nothing was, or is about to be, paid. *)
LEMMA RulesStand ==
  ASSUME BonusInv, UNCHANGED <<sold, awards, tangled, date>>,
         rule' \in [Tiers -> TierRow],
         \A t \in Tiers : rule'[t] = Tier!NoRule \/ rule'[t].target > 0,
         paying' \in [Handlers -> {Tier!Idle} \cup PayState \cup EditState],
         \A s \in Handlers : paying'[s] = paying[s] \/ paying'[s] = Tier!Idle,
         InOrder => \A t \in Tiers :
           \/ rule'[t].target = rule[t].target /\ rule'[t].amount = rule[t].amount
           \/ /\ \A a \in awards : a.tier # t
              /\ \A s \in Handlers : Pays(s) => paying[s].tier # t
  PROVE  BonusInv'
<1>1. \A s \in Handlers : (Pays(s)' => Pays(s) /\ paying'[s] = paying[s])
                          /\ (Alters(s)' => Alters(s) /\ paying'[s] = paying[s])
  BY DEF Pays, Alters, Tier!Idle
<1>2. BonusTyped'
  BY DEF BonusInv, BonusTyped, Real
<1>3. SalesDated'
  BY <1>1 DEF BonusInv, SalesDated, Before
<1>4. ASSUME InOrder PROVE InOrder'
  <2>1. (OnePays /\ CountsFresh /\ CountsApart)'
    BY <1>1, <1>4 DEF InOrder, OnePays, CountsFresh, CountsApart
  <2>2. ASSUME NEW s \in Handlers, Pays(s)'
        PROVE  Meets(paying[s].tier, paying[s].amount, paying[s].counted)'
               /\ paying'[s] = paying[s]
    <3>1. Pays(s) /\ paying'[s] = paying[s] /\ paying[s] \in PayState
      BY <1>1, <2>2 DEF BonusInv, BonusTyped, Pays, EditState, Tier!Idle
    <3>2. paying[s].tier \in Tiers
      BY <3>1 DEF PayState
    <3>. QED
      BY <1>4, <3>1, <3>2 DEF InOrder, TermsStand, Meets, Real
  <2>3. ASSUME NEW a \in awards PROVE Meets(a.tier, a.amount, a.counted)'
    <3>1. a.tier \in Tiers
      BY DEF BonusInv, BonusTyped, Award
    <3>. QED
      BY <1>4, <3>1 DEF InOrder, TermsStand, Meets, Real
  <2>4. \A s \in Handlers, a \in awards : Alters(s)' => a.tier # paying'[s].tier
    BY <1>1, <1>4 DEF InOrder, TermsStand
  <2>5. TermsStand'
    BY <2>2, <2>3, <2>4 DEF TermsStand, Meets, Real
  <2>. QED
    BY <2>1, <2>5 DEF InOrder
<1>. QED
  BY <1>2, <1>3, <1>4 DEF BonusInv

Revised(row, target, amount, from) ==
  [row EXCEPT !.target = target, !.amount = amount, !.from = from]
LEMMA TierRevised ==
  ASSUME NEW row \in TierRow, NEW target \in 0..MaxTarget, NEW amount \in 0..MaxTarget,
         NEW from \in 0..MaxDate
  PROVE  /\ Revised(row, target, amount, from) \in TierRow
         /\ Revised(row, target, amount, from).target = target
<1> DEFINE aimed == [row EXCEPT !.target = target]
           paid == [aimed EXCEPT !.amount = amount]
           begun == [paid EXCEPT !.from = from]
<1>1. aimed \in TierRow /\ aimed.target = target
  BY DEF TierRow
<1>2. paid \in TierRow /\ paid.target = aimed.target
  <2>. HIDE DEF aimed
  <2>. QED
    BY <1>1 DEF TierRow
<1>3. begun \in TierRow /\ begun.target = paid.target
  <2>. HIDE DEF paid
  <2>. QED
    BY <1>2 DEF TierRow
<1>4. Revised(row, target, amount, from) = begun
  BY DEF Revised
<1>. HIDE DEF begun
<1>. QED
  BY <1>1, <1>2, <1>3, <1>4

LEMMA UpdateRuleStands ==
  ASSUME BonusInv, NEW s \in Handlers, NEW target \in 1..MaxTarget, NEW amount \in 1..MaxTarget,
         NEW from \in 0..MaxDate, Tier!UpdateRule(s, target, amount, from)
  PROVE  BonusInv'
<1> DEFINE u == paying[s].tier
           R == Revised(rule[u], target, amount, from)
<1>1. /\ Alters(s)
      /\ rule' = [rule EXCEPT ![u].target = target, ![u].amount = amount, ![u].from = from]
      /\ paying' = [paying EXCEPT ![s] = Tier!Idle]
      /\ UNCHANGED <<sold, awards, tangled, date>>
  BY DEF Tier!UpdateRule, Tier!Run, Alters
<1>2. /\ rule \in [Tiers -> TierRow] /\ \A t \in Tiers : rule[t] = Tier!NoRule \/ Real(t)
      /\ paying \in [Handlers -> {Tier!Idle} \cup PayState \cup EditState]
  BY DEF BonusInv, BonusTyped
<1>3. u \in Tiers
  BY <1>1, <1>2 DEF Alters, PayState, EditState, Tier!Idle
<1>4. rule' = [rule EXCEPT ![u] = R]
  BY <1>1, <1>2, <1>3 DEF Revised
<1>5. R \in TierRow /\ R.target = target
  <2>1. rule[u] \in TierRow /\ target \in 0..MaxTarget /\ amount \in 0..MaxTarget
    BY <1>2, <1>3, RepAssumption
  <2>. QED
    BY <2>1, TierRevised
<1>. HIDE DEF R
<1>6. rule'[u] = R /\ \A t \in Tiers : t # u => rule'[t] = rule[t]
  BY <1>2, <1>3, <1>4
<1>7. rule' \in [Tiers -> TierRow]
  BY <1>2, <1>3, <1>4, <1>5
<1>8. \A t \in Tiers : rule'[t] = Tier!NoRule \/ rule'[t].target > 0
  BY <1>2, <1>5, <1>6 DEF Real
<1>9. /\ paying' \in [Handlers -> {Tier!Idle} \cup PayState \cup EditState]
      /\ \A t \in Handlers : paying'[t] = paying[t] \/ paying'[t] = Tier!Idle
  <2>. HIDE DEF PayState, EditState, Tier!Idle
  <2>. QED
    BY <1>1, <1>2
<1>10. InOrder => /\ \A a \in awards : a.tier # u
                  /\ \A t \in Handlers : Pays(t) => paying[t].tier # u
  <2>1. InOrder => \A t \in Handlers : ~Pays(t)
    BY <1>1 DEF InOrder, OnePays, Pays, Alters
  <2>. QED
    BY <1>1, <2>1 DEF InOrder, TermsStand
<1>. HIDE DEF u
<1>11. InOrder => \A t \in Tiers :
         \/ rule'[t].target = rule[t].target /\ rule'[t].amount = rule[t].amount
         \/ /\ \A a \in awards : a.tier # t
            /\ \A r \in Handlers : Pays(r) => paying[r].tier # t
  BY <1>6, <1>10
<1>. QED
  BY <1>1, <1>7, <1>8, <1>9, <1>11, RulesStand

LEMMA CreateRuleStands ==
  ASSUME BonusInv, NEW u \in Tiers, NEW target \in 1..MaxTarget, NEW amount \in 1..MaxTarget,
         NEW from \in 0..MaxDate, Tier!CreateRule(u, target, amount, from)
  PROVE  BonusInv'
<1> DEFINE R == [target |-> target, amount |-> amount, from |-> from, active |-> TRUE]
<1>1. /\ ~Tier!Exists(u) /\ rule' = [rule EXCEPT ![u] = R]
      /\ UNCHANGED <<sold, awards, tangled, date, paying>>
  BY DEF Tier!CreateRule
<1>2. /\ rule \in [Tiers -> TierRow] /\ \A t \in Tiers : rule[t] = Tier!NoRule \/ Real(t)
      /\ paying \in [Handlers -> {Tier!Idle} \cup PayState \cup EditState]
  BY DEF BonusInv, BonusTyped
<1>3. R \in TierRow /\ R.target = target
  BY RepAssumption DEF TierRow
<1>. HIDE DEF R
<1>4. rule'[u] = R /\ \A t \in Tiers : t # u => rule'[t] = rule[t]
  BY <1>1, <1>2
<1>5. rule' \in [Tiers -> TierRow]
  BY <1>1, <1>2, <1>3
<1>6. \A t \in Tiers : rule'[t] = Tier!NoRule \/ rule'[t].target > 0
  BY <1>2, <1>3, <1>4 DEF Real
<1>7. ~Real(u)
  BY <1>1, ExistingIsReal DEF BonusInv
<1>8. InOrder => /\ \A a \in awards : a.tier # u
                 /\ \A t \in Handlers : Pays(t) => paying[t].tier # u
  BY <1>7 DEF InOrder, TermsStand, Meets
<1>9. InOrder => \A t \in Tiers :
         \/ rule'[t].target = rule[t].target /\ rule'[t].amount = rule[t].amount
         \/ /\ \A a \in awards : a.tier # t
            /\ \A r \in Handlers : Pays(r) => paying[r].tier # t
  BY <1>4, <1>8
<1>. QED
  BY <1>1, <1>2, <1>5, <1>6, <1>9, RulesStand

LEMMA SetRuleActiveStands ==
  ASSUME BonusInv, NEW u \in Tiers, Tier!SetRuleActive(u) PROVE BonusInv'
<1> DEFINE R == [rule[u] EXCEPT !.active = ~@]
<1>1. /\ Tier!Exists(u) /\ rule' = [rule EXCEPT ![u].active = ~@]
      /\ UNCHANGED <<sold, awards, tangled, date, paying>>
  BY DEF Tier!SetRuleActive
<1>2. /\ rule \in [Tiers -> TierRow] /\ \A t \in Tiers : rule[t] = Tier!NoRule \/ Real(t)
      /\ paying \in [Handlers -> {Tier!Idle} \cup PayState \cup EditState]
  BY DEF BonusInv, BonusTyped
<1>3. Real(u)
  BY <1>1, ExistingIsReal DEF BonusInv
<1>4. R \in TierRow /\ R.target = rule[u].target /\ R.amount = rule[u].amount
  BY <1>2 DEF TierRow
<1>5. rule' = [rule EXCEPT ![u] = R]
  BY <1>1, <1>2
<1>. HIDE DEF R
<1>6. rule'[u] = R /\ \A t \in Tiers : t # u => rule'[t] = rule[t]
  BY <1>2, <1>5
<1>7. rule' \in [Tiers -> TierRow]
  BY <1>2, <1>4, <1>5
<1>8. \A t \in Tiers : rule'[t] = Tier!NoRule \/ rule'[t].target > 0
  BY <1>2, <1>3, <1>4, <1>6 DEF Real
<1>9. \A t \in Tiers : rule'[t].target = rule[t].target /\ rule'[t].amount = rule[t].amount
  BY <1>4, <1>6
<1>. QED
  BY <1>1, <1>2, <1>7, <1>8, <1>9, RulesStand

LEMMA BonusNext == BonusInv /\ [Tier!Next]_Tier!vars => BonusInv'
<1>. SUFFICES ASSUME BonusInv, [Tier!Next]_Tier!vars PROVE BonusInv'
  OBVIOUS
<1>1. CASE \E s \in Handlers, asked \in Tiers : Tier!StartPayment(s, asked)
  BY <1>1, StartPaymentStands
<1>2. CASE \E s \in Handlers, asked \in Tiers : Tier!StartUpdate(s, asked)
  BY <1>2, StartUpdateStands
<1>3. CASE \E s \in Handlers : Tier!PayTier(s)
  BY <1>3, PayTierStands
<1>4. CASE \E s \in Handlers, target, amount \in 1..MaxTarget, from \in 0..MaxDate :
             Tier!UpdateRule(s, target, amount, from)
  BY <1>4, UpdateRuleStands
<1>5. CASE \E s \in Handlers : Tier!Crash(s)
  BY <1>5, QuietStands
<1>6. CASE \E v \in Withdrawals : Tier!CancelSale(v)
  BY <1>6, CancelStands
<1>7. CASE \E v \in Withdrawals, at \in 0..MaxDate : Tier!Approve(v, at)
  BY <1>7, ApproveStands
<1>8. CASE \E t \in Tiers : Tier!SetRuleActive(t)
  BY <1>8, SetRuleActiveStands
<1>9. CASE \E t \in Tiers, target, amount \in 1..MaxTarget, from \in 0..MaxDate :
             Tier!CreateRule(t, target, amount, from)
  BY <1>9, CreateRuleStands
<1>10. CASE Tier!Tick \/ UNCHANGED Tier!vars
  BY <1>10, QuietStands
<1>. QED
  BY <1>1, <1>2, <1>3, <1>4, <1>5, <1>6, <1>7, <1>8, <1>9, <1>10 DEF Tier!Next

LEMMA AwardsHold == BonusInv => Tier!EachSaleCountsOnce /\ Tier!AwardedTermsStand
<1>. SUFFICES ASSUME BonusInv PROVE Tier!EachSaleCountsOnce /\ Tier!AwardedTermsStand
  OBVIOUS
<1>1. tangled \/ InOrder
  BY DEF BonusInv
<1>2. Tier!EachSaleCountsOnce
  BY <1>1 DEF InOrder, CountsApart, Tier!EachSaleCountsOnce
<1>3. Tier!AwardedTermsStand
  BY <1>1 DEF InOrder, TermsStand, Meets, Tier!AwardedTermsStand
<1>. QED
  BY <1>2, <1>3

-----------------------------------------------------------------------------
(* What else the type invariants say: the withheld amount is the sum of    *)
(* the requests not rejected, and the counters stay counters.              *)
Amounts(rows, statuses) ==
  [w \in {v \in Withdrawals : rows[v].status \in statuses} |-> rows[w].amount]
WithheldAddsUp == withheld = SumFunction(Amounts(req, Payout!Live))
PayoutMore == gross \in Nat /\ shifts \in Nat /\ disputed \subseteq Withdrawals /\ WithheldAddsUp

LEMMA PayoutSums == ASSUME NEW f PROVE Payout!SumFunction(f) = SumFunction(f)
BY Zenon DEF Payout!SumFunction, Payout!SumFunctionOnSet, Payout!FoldFunctionOnSet,
  Payout!MapThenFoldSet, SumFunction, SumFunctionOnSet, FoldFunctionOnSet, MapThenFoldSet

LEMMA AmountsType ==
  ASSUME NEW rows,
         rows \in [Withdrawals -> [status : Payout!Statuses, amount : Nat, emergency : BOOLEAN]],
         NEW statuses
  PROVE  /\ DOMAIN Amounts(rows, statuses) \in SUBSET Withdrawals
         /\ IsFiniteSet(DOMAIN Amounts(rows, statuses))
         /\ \A x \in DOMAIN Amounts(rows, statuses) :
              Amounts(rows, statuses)[x] = rows[x].amount /\ rows[x].amount \in Nat
         /\ \A w \in Withdrawals : ValueAt(Amounts(rows, statuses), w)
              = IF rows[w].status \in statuses THEN rows[w].amount ELSE 0
<1>1. DOMAIN Amounts(rows, statuses) \in SUBSET Withdrawals
  BY DEF Amounts
<1>2. IsFiniteSet(DOMAIN Amounts(rows, statuses))
  BY <1>1, RepAssumption, FS_Subset
<1>3. \A w \in Withdrawals : rows[w].amount \in Nat
  OBVIOUS
<1>4. \A x \in DOMAIN Amounts(rows, statuses) : Amounts(rows, statuses)[x] = rows[x].amount
  BY DEF Amounts
<1>5. \A w \in Withdrawals : w \in DOMAIN Amounts(rows, statuses) <=> rows[w].status \in statuses
  BY DEF Amounts
<1>. QED
  BY <1>1, <1>2, <1>3, <1>4, <1>5 DEF ValueAt

LEMMA WithheldMoves ==
  ASSUME PayoutTyped, PayoutTyped', WithheldAddsUp, NEW w \in Withdrawals,
         \A v \in Withdrawals : v # w => req'[v] = req[v],
         withheld' = withheld - Payout!Counted(req[w].status, req[w].amount)
                       + Payout!Counted(req'[w].status, req'[w].amount)
  PROVE  WithheldAddsUp'
<1> DEFINE f == Amounts(req, Payout!Live)
           g == Amounts(req', Payout!Live)
<1>1. /\ req \in [Withdrawals -> [status : Payout!Statuses, amount : Nat, emergency : BOOLEAN]]
      /\ req' \in [Withdrawals -> [status : Payout!Statuses, amount : Nat, emergency : BOOLEAN]]
  BY DEF PayoutTyped
<1>2. /\ IsFiniteSet(DOMAIN f) /\ DOMAIN f \in SUBSET Withdrawals
      /\ \A x \in DOMAIN f : f[x] \in Int /\ f[x] = req[x].amount
      /\ ValueAt(f, w) = Payout!Counted(req[w].status, req[w].amount)
  <2>. HIDE DEF f
  <2>1. /\ IsFiniteSet(DOMAIN f) /\ DOMAIN f \in SUBSET Withdrawals
        /\ \A x \in DOMAIN f : f[x] = req[x].amount /\ req[x].amount \in Nat
        /\ ValueAt(f, w) = IF req[w].status \in Payout!Live THEN req[w].amount ELSE 0
    BY <1>1, AmountsType DEF f
  <2>. QED
    BY <2>1 DEF Payout!Counted
<1>3. /\ DOMAIN g \in SUBSET Withdrawals
      /\ \A x \in DOMAIN g : g[x] \in Int /\ g[x] = req'[x].amount
      /\ ValueAt(g, w) = Payout!Counted(req'[w].status, req'[w].amount)
  <2>. HIDE DEF g
  <2>1. /\ DOMAIN g \in SUBSET Withdrawals
        /\ \A x \in DOMAIN g : g[x] = req'[x].amount /\ req'[x].amount \in Nat
        /\ ValueAt(g, w) = IF req'[w].status \in Payout!Live THEN req'[w].amount ELSE 0
    BY <1>1, AmountsType DEF g
  <2>. QED
    BY <2>1 DEF Payout!Counted
<1>4. DOMAIN f \ {w} = DOMAIN g \ {w}
  BY DEF Amounts
<1>. HIDE DEF f, g
<1>5. \A x \in DOMAIN f \ {w} : g[x] = f[x]
  BY <1>2, <1>3, <1>4
<1>6. SumFunction(g) = SumFunction(f) - ValueAt(f, w) + ValueAt(g, w)
  BY <1>2, <1>3, <1>4, <1>5, SumDiffersAt
<1>7. withheld = SumFunction(f)
  BY DEF WithheldAddsUp, f
<1>8. withheld' = SumFunction(g)
  BY <1>2, <1>3, <1>6, <1>7
<1>. QED
  BY <1>8 DEF WithheldAddsUp, g

LEMMA PayoutMoreInit == Payout!Init => PayoutMore
<1>. SUFFICES ASSUME Payout!Init PROVE PayoutMore
  OBVIOUS
<1>1. gross \in Nat /\ shifts \in Nat /\ disputed \subseteq Withdrawals /\ withheld = 0
  BY DEF Payout!Init
<1>2. DOMAIN Amounts(req, Payout!Live) = {}
  BY DEF Payout!Init, Amounts, Payout!Live
<1>3. SumFunction(Amounts(req, Payout!Live)) = 0
  BY <1>2, SumFunctionOfNothing
<1>. QED
  BY <1>1, <1>3 DEF PayoutMore, WithheldAddsUp

LEMMA PayoutMoreNext ==
  PayoutInv /\ PayoutInv' /\ PayoutMore /\ [Payout!Next]_Payout!vars => PayoutMore'
<1>. SUFFICES ASSUME PayoutInv, PayoutInv', PayoutMore, [Payout!Next]_Payout!vars
              PROVE  PayoutMore'
  OBVIOUS
<1>1. PayoutTyped /\ PayoutTyped' /\ gross \in Nat /\ shifts \in Nat /\ WithheldAddsUp
      /\ disputed \subseteq Withdrawals
  BY DEF PayoutInv, PayoutMore
<1>2. ASSUME UNCHANGED <<req, withheld>> PROVE WithheldAddsUp'
  BY <1>1, <1>2 DEF WithheldAddsUp, Amounts
<1>3. ASSUME NEW s \in Handlers, NEW w \in Withdrawals, Payout!CreateRequest(s, w)
      PROVE  PayoutMore'
  <2>1. /\ asking[s].pc = "create" /\ req[w].status = "NONE"
        /\ req' = [req EXCEPT ![w] = [status |-> "PENDING", amount |-> asking[s].amount,
                                      emergency |-> asking[s].emergency]]
        /\ withheld' = withheld + asking[s].amount
        /\ UNCHANGED <<gross, shifts, disputed>>
    BY <1>3 DEF Payout!CreateRequest, Payout!rep, Payout!history
  <2>2. /\ req \in [Withdrawals -> [status : Payout!Statuses, amount : Nat, emergency : BOOLEAN]]
        /\ withheld \in Int
    BY <1>1 DEF PayoutTyped
  <2>3. req'[w].status = "PENDING" /\ req'[w].amount = asking[s].amount
    BY <2>1, <2>2
  <2>4. \A v \in Withdrawals : v # w => req'[v] = req[v]
    BY <2>1, <2>2
  <2>5. /\ Payout!Counted(req[w].status, req[w].amount) = 0
        /\ Payout!Counted(req'[w].status, req'[w].amount) = asking[s].amount
    BY <2>1, <2>3 DEF Payout!Counted, Payout!Live
  <2>6. withheld' = withheld - Payout!Counted(req[w].status, req[w].amount)
                      + Payout!Counted(req'[w].status, req'[w].amount)
    BY <2>1, <2>2, <2>5
  <2>7. WithheldAddsUp'
    BY <1>1, <2>4, <2>6, WithheldMoves
  <2>. QED
    BY <1>1, <2>1, <2>7 DEF PayoutMore
<1>4. ASSUME NEW s \in Handlers, Payout!WriteDecision(s) PROVE PayoutMore'
  <2> DEFINE w == asking[s].row
             to == asking[s].to
  <2>1. /\ asking[s].pc = "decide" /\ req' = [req EXCEPT ![w].status = to]
        /\ withheld' = withheld - Payout!Counted(req[w].status, req[w].amount)
                         + Payout!Counted(to, req[w].amount)
        /\ UNCHANGED <<gross, shifts, disputed>>
    BY <1>4 DEF Payout!WriteDecision, Payout!rep, Payout!history
  <2>2. /\ req \in [Withdrawals -> [status : Payout!Statuses, amount : Nat, emergency : BOOLEAN]]
        /\ w \in Withdrawals
    BY <1>1, <2>1 DEF PayoutTyped, Payout!Session, Payout!Idle
  <2>. HIDE DEF w, to
  <2>3. req'[w].status = to /\ req'[w].amount = req[w].amount
    BY <2>1, <2>2
  <2>4. \A v \in Withdrawals : v # w => req'[v] = req[v]
    BY <2>1, <2>2
  <2>5. WithheldAddsUp'
    BY <1>1, <2>1, <2>2, <2>3, <2>4, WithheldMoves
  <2>. QED
    BY <1>1, <2>1, <2>5 DEF PayoutMore
<1>5. ASSUME NEW s \in Handlers, NEW w \in Withdrawals, NEW to,
             Payout!StartDecision(s, w, to)
      PROVE  PayoutMore'
  <2>1. UNCHANGED <<req, withheld, gross, shifts>> /\ disputed' \subseteq disputed \cup {w}
    BY <1>5 DEF Payout!StartDecision, Payout!rep
  <2>. QED
    BY <1>1, <1>2, <2>1 DEF PayoutMore
<1>6. ASSUME NEW s \in Handlers,
             \/ \E a \in 1..MaxAmount : Payout!StartRequest(s, a)
             \/ Payout!ClaimWindow(s) \/ Payout!HandBack(s) \/ Payout!WriteAdjust(s)
             \/ Payout!Crash(s) \/ \E d \in Payout!Correction : Payout!StartAdjust(s, d)
      PROVE  PayoutMore'
  <2>1. UNCHANGED <<req, withheld, gross, disputed>> /\ shifts' \in {shifts, shifts + 1}
    BY <1>6 DEF Payout!StartRequest, Payout!ClaimWindow, Payout!HandBack, Payout!WriteAdjust,
       Payout!Crash, Payout!StartAdjust, Payout!Change, Payout!rep, Payout!history
  <2>. QED
    BY <1>1, <1>2, <2>1 DEF PayoutMore
<1>7. ASSUME \/ Payout!OpenWindow \/ Payout!CloseWindow \/ Payout!Settle \/ Payout!CancelSale
             \/ Payout!SwitchCommission \/ Payout!Tick \/ UNCHANGED Payout!vars
             \/ \E f \in Fines : Payout!ApplyFine(f) \/ Payout!WaivePenalty(f)
      PROVE  PayoutMore'
  <2>1. UNCHANGED <<req, withheld, disputed>> /\ shifts' \in {shifts, shifts + 1}
        /\ (gross' \in {gross, gross + 1} \/ (gross > 0 /\ gross' = gross - 1))
    BY <1>7 DEF Payout!OpenWindow, Payout!CloseWindow, Payout!Settle, Payout!CancelSale,
       Payout!SwitchCommission, Payout!Tick, Payout!ApplyFine, Payout!WaivePenalty,
       Payout!Change, Payout!rep, Payout!history, Payout!vars
  <2>. QED
    BY <1>1, <1>2, <2>1 DEF PayoutMore
<1>. QED
  BY <1>3, <1>4, <1>5, <1>6, <1>7 DEF Payout!Next, Payout!Handler

(* The counters and the marks of the bonus. *)
BonusMore ==
  /\ edits \in 0..MaxEdits
  /\ \A v \in Withdrawals : sold[v] >= 0 \/ sold[v] \in {Tier!Unsold, Tier!Cancelled}

LEMMA BonusMoreInit == Tier!Init => BonusMore
BY RepAssumption DEF Tier!Init, BonusMore

LEMMA BonusMoreNext == BonusInv /\ BonusMore /\ [Tier!Next]_Tier!vars => BonusMore'
<1>. SUFFICES ASSUME BonusInv, BonusMore, [Tier!Next]_Tier!vars PROVE BonusMore'
  OBVIOUS
<1>1. sold \in [Withdrawals -> Int] /\ MaxEdits \in Int
  BY RepAssumption DEF BonusInv, BonusTyped
<1>2. \/ edits' = edits \/ (edits < MaxEdits /\ edits' = edits + 1)
  BY DEF Tier!Next, Tier!StartPayment, Tier!StartUpdate, Tier!PayTier, Tier!UpdateRule,
     Tier!Crash, Tier!CancelSale, Tier!Approve, Tier!SetRuleActive, Tier!CreateRule, Tier!Tick,
     Tier!vars
<1>3. CASE \E v \in Withdrawals : Tier!CancelSale(v)
  BY <1>1, <1>2, <1>3 DEF BonusMore, Tier!CancelSale
<1>4. CASE \E v \in Withdrawals, at \in 0..MaxDate : Tier!Approve(v, at)
  BY <1>1, <1>2, <1>4 DEF BonusMore, Tier!Approve
<1>5. CASE sold' = sold
  BY <1>1, <1>2, <1>5 DEF BonusMore
<1>. QED
  BY <1>3, <1>4, <1>5 DEF Tier!Next, Tier!StartPayment, Tier!StartUpdate, Tier!PayTier,
     Tier!UpdateRule, Tier!Crash, Tier!SetRuleActive, Tier!CreateRule, Tier!Tick, Tier!vars

-----------------------------------------------------------------------------
(* The four desks side by side: a step of one leaves the others alone. *)
repVars == <<desk, vars, payoutVars, bonusVars, rateVars>>

LEMMA RepSteps ==
  [RepNext]_repVars => /\ [Next]_vars /\ [Payout!Next]_Payout!vars
                       /\ [Tier!Next]_Tier!vars /\ [Rate!Next]_Rate!vars
<1>. SUFFICES ASSUME [RepNext]_repVars
              PROVE  /\ Next \/ UNCHANGED vars
                     /\ Payout!Next \/ UNCHANGED payoutVars
                     /\ Tier!Next \/ UNCHANGED bonusVars
                     /\ Rate!Next \/ UNCHANGED rateVars
  BY DEF payoutVars, bonusVars, rateVars, Payout!vars, Tier!vars, Rate!vars
<1>. QED
  BY DEF RepNext, repVars

RepInv ==
  /\ OrderInv /\ CounterInv /\ StockInv
  /\ PayoutInv /\ WindowInv /\ PayoutMore
  /\ BonusInv /\ BonusMore
  /\ RateBase /\ CopyInv

LEMMA RepAlways == RepSpec => []RepInv
<1>1. RepInit => RepInv
  BY InitInv, CounterInit, StockInit, PayoutInit, WindowInit, PayoutMoreInit,
     BonusInit, BonusMoreInit, RateInit, CopyInit DEF RepInit, RepInv
<1>2. OrderInv /\ [RepNext]_repVars => OrderInv'
  BY RepSteps, NextKeeps
<1>3. OrderInv /\ OrderInv' /\ CounterInv /\ [RepNext]_repVars => CounterInv'
  BY RepSteps, CounterNext DEF OrderInv
<1>4. PayoutInv /\ WindowInv /\ [RepNext]_repVars => PayoutInv' /\ WindowInv'
  BY RepSteps, PayoutNext, WindowNext
<1>5. PayoutInv /\ PayoutInv' /\ PayoutMore /\ [RepNext]_repVars => PayoutMore'
  BY RepSteps, PayoutMoreNext
<1>6. BonusInv /\ BonusMore /\ [RepNext]_repVars => BonusInv' /\ BonusMore'
  BY RepSteps, BonusNext, BonusMoreNext
<1>7. RateBase /\ [RepNext]_repVars => RateBase'
  BY RepSteps, RateNext
<1>8. RateBase /\ RateBase' /\ CopyInv /\ [RepNext]_repVars => CopyInv'
  BY RepSteps, CopyNext
<1>9. OrderInv /\ OrderInv' /\ StockInv /\ [RepNext]_repVars => StockInv'
  BY RepSteps, StockNext
<1>10. RepInv /\ [RepNext]_repVars => RepInv'
  BY <1>2, <1>3, <1>4, <1>5, <1>6, <1>7, <1>8, <1>9 DEF RepInv
<1>. QED
  BY <1>1, <1>10, PTL DEF RepSpec, repVars

LEMMA PayoutTypes == PayoutInv /\ WindowInv /\ PayoutMore => Payout!TypeOK
<1>. SUFFICES ASSUME PayoutInv, WindowInv, PayoutMore PROVE Payout!TypeOK
  OBVIOUS
<1>1. Payout!Typing
  <2>1. /\ gross \in Nat /\ adjustment \in Int /\ withheld \in Int
        /\ fine \in [Fines -> {"NONE", "APPLIED", "WAIVED"}]
        /\ req \in [Withdrawals -> [status : Payout!Statuses, amount : Nat, emergency : BOOLEAN]]
        /\ asking \in [Handlers -> Payout!Session] /\ shifts \in Nat /\ debits \in Nat
        /\ disputed \subseteq Withdrawals
    BY DEF PayoutInv, PayoutTyped, PayoutMore
  <2>2. onCommission \in BOOLEAN /\ raced \in BOOLEAN
    BY Zenon DEF PayoutInv, PayoutTyped
  <2>3. windowAt \in Nat \cup {Payout!Closed} /\ clock \in Nat /\ opened \in Nat
    BY DEF WindowInv, WindowTyped
  <2>. QED
    BY <2>1, <2>2, <2>3, Zenon DEF Payout!Typing
<1>2. withheld
        = SumFunction([w \in {v \in Withdrawals : req[v].status \in Payout!Live} |-> req[w].amount])
  BY DEF PayoutMore, WithheldAddsUp, Amounts
<1>. QED
  BY <1>1, <1>2, PayoutSums, Zenon DEF Payout!TypeOK

LEMMA BonusTypes == BonusInv /\ BonusMore => Tier!TypeOK
<1>. SUFFICES ASSUME BonusInv, BonusMore PROVE Tier!TypeOK
  OBVIOUS
<1>1. /\ rule \in [Tiers -> TierRow] /\ date \in 0..MaxDate /\ edits \in 0..MaxEdits
      /\ sold \in [Withdrawals -> Int]
  BY DEF BonusInv, BonusTyped, BonusMore
<1>2. tangled \in BOOLEAN
  BY Zenon DEF BonusInv, BonusTyped
<1>3. \A v \in Withdrawals : sold[v] \in {Tier!Unsold, Tier!Cancelled} \cup 0..MaxDate
  <2>. SUFFICES ASSUME NEW v \in Withdrawals, sold[v] \notin {Tier!Unsold, Tier!Cancelled}
                PROVE  sold[v] \in 0..MaxDate
    OBVIOUS
  <2>1. sold[v] \in Int /\ sold[v] >= 0 /\ sold[v] <= date /\ date <= MaxDate /\ date \in Int
        /\ MaxDate \in Int
    BY <1>1, RepAssumption DEF BonusInv, SalesDated, BonusMore
  <2>. QED
    BY <2>1
<1>4. sold \in [Withdrawals -> {Tier!Unsold, Tier!Cancelled} \cup 0..MaxDate]
  <2>. HIDE DEF Tier!Unsold, Tier!Cancelled
  <2>. QED
    BY <1>1, <1>3
<1>5. \A a \in awards : a.tier \in Tiers /\ a.counted \subseteq Withdrawals /\ a.paidAt \in 0..date
  BY <1>1 DEF BonusInv, BonusTyped, SalesDated, Award
<1>. QED
  BY <1>1, <1>2, <1>4, <1>5, Zenon DEF Tier!TypeOK, TierRow

LEMMA RateTypes == RateBase /\ CopyInv => Rate!TypeOK
<1>. SUFFICES ASSUME RateBase, CopyInv PROVE Rate!TypeOK
  OBVIOUS
<1>1. /\ rates \subseteq [brand : Brands \cup {Others}, perBox : 1..MaxRate, from : 0..MaxDay]
      /\ key \in [Brands -> Names] /\ brandOf \in [Soap -> Brands] /\ day \in 0..MaxDay
  BY DEF RateBase, RateTyped, Row
<1>2. ASSUME NEW v \in Processes, cache[v] # Rate!Cold PROVE cache[v].at \in 0..day
  <2>1. cache[v] \in [rows : SUBSET TableRow, at : 0..MaxDay]
    BY <1>2, KeptCopy DEF CopyInv, Kept
  <2>2. cache[v].at \in 0..MaxDay /\ cache[v].at <= day
    BY <1>2, <2>1 DEF CopyInv, CopyTyped, Kept
  <2>. QED
    BY <1>1, <2>2
<1>. QED
  BY <1>1, <1>2 DEF Rate!TypeOK

OnDesk == desk \in {"orders", "payout", "bonus", "rates"}

(* No row of an order, a payout, a bonus or a rate leaves its type, and    *)
(* what is withheld from a commission balance is the sum of the requests   *)
(* not rejected, however the handlers interleave.                          *)
THEOREM RepTypesHold == RepSpec => []RepTypeOK
<1>1. RepInit => OnDesk
  BY DEF RepInit, OnDesk
<1>2. OnDesk /\ [RepNext]_repVars => OnDesk'
  BY DEF RepNext, repVars, OnDesk
<1>3. RepInv /\ OnDesk => RepTypeOK
  <2>. SUFFICES ASSUME RepInv, OnDesk PROVE RepTypeOK
    OBVIOUS
  <2>1. TypeOK /\ Payout!TypeOK /\ Tier!TypeOK /\ Rate!TypeOK
    BY PayoutTypes, BonusTypes, RateTypes DEF RepInv, OrderInv
  <2>. QED
    BY <2>1, Zenon DEF RepTypeOK, OnDesk
<1>. QED
  BY <1>1, <1>2, <1>3, RepAlways, PTL DEF RepSpec, repVars

(* However many requests, decisions, fines and corrections interleave, the *)
(* rep is below zero by no more than what was taken off, unless two        *)
(* requests, or two decisions on one, were under way at once; and a window *)
(* the owner opened serves one request, unless two decisions met on one.   *)
THEOREM RequestsAlwaysFit == RepSpec => []RequestsFit
<1>1. RepInv => RequestsFit
  <2>1. PayoutInv => Payout!NeverOverdrawn
    BY FinesCount DEF PayoutInv, Fits, Payout!NeverOverdrawn, Purse
  <2>. QED
    BY <2>1, WindowsServeOnce DEF RepInv, RequestsFit
<1>. QED
  BY <1>1, RepAlways, PTL

(* A request decided on by nobody else at the time is final once rejected  *)
(* or paid.                                                                *)
LEMMA DecisionsHold ==
  PayoutInv /\ [Payout!Next]_Payout!vars => Payout!Stands \/ UNCHANGED Payout!vars
<1>. SUFFICES ASSUME PayoutInv, Payout!Next,
                     NEW w \in Withdrawals \ disputed, req[w].status \in {"REJECTED", "PAID"}
              PROVE  req'[w] = req[w]
  BY DEF Payout!Stands
<1>. USE DEF PayoutInv
<1>1. ASSUME NEW s \in Handlers, NEW v \in Withdrawals, Payout!CreateRequest(s, v)
      PROVE  req'[w] = req[w]
  BY <1>1 DEF Payout!CreateRequest, PayoutTyped
<1>2. ASSUME NEW s \in Handlers, Payout!WriteDecision(s)
      PROVE  req'[w] = req[w]
  <2>1. asking[s].pc = "decide" /\ asking[s].row \in Withdrawals
    BY <1>2 DEF Payout!WriteDecision, PayoutTyped, Payout!Session, Payout!Idle
  <2>2. asking[s].row # w
    BY <2>1 DEF OneDecides, Deciding, Payout!Decidable
  <2>. QED
    BY <1>2, <2>1, <2>2 DEF Payout!WriteDecision, PayoutTyped
<1>3. CASE req' = req
  BY <1>3
<1>. QED
  BY <1>1, <1>2, <1>3 DEF Payout!Next, Payout!Handler, Payout!StartRequest, Payout!ClaimWindow,
     Payout!StartDecision, Payout!HandBack, Payout!StartAdjust, Payout!WriteAdjust, Payout!Crash,
     Payout!OpenWindow, Payout!CloseWindow, Payout!ApplyFine, Payout!WaivePenalty,
     Payout!Settle, Payout!CancelSale, Payout!SwitchCommission, Payout!Tick

(* A request that was rejected or paid stays so, unless two decisions      *)
(* worked on it at once; and what a box of an order already issued earns   *)
(* never changes, whatever rates are written or deleted, but by a move of  *)
(* its product or of its brand's name.                                     *)
THEOREM DecisionsAlwaysStand == RepSpec => DecisionsStand
<1>1. RepInv /\ [RepNext]_repVars => [desk = "payout" => Payout!Stands]_payoutVars
  <2>1. UNCHANGED Payout!vars => UNCHANGED payoutVars
    BY DEF Payout!vars, payoutVars
  <2>. QED
    BY <2>1, DecisionsHold, RepSteps DEF RepInv
<1>2. RepInv /\ RepInv' /\ [RepNext]_repVars => [desk = "rates" => Rate!PriceStands]_rateVars
  BY PricesStand, RepSteps DEF RepInv
<1>. QED
  BY <1>1, <1>2, RepAlways, PTL DEF RepSpec, repVars, DecisionsStand

(* A sale counts toward one bonus, and the rule behind an award still says *)
(* what was paid and asked, unless two payments, or a payment and an edit, *)
(* overlapped; and a box has one price, which every process quotes but for *)
(* a copy it read just before a write.                                     *)
THEOREM AwardsAlwaysStand == RepSpec => []AwardsStand
<1>1. RepInv => AwardsStand
  BY AwardsHold, QuotesHold DEF RepInv, AwardsStand
<1>. QED
  BY <1>1, RepAlways, PTL

-----------------------------------------------------------------------------
(* What the pages offer and what the services take.                        *)

(* A row that starts later than t prices no box of an order issued at t.   *)
LEMMA LaterRowPricesNothing ==
  ASSUME NEW R, NEW r, NEW t, ~(r.from <= t), NEW k
  PROVE  Rate!Pick(Rate!TableOf(R \cup {r}), k, t) = Rate!Pick(Rate!TableOf(R), k, t)
<1>1. Rate!TableOf(R) = {Named(q) : q \in R}
      /\ Rate!TableOf(R \cup {r}) = {Named(q) : q \in R \cup {r}}
  BY DEF Rate!TableOf, Named
<1>2. Named(r).from = r.from
  BY DEF Named
<1>3. {Named(q) : q \in R \cup {r}} = {Named(q) : q \in R} \cup {Named(r)}
  OBVIOUS
<1>4. Started(Rate!TableOf(R \cup {r}), t) = Started(Rate!TableOf(R), t)
  BY <1>1, <1>2, <1>3 DEF Started
<1>. QED
  BY <1>4, PickOfStarted

LEMMA RatePages == RateBase => Rate!PagesAgree
<1>. SUFFICES ASSUME RateBase PROVE Rate!PagesAgree
  OBVIOUS
<1> DEFINE Prices(rows) ==
             [p \in Soap |-> [t \in 0..day |-> Rate!Pick(Rate!TableOf(rows), key[brandOf[p]], t)]]
<1>1. /\ day \in 0..MaxDay /\ MaxDay \in Nat
      /\ \A r \in Row : r.from \in 0..MaxDay
      /\ rates \subseteq Row
  BY RepAssumption DEF RateBase, RateTyped, Row
<1>2. ASSUME NEW r \in Row, r.from > day, NEW R, NEW t \in 0..day, NEW k
      PROVE  Rate!Pick(Rate!TableOf(R \cup {r}), k, t) = Rate!Pick(Rate!TableOf(R), k, t)
  <2>1. ~(r.from <= t)
    BY <1>1, <1>2
  <2>. QED
    BY <2>1, LaterRowPricesNothing
<1>3. ASSUME NEW r \in Row, r.from > day, NEW R
      PROVE  Prices(R \cup {r}) = Prices(R)
  BY <1>2, <1>3
<1>4. \A r \in Rate!RateForm : Prices(rates \cup {r}) = Prices(rates)
  <2>1. \A r \in Rate!RateForm : r \in Row /\ r.from > day
    BY DEF Rate!RateForm, Row
  <2>. HIDE DEF Prices
  <2>. QED
    BY <2>1, <1>3
<1>5. \A r \in Rate!RemoveOffered : Prices(rates \ {r}) = Prices(rates)
  <2>1. \A r \in Rate!RemoveOffered : r \in Row /\ r.from > day /\ (rates \ {r}) \cup {r} = rates
    BY <1>1 DEF Rate!RemoveOffered
  <2>. HIDE DEF Prices
  <2>. QED
    BY <2>1, <1>3
<1>6. \A p \in Soap : Rate!RateCard[p] = Prices(rates)[p][day]
  <2>1. day \in 0..day
    BY <1>1
  <2>. QED
    BY <2>1 DEF Rate!RateCard, Rate!BoxRate, Rate!Table
<1>. QED
  BY <1>4, <1>5, <1>6 DEF Rate!PagesAgree


(* Zero or a distance, whichever is larger. *)
LEMMA AtLeastZero ==
  ASSUME NEW x \in Int
  PROVE  /\ x <= 0 => Tier!Max({0, x}) = 0
         /\ x > 0 => Tier!Max({0, x}) = x
<1>1. \E y \in {0, x} : \A z \in {0, x} : y >= z
  OBVIOUS
<1>2. Tier!Max({0, x}) \in {0, x} /\ \A z \in {0, x} : Tier!Max({0, x}) >= z
  BY <1>1 DEF Tier!Max
<1>3. Tier!Max({0, x}) \in Int
  BY <1>2
<1>. QED
  BY <1>2, <1>3

(* Of the tiers in play some are within reach, and each part has a dearest *)
(* and a cheapest.                                                         *)
LEMMA TiersInPlay ==
  ASSUME BonusTyped
  PROVE  /\ Tier!activeTiers \subseteq Tiers /\ Tier!Reached \subseteq Tier!activeTiers
         /\ \A t \in Tiers : rule[t].target \in 0..MaxTarget
         /\ Tier!Reward \in Nat
         /\ \A t \in Tier!activeTiers : t \in Tier!Reached <=> Tier!Reward >= rule[t].target
<1>1. Tier!QualifyingSales \subseteq Withdrawals
  BY DEF Tier!QualifyingSales
<1>2. IsFiniteSet(Tier!QualifyingSales)
  BY <1>1, RepAssumption, FS_Subset
<1>3. Cardinality(Tier!QualifyingSales) \in Nat
  BY <1>2, FS_CardinalityType
<1>4. Tier!Reward = Cardinality(Tier!QualifyingSales)
  BY DEF Tier!Reward, Tier!Cardinality, Cardinality
<1>5. Tier!Reward \in Nat
  BY <1>3, <1>4
<1>6. \A t \in Tiers : rule[t].target \in 0..MaxTarget
  BY DEF BonusTyped, TierRow
<1>7. Tier!activeTiers \subseteq Tiers
  BY DEF Tier!activeTiers
<1>8. Tier!Reached = {t \in Tier!activeTiers : Tier!Reward >= rule[t].target}
  BY DEF Tier!Reached, Tier!Reward
<1>. QED
  BY <1>5, <1>6, <1>7, <1>8

LEMMA TargetsBounded ==
  ASSUME BonusTyped, NEW S, S \subseteq Tiers, S # {}
  PROVE  /\ \E t \in S : \A u \in S : rule[u].target <= rule[t].target
         /\ \E t \in S : \A u \in S : rule[t].target <= rule[u].target
<1> DEFINE T == {rule[t].target : t \in S}
           f == [x \in T |-> x]
           g == [x \in T |-> MaxTarget - x]
<1>1. T \subseteq 0..MaxTarget /\ T # {} /\ MaxTarget \in Nat
  BY RepAssumption DEF BonusTyped, TierRow
<1>2. \A t \in S : rule[t].target \in T
  OBVIOUS
<1>3. \A x \in T : \E t \in S : x = rule[t].target
  OBVIOUS
<1>. HIDE DEF T
<1>4. IsFiniteSet(T)
  <2>1. 0 \in Int /\ MaxTarget \in Int
    BY <1>1
  <2>. QED
    BY <1>1, <2>1, FS_Interval, FS_Subset
<1>5. \A x \in T : x \in Int /\ f[x] = x /\ g[x] = MaxTarget - x /\ f[x] \in Int /\ g[x] \in Int
  BY <1>1
<1>. HIDE DEF f, g
<1>6. PICK x \in T : \A y \in T : f[y] <= f[x]
  BY <1>1, <1>4, <1>5, LargestExists
<1>7. PICK z \in T : \A y \in T : g[y] <= g[z]
  BY <1>1, <1>4, <1>5, LargestExists
<1>8. \A y \in T : y <= x /\ z <= y
  BY <1>1, <1>5, <1>6, <1>7
<1>. QED
  BY <1>2, <1>3, <1>8

LEMMA TierPages == BonusInv => Tier!PagesAgree
<1>. SUFFICES ASSUME BonusInv PROVE Tier!PagesAgree
  OBVIOUS
<1>1. BonusTyped
  BY DEF BonusInv
<1>2. /\ Tier!activeTiers \subseteq Tiers /\ Tier!Reached \subseteq Tier!activeTiers
      /\ \A t \in Tiers : rule[t].target \in 0..MaxTarget
      /\ Tier!Reward \in Nat
      /\ \A t \in Tier!activeTiers : t \in Tier!Reached <=> Tier!Reward >= rule[t].target
  BY <1>1, TiersInPlay
<1>3. ASSUME NEW t \in Tier!activeTiers
      PROVE  /\ t \in Tier!Reached => Tier!Remaining(t) = 0
             /\ t \notin Tier!Reached => Tier!Remaining(t) > 0
  <2>1. rule[t].target - Tier!Reward \in Int /\ MaxTarget \in Nat /\ rule[t].target \in Int
    BY <1>2, RepAssumption
  <2>2. Tier!Remaining(t) = Tier!Max({0, rule[t].target - Tier!Reward})
    BY DEF Tier!Remaining
  <2>. QED
    BY <1>2, <2>1, <2>2, AtLeastZero
<1>4. Tier!Claimable \subseteq Tier!Reached /\ (Tier!Reached # {} => Tier!Claimable # {})
  <2>1. Tier!Reached \subseteq Tiers
    BY <1>2
  <2>2. Tier!Reached # {}
          => \E t \in Tier!Reached : \A u \in Tier!Reached : rule[u].target <= rule[t].target
    BY <1>1, <2>1, TargetsBounded
  <2>. QED
    BY <2>2 DEF Tier!Claimable
<1>5. /\ Tier!NextTier \subseteq Tier!activeTiers \ Tier!Reached
      /\ Tier!NextTier = {} => Tier!activeTiers = Tier!Reached
  <2>1. Tier!activeTiers \ Tier!Reached \subseteq Tiers
    BY <1>2
  <2>2. Tier!activeTiers \ Tier!Reached # {}
          => \E t \in Tier!activeTiers \ Tier!Reached :
               \A u \in Tier!activeTiers \ Tier!Reached : rule[t].target <= rule[u].target
    BY <1>1, <2>1, TargetsBounded
  <2>. QED
    BY <1>2, <2>2 DEF Tier!NextTier
<1>6. \A t \in Tier!PayOffered : Tier!PaysFor(t) = {t}
  BY <1>2 DEF Tier!PayOffered, Tier!PaysFor
<1>7. \A t \in Tier!activeTiers : Tier!PaysFor(t) # {} => t \in Tier!PayOffered
  BY DEF Tier!PayOffered, Tier!PaysFor
<1>8. \A t \in Tiers : t \in Tier!EditOffered <=> Tier!Exists(t) /\ Tier!Editable(t)
  BY DEF Tier!EditOffered, Tier!Editable
<1>9. Tier!Ready <=> Tier!PayOffered # {}
  BY <1>4 DEF Tier!Ready, Tier!Earned, Tier!PayOffered
<1>10. ASSUME NEW t \in Tier!Earned, NEW u \in Tier!NextTier
       PROVE  rule[t].target < rule[u].target /\ Tier!Remaining(t) = 0 /\ Tier!Remaining(u) > 0
  <2>1. t \in Tier!Reached /\ u \in Tier!activeTiers \ Tier!Reached
    BY <1>4, <1>5 DEF Tier!Earned
  <2>2. Tier!Reward >= rule[t].target /\ ~(Tier!Reward >= rule[u].target)
        /\ rule[t].target \in Int /\ rule[u].target \in Int
    BY <1>2, <2>1, RepAssumption
  <2>3. rule[t].target < rule[u].target
    BY <1>2, <2>2
  <2>. QED
    BY <1>2, <1>3, <2>1, <2>3
<1>11. ASSUME NEW t \in Tier!Aim, Tier!Remaining(t) = 0
       PROVE  Tier!activeTiers = Tier!Reached
  <2>1. ASSUME Tier!NextTier # {} PROVE FALSE
    <3>1. t \in Tier!activeTiers \ Tier!Reached
      BY <1>5, <2>1 DEF Tier!Aim
    <3>. QED
      BY <1>3, <1>11, <3>1
  <2>. QED
    BY <1>5, <2>1
<1>12. ASSUME Tier!Configured, NEW v \in Tier!QualifyingSales, NEW a \in awards
       PROVE  sold[v] >= a.paidAt
  <2>1. Tier!CycleStart \in 0..MaxDate /\ a.paidAt <= Tier!CycleStart
    BY <1>1, <1>12, RunBegins DEF Tier!Configured
  <2>2. v \in Withdrawals /\ sold[v] >= Tier!CycleStart
    BY DEF Tier!QualifyingSales
  <2>3. sold[v] \in Int /\ a.paidAt \in Int /\ Tier!CycleStart \in Int
    BY <1>1, <2>1, <2>2, RepAssumption DEF BonusTyped, Award
  <2>. QED
    BY <2>1, <2>2, <2>3
<1>. QED
  BY <1>6, <1>7, <1>8, <1>9, <1>10, <1>11, <1>12 DEF Tier!PagesAgree

(* What a balance withholds comes apart by status. *)
LEMMA WithheldByStatus ==
  ASSUME PayoutTyped, WithheldAddsUp
  PROVE  /\ withheld = Payout!SumOf({"APPROVED", "PAID"}) + Payout!SumOf({"PENDING"})
         /\ Payout!SumOf({"APPROVED", "PAID"}) \in Int /\ Payout!SumOf({"PENDING"}) \in Int
<1> DEFINE f == Amounts(req, Payout!Live)
           g == Amounts(req, {"APPROVED", "PAID"})
           k == Amounts(req, {"PENDING"})
<1>1. req \in [Withdrawals -> [status : Payout!Statuses, amount : Nat, emergency : BOOLEAN]]
  BY DEF PayoutTyped
<1>2. /\ Payout!SumOf({"APPROVED", "PAID"}) = SumFunction(g)
      /\ Payout!SumOf({"PENDING"}) = SumFunction(k)
      /\ withheld = SumFunction(f)
  BY PayoutSums DEF Payout!SumOf, Amounts, WithheldAddsUp
<1>3. DOMAIN g \in SUBSET DOMAIN f /\ DOMAIN k = DOMAIN f \ DOMAIN g
  BY DEF Amounts, Payout!Live
<1>4. IsFiniteSet(DOMAIN f) /\ \A x \in DOMAIN f : f[x] = req[x].amount /\ f[x] \in Int
  <2>. HIDE DEF f
  <2>1. IsFiniteSet(DOMAIN f) /\ \A x \in DOMAIN f : f[x] = req[x].amount /\ req[x].amount \in Nat
    BY <1>1, AmountsType DEF f
  <2>. QED
    BY <2>1
<1>5. IsFiniteSet(DOMAIN g) /\ \A x \in DOMAIN g : g[x] = req[x].amount
  <2>. HIDE DEF g
  <2>1. IsFiniteSet(DOMAIN g) /\ \A x \in DOMAIN g : g[x] = req[x].amount
    BY <1>1, AmountsType DEF g
  <2>. QED
    BY <2>1
<1>6. IsFiniteSet(DOMAIN k) /\ \A x \in DOMAIN k : k[x] = req[x].amount
  <2>. HIDE DEF k
  <2>1. IsFiniteSet(DOMAIN k) /\ \A x \in DOMAIN k : k[x] = req[x].amount
    BY <1>1, AmountsType DEF k
  <2>. QED
    BY <2>1
<1>. HIDE DEF f, g, k
<1>7. SumFunctionOnSet(f, DOMAIN f)
        = SumFunctionOnSet(f, DOMAIN g) + SumFunctionOnSet(f, DOMAIN f \ DOMAIN g)
  BY <1>3, <1>4, SumOfParts
<1>8. SumFunctionOnSet(f, DOMAIN g) = SumFunctionOnSet(g, DOMAIN g)
  <2>1. \A x \in DOMAIN g : f[x] = g[x]
    BY <1>3, <1>4, <1>5
  <2>. QED
    BY <1>5, <2>1, SumOfSame
<1>9. SumFunctionOnSet(f, DOMAIN k) = SumFunctionOnSet(k, DOMAIN k)
  <2>1. \A x \in DOMAIN k : f[x] = k[x]
    BY <1>3, <1>4, <1>6
  <2>. QED
    BY <1>6, <2>1, SumOfSame
<1>10. SumFunction(f) = SumFunction(g) + SumFunction(k)
  BY <1>3, <1>7, <1>8, <1>9 DEF SumFunction
<1>11. SumFunction(g) \in Int /\ SumFunction(k) \in Int
  <2>1. (\A x \in DOMAIN g : g[x] \in Int) /\ (\A x \in DOMAIN k : k[x] \in Int)
    BY <1>3, <1>4, <1>5, <1>6
  <2>. QED
    BY <1>5, <1>6, <2>1, SumFunctionIsInt
<1>. QED
  BY <1>2, <1>10, <1>11

LEMMA PayoutPages == PayoutInv /\ PayoutMore => Payout!PagesAgree
<1>. SUFFICES ASSUME PayoutInv, PayoutMore PROVE Payout!PagesAgree
  OBVIOUS
<1> DEFINE A == Payout!Available
           open == Payout!EmergencyOpen
<1>1. /\ PayoutTyped /\ WithheldAddsUp
      /\ Minimum \in Nat /\ Minimum >= 1 /\ MaxAmount \in Nat /\ Floor \in 1..MaxAmount
  BY RepAssumption DEF PayoutInv, PayoutMore
<1>2. /\ onCommission => A = gross + adjustment - withheld - Fined
      /\ ~onCommission => A = 0
  BY <1>1, FinesCount DEF Payout!Available
<1>3. A \in Int
  <2>1. Fined \in Nat /\ gross \in Int /\ adjustment \in Int /\ withheld \in Int
    BY <1>1, PurseIsInt DEF PayoutTyped
  <2>. QED
    BY <1>2, <2>1
<1>4. open => onCommission /\ Payout!WindowOpen
  BY DEF Payout!EmergencyOpen
<1>5. /\ Payout!Eligible <=> (onCommission /\ (A >= Minimum \/ (open /\ A >= Floor)))
      /\ Payout!EligibleWhen(TRUE) <=> (onCommission /\ (A >= Minimum \/ A >= Floor))
  BY DEF Payout!Eligible, Payout!EligibleWhen
<1>6. /\ open /\ A < Minimum => Payout!EmergencyFloor = Floor
      /\ ~(open /\ A < Minimum) => Payout!EmergencyFloor = 0
  BY DEF Payout!EmergencyFloor
<1>7. \A a \in 1..MaxAmount :
        Payout!Takes(a) <=> (a <= A /\ (A >= Minimum \/ (open /\ a >= Floor)))
  BY DEF Payout!Takes, Payout!WithinBalance, Payout!Ordinary
<1>8. \A a : a \in Payout!WithdrawForm
        <=> a \in 1..MaxAmount /\ Payout!Eligible /\ a <= A /\ a >= Payout!EmergencyFloor
  BY DEF Payout!WithdrawForm
<1>9. /\ Payout!RepPage.withdraw = Payout!Eligible
      /\ Payout!RepPage.negative = (A < 0)
      /\ Payout!RepPage.waiting
           = Payout!Cardinality({w \in Withdrawals : req[w].status = "PENDING"})
  BY DEF Payout!RepPage
<1>10. Payout!RepPage.waiting = Payout!AdminCards.waiting
  <2>1. \A w \in Withdrawals :
          Payout!DecisionsOffered(w) = {"PAID", "REJECTED"} <=> req[w].status = "PENDING"
    BY DEF Payout!DecisionsOffered
  <2>2. {w \in Withdrawals : Payout!DecisionsOffered(w) = {"PAID", "REJECTED"}}
          = {w \in Withdrawals : req[w].status = "PENDING"}
    BY <2>1
  <2>. QED
    BY <1>9, <2>2 DEF Payout!AdminCards
<1>11. ASSUME NEW w \in Withdrawals
       PROVE  /\ \A to \in Payout!DecisionsOffered(w) : Payout!Decidable(w, to)
              /\ req[w].status \in {"PENDING", "APPROVED"} => "PAID" \in Payout!DecisionsOffered(w)
              /\ "PAID" \in Payout!DecisionsOffered(w)
                   => Payout!AvailableOnce(w, "PAID") = A
  <2>1. req[w].amount \in Nat
    BY <1>1 DEF PayoutTyped
  <2>2. \A to \in Payout!DecisionsOffered(w) : Payout!Decidable(w, to)
    BY DEF Payout!DecisionsOffered, Payout!Decidable
  <2>3. req[w].status \in {"PENDING", "APPROVED"} => "PAID" \in Payout!DecisionsOffered(w)
    BY DEF Payout!DecisionsOffered
  <2>4. "PAID" \in Payout!DecisionsOffered(w) => req[w].status \in {"PENDING", "APPROVED"}
    BY DEF Payout!DecisionsOffered
  <2>5. req[w].status \in {"PENDING", "APPROVED"} => Payout!AvailableOnce(w, "PAID") = A
    <3>. HIDE DEF A
    <3>1. Payout!AvailableOnce(w, "PAID")
            = A + Payout!Counted(req[w].status, req[w].amount) - Payout!Counted("PAID", req[w].amount)
      BY DEF Payout!AvailableOnce, A
    <3>. QED
      BY <1>3, <2>1, <3>1 DEF Payout!Counted, Payout!Live
  <2>. QED
    BY <2>2, <2>3, <2>4, <2>5
<1>12. Payout!LeftAfter = IF A > 0 THEN A ELSE 0
  BY DEF Payout!LeftAfter
<1>13. Payout!AllowOffered
         <=> (/\ onCommission /\ ~open /\ A < Minimum
              /\ A >= (IF Payout!EmergencyFloor # 0 THEN Payout!EmergencyFloor ELSE Floor))
  BY DEF Payout!AllowOffered
<1>14. Payout!CloseOffered => windowAt # Payout!Closed
  BY DEF Payout!CloseOffered, Payout!EmergencyOpen, Payout!WindowOpen
<1>15. Payout!ShortOfMinimum = IF A >= Minimum THEN 0 ELSE Minimum - A
  BY DEF Payout!ShortOfMinimum
<1>16. \A f \in Payout!Active : fine[f] = "APPLIED"
  BY <1>1 DEF Payout!Active, PayoutTyped
<1>17. /\ Payout!BalanceRow.earned - Payout!BalanceRow.penalties - Payout!BalanceRow.paid
            - Payout!BalanceRow.requested = Payout!BalanceRow.available
       /\ Payout!AdminCards.available = Payout!BalanceRow.available
       /\ onCommission => Payout!AdminCards.requested = Payout!BalanceRow.requested
  <2> DEFINE paid == Payout!SumOf({"APPROVED", "PAID"})
             asked == Payout!SumOf({"PENDING"})
  <2>1. withheld = paid + asked /\ paid \in Int /\ asked \in Int
    BY <1>1, WithheldByStatus
  <2>2. Payout!FineTotal = Fined /\ Fined \in Int /\ gross \in Int /\ adjustment \in Int
    BY <1>1, FinesCount, PurseIsInt DEF PayoutTyped
  <2>3. /\ Payout!BalanceRow.earned = IF onCommission THEN gross + adjustment ELSE 0
        /\ Payout!BalanceRow.penalties = IF onCommission THEN Payout!FineTotal ELSE 0
        /\ Payout!BalanceRow.paid = IF onCommission THEN paid ELSE 0
        /\ Payout!BalanceRow.requested = IF onCommission THEN asked ELSE 0
        /\ Payout!BalanceRow.available = A
    BY DEF Payout!BalanceRow
  <2>4. Payout!AdminCards.available = A /\ Payout!AdminCards.requested = asked
    BY DEF Payout!AdminCards
  <2>. HIDE DEF paid, asked, A
  <2>. QED
    BY <1>2, <2>1, <2>2, <2>3, <2>4
<1>. HIDE DEF A, open
<1>18. Payout!WithdrawForm = {a \in 1..MaxAmount : Payout!Takes(a)}
  <2>1. ASSUME NEW a \in 1..MaxAmount
        PROVE  (Payout!Eligible /\ a <= A /\ a >= Payout!EmergencyFloor) <=> Payout!Takes(a)
    <3>1. a \in Nat /\ a >= 1 /\ Floor \in Nat
      BY <1>1
    <3>2. a <= A => onCommission
      BY <1>2, <1>3, <3>1
    <3>. QED
      BY <1>1, <1>3, <1>5, <1>6, <1>7, <3>1, <3>2
  <2>. QED
    BY <1>8, <2>1
<1>19. Payout!Eligible <=> Payout!WithdrawForm # {}
  <2>1. ASSUME Payout!Eligible PROVE \E a \in 1..MaxAmount : a <= A /\ a >= Payout!EmergencyFloor
    <3>1. CASE A >= Minimum
      <4>1. 1 \in 1..MaxAmount /\ 1 <= A /\ 1 >= Payout!EmergencyFloor
        BY <1>1, <1>3, <1>6, <3>1
      <4>. QED
        BY <4>1
    <3>2. CASE ~(A >= Minimum)
      <4>1. Floor \in 1..MaxAmount /\ Floor <= A /\ Floor >= Payout!EmergencyFloor
        BY <1>1, <1>3, <1>5, <1>6, <2>1, <3>2
      <4>. QED
        BY <4>1
    <3>. QED
      BY <3>1, <3>2
  <2>. QED
    BY <1>8, <2>1
<1>20. A < 0 => ~Payout!Eligible
  BY <1>1, <1>3, <1>5
<1>21. Payout!AllowOffered <=> (~open /\ Payout!EligibleWhen(TRUE) /\ ~Payout!Eligible)
  <2>1. CASE open
    BY <1>13, <2>1
  <2>2. CASE ~open
    <3>1. Payout!EmergencyFloor = 0
      BY <1>6, <2>2
    <3>2. Payout!AllowOffered <=> (onCommission /\ A < Minimum /\ A >= Floor)
      BY <1>13, <2>2, <3>1
    <3>3. A < Minimum <=> ~(A >= Minimum)
      BY <1>1, <1>3
    <3>. QED
      BY <1>5, <2>2, <3>2, <3>3, Zenon
  <2>. QED
    BY <2>1, <2>2, Zenon
<1>22. Payout!ShortOfMinimum = 0 /\ onCommission => Payout!Eligible
  BY <1>1, <1>3, <1>5, <1>15
<1>23. \A w \in Withdrawals :
         /\ \A to \in Payout!DecisionsOffered(w) : Payout!Decidable(w, to)
         /\ req[w].status \in {"PENDING", "APPROVED"} => "PAID" \in Payout!DecisionsOffered(w)
         /\ "PAID" \in Payout!DecisionsOffered(w) /\ onCommission =>
              Payout!LeftAfter = (IF Payout!AvailableOnce(w, "PAID") > 0
                                  THEN Payout!AvailableOnce(w, "PAID") ELSE 0)
  BY <1>11, <1>12
<1>. QED
  BY <1>9, <1>10, <1>14, <1>16, <1>17, <1>18, <1>19, <1>20, <1>21, <1>22, <1>23
     DEF Payout!PagesAgree, open

(* What a page of an order counts as waiting or left. *)
LEMMA OrderCounts ==
  ASSUME TypeOK, CountersAreSums, NEW o \in Orders, NEW p \in Products
  PROVE  /\ SubmittedBoxes(o, p, "PENDING") \in Nat /\ ReturnBoxes(o, p, "PENDING") \in Nat
         /\ issued[o][p] \in Nat /\ settled[o][p] \in Nat /\ returned[o][p] \in Nat
         /\ Outstanding(o, p) = issued[o][p] - settled[o][p] - returned[o][p]
<1> DEFINE S == SubmissionsOf(o, p, "PENDING")
           f == [i \in S |-> sub[i].n]
<1>1. IsFiniteSet(S) /\ S \subseteq DOMAIN sub
  BY RowsAreLike, FS_Subset DEF SubmissionsOf, SaleLike
<1>2. \A i \in S : sub[i].n \in Nat
  BY <1>1, RowsAreLike DEF SaleLike
<1>. HIDE DEF S
<1>3. DOMAIN f = S /\ \A i \in S : f[i] \in Nat
  BY <1>2
<1>4. SubmittedBoxes(o, p, "PENDING") = SumFunction(f)
  BY DEF SubmittedBoxes, S
<1>. HIDE DEF f
<1>5. SubmittedBoxes(o, p, "PENDING") \in Nat
  BY <1>1, <1>3, <1>4, SumFunctionIsNat
<1>6. ReturnBoxes(o, p, "PENDING") \in Nat
  BY SumsNow, RowsAreLike, BoxesMoveAtRow
<1>7. issued[o][p] \in Nat /\ settled[o][p] \in Nat /\ returned[o][p] \in Nat
  BY SettledIsNat DEF TypeOK
<1>. QED
  BY <1>5, <1>6, <1>7 DEF Outstanding

LEMMA OrderPages == OrderInv /\ CounterInv => FormsAreAccepted
<1>. SUFFICES ASSUME OrderInv, CounterInv, NEW o \in Placed, NEW who \in {"staff", "rep"}
              PROVE
    /\ "settle" \in Offers(o, who) =>
         \A f \in SettleForm(o) : CanSubmit(o, f[1], f[2])
    /\ "return" \in Offers(o, who) =>
         \A f \in ReturnForm(o) : CanReturn(o, f[1], f[2])
    /\ "close" \in Offers(o, who) => CanClose(o)
    /\ "more time" \in Offers(o, who) => CanSelfExtend(o)
    /\ "extend" \in Offers(o, who) => status[o] \in Unpaid
    /\ "undo" \in Offers(o, who) => CanUndo(o)
  BY DEF FormsAreAccepted
<1>1. TypeOK /\ CountersAreSums
  BY DEF OrderInv, CounterInv
<1>2. o \in Orders /\ status[o] # "NONE"
  BY DEF Placed
<1>3. Settled(o) <=> status[o] = "SETTLED"
  BY DEF Settled, EffectiveStatus
<1>4. ~Settled(o) => status[o] \in Unpaid
  BY <1>1, <1>2, <1>3 DEF TypeOK, Status
<1>5. \A b : b \in Offers(o, who) => ~Settled(o)
  BY DEF Offers
<1>6. ASSUME NEW p \in Products
      PROVE  /\ SubmittedBoxes(o, p, "PENDING") \in Nat /\ ReturnBoxes(o, p, "PENDING") \in Nat
             /\ issued[o][p] \in Nat /\ settled[o][p] \in Nat /\ returned[o][p] \in Nat
             /\ Outstanding(o, p) = issued[o][p] - settled[o][p] - returned[o][p]
  BY <1>1, <1>2, OrderCounts
<1>7. ASSUME "settle" \in Offers(o, who), NEW f \in SettleForm(o)
      PROVE  CanSubmit(o, f[1], f[2])
  <2>1. f[1] \in Products /\ f[2] \in 1..MaxLine /\ f[2] <= SettleMax(o, f[1])
    BY DEF SettleForm
  <2>2. f[2] \in Nat /\ f[2] >= 1
    BY <2>1, OrderAssumption
  <2>3. PICK x, y, z \in Int : /\ x = Outstanding(o, f[1]) /\ y = SubmittedBoxes(o, f[1], "PENDING")
                               /\ z = ReturnBoxes(o, f[1], "PENDING") /\ y >= 0 /\ z >= 0
    BY <1>6, <2>1
  <2>4. SettleMax(o, f[1]) = Max0(Max0(x) - y - z)
    BY <2>3 DEF SettleMax, Remaining
  <2>5. f[2] <= x - y
    BY <2>1, <2>2, <2>3, <2>4 DEF Max0
  <2>. QED
    BY <1>4, <1>5, <1>7, <2>3, <2>5 DEF CanSubmit, Submittable
<1>8. ASSUME "return" \in Offers(o, who), NEW f \in ReturnForm(o)
      PROVE  CanReturn(o, f[1], f[2])
  <2>1. /\ f[1] \in Products /\ f[2] \in Lines /\ f[2]["DAMAGED"] = 0
        /\ f[2]["GOOD"] <= ReturnMax(o, f[1])
    BY DEF ReturnForm
  <2>2. f[2]["GOOD"] \in Nat /\ f[2]["GOOD"] >= 1
    BY <2>1, OrderAssumption DEF Lines, Condition
  <2>3. PICK x, z \in Int : /\ x = Outstanding(o, f[1]) /\ z = ReturnBoxes(o, f[1], "PENDING")
                            /\ z >= 0
    BY <1>6, <2>1
  <2>4. ReturnMax(o, f[1]) = Max0(Max0(x) - z)
    BY <2>3 DEF ReturnMax, Remaining
  <2>5. f[2]["GOOD"] <= x - z /\ x >= 1
    BY <2>1, <2>2, <2>3, <2>4 DEF Max0
  <2>6. issued[o][f[1]] > 0
    BY <1>6, <2>1, <2>3, <2>5
  <2>7. \A c \in Condition : f[2][c] <= x - z
    BY <2>1, <2>2, <2>3, <2>5 DEF Condition
  <2>. QED
    BY <1>4, <1>5, <1>8, <2>3, <2>6, <2>7 DEF CanReturn, Returnable
<1>9. "close" \in Offers(o, who) => CanClose(o)
  BY <1>3, <1>5 DEF Offers, CanClose
<1>10. "more time" \in Offers(o, who) => CanSelfExtend(o)
  <2>1. "more time" \in Offers(o, who) => ~Settled(o) /\ EffectiveStatus(o) # "OVERDUE"
    BY DEF Offers, ShowsSelfExtend
  <2>2. ~Settled(o) /\ EffectiveStatus(o) # "OVERDUE" => ~late[o] /\ status[o] # "OVERDUE"
    BY <1>3 DEF EffectiveStatus
  <2>. QED
    BY <1>4, <2>1, <2>2 DEF CanSelfExtend, Unpaid
<1>11. "extend" \in Offers(o, who) => status[o] \in Unpaid
  BY <1>4, <1>5
<1>12. "undo" \in Offers(o, who) => CanUndo(o)
  <2>1. "undo" \in Offers(o, who) => o \in moved
    BY DEF Offers, ShowsUndo
  <2>. QED
    BY <1>4, <1>5, <2>1 DEF CanUndo
<1>. QED
  BY <1>7, <1>8, <1>9, <1>10, <1>11, <1>12

(* Whatever a page of an order, a payout, a bonus or a rate offers on data *)
(* just read, the service takes, in every state the handlers can reach: a  *)
(* form never asks for boxes or money that are already waiting, and a rate *)
(* that can be added or taken back has priced nothing.                     *)
THEOREM PagesAlwaysAccepted == RepSpec => []PagesAreAccepted
<1>1. RepInit => OnDesk
  BY DEF RepInit, OnDesk
<1>2. OnDesk /\ [RepNext]_repVars => OnDesk'
  BY DEF RepNext, repVars, OnDesk
<1>3. RepInv /\ OnDesk => PagesAreAccepted
  <2>. SUFFICES ASSUME RepInv, OnDesk PROVE PagesAreAccepted
    OBVIOUS
  <2>1. FormsAreAccepted /\ Payout!PagesAgree /\ Tier!PagesAgree /\ Rate!PagesAgree
    BY OrderPages, PayoutPages, TierPages, RatePages DEF RepInv
  <2>. QED
    BY <2>1, Zenon DEF PagesAreAccepted, OnDesk
<1>. QED
  BY <1>1, <1>2, <1>3, RepAlways, PTL DEF RepSpec, repVars

(* What the lists of orders add up.  The boxes left on an order, product   *)
(* by product, and its counters as sums.                                   *)
LeftOn(o) == [p \in Products |-> Outstanding(o, p)]

LEMMA OrderTotals ==
  ASSUME TypeOK, CountersAreSums, NEW o \in Orders
  PROVE  /\ AssignedValue(o) = SumFunction(issued[o]) /\ AssignedValue(o) \in Nat
         /\ ReturnedValue(o) = SumFunction(returned[o]) /\ ReturnedValue(o) \in Nat
         /\ OrderBoxes(o).settled = SumFunction(settled[o]) /\ OrderBoxes(o).settled \in Nat
         /\ value[o] = OrderBoxes(o).settled
         /\ LeftOn(o) \in [Products -> Int] /\ SumFunction(LeftOn(o)) \in Int
         /\ SumFunction(LeftOn(o)) = AssignedValue(o) - OrderBoxes(o).settled - ReturnedValue(o)
<1>0. IsFiniteSet(Products)
  BY OrderAssumption
<1>1. /\ issued[o] \in [Products -> Nat] /\ settled[o] \in [Products -> Nat]
      /\ returned[o] \in [Products -> Nat]
  BY SettledIsNat DEF TypeOK
<1>2. ASSUME NEW f \in [Products -> Nat]
      PROVE  [p \in Products |-> f[p]] = f /\ SumFunction(f) \in Nat /\ f \in [Products -> Int]
  <2>1. DOMAIN f = Products /\ \A p \in Products : f[p] \in Nat
    OBVIOUS
  <2>2. SumFunction(f) \in Nat
    BY <1>0, <2>1, SumFunctionIsNat
  <2>. QED
    BY <2>2
<1>3. AssignedValue(o) = SumFunction(issued[o]) /\ AssignedValue(o) \in Nat
  BY <1>1, <1>2 DEF AssignedValue, SumOver
<1>4. ReturnedValue(o) = SumFunction(returned[o]) /\ ReturnedValue(o) \in Nat
  BY <1>1, <1>2 DEF ReturnedValue, SumOver
<1>5. OrderBoxes(o).settled = SumOver(Products, LAMBDA p : settled[o][p])
  BY DEF OrderBoxes
<1>6. OrderBoxes(o).settled = SumFunction(settled[o]) /\ OrderBoxes(o).settled \in Nat
  BY <1>1, <1>2, <1>5 DEF SumOver
<1>7. LeftOn(o) \in [Products -> Int]
  BY <1>1 DEF LeftOn, Outstanding
<1>. DEFINE gone == [p \in Products |-> settled[o][p] + returned[o][p]]
<1>8. gone \in [Products -> Int] /\ issued[o] = [p \in Products |-> LeftOn(o)[p] + gone[p]]
  BY <1>1 DEF LeftOn, Outstanding
<1>9. SumFunction(gone) = SumFunction(settled[o]) + SumFunction(returned[o])
  BY <1>0, <1>1, <1>2, SumOfSums
<1>. HIDE DEF gone
<1>10. SumFunction(issued[o]) = SumFunction(LeftOn(o)) + SumFunction(gone)
  BY <1>0, <1>7, <1>8, SumOfSums
<1>11. SumFunction(LeftOn(o)) \in Int
  <2>1. DOMAIN LeftOn(o) = Products /\ \A p \in Products : LeftOn(o)[p] \in Int
    BY <1>7
  <2>. QED
    BY <1>0, <2>1, SumFunctionIsInt
<1>12. value[o] = SumFunction(settled[o])
  BY DEF CountersAreSums
<1>. QED
  BY <1>3, <1>4, <1>6, <1>7, <1>9, <1>10, <1>11, <1>12

(* The boxes and the money left on an order are what its products leave.   *)
LEMMA OrderLeaves ==
  ASSUME TypeOK, CountersAreSums, NEW o \in Orders
  PROVE  /\ OrderBoxes(o).remaining = Max0(SumFunction(LeftOn(o)))
         /\ Balance(o) = Max0(SumFunction(LeftOn(o)))
<1>1. OrderBoxes(o).remaining = Max0(AssignedValue(o) - OrderBoxes(o).settled - ReturnedValue(o))
  BY DEF OrderBoxes
<1>2. Balance(o) = Max0(AssignedValue(o) - value[o] - ReturnedValue(o))
  BY DEF Balance
<1>. QED
  BY <1>1, <1>2, OrderTotals

LEMMA NothingLeft ==
  ASSUME TypeOK, CountersAreSums, NEW o \in Orders, \A p \in Products : Outstanding(o, p) <= 0
  PROVE  SumFunction(LeftOn(o)) <= 0
<1>. DEFINE none == [p \in Products |-> 0]
<1>1. LeftOn(o) \in [Products -> Int] /\ \A p \in Products : LeftOn(o)[p] <= 0
  BY OrderTotals DEF LeftOn
<1>2. none \in [Products -> Int] /\ DOMAIN none = Products /\ \A p \in Products : none[p] = 0
  OBVIOUS
<1>. HIDE DEF none
<1>3. SumFunction(none) = 0
  BY <1>2, OrderAssumption, SumOfZeros
<1>4. \A p \in Products : LeftOn(o)[p] <= none[p]
  BY <1>1, <1>2
<1>5. SumFunction(LeftOn(o)) <= SumFunction(none)
  BY <1>1, <1>2, <1>4, OrderAssumption, SumNoLess
<1>. QED
  BY <1>3, <1>5

(* Closed orders owe nothing, but for a sale taken back.                   *)
LEMMA ClosedLeavesNothing ==
  ASSUME OrderInv, CountersAreSums, NEW o \in Orders, Settled(o), ~SaleReversed(o)
  PROVE  Balance(o) = 0 /\ \A p \in Products : Outstanding(o, p) <= 0
<1>1. TypeOK /\ ClosedHonest
  BY DEF OrderInv
<1>2. status[o] = "SETTLED"
  BY DEF Settled, EffectiveStatus
<1>3. \A p \in Products : Outstanding(o, p) <= 0
  BY <1>1, <1>2 DEF ClosedHonest, AllAccounted, Accounted, Outstanding
<1>4. SumFunction(LeftOn(o)) <= 0 /\ SumFunction(LeftOn(o)) \in Int
  BY <1>1, <1>3, NothingLeft, OrderTotals
<1>5. Balance(o) = 0
  BY <1>1, <1>4, OrderLeaves DEF Max0
<1>. QED
  BY <1>3, <1>5

-----------------------------------------------------------------------------
(* The bar.                                                                *)
LEMMA MinIsEither ==
  ASSUME NEW a \in Int, NEW b \in Int
  PROVE  Min({a, b}) \in {a, b} /\ Min({a, b}) <= a /\ Min({a, b}) <= b
<1>1. \E x \in {a, b} : \A y \in {a, b} : x <= y
  OBVIOUS
<1>. QED
  BY <1>1 DEF Min

LEMMA WaitingFits ==
  ASSUME NEW a \in Int, NEW b \in Int, NEW n \in Nat
  PROVE  LET subs == Max0(Min({a, n}))
             rets == Max0(Min({b, n - subs}))
         IN  subs \in Nat /\ rets \in Nat /\ subs + rets <= n
<1>. DEFINE x == Min({a, n})  subs == Max0(x)  y == Min({b, n - subs})
<1>1. x \in Int /\ x <= n
  BY MinIsEither
<1>. HIDE DEF x
<1>2. subs \in Nat /\ subs <= n
  BY <1>1 DEF Max0
<1>. HIDE DEF subs
<1>3. y \in Int /\ y <= n - subs
  <2>1. n - subs \in Int
    BY <1>2
  <2>2. y \in {b, n - subs} /\ y <= n - subs
    BY <2>1, MinIsEither
  <2>. QED
    BY <2>1, <2>2
<1>. HIDE DEF y
<1>4. Max0(y) \in Nat /\ subs + Max0(y) <= n
  BY <1>2, <1>3 DEF Max0
<1>. QED
  BY <1>2, <1>4 DEF x, y, subs

LEMMA BarFits ==
  ASSUME TypeOK, CountersAreSums, NEW o \in Orders,
         \A p \in Products : Outstanding(o, p) >= 0
  PROVE  BarWidth(o) <= AssignedValue(o)
<1>1. IsFiniteSet(Products)
  BY OrderAssumption
<1>2. LeftOn(o) \in [Products -> Int]
  BY OrderTotals
<1>3. [p \in Products |-> Remaining(o, p)] = LeftOn(o)
  <2>1. \A p \in Products : Outstanding(o, p) \in Int
    BY <1>2 DEF LeftOn
  <2>2. \A p \in Products : Remaining(o, p) = Outstanding(o, p)
    BY <2>1 DEF Remaining, Max0
  <2>. QED
    BY <2>2 DEF LeftOn
<1>4. RemainingBoxes(o) = SumFunction(LeftOn(o))
  BY <1>3 DEF RemainingBoxes, SumOver
<1>5. SumFunction(LeftOn(o)) \in Nat
  <2>1. DOMAIN LeftOn(o) = Products /\ \A p \in Products : LeftOn(o)[p] \in Nat
    BY <1>2 DEF LeftOn
  <2>. QED
    BY <1>1, <2>1, SumFunctionIsNat
<1>. DEFINE f == [p \in Products |-> SubmittedBoxes(o, p, "PENDING")]
            g == [p \in Products |-> ReturnBoxes(o, p, "PENDING")]
<1>6. /\ DOMAIN f = Products /\ \A p \in Products : f[p] \in Nat
      /\ DOMAIN g = Products /\ \A p \in Products : g[p] \in Nat
  BY OrderCounts
<1>7. OrderBoxes(o).submitted = SumFunction(f) /\ OrderBoxes(o).returning = SumFunction(g)
  BY DEF OrderBoxes, SumOver
<1>. HIDE DEF f, g
<1>8. OrderBoxes(o).submitted \in Int /\ OrderBoxes(o).returning \in Int
  BY <1>1, <1>6, <1>7, SumFunctionIsNat
<1>9. OrderBoxes(o).returned = ReturnedValue(o)
  BY DEF OrderBoxes
<1>. DEFINE subs == Max0(Min({OrderBoxes(o).submitted, RemainingBoxes(o)}))
            rets == Max0(Min({OrderBoxes(o).returning, RemainingBoxes(o) - subs}))
<1>10. subs \in Nat /\ rets \in Nat /\ subs + rets <= SumFunction(LeftOn(o))
  BY <1>4, <1>5, <1>8, WaitingFits
<1>11. BarWidth(o) = OrderBoxes(o).settled + OrderBoxes(o).returned + subs + rets
  BY DEF BarWidth
<1>. HIDE DEF subs, rets
<1>12. /\ AssignedValue(o) \in Nat /\ ReturnedValue(o) \in Nat /\ OrderBoxes(o).settled \in Nat
       /\ SumFunction(LeftOn(o)) = AssignedValue(o) - OrderBoxes(o).settled - ReturnedValue(o)
  BY OrderTotals
<1>. QED
  BY <1>9, <1>10, <1>11, <1>12

-----------------------------------------------------------------------------
(* The returns page: the boxes of approved returns, by order and product.  *)
LEMMA ReturnsCountBack ==
  ASSUME OrderInv, CountersAreSums
  PROVE  BoxesBack = SumOver(Placed, ReturnedValue)
<1>. DEFINE A == ReturnsFiled("APPROVED")
            v == [i \in A |-> Boxes(ret[i].n)]
            order == [i \in A |-> ret[i].o]
            product == [i \in A |-> ret[i].p]
<1>0. TypeOK /\ RowsOnIssued
  BY DEF OrderInv
<1>1. A \in SUBSET DOMAIN ret /\ IsFiniteSet(A)
  BY <1>0, RowsAreLike, FS_Subset DEF ReturnsFiled, ReturnLike
<1>2. \A i \in DOMAIN ret : /\ Boxes(ret[i].n) \in Nat /\ ret[i].p \in Products
                            /\ ret[i].o \in Placed
  BY <1>0, RowTypes, RowsAreLike DEF ReturnLike, RowsOnIssued, Placed
<1>3. v \in [A -> Int] /\ order \in [A -> Placed] /\ product \in [A -> Products]
  BY <1>1, <1>2
<1>4. IsFiniteSet(Placed) /\ IsFiniteSet(Products)
  BY OrderAssumption, FS_Subset DEF Placed
<1>5. BoxesBack = SumFunction(v)
  BY DEF BoxesBack, SumOver
<1>. DEFINE Of(o) == {i \in A : order[i] = o}
            OfBoth(o, p) == {i \in Of(o) : product[i] = p}
<1>6. SumFunction(v) = SumFunction([o \in Placed |-> SumFunction([i \in Of(o) |-> v[i]])])
  <2>. HIDE DEF A, v, order
  <2>. QED
    BY <1>1, <1>3, <1>4, SumByClass
<1>7. ASSUME NEW o \in Placed
      PROVE  SumFunction([i \in Of(o) |-> v[i]]) = ReturnedValue(o)
  <2>. DEFINE w == [i \in Of(o) |-> v[i]]
              kind == [i \in Of(o) |-> product[i]]
  <2>1. IsFiniteSet(Of(o)) /\ w \in [Of(o) -> Int] /\ kind \in [Of(o) -> Products]
    <3>1. Of(o) \in SUBSET A
      OBVIOUS
    <3>2. IsFiniteSet(Of(o))
      BY <1>1, <3>1, FS_Subset
    <3>. HIDE DEF Of, A, v, product
    <3>. QED
      BY <1>3, <3>1, <3>2
  <2>2. SumFunction(w)
          = SumFunction([p \in Products |->
                           SumFunction([i \in {j \in Of(o) : kind[j] = p} |-> w[i]])])
    <3>. HIDE DEF Of, w, kind
    <3>. QED
      BY <1>4, <2>1, SumByClass
  <2>3. ASSUME NEW p \in Products
        PROVE  SumFunction([i \in {j \in Of(o) : kind[j] = p} |-> w[i]]) = returned[o][p]
    <3>1. {j \in Of(o) : kind[j] = p} = ReturnsOf(o, p, "APPROVED")
      BY DEF ReturnsFiled, ReturnsOf
    <3>2. \A i \in {j \in Of(o) : kind[j] = p} : w[i] = Boxes(ret[i].n)
      OBVIOUS
    <3>. HIDE DEF Of, w, kind
    <3>3. [i \in {j \in Of(o) : kind[j] = p} |-> w[i]]
            = [i \in ReturnsOf(o, p, "APPROVED") |-> Boxes(ret[i].n)]
      BY <3>1, <3>2
    <3>4. o \in Orders
      BY DEF Placed
    <3>. QED
      BY <3>3, <3>4 DEF CountersAreSums, ReturnBoxes
  <2>4. SumFunction(w) = SumFunction([p \in Products |-> returned[o][p]])
    <3>. HIDE DEF Of, w, kind
    <3>. QED
      BY <2>2, <2>3
  <2>. QED
    BY <2>4 DEF ReturnedValue, SumOver
<1>8. [o \in Placed |-> SumFunction([i \in Of(o) |-> v[i]])] = [o \in Placed |-> ReturnedValue(o)]
  <2>. HIDE DEF Of, v
  <2>. QED
    BY <1>7
<1>. HIDE DEF Of, v, A, order
<1>. QED
  BY <1>5, <1>6, <1>8 DEF SumOver

-----------------------------------------------------------------------------
(* The boxes the reps hold, by rep and product and by order and product.   *)
AllReached ==
  \A o \in Orders : xfer[o] # "CANCELLED" /\ ~SaleReversed(o)
                    /\ \A p \in Products : Outstanding(o, p) >= 0

LEMMA HeldIsLeft ==
  ASSUME TypeOK, CountersAreSums, StockInv, AllReached, NEW r \in Reps
  PROVE  SumFunction([p \in Products |-> held[r][p]])
           = SumFunction([o \in OrdersOf(r) |-> SumFunction(LeftOn(o))])
<1>. DEFINE f == [o \in OrdersOf(r) |-> LeftOn(o)]
<1>1. IsFiniteSet(OrdersOf(r)) /\ IsFiniteSet(Products) /\ OrdersOf(r) \subseteq Orders
  BY OrderAssumption, FS_Subset DEF OrdersOf
<1>2. f \in [OrdersOf(r) -> [Products -> Int]]
  BY <1>1, OrderTotals
<1>3. ASSUME NEW p \in Products
      PROVE  held[r][p] = SumFunction([o \in OrdersOf(r) |-> f[o][p]])
  <2>1. held[r][p] = SumFunction([o \in OrdersOf(r) |-> Outstanding(o, p) - recalled[o][p]])
    BY DEF StockInv, HeldMatchesOrders
  <2>2. ASSUME NEW o \in OrdersOf(r)
        PROVE  Outstanding(o, p) - recalled[o][p] = f[o][p]
    <3>1. recalled[o][p] = 0
      BY <1>1 DEF StockInv, RecalledOnce, AllReached, NoBoxes
    <3>2. f[o][p] = Outstanding(o, p) /\ f[o][p] \in Int
      BY <1>2 DEF LeftOn
    <3>. QED
      BY <3>1, <3>2
  <2>3. [o \in OrdersOf(r) |-> Outstanding(o, p) - recalled[o][p]]
          = [o \in OrdersOf(r) |-> f[o][p]]
    <3>. HIDE DEF f
    <3>. QED
      BY <2>2
  <2>. QED
    BY <2>1, <2>3
<1>4. [p \in Products |-> held[r][p]]
        = [p \in Products |-> SumFunction([o \in OrdersOf(r) |-> f[o][p]])]
  <2>. HIDE DEF f
  <2>. QED
    BY <1>3
<1>5. [o \in OrdersOf(r) |-> SumFunction(f[o])] = [o \in OrdersOf(r) |-> SumFunction(LeftOn(o))]
  OBVIOUS
<1>. HIDE DEF f
<1>6. SumFunction([o \in OrdersOf(r) |-> SumFunction(f[o])])
        = SumFunction([p \in Products |-> SumFunction([o \in OrdersOf(r) |-> f[o][p]])])
  BY <1>1, <1>2, SumExchange
<1>. QED
  BY <1>4, <1>5, <1>6

LEMMA RepsHoldTheRest ==
  ASSUME OrderInv, CountersAreSums, StockInv, AllReached
  PROVE  BoxesWithReps = SumOver(Reps, LAMBDA r : SumOver(Products, LAMBDA p : held[r][p]))
<1>. DEFINE v == [o \in Orders |-> SumFunction(LeftOn(o))]
            live == [o \in LiveOrders |-> OrderBoxes(o).remaining]
            byRep == [r \in Reps |-> SumFunction([p \in Products |-> held[r][p]])]
            mine(r) == {o \in Orders : RepOf[o] = r}
<1>0. TypeOK /\ UnissuedIsBlank /\ UnissuedHasNoItems
  BY DEF OrderInv, StockInv
<1>1. /\ IsFiniteSet(Orders) /\ IsFiniteSet(Reps) /\ RepOf \in [Orders -> Reps]
      /\ LiveOrders \in SUBSET Orders
  BY OrderAssumption DEF LiveOrders, Placed
<1>2. v \in [Orders -> Int]
  BY <1>0, OrderTotals
<1>3. ASSUME NEW o \in Orders PROVE v[o] \in Nat
  <2>1. DOMAIN LeftOn(o) = Products /\ \A p \in Products : LeftOn(o)[p] \in Nat
    <3>1. LeftOn(o) \in [Products -> Int]
      BY <1>0, OrderTotals
    <3>. QED
      BY <3>1 DEF AllReached, LeftOn
  <2>. QED
    BY <2>1, OrderAssumption, SumFunctionIsNat
<1>4. ASSUME NEW o \in LiveOrders PROVE OrderBoxes(o).remaining = v[o]
  <2>1. o \in Orders
    BY <1>1
  <2>2. OrderBoxes(o).remaining = Max0(v[o])
    BY <1>0, <2>1, OrderLeaves
  <2>3. v[o] \in Nat
    BY <1>3, <2>1
  <2>. HIDE DEF v
  <2>. QED
    BY <2>2, <2>3 DEF Max0
<1>5. ASSUME NEW o \in Orders \ LiveOrders PROVE v[o] = 0
  <2>1. status[o] \in {"NONE", "SETTLED"}
    BY <1>0 DEF TypeOK, Status, LiveOrders, Placed
  <2>2. \A p \in Products : Outstanding(o, p) <= 0
    <3>1. CASE status[o] = "NONE"
      BY <1>0, <3>1 DEF UnissuedIsBlank, UnissuedHasNoItems, NoBoxes, Outstanding
    <3>2. CASE status[o] = "SETTLED"
      <4>1. Settled(o)
        BY <3>2 DEF Settled, EffectiveStatus
      <4>. QED
        BY <4>1, ClosedLeavesNothing DEF AllReached
    <3>. QED
      BY <2>1, <3>1, <3>2
  <2>3. v[o] <= 0
    BY <1>0, <2>2, NothingLeft
  <2>4. v[o] \in Nat
    BY <1>3
  <2>. HIDE DEF v
  <2>. QED
    BY <2>3, <2>4
<1>6. SumFunction(live) = SumFunctionOnSet(v, LiveOrders)
  <2>1. DOMAIN live = LiveOrders /\ \A o \in LiveOrders : live[o] = v[o]
    <3>. HIDE DEF v
    <3>. QED
      BY <1>4
  <2>2. IsFiniteSet(LiveOrders)
    BY <1>1, FS_Subset
  <2>. HIDE DEF live, v
  <2>3. SumFunctionOnSet(live, LiveOrders) = SumFunctionOnSet(v, LiveOrders)
    BY <2>1, <2>2, SumOfSame
  <2>. QED
    BY <2>1, <2>3 DEF SumFunction
<1>7. SumFunction(v) = SumFunctionOnSet(v, LiveOrders)
  <2>. DEFINE rest == [o \in Orders \ LiveOrders |-> 0]
  <2>0. IsFiniteSet(Orders \ LiveOrders) /\ IsFiniteSet(LiveOrders)
    BY <1>1, FS_Subset
  <2>1. /\ DOMAIN rest = Orders \ LiveOrders /\ \A o \in Orders \ LiveOrders : rest[o] = 0
    OBVIOUS
  <2>2. DOMAIN v = Orders /\ \A o \in Orders : v[o] \in Int
    BY <1>2
  <2>. HIDE DEF v, rest
  <2>3. SumFunction(rest) = 0
    BY <2>0, <2>1, SumOfZeros
  <2>4. SumFunctionOnSet(v, Orders \ LiveOrders) = 0
    <3>1. \A o \in Orders \ LiveOrders : v[o] = rest[o]
      BY <1>5, <2>1
    <3>2. SumFunctionOnSet(v, Orders \ LiveOrders) = SumFunctionOnSet(rest, Orders \ LiveOrders)
      BY <2>0, <3>1, SumOfSame
    <3>. QED
      BY <2>1, <2>3, <3>2 DEF SumFunction
  <2>5. SumFunctionOnSet(v, Orders)
          = SumFunctionOnSet(v, LiveOrders) + SumFunctionOnSet(v, Orders \ LiveOrders)
    BY <1>1, <2>2, SumOfParts
  <2>6. SumFunctionOnSet(v, LiveOrders) \in Int
    BY <1>1, <2>0, <2>2, SumIsInt
  <2>. QED
    BY <2>2, <2>4, <2>5, <2>6 DEF SumFunction
<1>8. SumFunction(v) = SumFunction([r \in Reps |-> SumFunction([o \in mine(r) |-> v[o]])])
  <2>. HIDE DEF v
  <2>. QED
    BY <1>1, <1>2, SumByClass
<1>9. ASSUME NEW r \in Reps PROVE SumFunction([o \in mine(r) |-> v[o]]) = byRep[r]
  <2>1. mine(r) = OrdersOf(r)
    BY DEF OrdersOf
  <2>2. [o \in mine(r) |-> v[o]] = [o \in OrdersOf(r) |-> SumFunction(LeftOn(o))]
    BY <2>1
  <2>3. byRep[r] = SumFunction([p \in Products |-> held[r][p]])
    OBVIOUS
  <2>. HIDE DEF v, byRep, mine
  <2>. QED
    BY <1>0, <2>2, <2>3, HeldIsLeft
<1>10. [r \in Reps |-> SumFunction([o \in mine(r) |-> v[o]])] = byRep
  <2>1. byRep = [r \in Reps |-> byRep[r]]
    OBVIOUS
  <2>. HIDE DEF v, byRep, mine
  <2>. QED
    BY <1>9, <2>1
<1>11. BoxesWithReps = SumFunction(live)
  BY DEF BoxesWithReps, SumOver
<1>12. SumOver(Reps, LAMBDA r : SumOver(Products, LAMBDA p : held[r][p])) = SumFunction(byRep)
  BY DEF SumOver
<1>. HIDE DEF v, live, byRep, mine
<1>. QED
  BY <1>6, <1>7, <1>8, <1>10, <1>11, <1>12

(* The pages agree in every state the handlers can reach: no money is left *)
(* on a closed order unless a sale of it was cancelled, boxes and money    *)
(* left are the same, the bar fits an order without boxes accounted for    *)
(* twice, the returns page and the orders count back the same boxes, and   *)
(* the boxes said to be with the reps are the boxes they hold.             *)
THEOREM ScreensAlwaysAgree == RepSpec => []ScreensAgree
<1>1. RepInv => ScreensAgree
  <2>. SUFFICES ASSUME RepInv PROVE ScreensAgree
    OBVIOUS
  <2>1. OrderInv /\ CountersAreSums /\ StockInv /\ TypeOK
    BY DEF RepInv, CounterInv, OrderInv
  <2>2. ASSUME NEW o \in Placed
        PROVE  /\ Settled(o) /\ Balance(o) > 0 => SaleReversed(o)
               /\ OrderBoxes(o).remaining = Balance(o)
               /\ (\A p \in Products : Outstanding(o, p) >= 0) => BarWidth(o) <= AssignedValue(o)
    <3>1. o \in Orders
      BY DEF Placed
    <3>2. Settled(o) /\ Balance(o) > 0 => SaleReversed(o)
      <4>1. Settled(o) /\ ~SaleReversed(o) => Balance(o) = 0
        BY <2>1, <3>1, ClosedLeavesNothing
      <4>. QED
        BY <4>1
    <3>3. OrderBoxes(o).remaining = Balance(o)
      BY <2>1, <3>1, OrderLeaves
    <3>4. (\A p \in Products : Outstanding(o, p) >= 0) => BarWidth(o) <= AssignedValue(o)
      BY <2>1, <3>1, BarFits
    <3>. QED
      BY <3>2, <3>3, <3>4
  <2>3. BoxesBack = SumOver(Placed, ReturnedValue)
    BY <2>1, ReturnsCountBack
  <2>4. AllReached =>
          BoxesWithReps = SumOver(Reps, LAMBDA r : SumOver(Products, LAMBDA p : held[r][p]))
    BY <2>1, RepsHoldTheRest
  <2>. QED
    BY <2>2, <2>3, <2>4 DEF ScreensAgree, AllReached
<1>. QED
  BY <1>1, RepAlways, PTL

===============================================================================
