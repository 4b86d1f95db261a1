------------------------------ MODULE TradeProofs ------------------------------
(***************************************************************************)
(* Proofs about the trade behind the owner's figures (Trade, Figures), the *)
(* pages over the stock ledger (InventoryScreens), and about all the books *)
(* of MCDesk together, for any rows, prices and bounds.                    *)
(*                                                                         *)
(* Along the way: the rows of Trade and their types; four accounts that    *)
(* tie them together, each a sum an action changes by its own row; what    *)
(* the figures add up, and the balance sheet; one figure on several        *)
(* screens; the boxes of the stock pages.                                  *)
(***************************************************************************)
EXTENDS DeskProofs

-----------------------------------------------------------------------------
(* The rows of trade (Trade): their types, and the accounts that tie them  *)
(* together.                                                               *)

TradeRows ==
  {Trading!NoSale} \cup
  [st : {"LIVE", "CANCELLED"}, brand : Makes, rep : Reps \cup {"direct"}, type : {"CASH", "CREDIT"},
   off : 0..1, unitCost : Nat, at : Trading!Months, posted : Makes \cup {"no"}]
BillRows == [ordered : Int, awaited : BoxCosts \cup {0}, paid : Nat, credited : Int]
DrawRows == [PENDING : Nat, APPROVED : Nat, PAID : Nat]
GoodsTyped ==
  /\ shelf \in [Makes -> Nat] /\ hand \in [Reps -> [Makes -> Nat]] /\ cost \in [Makes -> Nat]
  /\ written \in Int /\ bill \in [Makes -> BillRows]
SalesTyped ==
  /\ trade \in [Tills -> TradeRows] /\ debt \in [Tills -> Nat]
  /\ \A x \in Tills :
       /\ debt[x] > 0 => trade[x].st = "LIVE"
       /\ trade[x].st = "LIVE" /\ trade[x].posted # "no" => trade[x].type = "CASH"
BookTyped ==
  /\ book \in [Trading!Kinds -> [Makes -> [Trading!Months -> Int]]]
  /\ \A k \in Trading!Kinds \ {"SALE"}, b \in Makes, t \in Trading!Months : book[k][b][t] >= 0
RepsTyped == draw \in [Reps -> DrawRows] /\ fined \in [Reps -> Nat]
OwnerTyped ==
  /\ payouts \in [Trading!Months -> Int] /\ open \subseteq Makes /\ staff \subseteq Reps
  /\ month \in Trading!Months /\ epoch \in Trading!Months
TradeTyped == GoodsTyped /\ SalesTyped /\ BookTyped /\ RepsTyped /\ OwnerTyped

LEMMA TradeSums == ASSUME NEW f PROVE Trading!SumFunction(f) = SumFunction(f)
BY Zenon DEF Trading!SumFunction, Trading!SumFunctionOnSet, Trading!FoldFunctionOnSet,
  Trading!MapThenFoldSet, SumFunction, SumFunctionOnSet, FoldFunctionOnSet, MapThenFoldSet

LEMMA TradeCounts == ASSUME NEW S PROVE Trading!Cardinality(S) = Cardinality(S)
BY DEF Trading!Cardinality, Cardinality

(* How the trade begins: one sale, or a sale on credit. *)
BeginsWith(r, promised, w) ==
  /\ trade = [[y \in Tills |-> Trading!NoSale] EXCEPT ![Trading!FirstSlot] = Trading!Sold(Trading!FirstBrand, r, w)]
  /\ debt = [y \in Tills |-> IF y = Trading!FirstSlot /\ r = "direct" THEN Price ELSE 0]
  /\ book = [k \in Trading!Kinds |-> [c \in Makes |-> [t \in Trading!Months |->
               IF k = "SALE" /\ c = w /\ t = 1 THEN Price ELSE 0]]]
  /\ bill = [c \in Makes |->
               [ordered |-> 1 + cost[c] *
                  (1 + Trading!Cardinality(Reps) + (IF c = Trading!FirstBrand THEN 1 ELSE 0)),
                awaited |-> 1, paid |-> 0, credited |-> 0]]
  /\ draw = [q \in Reps |-> [PENDING |-> 0, APPROVED |-> IF q = r THEN promised ELSE 0, PAID |-> 0]]
Begins(r, promised, w) ==
  /\ w \in {Trading!FirstBrand, "no"} /\ (r = "direct" => promised = 0 /\ w = "no")
  /\ BeginsWith(r, promised, w)
BeginsElse ==
  /\ cost \in [Makes -> {0, 1}]
  /\ shelf = [b \in Makes |-> 1] /\ hand = [q \in Reps |-> [b \in Makes |-> 1]]
  /\ payouts = [t \in Trading!Months |-> 0] /\ fined = [q \in Reps |-> 0]
  /\ open = Makes /\ staff = Reps /\ written = 0 /\ month = 1 /\ epoch \in Trading!Months
LEMMA TradeBegins ==
  ASSUME Trading!Init
  PROVE  /\ \E r \in Reps \cup {"direct"}, promised \in 0..Rate : \E w : Begins(r, promised, w)
         /\ BeginsElse
         /\ Trading!FirstBrand \in Makes /\ Trading!FirstSlot \in Tills
<1>1. Trading!FirstBrand \in Makes /\ Trading!FirstSlot \in Tills
  BY Zenon, DeskAssumption DEF Trading!FirstBrand, Trading!FirstSlot
<1>2. PICK r \in Reps \cup {"direct"} :
     \E w \in IF r = "direct" THEN {"no"} ELSE {Trading!FirstBrand, "no"} :
     \E promised \in IF w = "no" THEN {0} ELSE 0..Rate : BeginsWith(r, promised, w)
  BY DEF Trading!Init, BeginsWith
<1>. HIDE DEF Trading!FirstBrand
<1>3. PICK w \in IF r = "direct" THEN {"no"} ELSE {Trading!FirstBrand, "no"} :
     \E promised \in IF w = "no" THEN {0} ELSE 0..Rate : BeginsWith(r, promised, w)
  BY <1>2
<1>4. PICK promised \in IF w = "no" THEN {0} ELSE 0..Rate : BeginsWith(r, promised, w)
  BY <1>3
<1>5. w \in {Trading!FirstBrand, "no"} /\ (r = "direct" => promised = 0 /\ w = "no")
  BY <1>3, <1>4
<1>6. promised \in 0..Rate
  BY <1>4, DeskAssumption
<1>7. Begins(r, promised, w)
  BY <1>4, <1>5 DEF Begins
<1>8. \E n \in 0..Rate : \E x : Begins(r, n, x)
  BY <1>6, <1>7
<1>9. BeginsElse
  BY DEF Trading!Init, BeginsElse
<1>. QED
  BY <1>1, <1>8, <1>9

LEMMA TradeInitTyped == Trading!Init => TradeTyped
<1>. SUFFICES ASSUME Trading!Init PROVE TradeTyped
  OBVIOUS
<1>0. Trading!FirstBrand \in Makes /\ Trading!FirstSlot \in Tills
  BY TradeBegins
<1>a. PICK r \in Reps \cup {"direct"}, promised \in 0..Rate : \E w : Begins(r, promised, w)
  BY TradeBegins
<1>2. PICK w : Begins(r, promised, w)
  BY <1>a
<1>4. BeginsElse
  BY TradeBegins
<1>1. cost \in [Makes -> {0, 1}]
  BY <1>4 DEF BeginsElse
<1>3. Trading!Cardinality(Reps) \in Nat
  BY TradeCounts, DeskAssumption, FS_CardinalityType
<1>5. /\ Price \in Nat \ {0} /\ Rate \in Nat /\ 1 \in BoxCosts
      /\ "no" \notin Makes /\ "direct" \notin Reps
  BY DeskAssumption
<1>6. promised \in Nat
  BY <1>5
<1>7. GoodsTyped
  <2>1. ASSUME NEW c \in Makes
        PROVE  1 + cost[c] * (1 + Trading!Cardinality(Reps) + (IF c = Trading!FirstBrand THEN 1 ELSE 0)) \in Int
    <3>1. cost[c] \in {0, 1}
      BY <1>1
    <3>2. cost[c] = 0 \/ cost[c] = 1
      BY <3>1
    <3>. QED
      BY <1>3, <3>2
  <2>2. bill \in [Makes -> BillRows]
    BY <1>2, <1>5, <2>1 DEF BillRows, Begins, BeginsWith
  <2>. QED
    BY <1>1, <1>4, <2>2 DEF GoodsTyped, BeginsElse
<1>8. Trading!Sold(Trading!FirstBrand, r, w) \in TradeRows
  <2>1. cost[Trading!FirstBrand] \in Nat /\ w \in {Trading!FirstBrand, "no"}
    BY <1>0, <1>1, <1>2 DEF Begins, BeginsWith
  <2>. HIDE DEF Trading!FirstBrand
  <2>. QED
    BY <1>0, <2>1 DEF Trading!Sold, TradeRows, Trading!Months
<1>9. SalesTyped
  <2>. DEFINE v == Trading!Sold(Trading!FirstBrand, r, w)
  <2>3. v \in TradeRows
    BY <1>8
  <2>4. v.st = "LIVE" /\ (v.posted # "no" => v.type = "CASH")
    BY <1>2 DEF Trading!Sold, Begins, BeginsWith
  <2>5. \A x \in Tills : trade[x] = IF x = Trading!FirstSlot THEN v ELSE Trading!NoSale
    BY <1>2 DEF Begins, BeginsWith
  <2>6. trade \in [Tills -> TradeRows]
    BY <1>2, <2>3 DEF TradeRows, Begins, BeginsWith
  <2>7. debt \in [Tills -> Nat] /\ \A x \in Tills : debt[x] > 0 => x = Trading!FirstSlot
    BY <1>2, <1>5 DEF Begins, BeginsWith
  <2>8. Trading!NoSale.st = "NONE"
    BY DEF Trading!NoSale
  <2>. HIDE DEF v, Trading!FirstSlot, Trading!FirstBrand
  <2>. QED
    BY <2>4, <2>5, <2>6, <2>7, <2>8 DEF SalesTyped
<1>10. BookTyped
  BY <1>2, <1>5 DEF BookTyped, Begins, BeginsWith
<1>11. RepsTyped
  BY <1>2, <1>4, <1>6 DEF RepsTyped, DrawRows, Begins, BeginsWith, BeginsElse
<1>12. OwnerTyped
  BY <1>4 DEF OwnerTyped, Trading!Months, BeginsElse
<1>. QED
  BY <1>7, <1>9, <1>10, <1>11, <1>12 DEF TradeTyped

LEMMA EntryAdds ==
  ASSUME BookTyped, NEW k \in Trading!Kinds, NEW w \in Makes, NEW t \in Trading!Months, NEW n \in Int,
         k # "SALE" => n >= 0, Trading!Enter(k, w, t, n)
  PROVE  /\ BookTyped'
         /\ \A j \in Trading!Kinds, c \in Makes, u \in Trading!Months :
              book'[j][c][u] = IF j = k /\ c = w /\ u = t THEN book[j][c][u] + n ELSE book[j][c][u]
<1>1. book' = [book EXCEPT ![k][w][t] = @ + n]
  BY DEF Trading!Enter
<1>2. \A j \in Trading!Kinds, c \in Makes, u \in Trading!Months : book[j][c][u] \in Int
  BY DEF BookTyped
<1>3. book' \in [Trading!Kinds -> [Makes -> [Trading!Months -> Int]]]
  BY <1>1, <1>2 DEF BookTyped
<1>4. \A j \in Trading!Kinds, c \in Makes, u \in Trading!Months :
        book'[j][c][u] = IF j = k /\ c = w /\ u = t THEN book[j][c][u] + n ELSE book[j][c][u]
  BY <1>1 DEF BookTyped
<1>5. \A j \in Trading!Kinds \ {"SALE"}, c \in Makes, u \in Trading!Months : book'[j][c][u] >= 0
  BY <1>2, <1>4 DEF BookTyped
<1>. QED
  BY <1>3, <1>4, <1>5 DEF BookTyped

(* A sale that is entered takes a free row. *)
NewSale(b, r, type, off, w) ==
  [st |-> "LIVE", brand |-> b, rep |-> r, type |-> type, off |-> off,
   unitCost |-> cost[b], at |-> month, posted |-> w]
Enrolled(x, v) ==
  /\ trade[x] = Trading!NoSale /\ trade'[x] = v
  /\ trade' \in [Tills -> TradeRows]
  /\ \A y \in Tills \ {x} : trade'[y] = trade[y]
LEMMA EnrolTakesARow ==
  ASSUME TradeTyped, NEW b \in Makes, NEW r \in Reps \cup {"direct"}, NEW type \in {"CASH", "CREDIT"},
         NEW off \in 0..1, NEW w \in Makes \cup {"no"}, Trading!Enrol(b, r, type, off, w)
  PROVE  /\ Trading!NextSlot \in Tills
         /\ Enrolled(Trading!NextSlot, NewSale(b, r, type, off, w))
         /\ BookTyped'
<1>. DEFINE x == Trading!NextSlot
<1>0. x \in Tills /\ trade[x] = Trading!NoSale
  <2>1. Trading!Unused # {}
    BY DEF Trading!Enrol
  <2>2. x \in Trading!Unused
    BY Zenon, <2>1 DEF Trading!NextSlot
  <2>. QED
    BY <2>2 DEF Trading!Unused
<1>. DEFINE v == NewSale(b, r, type, off, w)
<1>1. v \in TradeRows
  <2>1. cost[b] \in Nat /\ month \in Trading!Months
    BY DEF TradeTyped, GoodsTyped, OwnerTyped
  <2>. QED
    BY <2>1 DEF NewSale, TradeRows
<1>2. trade' = [trade EXCEPT ![x] = v]
  BY DEF Trading!Enrol, NewSale
<1>3. BookTyped'
  <2>1. CASE book' = book
    BY <2>1 DEF TradeTyped, BookTyped
  <2>2. CASE w \in Makes /\ Trading!Enter("SALE", w, month, Price - off)
    <3>1. Price - off \in Int /\ month \in Trading!Months /\ "SALE" \in Trading!Kinds /\ BookTyped
      BY DeskAssumption DEF TradeTyped, OwnerTyped, Trading!Kinds
    <3>. QED
      BY <2>2, <3>1, EntryAdds
  <2>. QED
    BY <2>1, <2>2 DEF Trading!Enrol, Trading!PostSale
<1>. HIDE DEF x, v
<1>4. trade \in [Tills -> TradeRows]
  BY DEF TradeTyped, SalesTyped
<1>5. Enrolled(x, v)
  BY <1>0, <1>1, <1>2, <1>4 DEF Enrolled
<1>. QED
  BY <1>0, <1>3, <1>5 DEF x, v

LEMMA SellTyped ==
  ASSUME TradeTyped, NEW b \in Makes, NEW type \in {"CASH", "CREDIT"}, NEW off \in 0..1,
         Trading!SellFromShelf(b, type, off)
  PROVE  TradeTyped'
<1>. DEFINE x == Trading!NextSlot
<1>1. PICK w \in IF type = "CASH" THEN Trading!Landing(b) ELSE {"no"} :
        /\ Trading!Enrol(b, "direct", type, off, w)
        /\ debt' = [debt EXCEPT ![x] = IF type = "CREDIT" THEN Price - off ELSE 0]
  BY DEF Trading!SellFromShelf
<1>2. w \in Makes \cup {"no"} /\ (w # "no" => type = "CASH")
  BY <1>1 DEF Trading!Landing
<1>3. x \in Tills /\ Enrolled(x, NewSale(b, "direct", type, off, w)) /\ BookTyped'
  BY <1>1, <1>2, EnrolTakesARow
<1>4. shelf[b] > 0 /\ shelf' = [shelf EXCEPT ![b] = @ - 1]
      /\ UNCHANGED <<hand, cost, written, bill, payouts, open, draw, fined, staff, month, epoch>>
  BY DEF Trading!SellFromShelf, Trading!reps, Trading!clock
<1>5. Price - off \in Nat
  BY DeskAssumption
<1>6. GoodsTyped'
  BY <1>4 DEF TradeTyped, GoodsTyped
<1>7. SalesTyped'
  <2>. DEFINE v == NewSale(b, "direct", type, off, w)
  <2>1. v.st = "LIVE" /\ (v.posted # "no" => v.type = "CASH")
    BY <1>2 DEF NewSale
  <2>. HIDE DEF v, x
  <2>2. debt' \in [Tills -> Nat] /\ \A y \in Tills \ {x} : debt'[y] = debt[y]
    BY <1>1, <1>3, <1>5 DEF TradeTyped, SalesTyped
  <2>3. ASSUME NEW y \in Tills
        PROVE  /\ debt'[y] > 0 => trade'[y].st = "LIVE"
               /\ trade'[y].st = "LIVE" /\ trade'[y].posted # "no" => trade'[y].type = "CASH"
    <3>1. CASE y = x
      BY <1>3, <2>1, <3>1 DEF Enrolled, v
    <3>2. CASE y # x
      <4>1. trade'[y] = trade[y] /\ debt'[y] = debt[y]
        BY <1>3, <2>2, <3>2 DEF Enrolled
      <4>. QED
        BY <4>1 DEF TradeTyped, SalesTyped
    <3>. QED
      BY <3>1, <3>2
  <2>. QED
    BY <1>3, <2>2, <2>3 DEF SalesTyped, Enrolled
<1>8. RepsTyped' /\ OwnerTyped'
  BY <1>4 DEF TradeTyped, RepsTyped, OwnerTyped
<1>. QED
  BY <1>3, <1>6, <1>7, <1>8 DEF TradeTyped

LEMMA SettleTyped ==
  ASSUME TradeTyped, NEW r \in Reps, NEW b \in Makes, Trading!Settle(r, b)
  PROVE  TradeTyped'
<1>. DEFINE x == Trading!NextSlot
<1>1. PICK w \in Trading!Landing(b) : Trading!Enrol(b, r, "CASH", 0, w)
  BY DEF Trading!Settle
<1>2. w \in Makes \cup {"no"}
  BY <1>1 DEF Trading!Landing
<1>3. x \in Tills /\ Enrolled(x, NewSale(b, r, "CASH", 0, w)) /\ BookTyped'
  BY <1>1, <1>2, EnrolTakesARow
<1>4. hand[r][b] > 0 /\ hand' = [hand EXCEPT ![r][b] = @ - 1]
      /\ UNCHANGED <<debt, shelf, cost, written, bill, payouts, open, draw, fined, staff, month, epoch>>
  BY DEF Trading!Settle, Trading!reps, Trading!clock
<1>6. GoodsTyped'
  BY <1>4 DEF TradeTyped, GoodsTyped
<1>7. SalesTyped'
  <2>. DEFINE v == NewSale(b, r, "CASH", 0, w)
  <2>1. v.st = "LIVE" /\ v.type = "CASH"
    BY DEF NewSale
  <2>. HIDE DEF v, x
  <2>3. ASSUME NEW y \in Tills
        PROVE  /\ debt'[y] > 0 => trade'[y].st = "LIVE"
               /\ trade'[y].st = "LIVE" /\ trade'[y].posted # "no" => trade'[y].type = "CASH"
    <3>1. CASE y = x
      BY <1>3, <2>1, <3>1 DEF Enrolled, v
    <3>2. CASE y # x
      <4>1. trade'[y] = trade[y] /\ debt'[y] = debt[y]
        BY <1>3, <1>4, <3>2 DEF Enrolled
      <4>. QED
        BY <4>1 DEF TradeTyped, SalesTyped
    <3>. QED
      BY <3>1, <3>2
  <2>. QED
    BY <1>3, <1>4, <2>3 DEF TradeTyped, SalesTyped, Enrolled
<1>8. RepsTyped' /\ OwnerTyped'
  BY <1>4 DEF TradeTyped, RepsTyped, OwnerTyped
<1>. QED
  BY <1>3, <1>6, <1>7, <1>8 DEF TradeTyped

LEMMA LiveRow ==
  ASSUME TradeTyped, NEW x \in Tills, trade[x].st = "LIVE"
  PROVE  /\ trade[x].brand \in Makes /\ trade[x].rep \in Reps \cup {"direct"}
         /\ trade[x].type \in {"CASH", "CREDIT"} /\ trade[x].off \in 0..1
         /\ trade[x].unitCost \in Nat /\ trade[x].at \in Trading!Months
         /\ trade[x].posted \in Makes \cup {"no"}
         /\ trade[x] \in TradeRows \ {Trading!NoSale}
         /\ Price - trade[x].off \in Nat
<1>1. trade[x] \in TradeRows /\ trade[x] # Trading!NoSale
  BY DEF TradeTyped, SalesTyped, Trading!NoSale
<1>2. Price \in Nat \ {0}
  BY DeskAssumption
<1>. QED
  BY <1>1, <1>2 DEF TradeRows

(* A cancelled sale keeps its row. *)
LEMMA CancelledRow ==
  ASSUME TradeTyped, NEW x \in Tills, Trading!CancelSale(x)
  PROVE  /\ trade[x].st = "LIVE" /\ trade' \in [Tills -> TradeRows]
         /\ trade'[x].st = "CANCELLED"
         /\ \A y \in Tills \ {x} : trade'[y] = trade[y]
<1>1. trade[x].st = "LIVE" /\ trade' = [trade EXCEPT ![x].st = "CANCELLED"]
  BY DEF Trading!CancelSale, Trading!Live
<1>2. trade[x] \in TradeRows \ {Trading!NoSale}
  BY <1>1, LiveRow
<1>. DEFINE v == [trade[x] EXCEPT !.st = "CANCELLED"]
<1>3. v \in TradeRows /\ v.st = "CANCELLED"
  BY <1>2 DEF TradeRows
<1>4. trade' = [trade EXCEPT ![x] = v]
  BY <1>1
<1>5. trade \in [Tills -> TradeRows]
  BY DEF TradeTyped, SalesTyped
<1>. HIDE DEF v
<1>. QED
  BY <1>1, <1>3, <1>4, <1>5

LEMMA CancelTyped ==
  ASSUME TradeTyped, NEW x \in Tills, Trading!CancelSale(x)
  PROVE  TradeTyped'
<1>. DEFINE v == trade[x]
<1>1. /\ trade[x].st = "LIVE" /\ trade' \in [Tills -> TradeRows]
      /\ trade'[x].st = "CANCELLED"
      /\ \A y \in Tills \ {x} : trade'[y] = trade[y]
  BY CancelledRow
<1>2. /\ v.brand \in Makes /\ v.rep \in Reps \cup {"direct"} /\ v.unitCost \in Nat
      /\ v.at \in Trading!Months /\ v.posted \in Makes \cup {"no"} /\ Price - v.off \in Nat
  BY <1>1, LiveRow
<1>3. /\ debt' = [debt EXCEPT ![x] = 0]
      /\ IF v.rep \in Reps
         THEN hand' = [hand EXCEPT ![v.rep][v.brand] = @ + 1] /\ shelf' = shelf
         ELSE shelf' = [shelf EXCEPT ![v.brand] = @ + 1] /\ hand' = hand
      /\ written' = written + Trading!LineCost(x) - cost[v.brand]
      /\ IF v.posted = "no" THEN book' = book ELSE Trading!Enter("SALE", v.posted, v.at, -Trading!Total(x))
      /\ UNCHANGED <<cost, bill, payouts, open, draw, fined, staff, month, epoch>>
  BY DEF Trading!CancelSale, Trading!reps, Trading!clock
<1>. HIDE DEF v
<1>4. GoodsTyped'
  <2>1. cost[v.brand] \in Nat /\ Trading!LineCost(x) \in Int
    BY <1>2 DEF v, Trading!LineCost, TradeTyped, GoodsTyped
  <2>2. written' \in Int
    BY <1>3, <2>1 DEF TradeTyped, GoodsTyped
  <2>3. hand \in [Reps -> [Makes -> Nat]] /\ shelf \in [Makes -> Nat]
    BY DEF TradeTyped, GoodsTyped
  <2>4. hand' \in [Reps -> [Makes -> Nat]] /\ shelf' \in [Makes -> Nat]
    <3>1. CASE v.rep \in Reps
      BY ONLY <1>2, <1>3, <2>3, <3>1
    <3>2. CASE v.rep \notin Reps
      BY ONLY <1>2, <1>3, <2>3, <3>2
    <3>. QED
      BY <3>1, <3>2
  <2>. QED
    BY <1>3, <2>2, <2>4 DEF TradeTyped, GoodsTyped
<1>5. SalesTyped'
  <2>1. debt' \in [Tills -> Nat] /\ debt'[x] = 0 /\ \A y \in Tills \ {x} : debt'[y] = debt[y]
    BY <1>3 DEF TradeTyped, SalesTyped
  <2>. QED
    BY <1>1, <2>1 DEF TradeTyped, SalesTyped
<1>6. BookTyped'
  <2>1. CASE v.posted = "no"
    BY <1>3, <2>1 DEF TradeTyped, BookTyped
  <2>2. CASE v.posted # "no"
    <3>1. -Trading!Total(x) \in Int
      BY <1>2 DEF v, Trading!Total
    <3>2. v.posted \in Makes /\ "SALE" \in Trading!Kinds /\ BookTyped
      BY <1>2, <2>2 DEF TradeTyped, Trading!Kinds
    <3>. QED
      BY <1>2, <1>3, <2>2, <3>1, <3>2, EntryAdds
  <2>. QED
    BY <2>1, <2>2
<1>7. RepsTyped' /\ OwnerTyped'
  BY <1>3 DEF TradeTyped, RepsTyped, OwnerTyped
<1>. QED
  BY <1>4, <1>5, <1>6, <1>7 DEF TradeTyped

(* The sales without a row, and the wallet each is entered in. *)
Missing == {x \in Trading!Live : trade[x].type = "CASH" /\ trade[x].posted = "no" /\ trade[x].at >= epoch}
Wallet(x, default) == IF trade[x].brand \in open THEN trade[x].brand ELSE default
Entries(default, w, t) ==
  [x \in {y \in Missing : Wallet(y, default) = w /\ trade[y].at = t} |-> Trading!Total(x)]
Posted(x, default) == [trade[x] EXCEPT !.posted = Wallet(x, default)]
FinanceOpens(default) ==
  /\ default \in open
  /\ trade' = [x \in Tills |-> IF x \in Missing THEN Posted(x, default) ELSE trade[x]]
  /\ book' \in [Trading!Kinds -> [Makes -> [Trading!Months -> Int]]]
  /\ \A w \in Makes, t \in Trading!Months :
       book'["SALE"][w][t] = book["SALE"][w][t] + SumFunction(Entries(default, w, t))
  /\ \A k \in Trading!Kinds \ {"SALE"} : book'[k] = book[k]
  /\ UNCHANGED <<debt, Trading!goods, bill, payouts, open, Trading!reps, Trading!clock>>

LEMMA OpenFinanceOpens == TradeTyped /\ Trading!OpenFinance => \E default \in Makes : FinanceOpens(default)
<1>. SUFFICES ASSUME TradeTyped, Trading!OpenFinance PROVE \E default \in Makes : FinanceOpens(default)
  OBVIOUS
<1>1. PICK default \in open :
        /\ trade' = [x \in Tills |-> IF x \in Missing THEN Posted(x, default) ELSE trade[x]]
        /\ book' = [book EXCEPT !["SALE"] = [w \in Makes |-> [t \in Trading!Months |->
                      @[w][t] + Trading!SumFunction(Entries(default, w, t))]]]
  BY DEF Trading!OpenFinance, Missing, Wallet, Posted, Entries, Trading!Sum
<1>2. ASSUME NEW w \in Makes, NEW t \in Trading!Months
      PROVE  SumFunction(Entries(default, w, t)) \in Int
  <2>. DEFINE S == {y \in Missing : Wallet(y, default) = w /\ trade[y].at = t}
  <2>1. S \in SUBSET Tills
    BY DEF Missing, Trading!Live
  <2>2. IsFiniteSet(S)
    BY <2>1, DeskAssumption, FS_Subset
  <2>3. \A x \in S : Trading!Total(x) \in Int
    BY LiveRow DEF Missing, Trading!Live, Trading!Total
  <2>. HIDE DEF S
  <2>4. DOMAIN Entries(default, w, t) = S /\ \A x \in S : Entries(default, w, t)[x] \in Int
    BY <2>3 DEF Entries, S
  <2>. QED
    BY <2>2, <2>4, SumFunctionIsInt
<1>. DEFINE Now(w, t) == SumFunction(Entries(default, w, t))
<1>3. book' = [book EXCEPT !["SALE"] = [w \in Makes |-> [t \in Trading!Months |-> @[w][t] + Now(w, t)]]]
  BY <1>1, TradeSums
<1>4. "SALE" \in Trading!Kinds /\ book \in [Trading!Kinds -> [Makes -> [Trading!Months -> Int]]]
  BY DEF TradeTyped, BookTyped, Trading!Kinds
<1>. HIDE DEF Now
<1>5. /\ \A w \in Makes, t \in Trading!Months : book'["SALE"][w][t] = book["SALE"][w][t] + Now(w, t)
      /\ \A k \in Trading!Kinds \ {"SALE"} : book'[k] = book[k]
  BY <1>3, <1>4
<1>6. \A w \in Makes, t \in Trading!Months : Now(w, t) \in Int
  BY <1>2 DEF Now
<1>7. book' \in [Trading!Kinds -> [Makes -> [Trading!Months -> Int]]]
  BY <1>3, <1>4, <1>6
<1>8. UNCHANGED <<debt, Trading!goods, bill, payouts, open, Trading!reps, Trading!clock>>
  BY DEF Trading!OpenFinance
<1>9. default \in Makes
  BY DEF TradeTyped, OwnerTyped
<1>. QED
  BY <1>1, <1>5, <1>7, <1>8, <1>9 DEF FinanceOpens, Now

LEMMA MissingRow ==
  ASSUME TradeTyped, NEW default \in Makes, FinanceOpens(default), NEW x \in Missing
  PROVE  /\ x \in Tills /\ trade[x].st = "LIVE" /\ trade[x].posted = "no" /\ trade[x].type = "CASH"
         /\ Wallet(x, default) \in Makes
         /\ Posted(x, default) \in TradeRows
         /\ Posted(x, default).st = "LIVE" /\ Posted(x, default).type = "CASH"
         /\ Posted(x, default).posted = Wallet(x, default)
         /\ Posted(x, default).at = trade[x].at /\ Posted(x, default).off = trade[x].off
         /\ Posted(x, default).brand = trade[x].brand /\ Posted(x, default).unitCost = trade[x].unitCost
<1>1. x \in Tills /\ trade[x].st = "LIVE" /\ trade[x].posted = "no" /\ trade[x].type = "CASH"
  BY DEF Missing, Trading!Live
<1>2. trade[x] \in TradeRows \ {Trading!NoSale}
  BY <1>1, LiveRow
<1>3. Wallet(x, default) \in Makes
  BY DEF Wallet, TradeTyped, OwnerTyped
<1>. QED
  BY <1>1, <1>2, <1>3 DEF Posted, TradeRows

LEMMA OpenFinanceTyped == ASSUME TradeTyped, Trading!OpenFinance PROVE TradeTyped'
<1>1. PICK default \in Makes : FinanceOpens(default)
  BY OpenFinanceOpens
<1>2. UNCHANGED <<debt, shelf, hand, cost, written, bill, payouts, open, draw, fined, staff, month, epoch>>
  BY <1>1 DEF FinanceOpens, Trading!goods, Trading!reps, Trading!clock
<1>3. SalesTyped'
  <2>1. trade' = [x \in Tills |-> IF x \in Missing THEN Posted(x, default) ELSE trade[x]]
    BY <1>1 DEF FinanceOpens
  <2>2. ASSUME NEW x \in Tills
        PROVE  /\ trade'[x] \in TradeRows
               /\ debt'[x] > 0 => trade'[x].st = "LIVE"
               /\ trade'[x].st = "LIVE" /\ trade'[x].posted # "no" => trade'[x].type = "CASH"
    <3>1. CASE x \in Missing
      BY <1>1, <2>1, <3>1, MissingRow
    <3>2. CASE x \notin Missing
      BY <1>2, <2>1, <3>2 DEF TradeTyped, SalesTyped
    <3>. QED
      BY <3>1, <3>2
  <2>3. trade' \in [Tills -> TradeRows]
    BY <2>1, <2>2
  <2>. QED
    BY <1>2, <2>2, <2>3 DEF TradeTyped, SalesTyped
<1>4. BookTyped'
  BY <1>1 DEF FinanceOpens, TradeTyped, BookTyped
<1>5. GoodsTyped' /\ RepsTyped' /\ OwnerTyped'
  BY <1>2 DEF TradeTyped, GoodsTyped, RepsTyped, OwnerTyped
<1>. QED
  BY <1>3, <1>4, <1>5 DEF TradeTyped

LEMMA CollectTyped ==
  ASSUME TradeTyped, NEW x \in Tills, NEW n \in 1..Price, Trading!CollectDebt(x, n)
  PROVE  TradeTyped'
<1>1. n <= debt[x] /\ debt' = [debt EXCEPT ![x] = @ - n]
      /\ UNCHANGED <<trade, shelf, hand, cost, written, bill, book, payouts, open, draw, fined, staff, month, epoch>>
  BY DEF Trading!CollectDebt, Trading!goods, Trading!money, Trading!reps, Trading!clock
<1>2. n \in Nat
  BY DeskAssumption
<1>3. SalesTyped'
  BY <1>1, <1>2 DEF TradeTyped, SalesTyped
<1>. QED
  BY <1>1, <1>3 DEF TradeTyped, GoodsTyped, BookTyped, RepsTyped, OwnerTyped

LEMMA MoveTyped ==
  ASSUME TradeTyped, NEW r \in Reps, NEW b \in Makes, Trading!Issue(r, b) \/ Trading!TakeBack(r, b)
  PROVE  TradeTyped'
<1>1. /\ \/ /\ shelf[b] > 0 /\ shelf' = [shelf EXCEPT ![b] = @ - 1]
            /\ hand' = [hand EXCEPT ![r][b] = @ + 1]
         \/ /\ hand[r][b] > 0 /\ shelf' = [shelf EXCEPT ![b] = @ + 1]
            /\ hand' = [hand EXCEPT ![r][b] = @ - 1]
      /\ UNCHANGED <<trade, debt, cost, written, bill, book, payouts, open, draw, fined, staff, month, epoch>>
  BY DEF Trading!Issue, Trading!TakeBack, Trading!trades, Trading!money, Trading!reps, Trading!clock
<1>2. shelf \in [Makes -> Nat] /\ hand \in [Reps -> [Makes -> Nat]]
  BY DEF TradeTyped, GoodsTyped
<1>3. shelf' \in [Makes -> Nat] /\ hand' \in [Reps -> [Makes -> Nat]]
  BY <1>1, <1>2
<1>. QED
  BY <1>1, <1>3 DEF TradeTyped, SalesTyped, GoodsTyped, BookTyped, RepsTyped, OwnerTyped

LEMMA CorrectTyped ==
  ASSUME TradeTyped, NEW b \in Makes, NEW d \in {-1, 1}, Trading!Correct(b, d)
  PROVE  TradeTyped'
<1>0. d \in Int /\ cost[b] \in Nat /\ d * cost[b] \in Int
  BY DEF TradeTyped, GoodsTyped
<1>1. /\ shelf[b] + d >= 0 /\ shelf' = [shelf EXCEPT ![b] = @ + d]
      /\ written' = written - d * cost[b]
      /\ UNCHANGED <<trade, debt, hand, cost, bill, book, payouts, open, draw, fined, staff, month, epoch>>
  BY DEF Trading!Correct, Trading!trades, Trading!money, Trading!reps, Trading!clock
<1>2. shelf' \in [Makes -> Nat] /\ written' \in Int
  BY <1>0, <1>1 DEF TradeTyped, GoodsTyped
<1>. QED
  BY <1>1, <1>2 DEF TradeTyped, SalesTyped, GoodsTyped, BookTyped, RepsTyped, OwnerTyped

LEMMA CostsAreNat == \A c \in BoxCosts \cup {0} : c \in Nat
BY DeskAssumption

LEMMA BillTyped ==
  ASSUME TradeTyped, NEW b \in Makes,
         \/ \E c \in BoxCosts : Trading!Order(b, c)
         \/ Trading!DropOrder(b)
         \/ \E n \in 1..2 : Trading!SendBack(b, n)
  PROVE  TradeTyped'
<1>0. bill \in [Makes -> BillRows] /\ BoxCosts \subseteq Nat
  BY DeskAssumption DEF TradeTyped, GoodsTyped
<1>1. bill' \in [Makes -> BillRows]
  <2>1. ASSUME NEW c \in BoxCosts, Trading!Order(b, c) PROVE bill' \in [Makes -> BillRows]
    <3>1. bill' = [bill EXCEPT ![b].ordered = @ + c, ![b].awaited = c]
      BY <2>1, Zenon DEF Trading!Order
    <3>2. c \in Int
      BY CostsAreNat
    <3>. DEFINE v == [bill[b] EXCEPT !.ordered = @ + c]
    <3>3. v \in BillRows
      BY <1>0, <3>2 DEF BillRows
    <3>. DEFINE u == [v EXCEPT !.awaited = c]
    <3>4. u \in BillRows
      BY <3>3 DEF BillRows
    <3>5. bill' = [bill EXCEPT ![b] = u]
      BY <1>0, <3>1
    <3>. HIDE DEF u
    <3>. QED
      BY <1>0, <3>4, <3>5
  <2>2. ASSUME Trading!DropOrder(b) PROVE bill' \in [Makes -> BillRows]
    BY <1>0, <2>2 DEF Trading!DropOrder, BillRows
  <2>3. ASSUME NEW n \in 1..2, Trading!SendBack(b, n) PROVE bill' \in [Makes -> BillRows]
    BY <1>0, <2>3 DEF Trading!SendBack, BillRows
  <2>. QED
    BY <2>1, <2>2, <2>3
<1>2. UNCHANGED <<trade, debt, shelf, hand, cost, written, book, payouts, open, draw, fined, staff, month, epoch>>
  BY DEF Trading!Order, Trading!DropOrder, Trading!SendBack, Trading!trades, Trading!goods,
     Trading!money, Trading!reps, Trading!clock
<1>. QED
  BY <1>1, <1>2 DEF TradeTyped, SalesTyped, GoodsTyped, BookTyped, RepsTyped, OwnerTyped

LEMMA UncostedIsNat == ASSUME NEW b PROVE Trading!Uncosted(b) \in Nat
<1>. DEFINE S == {x \in Trading!Live : trade[x].brand = b /\ trade[x].unitCost = 0}
<1>1. S \in SUBSET Tills
  BY DEF Trading!Live
<1>2. IsFiniteSet(S)
  BY <1>1, DeskAssumption, FS_Subset
<1>. HIDE DEF S
<1>3. Cardinality(S) \in Nat
  BY <1>2, FS_CardinalityType
<1>. QED
  BY <1>3, TradeCounts DEF Trading!Uncosted, S

(* The boxes of a brand, on the shelf and with the reps. *)
InHands(b) == [r \in Reps |-> hand[r][b]]
LEMMA StockedIsSum ==
  ASSUME TradeTyped, NEW b \in Makes
  PROVE  /\ Trading!Stocked(b) = shelf[b] + SumFunction(InHands(b))
         /\ DOMAIN InHands(b) = Reps /\ \A r \in Reps : InHands(b)[r] = hand[r][b] /\ InHands(b)[r] \in Nat
         /\ SumFunction(InHands(b)) \in Nat /\ Trading!Stocked(b) \in Nat
<1>1. \A r \in Reps : hand[r][b] \in Nat
  BY DEF TradeTyped, GoodsTyped
<1>2. DOMAIN InHands(b) = Reps /\ \A r \in Reps : InHands(b)[r] = hand[r][b] /\ InHands(b)[r] \in Nat
  BY <1>1 DEF InHands
<1>3. SumFunction(InHands(b)) \in Nat
  BY <1>2, SumFunctionIsNat, DeskAssumption
<1>4. Trading!Stocked(b) = shelf[b] + Trading!SumFunction(InHands(b))
  BY DEF Trading!Stocked, Trading!Sum, InHands
<1>5. shelf[b] \in Nat
  BY DEF TradeTyped, GoodsTyped
<1>. QED
  BY <1>2, <1>3, <1>4, <1>5, TradeSums

LEMMA TradeReceiveTyped ==
  ASSUME TradeTyped, NEW b \in Makes, Trading!Receive(b)
  PROVE  TradeTyped'
<1>. DEFINE c == bill[b].awaited
<1>0. bill \in [Makes -> BillRows] /\ BoxCosts \subseteq Nat /\ c \in Nat /\ cost[b] \in Nat
  <2>1. bill \in [Makes -> BillRows] /\ cost[b] \in Nat
    BY DEF TradeTyped, GoodsTyped
  <2>2. BoxCosts \subseteq Nat
    BY CostsAreNat
  <2>3. c \in BoxCosts \cup {0}
    BY <2>1 DEF BillRows
  <2>. HIDE DEF c
  <2>4. c \in Nat
    BY <2>3, CostsAreNat
  <2>. QED
    BY <2>1, <2>2, <2>4
<1>1. /\ bill' = [bill EXCEPT ![b].awaited = 0] /\ shelf' = [shelf EXCEPT ![b] = @ + 1]
      /\ cost' = [cost EXCEPT ![b] = c]
      /\ written' = written - (c - cost[b]) * (Trading!Stocked(b) + Trading!Uncosted(b))
      /\ UNCHANGED <<trade, debt, hand, book, payouts, open, draw, fined, staff, month, epoch>>
  BY DEF Trading!Receive, Trading!trades, Trading!money, Trading!reps, Trading!clock
<1>2. bill' \in [Makes -> BillRows]
  BY <1>0, <1>1 DEF BillRows
<1>3. (c - cost[b]) * (Trading!Stocked(b) + Trading!Uncosted(b)) \in Int
  <2>1. c - cost[b] \in Int /\ Trading!Stocked(b) + Trading!Uncosted(b) \in Int
    BY <1>0, UncostedIsNat, StockedIsSum
  <2>. HIDE DEF c
  <2>. QED
    BY <2>1
<1>4. written' \in Int
  BY <1>1, <1>3 DEF TradeTyped, GoodsTyped
<1>5. shelf' \in [Makes -> Nat] /\ cost' \in [Makes -> Nat]
  BY <1>0, <1>1 DEF TradeTyped, GoodsTyped
<1>. QED
  BY <1>1, <1>2, <1>4, <1>5 DEF TradeTyped, SalesTyped, GoodsTyped, BookTyped, RepsTyped, OwnerTyped

LEMMA PaySupplierTyped ==
  ASSUME TradeTyped, NEW b \in Makes, NEW n \in 1..2, Trading!PaySupplier(b, n)
  PROVE  TradeTyped'
<1>1. /\ bill' = [bill EXCEPT ![b].paid = @ + n] /\ Trading!Enter("STOCK_PURCHASE", b, month, n)
      /\ UNCHANGED <<trade, debt, shelf, hand, cost, written, payouts, open, draw, fined, staff, month, epoch>>
  BY DEF Trading!PaySupplier, Trading!trades, Trading!goods, Trading!reps, Trading!clock
<1>2. bill' \in [Makes -> BillRows]
  <2>1. bill \in [Makes -> BillRows] /\ n \in Nat
    BY DEF TradeTyped, GoodsTyped
  <2>. QED
    BY <1>1, <2>1 DEF BillRows
<1>3. BookTyped'
  BY <1>1, EntryAdds DEF TradeTyped, OwnerTyped, Trading!Kinds
<1>. QED
  BY <1>1, <1>2, <1>3 DEF TradeTyped, SalesTyped, GoodsTyped, RepsTyped, OwnerTyped

LEMMA ByHandTyped ==
  ASSUME TradeTyped, NEW b \in Makes, NEW k \in Trading!Kinds \ {"SALE", "STOCK_PURCHASE"},
         Trading!ByHand(k, b, month)
  PROVE  TradeTyped'
<1>1. /\ Trading!Enter(k, b, month, 1)
      /\ UNCHANGED <<trade, debt, shelf, hand, cost, written, bill, payouts, open, draw, fined, staff, month, epoch>>
  BY DEF Trading!ByHand, Trading!trades, Trading!goods, Trading!reps, Trading!clock
<1>2. BookTyped'
  BY <1>1, EntryAdds DEF TradeTyped, OwnerTyped
<1>. QED
  BY <1>1, <1>2 DEF TradeTyped, SalesTyped, GoodsTyped, RepsTyped, OwnerTyped

LEMMA SwitchTyped ==
  ASSUME TradeTyped,
         \/ \E b \in Makes : Trading!SwitchWallet(b)
         \/ \E r \in Reps : Trading!SwitchRep(r)
         \/ Trading!NextMonth
  PROVE  TradeTyped'
<1>1. /\ open' \subseteq Makes /\ staff' \subseteq Reps /\ month' \in Trading!Months
      /\ UNCHANGED <<trade, debt, shelf, hand, cost, written, bill, book, payouts, draw, fined, epoch>>
  BY DEF Trading!SwitchWallet, Trading!SwitchRep, Trading!NextMonth, TradeTyped, OwnerTyped,
     Trading!trades, Trading!goods, Trading!money, Trading!reps, Trading!clock
<1>. QED
  BY <1>1 DEF TradeTyped, SalesTyped, GoodsTyped, BookTyped, RepsTyped, OwnerTyped

(* A withdrawal moves from one pile to another. *)
LEMMA DecisionMoves ==
  ASSUME TradeTyped, NEW r \in Reps, NEW from, NEW to, Trading!DecidePayout(r, from, to)
  PROVE  /\ from \in {"PENDING", "APPROVED"} /\ to \in {"APPROVED", "PAID"}
         /\ draw' \in [Reps -> DrawRows] /\ \A q \in Reps \ {r} : draw'[q] = draw[q]
         /\ draw'[r].PAID = draw[r].PAID + (IF to = "PAID" THEN 1 ELSE 0)
         /\ payouts' = IF to = "PAID" THEN [payouts EXCEPT ![month] = @ + 1] ELSE payouts
<1>1. /\ draw[r][from] > 0
      /\ draw' = [draw EXCEPT ![r][from] = @ - 1, ![r][to] = @ + 1]
      /\ payouts' = IF to = "PAID" THEN [payouts EXCEPT ![month] = @ + 1] ELSE payouts
  BY DEF Trading!DecidePayout
<1>2. draw \in [Reps -> DrawRows]
  BY DEF TradeTyped, RepsTyped
<1>3. CASE from = "PENDING" /\ to = "APPROVED"
  <2>1. draw' = [draw EXCEPT ![r].PENDING = @ - 1, ![r].APPROVED = @ + 1] /\ draw[r].PENDING > 0
    BY <1>1, <1>3
  <2>. QED
    BY <1>1, <1>2, <1>3, <2>1 DEF DrawRows
<1>4. CASE from = "PENDING" /\ to = "PAID"
  <2>1. draw' = [draw EXCEPT ![r].PENDING = @ - 1, ![r].PAID = @ + 1] /\ draw[r].PENDING > 0
    BY <1>1, <1>4
  <2>. QED
    BY <1>1, <1>2, <1>4, <2>1 DEF DrawRows
<1>5. CASE from = "APPROVED" /\ to = "PAID"
  <2>1. draw' = [draw EXCEPT ![r].APPROVED = @ - 1, ![r].PAID = @ + 1] /\ draw[r].APPROVED > 0
    BY <1>1, <1>5
  <2>. QED
    BY <1>1, <1>2, <1>5, <2>1 DEF DrawRows
<1>. QED
  BY <1>3, <1>4, <1>5 DEF Trading!DecidePayout

LEMMA PayoutTyped ==
  ASSUME TradeTyped, NEW r \in Reps,
         \/ Trading!RequestPayout(r) \/ Trading!RejectPayout(r)
         \/ \E from \in {"PENDING", "APPROVED"}, to \in {"APPROVED", "PAID"} :
              Trading!DecidePayout(r, from, to)
         \/ \E d \in {-1, 1} : Trading!Fine(r, d)
  PROVE  TradeTyped'
<1>0. /\ draw \in [Reps -> DrawRows] /\ fined \in [Reps -> Nat]
      /\ payouts \in [Trading!Months -> Int] /\ month \in Trading!Months
  BY DEF TradeTyped, RepsTyped, OwnerTyped
<1>1. UNCHANGED <<trade, debt, shelf, hand, cost, written, bill, book, open, staff, month, epoch>>
  BY DEF Trading!RequestPayout, Trading!RejectPayout, Trading!DecidePayout, Trading!Fine,
     Trading!trades, Trading!goods, Trading!money, Trading!clock
<1>2. RepsTyped' /\ payouts' \in [Trading!Months -> Int]
  <2>1. CASE Trading!RequestPayout(r)
    BY <1>0, <2>1 DEF Trading!RequestPayout, Trading!money, RepsTyped, DrawRows
  <2>2. CASE Trading!RejectPayout(r)
    BY <1>0, <2>2 DEF Trading!RejectPayout, Trading!money, RepsTyped, DrawRows
  <2>3. ASSUME NEW from, NEW to, Trading!DecidePayout(r, from, to)
        PROVE  RepsTyped' /\ payouts' \in [Trading!Months -> Int]
    <3>1. draw' \in [Reps -> DrawRows]
          /\ payouts' = IF to = "PAID" THEN [payouts EXCEPT ![month] = @ + 1] ELSE payouts
      BY <2>3, DecisionMoves
    <3>2. fined' = fined
      BY <2>3 DEF Trading!DecidePayout
    <3>. QED
      BY <1>0, <3>1, <3>2 DEF RepsTyped
  <2>4. ASSUME NEW d \in {-1, 1}, Trading!Fine(r, d)
        PROVE  RepsTyped' /\ payouts' \in [Trading!Months -> Int]
    BY <1>0, <2>4 DEF Trading!Fine, Trading!money, RepsTyped
  <2>. QED
    BY <2>1, <2>2, <2>3, <2>4
<1>. QED
  BY <1>1, <1>2 DEF TradeTyped, SalesTyped, GoodsTyped, BookTyped, OwnerTyped

LEMMA TradeStepTyped == TradeTyped /\ [Trading!Next]_tradeVars => TradeTyped'
<1>. SUFFICES ASSUME TradeTyped, [Trading!Next]_tradeVars PROVE TradeTyped'
  OBVIOUS
<1>1. CASE UNCHANGED tradeVars
  BY <1>1 DEF tradeVars, TradeTyped, SalesTyped, GoodsTyped, BookTyped, RepsTyped, OwnerTyped
<1>2. CASE Trading!Next
  BY <1>2, SellTyped, SettleTyped, CancelTyped, CollectTyped, MoveTyped, CorrectTyped, BillTyped,
     TradeReceiveTyped, PaySupplierTyped, ByHandTyped, SwitchTyped, PayoutTyped, OpenFinanceTyped
     DEF Trading!Next
<1>. QED
  BY <1>1, <1>2

(* The sale rows of a wallet and a month are the live sales entered there. *)
Taken(v, w, t) == IF v.st = "LIVE" /\ v.posted = w /\ v.at = t THEN Price - v.off ELSE 0
PostedIn(w, t) == [x \in Tills |-> Taken(trade[x], w, t)]
SalesPosted ==
  \A w \in Makes, t \in Trading!Months : book["SALE"][w][t] = SumFunction(PostedIn(w, t))

LEMMA TakenIsNat == ASSUME NEW v \in TradeRows, NEW w, NEW t PROVE Taken(v, w, t) \in Nat
<1>1. Price \in Nat \ {0}
  BY DeskAssumption
<1>2. CASE v = Trading!NoSale
  BY <1>2 DEF Taken, Trading!NoSale
<1>3. CASE v # Trading!NoSale
  <2>1. v.off \in 0..1
    BY <1>3 DEF TradeRows
  <2>. QED
    BY <1>1, <2>1 DEF Taken
<1>. QED
  BY <1>2, <1>3

LEMMA PostedIsNat ==
  ASSUME TradeTyped, NEW w, NEW t
  PROVE  /\ PostedIn(w, t) \in [Tills -> Int]
         /\ DOMAIN PostedIn(w, t) = Tills /\ \A x \in Tills : PostedIn(w, t)[x] \in Nat
         /\ \A x \in Tills : PostedIn(w, t)[x] = Taken(trade[x], w, t)
         /\ SumFunction(PostedIn(w, t)) \in Nat
<1>1. \A x \in Tills : Taken(trade[x], w, t) \in Nat
  BY TakenIsNat DEF TradeTyped, SalesTyped
<1>2. /\ DOMAIN PostedIn(w, t) = Tills /\ \A x \in Tills : PostedIn(w, t)[x] \in Nat
      /\ \A x \in Tills : PostedIn(w, t)[x] = Taken(trade[x], w, t)
      /\ PostedIn(w, t) \in [Tills -> Int]
  BY <1>1 DEF PostedIn
<1>. QED
  BY <1>2, SumFunctionIsNat, DeskAssumption

(* One sale changes, and the rows of its wallet with it. *)
PostsAt(x) ==
  \A w \in Makes, t \in Trading!Months :
    SumFunction(PostedIn(w, t))'
      = SumFunction(PostedIn(w, t)) - Taken(trade[x], w, t) + Taken(trade'[x], w, t)
LEMMA PostedChanges ==
  ASSUME TradeTyped, TradeTyped', NEW x \in Tills, \A y \in Tills \ {x} : trade'[y] = trade[y]
  PROVE  PostsAt(x)
<1>. SUFFICES ASSUME NEW w \in Makes, NEW t \in Trading!Months
     PROVE  SumFunction(PostedIn(w, t))'
              = SumFunction(PostedIn(w, t)) - Taken(trade[x], w, t) + Taken(trade'[x], w, t)
  BY DEF PostsAt
<1>. DEFINE f == PostedIn(w, t)  g == [y \in Tills |-> Taken(trade'[y], w, t)]
<1>1. DOMAIN f = Tills /\ \A y \in Tills : f[y] \in Int /\ f[y] = Taken(trade[y], w, t)
  BY PostedIsNat
<1>2. \A y \in Tills : trade'[y] \in TradeRows
  BY DEF TradeTyped, SalesTyped
<1>3. DOMAIN g = Tills /\ \A y \in Tills : g[y] \in Int /\ g[y] = Taken(trade'[y], w, t)
  BY <1>2, TakenIsNat
<1>4. g = PostedIn(w, t)'
  BY DEF PostedIn
<1>. HIDE DEF f, g
<1>5. SumFunction(g) = SumFunction(f) - ValueAt(f, x) + ValueAt(g, x)
  BY <1>1, <1>3, DeskAssumption, SumDiffersAt
<1>6. ValueAt(f, x) = Taken(trade[x], w, t) /\ ValueAt(g, x) = Taken(trade'[x], w, t)
  BY <1>1, <1>3 DEF ValueAt
<1>7. SumFunction(PostedIn(w, t))' = SumFunction(g)
  BY <1>4
<1>. QED
  BY <1>5, <1>6, <1>7 DEF f

PostsRow(v) ==
  \A c \in Makes, u \in Trading!Months :
    /\ book'["SALE"][c][u] = book["SALE"][c][u] + Taken(v, c, u)
    /\ \A k \in Trading!Kinds \ {"SALE"} : book'[k][c][u] = book[k][c][u]
LEMMA EnrolPosts ==
  ASSUME TradeTyped, NEW b \in Makes, NEW r \in Reps \cup {"direct"}, NEW type \in {"CASH", "CREDIT"},
         NEW off \in 0..1, NEW w \in Makes \cup {"no"}, Trading!Enrol(b, r, type, off, w)
  PROVE  PostsRow(NewSale(b, r, type, off, w))
<1>. DEFINE v == NewSale(b, r, type, off, w)
<1>0. /\ Price - off \in Int /\ month \in Trading!Months /\ "SALE" \in Trading!Kinds /\ BookTyped
      /\ "no" \notin Makes
  BY DeskAssumption DEF TradeTyped, OwnerTyped, Trading!Kinds
<1>1. \A c, u : Taken(v, c, u) = IF w = c /\ month = u THEN Price - off ELSE 0
  BY DEF Taken, NewSale
<1>2. \A c \in Makes, u \in Trading!Months : book["SALE"][c][u] \in Int
  BY <1>0 DEF BookTyped
<1>. HIDE DEF PostsRow
<1>3. CASE w = "no"
  <2>1. book' = book
    BY <1>3 DEF Trading!Enrol, Trading!PostSale
  <2>2. \A c \in Makes, u \in Trading!Months : Taken(v, c, u) = 0
    BY <1>0, <1>1, <1>3
  <2>. QED
    BY <1>2, <2>1, <2>2 DEF PostsRow
<1>4. CASE w # "no"
  <2>1. w \in Makes /\ Trading!Enter("SALE", w, month, Price - off)
    BY <1>4 DEF Trading!Enrol, Trading!PostSale
  <2>2. \A j \in Trading!Kinds, c \in Makes, u \in Trading!Months :
          book'[j][c][u] = IF j = "SALE" /\ c = w /\ u = month THEN book[j][c][u] + (Price - off) ELSE book[j][c][u]
    BY <1>0, <2>1, EntryAdds
  <2>. QED
    BY <1>0, <1>1, <1>2, <2>2 DEF PostsRow
<1>5. PostsRow(v)
  BY <1>3, <1>4
<1>. QED
  BY <1>5 DEF v

LEMMA EnrolKeepsPosts ==
  ASSUME TradeTyped, TradeTyped', SalesPosted,
         NEW b \in Makes, NEW r \in Reps \cup {"direct"}, NEW type \in {"CASH", "CREDIT"},
         NEW off \in 0..1, NEW w \in Makes \cup {"no"}, Trading!Enrol(b, r, type, off, w)
  PROVE  SalesPosted'
<1>. DEFINE v == NewSale(b, r, type, off, w)  x == Trading!NextSlot
<1>1. x \in Tills /\ trade[x] = Trading!NoSale /\ trade'[x] = v
      /\ \A y \in Tills \ {x} : trade'[y] = trade[y]
  BY EnrolTakesARow DEF Enrolled
<1>4. \A c \in Makes, u \in Trading!Months : book'["SALE"][c][u] = book["SALE"][c][u] + Taken(v, c, u)
  <2>1. PostsRow(v)
    BY EnrolPosts
  <2>. QED
    BY <2>1 DEF PostsRow
<1>. HIDE DEF v, x
<1>2. PostsAt(x)
  BY <1>1, PostedChanges
<1>3. \A c, u : Taken(Trading!NoSale, c, u) = 0
  BY DEF Taken, Trading!NoSale
<1>5. v \in TradeRows
  BY <1>1 DEF TradeTyped, SalesTyped
<1>6. ASSUME NEW c \in Makes, NEW u \in Trading!Months
      PROVE  book'["SALE"][c][u] = SumFunction(PostedIn(c, u))'
  <2>1. Taken(v, c, u) \in Nat /\ SumFunction(PostedIn(c, u)) \in Nat
    BY <1>5, TakenIsNat, PostedIsNat
  <2>2. SumFunction(PostedIn(c, u))' = SumFunction(PostedIn(c, u)) - 0 + Taken(v, c, u)
    BY <1>1, <1>2, <1>3 DEF PostsAt
  <2>3. book["SALE"][c][u] = SumFunction(PostedIn(c, u))
    BY DEF SalesPosted
  <2>. QED
    BY <1>4, <2>1, <2>2, <2>3
<1>. QED
  BY <1>6 DEF SalesPosted

LEMMA CancelKeepsPosts ==
  ASSUME TradeTyped, TradeTyped', SalesPosted, NEW x \in Tills, Trading!CancelSale(x)
  PROVE  /\ SalesPosted'
         /\ \A k \in Trading!Kinds \ {"SALE"}, c \in Makes, u \in Trading!Months :
              book'[k][c][u] = book[k][c][u]
<1>. DEFINE v == trade[x]
<1>1. /\ v.st = "LIVE" /\ trade'[x].st = "CANCELLED"
      /\ \A y \in Tills \ {x} : trade'[y] = trade[y]
  BY CancelledRow
<1>2. /\ v.at \in Trading!Months /\ v.posted \in Makes \cup {"no"} /\ Price - v.off \in Nat
      /\ v \in TradeRows
  BY <1>1, LiveRow
<1>3. IF v.posted = "no" THEN book' = book ELSE Trading!Enter("SALE", v.posted, v.at, -(Price - v.off))
  BY DEF Trading!CancelSale, Trading!Total
<1>4. PostsAt(x)
  BY <1>1, PostedChanges
<1>5. \A c, u : Taken(trade'[x], c, u) = 0
  BY <1>1 DEF Taken
<1>6. \A c, u : Taken(v, c, u) = IF v.posted = c /\ v.at = u THEN Price - v.off ELSE 0
  BY <1>1 DEF Taken
<1>. HIDE DEF v
<1>7. "no" \notin Makes /\ "SALE" \in Trading!Kinds /\ BookTyped
  BY DeskAssumption DEF TradeTyped, Trading!Kinds
<1>8. \A k \in Trading!Kinds, c \in Makes, u \in Trading!Months : book[k][c][u] \in Int
  BY <1>7 DEF BookTyped
<1>9. \A c \in Makes, u \in Trading!Months :
        /\ book'["SALE"][c][u] = book["SALE"][c][u] - Taken(v, c, u)
        /\ \A k \in Trading!Kinds \ {"SALE"} : book'[k][c][u] = book[k][c][u]
  <2>1. CASE v.posted = "no"
    <3>1. book' = book /\ \A c \in Makes, u \in Trading!Months : Taken(v, c, u) = 0
      BY <1>3, <1>6, <1>7, <2>1
    <3>. QED
      BY <1>7, <1>8, <3>1
  <2>2. CASE v.posted # "no"
    <3>1. v.posted \in Makes /\ Trading!Enter("SALE", v.posted, v.at, -(Price - v.off))
          /\ -(Price - v.off) \in Int
      BY <1>2, <1>3, <2>2
    <3>2. \A j \in Trading!Kinds, c \in Makes, u \in Trading!Months :
            book'[j][c][u] = IF j = "SALE" /\ c = v.posted /\ u = v.at
                             THEN book[j][c][u] + -(Price - v.off) ELSE book[j][c][u]
      BY <1>2, <1>7, <3>1, EntryAdds
    <3>. QED
      BY <1>2, <1>6, <1>7, <1>8, <3>2
  <2>. QED
    BY <2>1, <2>2
<1>10. ASSUME NEW c \in Makes, NEW u \in Trading!Months
       PROVE  book'["SALE"][c][u] = SumFunction(PostedIn(c, u))'
  <2>1. Taken(v, c, u) \in Nat /\ SumFunction(PostedIn(c, u)) \in Nat
    BY <1>2, TakenIsNat, PostedIsNat
  <2>2. SumFunction(PostedIn(c, u))' = SumFunction(PostedIn(c, u)) - Taken(v, c, u) + 0
    BY <1>4, <1>5 DEF PostsAt, v
  <2>3. book["SALE"][c][u] = SumFunction(PostedIn(c, u))
    BY DEF SalesPosted
  <2>. QED
    BY <1>9, <2>1, <2>2, <2>3
<1>. QED
  BY <1>9, <1>10 DEF SalesPosted

(* The sales entered late add to what the others brought. *)
LEMMA OpenFinanceKeepsPosts ==
  ASSUME TradeTyped, TradeTyped', SalesPosted, NEW default \in Makes, FinanceOpens(default)
  PROVE  SalesPosted'
<1>. SUFFICES ASSUME NEW w \in Makes, NEW t \in Trading!Months
     PROVE  book'["SALE"][w][t] = SumFunction(PostedIn(w, t))'
  BY DEF SalesPosted
<1>. DEFINE S == {y \in Missing : Wallet(y, default) = w /\ trade[y].at = t}
            e == Entries(default, w, t)
            f == PostedIn(w, t)
            g == [x \in Tills |-> IF x \in S THEN e[x] ELSE 0]
            now == [x \in Tills |-> Taken(trade'[x], w, t)]
<1>0. "no" \notin Makes
  BY DeskAssumption
<1>1. S \in SUBSET Tills
  BY DEF Missing, Trading!Live
<1>2. /\ e \in [S -> Int]
      /\ \A x \in S : e[x] = Price - trade[x].off
  BY LiveRow DEF Missing, Trading!Live, Trading!Total, Entries
<1>3. f \in [Tills -> Int] /\ \A x \in Tills : f[x] = Taken(trade[x], w, t)
  BY PostedIsNat
<1>4. \A x \in Tills : trade'[x] = IF x \in Missing THEN Posted(x, default) ELSE trade[x]
  BY DEF FinanceOpens
<1>5. now = PostedIn(w, t)'
  BY DEF PostedIn
<1>6. ASSUME NEW x \in Tills PROVE now[x] = f[x] + g[x]
  <2>1. CASE x \in Missing
    <3>1. /\ trade[x].st = "LIVE" /\ trade[x].posted = "no"
          /\ trade'[x].st = "LIVE" /\ trade'[x].posted = Wallet(x, default)
          /\ trade'[x].at = trade[x].at /\ trade'[x].off = trade[x].off
      BY <1>4, <2>1, MissingRow
    <3>2. Taken(trade[x], w, t) = 0
      BY <1>0, <3>1 DEF Taken
    <3>3. Taken(trade'[x], w, t) = IF x \in S THEN e[x] ELSE 0
      BY <1>2, <2>1, <3>1 DEF Taken
    <3>4. (IF x \in S THEN e[x] ELSE 0) \in Int
      BY <1>2
    <3>. HIDE DEF S, e, f
    <3>. QED
      BY <1>3, <3>2, <3>3, <3>4
  <2>2. CASE x \notin Missing
    <3>1. trade'[x] = trade[x] /\ x \notin S
      BY <1>4, <2>2
    <3>. HIDE DEF S, e, f
    <3>. QED
      BY <1>3, <3>1
  <2>. QED
    BY <2>1, <2>2
<1>. HIDE DEF S, e, f
<1>7. g \in [Tills -> Int] /\ SumFunction(g) = SumFunction(e)
  <2>1. g \in [Tills -> Int]
    BY <1>2
  <2>. QED
    BY <1>1, <1>2, <2>1, DeskAssumption, SumOverPart
<1>8. now = [x \in Tills |-> f[x] + g[x]]
  BY <1>6
<1>. HIDE DEF g, now
<1>9. SumFunction(now) = SumFunction(f) + SumFunction(g)
  BY <1>3, <1>7, <1>8, DeskAssumption, SumOfSums
<1>10. book'["SALE"][w][t] = book["SALE"][w][t] + SumFunction(e)
  BY DEF FinanceOpens, e
<1>11. book["SALE"][w][t] = SumFunction(f)
  BY DEF SalesPosted, f
<1>. QED
  BY <1>5, <1>7, <1>9, <1>10, <1>11

(* What a supplier was paid left his brand's wallet; what the reps were    *)
(* paid is on the record of payouts.                                       *)
BillsPosted ==
  \A b \in Makes : bill[b].paid = book["STOCK_PURCHASE"][b][1] + book["STOCK_PURCHASE"][b][2]
Drawn == [r \in Reps |-> draw[r].PAID]
PayoutsDrawn == SumFunction(Drawn) = payouts[1] + payouts[2]

(* The actions that enter a sale, or a row of another kind. *)
LEMMA SalesEnrol ==
  ASSUME TradeTyped,
         \/ \E b \in Makes, type \in {"CASH", "CREDIT"}, off \in 0..1 : Trading!SellFromShelf(b, type, off)
         \/ \E r \in Reps, b \in Makes : Trading!Settle(r, b)
  PROVE  /\ \E b \in Makes, r \in Reps \cup {"direct"}, type \in {"CASH", "CREDIT"}, off \in 0..1,
               w \in Makes \cup {"no"} : Trading!Enrol(b, r, type, off, w)
         /\ UNCHANGED <<bill, draw, payouts>>
<1>1. ASSUME NEW b \in Makes, NEW type \in {"CASH", "CREDIT"}, NEW off \in 0..1,
             Trading!SellFromShelf(b, type, off)
      PROVE  (\E w \in Makes \cup {"no"} : Trading!Enrol(b, "direct", type, off, w))
             /\ UNCHANGED <<bill, draw, payouts>>
  BY <1>1 DEF Trading!SellFromShelf, Trading!Landing, Trading!reps
<1>2. ASSUME NEW r \in Reps, NEW b \in Makes, Trading!Settle(r, b)
      PROVE  (\E w \in Makes \cup {"no"} : Trading!Enrol(b, r, "CASH", 0, w))
             /\ UNCHANGED <<bill, draw, payouts>>
  BY <1>2 DEF Trading!Settle, Trading!Landing, Trading!reps
<1>3. 0 \in 0..1 /\ "CASH" \in {"CASH", "CREDIT"}
  OBVIOUS
<1>. HIDE DEF Trading!Enrol
<1>4. ASSUME NEW b \in Makes, NEW type \in {"CASH", "CREDIT"}, NEW off \in 0..1,
             Trading!SellFromShelf(b, type, off)
      PROVE  \E c \in Makes, r \in Reps \cup {"direct"}, ty \in {"CASH", "CREDIT"}, o \in 0..1,
               w \in Makes \cup {"no"} : Trading!Enrol(c, r, ty, o, w)
  BY <1>1, <1>4, Zenon
<1>5. ASSUME NEW r \in Reps, NEW b \in Makes, Trading!Settle(r, b)
      PROVE  \E c \in Makes, q \in Reps \cup {"direct"}, ty \in {"CASH", "CREDIT"}, o \in 0..1,
               w \in Makes \cup {"no"} : Trading!Enrol(c, q, ty, o, w)
  BY <1>2, <1>3, <1>5, Zenon
<1>. QED
  BY <1>1, <1>2, <1>4, <1>5, Zenon

SaleRowsStand == \A c \in Makes, u \in Trading!Months : book'["SALE"][c][u] = book["SALE"][c][u]
LEMMA PostsStand == ASSUME SalesPosted, trade' = trade, SaleRowsStand PROVE SalesPosted'
<1>1. \A c, u : PostedIn(c, u)' = PostedIn(c, u)
  BY DEF PostedIn
<1>. QED
  BY <1>1 DEF SalesPosted, SaleRowsStand

LEMMA SalesPostedKeeps ==
  ASSUME TradeTyped, TradeTyped', SalesPosted, BillsPosted, Trading!Next
  PROVE  SalesPosted' /\ BillsPosted'
<1>0. /\ BookTyped /\ {"SALE", "STOCK_PURCHASE"} \subseteq Trading!Kinds
      /\ 1 \in Trading!Months /\ 2 \in Trading!Months
  BY DEF TradeTyped, Trading!Kinds, Trading!Months
<1>1. ASSUME \/ \E b \in Makes, type \in {"CASH", "CREDIT"}, off \in 0..1 : Trading!SellFromShelf(b, type, off)
             \/ \E r \in Reps, b \in Makes : Trading!Settle(r, b)
      PROVE  SalesPosted' /\ BillsPosted'
  <2>1. PICK b \in Makes, r \in Reps \cup {"direct"}, type \in {"CASH", "CREDIT"}, off \in 0..1,
             w \in Makes \cup {"no"} : Trading!Enrol(b, r, type, off, w)
    BY <1>1, SalesEnrol, Zenon
  <2>2. bill' = bill
    BY <1>1, SalesEnrol, Zenon
  <2>3. PostsRow(NewSale(b, r, type, off, w)) /\ SalesPosted'
    BY <2>1, EnrolPosts, EnrolKeepsPosts
  <2>. QED
    BY <1>0, <2>2, <2>3 DEF PostsRow, BillsPosted
<1>2. ASSUME NEW x \in Tills, Trading!CancelSale(x) PROVE SalesPosted' /\ BillsPosted'
  <2>1. bill' = bill
    BY <1>2 DEF Trading!CancelSale
  <2>. QED
    BY <1>0, <1>2, <2>1, CancelKeepsPosts DEF BillsPosted
<1>3. ASSUME Trading!OpenFinance PROVE SalesPosted' /\ BillsPosted'
  <2>1. PICK default \in Makes : FinanceOpens(default)
    BY <1>3, OpenFinanceOpens
  <2>2. SalesPosted'
    BY <2>1, OpenFinanceKeepsPosts
  <2>. QED
    BY <1>0, <2>1, <2>2 DEF FinanceOpens, BillsPosted
<1>4. ASSUME NEW b \in Makes, NEW n \in 1..2, Trading!PaySupplier(b, n) PROVE SalesPosted' /\ BillsPosted'
  <2>1. /\ Trading!Enter("STOCK_PURCHASE", b, month, n) /\ month \in Trading!Months /\ n \in Int
        /\ bill' = [bill EXCEPT ![b].paid = @ + n] /\ trade' = trade /\ n >= 0
    BY <1>4 DEF Trading!PaySupplier, TradeTyped, OwnerTyped, Trading!trades
  <2>2. \A j \in Trading!Kinds, c \in Makes, u \in Trading!Months :
          book'[j][c][u] = IF j = "STOCK_PURCHASE" /\ c = b /\ u = month THEN book[j][c][u] + n ELSE book[j][c][u]
    BY <1>0, <2>1, EntryAdds
  <2>3. SaleRowsStand
    BY <1>0, <2>2 DEF SaleRowsStand
  <2>4. SalesPosted'
    BY <2>1, <2>3, PostsStand
  <2>5. ASSUME NEW c \in Makes
        PROVE  bill'[c].paid = book'["STOCK_PURCHASE"][c][1] + book'["STOCK_PURCHASE"][c][2]
    <3>1. /\ book["STOCK_PURCHASE"][c][1] \in Int /\ book["STOCK_PURCHASE"][c][2] \in Int
      BY <1>0 DEF BookTyped
    <3>2. month = 1 \/ month = 2
      BY <2>1 DEF Trading!Months
    <3>3. bill[c].paid = book["STOCK_PURCHASE"][c][1] + book["STOCK_PURCHASE"][c][2]
      BY DEF BillsPosted
    <3>4. bill'[c].paid = IF c = b THEN bill[c].paid + n ELSE bill[c].paid
      BY <2>1 DEF TradeTyped, GoodsTyped, BillRows
    <3>5. CASE c = b
      BY <1>0, <2>1, <2>2, <3>1, <3>2, <3>3, <3>4, <3>5
    <3>6. CASE c # b
      BY <1>0, <2>2, <3>3, <3>4, <3>6
    <3>. QED
      BY <3>5, <3>6
  <2>. QED
    BY <2>4, <2>5 DEF BillsPosted
<1>5. ASSUME NEW b \in Makes, NEW k \in Trading!Kinds \ {"SALE", "STOCK_PURCHASE"}, Trading!ByHand(k, b, month)
      PROVE  SalesPosted' /\ BillsPosted'
  <2>1. Trading!Enter(k, b, month, 1) /\ month \in Trading!Months /\ bill' = bill /\ trade' = trade
    BY <1>5 DEF Trading!ByHand, TradeTyped, OwnerTyped, Trading!trades
  <2>2. \A j \in Trading!Kinds, c \in Makes, u \in Trading!Months :
          book'[j][c][u] = IF j = k /\ c = b /\ u = month THEN book[j][c][u] + 1 ELSE book[j][c][u]
    BY <1>0, <2>1, EntryAdds
  <2>3. SaleRowsStand
    BY <1>0, <2>2 DEF SaleRowsStand
  <2>. QED
    BY <1>0, <2>1, <2>2, <2>3, PostsStand DEF BillsPosted
<1>6. ASSUME trade' = trade, book' = book, \A b \in Makes : bill'[b].paid = bill[b].paid
      PROVE  SalesPosted' /\ BillsPosted'
  BY <1>6, PostsStand DEF SaleRowsStand, BillsPosted
<1>7. ASSUME NEW b \in Makes,
             \/ \E c \in BoxCosts : Trading!Order(b, c)
             \/ Trading!DropOrder(b) \/ Trading!Receive(b)
             \/ \E n \in 1..2 : Trading!SendBack(b, n)
      PROVE  SalesPosted' /\ BillsPosted'
  <2>1. trade' = trade /\ book' = book
    BY <1>7 DEF Trading!Order, Trading!DropOrder, Trading!Receive, Trading!SendBack, Trading!trades, Trading!money
  <2>2. bill \in [Makes -> BillRows]
    BY DEF TradeTyped, GoodsTyped
  <2>3. \A c \in Makes : bill'[c].paid = bill[c].paid
    <3>1. CASE \E c \in BoxCosts : Trading!Order(b, c)
      BY <2>2, <3>1 DEF Trading!Order, BillRows
    <3>2. CASE Trading!DropOrder(b)
      BY <2>2, <3>2 DEF Trading!DropOrder, BillRows
    <3>3. CASE Trading!Receive(b)
      BY <2>2, <3>3 DEF Trading!Receive, BillRows
    <3>4. CASE \E n \in 1..2 : Trading!SendBack(b, n)
      BY <2>2, <3>4 DEF Trading!SendBack, BillRows
    <3>. QED
      BY <1>7, <3>1, <3>2, <3>3, <3>4
  <2>. QED
    BY <1>6, <2>1, <2>3
<1>8. ASSUME \/ \E x \in Tills, n \in 1..Price : Trading!CollectDebt(x, n)
             \/ \E r \in Reps, b \in Makes : Trading!Issue(r, b) \/ Trading!TakeBack(r, b)
             \/ \E b \in Makes : Trading!SwitchWallet(b) \/ \E d \in {-1, 1} : Trading!Correct(b, d)
             \/ \E r \in Reps : \/ Trading!RequestPayout(r) \/ Trading!RejectPayout(r) \/ Trading!SwitchRep(r)
                                \/ \E from \in {"PENDING", "APPROVED"}, to \in {"APPROVED", "PAID"} :
                                     Trading!DecidePayout(r, from, to)
                                \/ \E d \in {-1, 1} : Trading!Fine(r, d)
             \/ Trading!NextMonth
      PROVE  SalesPosted' /\ BillsPosted'
  <2>1. UNCHANGED <<trade, book, bill>>
    BY <1>8 DEF Trading!CollectDebt, Trading!Issue, Trading!TakeBack, Trading!SwitchWallet, Trading!Correct,
       Trading!RequestPayout, Trading!RejectPayout, Trading!SwitchRep, Trading!DecidePayout, Trading!Fine,
       Trading!NextMonth, Trading!trades, Trading!money
  <2>. QED
    BY <1>6, <2>1
<1>. QED
  BY <1>1, <1>2, <1>3, <1>4, <1>5, <1>7, <1>8 DEF Trading!Next

LEMMA PayoutsDrawnKeeps ==
  ASSUME TradeTyped, TradeTyped', PayoutsDrawn, Trading!Next
  PROVE  PayoutsDrawn'
<1>0. /\ payouts \in [Trading!Months -> Int] /\ month \in Trading!Months
      /\ \A q \in Reps : draw[q].PAID \in Nat /\ draw'[q].PAID \in Nat
  BY DEF TradeTyped, OwnerTyped, RepsTyped, DrawRows
<1>1. DOMAIN Drawn = Reps /\ \A q \in Reps : Drawn[q] = draw[q].PAID /\ Drawn[q] \in Int
  BY <1>0 DEF Drawn
<1>2. SumFunction(Drawn) \in Int
  BY <1>1, SumFunctionIsInt, DeskAssumption
<1>3. ASSUME payouts' = payouts, \A q \in Reps : draw'[q].PAID = draw[q].PAID PROVE PayoutsDrawn'
  <2>1. Drawn' = Drawn
    BY <1>3 DEF Drawn
  <2>. QED
    BY <1>3, <2>1 DEF PayoutsDrawn
<1>4. ASSUME NEW r \in Reps, NEW from, NEW to, Trading!DecidePayout(r, from, to) PROVE PayoutsDrawn'
  <2>1. /\ to \in {"APPROVED", "PAID"} /\ \A q \in Reps \ {r} : draw'[q] = draw[q]
        /\ draw'[r].PAID = draw[r].PAID + (IF to = "PAID" THEN 1 ELSE 0)
        /\ payouts' = IF to = "PAID" THEN [payouts EXCEPT ![month] = @ + 1] ELSE payouts
    BY <1>4, DecisionMoves
  <2>2. CASE to # "PAID"
    <3>1. payouts' = payouts /\ draw'[r].PAID = draw[r].PAID + 0
      BY <2>1, <2>2
    <3>2. \A q \in Reps : draw'[q].PAID = draw[q].PAID
      BY <1>0, <2>1, <3>1
    <3>. QED
      BY <1>3, <3>1, <3>2
  <2>3. CASE to = "PAID"
    <3>. DEFINE g == [q \in Reps |-> draw'[q].PAID]
    <3>1. DOMAIN g = Reps /\ \A q \in Reps : g[q] = draw'[q].PAID /\ g[q] \in Int
      BY <1>0
    <3>2. g = Drawn'
      BY DEF Drawn
    <3>. HIDE DEF g
    <3>3. SumFunction(g) = SumFunction(Drawn) - ValueAt(Drawn, r) + ValueAt(g, r)
      BY <1>1, <2>1, <3>1, DeskAssumption, SumDiffersAt
    <3>4. ValueAt(Drawn, r) = draw[r].PAID /\ ValueAt(g, r) = draw[r].PAID + 1
      BY <1>1, <2>1, <2>3, <3>1 DEF ValueAt
    <3>5. SumFunction(g) = SumFunction(Drawn) + 1
      BY <1>0, <1>2, <3>3, <3>4
    <3>6. payouts' = [payouts EXCEPT ![month] = @ + 1] /\ (month = 1 \/ month = 2)
      BY <1>0, <2>1, <2>3 DEF Trading!Months
    <3>7. payouts[1] \in Int /\ payouts[2] \in Int
      BY <1>0 DEF Trading!Months
    <3>8. payouts'[1] + payouts'[2] = payouts[1] + payouts[2] + 1
      <4>1. CASE month = 1
        BY <1>0, <3>6, <3>7, <4>1 DEF Trading!Months
      <4>2. CASE month = 2
        BY <1>0, <3>6, <3>7, <4>2 DEF Trading!Months
      <4>. QED
        BY <3>6, <4>1, <4>2
    <3>9. SumFunction(Drawn) = payouts[1] + payouts[2]
      BY DEF PayoutsDrawn
    <3>. QED
      BY <3>2, <3>5, <3>8, <3>9 DEF PayoutsDrawn
  <2>. QED
    BY <2>2, <2>3
<1>5. ASSUME NEW r \in Reps, Trading!RequestPayout(r) \/ Trading!RejectPayout(r) PROVE PayoutsDrawn'
  <2>1. /\ payouts' = payouts
        /\ draw' = [draw EXCEPT ![r].PENDING = @ + 1] \/ draw' = [draw EXCEPT ![r].PENDING = @ - 1]
    BY <1>5 DEF Trading!RequestPayout, Trading!RejectPayout, Trading!money
  <2>2. \A q \in Reps : draw'[q].PAID = draw[q].PAID
    BY <2>1 DEF TradeTyped, RepsTyped, DrawRows
  <2>. QED
    BY <1>3, <2>1, <2>2
<1>6. ASSUME \/ \E b \in Makes :
                  \/ \E type \in {"CASH", "CREDIT"}, off \in 0..1 : Trading!SellFromShelf(b, type, off)
                  \/ \E r \in Reps : Trading!Settle(r, b)
             \/ \E x \in Tills : Trading!CancelSale(x) \/ \E n \in 1..Price : Trading!CollectDebt(x, n)
             \/ \E r \in Reps, b \in Makes : Trading!Issue(r, b) \/ Trading!TakeBack(r, b)
             \/ \E b \in Makes :
                  \/ \E d \in {-1, 1} : Trading!Correct(b, d)
                  \/ Trading!DropOrder(b) \/ Trading!Receive(b) \/ Trading!SwitchWallet(b)
                  \/ \E c \in BoxCosts : Trading!Order(b, c)
                  \/ \E n \in 1..2 : Trading!PaySupplier(b, n) \/ Trading!SendBack(b, n)
                  \/ \E k \in Trading!Kinds \ {"SALE", "STOCK_PURCHASE"} : Trading!ByHand(k, b, month)
             \/ \E r \in Reps : Trading!SwitchRep(r) \/ \E d \in {-1, 1} : Trading!Fine(r, d)
             \/ Trading!OpenFinance \/ Trading!NextMonth
      PROVE  PayoutsDrawn'
  <2>1. UNCHANGED <<draw, payouts>>
    BY <1>6 DEF Trading!SellFromShelf, Trading!Settle, Trading!CancelSale, Trading!CollectDebt,
       Trading!Issue, Trading!TakeBack, Trading!Correct, Trading!DropOrder, Trading!Receive,
       Trading!SwitchWallet, Trading!Order, Trading!PaySupplier, Trading!SendBack, Trading!ByHand,
       Trading!SwitchRep, Trading!Fine, Trading!OpenFinance, Trading!NextMonth, Trading!reps, Trading!money
  <2>. QED
    BY <1>3, <2>1
<1>. QED
  BY <1>4, <1>5, <1>6 DEF Trading!Next

(* What the boxes of a brand cost: of the bills that arrived, what is not  *)
(* in the price of a box that is still here or of one that was sold.       *)
CostOf(v, b, k) ==
  IF v.st = "LIVE" /\ v.brand = b THEN IF v.unitCost > 0 THEN v.unitCost ELSE k ELSE 0
CostsIn(b) == [x \in Tills |-> CostOf(trade[x], b, cost[b])]
Lost(b) ==
  bill[b].ordered - bill[b].awaited - Trading!Stocked(b) * cost[b] - SumFunction(CostsIn(b))
Losses == [b \in Makes |-> Lost(b)]
BoxesCosted == SumFunction(Losses) = written

LEMMA CostOfIsNat ==
  ASSUME NEW v \in TradeRows, NEW b, NEW k \in Nat
  PROVE  CostOf(v, b, k) \in Nat
<1>1. CASE v = Trading!NoSale
  BY <1>1 DEF CostOf, Trading!NoSale
<1>2. CASE v # Trading!NoSale
  <2>1. v.unitCost \in Nat
    BY <1>2 DEF TradeRows
  <2>. QED
    BY <2>1 DEF CostOf
<1>. QED
  BY <1>1, <1>2

LEMMA CostsAreInt ==
  ASSUME TradeTyped, NEW b \in Makes
  PROVE  /\ CostsIn(b) \in [Tills -> Int] /\ DOMAIN CostsIn(b) = Tills
         /\ \A x \in Tills : CostsIn(b)[x] = CostOf(trade[x], b, cost[b]) /\ CostsIn(b)[x] \in Int
         /\ SumFunction(CostsIn(b)) \in Int
<1>1. \A x \in Tills : CostOf(trade[x], b, cost[b]) \in Nat
  BY CostOfIsNat DEF TradeTyped, SalesTyped, GoodsTyped
<1>2. /\ CostsIn(b) \in [Tills -> Int] /\ DOMAIN CostsIn(b) = Tills
      /\ \A x \in Tills : CostsIn(b)[x] = CostOf(trade[x], b, cost[b]) /\ CostsIn(b)[x] \in Int
  BY <1>1 DEF CostsIn
<1>. QED
  BY <1>2, SumFunctionIsInt, DeskAssumption

LEMMA LostIsInt ==
  ASSUME TradeTyped, NEW b \in Makes
  PROVE  /\ Lost(b) \in Int /\ bill[b].ordered \in Int /\ bill[b].awaited \in Nat
         /\ Trading!Stocked(b) \in Nat /\ cost[b] \in Nat /\ SumFunction(CostsIn(b)) \in Int
<1>1. bill[b].ordered \in Int /\ bill[b].awaited \in Nat /\ cost[b] \in Nat
  <2>1. bill[b] \in BillRows /\ cost[b] \in Nat
    BY DEF TradeTyped, GoodsTyped
  <2>2. bill[b].ordered \in Int /\ bill[b].awaited \in BoxCosts \cup {0}
    BY <2>1 DEF BillRows
  <2>. QED
    BY <2>1, <2>2, CostsAreNat
<1>2. Trading!Stocked(b) \in Nat /\ SumFunction(CostsIn(b)) \in Int
  BY StockedIsSum, CostsAreInt
<1>3. Trading!Stocked(b) * cost[b] \in Int
  BY <1>1, <1>2
<1>4. Lost(b) \in Int
  BY <1>1, <1>2, <1>3 DEF Lost
<1>. QED
  BY <1>1, <1>2, <1>4

LossesTyped == DOMAIN Losses = Makes /\ \A b \in Makes : Losses[b] = Lost(b) /\ Losses[b] \in Int
LEMMA LossesAreInt == TradeTyped => LossesTyped
BY LostIsInt DEF Losses, LossesTyped

(* One brand's boxes change, and the value written off with them. *)
LEMMA LossChanges ==
  ASSUME TradeTyped, TradeTyped', BoxesCosted, NEW b \in Makes, NEW n \in Int,
         \A c \in Makes \ {b} : Lost(c)' = Lost(c), Lost(b)' = Lost(b) + n, written' = written + n
  PROVE  BoxesCosted'
<1>1. DOMAIN Losses = Makes /\ \A c \in Makes : Losses[c] = Lost(c) /\ Losses[c] \in Int
  BY LossesAreInt DEF LossesTyped
<1>2. (DOMAIN Losses = Makes /\ \A c \in Makes : Losses[c] = Lost(c) /\ Losses[c] \in Int)'
  <2>1. LossesTyped'
    BY LossesAreInt, PTL
  <2>. QED
    BY <2>1 DEF LossesTyped
<1>. DEFINE f == Losses  g == [c \in Makes |-> Losses'[c]]
<1>3. g = Losses'
  BY <1>2 DEF Losses
<1>4. DOMAIN g = Makes /\ \A c \in Makes : g[c] \in Int
  BY <1>2, <1>3
<1>5. \A c \in Makes \ {b} : g[c] = f[c]
  BY <1>1, <1>2
<1>6. g[b] = f[b] + n
  BY <1>1, <1>2
<1>. HIDE DEF f, g
<1>7. SumFunction(g) = SumFunction(f) - ValueAt(f, b) + ValueAt(g, b)
  BY <1>1, <1>4, <1>5, DeskAssumption, SumDiffersAt DEF f
<1>8. SumFunction(f) \in Int
  BY <1>1, SumFunctionIsInt, DeskAssumption DEF f
<1>9. ValueAt(f, b) = f[b] /\ ValueAt(g, b) = f[b] + n /\ f[b] \in Int
  BY <1>1, <1>4, <1>6 DEF ValueAt, f
<1>10. SumFunction(g) = SumFunction(f) + n
  BY <1>7, <1>8, <1>9
<1>11. SumFunction(f) = written
  BY DEF BoxesCosted, f
<1>. QED
  BY <1>3, <1>10, <1>11 DEF BoxesCosted

HandsMoved(b, n) ==
  \A c \in Makes : SumFunction(InHands(c))' = SumFunction(InHands(c)) + (IF c = b THEN n ELSE 0)
LEMMA HandChanges ==
  ASSUME TradeTyped, TradeTyped', NEW r \in Reps, NEW b \in Makes, NEW n \in Int,
         \A q \in Reps, c \in Makes :
           hand'[q][c] = IF q = r /\ c = b THEN hand[q][c] + n ELSE hand[q][c]
  PROVE  HandsMoved(b, n)
<1>. SUFFICES ASSUME NEW c \in Makes
     PROVE  SumFunction(InHands(c))' = SumFunction(InHands(c)) + (IF c = b THEN n ELSE 0)
  BY DEF HandsMoved
<1>1. DOMAIN InHands(c) = Reps /\ (\A q \in Reps : InHands(c)[q] = hand[q][c] /\ InHands(c)[q] \in Nat)
      /\ SumFunction(InHands(c)) \in Nat
  BY StockedIsSum
<1>2. hand' \in [Reps -> [Makes -> Nat]] /\ hand \in [Reps -> [Makes -> Nat]]
  BY DEF TradeTyped, GoodsTyped
<1>. DEFINE g == [q \in Reps |-> hand'[q][c]]
<1>3. g = InHands(c)'
  BY DEF InHands
<1>4. DOMAIN g = Reps /\ \A q \in Reps : g[q] = hand'[q][c] /\ g[q] \in Nat
  BY <1>2
<1>. HIDE DEF g
<1>5. \A q \in Reps \ {r} : g[q] = InHands(c)[q]
  BY <1>1, <1>2, <1>4
<1>6. SumFunction(g) = SumFunction(InHands(c)) - ValueAt(InHands(c), r) + ValueAt(g, r)
  BY <1>1, <1>4, <1>5, DeskAssumption, SumDiffersAt
<1>7. ValueAt(InHands(c), r) = hand[r][c] /\ ValueAt(g, r) = hand'[r][c]
  BY <1>1, <1>4 DEF ValueAt
<1>8. hand'[r][c] = (IF c = b THEN hand[r][c] + n ELSE hand[r][c]) /\ hand[r][c] \in Nat
  BY <1>2
<1>. QED
  BY <1>1, <1>3, <1>6, <1>7, <1>8

CostsAt(x) ==
  \A c \in Makes :
    SumFunction(CostsIn(c))'
      = SumFunction(CostsIn(c)) - CostOf(trade[x], c, cost[c]) + CostOf(trade'[x], c, cost[c])
LEMMA CostsChange ==
  ASSUME TradeTyped, TradeTyped', NEW x \in Tills, \A y \in Tills \ {x} : trade'[y] = trade[y], cost' = cost
  PROVE  CostsAt(x)
<1>. SUFFICES ASSUME NEW c \in Makes
     PROVE  SumFunction(CostsIn(c))'
              = SumFunction(CostsIn(c)) - CostOf(trade[x], c, cost[c]) + CostOf(trade'[x], c, cost[c])
  BY DEF CostsAt
<1>. DEFINE f == CostsIn(c)  g == [y \in Tills |-> CostOf(trade'[y], c, cost[c])]
<1>1. DOMAIN f = Tills /\ \A y \in Tills : f[y] \in Int /\ f[y] = CostOf(trade[y], c, cost[c])
  BY CostsAreInt
<1>2. (\A y \in Tills : trade'[y] \in TradeRows) /\ cost[c] \in Nat
  BY DEF TradeTyped, SalesTyped, GoodsTyped
<1>3. DOMAIN g = Tills /\ \A y \in Tills : g[y] \in Int /\ g[y] = CostOf(trade'[y], c, cost[c])
  BY <1>2, CostOfIsNat
<1>4. g = CostsIn(c)'
  BY DEF CostsIn
<1>. HIDE DEF f, g
<1>5. SumFunction(g) = SumFunction(f) - ValueAt(f, x) + ValueAt(g, x)
  BY <1>1, <1>3, DeskAssumption, SumDiffersAt
<1>6. ValueAt(f, x) = CostOf(trade[x], c, cost[c]) /\ ValueAt(g, x) = CostOf(trade'[x], c, cost[c])
  BY <1>1, <1>3 DEF ValueAt
<1>7. SumFunction(CostsIn(c))' = SumFunction(g)
  BY <1>4
<1>. QED
  BY <1>5, <1>6, <1>7 DEF f

(* The loss of a brand, by its parts, before a step and after it. *)
LostOf(u, s, k, n) == u.ordered - u.awaited - s * k - n
LossParts ==
  \A b \in Makes :
    /\ Lost(b) = LostOf(bill[b], shelf[b] + SumFunction(InHands(b)), cost[b], SumFunction(CostsIn(b)))
    /\ bill[b].ordered \in Int /\ bill[b].awaited \in Nat /\ cost[b] \in Nat /\ shelf[b] \in Nat
    /\ SumFunction(InHands(b)) \in Nat /\ SumFunction(CostsIn(b)) \in Int /\ Lost(b) \in Int
LEMMA LossHasParts == TradeTyped => LossParts
<1>. SUFFICES ASSUME TradeTyped, NEW b \in Makes
     PROVE  /\ Lost(b) = LostOf(bill[b], shelf[b] + SumFunction(InHands(b)), cost[b], SumFunction(CostsIn(b)))
            /\ bill[b].ordered \in Int /\ bill[b].awaited \in Nat /\ cost[b] \in Nat /\ shelf[b] \in Nat
            /\ SumFunction(InHands(b)) \in Nat /\ SumFunction(CostsIn(b)) \in Int /\ Lost(b) \in Int
  BY DEF LossParts
<1>1. Trading!Stocked(b) = shelf[b] + SumFunction(InHands(b)) /\ SumFunction(InHands(b)) \in Nat
  BY StockedIsSum
<1>2. shelf[b] \in Nat
  BY DEF TradeTyped, GoodsTyped
<1>. QED
  BY <1>1, <1>2, LostIsInt DEF Lost, LostOf

LEMMA LossPartsBothWays == ASSUME TradeTyped, TradeTyped' PROVE LossParts /\ LossParts'
<1>1. LossParts
  BY LossHasParts
<1>2. LossParts'
  BY LossHasParts, PTL
<1>. QED
  BY <1>1, <1>2

LEMMA LossStands ==
  ASSUME TradeTyped, TradeTyped', BoxesCosted, written' = written,
         \A c \in Makes :
           /\ bill'[c].ordered - bill'[c].awaited = bill[c].ordered - bill[c].awaited
           /\ shelf'[c] + SumFunction(InHands(c))' = shelf[c] + SumFunction(InHands(c))
           /\ cost'[c] = cost[c] /\ SumFunction(CostsIn(c))' = SumFunction(CostsIn(c))
  PROVE  BoxesCosted'
<1>1. LossParts /\ LossParts'
  BY LossPartsBothWays
<1>2. \A c \in Makes : Lost(c)' = Lost(c)
  <2>. SUFFICES ASSUME NEW c \in Makes PROVE Lost(c)' = Lost(c)
    OBVIOUS
  <2>1. /\ Lost(c) = LostOf(bill[c], shelf[c] + SumFunction(InHands(c)), cost[c], SumFunction(CostsIn(c)))
        /\ Lost(c)' = LostOf(bill'[c], shelf'[c] + SumFunction(InHands(c))', cost'[c], SumFunction(CostsIn(c))')
    BY <1>1 DEF LossParts
  <2>. QED
    BY <2>1 DEF LostOf
<1>3. PICK b \in Makes : TRUE
  BY DeskAssumption
<1>4. Lost(b) \in Int /\ written \in Int
  BY <1>1 DEF LossParts, TradeTyped, GoodsTyped
<1>. QED
  BY <1>2, <1>3, <1>4, LossChanges

CostsStand == \A c \in Makes : SumFunction(CostsIn(c))' = SumFunction(CostsIn(c))
HandsStand == \A c \in Makes : SumFunction(InHands(c))' = SumFunction(InHands(c))
LEMMA NothingSold == ASSUME trade' = trade, cost' = cost PROVE CostsStand
<1>1. \A c : CostsIn(c)' = CostsIn(c)
  BY DEF CostsIn
<1>. QED
  BY <1>1 DEF CostsStand
LEMMA NothingMoved == ASSUME hand' = hand PROVE HandsStand
<1>1. \A c : InHands(c)' = InHands(c)
  BY DEF InHands
<1>. QED
  BY <1>1 DEF HandsStand

(* A sale carries the cost of the box it took. *)
LEMMA SoldCost ==
  ASSUME TradeTyped, NEW b \in Makes, NEW r, NEW type, NEW off, NEW w, NEW c \in Makes
  PROVE  CostOf(NewSale(b, r, type, off, w), c, cost[c]) = IF c = b THEN cost[b] ELSE 0
<1>1. cost[b] \in Nat
  BY DEF TradeTyped, GoodsTyped
<1>. QED
  BY <1>1 DEF CostOf, NewSale

BoxTaken(b) ==
  \A c \in Makes : shelf'[c] + SumFunction(InHands(c))'
                     = shelf[c] + SumFunction(InHands(c)) - (IF c = b THEN 1 ELSE 0)
LEMMA BoxSoldAtCost ==
  ASSUME NEW o \in Int, NEW s \in Int, NEW k \in Int, NEW n \in Int
  PROVE  o - (s - 1) * k - (n + k) = o - s * k - n
OBVIOUS

LEMMA SaleKeepsCost ==
  ASSUME TradeTyped, TradeTyped', BoxesCosted,
         NEW b \in Makes, NEW r \in Reps \cup {"direct"}, NEW type \in {"CASH", "CREDIT"},
         NEW off \in 0..1, NEW w \in Makes \cup {"no"}, Trading!Enrol(b, r, type, off, w),
         UNCHANGED <<bill, cost, written>>,
         BoxTaken(b)
  PROVE  BoxesCosted'
<1>. DEFINE v == NewSale(b, r, type, off, w)  x == Trading!NextSlot
<1>1. x \in Tills /\ trade[x] = Trading!NoSale /\ trade'[x] = v
      /\ \A y \in Tills \ {x} : trade'[y] = trade[y]
  BY EnrolTakesARow DEF Enrolled
<1>2. \A c \in Makes : CostOf(v, c, cost[c]) = IF c = b THEN cost[b] ELSE 0
  BY SoldCost
<1>3. \A c \in Makes : CostOf(Trading!NoSale, c, cost[c]) = 0
  BY DEF CostOf, Trading!NoSale
<1>. HIDE DEF v, x
<1>4. CostsAt(x)
  BY <1>1, CostsChange
<1>5. LossParts /\ LossParts'
  BY LossPartsBothWays
<1>6. ASSUME NEW c \in Makes PROVE Lost(c)' = Lost(c)
  <2>1. SumFunction(CostsIn(c))' = SumFunction(CostsIn(c)) + (IF c = b THEN cost[b] ELSE 0)
    <3>1. SumFunction(CostsIn(c))' = SumFunction(CostsIn(c)) - 0 + (IF c = b THEN cost[b] ELSE 0)
      BY <1>1, <1>2, <1>3, <1>4 DEF CostsAt
    <3>2. SumFunction(CostsIn(c)) \in Int /\ cost[b] \in Nat
      BY <1>5 DEF LossParts
    <3>. QED
      BY <3>1, <3>2
  <2>6. shelf'[c] + SumFunction(InHands(c))'
          = shelf[c] + SumFunction(InHands(c)) - (IF c = b THEN 1 ELSE 0)
    BY DEF BoxTaken
  <2>. DEFINE s == shelf[c] + SumFunction(InHands(c))  n == SumFunction(CostsIn(c))
              s1 == shelf'[c] + SumFunction(InHands(c))'  n1 == SumFunction(CostsIn(c))'
  <2>2. /\ Lost(c) = LostOf(bill[c], s, cost[c], n) /\ Lost(c)' = LostOf(bill[c], s1, cost[c], n1)
        /\ bill[c].ordered \in Int /\ bill[c].awaited \in Nat /\ cost[c] \in Nat /\ s \in Nat /\ n \in Int
    BY <1>5 DEF LossParts
  <2>3. n1 = n + (IF c = b THEN cost[b] ELSE 0)
    BY <2>1
  <2>7. s1 = s - (IF c = b THEN 1 ELSE 0)
    BY <1>5, <2>6 DEF LossParts
  <2>. HIDE DEF s, n, s1, n1
  <2>4. CASE c = b
    <3>1. s1 = s - 1 /\ n1 = n + cost[c]
      BY <2>3, <2>7, <2>4
    <3>. DEFINE o == bill[c].ordered - bill[c].awaited
    <3>2. o \in Int
      BY <2>2
    <3>3. Lost(c) = o - s * cost[c] - n /\ Lost(c)' = o - (s - 1) * cost[c] - (n + cost[c])
      BY <2>2, <3>1 DEF LostOf
    <3>. DEFINE k == cost[c]
    <3>4. k \in Int /\ s \in Int /\ n \in Int
      BY <2>2
    <3>5. Lost(c) = o - s * k - n /\ Lost(c)' = o - (s - 1) * k - (n + k)
      BY <3>3
    <3>. HIDE DEF o, k
    <3>6. o - (s - 1) * k - (n + k) = o - s * k - n
      BY <3>2, <3>4, BoxSoldAtCost
    <3>. QED
      BY <3>5, <3>6
  <2>5. CASE c # b
    <3>1. s1 = s /\ n1 = n
      BY <2>2, <2>3, <2>7, <2>5
    <3>. QED
      BY <2>2, <3>1
  <2>. QED
    BY <2>4, <2>5
<1>7. Lost(b) \in Int /\ written \in Int
  BY <1>5 DEF LossParts, TradeTyped, GoodsTyped
<1>8. Lost(b)' = Lost(b) + 0 /\ written' = written + 0
  BY <1>6, <1>7
<1>. QED
  BY <1>6, <1>8, LossChanges

LEMMA SellKeepsCost ==
  ASSUME TradeTyped, TradeTyped', BoxesCosted, NEW b \in Makes, NEW type \in {"CASH", "CREDIT"},
         NEW off \in 0..1, Trading!SellFromShelf(b, type, off)
  PROVE  BoxesCosted'
<1>1. PICK w \in Makes \cup {"no"} : Trading!Enrol(b, "direct", type, off, w)
  BY DEF Trading!SellFromShelf, Trading!Landing
<1>2. shelf' = [shelf EXCEPT ![b] = @ - 1] /\ UNCHANGED <<bill, hand, cost, written>>
  BY DEF Trading!SellFromShelf
<1>3. HandsStand /\ LossParts
  BY <1>2, NothingMoved, LossHasParts
<1>4. BoxTaken(b)
  BY <1>2, <1>3 DEF HandsStand, LossParts, TradeTyped, GoodsTyped, BoxTaken
<1>. QED
  BY <1>1, <1>2, <1>4, SaleKeepsCost

LEMMA SettleKeepsCost ==
  ASSUME TradeTyped, TradeTyped', BoxesCosted, NEW r \in Reps, NEW b \in Makes, Trading!Settle(r, b)
  PROVE  BoxesCosted'
<1>1. PICK w \in Makes \cup {"no"} : Trading!Enrol(b, r, "CASH", 0, w)
  BY DEF Trading!Settle, Trading!Landing
<1>2. hand' = [hand EXCEPT ![r][b] = @ - 1] /\ UNCHANGED <<bill, shelf, cost, written>>
  BY DEF Trading!Settle
<1>. DEFINE n == 0 - 1
<1>3. n \in Int /\ \A q \in Reps, c \in Makes :
        hand'[q][c] = IF q = r /\ c = b THEN hand[q][c] + n ELSE hand[q][c]
  BY <1>2 DEF TradeTyped, GoodsTyped
<1>30. n = 0 - 1
  OBVIOUS
<1>. HIDE DEF n
<1>4. HandsMoved(b, n)
  BY <1>3, HandChanges
<1>5. LossParts
  BY LossHasParts
<1>6. BoxTaken(b)
  BY <1>2, <1>30, <1>4, <1>5 DEF LossParts, HandsMoved, BoxTaken
<1>. QED
  BY <1>1, <1>2, <1>6, SaleKeepsCost

(* A box that comes back counts at today's price, not at what it cost. *)
LEMMA BoxReturnedAtPrice ==
  ASSUME NEW o \in Int, NEW s \in Int, NEW k \in Int, NEW n \in Int, NEW l \in Int
  PROVE  o - (s + 1) * k - (n - l) = (o - s * k - n) + (l - k)
OBVIOUS

LEMMA CancelKeepsCost ==
  ASSUME TradeTyped, TradeTyped', BoxesCosted, NEW x \in Tills, Trading!CancelSale(x)
  PROVE  BoxesCosted'
<1>. DEFINE v == trade[x]  l == Trading!LineCost(x)
<1>1. /\ v.st = "LIVE" /\ trade'[x].st = "CANCELLED"
      /\ \A y \in Tills \ {x} : trade'[y] = trade[y]
  BY CancelledRow
<1>2. PICK b \in Makes : b = v.brand
  BY <1>1, LiveRow
<1>3. /\ IF v.rep \in Reps
         THEN hand' = [hand EXCEPT ![v.rep][v.brand] = @ + 1] /\ shelf' = shelf
         ELSE shelf' = [shelf EXCEPT ![v.brand] = @ + 1] /\ hand' = hand
      /\ written' = written + Trading!LineCost(x) - cost[v.brand]
      /\ UNCHANGED <<cost, bill>>
  BY DEF Trading!CancelSale
<1>4. \A c \in Makes : /\ CostOf(v, c, cost[c]) = IF c = b THEN l ELSE 0
                       /\ CostOf(trade'[x], c, cost[c]) = 0
  BY <1>1, <1>2 DEF CostOf, Trading!LineCost
<1>5. l \in Nat /\ cost[b] \in Nat
  <2>1. v.unitCost \in Nat /\ v.brand \in Makes
    BY <1>1, LiveRow
  <2>. QED
    BY <2>1 DEF Trading!LineCost, TradeTyped, GoodsTyped
<1>6. CostsAt(x)
  BY <1>1, <1>3, CostsChange
<1>7. LossParts /\ LossParts'
  BY LossPartsBothWays
<1>. HIDE DEF v, l
<1>8. \A c \in Makes : shelf'[c] + SumFunction(InHands(c))'
                         = (shelf[c] + SumFunction(InHands(c))) + (IF c = b THEN 1 ELSE 0)
  <2>1. CASE v.rep \in Reps
    <3>1. shelf' = shelf /\ hand' = [hand EXCEPT ![v.rep][b] = @ + 1]
      BY <1>2, <1>3, <2>1 DEF v
    <3>2. \A q \in Reps, c \in Makes :
            hand'[q][c] = IF q = v.rep /\ c = b THEN hand[q][c] + 1 ELSE hand[q][c]
      BY <1>2, <2>1, <3>1 DEF TradeTyped, GoodsTyped
    <3>3. HandsMoved(b, 1)
      BY <1>2, <2>1, <3>2, HandChanges
    <3>. QED
      BY <1>7, <3>1, <3>3 DEF HandsMoved, LossParts
  <2>2. CASE v.rep \notin Reps
    <3>1. hand' = hand /\ shelf' = [shelf EXCEPT ![b] = @ + 1]
      BY <1>2, <1>3, <2>2 DEF v
    <3>2. HandsStand
      BY <3>1, NothingMoved
    <3>. QED
      BY <1>2, <1>7, <3>1, <3>2 DEF HandsStand, LossParts, TradeTyped, GoodsTyped
  <2>. QED
    BY <2>1, <2>2
<1>9. \A c \in Makes : SumFunction(CostsIn(c))' = SumFunction(CostsIn(c)) - (IF c = b THEN l ELSE 0)
  BY <1>4, <1>5, <1>6, <1>7 DEF CostsAt, LossParts, v
<1>10. ASSUME NEW c \in Makes
       PROVE  Lost(c)' = Lost(c) + (IF c = b THEN l - cost[b] ELSE 0)
  <2>. DEFINE s == shelf[c] + SumFunction(InHands(c))  n == SumFunction(CostsIn(c))
              o == bill[c].ordered - bill[c].awaited  k == cost[c]
  <2>1. /\ s \in Int /\ n \in Int /\ o \in Int /\ k \in Int
        /\ Lost(c) = o - s * k - n /\ Lost(c) \in Int
    BY <1>7 DEF LossParts, LostOf
  <2>2. shelf'[c] + SumFunction(InHands(c))' = s + (IF c = b THEN 1 ELSE 0)
        /\ SumFunction(CostsIn(c))' = n - (IF c = b THEN l ELSE 0)
    BY <1>8, <1>9
  <2>3. Lost(c)' = LostOf(bill'[c], shelf'[c] + SumFunction(InHands(c))', cost'[c], SumFunction(CostsIn(c))')
    BY <1>7 DEF LossParts
  <2>4. Lost(c)' = o - (s + (IF c = b THEN 1 ELSE 0)) * k - (n - (IF c = b THEN l ELSE 0))
    BY <1>3, <2>2, <2>3 DEF LostOf
  <2>5. c = b => k = cost[b]
    OBVIOUS
  <2>. HIDE DEF s, n, o, k
  <2>6. CASE c = b
    <3>1. o - (s + 1) * k - (n - l) = (o - s * k - n) + (l - k)
      BY <1>5, <2>1, BoxReturnedAtPrice
    <3>. QED
      BY <2>1, <2>4, <2>5, <2>6, <3>1
  <2>7. CASE c # b
    BY <2>1, <2>4, <2>7
  <2>. QED
    BY <2>6, <2>7
<1>. DEFINE d == l - cost[b]
<1>11. d \in Int /\ Lost(b)' = Lost(b) + d
  BY <1>2, <1>5, <1>10
<1>12. written' = written + d
  BY <1>2, <1>3, <1>5 DEF l, v, TradeTyped, GoodsTyped
<1>13. \A c \in Makes \ {b} : Lost(c)' = Lost(c)
  <2>1. \A c \in Makes : Lost(c) \in Int
    BY <1>7 DEF LossParts
  <2>. QED
    BY <1>10, <2>1
<1>. HIDE DEF d
<1>. QED
  BY <1>2, <1>11, <1>12, <1>13, LossChanges

LEMMA OpenFinanceKeepsCost ==
  ASSUME TradeTyped, TradeTyped', BoxesCosted, Trading!OpenFinance
  PROVE  BoxesCosted'
<1>1. PICK default \in Makes : FinanceOpens(default)
  BY OpenFinanceOpens
<1>2. UNCHANGED <<shelf, hand, cost, written, bill>>
  BY <1>1 DEF FinanceOpens, Trading!goods
<1>3. ASSUME NEW x \in Tills, NEW c, NEW k PROVE CostOf(trade'[x], c, k) = CostOf(trade[x], c, k)
  <2>1. trade'[x] = IF x \in Missing THEN Posted(x, default) ELSE trade[x]
    BY <1>1 DEF FinanceOpens
  <2>2. CASE x \in Missing
    <3>1. /\ trade[x].st = "LIVE" /\ Posted(x, default).st = "LIVE"
          /\ Posted(x, default).brand = trade[x].brand /\ Posted(x, default).unitCost = trade[x].unitCost
      BY <1>1, <2>2, MissingRow
    <3>. QED
      BY <2>1, <2>2, <3>1 DEF CostOf
  <2>3. CASE x \notin Missing
    BY <2>1, <2>3
  <2>. QED
    BY <2>2, <2>3
<1>4. \A c : CostsIn(c)' = CostsIn(c)
  BY <1>2, <1>3 DEF CostsIn
<1>5. CostsStand /\ HandsStand
  BY <1>2, <1>4, NothingMoved DEF CostsStand
<1>. QED
  BY <1>2, <1>5, LossStands DEF CostsStand, HandsStand

LEMMA MoveKeepsCost ==
  ASSUME TradeTyped, TradeTyped', BoxesCosted, NEW r \in Reps, NEW b \in Makes,
         Trading!Issue(r, b) \/ Trading!TakeBack(r, b)
  PROVE  BoxesCosted'
<1>1. PICK n \in {0 - 1, 1} :
        /\ shelf' = [shelf EXCEPT ![b] = @ - n] /\ hand' = [hand EXCEPT ![r][b] = @ + n]
        /\ UNCHANGED <<trade, cost, written, bill>>
  <2>1. CASE Trading!Issue(r, b)
    BY <2>1 DEF Trading!Issue, Trading!trades
  <2>2. CASE Trading!TakeBack(r, b)
    <3>1. shelf' = [shelf EXCEPT ![b] = @ + 1] /\ hand' = [hand EXCEPT ![r][b] = @ - 1]
          /\ UNCHANGED <<trade, cost, written, bill>>
      BY <2>2 DEF Trading!TakeBack, Trading!trades
    <3>2. shelf[b] + 1 = shelf[b] - (0 - 1) /\ hand[r][b] - 1 = hand[r][b] + (0 - 1)
      BY DEF TradeTyped, GoodsTyped
    <3>. QED
      BY <3>1, <3>2
  <2>. QED
    BY <2>1, <2>2
<1>2. n \in Int
  BY <1>1
<1>3. \A q \in Reps, c \in Makes :
        hand'[q][c] = IF q = r /\ c = b THEN hand[q][c] + n ELSE hand[q][c]
  BY <1>1, <1>2 DEF TradeTyped, GoodsTyped
<1>4. HandsMoved(b, n) /\ CostsStand
  BY <1>1, <1>2, <1>3, HandChanges, NothingSold
<1>5. LossParts
  BY LossHasParts
<1>6. ASSUME NEW c \in Makes
      PROVE  shelf'[c] + SumFunction(InHands(c))' = shelf[c] + SumFunction(InHands(c))
  <2>1. shelf[c] \in Nat /\ SumFunction(InHands(c)) \in Nat
    BY <1>5 DEF LossParts
  <2>2. SumFunction(InHands(c))' = SumFunction(InHands(c)) + (IF c = b THEN n ELSE 0)
    BY <1>4 DEF HandsMoved
  <2>3. shelf'[c] = IF c = b THEN shelf[c] - n ELSE shelf[c]
    BY <1>1 DEF TradeTyped, GoodsTyped
  <2>4. CASE c = b
    <3>1. SumFunction(InHands(c))' = SumFunction(InHands(c)) + n /\ shelf'[c] = shelf[c] - n
      BY <2>2, <2>3, <2>4
    <3>. QED
      BY <1>2, <2>1, <3>1
  <2>5. CASE c # b
    <3>1. SumFunction(InHands(c))' = SumFunction(InHands(c)) + 0 /\ shelf'[c] = shelf[c]
      BY <2>2, <2>3, <2>5
    <3>. QED
      BY <2>1, <3>1
  <2>. QED
    BY <2>4, <2>5
<1>. QED
  BY <1>1, <1>4, <1>6, LossStands DEF CostsStand

LEMMA BoxesWrittenOff ==
  ASSUME NEW o \in Int, NEW s \in Int, NEW k \in Int, NEW n \in Int, NEW d \in Int
  PROVE  o - (s + d) * k - n = (o - s * k - n) + (0 - d * k)
OBVIOUS

LEMMA CorrectKeepsCost ==
  ASSUME TradeTyped, TradeTyped', BoxesCosted, NEW b \in Makes, NEW d \in {-1, 1}, Trading!Correct(b, d)
  PROVE  BoxesCosted'
<1>1. /\ shelf' = [shelf EXCEPT ![b] = @ + d] /\ written' = written - d * cost[b]
      /\ UNCHANGED <<trade, hand, cost, bill>>
  BY DEF Trading!Correct, Trading!trades
<1>2. d \in Int
  OBVIOUS
<1>3. HandsStand /\ CostsStand
  BY <1>1, NothingMoved, NothingSold
<1>4. LossParts /\ LossParts'
  BY LossPartsBothWays
<1>5. ASSUME NEW c \in Makes
      PROVE  Lost(c)' = IF c = b THEN Lost(b) + (0 - d * cost[b]) ELSE Lost(c)
  <2>. DEFINE s == shelf[c] + SumFunction(InHands(c))  n == SumFunction(CostsIn(c))
              o == bill[c].ordered - bill[c].awaited  k == cost[c]
  <2>1. /\ s \in Int /\ n \in Int /\ o \in Int /\ k \in Int
        /\ Lost(c) = o - s * k - n /\ Lost(c) \in Int
    BY <1>4 DEF LossParts, LostOf
  <2>2. Lost(c)' = LostOf(bill'[c], shelf'[c] + SumFunction(InHands(c))', cost'[c], SumFunction(CostsIn(c))')
    BY <1>4 DEF LossParts
  <2>3. shelf'[c] + SumFunction(InHands(c))' = IF c = b THEN s + d ELSE s
    BY <1>1, <1>2, <1>3, <1>4 DEF HandsStand, LossParts, TradeTyped, GoodsTyped
  <2>4. Lost(c)' = o - (IF c = b THEN s + d ELSE s) * k - n
    BY <1>1, <1>3, <2>2, <2>3 DEF LostOf, CostsStand
  <2>5. c = b => k = cost[b]
    OBVIOUS
  <2>. HIDE DEF s, n, o, k
  <2>6. CASE c = b
    <3>1. o - (s + d) * k - n = (o - s * k - n) + (0 - d * k)
      BY <1>2, <2>1, BoxesWrittenOff
    <3>. QED
      BY <2>1, <2>4, <2>5, <2>6, <3>1
  <2>7. CASE c # b
    BY <2>1, <2>4, <2>7
  <2>. QED
    BY <2>6, <2>7
<1>. DEFINE m == 0 - d * cost[b]
<1>6. cost[b] \in Nat /\ d * cost[b] \in Int /\ written \in Int
  BY <1>2 DEF TradeTyped, GoodsTyped
<1>7. m \in Int /\ written' = written + m
  BY <1>1, <1>6
<1>8. Lost(b)' = Lost(b) + m /\ \A c \in Makes \ {b} : Lost(c)' = Lost(c)
  BY <1>5
<1>. HIDE DEF m
<1>. QED
  BY <1>7, <1>8, LossChanges

(* Every box of the brand, here or sold without a cost, takes the price of *)
(* the delivery.                                                           *)
LEMMA BoxesRepriced ==
  ASSUME NEW o \in Int, NEW s \in Int, NEW k \in Int, NEW n \in Int, NEW c \in Int, NEW u \in Int
  PROVE  (o + c) - (s + 1) * c - (n + (c - k) * u) = (o - s * k - n) + (0 - (c - k) * (s + u))
OBVIOUS

LEMMA UncostedRepriced ==
  ASSUME TradeTyped, NEW b \in Makes, NEW c \in Nat, trade' = trade, cost' = [cost EXCEPT ![b] = c]
  PROVE  /\ SumFunction(CostsIn(b))' = SumFunction(CostsIn(b)) + (c - cost[b]) * Trading!Uncosted(b)
         /\ \A q \in Makes \ {b} : SumFunction(CostsIn(q))' = SumFunction(CostsIn(q))
<1>. DEFINE U == {x \in Trading!Live : trade[x].brand = b /\ trade[x].unitCost = 0}
            k == c - cost[b]
            f == CostsIn(b)
            one == [x \in Tills |-> IF x \in U THEN 1 ELSE 0]
            g == [x \in Tills |-> k * one[x]]
            new == [x \in Tills |-> CostOf(trade[x], b, c)]
<1>1. U \in SUBSET Tills
  BY DEF Trading!Live
<1>2. cost[b] \in Nat /\ k \in Int /\ cost'[b] = c /\ \A q \in Makes \ {b} : cost'[q] = cost[q]
  BY DEF TradeTyped, GoodsTyped
<1>3. f \in [Tills -> Int] /\ \A x \in Tills : f[x] = CostOf(trade[x], b, cost[b])
  BY CostsAreInt
<1>4. one \in [Tills -> Int]
  OBVIOUS
<1>5. \A x \in Tills : one[x] = (IF x \in U THEN 1 ELSE 0) /\ g[x] = IF x \in U THEN k ELSE 0
  BY <1>2
<1>6. g \in [Tills -> Int]
  BY <1>2, <1>4
<1>7. new = CostsIn(b)'
  BY <1>2 DEF CostsIn
<1>8. ASSUME NEW x \in Tills PROVE new[x] = f[x] + g[x]
  <2>1. trade[x] \in TradeRows
    BY DEF TradeTyped, SalesTyped
  <2>2. x \in U <=> trade[x].st = "LIVE" /\ trade[x].brand = b /\ trade[x].unitCost = 0
    BY DEF Trading!Live
  <2>3. new[x] = CostOf(trade[x], b, c) /\ f[x] = CostOf(trade[x], b, cost[b]) /\ g[x] = IF x \in U THEN k ELSE 0
    BY <1>3, <1>5
  <2>4. k = c - cost[b]
    OBVIOUS
  <2>. HIDE DEF U, k, f, g, new
  <2>5. CASE trade[x].st = "LIVE" /\ trade[x].brand = b
    <3>1. trade[x].unitCost \in Nat
      BY <2>5, LiveRow
    <3>. QED
      BY <1>2, <2>2, <2>3, <2>4, <2>5, <3>1 DEF CostOf
  <2>6. CASE ~(trade[x].st = "LIVE" /\ trade[x].brand = b)
    BY <2>2, <2>3, <2>6 DEF CostOf
  <2>. QED
    BY <2>5, <2>6
<1>9. new = [x \in Tills |-> f[x] + g[x]]
  BY <1>8
<1>10. SumFunction(one) = Cardinality(U)
  BY <1>1, DeskAssumption, CountOfPart
<1>11. Cardinality(U) = Trading!Uncosted(b)
  BY TradeCounts DEF Trading!Uncosted
<1>12. SumFunction(g) = k * SumFunction(one)
  <2>. HIDE DEF k, one
  <2>. QED
    BY <1>2, <1>4, DeskAssumption, SumTimes
<1>. HIDE DEF U, one, g, f, new, k
<1>13. SumFunction(new) = SumFunction(f) + SumFunction(g)
  BY <1>3, <1>6, <1>9, DeskAssumption, SumOfSums
<1>14. SumFunction(CostsIn(b))' = SumFunction(CostsIn(b)) + (c - cost[b]) * Trading!Uncosted(b)
  BY <1>7, <1>10, <1>11, <1>12, <1>13 DEF f, k
<1>15. ASSUME NEW q \in Makes \ {b} PROVE SumFunction(CostsIn(q))' = SumFunction(CostsIn(q))
  <2>1. CostsIn(q)' = CostsIn(q)
    BY <1>2 DEF CostsIn
  <2>. QED
    BY <2>1
<1>. QED
  BY <1>14, <1>15

LEMMA ReceiveKeepsCost ==
  ASSUME TradeTyped, TradeTyped', BoxesCosted, NEW b \in Makes, Trading!Receive(b)
  PROVE  BoxesCosted'
<1>0. bill[b] \in BillRows /\ bill \in [Makes -> BillRows]
  BY DEF TradeTyped, GoodsTyped
<1>1. PICK c \in Nat : c = bill[b].awaited
  BY <1>0, CostsAreNat DEF BillRows
<1>2. /\ bill' = [bill EXCEPT ![b].awaited = 0] /\ shelf' = [shelf EXCEPT ![b] = @ + 1]
      /\ cost' = [cost EXCEPT ![b] = c]
      /\ written' = written - (c - cost[b]) * (Trading!Stocked(b) + Trading!Uncosted(b))
      /\ UNCHANGED <<trade, hand>>
  BY <1>1 DEF Trading!Receive, Trading!trades
<1>3. HandsStand
  BY <1>2, NothingMoved
<1>4. /\ SumFunction(CostsIn(b))' = SumFunction(CostsIn(b)) + (c - cost[b]) * Trading!Uncosted(b)
      /\ \A q \in Makes \ {b} : SumFunction(CostsIn(q))' = SumFunction(CostsIn(q))
  BY <1>2, UncostedRepriced
<1>5. LossParts /\ LossParts'
  BY LossPartsBothWays
<1>6. Trading!Stocked(b) = shelf[b] + SumFunction(InHands(b))
  BY StockedIsSum
<1>7. /\ shelf'[b] = shelf[b] + 1 /\ cost'[b] = c
      /\ bill'[b].ordered = bill[b].ordered /\ bill'[b].awaited = 0
  BY <1>0, <1>2 DEF TradeTyped, GoodsTyped, BillRows
<1>8. ASSUME NEW q \in Makes \ {b} PROVE Lost(q)' = Lost(q)
  <2>1. shelf'[q] = shelf[q] /\ cost'[q] = cost[q] /\ bill'[q] = bill[q]
    BY <1>0, <1>2 DEF TradeTyped, GoodsTyped
  <2>2. /\ Lost(q) = LostOf(bill[q], shelf[q] + SumFunction(InHands(q)), cost[q], SumFunction(CostsIn(q)))
        /\ Lost(q)' = LostOf(bill'[q], shelf'[q] + SumFunction(InHands(q))', cost'[q], SumFunction(CostsIn(q))')
    BY <1>5 DEF LossParts
  <2>. QED
    BY <1>3, <1>4, <2>1, <2>2 DEF HandsStand
<1>. DEFINE s == shelf[b] + SumFunction(InHands(b))  n == SumFunction(CostsIn(b))
            o == bill[b].ordered - bill[b].awaited  k == cost[b]  u == Trading!Uncosted(b)
            m == 0 - (c - k) * (s + u)
<1>9. /\ s \in Int /\ n \in Int /\ o \in Int /\ k \in Int /\ u \in Int /\ c \in Int
      /\ Lost(b) = o - s * k - n /\ written \in Int
  BY <1>5, UncostedIsNat DEF LossParts, LostOf, TradeTyped, GoodsTyped
<1>10. Lost(b)' = (o + c) - (s + 1) * c - (n + (c - k) * u)
  <2>1. Lost(b)' = LostOf(bill'[b], shelf'[b] + SumFunction(InHands(b))', cost'[b], SumFunction(CostsIn(b))')
    BY <1>5 DEF LossParts
  <2>2. shelf'[b] + SumFunction(InHands(b))' = s + 1
    BY <1>3, <1>5, <1>7 DEF HandsStand, LossParts
  <2>3. SumFunction(CostsIn(b))' = n + (c - k) * u
    BY <1>4
  <2>4. bill'[b].ordered - bill'[b].awaited = o + c
    BY <1>1, <1>5, <1>7 DEF LossParts
  <2>. HIDE DEF s, n, o, k, u
  <2>. QED
    BY <1>7, <2>1, <2>2, <2>3, <2>4 DEF LostOf
<1>11. written' = written - (c - k) * (s + u)
  BY <1>2, <1>6
<1>. HIDE DEF s, n, o, k, u
<1>12. (c - k) * (s + u) \in Int
  BY <1>9
<1>13. Lost(b)' = Lost(b) + m
  BY <1>9, <1>10, BoxesRepriced
<1>14. m \in Int /\ written' = written + m
  BY <1>9, <1>11, <1>12
<1>. HIDE DEF m
<1>. QED
  BY <1>8, <1>13, <1>14, LossChanges

LEMMA BilledAndAwaited == ASSUME NEW o \in Int, NEW c \in Int PROVE (o + c) - c = o - 0
OBVIOUS

LEMMA BillKeepsCost ==
  ASSUME TradeTyped, TradeTyped', BoxesCosted, NEW b \in Makes,
         \/ \E c \in BoxCosts : Trading!Order(b, c)
         \/ Trading!DropOrder(b)
         \/ \E n \in 1..2 : Trading!PaySupplier(b, n) \/ Trading!SendBack(b, n)
  PROVE  BoxesCosted'
<1>0. bill \in [Makes -> BillRows] /\ bill[b] \in BillRows
  BY DEF TradeTyped, GoodsTyped
<1>1. UNCHANGED <<trade, shelf, hand, cost, written>>
  BY DEF Trading!Order, Trading!DropOrder, Trading!PaySupplier, Trading!SendBack, Trading!trades, Trading!goods
<1>2. LossParts
  BY LossHasParts
<1>3. /\ \A q \in Makes \ {b} : bill'[q] = bill[q]
      /\ bill'[b].ordered - bill'[b].awaited = bill[b].ordered - bill[b].awaited
  <2>1. bill[b].ordered \in Int /\ bill[b].awaited \in Int
    BY <1>2 DEF LossParts
  <2>2. ASSUME NEW c \in BoxCosts, Trading!Order(b, c)
        PROVE  /\ \A q \in Makes \ {b} : bill'[q] = bill[q]
               /\ bill'[b].ordered - bill'[b].awaited = bill[b].ordered - bill[b].awaited
    <3>1. bill' = [bill EXCEPT ![b].ordered = @ + c, ![b].awaited = c] /\ bill[b].awaited = 0
      BY <2>2, Zenon DEF Trading!Order
    <3>2. c \in Int
      BY CostsAreNat
    <3>3. /\ \A q \in Makes \ {b} : bill'[q] = bill[q]
          /\ bill'[b].ordered = bill[b].ordered + c /\ bill'[b].awaited = c
      BY <1>0, <3>1 DEF BillRows
    <3>4. (bill[b].ordered + c) - c = bill[b].ordered - 0
      BY <2>1, <3>2, BilledAndAwaited
    <3>. QED
      BY <3>1, <3>3, <3>4
  <2>3. ASSUME Trading!DropOrder(b)
        PROVE  /\ \A q \in Makes \ {b} : bill'[q] = bill[q]
               /\ bill'[b].ordered - bill'[b].awaited = bill[b].ordered - bill[b].awaited
    <3>1. bill' = [bill EXCEPT ![b].ordered = @ - bill[b].awaited, ![b].awaited = 0]
      BY <2>3, Zenon DEF Trading!DropOrder
    <3>2. /\ \A q \in Makes \ {b} : bill'[q] = bill[q]
          /\ bill'[b].ordered = bill[b].ordered - bill[b].awaited /\ bill'[b].awaited = 0
      BY <1>0, <3>1 DEF BillRows
    <3>. QED
      BY <2>1, <3>2
  <2>4. ASSUME NEW n \in 1..2, Trading!PaySupplier(b, n) \/ Trading!SendBack(b, n)
        PROVE  /\ \A q \in Makes \ {b} : bill'[q] = bill[q]
               /\ bill'[b].ordered - bill'[b].awaited = bill[b].ordered - bill[b].awaited
    <3>1. bill' = [bill EXCEPT ![b].paid = @ + n] \/ bill' = [bill EXCEPT ![b].credited = @ + n]
      BY <2>4 DEF Trading!PaySupplier, Trading!SendBack
    <3>. QED
      BY <1>0, <3>1 DEF BillRows
  <2>. QED
    BY <2>2, <2>3, <2>4
<1>4. HandsStand /\ CostsStand
  BY <1>1, NothingMoved, NothingSold
<1>. QED
  BY <1>1, <1>3, <1>4, LossStands DEF HandsStand, CostsStand

LEMMA BoxesCostedKeeps ==
  ASSUME TradeTyped, TradeTyped', BoxesCosted, Trading!Next
  PROVE  BoxesCosted'
<1>1. ASSUME \/ \E x \in Tills, n \in 1..Price : Trading!CollectDebt(x, n)
             \/ \E b \in Makes : \/ Trading!SwitchWallet(b)
                                 \/ \E k \in Trading!Kinds \ {"SALE", "STOCK_PURCHASE"} : Trading!ByHand(k, b, month)
             \/ \E r \in Reps : \/ Trading!RequestPayout(r) \/ Trading!RejectPayout(r) \/ Trading!SwitchRep(r)
                                \/ \E from \in {"PENDING", "APPROVED"}, to \in {"APPROVED", "PAID"} :
                                     Trading!DecidePayout(r, from, to)
                                \/ \E d \in {-1, 1} : Trading!Fine(r, d)
             \/ Trading!NextMonth
      PROVE  BoxesCosted'
  <2>1. UNCHANGED <<trade, shelf, hand, cost, written, bill>>
    BY <1>1 DEF Trading!CollectDebt, Trading!SwitchWallet, Trading!ByHand,
       Trading!RequestPayout, Trading!RejectPayout, Trading!SwitchRep, Trading!DecidePayout, Trading!Fine,
       Trading!NextMonth, Trading!trades, Trading!goods
  <2>2. HandsStand /\ CostsStand
    BY <2>1, NothingMoved, NothingSold
  <2>. QED
    BY <2>1, <2>2, LossStands DEF HandsStand, CostsStand
<1>. QED
  BY <1>1, SellKeepsCost, SettleKeepsCost, CancelKeepsCost, MoveKeepsCost, CorrectKeepsCost,
     BillKeepsCost, ReceiveKeepsCost, OpenFinanceKeepsCost DEF Trading!Next
(* The sale the trade begins with, in figures.                              *)
LEMMA TradeBeginsPosted == Trading!Init => SalesPosted /\ BillsPosted /\ PayoutsDrawn
<1>. SUFFICES ASSUME Trading!Init PROVE SalesPosted /\ BillsPosted /\ PayoutsDrawn
  OBVIOUS
<1>0. /\ Trading!FirstBrand \in Makes /\ Trading!FirstSlot \in Tills /\ BeginsElse
      /\ \E r \in Reps \cup {"direct"}, promised \in 0..Rate : \E w : Begins(r, promised, w)
  BY TradeBegins
<1>a. PICK r \in Reps \cup {"direct"}, promised \in 0..Rate : \E w : Begins(r, promised, w)
  BY <1>0
<1>1. PICK w : Begins(r, promised, w)
  BY <1>a
<1>2. /\ Price \in Nat \ {0} /\ "no" \notin Makes /\ IsFiniteSet(Tills) /\ IsFiniteSet(Reps)
  BY DeskAssumption
<1>3. SalesPosted
  <2>. SUFFICES ASSUME NEW c \in Makes, NEW t \in Trading!Months
       PROVE  book["SALE"][c][t] = SumFunction(PostedIn(c, t))
    BY DEF SalesPosted
  <2>1. book["SALE"][c][t] = IF c = w /\ t = 1 THEN Price ELSE 0
    BY <1>1 DEF Begins, BeginsWith, Trading!Kinds
  <2>. DEFINE v == Trading!Sold(Trading!FirstBrand, r, w)
  <2>2. \A x \in Tills : trade[x] = IF x = Trading!FirstSlot THEN v ELSE Trading!NoSale
    BY <1>1 DEF Begins, BeginsWith
  <2>3. Taken(Trading!NoSale, c, t) = 0
    BY DEF Taken, Trading!NoSale
  <2>4. Taken(v, c, t) = IF c = w /\ t = 1 THEN Price ELSE 0
    <3>1. v.st = "LIVE" /\ v.posted = w /\ v.at = 1 /\ v.off = 0
      BY DEF Trading!Sold
    <3>. HIDE DEF v
    <3>. QED
      BY <1>2, <3>1 DEF Taken
  <2>. DEFINE f == PostedIn(c, t)
  <2>5. DOMAIN f = Tills /\ \A x \in Tills : f[x] = Taken(trade[x], c, t)
    BY DEF PostedIn
  <2>. HIDE DEF v, f, Trading!FirstSlot
  <2>6. /\ f[Trading!FirstSlot] = (IF c = w /\ t = 1 THEN Price ELSE 0)
        /\ \A x \in Tills \ {Trading!FirstSlot} : f[x] = 0
    BY <1>0, <2>2, <2>3, <2>4, <2>5
  <2>7. SumFunction(f) = f[Trading!FirstSlot]
    BY <1>0, <1>2, <2>5, <2>6, SumOfSingle
  <2>. QED
    BY <2>1, <2>6, <2>7 DEF f
<1>4. BillsPosted
  BY <1>1 DEF Begins, BeginsWith, BillsPosted, Trading!Kinds, Trading!Months
<1>5. PayoutsDrawn
  <2>1. DOMAIN Drawn = Reps /\ \A q \in Reps : Drawn[q] = 0
    BY <1>1 DEF Begins, BeginsWith, Drawn
  <2>2. SumFunction(Drawn) = 0
    BY <1>2, <2>1, SumOfZeros
  <2>3. payouts[1] = 0 /\ payouts[2] = 0
    BY <1>0 DEF BeginsElse, Trading!Months
  <2>. QED
    BY <2>2, <2>3 DEF PayoutsDrawn
<1>. QED
  BY <1>3, <1>4, <1>5

(* Every box that was ordered and arrived at a price is here, or was sold.  *)
LEMMA NothingLostYet == ASSUME NEW k \in {0, 1}, NEW n \in Nat, NEW i \in {0, 1}
  PROVE 1 + k * (1 + n + i) - 1 - (1 + n) * k - i * k = 0
<1>1. CASE k = 0
  BY <1>1
<1>2. CASE k = 1
  BY <1>2
<1>. QED
  BY <1>1, <1>2

LEMMA TradeBeginsCosted == Trading!Init => BoxesCosted
<1>. SUFFICES ASSUME Trading!Init PROVE BoxesCosted
  OBVIOUS
<1>0. /\ Trading!FirstBrand \in Makes /\ Trading!FirstSlot \in Tills /\ BeginsElse
      /\ \E r \in Reps \cup {"direct"}, promised \in 0..Rate : \E w : Begins(r, promised, w)
  BY TradeBegins
<1>a. PICK r \in Reps \cup {"direct"}, promised \in 0..Rate : \E w : Begins(r, promised, w)
  BY <1>0
<1>1. PICK w : Begins(r, promised, w)
  BY <1>a
<1>2. TradeTyped
  BY TradeInitTyped
<1>3. /\ IsFiniteSet(Tills) /\ IsFiniteSet(Reps) /\ IsFiniteSet(Makes)
  BY DeskAssumption
<1>4. ASSUME NEW b \in Makes PROVE Lost(b) = 0
  <2>. DEFINE n == Cardinality(Reps)  i == IF b = Trading!FirstBrand THEN 1 ELSE 0
  <2>1. n \in Nat /\ i \in {0, 1} /\ cost[b] \in {0, 1}
    BY <1>0, <1>3, FS_CardinalityType DEF BeginsElse
  <2>2. bill[b].ordered = 1 + cost[b] * (1 + n + i) /\ bill[b].awaited = 1
    BY <1>1, TradeCounts DEF Begins, BeginsWith
  <2>3. Trading!Stocked(b) = 1 + n
    <3>. DEFINE f == InHands(b)
    <3>1. Trading!Stocked(b) = shelf[b] + SumFunction(f) /\ shelf[b] = 1
      BY <1>0, <1>2, StockedIsSum DEF BeginsElse
    <3>2. DOMAIN f = Reps /\ \A q \in Reps : f[q] = 1
      BY <1>0 DEF BeginsElse, InHands
    <3>. HIDE DEF f
    <3>3. SumFunction(f) = Cardinality({q \in Reps : f[q] = 1})
      BY <1>3, <3>2, SumOfOnes
    <3>4. {q \in Reps : f[q] = 1} = Reps
      BY <3>2
    <3>. QED
      BY <3>1, <3>3, <3>4
  <2>4. SumFunction(CostsIn(b)) = i * cost[b]
    <3>. DEFINE v == Trading!Sold(Trading!FirstBrand, r, w)  f == CostsIn(b)
    <3>1. \A x \in Tills : trade[x] = IF x = Trading!FirstSlot THEN v ELSE Trading!NoSale
      BY <1>1 DEF Begins, BeginsWith
    <3>2. CostOf(Trading!NoSale, b, cost[b]) = 0
      BY DEF CostOf, Trading!NoSale
    <3>3. CostOf(v, b, cost[b]) = i * cost[b]
      <4>1. v.st = "LIVE" /\ v.brand = Trading!FirstBrand /\ v.unitCost = cost[Trading!FirstBrand]
        BY DEF Trading!Sold
      <4>. HIDE DEF v, Trading!FirstBrand
      <4>. QED
        BY <2>1, <4>1 DEF CostOf
    <3>4. DOMAIN f = Tills /\ \A x \in Tills : f[x] = CostOf(trade[x], b, cost[b])
      BY DEF CostsIn
    <3>5. i * cost[b] \in Int
      BY <2>1
    <3>. HIDE DEF v, f, i, Trading!FirstSlot
    <3>6. f[Trading!FirstSlot] = i * cost[b] /\ \A x \in Tills \ {Trading!FirstSlot} : f[x] = 0
      BY <1>0, <3>1, <3>2, <3>3, <3>4
    <3>. QED
      BY <1>0, <1>3, <3>4, <3>5, <3>6, SumOfSingle DEF f
  <2>. HIDE DEF n, i
  <2>. DEFINE billed == 1 + cost[b] * (1 + n + i)
              here == (1 + n) * cost[b]
              gone == i * cost[b]
  <2>5. billed - 1 - here - gone = 0
    BY <2>1, NothingLostYet
  <2>6. bill[b].ordered = billed /\ bill[b].awaited = 1
        /\ Trading!Stocked(b) * cost[b] = here /\ SumFunction(CostsIn(b)) = gone
    BY <2>2, <2>3, <2>4
  <2>7. Lost(b) = bill[b].ordered - bill[b].awaited - Trading!Stocked(b) * cost[b] - SumFunction(CostsIn(b))
    BY Zenon DEF Lost
  <2>. HIDE DEF billed, here, gone
  <2>. QED
    BY <2>5, <2>6, <2>7
<1>5. DOMAIN Losses = Makes /\ \A b \in Makes : Losses[b] = 0
  BY <1>4 DEF Losses
<1>6. SumFunction(Losses) = 0
  BY <1>3, <1>5, SumOfZeros
<1>. QED
  BY <1>0, <1>6 DEF BoxesCosted, BeginsElse
-----------------------------------------------------------------------------
(* What holds of the trade after every step. *)
TradeInv == TradeTyped /\ SalesPosted /\ BillsPosted /\ PayoutsDrawn /\ BoxesCosted

LEMMA TradeInitInv == Trading!Init => TradeInv
BY TradeInitTyped, TradeBeginsPosted, TradeBeginsCosted DEF TradeInv

LEMMA TradeStands == ASSUME TradeInv, UNCHANGED tradeVars PROVE TradeInv'
<1>1. UNCHANGED <<trade, shelf, hand, cost, bill, book, payouts, draw, written>>
  BY DEF tradeVars
<1>2. TradeTyped'
  BY TradeStepTyped DEF TradeInv
<1>3. SalesPosted'
  <2>1. SaleRowsStand
    BY <1>1 DEF SaleRowsStand
  <2>. QED
    BY <1>1, <2>1, PostsStand DEF TradeInv
<1>4. BillsPosted' /\ PayoutsDrawn'
  BY <1>1 DEF TradeInv, BillsPosted, PayoutsDrawn, Drawn
<1>5. BoxesCosted'
  <2>1. HandsStand /\ CostsStand
    BY <1>1, NothingMoved, NothingSold
  <2>. QED
    BY <1>1, <1>2, <2>1, LossStands DEF TradeInv, HandsStand, CostsStand
<1>. QED
  BY <1>2, <1>3, <1>4, <1>5 DEF TradeInv

LEMMA TradeStepKeeps == TradeInv /\ [Trading!Next]_tradeVars => TradeInv'
<1>. SUFFICES ASSUME TradeInv, [Trading!Next]_tradeVars PROVE TradeInv'
  OBVIOUS
<1>1. CASE UNCHANGED tradeVars
  BY <1>1, TradeStands
<1>2. CASE Trading!Next
  <2>1. TradeTyped'
    BY TradeStepTyped DEF TradeInv
  <2>. QED
    BY <1>2, <2>1, SalesPostedKeeps, PayoutsDrawnKeeps, BoxesCostedKeeps DEF TradeInv
<1>. QED
  BY <1>1, <1>2

LEMMA DeskStepsTrade ==
  [DeskNext]_<<vars, goodsVars, people, tradeVars>> => [Trading!Next]_tradeVars
BY DEF DeskNext

LEMMA TradeInvTypes == TradeInv => Trading!TypeOK
<1>. SUFFICES ASSUME TradeInv PROVE Trading!TypeOK
  OBVIOUS
<1>0. TradeTyped /\ SalesPosted
  BY DEF TradeInv
<1>1. \A b \in Makes : shelf[b] >= 0 /\ bill[b].paid >= 0 /\ bill[b].awaited \in BoxCosts \cup {0}
  <2>. SUFFICES ASSUME NEW b \in Makes
       PROVE  shelf[b] >= 0 /\ bill[b].paid >= 0 /\ bill[b].awaited \in BoxCosts \cup {0}
    OBVIOUS
  <2>1. shelf[b] \in Nat /\ bill[b] \in BillRows
    BY <1>0 DEF TradeTyped, GoodsTyped
  <2>. QED
    BY <2>1 DEF BillRows
<1>2. \A r \in Reps, b \in Makes : hand[r][b] >= 0
  BY <1>0 DEF TradeTyped, GoodsTyped
<1>3. \A k \in Trading!Kinds, b \in Makes, t \in Trading!Months : book[k][b][t] >= 0
  <2>. SUFFICES ASSUME NEW k \in Trading!Kinds, NEW b \in Makes, NEW t \in Trading!Months
       PROVE  book[k][b][t] >= 0
    OBVIOUS
  <2>1. CASE k = "SALE"
    BY <1>0, <2>1, PostedIsNat DEF SalesPosted
  <2>. QED
    BY <1>0, <2>1 DEF TradeTyped, BookTyped
<1>4. \A x \in Tills : debt[x] >= 0 /\ (debt[x] > 0 => trade[x].st = "LIVE")
  BY <1>0 DEF TradeTyped, SalesTyped
<1>5. \A r \in Reps : fined[r] >= 0 /\ \A st \in DOMAIN draw[r] : draw[r][st] >= 0
  <2>. SUFFICES ASSUME NEW r \in Reps
       PROVE  fined[r] >= 0 /\ \A st \in DOMAIN draw[r] : draw[r][st] >= 0
    OBVIOUS
  <2>1. draw[r] \in DrawRows /\ fined[r] \in Nat
    BY <1>0 DEF TradeTyped, RepsTyped
  <2>. QED
    BY <2>1 DEF DrawRows
<1>. QED
  BY <1>1, <1>2, <1>3, <1>4, <1>5, Zenon DEF Trading!TypeOK

-----------------------------------------------------------------------------
(* Every book together. *)
DeskTyped ==
  /\ desk \in {"ledger", "purchase", "credit", "stock", "rep", "user", "trade"}
  /\ LedgerInv /\ PurchaseInv /\ CreditInv /\ RequestInv /\ RepInv /\ UserInv /\ TradeInv

LEMMA DeskStepsLedger ==
  [DeskNext]_<<vars, goodsVars, people, tradeVars>> => [Next]_vars
BY DEF DeskNext, goodsVars

(* For any sets and bounds, no row of any book leaves its type, and no     *)
(* place, bill, wallet's sales, debt, fine or withdrawal goes below zero.  *)
THEOREM DeskTypesHold == DeskSpec => []DeskTypeOK
<1>1. DeskInit => DeskTyped
  BY LedgerInitInv, PurchaseInitInv, CreditInitInv, StockInitInv, RepInitInv, UserInitInv, TradeInitInv
  DEF DeskInit, DeskTyped
<1>2. DeskTyped /\ [DeskNext]_<<vars, goodsVars, people, tradeVars>> => DeskTyped'
  <2>. SUFFICES ASSUME DeskTyped, [DeskNext]_<<vars, goodsVars, people, tradeVars>> PROVE DeskTyped'
    OBVIOUS
  <2>1. desk' = desk
    BY DEF DeskNext, goodsVars
  <2>2. /\ [Next]_vars /\ [Purchase!Next]_Purchase!vars /\ [Credit!Next]_Credit!vars
        /\ [Stock!Next]_Stock!vars /\ [RepAccount!Next]_RepAccount!vars
        /\ [Account!Next]_Account!vars /\ [Trading!Next]_tradeVars
    BY DeskStepsLedger, DeskStepsPurchases, DeskStepsCredit, DeskStepsStock, DeskStepsRep, DeskStepsUsers,
       DeskStepsTrade, Zenon
  <2>. QED
    BY <2>1, <2>2, LedgerStepKeeps, PurchaseStepKeeps, CreditStepKeeps, StockStepKeeps, RepStepKeeps,
       UserStepKeeps, TradeStepKeeps DEF DeskTyped
<1>3. DeskTyped => DeskTypeOK
  <2>. SUFFICES ASSUME DeskTyped PROVE DeskTypeOK
    OBVIOUS
  <2>1. TypeOK /\ Purchase!TypeOK /\ Credit!TypeOK /\ Stock!TypeOK /\ RepAccount!TypeOK
        /\ Account!TypeOK /\ Trading!TypeOK
    BY TradeInvTypes DEF DeskTyped, LedgerInv, PurchaseInv, CreditInv, RequestInv, StockTyped, RepInv, RepTyped,
       UserInv, UserTyped, Account!TypeOK
  <2>2. desk \in {"ledger", "purchase", "credit", "stock", "rep", "user", "trade"}
    BY DEF DeskTyped
  <2>. QED
    BY <2>1, <2>2 DEF DeskTypeOK
<1>. QED
  BY <1>1, <1>2, <1>3, PTL DEF DeskSpec

-----------------------------------------------------------------------------
(* What the owner's figures add up (Figures).                              *)

LEMMA TypesAreFinite ==
  /\ IsFiniteSet(Trading!Kinds) /\ IsFiniteSet(Trading!Months)
  /\ IsFiniteSet(Makes) /\ IsFiniteSet(Tills) /\ IsFiniteSet(Reps)
<1>1. IsFiniteSet(1..2)
  <2>1. 1..2 = {1} \cup {2} /\ IsFiniteSet({1}) /\ IsFiniteSet({2})
    BY FS_Singleton
  <2>. QED
    BY <2>1, FS_Union
<1>2. IsFiniteSet({"SALE"}) /\ IsFiniteSet({"INCOME"}) /\ IsFiniteSet({"EXPENSE"})
      /\ IsFiniteSet({"STOCK_PURCHASE"}) /\ IsFiniteSet({"OWNER_CONTRIBUTION"}) /\ IsFiniteSet({"OWNER_DRAWING"})
  BY FS_Singleton
<1>3. IsFiniteSet({"SALE"} \cup {"INCOME"}) /\ IsFiniteSet({"EXPENSE"} \cup {"STOCK_PURCHASE"})
      /\ IsFiniteSet({"OWNER_CONTRIBUTION"} \cup {"OWNER_DRAWING"})
  BY <1>2, FS_Union
<1>4. IsFiniteSet(({"SALE"} \cup {"INCOME"}) \cup ({"EXPENSE"} \cup {"STOCK_PURCHASE"}))
  BY <1>3, FS_Union
<1>5. IsFiniteSet((({"SALE"} \cup {"INCOME"}) \cup ({"EXPENSE"} \cup {"STOCK_PURCHASE"}))
                    \cup ({"OWNER_CONTRIBUTION"} \cup {"OWNER_DRAWING"}))
  BY <1>3, <1>4, FS_Union
<1>6. Trading!Kinds = (({"SALE"} \cup {"INCOME"}) \cup ({"EXPENSE"} \cup {"STOCK_PURCHASE"}))
                        \cup ({"OWNER_CONTRIBUTION"} \cup {"OWNER_DRAWING"})
  BY DEF Trading!Kinds
<1>. QED
  BY <1>1, <1>5, <1>6, DeskAssumption DEF Trading!Months

LEMMA TriplesAreFinite ==
  ASSUME NEW A, IsFiniteSet(A), NEW B, IsFiniteSet(B), NEW C, IsFiniteSet(C)
  PROVE  IsFiniteSet(A \X B \X C)
<1>. DEFINE S == A \X B \X C
            T == (A \X B) \X C
            f == [e \in S |-> <<<<e[1], e[2]>>, e[3]>>]
<1>1. IsFiniteSet(T)
  BY FS_Product
<1>2. f \in [S -> T]
  OBVIOUS
<1>3. \A d, e \in S : f[d] = f[e] => d = e
  OBVIOUS
<1>4. f \in Injection(S, T)
  BY <1>2, <1>3 DEF Injection, IsInjective
<1>. QED
  BY <1>1, <1>4, FS_Injection

(* The rows of the ledger, by kind, wallet and month. *)
AllRows == Trading!Kinds \X Makes \X Trading!Months
Rows == [e \in AllRows |-> book[e[1]][e[2]][e[3]]]

LEMMA EnteredIsSum ==
  ASSUME BookTyped, NEW K \in SUBSET Trading!Kinds, NEW B \in SUBSET Makes, NEW W \in SUBSET Trading!Months
  PROVE  /\ K \X B \X W \in SUBSET AllRows /\ IsFiniteSet(K \X B \X W)
         /\ \A e \in K \X B \X W : Rows[e] = book[e[1]][e[2]][e[3]] /\ Rows[e] \in Int
         /\ Trading!Entered(K, B, W) = SumFunctionOnSet(Rows, K \X B \X W)
         /\ Trading!Entered(K, B, W) \in Int
<1>. DEFINE S == K \X B \X W
            f == [e \in S |-> book[e[1]][e[2]][e[3]]]
<1>1. IsFiniteSet(K) /\ IsFiniteSet(B) /\ IsFiniteSet(W)
  BY TypesAreFinite, FS_Subset
<1>2. IsFiniteSet(S)
  BY <1>1, TriplesAreFinite
<1>3. S \in SUBSET AllRows
  BY DEF AllRows
<1>4. \A e \in S : Rows[e] = book[e[1]][e[2]][e[3]] /\ Rows[e] \in Int
  <2>. SUFFICES ASSUME NEW e \in S PROVE Rows[e] = book[e[1]][e[2]][e[3]] /\ Rows[e] \in Int
    OBVIOUS
  <2>1. e \in AllRows
    BY <1>3
  <2>2. e[1] \in Trading!Kinds /\ e[2] \in Makes /\ e[3] \in Trading!Months
    BY <2>1 DEF AllRows
  <2>3. book[e[1]][e[2]][e[3]] \in Int
    BY <2>2 DEF BookTyped
  <2>4. Rows[e] = book[e[1]][e[2]][e[3]]
    BY <2>1 DEF Rows
  <2>. QED
    BY <2>3, <2>4
<1>5. Trading!Entered(K, B, W) = SumFunction(f)
  BY TradeSums DEF Trading!Entered, Trading!Sum
<1>6. DOMAIN f = S /\ \A e \in S : f[e] = Rows[e]
  BY <1>4
<1>. HIDE DEF f, S
<1>7. SumFunction(f) = SumFunctionOnSet(Rows, S)
  BY <1>2, <1>6, SumOfSame DEF SumFunction
<1>8. SumFunctionOnSet(Rows, S) \in Int
  BY <1>2, <1>4, SumIsInt
<1>. QED
  BY <1>2, <1>3, <1>4, <1>5, <1>7, <1>8 DEF S

(* A total splits by kind, by wallet and by month. *)
LEMMA EnteredSplits ==
  ASSUME BookTyped, NEW K \in SUBSET Trading!Kinds, NEW B \in SUBSET Makes, NEW W \in SUBSET Trading!Months
  PROVE  /\ \A K1 \in SUBSET K :
              Trading!Entered(K, B, W) = Trading!Entered(K1, B, W) + Trading!Entered(K \ K1, B, W)
         /\ \A B1 \in SUBSET B :
              Trading!Entered(K, B, W) = Trading!Entered(K, B1, W) + Trading!Entered(K, B \ B1, W)
         /\ \A W1 \in SUBSET W :
              Trading!Entered(K, B, W) = Trading!Entered(K, B, W1) + Trading!Entered(K, B, W \ W1)
<1>. DEFINE Total(S) == SumFunctionOnSet(Rows, S)
            S == K \X B \X W
<1>1. IsFiniteSet(S) /\ (\A e \in S : Rows[e] \in Int) /\ Trading!Entered(K, B, W) = SumFunctionOnSet(Rows, S)
  BY EnteredIsSum
<1>2. Trading!Entered(K, B, W) = Total(S)
  BY <1>1
<1>3. ASSUME NEW A \in SUBSET S PROVE Total(S) = Total(A) + Total(S \ A)
  <2>. HIDE DEF S
  <2>. QED
    BY <1>1, SumOfParts
<1>4. ASSUME NEW K1 \in SUBSET K
      PROVE  Trading!Entered(K, B, W) = Trading!Entered(K1, B, W) + Trading!Entered(K \ K1, B, W)
  <2>. DEFINE A == K1 \X B \X W
  <2>1. A \in SUBSET S /\ S \ A = (K \ K1) \X B \X W
    OBVIOUS
  <2>2. Trading!Entered(K1, B, W) = Total(A) /\ Trading!Entered(K \ K1, B, W) = Total((K \ K1) \X B \X W)
    <3>1. K1 \in SUBSET Trading!Kinds /\ K \ K1 \in SUBSET Trading!Kinds
      OBVIOUS
    <3>. QED
      BY <3>1, EnteredIsSum
  <2>3. Total(S) = Total(A) + Total(S \ A)
    BY <1>3, <2>1
  <2>. HIDE DEF A, S, Total
  <2>. QED
    BY <1>2, <2>1, <2>2, <2>3
<1>5. ASSUME NEW B1 \in SUBSET B
      PROVE  Trading!Entered(K, B, W) = Trading!Entered(K, B1, W) + Trading!Entered(K, B \ B1, W)
  <2>. DEFINE A == K \X B1 \X W
  <2>1. A \in SUBSET S /\ S \ A = K \X (B \ B1) \X W
    OBVIOUS
  <2>2. Trading!Entered(K, B1, W) = Total(A) /\ Trading!Entered(K, B \ B1, W) = Total(K \X (B \ B1) \X W)
    <3>1. B1 \in SUBSET Makes /\ B \ B1 \in SUBSET Makes
      OBVIOUS
    <3>. QED
      BY <3>1, EnteredIsSum
  <2>3. Total(S) = Total(A) + Total(S \ A)
    BY <1>3, <2>1
  <2>. HIDE DEF A, S, Total
  <2>. QED
    BY <1>2, <2>1, <2>2, <2>3
<1>6. ASSUME NEW W1 \in SUBSET W
      PROVE  Trading!Entered(K, B, W) = Trading!Entered(K, B, W1) + Trading!Entered(K, B, W \ W1)
  <2>. DEFINE A == K \X B \X W1
  <2>1. A \in SUBSET S /\ S \ A = K \X B \X (W \ W1)
    OBVIOUS
  <2>2. Trading!Entered(K, B, W1) = Total(A) /\ Trading!Entered(K, B, W \ W1) = Total(K \X B \X (W \ W1))
    <3>1. W1 \in SUBSET Trading!Months /\ W \ W1 \in SUBSET Trading!Months
      OBVIOUS
    <3>. QED
      BY <3>1, EnteredIsSum
  <2>3. Total(S) = Total(A) + Total(S \ A)
    BY <1>3, <2>1
  <2>. HIDE DEF A, S, Total
  <2>. QED
    BY <1>2, <2>1, <2>2, <2>3
<1>. QED
  BY <1>4, <1>5, <1>6

LEMMA EnteredByWallet ==
  ASSUME BookTyped, NEW K \in SUBSET Trading!Kinds, NEW B \in SUBSET Makes, NEW W \in SUBSET Trading!Months
  PROVE  Trading!Entered(K, B, W) = SumFunction([b \in B |-> Trading!Entered(K, {b}, W)])
<1>. DEFINE S == K \X B \X W
            v == [e \in S |-> Rows[e]]
            m == [e \in S |-> e[2]]
            part == [b \in B |-> SumFunction([e \in {d \in S : m[d] = b} |-> v[e]])]
<1>1. IsFiniteSet(S) /\ (\A e \in S : Rows[e] \in Int) /\ Trading!Entered(K, B, W) = SumFunctionOnSet(Rows, S)
  BY EnteredIsSum
<1>2. IsFiniteSet(B)
  BY TypesAreFinite, FS_Subset
<1>3. v \in [S -> Int] /\ DOMAIN v = S /\ m \in [S -> B]
  BY <1>1
<1>4. SumFunction(v) = SumFunctionOnSet(Rows, S)
  <2>1. \A e \in S : v[e] = Rows[e]
    OBVIOUS
  <2>. HIDE DEF v, S
  <2>. QED
    BY <1>1, <1>3, <2>1, SumOfSame DEF SumFunction
<1>5. ASSUME NEW b \in B PROVE part[b] = Trading!Entered(K, {b}, W)
  <2>. DEFINE Sb == K \X {b} \X W  f == [e \in {d \in S : m[d] = b} |-> v[e]]
  <2>1. {d \in S : m[d] = b} = Sb
    OBVIOUS
  <2>2. DOMAIN f = Sb /\ \A e \in Sb : f[e] = Rows[e]
    BY <2>1
  <2>3. {b} \in SUBSET Makes
    OBVIOUS
  <2>4. IsFiniteSet(Sb) /\ Trading!Entered(K, {b}, W) = SumFunctionOnSet(Rows, Sb)
    BY <2>3, EnteredIsSum
  <2>5. part[b] = SumFunction(f)
    OBVIOUS
  <2>. HIDE DEF f, Sb, part
  <2>. QED
    BY <2>2, <2>4, <2>5, SumOfSame DEF SumFunction
<1>6. SumFunction(v) = SumFunction(part)
  <2>. HIDE DEF v, S, m
  <2>. QED
    BY <1>1, <1>2, <1>3, SumByClass
<1>7. part = [b \in B |-> Trading!Entered(K, {b}, W)]
  BY <1>5
<1>. HIDE DEF part
<1>. QED
  BY <1>1, <1>4, <1>6, <1>7

(* One cell of the ledger, and nothing of no month or of no wallet. *)
LEMMA EnteredInCell ==
  ASSUME BookTyped, NEW k \in Trading!Kinds, NEW b \in Makes, NEW t \in Trading!Months
  PROVE  Trading!Entered({k}, {b}, {t}) = book[k][b][t]
<1>. DEFINE S == {k} \X {b} \X {t}
            e == <<k, b, t>>
            f == [d \in S |-> Rows[d]]
<1>1. {k} \in SUBSET Trading!Kinds /\ {b} \in SUBSET Makes /\ {t} \in SUBSET Trading!Months
  OBVIOUS
<1>2. /\ IsFiniteSet(S) /\ Trading!Entered({k}, {b}, {t}) = SumFunctionOnSet(Rows, S)
      /\ \A d \in S : Rows[d] = book[d[1]][d[2]][d[3]] /\ Rows[d] \in Int
  BY <1>1, EnteredIsSum
<1>3. e \in S /\ S \ {e} = {}
  OBVIOUS
<1>4. Rows[e] = book[k][b][t] /\ Rows[e] \in Int
  BY <1>2, <1>3
<1>. HIDE DEF S, e
<1>5. SumFunctionOnSet(Rows, S) = Rows[e] + SumFunctionOnSet(Rows, S \ {e})
  BY <1>2, <1>3, SumOfOneMore
<1>6. SumFunctionOnSet(Rows, S \ {e}) = 0
  BY <1>3, SumOfNothing
<1>. QED
  BY <1>2, <1>4, <1>5, <1>6

LEMMA EnteredNever ==
  ASSUME BookTyped, NEW K \in SUBSET Trading!Kinds, NEW B \in SUBSET Makes
  PROVE  Trading!Entered(K, B, {}) = 0
<1>1. {} \in SUBSET Trading!Months
  OBVIOUS
<1>2. Trading!Entered(K, B, {}) = SumFunctionOnSet(Rows, K \X B \X {})
  BY <1>1, EnteredIsSum
<1>3. K \X B \X {} = {}
  OBVIOUS
<1>. QED
  BY <1>2, <1>3, SumOfNothing
LEMMA EnteredIsInt ==
  ASSUME BookTyped
  PROVE  \A K \in SUBSET Trading!Kinds, B \in SUBSET Makes, W \in SUBSET Trading!Months :
           Trading!Entered(K, B, W) \in Int
<1>. SUFFICES ASSUME NEW K \in SUBSET Trading!Kinds, NEW B \in SUBSET Makes, NEW W \in SUBSET Trading!Months
     PROVE  Trading!Entered(K, B, W) \in Int
  OBVIOUS
<1>. QED
  BY EnteredIsSum

LEMMA BrandsSplit ==
  ASSUME BookTyped, NEW K \in SUBSET Trading!Kinds, NEW W \in SUBSET Trading!Months, NEW B1 \in SUBSET Makes
  PROVE  Trading!Entered(K, Makes, W)
           = Trading!Entered(K, B1, W) + Trading!Entered(K, Makes \ B1, W)
<1>1. Makes \in SUBSET Makes
  OBVIOUS
<1>2. \A B2 \in SUBSET Makes :
        Trading!Entered(K, Makes, W) = Trading!Entered(K, B2, W) + Trading!Entered(K, Makes \ B2, W)
  BY <1>1, EnteredSplits
<1>. QED
  BY <1>2

(* What came in and went out by the trade, and by the owner's own money.    *)
Earnings == {"SALE", "INCOME"}
Spendings == {"EXPENSE", "STOCK_PURCHASE"}
LEMMA KindsSplit ==
  ASSUME BookTyped, NEW B \in SUBSET Makes, NEW W \in SUBSET Trading!Months
  PROVE  /\ Trading!Entered(Trading!In, B, W)
              = Trading!Entered(Earnings, B, W) + Trading!Entered({"OWNER_CONTRIBUTION"}, B, W)
         /\ Trading!Entered(Trading!Kinds \ Trading!In, B, W)
              = Trading!Entered(Spendings, B, W) + Trading!Entered({"OWNER_DRAWING"}, B, W)
         /\ Trading!Entered(Earnings, B, W)
              = Trading!Entered({"SALE"}, B, W) + Trading!Entered({"INCOME"}, B, W)
         /\ Trading!Entered(Spendings, B, W)
              = Trading!Entered({"EXPENSE"}, B, W) + Trading!Entered({"STOCK_PURCHASE"}, B, W)
<1>. DEFINE E(K) == Trading!Entered(K, B, W)  Out == Trading!Kinds \ Trading!In
<1>1. /\ Trading!In \in SUBSET Trading!Kinds /\ Out \in SUBSET Trading!Kinds
      /\ Earnings \in SUBSET Trading!Kinds /\ Spendings \in SUBSET Trading!Kinds
      /\ Earnings \in SUBSET Trading!In /\ Spendings \in SUBSET Out
      /\ {"SALE"} \in SUBSET Earnings /\ {"EXPENSE"} \in SUBSET Spendings
      /\ Trading!In \ Earnings = {"OWNER_CONTRIBUTION"} /\ Out \ Spendings = {"OWNER_DRAWING"}
      /\ Earnings \ {"SALE"} = {"INCOME"} /\ Spendings \ {"EXPENSE"} = {"STOCK_PURCHASE"}
  BY DEF Trading!Kinds, Trading!In, Earnings, Spendings
<1>. HIDE DEF Out
<1>2. \A K \in SUBSET Trading!Kinds : \A K1 \in SUBSET K : E(K) = E(K1) + E(K \ K1)
  BY EnteredSplits
<1>3. /\ E(Trading!In) = E(Earnings) + E(Trading!In \ Earnings)
      /\ E(Out) = E(Spendings) + E(Out \ Spendings)
      /\ E(Earnings) = E({"SALE"}) + E(Earnings \ {"SALE"})
      /\ E(Spendings) = E({"EXPENSE"}) + E(Spendings \ {"EXPENSE"})
  BY <1>1, <1>2
<1>. QED
  BY <1>1, <1>3 DEF Out

(* A total over months is the sum of the months'. *)
LEMMA EnteredByMonth ==
  ASSUME BookTyped, NEW K \in SUBSET Trading!Kinds, NEW B \in SUBSET Makes, NEW W \in SUBSET Trading!Months
  PROVE  Trading!Entered(K, B, W) = (IF 1 \in W THEN Trading!Entered(K, B, {1}) ELSE 0)
                                      + (IF 2 \in W THEN Trading!Entered(K, B, {2}) ELSE 0)
<1>. DEFINE E(V) == Trading!Entered(K, B, V)
<1>1. \A V \in SUBSET Trading!Months : E(V) \in Int /\ \A V1 \in SUBSET V : E(V) = E(V1) + E(V \ V1)
  BY EnteredSplits, EnteredIsInt
<1>2. E({}) = 0
  BY EnteredNever
<1>3. W = {} \/ W = {1} \/ W = {2} \/ W = {1, 2}
  <2>1. Trading!Months = {1, 2}
    BY DEF Trading!Months
  <2>2. W \subseteq {1, 2}
    BY <2>1
  <2>. QED
    BY <2>2
<1>4. {1} \in SUBSET Trading!Months /\ {2} \in SUBSET Trading!Months /\ {1, 2} \in SUBSET Trading!Months
  BY DEF Trading!Months
<1>. HIDE DEF E
<1>5. CASE W = {1, 2}
  <2>0. {1} \in SUBSET {1, 2} /\ {1, 2} \ {1} = {2}
    OBVIOUS
  <2>1. E({1, 2}) = E({1}) + E({1, 2} \ {1})
    BY <1>1, <1>4, <2>0
  <2>. QED
    BY <1>5, <2>0, <2>1 DEF E
<1>6. CASE W = {}
  BY <1>2, <1>6 DEF E
<1>7. CASE W = {1}
  BY <1>1, <1>4, <1>7 DEF E
<1>8. CASE W = {2}
  BY <1>1, <1>4, <1>8 DEF E
<1>. QED
  BY <1>3, <1>5, <1>6, <1>7, <1>8

(* The opening balances of some wallets, and the payouts of some months.    *)
Opened(B) == SumFunction([b \in B |-> Capital])
Pocketed(W) == SumFunction([t \in W |-> payouts[t]])
LEMMA OpenedSplits ==
  ASSUME NEW B \in SUBSET Makes
  PROVE  Opened(Makes) = Opened(B) + Opened(Makes \ B) /\ Opened(B) \in Int /\ Opened(Makes \ B) \in Int
<1>. DEFINE v == [b \in Makes |-> Capital]
<1>1. \A b \in Makes : v[b] = Capital /\ v[b] \in Int
  BY DeskAssumption
<1>2. [b \in Makes |-> v[b]] = [b \in Makes |-> Capital] /\ [b \in B |-> v[b]] = [b \in B |-> Capital]
      /\ [b \in Makes \ B |-> v[b]] = [b \in Makes \ B |-> Capital]
  BY <1>1
<1>. HIDE DEF v
<1>. QED
  BY <1>1, <1>2, TypesAreFinite, SumInTwo DEF Opened

LEMMA PocketedSplits ==
  ASSUME TradeTyped, NEW W \in SUBSET Trading!Months
  PROVE  /\ Pocketed(W) + Pocketed(Trading!Months \ W) = payouts[1] + payouts[2]
         /\ Pocketed(W) \in Int /\ Pocketed(Trading!Months \ W) \in Int
         /\ payouts[1] \in Int /\ payouts[2] \in Int
<1>1. \A t \in Trading!Months : payouts[t] \in Int
  BY DEF TradeTyped, OwnerTyped
<1>2. \A V \in SUBSET Trading!Months :
        /\ Pocketed(Trading!Months) = Pocketed(V) + Pocketed(Trading!Months \ V)
        /\ Pocketed(V) \in Int /\ Pocketed(Trading!Months \ V) \in Int
  BY <1>1, TypesAreFinite, SumInTwo DEF Pocketed
<1>3. ASSUME NEW t \in Trading!Months PROVE Pocketed({t}) = payouts[t]
  <2>. DEFINE f == [u \in {t} |-> payouts[u]]
  <2>1. DOMAIN f = {t} /\ f[t] = payouts[t] /\ IsFiniteSet({t}) /\ payouts[t] \in Int
    BY <1>1, FS_Singleton
  <2>. HIDE DEF f
  <2>2. SumFunction(f) = f[t]
    BY <2>1, SumOfSingle
  <2>. QED
    BY <2>1, <2>2 DEF f, Pocketed
<1>4. {1} \in SUBSET Trading!Months /\ Trading!Months \ {1} = {2} /\ 1 \in Trading!Months /\ 2 \in Trading!Months
  BY DEF Trading!Months
<1>5. Pocketed(Trading!Months) = payouts[1] + payouts[2]
  BY <1>2, <1>3, <1>4
<1>. QED
  BY <1>1, <1>2, <1>4, <1>5

Since == Trading!Clamped(Trading!Months)
LEMMA SinceIsPart == ASSUME TradeTyped PROVE Since \in SUBSET Trading!Months /\ open \in SUBSET Makes
BY DEF Since, Trading!Clamped, TradeTyped, OwnerTyped

(* The cash of the open wallets. *)
LEMMA CashOfWallets ==
  ASSUME TradeTyped
  PROVE  Trading!cashPosition
           = Opened(open) + Trading!Entered(Trading!In, open, Since)
               - Trading!Entered(Trading!Kinds \ Trading!In, open, Since)
<1>. DEFINE I(b) == Trading!Entered(Trading!In, {b}, Since)
            O(b) == Trading!Entered(Trading!Kinds \ Trading!In, {b}, Since)
            f == [b \in open |-> I(b)]
            g == [b \in open |-> O(b)]
            d == [b \in open |-> f[b] - g[b]]
            c == [b \in open |-> Capital]
            total == [b \in open |-> c[b] + d[b]]
<1>0. Since \in SUBSET Trading!Months /\ open \in SUBSET Makes /\ BookTyped
      /\ Trading!In \in SUBSET Trading!Kinds /\ Trading!Kinds \ Trading!In \in SUBSET Trading!Kinds
  BY SinceIsPart DEF TradeTyped, Trading!In, Trading!Kinds
<1>1. IsFiniteSet(open)
  BY <1>0, TypesAreFinite, FS_Subset
<1>2. \A b \in open : I(b) \in Int /\ O(b) \in Int
  <2>. SUFFICES ASSUME NEW b \in open PROVE I(b) \in Int /\ O(b) \in Int
    OBVIOUS
  <2>1. {b} \in SUBSET Makes
    BY <1>0
  <2>. QED
    BY <1>0, <2>1, EnteredIsInt
<1>3. f \in [open -> Int] /\ g \in [open -> Int] /\ d \in [open -> Int] /\ c \in [open -> Int]
  <2>. HIDE DEF I, O
  <2>1. f \in [open -> Int] /\ g \in [open -> Int] /\ c \in [open -> Int]
    BY <1>2, DeskAssumption
  <2>. HIDE DEF f, g, c
  <2>. QED
    BY <2>1
<1>4. \A b \in open : Trading!accountBalances[b] = Capital + (I(b) - O(b))
  BY <1>0, Zenon DEF Trading!accountBalances, Since
<1>5. \A b \in open : total[b] = Capital + (I(b) - O(b))
  OBVIOUS
<1>6. [b \in open |-> Trading!accountBalances[b]] = total
  <2>. HIDE DEF I, O, c, d
  <2>. QED
    BY <1>4, <1>5
<1>7. Trading!cashPosition = SumFunction([b \in open |-> Trading!accountBalances[b]])
  BY TradeSums DEF Trading!cashPosition, Trading!Sum
<1>8. SumFunction(f) = Trading!Entered(Trading!In, open, Since)
      /\ SumFunction(g) = Trading!Entered(Trading!Kinds \ Trading!In, open, Since)
  BY <1>0, EnteredByWallet
<1>. HIDE DEF f, g, I, O, c
<1>9. SumFunction(d) = SumFunction(f) - SumFunction(g)
  BY <1>1, <1>3, SumOfDifferences
<1>. HIDE DEF d
<1>10. SumFunction(total) = SumFunction(c) + SumFunction(d)
  BY <1>1, <1>3, SumOfSums
<1>11. SumFunction(c) = Opened(open)
  BY DEF c, Opened
<1>12. Opened(open) \in Int /\ Trading!Entered(Trading!In, open, Since) \in Int
       /\ Trading!Entered(Trading!Kinds \ Trading!In, open, Since) \in Int
  BY <1>0, OpenedSplits, EnteredIsInt
<1>. HIDE DEF total
<1>13. Trading!cashPosition = SumFunction(total)
  BY <1>6, <1>7
<1>. QED
  BY <1>8, <1>9, <1>10, <1>11, <1>12, <1>13

LEMMA OwnersMoney ==
  ASSUME TradeTyped
  PROVE  /\ Trading!ownerFigures(Trading!Months).total
              = Trading!Entered({"OWNER_CONTRIBUTION"}, open, Since) + Pocketed(Since)
                  - Trading!Entered({"OWNER_DRAWING"}, open, Since)
         /\ Trading!ownerFigures(Trading!Months).accountMovement
              = Trading!Entered({"OWNER_CONTRIBUTION"}, open, Since)
                  - Trading!Entered({"OWNER_DRAWING"}, open, Since)
<1>1. Pocketed(Since) = Trading!Sum(Trading!Clamped(Trading!Months), LAMBDA t : payouts[t])
  BY TradeSums DEF Trading!Sum, Pocketed, Since
<1>. QED
  BY <1>1 DEF Trading!ownerFigures, Since

LEMMA WalletsClosed ==
  ASSUME TradeTyped
  PROVE  Trading!ClosedWallets
           = Opened(Makes \ open) + Trading!Entered(Earnings, Makes \ open, Since)
               - Trading!Entered(Spendings, Makes \ open, Since)
<1>1. Opened(Makes \ open) = Trading!Sum(Makes \ open, LAMBDA b : [m \in Makes |-> Capital][b])
  BY TradeSums DEF Trading!Sum, Opened
<1>. QED
  BY <1>1 DEF Trading!ClosedWallets, Trading!Moved, Trading!Trading, Since, Earnings, Spendings

(* The cash, less what the owner put in, plus what closed wallets keep: the *)
(* opening money and the trade's, less the payouts.                        *)
LEMMA CashSheet ==
  ASSUME TradeTyped
  PROVE  /\ Trading!cashPosition + Trading!ClosedWallets - Trading!ownerFigures(Trading!Months).total
              = Opened(Makes) + Trading!Entered(Earnings, Makes, Since)
                  - Trading!Entered(Spendings, Makes, Since) - Pocketed(Since)
         /\ Trading!cashPosition \in Int /\ Trading!ClosedWallets \in Int
         /\ Trading!ownerFigures(Trading!Months).total \in Int
<1>. DEFINE E(K, B) == Trading!Entered(K, B, Since)  shut == Makes \ open
            C == {"OWNER_CONTRIBUTION"}  D == {"OWNER_DRAWING"}  Out == Trading!Kinds \ Trading!In
<1>0. /\ Since \in SUBSET Trading!Months /\ open \in SUBSET Makes /\ shut \in SUBSET Makes /\ BookTyped
      /\ C \in SUBSET Trading!Kinds /\ D \in SUBSET Trading!Kinds /\ Makes \in SUBSET Makes
      /\ Earnings \in SUBSET Trading!Kinds /\ Spendings \in SUBSET Trading!Kinds
      /\ Trading!In \in SUBSET Trading!Kinds /\ Out \in SUBSET Trading!Kinds
  BY SinceIsPart DEF TradeTyped, Trading!In, Trading!Kinds, Earnings, Spendings
<1>1. Trading!cashPosition = Opened(open) + E(Trading!In, open) - E(Out, open)
  BY CashOfWallets
<1>2. E(Trading!In, open) = E(Earnings, open) + E(C, open) /\ E(Out, open) = E(Spendings, open) + E(D, open)
  BY <1>0, KindsSplit
<1>3. Trading!ownerFigures(Trading!Months).total = E(C, open) + Pocketed(Since) - E(D, open)
  BY OwnersMoney
<1>4. Trading!ClosedWallets = Opened(shut) + E(Earnings, shut) - E(Spendings, shut)
  BY WalletsClosed
<1>5. E(Earnings, Makes) = E(Earnings, open) + E(Earnings, shut)
      /\ E(Spendings, Makes) = E(Spendings, open) + E(Spendings, shut)
  <2>1. ASSUME NEW K \in SUBSET Trading!Kinds PROVE E(K, Makes) = E(K, open) + E(K, shut)
    <3>1. BookTyped /\ Since \in SUBSET Trading!Months /\ open \in SUBSET Makes
      BY <1>0
    <3>. QED
      BY <3>1, BrandsSplit
  <2>. HIDE DEF E
  <2>. QED
    BY <1>0, <2>1
<1>6. Opened(Makes) = Opened(open) + Opened(shut) /\ Opened(open) \in Int /\ Opened(shut) \in Int
  BY <1>0, OpenedSplits
<1>7. Pocketed(Since) \in Int
  BY <1>0, PocketedSplits
<1>8. /\ E(Earnings, open) \in Int /\ E(Earnings, shut) \in Int /\ E(C, open) \in Int /\ E(D, open) \in Int
      /\ E(Spendings, open) \in Int /\ E(Spendings, shut) \in Int
      /\ E(Trading!In, open) \in Int /\ E(Out, open) \in Int
  BY <1>0, EnteredIsInt
<1>. HIDE DEF E, C, D, Out, shut
<1>9. Trading!cashPosition = Opened(open) + (E(Earnings, open) + E(C, open)) - (E(Spendings, open) + E(D, open))
  BY <1>1, <1>2
<1>10. /\ Trading!cashPosition + Trading!ClosedWallets - Trading!ownerFigures(Trading!Months).total
            = Opened(Makes) + E(Earnings, Makes) - E(Spendings, Makes) - Pocketed(Since)
       /\ Trading!cashPosition \in Int /\ Trading!ClosedWallets \in Int
       /\ Trading!ownerFigures(Trading!Months).total \in Int
  BY <1>3, <1>4, <1>5, <1>6, <1>7, <1>8, <1>9
<1>. QED
  BY <1>10 DEF E

(* Totals of the suppliers' bills. *)
Ordered == SumFunction([b \in Makes |-> bill[b].ordered])
Awaited == SumFunction([b \in Makes |-> bill[b].awaited])
Credited == SumFunction([b \in Makes |-> bill[b].credited])
Paid == SumFunction([b \in Makes |-> bill[b].paid])
LEMMA BillFields ==
  ASSUME TradeTyped
  PROVE  /\ \A b \in Makes : /\ bill[b].ordered \in Int /\ bill[b].awaited \in Int
                             /\ bill[b].credited \in Int /\ bill[b].paid \in Int
         /\ Ordered \in Int /\ Awaited \in Int /\ Credited \in Int /\ Paid \in Int
<1>1. \A b \in Makes : bill[b] \in BillRows
  BY DEF TradeTyped, GoodsTyped
<1>2. \A b \in Makes : /\ bill[b].ordered \in Int /\ bill[b].awaited \in BoxCosts \cup {0}
                       /\ bill[b].credited \in Int /\ bill[b].paid \in Nat
  BY <1>1 DEF BillRows
<1>3. \A c \in BoxCosts \cup {0} : c \in Nat
  BY CostsAreNat
<1>4. \A b \in Makes : /\ bill[b].ordered \in Int /\ bill[b].awaited \in Int
                       /\ bill[b].credited \in Int /\ bill[b].paid \in Int
  BY <1>2, <1>3
<1>5. IsFiniteSet(Makes)
  BY DeskAssumption
<1>6. Ordered \in Int /\ Awaited \in Int /\ Credited \in Int /\ Paid \in Int
  BY <1>4, <1>5, SumFunctionIsInt DEF Ordered, Awaited, Credited, Paid
<1>. QED
  BY <1>4, <1>6

LEMMA SuppliersPaid ==
  ASSUME TradeTyped, BillsPosted
  PROVE  Trading!Entered({"STOCK_PURCHASE"}, Makes, Since)
           + Trading!Entered({"STOCK_PURCHASE"}, Makes, Trading!Months \ Since) = Paid
<1>. DEFINE P == {"STOCK_PURCHASE"}
            f == [b \in Makes |-> Trading!Entered(P, {b}, Trading!Months)]
<1>0. Since \in SUBSET Trading!Months /\ Makes \in SUBSET Makes /\ BookTyped
      /\ P \in SUBSET Trading!Kinds /\ Trading!Months \in SUBSET Trading!Months
  BY SinceIsPart DEF TradeTyped, Trading!Kinds
<1>1. Trading!Entered(P, Makes, Since) + Trading!Entered(P, Makes, Trading!Months \ Since)
        = Trading!Entered(P, Makes, Trading!Months)
  BY <1>0, EnteredSplits
<1>2. Trading!Entered(P, Makes, Trading!Months) = SumFunction(f)
  BY <1>0, EnteredByWallet
<1>3. ASSUME NEW b \in Makes PROVE f[b] = bill[b].paid
  <2>0. {b} \in SUBSET Makes /\ 1 \in Trading!Months /\ 2 \in Trading!Months /\ "STOCK_PURCHASE" \in Trading!Kinds
    BY DEF Trading!Months, Trading!Kinds
  <2>1. Trading!Entered(P, {b}, Trading!Months)
          = (IF 1 \in Trading!Months THEN Trading!Entered(P, {b}, {1}) ELSE 0)
              + (IF 2 \in Trading!Months THEN Trading!Entered(P, {b}, {2}) ELSE 0)
    BY <1>0, <2>0, EnteredByMonth
  <2>2. Trading!Entered(P, {b}, {1}) = book["STOCK_PURCHASE"][b][1]
        /\ Trading!Entered(P, {b}, {2}) = book["STOCK_PURCHASE"][b][2]
    BY <1>0, <2>0, EnteredInCell
  <2>. QED
    BY <2>0, <2>1, <2>2 DEF BillsPosted
<1>4. f = [b \in Makes |-> bill[b].paid]
  BY <1>3
<1>. HIDE DEF f
<1>. QED
  BY <1>1, <1>2, <1>4 DEF Paid

(* supplierDue and supplierOutstanding: what was billed, less what went     *)
(* back and what was paid.                                                 *)
LEMMA SuppliersAreOwed ==
  ASSUME TradeTyped
  PROVE  /\ Trading!supplierDue = Ordered - Credited - Paid
         /\ Trading!supplierOutstanding = IF Ordered - Credited - Paid > 0 THEN Ordered - Credited - Paid ELSE 0
         /\ Trading!supplierDue \in Int
<1>. DEFINE o == [b \in Makes |-> bill[b].ordered]
            c == [b \in Makes |-> bill[b].credited]
            p == [b \in Makes |-> bill[b].paid]
            d == [b \in Makes |-> o[b] - c[b]]
            e == [b \in Makes |-> d[b] - p[b]]
<1>1. o \in [Makes -> Int] /\ c \in [Makes -> Int] /\ p \in [Makes -> Int]
  BY BillFields
<1>2. d \in [Makes -> Int] /\ e \in [Makes -> Int]
  <2>. HIDE DEF o, c, p
  <2>1. d \in [Makes -> Int]
    BY <1>1
  <2>. HIDE DEF d
  <2>. QED
    BY <1>1, <2>1
<1>3. \A b \in Makes : e[b] = Trading!supplierSummaries[b].outstanding
  BY DEF Trading!supplierSummaries, Trading!Outstanding
<1>4. \A b \in Makes : e[b] = bill[b].ordered - bill[b].credited - bill[b].paid
  OBVIOUS
<1>5. Trading!supplierDue = SumFunction([b \in Makes |-> Trading!supplierSummaries[b].outstanding])
  BY TradeSums DEF Trading!supplierDue, Trading!Sum
<1>6. e = [b \in Makes |-> Trading!supplierSummaries[b].outstanding]
  <2>. HIDE DEF d, p
  <2>. QED
    BY <1>3
<1>7. SumFunction(o) = Ordered /\ SumFunction(c) = Credited /\ SumFunction(p) = Paid
  BY DEF Ordered, Credited, Paid
<1>. HIDE DEF o, c, p
<1>8. SumFunction(d) = SumFunction(o) - SumFunction(c)
  BY <1>1, DeskAssumption, SumOfDifferences
<1>. HIDE DEF d
<1>9. SumFunction(e) = SumFunction(d) - SumFunction(p)
  BY <1>1, <1>2, DeskAssumption, SumOfDifferences
<1>. HIDE DEF e
<1>10. Trading!supplierDue = Ordered - Credited - Paid
  BY <1>5, <1>6, <1>7, <1>8, <1>9
<1>11. /\ Trading!Sum(Makes, LAMBDA b : bill[b]["ordered"]) = Ordered
       /\ Trading!Sum(Makes, LAMBDA b : bill[b]["credited"]) = Credited
       /\ Trading!Sum(Makes, LAMBDA b : bill[b]["paid"]) = Paid
  BY TradeSums DEF Trading!Sum, Ordered, Credited, Paid
<1>12. Trading!supplierOutstanding = Trading!Max0(Ordered - Credited - Paid)
  BY <1>11 DEF Trading!supplierOutstanding
<1>. QED
  BY <1>10, <1>12, BillFields DEF Trading!Max0

(* Sums over the live sales of some months, as sums over every slot. *)
Sold(x, W) == trade[x].st = "LIVE" /\ trade[x].at \in W
Brought(x) == Price - trade[x].off
LEMMA SoldRow ==
  ASSUME TradeTyped, NEW W \in SUBSET Trading!Months
  PROVE  /\ Trading!SoldIn(W) = {x \in Tills : Sold(x, W)}
         /\ Trading!SoldIn(W) \in SUBSET Trading!Live /\ Trading!Live \in SUBSET Tills
         /\ IsFiniteSet(Trading!SoldIn(W)) /\ IsFiniteSet(Trading!Live)
         /\ Trading!Live = {x \in Tills : trade[x].st = "LIVE"}
         /\ \A x \in Trading!Live :
              /\ Brought(x) \in Nat /\ trade[x].off \in 0..1 /\ trade[x].at \in Trading!Months
              /\ trade[x].brand \in Makes /\ trade[x].rep \in Reps \cup {"direct"}
              /\ trade[x].posted \in Makes \cup {"no"} /\ trade[x].unitCost \in Nat
              /\ trade[x].type \in {"CASH", "CREDIT"}
              /\ Trading!LineCost(x) \in Nat
<1>1. Trading!Live = {x \in Tills : trade[x].st = "LIVE"}
  BY DEF Trading!Live
<1>2. Trading!SoldIn(W) = {x \in Tills : Sold(x, W)}
  BY <1>1 DEF Trading!SoldIn, Sold
<1>3. ASSUME NEW x \in Trading!Live
      PROVE  /\ Brought(x) \in Nat /\ trade[x].off \in 0..1 /\ trade[x].at \in Trading!Months
             /\ trade[x].brand \in Makes /\ trade[x].rep \in Reps \cup {"direct"}
             /\ trade[x].posted \in Makes \cup {"no"} /\ trade[x].unitCost \in Nat
             /\ trade[x].type \in {"CASH", "CREDIT"}
             /\ Trading!LineCost(x) \in Nat
  <2>1. x \in Tills /\ trade[x].st = "LIVE"
    BY <1>1
  <2>2. cost[trade[x].brand] \in Nat
    BY <2>1, LiveRow DEF TradeTyped, GoodsTyped
  <2>. QED
    BY <2>1, <2>2, LiveRow DEF Trading!LineCost, Brought
<1>4. Trading!SoldIn(W) \in SUBSET Trading!Live /\ Trading!Live \in SUBSET Tills
  BY <1>1, <1>2 DEF Sold
<1>. QED
  BY <1>1, <1>2, <1>3, <1>4, DeskAssumption, FS_Subset

(* The rows of the sales made in a month, over all wallets, are its live    *)
(* sales that were entered.                                                *)
EnteredSale(x, W) == Sold(x, W) /\ trade[x].posted # "no"
LEMMA MonthPosted ==
  ASSUME TradeTyped, SalesPosted, NEW t \in Trading!Months
  PROVE  Trading!Entered({"SALE"}, Makes, {t})
           = SumFunction([x \in Tills |-> IF EnteredSale(x, {t}) THEN Brought(x) ELSE 0])
<1>. DEFINE f == [b \in Makes |-> Trading!Entered({"SALE"}, {b}, {t})]
            g == [b \in Makes |-> PostedIn(b, t)]
            col == [x \in Tills |-> SumFunction([b \in Makes |-> g[b][x]])]
<1>0. BookTyped /\ {"SALE"} \in SUBSET Trading!Kinds /\ Makes \in SUBSET Makes /\ {t} \in SUBSET Trading!Months
      /\ "SALE" \in Trading!Kinds
  BY DEF TradeTyped, Trading!Kinds
<1>1. Trading!Entered({"SALE"}, Makes, {t}) = SumFunction(f)
  BY <1>0, EnteredByWallet
<1>2. \A b \in Makes : f[b] = SumFunction(PostedIn(b, t))
  BY <1>0, EnteredInCell DEF SalesPosted
<1>3. f = [b \in Makes |-> SumFunction(g[b])]
  BY <1>2
<1>4. g \in [Makes -> [Tills -> Int]]
  BY PostedIsNat
<1>5. \A b \in Makes, x \in Tills : g[b][x] = Taken(trade[x], b, t)
  BY PostedIsNat
<1>. HIDE DEF g
<1>6. SumFunction([b \in Makes |-> SumFunction(g[b])]) = SumFunction(col)
  <2>1. IsFiniteSet(Makes) /\ IsFiniteSet(Tills)
    BY DeskAssumption
  <2>. QED
    BY ONLY <1>4, <2>1, SumExchange
<1>7. ASSUME NEW x \in Tills PROVE col[x] = IF EnteredSale(x, {t}) THEN Brought(x) ELSE 0
  <2>. DEFINE r == [b \in Makes |-> g[b][x]]
  <2>1. DOMAIN r = Makes /\ \A b \in Makes : r[b] = Taken(trade[x], b, t) /\ r[b] \in Int
    BY <1>4, <1>5
  <2>2. col[x] = SumFunction(r)
    OBVIOUS
  <2>. HIDE DEF r
  <2>3. CASE EnteredSale(x, {t})
    <3>1. trade[x].st = "LIVE" /\ trade[x].at = t /\ trade[x].posted \in Makes
      BY <2>3, LiveRow DEF EnteredSale, Sold
    <3>2. \A b \in Makes \ {trade[x].posted} : r[b] = 0
      BY <2>1, <3>1 DEF Taken
    <3>3. r[trade[x].posted] = Brought(x)
      BY <2>1, <3>1 DEF Taken, Brought
    <3>4. SumFunction(r) = r[trade[x].posted]
      BY <2>1, <3>1, <3>2, DeskAssumption, SumOfSingle
    <3>. QED
      BY <2>2, <2>3, <3>3, <3>4
  <2>4. CASE ~EnteredSale(x, {t})
    <3>1. \A b \in Makes : r[b] = 0
      <4>. SUFFICES ASSUME NEW b \in Makes, r[b] # 0 PROVE FALSE
        OBVIOUS
      <4>1. trade[x].st = "LIVE" /\ trade[x].posted = b /\ trade[x].at = t
        BY <2>1 DEF Taken
      <4>. QED
        BY <2>4, <4>1, DeskAssumption DEF EnteredSale, Sold
    <3>2. SumFunction(r) = 0
      BY <2>1, <3>1, DeskAssumption, SumOfZeros
    <3>. QED
      BY <2>2, <2>4, <3>2
  <2>. QED
    BY <2>3, <2>4
<1>8. col = [x \in Tills |-> IF EnteredSale(x, {t}) THEN Brought(x) ELSE 0]
  BY <1>7
<1>. HIDE DEF f, col
<1>. QED
  BY <1>1, <1>3, <1>6, <1>8

LEMMA SalesEntered ==
  ASSUME TradeTyped, SalesPosted, NEW W \in SUBSET Trading!Months
  PROVE  Trading!Entered({"SALE"}, Makes, W)
           = SumFunction([x \in Tills |-> IF EnteredSale(x, W) THEN Brought(x) ELSE 0])
<1>. DEFINE f(V) == [x \in Tills |-> IF EnteredSale(x, V) THEN Brought(x) ELSE 0]
            E(V) == Trading!Entered({"SALE"}, Makes, V)
            A == IF 1 \in W THEN {1} ELSE {}
            B == IF 2 \in W THEN {2} ELSE {}
            fA == f(A)  fB == f(B)
<1>0. BookTyped /\ {"SALE"} \in SUBSET Trading!Kinds /\ Makes \in SUBSET Makes
      /\ 1 \in Trading!Months /\ 2 \in Trading!Months /\ \A t \in Trading!Months : t = 1 \/ t = 2
  BY DEF TradeTyped, Trading!Kinds, Trading!Months
<1>1. \A V : f(V) \in [Tills -> Int]
  <2>. SUFFICES ASSUME NEW V, NEW x \in Tills PROVE (IF EnteredSale(x, V) THEN Brought(x) ELSE 0) \in Int
    OBVIOUS
  <2>. QED
    BY LiveRow DEF EnteredSale, Sold, Brought
<1>2. SumFunction(f({})) = 0
  <2>. DEFINE z == f({})
  <2>1. DOMAIN z = Tills /\ \A x \in Tills : z[x] = 0
    BY DEF EnteredSale, Sold
  <2>. HIDE DEF z
  <2>2. SumFunction(z) = 0
    BY <2>1, DeskAssumption, SumOfZeros
  <2>. QED
    BY <2>2 DEF z
<1>3. E({1}) = SumFunction(f({1})) /\ E({2}) = SumFunction(f({2}))
  BY <1>0, MonthPosted
<1>4. E(W) = (IF 1 \in W THEN E({1}) ELSE 0) + (IF 2 \in W THEN E({2}) ELSE 0)
  BY <1>0, EnteredByMonth
<1>5. E(W) = SumFunction(fA) + SumFunction(fB)
  <2>. HIDE DEF f, E
  <2>. QED
    BY <1>2, <1>3, <1>4
<1>6. [x \in Tills |-> fA[x] + fB[x]] = f(W)
  <2>1. ASSUME NEW x \in Tills
        PROVE  fA[x] + fB[x] = IF EnteredSale(x, W) THEN Brought(x) ELSE 0
    <3>1. CASE trade[x].st = "LIVE" /\ trade[x].posted # "no"
      <4>1. trade[x].at \in Trading!Months /\ Brought(x) \in Nat
        BY <3>1, LiveRow DEF Brought
      <4>2. trade[x].at = 1 \/ trade[x].at = 2
        BY <1>0, <4>1
      <4>. QED
        BY <3>1, <4>1, <4>2 DEF EnteredSale, Sold
    <3>2. CASE ~(trade[x].st = "LIVE" /\ trade[x].posted # "no")
      BY <3>2 DEF EnteredSale, Sold
    <3>. QED
      BY <3>1, <3>2
  <2>. QED
    BY <2>1
<1>7. fA \in [Tills -> Int] /\ fB \in [Tills -> Int]
  BY <1>1
<1>. HIDE DEF fA, fB, A, B
<1>8. SumFunction([x \in Tills |-> fA[x] + fB[x]]) = SumFunction(fA) + SumFunction(fB)
  BY <1>7, DeskAssumption, SumOfSums
<1>. QED
  BY <1>5, <1>6, <1>8

(* What some sales brought in, and what their boxes cost. *)
Net(S) == SumFunction([x \in S |-> Brought(x)])
CostsOf(S) == SumFunction([x \in S |-> Trading!LineCost(x)])
LEMMA SalesHaveSums ==
  ASSUME TradeTyped, NEW S \in SUBSET Trading!Live
  PROVE  /\ S \in SUBSET Tills /\ IsFiniteSet(S)
         /\ Net(S) \in Int /\ CostsOf(S) \in Int
         /\ Net(S) = SumFunction([x \in Tills |-> IF x \in S THEN Brought(x) ELSE 0])
         /\ CostsOf(S) = SumFunction([x \in Tills |-> IF x \in S THEN Trading!LineCost(x) ELSE 0])
<1>. DEFINE n == [x \in S |-> Brought(x)]  c == [x \in S |-> Trading!LineCost(x)]
<1>0. {} \in SUBSET Trading!Months
  OBVIOUS
<1>1. S \in SUBSET Tills /\ IsFiniteSet(S) /\ \A x \in S : Brought(x) \in Int /\ Trading!LineCost(x) \in Int
  BY <1>0, SoldRow, FS_Subset
<1>2. n \in [S -> Int] /\ c \in [S -> Int] /\ DOMAIN n = S /\ DOMAIN c = S
  BY <1>1
<1>3. [x \in Tills |-> IF x \in S THEN n[x] ELSE 0] = [x \in Tills |-> IF x \in S THEN Brought(x) ELSE 0]
      /\ [x \in Tills |-> IF x \in S THEN c[x] ELSE 0] = [x \in Tills |-> IF x \in S THEN Trading!LineCost(x) ELSE 0]
  OBVIOUS
<1>4. Net(S) = SumFunction(n) /\ CostsOf(S) = SumFunction(c)
  BY DEF Net, CostsOf
<1>. HIDE DEF n, c
<1>5. SumFunction(n) = SumFunction([x \in Tills |-> IF x \in S THEN n[x] ELSE 0])
      /\ SumFunction(c) = SumFunction([x \in Tills |-> IF x \in S THEN c[x] ELSE 0])
  BY <1>1, <1>2, DeskAssumption, SumOverPart
<1>6. SumFunction(n) \in Int /\ SumFunction(c) \in Int
  BY <1>1, <1>2, SumFunctionIsInt
<1>. QED
  BY <1>1, <1>3, <1>4, <1>5, <1>6

LEMMA ProfitOfSales ==
  ASSUME TradeTyped, NEW S \in SUBSET Trading!Live
  PROVE  /\ Trading!Profit(S).revenue = Net(S) /\ Trading!Profit(S).cost = CostsOf(S)
         /\ Trading!Profit(S).profit = Net(S) - CostsOf(S)
<1>1. Trading!Sum(S, LAMBDA x : Trading!lineFinancials(x).revenue) = Net(S)
  <2>1. [x \in S |-> Trading!lineFinancials(x).revenue] = [x \in S |-> Brought(x)]
    BY DEF Trading!lineFinancials, Brought
  <2>. QED
    BY <2>1, TradeSums DEF Trading!Sum, Net
<1>2. Trading!Sum(S, LAMBDA x : Trading!lineFinancials(x).cost) = CostsOf(S)
  <2>1. [x \in S |-> Trading!lineFinancials(x).cost] = [x \in S |-> Trading!LineCost(x)]
    BY DEF Trading!lineFinancials
  <2>. QED
    BY <2>1, TradeSums DEF Trading!Sum, CostsOf
<1>. QED
  BY <1>1, <1>2 DEF Trading!Profit

(* Money is entered for every live sale, or is counted as missing. *)
Unentered(W) == {x \in Trading!SoldIn(W) : trade[x].posted = "no"}
LEMMA NetIsEntered ==
  ASSUME TradeTyped, SalesPosted, NEW W \in SUBSET Trading!Months
  PROVE  Trading!Entered({"SALE"}, Makes, W) + Net(Unentered(W)) = Net(Trading!SoldIn(W))
<1>. DEFINE a == [x \in Tills |-> IF EnteredSale(x, W) THEN Brought(x) ELSE 0]
            b == [x \in Tills |-> IF x \in Unentered(W) THEN Brought(x) ELSE 0]
            c == [x \in Tills |-> IF x \in Trading!SoldIn(W) THEN Brought(x) ELSE 0]
<1>1. Trading!SoldIn(W) \in SUBSET Trading!Live /\ Unentered(W) \in SUBSET Trading!Live
      /\ Trading!SoldIn(W) = {x \in Tills : Sold(x, W)}
  BY SoldRow DEF Unentered
<1>2. \A x \in Trading!Live : Brought(x) \in Int
  <2>1. \A x \in Trading!Live : Brought(x) \in Nat
    BY SoldRow
  <2>. QED
    BY <2>1
<1>3. Trading!Entered({"SALE"}, Makes, W) = SumFunction(a)
  BY SalesEntered
<1>4. Net(Unentered(W)) = SumFunction(b) /\ Net(Trading!SoldIn(W)) = SumFunction(c)
  BY <1>1, SalesHaveSums
<1>5. \A x \in Tills : EnteredSale(x, W) <=> x \in Trading!SoldIn(W) /\ x \notin Unentered(W)
  BY <1>1 DEF EnteredSale, Unentered
<1>6. a \in [Tills -> Int] /\ b \in [Tills -> Int]
  BY <1>1, <1>2, <1>5
<1>7. [x \in Tills |-> a[x] + b[x]] = c
  <2>1. ASSUME NEW x \in Tills
        PROVE  a[x] + b[x] = IF x \in Trading!SoldIn(W) THEN Brought(x) ELSE 0
    <3>1. x \in Unentered(W) => x \in Trading!SoldIn(W)
      BY DEF Unentered
    <3>2. x \in Trading!SoldIn(W) => Brought(x) \in Int
      BY <1>1, <1>2
    <3>. QED
      BY <1>5, <3>1, <3>2
  <2>. QED
    BY <2>1
<1>. HIDE DEF a, b, c
<1>8. SumFunction([x \in Tills |-> a[x] + b[x]]) = SumFunction(a) + SumFunction(b)
  BY <1>6, DeskAssumption, SumOfSums
<1>. QED
  BY <1>3, <1>4, <1>7, <1>8

(* The costs of the live sales, brand by brand, and before and after a date. *)
CostsByBrand == SumFunction([b \in Makes |-> SumFunction(CostsIn(b))])
LEMMA CostsAddUp ==
  ASSUME TradeTyped, NEW W \in SUBSET Trading!Months
  PROVE  CostsByBrand = CostsOf(Trading!SoldIn(W)) + CostsOf(Trading!SoldIn(Trading!Months \ W))
<1>. DEFINE g == [b \in Makes |-> CostsIn(b)]
            col == [x \in Tills |-> SumFunction([b \in Makes |-> g[b][x]])]
            In(V) == [x \in Tills |-> IF x \in Trading!SoldIn(V) THEN Trading!LineCost(x) ELSE 0]
            now == In(W)
            then == In(Trading!Months \ W)
<1>0. Trading!Months \ W \in SUBSET Trading!Months
  OBVIOUS
<1>1. g \in [Makes -> [Tills -> Int]] /\ \A b \in Makes, x \in Tills : g[b][x] = CostOf(trade[x], b, cost[b])
  BY CostsAreInt
<1>2. [b \in Makes |-> SumFunction(CostsIn(b))] = [b \in Makes |-> SumFunction(g[b])]
  OBVIOUS
<1>. HIDE DEF g
<1>3. SumFunction([b \in Makes |-> SumFunction(g[b])]) = SumFunction(col)
  <2>1. IsFiniteSet(Makes) /\ IsFiniteSet(Tills)
    BY DeskAssumption
  <2>. QED
    BY ONLY <1>1, <2>1, SumExchange
<1>4. \A x \in Trading!Live : Trading!LineCost(x) \in Int /\ trade[x].at \in Trading!Months
  BY SoldRow
<1>5. /\ Trading!SoldIn(W) = {x \in Tills : Sold(x, W)}
      /\ Trading!SoldIn(Trading!Months \ W) = {x \in Tills : Sold(x, Trading!Months \ W)}
      /\ Trading!Live = {x \in Tills : trade[x].st = "LIVE"}
      /\ Trading!SoldIn(W) \in SUBSET Trading!Live /\ Trading!SoldIn(Trading!Months \ W) \in SUBSET Trading!Live
  BY <1>0, SoldRow
<1>6. now \in [Tills -> Int] /\ then \in [Tills -> Int]
  BY <1>4, <1>5
<1>7. ASSUME NEW x \in Tills
      PROVE  col[x] = IF x \in Trading!Live THEN Trading!LineCost(x) ELSE 0
  <2>. DEFINE r == [b \in Makes |-> g[b][x]]
  <2>1. DOMAIN r = Makes /\ \A b \in Makes : r[b] = CostOf(trade[x], b, cost[b]) /\ r[b] \in Int
    BY <1>1
  <2>2. col[x] = SumFunction(r)
    OBVIOUS
  <2>. HIDE DEF r, col
  <2>3. CASE x \in Trading!Live
    <3>1. trade[x].st = "LIVE" /\ trade[x].brand \in Makes
      BY <1>5, <2>3, LiveRow
    <3>2. \A b \in Makes \ {trade[x].brand} : r[b] = 0
      BY <2>1, <3>1 DEF CostOf
    <3>3. r[trade[x].brand] = Trading!LineCost(x)
      BY <2>1, <3>1 DEF CostOf, Trading!LineCost
    <3>4. SumFunction(r) = r[trade[x].brand]
      BY <2>1, <3>1, <3>2, DeskAssumption, SumOfSingle
    <3>. QED
      BY <2>2, <2>3, <3>3, <3>4
  <2>4. CASE x \notin Trading!Live
    <3>1. \A b \in Makes : r[b] = 0
      BY <1>5, <2>1, <2>4 DEF CostOf
    <3>2. SumFunction(r) = 0
      BY <2>1, <3>1, DeskAssumption, SumOfZeros
    <3>. QED
      BY <2>2, <2>4, <3>2
  <2>. QED
    BY <2>3, <2>4
<1>8. [x \in Tills |-> now[x] + then[x]] = col
  <2>1. ASSUME NEW x \in Tills PROVE now[x] + then[x] = col[x]
    <3>1. x \in Trading!Live <=> x \in Trading!SoldIn(W) \/ x \in Trading!SoldIn(Trading!Months \ W)
      BY <1>4, <1>5 DEF Sold
    <3>2. ~(x \in Trading!SoldIn(W) /\ x \in Trading!SoldIn(Trading!Months \ W))
      BY <1>5 DEF Sold
    <3>3. x \in Trading!Live => Trading!LineCost(x) \in Int
      BY <1>4
    <3>4. now[x] = (IF x \in Trading!SoldIn(W) THEN Trading!LineCost(x) ELSE 0)
          /\ then[x] = (IF x \in Trading!SoldIn(Trading!Months \ W) THEN Trading!LineCost(x) ELSE 0)
      OBVIOUS
    <3>. HIDE DEF now, then, col
    <3>. QED
      BY <1>7, <3>1, <3>2, <3>3, <3>4
  <2>2. DOMAIN col = Tills /\ col = [x \in Tills |-> col[x]]
    OBVIOUS
  <2>. HIDE DEF now, then, col
  <2>. QED
    BY <2>1, <2>2
<1>9. CostsOf(Trading!SoldIn(W)) = SumFunction(now)
      /\ CostsOf(Trading!SoldIn(Trading!Months \ W)) = SumFunction(then)
  BY <1>5, SalesHaveSums
<1>. HIDE DEF now, then, col
<1>10. SumFunction([x \in Tills |-> now[x] + then[x]]) = SumFunction(now) + SumFunction(then)
  BY <1>6, DeskAssumption, SumOfSums
<1>. QED
  BY <1>2, <1>3, <1>8, <1>9, <1>10 DEF CostsByBrand

(* The stock at today's prices. *)
AtPrice == SumFunction([b \in Makes |-> Trading!Stocked(b) * cost[b]])
LEMMA ShelfAndHands ==
  ASSUME NEW s \in Int, NEW h1 \in Int, NEW c \in Int
  PROVE  s * c + ((s + h1) - s) * c = (s + h1) * c
<1>1. (s + h1) - s = h1
  OBVIOUS
<1>2. c * s + c * h1 = c * (s + h1)
  BY FactorOut
<1>. QED
  BY <1>1, <1>2

LEMMA ValuationIsStock ==
  ASSUME TradeTyped
  PROVE  Trading!valuation.total = AtPrice /\ AtPrice \in Int
<1>. DEFINE s == [b \in Makes |-> shelf[b] * cost[b]]
            o == [b \in Makes |-> (Trading!Stocked(b) - shelf[b]) * cost[b]]
            t == [b \in Makes |-> Trading!Stocked(b) * cost[b]]
            held1 == [b \in Makes |-> Trading!Stocked(b) - shelf[b]]
<1>1. ASSUME NEW b \in Makes
      PROVE  /\ shelf[b] * cost[b] \in Int /\ (Trading!Stocked(b) - shelf[b]) * cost[b] \in Int
             /\ Trading!Stocked(b) * cost[b] \in Int
             /\ shelf[b] * cost[b] + (Trading!Stocked(b) - shelf[b]) * cost[b] = Trading!Stocked(b) * cost[b]
  <2>1. shelf[b] \in Nat /\ cost[b] \in Nat
    BY DEF TradeTyped, GoodsTyped
  <2>2. Trading!Stocked(b) = shelf[b] + SumFunction(InHands(b)) /\ SumFunction(InHands(b)) \in Nat
        /\ Trading!Stocked(b) \in Nat
    BY StockedIsSum
  <2>3. shelf[b] * cost[b] + ((shelf[b] + SumFunction(InHands(b))) - shelf[b]) * cost[b]
          = (shelf[b] + SumFunction(InHands(b))) * cost[b]
    BY <2>1, <2>2, ShelfAndHands
  <2>. QED
    BY <2>1, <2>2, <2>3
<1>2. s \in [Makes -> Int] /\ o \in [Makes -> Int] /\ t \in [Makes -> Int]
  BY <1>1
<1>3. [b \in Makes |-> s[b] + o[b]] = t
  BY <1>1
<1>4. Trading!Sum(Makes, LAMBDA b : shelf[b] * cost[b]) = SumFunction(s)
  BY TradeSums DEF Trading!Sum
<1>5. Trading!Sum(Makes, LAMBDA b : held1[b] * cost[b]) = SumFunction(o)
  <2>1. [b \in Makes |-> held1[b] * cost[b]] = o
    OBVIOUS
  <2>. QED
    BY <2>1, TradeSums DEF Trading!Sum
<1>6. Trading!valuation.total = SumFunction(s) + SumFunction(o)
  BY <1>4, <1>5 DEF Trading!valuation
<1>7. AtPrice = SumFunction(t)
  BY DEF AtPrice
<1>. HIDE DEF s, o, t
<1>8. SumFunction([b \in Makes |-> s[b] + o[b]]) = SumFunction(s) + SumFunction(o)
  BY <1>2, DeskAssumption, SumOfSums
<1>9. SumFunction(t) \in Int
  BY <1>2, DeskAssumption, SumFunctionIsInt
<1>. QED
  BY <1>3, <1>6, <1>7, <1>8, <1>9

(* BoxesCosted, in totals. *)
LEMMA BoxesInTotals ==
  ASSUME TradeTyped, BoxesCosted
  PROVE  Ordered - Awaited - AtPrice - CostsByBrand = written /\ CostsByBrand \in Int
<1>. DEFINE o == [b \in Makes |-> bill[b].ordered]
            a == [b \in Makes |-> bill[b].awaited]
            p == [b \in Makes |-> Trading!Stocked(b) * cost[b]]
            c == [b \in Makes |-> SumFunction(CostsIn(b))]
            d == [b \in Makes |-> o[b] - a[b]]
            e == [b \in Makes |-> d[b] - p[b]]
            l == [b \in Makes |-> e[b] - c[b]]
<1>1. ASSUME NEW b \in Makes
      PROVE  Trading!Stocked(b) * cost[b] \in Int /\ SumFunction(CostsIn(b)) \in Int
  BY LostIsInt
<1>2. o \in [Makes -> Int] /\ a \in [Makes -> Int] /\ p \in [Makes -> Int] /\ c \in [Makes -> Int]
  BY <1>1, BillFields
<1>3. \A b \in Makes : o[b] = bill[b].ordered /\ a[b] = bill[b].awaited
                       /\ p[b] = Trading!Stocked(b) * cost[b] /\ c[b] = SumFunction(CostsIn(b))
  OBVIOUS
<1>4. SumFunction(o) = Ordered /\ SumFunction(a) = Awaited /\ SumFunction(p) = AtPrice
      /\ SumFunction(c) = CostsByBrand
  BY DEF Ordered, Awaited, AtPrice, CostsByBrand
<1>. HIDE DEF o, a, p, c
<1>5. \A b \in Makes : l[b] = Lost(b)
  BY <1>3 DEF Lost
<1>6. Losses = l
  <2>. HIDE DEF l
  <2>1. \A b \in Makes : l[b] = Lost(b)
    BY <1>5
  <2>2. l = [b \in Makes |-> l[b]]
    BY DEF l
  <2>. QED
    BY <2>1, <2>2 DEF Losses
<1>7. d \in [Makes -> Int]
  BY <1>2
<1>8. SumFunction(d) = SumFunction(o) - SumFunction(a)
  BY <1>2, DeskAssumption, SumOfDifferences
<1>. HIDE DEF d
<1>9. e \in [Makes -> Int]
  BY <1>2, <1>7
<1>10. SumFunction(e) = SumFunction(d) - SumFunction(p)
  BY <1>2, <1>7, DeskAssumption, SumOfDifferences
<1>. HIDE DEF e
<1>11. SumFunction(l) = SumFunction(e) - SumFunction(c)
  BY <1>2, <1>9, DeskAssumption, SumOfDifferences
<1>12. SumFunction(c) \in Int
  BY <1>2, DeskAssumption, SumFunctionIsInt
<1>. HIDE DEF l
<1>. QED
  BY <1>4, <1>6, <1>8, <1>10, <1>11, <1>12 DEF BoxesCosted

(* What the reps earned and were fined. *)
EarnedByAll == SumFunction([r \in Reps |-> Trading!Earned(r)])
FinedAll == SumFunction([r \in Reps |-> fined[r]])
LEMMA AvailableIsInt ==
  ASSUME TradeTyped, NEW r \in Reps
  PROVE  /\ Trading!Earned(r) \in Int /\ draw[r].PENDING \in Nat /\ draw[r].APPROVED \in Nat
         /\ draw[r].PAID \in Nat /\ fined[r] \in Nat /\ Trading!Available(r) \in Int
         /\ Trading!Available(r) + draw[r].PENDING + draw[r].APPROVED
              = Trading!Earned(r) - draw[r].PAID - fined[r]
<1>. DEFINE S == {x \in Trading!Live : trade[x].rep = r}
<1>0. {} \in SUBSET Trading!Months
  OBVIOUS
<1>1. IsFiniteSet(S)
  BY <1>0, SoldRow, FS_Subset
<1>2. Cardinality(S) \in Nat
  BY <1>1, FS_CardinalityType
<1>3. Trading!Earned(r) = Rate * Cardinality(S)
  BY TradeCounts DEF Trading!Earned
<1>4. Trading!Earned(r) \in Int
  <2>1. Rate \in Nat
    BY DeskAssumption
  <2>. QED
    BY <1>2, <1>3, <2>1
<1>5. draw[r] \in DrawRows /\ fined[r] \in Nat
  BY DEF TradeTyped, RepsTyped
<1>6. draw[r].PENDING \in Nat /\ draw[r].APPROVED \in Nat /\ draw[r].PAID \in Nat
  BY <1>5 DEF DrawRows
<1>7. Trading!Available(r)
        = Trading!Earned(r) - draw[r].PENDING - draw[r].APPROVED - draw[r].PAID - fined[r]
  BY Zenon DEF Trading!Available
<1>. QED
  BY <1>4, <1>5, <1>6, <1>7

LEMMA RepsAreOwed ==
  ASSUME TradeTyped
  PROVE  /\ Trading!repCommissionPayable + Trading!RepsUnseen
              = EarnedByAll - SumFunction(Drawn) - FinedAll
         /\ Trading!repCommissionPayable \in Int /\ Trading!RepsUnseen \in Int
         /\ EarnedByAll \in Int /\ SumFunction(Drawn) \in Int /\ FinedAll \in Int
<1>. DEFINE A(r) == Trading!Available(r)
            off == Reps \ staff
            owing == {r \in staff : A(r) < 0}
            av == [r \in staff |-> Trading!Max0(A(r))]
            rq == [r \in staff |-> draw[r].PENDING]
            un == [r \in off |-> A(r) + draw[r].PENDING]
            ow == [r \in owing |-> A(r)]
            avAll == [r \in Reps |-> IF r \in staff THEN av[r] ELSE 0]
            rqAll == [r \in Reps |-> IF r \in staff THEN rq[r] ELSE 0]
            unAll == [r \in Reps |-> IF r \in off THEN un[r] ELSE 0]
            owAll == [r \in Reps |-> IF r \in owing THEN ow[r] ELSE 0]
            ap == [r \in Reps |-> draw[r].APPROVED]
            ea == [r \in Reps |-> Trading!Earned(r)]
            pd == [r \in Reps |-> draw[r].PAID]
            fi == [r \in Reps |-> fined[r]]
            one == [r \in Reps |-> avAll[r] + rqAll[r]]
            two == [r \in Reps |-> one[r] + ap[r]]
            three == [r \in Reps |-> unAll[r] + owAll[r]]
            four == [r \in Reps |-> two[r] + three[r]]
            less == [r \in Reps |-> ea[r] - pd[r]]
            left == [r \in Reps |-> less[r] - fi[r]]
<1>0. staff \in SUBSET Reps /\ owing \in SUBSET Reps /\ off \in SUBSET Reps /\ IsFiniteSet(Reps)
  BY DeskAssumption DEF TradeTyped, OwnerTyped
<1>1. \A r \in Reps :
        /\ Trading!Earned(r) \in Int /\ draw[r].PENDING \in Nat /\ draw[r].APPROVED \in Nat
        /\ draw[r].PAID \in Nat /\ fined[r] \in Nat /\ A(r) \in Int
        /\ A(r) + draw[r].PENDING + draw[r].APPROVED = Trading!Earned(r) - draw[r].PAID - fined[r]
  BY AvailableIsInt
<1>2. /\ Trading!summaryAllReps.available = SumFunction(av)
      /\ Trading!summaryAllReps.requested = SumFunction(rq)
  BY TradeSums DEF Trading!summaryAllReps, Trading!Sum
<1>3. Trading!repCommissionPayable = SumFunction(av) + SumFunction(rq) + SumFunction(ap)
  BY <1>2, TradeSums DEF Trading!repCommissionPayable, Trading!Sum
<1>4. Trading!RepsUnseen = SumFunction(un) + SumFunction(ow)
  BY TradeSums DEF Trading!RepsUnseen, Trading!Sum
<1>5. EarnedByAll = SumFunction(ea) /\ FinedAll = SumFunction(fi) /\ SumFunction(Drawn) = SumFunction(pd)
  BY DEF EarnedByAll, FinedAll, Drawn
<1>. HIDE DEF A
<1>6. /\ av \in [staff -> Int] /\ rq \in [staff -> Int] /\ un \in [off -> Int]
      /\ ow \in [owing -> Int]
  BY <1>0, <1>1 DEF Trading!Max0
<1>7. /\ ap \in [Reps -> Int] /\ ea \in [Reps -> Int] /\ pd \in [Reps -> Int] /\ fi \in [Reps -> Int]
  BY <1>1
<1>8. \A r \in Reps :
        /\ avAll[r] = IF r \in staff THEN Trading!Max0(A(r)) ELSE 0
        /\ rqAll[r] = IF r \in staff THEN draw[r].PENDING ELSE 0
        /\ unAll[r] = IF r \in off THEN A(r) + draw[r].PENDING ELSE 0
        /\ owAll[r] = IF r \in owing THEN A(r) ELSE 0
        /\ ap[r] = draw[r].APPROVED /\ ea[r] = Trading!Earned(r)
        /\ pd[r] = draw[r].PAID /\ fi[r] = fined[r]
        /\ r \in owing <=> r \in staff /\ A(r) < 0
  BY <1>0
<1>9. /\ SumFunction(av) = SumFunction(avAll) /\ SumFunction(rq) = SumFunction(rqAll)
      /\ SumFunction(un) = SumFunction(unAll) /\ SumFunction(ow) = SumFunction(owAll)
  <2>. HIDE DEF av, rq, un, ow, owing, off
  <2>1. SumFunction(av) = SumFunction(avAll)
    BY <1>0, <1>6, SumOverPart
  <2>2. SumFunction(rq) = SumFunction(rqAll)
    BY <1>0, <1>6, SumOverPart
  <2>3. SumFunction(un) = SumFunction(unAll)
    BY <1>0, <1>6, SumOverPart
  <2>4. SumFunction(ow) = SumFunction(owAll)
    BY <1>0, <1>6, SumOverPart
  <2>. QED
    BY <2>1, <2>2, <2>3, <2>4
<1>10. avAll \in [Reps -> Int] /\ rqAll \in [Reps -> Int] /\ unAll \in [Reps -> Int] /\ owAll \in [Reps -> Int]
  <2>. HIDE DEF av, rq, un, ow, owing
  <2>. QED
    BY <1>6
<1>. HIDE DEF av, rq, un, ow, avAll, rqAll, unAll, owAll, ap, ea, pd, fi, owing
<1>11. SumFunction(one) = SumFunction(avAll) + SumFunction(rqAll) /\ one \in [Reps -> Int]
  BY <1>0, <1>10, SumOfSums
<1>12. \A r \in Reps : one[r] = avAll[r] + rqAll[r]
  OBVIOUS
<1>. HIDE DEF one
<1>13. SumFunction(two) = SumFunction(one) + SumFunction(ap) /\ two \in [Reps -> Int]
  BY <1>0, <1>7, <1>11, SumOfSums
<1>14. \A r \in Reps : two[r] = one[r] + ap[r]
  OBVIOUS
<1>. HIDE DEF two
<1>15. SumFunction(three) = SumFunction(unAll) + SumFunction(owAll) /\ three \in [Reps -> Int]
  BY <1>0, <1>10, SumOfSums
<1>16. \A r \in Reps : three[r] = unAll[r] + owAll[r]
  OBVIOUS
<1>. HIDE DEF three
<1>17. SumFunction(four) = SumFunction(two) + SumFunction(three) /\ four \in [Reps -> Int]
  BY <1>0, <1>13, <1>15, SumOfSums
<1>18. \A r \in Reps : four[r] = two[r] + three[r]
  OBVIOUS
<1>19. four = [r \in Reps |-> four[r]]
  OBVIOUS
<1>. HIDE DEF four
<1>20. SumFunction(less) = SumFunction(ea) - SumFunction(pd) /\ less \in [Reps -> Int]
  BY <1>0, <1>7, SumOfDifferences
<1>21. \A r \in Reps : less[r] = ea[r] - pd[r]
  OBVIOUS
<1>. HIDE DEF less
<1>22. SumFunction(left) = SumFunction(less) - SumFunction(fi) /\ left \in [Reps -> Int]
  BY <1>0, <1>7, <1>20, SumOfDifferences
<1>23. \A r \in Reps : left[r] = less[r] - fi[r]
  OBVIOUS
<1>24. left = [r \in Reps |-> left[r]]
  OBVIOUS
<1>. HIDE DEF left
<1>25. four = left
  <2>1. ASSUME NEW r \in Reps PROVE four[r] = left[r]
    <3>1. four[r] = ((avAll[r] + rqAll[r]) + ap[r]) + (unAll[r] + owAll[r])
      BY <1>12, <1>14, <1>16, <1>18
    <3>2. left[r] = (ea[r] - pd[r]) - fi[r]
      BY <1>21, <1>23
    <3>3. /\ avAll[r] = IF r \in staff THEN Trading!Max0(A(r)) ELSE 0
          /\ rqAll[r] = IF r \in staff THEN draw[r].PENDING ELSE 0
          /\ unAll[r] = IF r \in off THEN A(r) + draw[r].PENDING ELSE 0
          /\ owAll[r] = IF r \in owing THEN A(r) ELSE 0
          /\ ap[r] = draw[r].APPROVED /\ ea[r] = Trading!Earned(r)
          /\ pd[r] = draw[r].PAID /\ fi[r] = fined[r]
          /\ r \in owing <=> r \in staff /\ A(r) < 0
      BY <1>8
    <3>4. /\ Trading!Earned(r) \in Int /\ draw[r].PENDING \in Nat /\ draw[r].APPROVED \in Nat
          /\ draw[r].PAID \in Nat /\ fined[r] \in Nat /\ A(r) \in Int
          /\ A(r) + draw[r].PENDING + draw[r].APPROVED = Trading!Earned(r) - draw[r].PAID - fined[r]
      BY <1>1
    <3>. QED
      BY <3>1, <3>2, <3>3, <3>4 DEF Trading!Max0
  <2>. QED
    BY <1>19, <1>24, <2>1
<1>26. /\ SumFunction(avAll) \in Int /\ SumFunction(rqAll) \in Int /\ SumFunction(unAll) \in Int
       /\ SumFunction(owAll) \in Int /\ SumFunction(ap) \in Int /\ SumFunction(ea) \in Int
       /\ SumFunction(pd) \in Int /\ SumFunction(fi) \in Int
  <2>1. ASSUME NEW f \in [Reps -> Int] PROVE SumFunction(f) \in Int
    BY <1>0, SumFunctionIsInt
  <2>. QED
    BY <1>7, <1>10, <2>1
<1>. QED
  BY <1>3, <1>4, <1>5, <1>9, <1>11, <1>13, <1>15, <1>17, <1>20, <1>22, <1>25, <1>26

-----------------------------------------------------------------------------
(* The balance sheet.                                                      *)
LEMMA EarnedSoFar ==
  ASSUME TradeTyped
  PROVE  /\ Trading!earnedAllTime
              = Net(Trading!SoldIn(Since)) - CostsOf(Trading!SoldIn(Since))
                  - Trading!Entered({"EXPENSE"}, Makes, Since)
         /\ Trading!otherIncome(Trading!Months) = Trading!Entered({"INCOME"}, Makes, Since)
         /\ Trading!UnpostedSales = Net(Unentered(Since))
         /\ Trading!BeforeEpoch
              = Trading!Entered({"STOCK_PURCHASE"}, Makes, Trading!Months \ Since)
                  + Pocketed(Trading!Months \ Since) - CostsOf(Trading!SoldIn(Trading!Months \ Since))
<1>0. Since \in SUBSET Trading!Months /\ Trading!SoldIn(Since) \in SUBSET Trading!Live
  BY SinceIsPart, SoldRow
<1>1. Trading!profitOverview(Trading!Months).totals = Trading!Profit(Trading!SoldIn(Since))
  BY DEF Trading!profitOverview, Since
<1>2. Trading!Profit(Trading!SoldIn(Since)).profit = Net(Trading!SoldIn(Since)) - CostsOf(Trading!SoldIn(Since))
  BY <1>0, ProfitOfSales
<1>3. Trading!earnedAllTime
        = Trading!profitOverview(Trading!Months).totals.profit - Trading!Entered({"EXPENSE"}, Makes, Since)
  BY Zenon DEF Trading!earnedAllTime, Since
<1>4. Trading!otherIncome(Trading!Months) = Trading!Entered({"INCOME"}, Makes, Since)
  BY DEF Trading!otherIncome, Since
<1>5. Trading!UnpostedSales = Net(Unentered(Since))
  BY TradeSums DEF Trading!UnpostedSales, Trading!Sum, Trading!Total, Net, Brought, Unentered, Since
<1>6. Trading!Sum(Trading!Months \ Since, LAMBDA t : payouts[t]) = Pocketed(Trading!Months \ Since)
  BY TradeSums DEF Trading!Sum, Pocketed
<1>7. Trading!Sum(Trading!SoldIn(Trading!Months \ Since), Trading!LineCost)
        = CostsOf(Trading!SoldIn(Trading!Months \ Since))
  BY TradeSums DEF Trading!Sum, CostsOf
<1>8. Trading!BeforeEpoch
        = Trading!Entered({"STOCK_PURCHASE"}, Makes, Trading!Months \ Since)
            + Pocketed(Trading!Months \ Since) - CostsOf(Trading!SoldIn(Trading!Months \ Since))
  BY <1>6, <1>7 DEF Trading!BeforeEpoch, Since
<1>. QED
  BY <1>1, <1>2, <1>3, <1>4, <1>5, <1>8

LEMMA BillsUnderway ==
  ASSUME TradeTyped
  PROVE  Trading!Sum(Makes, LAMBDA b : bill[b].awaited - bill[b].credited) = Awaited - Credited
<1>. DEFINE a == [b \in Makes |-> bill[b].awaited]
            c == [b \in Makes |-> bill[b].credited]
<1>1. a \in [Makes -> Int] /\ c \in [Makes -> Int]
  BY BillFields
<1>2. [b \in Makes |-> bill[b].awaited - bill[b].credited] = [b \in Makes |-> a[b] - c[b]]
  OBVIOUS
<1>3. SumFunction(a) = Awaited /\ SumFunction(c) = Credited
  BY DEF Awaited, Credited
<1>. HIDE DEF a, c
<1>4. SumFunction([b \in Makes |-> a[b] - c[b]]) = SumFunction(a) - SumFunction(c)
  BY <1>1, DeskAssumption, SumOfDifferences
<1>. QED
  BY <1>2, <1>3, <1>4, TradeSums DEF Trading!Sum

LEMMA BalanceSheet == TradeInv => Trading!BooksBalance
<1>. SUFFICES ASSUME TradeInv, Trading!supplierDue >= 0 PROVE Trading!BooksBalance
  BY DEF Trading!BooksBalance
<1>0. TradeTyped /\ SalesPosted /\ BillsPosted /\ PayoutsDrawn /\ BoxesCosted /\ BookTyped
      /\ Since \in SUBSET Trading!Months /\ Trading!Months \ Since \in SUBSET Trading!Months
      /\ Makes \in SUBSET Makes
  BY SinceIsPart DEF TradeInv, TradeTyped
<1>. DEFINE S == Trading!SoldIn(Since)  S0 == Trading!SoldIn(Trading!Months \ Since)
            E(k) == Trading!Entered({k}, Makes, Since)
            cash == Trading!cashPosition
            closed == Trading!ClosedWallets
            own == Trading!ownerFigures(Trading!Months).total
            pay == Trading!repCommissionPayable
            unseen == Trading!RepsUnseen
            owed == Trading!supplierDue
            early == Trading!Entered({"STOCK_PURCHASE"}, Makes, Trading!Months \ Since)
            sales == E("SALE")  other == E("INCOME")  spent == E("EXPENSE")  bought == E("STOCK_PURCHASE")
            drawn == SumFunction(Drawn)
            net == Net(S)  costs == CostsOf(S)  costs0 == CostsOf(S0)  missing == Net(Unentered(Since))
            opened == Opened(Makes)
            pocket == Pocketed(Since)  pocket0 == Pocketed(Trading!Months \ Since)
            left == Trading!buildCapital.left
<1>1. left = (cash + AtPrice) - ((owed + pay) + own)
  <2>1. Trading!supplierOutstanding = owed
    BY <1>0, SuppliersAreOwed
  <2>2. Trading!buildCapital.left
          = (cash + Trading!valuation.total) - ((Trading!supplierOutstanding + pay) + own)
    BY Zenon DEF Trading!buildCapital
  <2>. QED
    BY <1>0, <2>1, <2>2, ValuationIsStock
<1>2. /\ cash + closed - own
            = opened + Trading!Entered(Earnings, Makes, Since) - Trading!Entered(Spendings, Makes, Since) - pocket
      /\ cash \in Int /\ closed \in Int /\ own \in Int
  BY <1>0, CashSheet
<1>3. /\ Trading!Entered(Earnings, Makes, Since) = sales + other
      /\ Trading!Entered(Spendings, Makes, Since) = spent + bought
  BY <1>0, KindsSplit
<1>4. sales + missing = net
  BY <1>0, NetIsEntered
<1>5. bought + early = Paid
  BY <1>0, SuppliersPaid
<1>6. pocket + pocket0 = drawn /\ pocket \in Int /\ pocket0 \in Int
  BY <1>0, PocketedSplits DEF PayoutsDrawn
<1>7. owed = Ordered - Credited - Paid
  BY <1>0, SuppliersAreOwed
<1>8. /\ pay + unseen = EarnedByAll - drawn - FinedAll
      /\ pay \in Int /\ unseen \in Int /\ EarnedByAll \in Int /\ drawn \in Int /\ FinedAll \in Int
  BY <1>0, RepsAreOwed
<1>9. CostsByBrand = costs + costs0
  BY <1>0, CostsAddUp
<1>10. Ordered - Awaited - AtPrice - CostsByBrand = written /\ CostsByBrand \in Int /\ AtPrice \in Int
  BY <1>0, BoxesInTotals, ValuationIsStock
<1>11. /\ sales \in Int /\ other \in Int /\ spent \in Int /\ bought \in Int /\ early \in Int
       /\ net \in Int /\ costs \in Int /\ costs0 \in Int /\ missing \in Int
       /\ opened \in Int /\ Ordered \in Int /\ Awaited \in Int /\ Credited \in Int /\ Paid \in Int
       /\ written \in Int
  <2>1. \A k \in Trading!Kinds : {k} \in SUBSET Trading!Kinds
    OBVIOUS
  <2>2. "SALE" \in Trading!Kinds /\ "INCOME" \in Trading!Kinds /\ "EXPENSE" \in Trading!Kinds
        /\ "STOCK_PURCHASE" \in Trading!Kinds
    BY DEF Trading!Kinds
  <2>3. sales \in Int /\ other \in Int /\ spent \in Int /\ bought \in Int /\ early \in Int
    BY <1>0, <2>1, <2>2, EnteredIsInt
  <2>4. S \in SUBSET Trading!Live /\ S0 \in SUBSET Trading!Live /\ Unentered(Since) \in SUBSET Trading!Live
    BY <1>0, SoldRow DEF Unentered
  <2>5. net \in Int /\ costs \in Int /\ costs0 \in Int /\ missing \in Int
    BY <1>0, <2>4, SalesHaveSums
  <2>6. opened \in Int
    BY <1>0, OpenedSplits
  <2>7. written \in Int
    BY <1>0 DEF TradeTyped, GoodsTyped
  <2>. QED
    BY <1>0, <2>3, <2>5, <2>6, <2>7, BillFields
<1>12. /\ Trading!Sum(Makes, LAMBDA b : [m \in Makes |-> Capital][b]) = opened
       /\ Trading!Sum(Makes, LAMBDA b : bill[b].awaited - bill[b].credited) = Awaited - Credited
       /\ Trading!Sum(Reps, Trading!Earned) = EarnedByAll
       /\ Trading!Sum(Reps, LAMBDA r : fined[r]) = FinedAll
  <2>1. Trading!Sum(Makes, LAMBDA b : [m \in Makes |-> Capital][b]) = opened
    BY TradeSums DEF Trading!Sum, Opened
  <2>2. Trading!Sum(Reps, Trading!Earned) = EarnedByAll
    BY TradeSums DEF Trading!Sum, EarnedByAll
  <2>3. Trading!Sum(Reps, LAMBDA r : fined[r]) = FinedAll
    BY TradeSums DEF Trading!Sum, FinedAll
  <2>. QED
    BY <1>0, <2>1, <2>2, <2>3, BillsUnderway
<1>13. /\ Trading!earnedAllTime = net - costs - spent
       /\ Trading!otherIncome(Trading!Months) = other
       /\ Trading!UnpostedSales = missing
       /\ Trading!BeforeEpoch = early + pocket0 - costs0
  BY <1>0, EarnedSoFar
<1>. HIDE DEF S, S0, E, cash, closed, own, pay, unseen, owed, early, sales, other, spent, bought, drawn, net,
             costs, costs0, missing, opened, pocket, pocket0, left
<1>14. left = opened + (net - costs - spent) + other - missing - (Awaited - Credited) - written
                - EarnedByAll + FinedAll + (early + pocket0 - costs0) - closed + unseen
  <2>1. cash - own = opened + (sales + other) - (spent + bought) - pocket - closed
    BY <1>2, <1>3, <1>6, <1>11
  <2>2. pay = EarnedByAll - drawn - FinedAll - unseen
    BY <1>8
  <2>3. AtPrice = Ordered - Awaited - (costs + costs0) - written
    BY <1>9, <1>10, <1>11
  <2>. QED
    BY <1>1, <1>2, <1>4, <1>5, <1>6, <1>7, <1>8, <1>10, <1>11, <2>1, <2>2, <2>3
<1>. QED
  BY <1>12, <1>13, <1>14, Zenon DEF Trading!BooksBalance, left, closed, unseen

(* For any brands, reps, sales, prices and commission, and whatever order   *)
(* the desks work in: what the balance sheet calls left is the opening     *)
(* money, the profit and the other income, less the boxes that went, the   *)
(* commission and the rest its own lines name; no shilling and no box       *)
(* appears or disappears between the screens.                              *)
THEOREM BooksAlwaysBalance == DeskSpec => []BooksBalance
<1>1. DeskInit => TradeInv
  BY TradeInitInv DEF DeskInit
<1>2. TradeInv => BooksBalance
  BY BalanceSheet DEF BooksBalance
<1>. QED
  BY <1>1, <1>2, TradeStepKeeps, DeskStepsTrade, PTL DEF DeskSpec

-----------------------------------------------------------------------------
(* One figure on several screens.                                          *)

LEMMA WindowIsPart ==
  ASSUME TradeTyped, NEW p \in {"month", "all"}
  PROVE  /\ Trading!WindowOf(p) \in SUBSET Trading!Months
         /\ Trading!Clamped(Trading!WindowOf(p)) \in SUBSET Trading!Months
BY DEF Trading!WindowOf, Trading!Clamped, TradeTyped, OwnerTyped

(* What sales brought in splits into parts, by brand and by rep. *)
LEMMA BroughtIsInt ==
  ASSUME TradeTyped, NEW S \in SUBSET Trading!Live
  PROVE  /\ IsFiniteSet(S)
         /\ \A x \in S : Brought(x) \in Int
         /\ [x \in S |-> Brought(x)] \in [S -> Int]
<1>1. IsFiniteSet(S)
  BY SalesHaveSums
<1>2. {} \in SUBSET Trading!Months
  OBVIOUS
<1>3. \A x \in S : Brought(x) \in Nat
  BY <1>2, SoldRow
<1>4. \A x \in S : Brought(x) \in Int
  BY <1>3
<1>. QED
  BY <1>1, <1>4

LEMMA NetSplits ==
  ASSUME TradeTyped, NEW S \in SUBSET Trading!Live, NEW A \in SUBSET S
  PROVE  Net(S) = Net(A) + Net(S \ A)
<1>. DEFINE v == [x \in S |-> Brought(x)]
<1>1. IsFiniteSet(S) /\ \A x \in S : v[x] = Brought(x) /\ v[x] \in Int
  BY BroughtIsInt
<1>2. /\ [x \in S |-> v[x]] = [x \in S |-> Brought(x)]
      /\ [x \in A |-> v[x]] = [x \in A |-> Brought(x)]
      /\ [x \in S \ A |-> v[x]] = [x \in S \ A |-> Brought(x)]
  OBVIOUS
<1>3. /\ Net(S) = SumFunction([x \in S |-> v[x]])
      /\ Net(A) = SumFunction([x \in A |-> v[x]])
      /\ Net(S \ A) = SumFunction([x \in S \ A |-> v[x]])
  BY <1>2 DEF Net
<1>. HIDE DEF v
<1>4. SumFunction([x \in S |-> v[x]]) = SumFunction([x \in A |-> v[x]]) + SumFunction([x \in S \ A |-> v[x]])
  BY <1>1, SumInTwo
<1>. QED
  BY <1>3, <1>4

LEMMA NetByClass ==
  ASSUME TradeTyped, NEW S \in SUBSET Trading!Live, NEW C, IsFiniteSet(C), NEW m \in [S -> C]
  PROVE  Net(S) = SumFunction([c \in C |-> Net({x \in S : m[x] = c})])
<1>. DEFINE v == [x \in S |-> Brought(x)]
            parts == [c \in C |-> SumFunction([x \in {y \in S : m[y] = c} |-> v[x]])]
<1>1. IsFiniteSet(S) /\ v \in [S -> Int]
  BY BroughtIsInt
<1>2. parts = [c \in C |-> Net({x \in S : m[x] = c})]
  <2>1. ASSUME NEW c \in C
        PROVE  [x \in {y \in S : m[y] = c} |-> v[x]] = [x \in {y \in S : m[y] = c} |-> Brought(x)]
    OBVIOUS
  <2>2. ASSUME NEW c \in C PROVE parts[c] = Net({x \in S : m[x] = c})
    BY <2>1 DEF Net
  <2>. QED
    BY <2>2
<1>3. SumFunction(v) = Net(S)
  BY DEF Net
<1>. HIDE DEF v
<1>4. SumFunction(v) = SumFunction(parts)
  BY <1>1, SumByClass
<1>. QED
  BY <1>2, <1>3, <1>4

LEMMA NetByBrand ==
  ASSUME TradeTyped, NEW S \in SUBSET Trading!Live
  PROVE  Net(S) = SumFunction([b \in Makes |-> Net(Trading!OfBrand(S, b))])
<1>. DEFINE m == [x \in S |-> trade[x].brand]
<1>1. m \in [S -> Makes]
  <2>1. {} \in SUBSET Trading!Months
    OBVIOUS
  <2>. QED
    BY <2>1, SoldRow
<1>2. \A b : {x \in S : m[x] = b} = Trading!OfBrand(S, b)
  BY DEF Trading!OfBrand
<1>. HIDE DEF m
<1>3. Net(S) = SumFunction([b \in Makes |-> Net({x \in S : m[x] = b})])
  BY <1>1, DeskAssumption, NetByClass
<1>. QED
  BY <1>2, <1>3

LEMMA NetByRep ==
  ASSUME TradeTyped, NEW S \in SUBSET Trading!Live
  PROVE  /\ Net(S) = SumFunction([r \in Trading!Everyone |-> Net(Trading!OfRep(S, r))])
         /\ Net(S) = SumFunction([r \in Reps |-> Net(Trading!OfRep(S, r))]) + Net(Trading!OfRep(S, "direct"))
<1>. DEFINE m == [x \in S |-> trade[x].rep]
            v == [r \in Trading!Everyone |-> Net(Trading!OfRep(S, r))]
<1>1. m \in [S -> Trading!Everyone]
  <2>1. {} \in SUBSET Trading!Months
    OBVIOUS
  <2>. QED
    BY <2>1, SoldRow DEF Trading!Everyone
<1>2. \A r : {x \in S : m[x] = r} = Trading!OfRep(S, r)
  BY DEF Trading!OfRep
<1>3. IsFiniteSet(Trading!Everyone)
  BY DeskAssumption, FS_Singleton, FS_Union DEF Trading!Everyone
<1>. HIDE DEF m
<1>4. Net(S) = SumFunction([r \in Trading!Everyone |-> Net({x \in S : m[x] = r})])
  BY <1>1, <1>3, NetByClass
<1>5. Net(S) = SumFunction([r \in Trading!Everyone |-> Net(Trading!OfRep(S, r))])
  BY <1>2, <1>4
<1>6. \A r \in Trading!Everyone : v[r] = Net(Trading!OfRep(S, r)) /\ v[r] \in Int
  <2>1. \A r : Trading!OfRep(S, r) \in SUBSET Trading!Live
    BY DEF Trading!OfRep
  <2>. QED
    BY <2>1, SalesHaveSums
<1>7. Reps \in SUBSET Trading!Everyone /\ Trading!Everyone \ Reps = {"direct"} /\ "direct" \in Trading!Everyone
  BY DeskAssumption DEF Trading!Everyone
<1>8. [r \in Reps |-> v[r]] = [r \in Reps |-> Net(Trading!OfRep(S, r))]
      /\ [r \in Trading!Everyone |-> v[r]] = [r \in Trading!Everyone |-> Net(Trading!OfRep(S, r))]
  BY <1>7
<1>. HIDE DEF v
<1>9. SumFunction([r \in Trading!Everyone |-> v[r]])
        = SumFunction([r \in Reps |-> v[r]]) + SumFunction([r \in Trading!Everyone \ Reps |-> v[r]])
  BY <1>3, <1>6, <1>7, SumInTwo
<1>10. SumFunction([r \in {"direct"} |-> v[r]]) = v["direct"]
  <2>. DEFINE w == [r \in {"direct"} |-> v[r]]
  <2>1. DOMAIN w = {"direct"} /\ w["direct"] = v["direct"] /\ w["direct"] \in Int /\ IsFiniteSet({"direct"})
    BY <1>6, <1>7, FS_Singleton
  <2>. HIDE DEF w
  <2>2. SumFunction(w) = w["direct"]
    BY <2>1, SumOfSingle
  <2>. QED
    BY <2>1, <2>2 DEF w
<1>. QED
  BY <1>5, <1>6, <1>7, <1>8, <1>9, <1>10

(* The prices of some boxes. *)
LEMMA PricesAddUp ==
  ASSUME NEW S, IsFiniteSet(S)
  PROVE  SumFunction([x \in S |-> Price]) = Price * Cardinality(S)
<1>. DEFINE f == [x \in S |-> 1]
<1>1. f \in [S -> Int] /\ DOMAIN f = S /\ \A x \in S : f[x] = 1
  OBVIOUS
<1>2. Price \in Int
  BY DeskAssumption
<1>3. [x \in S |-> Price * f[x]] = [x \in S |-> Price]
  BY <1>2
<1>. HIDE DEF f
<1>4. SumFunction([x \in S |-> Price * f[x]]) = Price * SumFunction(f)
  BY <1>1, <1>2, SumTimes
<1>5. SumFunction(f) = Cardinality({x \in S : f[x] = 1})
  BY <1>1, SumOfOnes
<1>6. {x \in S : f[x] = 1} = S
  BY <1>1
<1>. QED
  BY <1>3, <1>4, <1>5, <1>6

Discounts(S) == SumFunction([x \in S |-> trade[x].off])
LEMMA ListedIsNetAndDiscounts ==
  ASSUME TradeTyped, NEW S \in SUBSET Trading!Live
  PROVE  Net(S) + Discounts(S) = SumFunction([b \in Makes |-> Price * Cardinality(Trading!OfBrand(S, b))])
<1>. DEFINE m == [x \in S |-> trade[x].brand]
            v == [x \in S |-> Price]
            n == [x \in S |-> Brought(x)]
            o == [x \in S |-> trade[x].off]
            parts == [b \in Makes |-> SumFunction([x \in {y \in S : m[y] = b} |-> v[x]])]
<1>1. IsFiniteSet(S) /\ \A x \in S : trade[x].brand \in Makes /\ Brought(x) \in Int /\ trade[x].off \in Int
  <2>1. {} \in SUBSET Trading!Months
    OBVIOUS
  <2>2. \A x \in S : trade[x].brand \in Makes /\ trade[x].off \in 0..1
    BY <2>1, SoldRow
  <2>3. \A i \in 0..1 : i \in Int
    OBVIOUS
  <2>4. \A x \in S : trade[x].brand \in Makes /\ trade[x].off \in Int
    BY <2>2, <2>3
  <2>. QED
    BY <2>4, BroughtIsInt
<1>2. Price \in Int /\ IsFiniteSet(Makes)
  BY DeskAssumption
<1>3. m \in [S -> Makes] /\ v \in [S -> Int] /\ n \in [S -> Int] /\ o \in [S -> Int]
  BY <1>1, <1>2
<1>4. [x \in S |-> n[x] + o[x]] = v
  <2>1. \A x \in S : Brought(x) + trade[x].off = Price
    BY <1>1, <1>2 DEF Brought
  <2>. QED
    BY <2>1
<1>5. ASSUME NEW b \in Makes PROVE parts[b] = Price * Cardinality(Trading!OfBrand(S, b))
  <2>1. {y \in S : m[y] = b} = Trading!OfBrand(S, b) /\ Trading!OfBrand(S, b) \in SUBSET S
    BY DEF Trading!OfBrand
  <2>2. [x \in {y \in S : m[y] = b} |-> v[x]] = [x \in Trading!OfBrand(S, b) |-> Price]
    BY <2>1
  <2>3. IsFiniteSet(Trading!OfBrand(S, b))
    BY <1>1, <2>1, FS_Subset
  <2>4. SumFunction([x \in Trading!OfBrand(S, b) |-> Price]) = Price * Cardinality(Trading!OfBrand(S, b))
    BY <2>3, PricesAddUp
  <2>. QED
    BY <2>2, <2>4
<1>6. parts = [b \in Makes |-> Price * Cardinality(Trading!OfBrand(S, b))]
  BY <1>5
<1>7. Net(S) = SumFunction(n) /\ Discounts(S) = SumFunction(o)
  BY DEF Net, Discounts
<1>. HIDE DEF m, v, n, o
<1>8. SumFunction([x \in S |-> n[x] + o[x]]) = SumFunction(n) + SumFunction(o)
  BY <1>1, <1>3, SumOfSums
<1>9. SumFunction(v) = SumFunction(parts)
  BY <1>1, <1>2, <1>3, SumByClass
<1>. QED
  BY <1>4, <1>6, <1>7, <1>8, <1>9

(* The reports of the totals stored on the sales. *)
LEMMA TotalsOfSales ==
  ASSUME TradeTyped, NEW S \in SUBSET Trading!Live
  PROVE  /\ Trading!Totals(S).revenue = Net(S) /\ Trading!Totals(S).discounts = Discounts(S)
         /\ Trading!Totals(S).cost = SumFunction([x \in S |-> trade[x].unitCost])
<1>1. [x \in S |-> Trading!Total(x)] = [x \in S |-> Brought(x)]
  BY DEF Trading!Total, Brought
<1>2. Trading!Sum(S, Trading!Total) = Net(S)
  BY <1>1, TradeSums DEF Trading!Sum, Net
<1>3. Trading!Sum(S, LAMBDA x : trade[x].off) = Discounts(S)
  BY TradeSums DEF Trading!Sum, Discounts
<1>4. Trading!Sum(S, LAMBDA x : trade[x].unitCost) = SumFunction([x \in S |-> trade[x].unitCost])
  BY TradeSums DEF Trading!Sum
<1>. QED
  BY <1>2, <1>3, <1>4 DEF Trading!Totals

LEMMA SalesReportAgrees ==
  ASSUME TradeTyped, NEW p \in {"month", "all"},
         NEW S, S = Trading!SoldIn(Trading!Clamped(Trading!WindowOf(p)))
  PROVE  LET s == Trading!salesReport(Trading!WindowOf(p))
         IN /\ s.revenue = Net(S) /\ s.cash + s.credit = Net(S)
            /\ s.discounts = Discounts(S) /\ s.cost = SumFunction([x \in S |-> trade[x].unitCost])
<1>1. S \in SUBSET Trading!Live /\ \A x \in S : trade[x].type \in {"CASH", "CREDIT"}
  BY WindowIsPart, SoldRow
<1>. DEFINE A == {x \in S : trade[x].type = "CASH"}
            B == {x \in S : trade[x].type = "CREDIT"}
<1>2. A \in SUBSET S /\ S \ A = B
  BY <1>1
<1>3. \A V : Trading!Sum(V, Trading!Total) = Net(V)
  <2>1. \A V : [x \in V |-> Trading!Total(x)] = [x \in V |-> Brought(x)]
    BY DEF Trading!Total, Brought
  <2>. QED
    BY <2>1, TradeSums DEF Trading!Sum, Net
<1>4. Trading!salesReport(Trading!WindowOf(p))
        = [revenue |-> Trading!Totals(S).revenue, cost |-> Trading!Totals(S).cost,
           discounts |-> Trading!Totals(S).discounts, cash |-> Net(A), credit |-> Net(B)]
  BY <1>3 DEF Trading!salesReport
<1>. HIDE DEF A, B
<1>5. Net(S) = Net(A) + Net(B)
  BY <1>1, <1>2, NetSplits
<1>. QED
  BY <1>1, <1>4, <1>5, TotalsOfSales

(* Sums over the rows of one screen. *)
LEMMA ScreensAddUp ==
  ASSUME TradeTyped, NEW p \in {"month", "all"},
         NEW S, S = Trading!SoldIn(Trading!Clamped(Trading!WindowOf(p)))
  PROVE  LET W == Trading!WindowOf(p)
             o == Trading!profitOverview(W)
         IN /\ o.totals.revenue = Net(S) /\ o.totals.cost = CostsOf(S)
            /\ Trading!profitReport(W).revenue = Net(S)
            /\ Trading!profitByPeriods({p})[p].totals = o.totals
            /\ Net(S) = Trading!Sum(Makes, LAMBDA b : o.byBrand[b].revenue)
            /\ Net(S) = Trading!Sum(Trading!Everyone, LAMBDA r : o.byRep[r].revenue)
            /\ Net(S) = Trading!Sum(Trading!Everyone, LAMBDA r : Trading!regionalPerformance(W)[r].revenue)
            /\ Net(S) = Trading!Sum(Reps, LAMBDA r : Trading!revenueByRep(W)[r]) + o.byRep["direct"].revenue
            /\ Net(S) + Discounts(S) = Trading!Sum(Makes, LAMBDA b : Trading!productPerformance(W)[b].revenue)
<1>. DEFINE W == Trading!WindowOf(p)
            o == Trading!profitOverview(W)
<1>1. /\ S \in SUBSET Trading!Live
      /\ \A b : Trading!OfBrand(S, b) \in SUBSET Trading!Live
      /\ \A r : Trading!OfRep(S, r) \in SUBSET Trading!Live
  BY WindowIsPart, SoldRow DEF Trading!OfBrand, Trading!OfRep
<1>2. o = [totals |-> Trading!Profit(S), byBrand |-> [b \in Makes |-> Trading!Profit(Trading!OfBrand(S, b))],
           byRep |-> [r \in Trading!Everyone |-> Trading!Profit(Trading!OfRep(S, r))]]
  BY DEF Trading!profitOverview
<1>3. o.totals.revenue = Net(S) /\ o.totals.cost = CostsOf(S)
  BY <1>1, <1>2, ProfitOfSales
<1>4. Trading!profitReport(W).revenue = Net(S)
  BY <1>1, TotalsOfSales DEF Trading!profitReport
<1>5. Trading!profitByPeriods({p})[p].totals = o.totals
  BY <1>2 DEF Trading!profitByPeriods
<1>6. Net(S) = Trading!Sum(Makes, LAMBDA b : o.byBrand[b].revenue)
  <2>1. \A b \in Makes : o.byBrand[b].revenue = Net(Trading!OfBrand(S, b))
    BY <1>1, <1>2, ProfitOfSales
  <2>. HIDE DEF o
  <2>2. [b \in Makes |-> o.byBrand[b].revenue] = [b \in Makes |-> Net(Trading!OfBrand(S, b))]
    BY <2>1
  <2>3. Net(S) = SumFunction([b \in Makes |-> o.byBrand[b].revenue])
    BY <1>1, <2>2, NetByBrand
  <2>. QED
    BY <2>3, TradeSums DEF Trading!Sum
<1>7. Net(S) = Trading!Sum(Trading!Everyone, LAMBDA r : o.byRep[r].revenue)
  <2>1. \A r \in Trading!Everyone : o.byRep[r].revenue = Net(Trading!OfRep(S, r))
    BY <1>1, <1>2, ProfitOfSales
  <2>. HIDE DEF o
  <2>2. [r \in Trading!Everyone |-> o.byRep[r].revenue] = [r \in Trading!Everyone |-> Net(Trading!OfRep(S, r))]
    BY <2>1
  <2>3. Net(S) = SumFunction([r \in Trading!Everyone |-> o.byRep[r].revenue])
    BY <1>1, <2>2, NetByRep
  <2>. QED
    BY <2>3, TradeSums DEF Trading!Sum
<1>8. Net(S) = Trading!Sum(Trading!Everyone, LAMBDA r : Trading!regionalPerformance(W)[r].revenue)
  <2>1. \A r \in Trading!Everyone : Trading!regionalPerformance(W)[r].revenue = Net(Trading!OfRep(S, r))
    BY <1>1, TotalsOfSales DEF Trading!regionalPerformance
  <2>. HIDE DEF W
  <2>2. [r \in Trading!Everyone |-> Trading!regionalPerformance(W)[r].revenue]
          = [r \in Trading!Everyone |-> Net(Trading!OfRep(S, r))]
    BY <2>1
  <2>3. Net(S) = SumFunction([r \in Trading!Everyone |-> Trading!regionalPerformance(W)[r].revenue])
    BY <1>1, <2>2, NetByRep
  <2>. QED
    BY <2>3, TradeSums DEF Trading!Sum
<1>9. Net(S) = Trading!Sum(Reps, LAMBDA r : Trading!revenueByRep(W)[r]) + o.byRep["direct"].revenue
  <2>1. o.byRep["direct"].revenue = Net(Trading!OfRep(S, "direct"))
    <3>1. "direct" \in Trading!Everyone
      BY DEF Trading!Everyone
    <3>. QED
      BY <1>1, <1>2, <3>1, ProfitOfSales
  <2>2. \A r : Trading!Sum(Trading!OfRep(S, r), Trading!Total) = Net(Trading!OfRep(S, r))
    <3>1. \A V : [x \in V |-> Trading!Total(x)] = [x \in V |-> Brought(x)]
      BY DEF Trading!Total, Brought
    <3>. QED
      BY <3>1, TradeSums DEF Trading!Sum, Net
  <2>3. \A r \in Reps : Trading!revenueByRep(W)[r] = Net(Trading!OfRep(S, r))
    BY <2>2 DEF Trading!revenueByRep
  <2>. HIDE DEF W, o
  <2>4. [r \in Reps |-> Trading!revenueByRep(W)[r]] = [r \in Reps |-> Net(Trading!OfRep(S, r))]
    BY <2>3
  <2>5. Net(S) = SumFunction([r \in Reps |-> Trading!revenueByRep(W)[r]]) + Net(Trading!OfRep(S, "direct"))
    BY <1>1, <2>4, NetByRep
  <2>. QED
    BY <2>1, <2>5, TradeSums DEF Trading!Sum
<1>10. Net(S) + Discounts(S) = Trading!Sum(Makes, LAMBDA b : Trading!productPerformance(W)[b].revenue)
  <2>1. \A b \in Makes : Trading!productPerformance(W)[b].revenue = Price * Cardinality(Trading!OfBrand(S, b))
    BY TradeCounts DEF Trading!productPerformance, Trading!Listed
  <2>. HIDE DEF W
  <2>2. [b \in Makes |-> Trading!productPerformance(W)[b].revenue]
          = [b \in Makes |-> Price * Cardinality(Trading!OfBrand(S, b))]
    BY <2>1
  <2>3. Net(S) + Discounts(S) = SumFunction([b \in Makes |-> Trading!productPerformance(W)[b].revenue])
    BY <1>1, <2>2, ListedIsNetAndDiscounts
  <2>. QED
    BY <2>3, TradeSums DEF Trading!Sum
<1>. QED
  BY <1>3, <1>4, <1>5, <1>6, <1>7, <1>8, <1>9, <1>10

(* Two screens of the costs: where every line has one, they are the same. *)
LEMMA CostsAgree ==
  ASSUME TradeTyped, \A x \in Trading!Live : trade[x].unitCost > 0, NEW S \in SUBSET Trading!Live
  PROVE  SumFunction([x \in S |-> trade[x].unitCost]) = CostsOf(S)
<1>1. [x \in S |-> trade[x].unitCost] = [x \in S |-> Trading!LineCost(x)]
  BY DEF Trading!LineCost
<1>. QED
  BY <1>1 DEF CostsOf

(* The two money strips, when no wallet is closed, and the sales not yet    *)
(* entered in them.                                                        *)
LEMMA StripsAgree ==
  ASSUME TradeTyped, SalesPosted, NEW p \in {"month", "all"}, open = Makes,
         NEW S, S = Trading!SoldIn(Trading!Clamped(Trading!WindowOf(p)))
  PROVE  LET W == Trading!WindowOf(p)
             c == Trading!cashflow(W)
             unposted == {x \in S : trade[x].posted = "no"}
         IN /\ Trading!flow(p) = [in |-> c.in, out |-> c.out]
            /\ Net(S) - Trading!Sum(unposted, Trading!Total)
                 = Trading!Entered({"SALE"}, Makes, Trading!Clamped(W))
<1>. DEFINE W == Trading!WindowOf(p)
            C == Trading!Clamped(W)
            E == Trading!Entered({"SALE"}, Makes, C)
<1>1. C \in SUBSET Trading!Months
  BY WindowIsPart
<1>2. Trading!flow(p) = [in |-> Trading!cashflow(W).in, out |-> Trading!cashflow(W).out]
  BY DEF Trading!flow, Trading!cashflow, Trading!flowBetween, Trading!Moved
<1>3. Trading!Sum({x \in S : trade[x].posted = "no"}, Trading!Total) = Net(Unentered(C))
  <2>1. Unentered(C) = {x \in S : trade[x].posted = "no"}
    BY DEF Unentered
  <2>2. [x \in Unentered(C) |-> Trading!Total(x)] = [x \in Unentered(C) |-> Brought(x)]
    BY DEF Trading!Total, Brought
  <2>. QED
    BY <2>1, <2>2, TradeSums DEF Trading!Sum, Net
<1>4. S = Trading!SoldIn(C)
  OBVIOUS
<1>5. E \in Int
  BY <1>1, EnteredIsInt DEF TradeTyped, Trading!Kinds
<1>6. Net(S) \in Int /\ Net(Unentered(C)) \in Int
  <2>1. S \in SUBSET Trading!Live /\ Unentered(C) \in SUBSET Trading!Live
    BY <1>1, <1>4, SoldRow DEF Unentered
  <2>. QED
    BY <2>1, SalesHaveSums
<1>7. E + Net(Unentered(C)) = Net(S)
  BY <1>1, <1>4, NetIsEntered
<1>8. Net(S) - Net(Unentered(C)) = E
  <2>. HIDE DEF E, C
  <2>. QED
    BY <1>5, <1>6, <1>7
<1>. QED
  BY <1>2, <1>3, <1>8

(* What the cash report closes on is what the wallets hold. *)
LEMMA ClosingIsCash ==
  ASSUME TradeTyped
  PROVE  Trading!cashflow(Trading!WindowOf("all")).closing = Trading!cashPosition
<1>. DEFINE I == Trading!Entered(Earnings, open, Since)
            O == Trading!Entered(Spendings, open, Since)
            before == Trading!Moved(open, {})
            own == Trading!ownerFigures(Trading!Months).accountMovement
<1>1. Trading!WindowOf("all") = Trading!Months
  BY DEF Trading!WindowOf
<1>2. {t \in Trading!Clamped(Trading!Months) : \A u \in Trading!Months : t < u} = {}
  <2>1. \A t \in Trading!Months : ~(t < t)
    BY DEF Trading!Months
  <2>. QED
    BY <2>1, SinceIsPart DEF Since
<1>3. /\ BookTyped /\ open \in SUBSET Makes /\ Since \in SUBSET Trading!Months
      /\ Earnings \in SUBSET Trading!Kinds /\ Spendings \in SUBSET Trading!Kinds
      /\ {"OWNER_CONTRIBUTION"} \in SUBSET Trading!Kinds /\ {"OWNER_DRAWING"} \in SUBSET Trading!Kinds
  BY SinceIsPart DEF TradeTyped, Earnings, Spendings, Trading!Kinds
<1>4. before.in = 0 /\ before.out = 0
  BY <1>3, EnteredNever DEF Trading!Moved, Trading!Trading, Earnings, Spendings
<1>5. Trading!Sum(open, LAMBDA b : [m \in Makes |-> Capital][b]) = Opened(open)
  <2>1. [b \in open |-> [m \in Makes |-> Capital][b]] = [b \in open |-> Capital]
    BY <1>3
  <2>. QED
    BY <2>1, TradeSums DEF Trading!Sum, Opened
<1>6. Trading!flowBetween(Since).in = I /\ Trading!flowBetween(Since).out = O
  BY DEF Trading!flowBetween, Trading!Moved, Trading!Trading, Earnings, Spendings
<1>7. Trading!cashflow(Trading!Months).closing = (Opened(open) + before.in - before.out) + I - O + own
  BY <1>2, <1>5, <1>6, Zenon DEF Trading!cashflow, Trading!flowBetween, Since
<1>8. /\ Opened(open) \in Int /\ I \in Int /\ O \in Int
      /\ Trading!Entered({"OWNER_CONTRIBUTION"}, open, Since) \in Int
      /\ Trading!Entered({"OWNER_DRAWING"}, open, Since) \in Int
  BY <1>3, OpenedSplits, EnteredIsInt
<1>9. /\ Trading!Entered(Trading!In, open, Since) = I + Trading!Entered({"OWNER_CONTRIBUTION"}, open, Since)
      /\ Trading!Entered(Trading!Kinds \ Trading!In, open, Since)
           = O + Trading!Entered({"OWNER_DRAWING"}, open, Since)
  BY <1>3, KindsSplit
<1>10. own = Trading!Entered({"OWNER_CONTRIBUTION"}, open, Since) - Trading!Entered({"OWNER_DRAWING"}, open, Since)
  BY OwnersMoney
<1>11. Trading!cashPosition = Opened(open) + Trading!Entered(Trading!In, open, Since)
                                - Trading!Entered(Trading!Kinds \ Trading!In, open, Since)
  BY CashOfWallets
<1>. HIDE DEF I, O, before, own
<1>. QED
  BY <1>1, <1>4, <1>7, <1>8, <1>9, <1>10, <1>11

(* What is due to a supplier now, per brand and in all, is a number. *)
LEMMA DueNowIsInt ==
  ASSUME TradeTyped
  PROVE  /\ \A b \in Makes : Trading!supplierDueNow(b, Trading!profitOverview(Trading!Months).byBrand[b].cost) \in Int
         /\ Trading!supplierDueNowAcross(Trading!profitOverview(Trading!Months).byBrand) \in Int
<1>. DEFINE S == Trading!SoldIn(Trading!Clamped(Trading!Months))
            c(b) == Trading!profitOverview(Trading!Months).byBrand[b].cost
            d == [b \in Makes |-> Trading!supplierDueNow(b, c(b))]
<1>1. S \in SUBSET Trading!Live /\ \A b : Trading!OfBrand(S, b) \in SUBSET Trading!Live
  <2>1. S \in SUBSET Trading!Live
    BY SinceIsPart, SoldRow DEF Since
  <2>. QED
    BY <2>1 DEF Trading!OfBrand
<1>2. \A b \in Makes : c(b) = CostsOf(Trading!OfBrand(S, b))
  BY <1>1, ProfitOfSales DEF Trading!profitOverview
<1>3. \A b \in Makes : c(b) \in Int
  BY <1>1, <1>2, SalesHaveSums
<1>. HIDE DEF c, S
<1>4. ASSUME NEW b \in Makes PROVE d[b] \in Int
  <2>1. bill[b].ordered \in Int /\ bill[b].credited \in Int /\ bill[b].paid \in Int /\ c(b) \in Int
    BY <1>3, BillFields
  <2>. QED
    BY <2>1 DEF Trading!supplierDueNow, Trading!Outstanding, Trading!Least, Trading!Max0
<1>5. d \in [Makes -> Int] /\ DOMAIN d = Makes
  BY <1>4
<1>6. Trading!supplierDueNowAcross(Trading!profitOverview(Trading!Months).byBrand) = SumFunction(d)
  BY TradeSums DEF Trading!supplierDueNowAcross, Trading!Sum, c
<1>7. \A b \in Makes : d[b] = Trading!supplierDueNow(b, Trading!profitOverview(Trading!Months).byBrand[b].cost)
  BY DEF c
<1>. HIDE DEF d
<1>8. SumFunction(d) \in Int
  BY <1>5, DeskAssumption, SumFunctionIsInt
<1>. QED
  BY <1>4, <1>6, <1>7, <1>8

LEMMA CashSplits ==
  ASSUME TradeTyped, NEW b \in open
  PROVE  LET part == Trading!cashSplit(Trading!Months)[b]
         IN part.yours + part.setAside = Trading!accountBalances[b]
<1>. DEFINE c == Trading!accountBalances[b]
            n == Trading!supplierDueNow(b, Trading!profitOverview(Trading!Months).byBrand[b].cost)
            a == Trading!Least(c, n)
            I == Trading!Entered(Trading!In, {b}, Since)
            O == Trading!Entered(Trading!Kinds \ Trading!In, {b}, Since)
<1>1. BookTyped /\ Since \in SUBSET Trading!Months /\ b \in Makes /\ {b} \in SUBSET Makes
      /\ Trading!In \in SUBSET Trading!Kinds /\ Trading!Kinds \ Trading!In \in SUBSET Trading!Kinds
  BY SinceIsPart DEF TradeTyped, Trading!In, Trading!Kinds
<1>2. I \in Int /\ O \in Int /\ Capital \in Int
  BY <1>1, EnteredIsInt, DeskAssumption
<1>3. c = Capital + I - O
  BY <1>1, Zenon DEF Trading!accountBalances, Since
<1>4. c \in Int
  <2>. HIDE DEF c, I, O
  <2>. QED
    BY <1>2, <1>3
<1>5. n \in Int
  BY <1>1, DueNowIsInt
<1>6. a \in Int
  BY <1>4, <1>5 DEF Trading!Least
<1>7. Trading!cashSplit(Trading!Months)[b].yours = c - a /\ Trading!cashSplit(Trading!Months)[b].setAside = a
  BY DEF Trading!cashSplit
<1>. HIDE DEF c, a
<1>8. (c - a) + a = c
  BY <1>4, <1>6
<1>. QED
  BY <1>7, <1>8 DEF c

(* The value of the reps' stock, rep by rep or brand by brand. *)
LEMMA Commutes == ASSUME NEW m \in Int, NEW n \in Int PROVE m * n = n * m /\ m * n \in Int
OBVIOUS

LEMMA RepsStockAgrees ==
  ASSUME TradeTyped
  PROVE  Trading!valuation.reps = Trading!Sum(Reps, Trading!repStockList)
<1>. DEFINE f == [r \in Reps |-> [b \in Makes |-> hand[r][b] * cost[b]]]
            col == [b \in Makes |-> SumFunction([r \in Reps |-> f[r][b]])]
            v == [b \in Makes |-> (Trading!Stocked(b) - shelf[b]) * cost[b]]
<1>1. \A r \in Reps, b \in Makes : hand[r][b] \in Int /\ cost[b] \in Int /\ shelf[b] \in Int
  <2>1. \A r \in Reps, b \in Makes : hand[r][b] \in Nat /\ cost[b] \in Nat /\ shelf[b] \in Nat
    BY DEF TradeTyped, GoodsTyped
  <2>. QED
    BY <2>1
<1>2. f \in [Reps -> [Makes -> Int]] /\ \A r \in Reps, b \in Makes : f[r][b] = hand[r][b] * cost[b]
  BY <1>1, Commutes
<1>3. Trading!Sum(Reps, Trading!repStockList) = SumFunction([r \in Reps |-> SumFunction(f[r])])
  <2>1. \A r \in Reps : Trading!repStockList(r) = SumFunction(f[r])
    BY TradeSums DEF Trading!repStockList, Trading!Sum
  <2>. HIDE DEF f
  <2>2. [r \in Reps |-> Trading!repStockList(r)] = [r \in Reps |-> SumFunction(f[r])]
    BY <2>1
  <2>. QED
    BY <2>2, TradeSums DEF Trading!Sum
<1>. HIDE DEF f
<1>4. SumFunction([r \in Reps |-> SumFunction(f[r])]) = SumFunction(col)
  <2>1. IsFiniteSet(Makes) /\ IsFiniteSet(Reps)
    BY DeskAssumption
  <2>. QED
    BY ONLY <1>2, <2>1, SumExchange
<1>5. ASSUME NEW b \in Makes
      PROVE  SumFunction([r \in Reps |-> f[r][b]]) = (Trading!Stocked(b) - shelf[b]) * cost[b]
  <2>. DEFINE m == InHands(b)
  <2>1. m \in [Reps -> Int] /\ cost[b] \in Int /\ IsFiniteSet(Reps)
    <3>1. DOMAIN m = Reps /\ \A r \in Reps : m[r] \in Int
      BY <1>1, StockedIsSum
    <3>2. m \in [Reps -> Int]
      BY <3>1 DEF InHands
    <3>3. cost[b] \in Int
      BY <1>1, StockedIsSum DEF TradeTyped, GoodsTyped
    <3>4. IsFiniteSet(Reps)
      BY DeskAssumption
    <3>. QED
      BY <3>2, <3>3, <3>4
  <2>2. \A r \in Reps : f[r][b] = cost[b] * m[r]
    BY <1>1, <1>2, Commutes DEF InHands
  <2>. HIDE DEF m
  <2>3. [r \in Reps |-> f[r][b]] = [r \in Reps |-> cost[b] * m[r]]
    BY <2>2
  <2>4. SumFunction([r \in Reps |-> cost[b] * m[r]]) = cost[b] * SumFunction(m)
    BY <2>1, SumTimes
  <2>5. SumFunction(m) \in Int /\ shelf[b] \in Int /\ Trading!Stocked(b) = shelf[b] + SumFunction(m)
    <3>1. SumFunction(m) \in Nat /\ shelf[b] \in Nat
      BY StockedIsSum DEF m, TradeTyped, GoodsTyped
    <3>. QED
      BY <3>1, StockedIsSum DEF m
  <2>6. Trading!Stocked(b) - shelf[b] = SumFunction(m)
    BY <2>5
  <2>. QED
    BY <2>1, <2>3, <2>4, <2>5, <2>6, Commutes
<1>6. col = v
  BY <1>5
<1>7. Trading!valuation.reps = SumFunction(v)
  <2>1. \A b \in Makes : [d \in Makes |-> Trading!Stocked(d) - shelf[d]][b] * cost[b] = v[b]
    OBVIOUS
  <2>2. [b \in Makes |-> [d \in Makes |-> Trading!Stocked(d) - shelf[d]][b] * cost[b]] = v
    BY <2>1
  <2>. HIDE DEF v
  <2>3. Trading!Sum(Makes, LAMBDA b : [d \in Makes |-> Trading!Stocked(d) - shelf[d]][b] * cost[b]) = SumFunction(v)
    BY <2>2, TradeSums DEF Trading!Sum
  <2>. QED
    BY <2>3 DEF Trading!valuation
<1>. QED
  BY <1>3, <1>4, <1>6, <1>7

LEMMA BoxesShownAgree == Trading!boxesShown = Trading!valuation.units
<1>1. \A b \in Makes : Trading!brandBreakdown[b].units = Trading!Stocked(b)
  BY DEF Trading!brandBreakdown
<1>2. [b \in Makes |-> Trading!brandBreakdown[b].units] = [b \in Makes |-> Trading!Stocked(b)]
  BY <1>1
<1>3. Trading!Sum(Makes, LAMBDA b : Trading!brandBreakdown[b].units) = Trading!Sum(Makes, Trading!Stocked)
  BY <1>2 DEF Trading!Sum
<1>. QED
  BY <1>3 DEF Trading!boxesShown, Trading!valuation

LEMMA OwnersScreensAgree == TradeInv => Trading!FiguresAgree
<1>. SUFFICES ASSUME TradeInv PROVE Trading!FiguresAgree
  OBVIOUS
<1>1. TradeTyped /\ SalesPosted
  BY DEF TradeInv
<1>2. ASSUME NEW p \in {"month", "all"}
      PROVE  LET W == Trading!WindowOf(p)
                 o == Trading!profitOverview(W)
                 net == o.totals.revenue
                 s == Trading!salesReport(W)
                 region == Trading!regionalPerformance(W)
                 rep1 == Trading!revenueByRep(W)
                 listed == Trading!productPerformance(W)
                 c == Trading!cashflow(W)
                 unposted == {x \in Trading!SoldIn(Trading!Clamped(W)) : trade[x].posted = "no"}
             IN /\ s.revenue = net /\ s.cash + s.credit = net
                /\ Trading!profitReport(W).revenue = net
                /\ Trading!profitByPeriods({p})[p].totals = o.totals
                /\ net = Trading!Sum(Makes, LAMBDA b : o.byBrand[b].revenue)
                /\ net = Trading!Sum(Trading!Everyone, LAMBDA r : o.byRep[r].revenue)
                /\ net = Trading!Sum(Trading!Everyone, LAMBDA r : region[r].revenue)
                /\ net = Trading!Sum(Reps, LAMBDA r : rep1[r]) + o.byRep["direct"].revenue
                /\ net + s.discounts = Trading!Sum(Makes, LAMBDA b : listed[b].revenue)
                /\ (\A x \in Trading!Live : trade[x].unitCost > 0) => s.cost = o.totals.cost
                /\ open = Makes =>
                     /\ Trading!flow(p) = [in |-> c.in, out |-> c.out]
                     /\ net - Trading!Sum(unposted, Trading!Total)
                          = Trading!Entered({"SALE"}, Makes, Trading!Clamped(W))
                /\ p = "all" => c.closing = Trading!cashPosition
  <2>. DEFINE S == Trading!SoldIn(Trading!Clamped(Trading!WindowOf(p)))
  <2>1. S \in SUBSET Trading!Live
    BY <1>1, WindowIsPart, SoldRow
  <2>2. (\A x \in Trading!Live : trade[x].unitCost > 0)
          => SumFunction([x \in S |-> trade[x].unitCost]) = CostsOf(S)
    BY <1>1, <2>1, CostsAgree
  <2>3. S = Trading!SoldIn(Trading!Clamped(Trading!WindowOf(p)))
    OBVIOUS
  <2>4. LET s == Trading!salesReport(Trading!WindowOf(p))
        IN /\ s.revenue = Net(S) /\ s.cash + s.credit = Net(S)
           /\ s.discounts = Discounts(S) /\ s.cost = SumFunction([x \in S |-> trade[x].unitCost])
    BY <1>1, SalesReportAgrees
  <2>5. LET W == Trading!WindowOf(p)
            o == Trading!profitOverview(W)
        IN /\ o.totals.revenue = Net(S) /\ o.totals.cost = CostsOf(S)
           /\ Trading!profitReport(W).revenue = Net(S)
           /\ Trading!profitByPeriods({p})[p].totals = o.totals
           /\ Net(S) = Trading!Sum(Makes, LAMBDA b : o.byBrand[b].revenue)
           /\ Net(S) = Trading!Sum(Trading!Everyone, LAMBDA r : o.byRep[r].revenue)
           /\ Net(S) = Trading!Sum(Trading!Everyone, LAMBDA r : Trading!regionalPerformance(W)[r].revenue)
           /\ Net(S) = Trading!Sum(Reps, LAMBDA r : Trading!revenueByRep(W)[r]) + o.byRep["direct"].revenue
           /\ Net(S) + Discounts(S) = Trading!Sum(Makes, LAMBDA b : Trading!productPerformance(W)[b].revenue)
    BY <1>1, ScreensAddUp
  <2>6. open = Makes =>
          LET W == Trading!WindowOf(p)
              c == Trading!cashflow(W)
              unposted == {x \in S : trade[x].posted = "no"}
          IN /\ Trading!flow(p) = [in |-> c.in, out |-> c.out]
             /\ Net(S) - Trading!Sum(unposted, Trading!Total)
                  = Trading!Entered({"SALE"}, Makes, Trading!Clamped(W))
    BY <1>1, StripsAgree
  <2>7. p = "all" => Trading!cashflow(Trading!WindowOf(p)).closing = Trading!cashPosition
    BY <1>1, ClosingIsCash
  <2>. QED
    BY <2>2, <2>4, <2>5, <2>6, <2>7, Zenon
<1>3. Trading!supplierDue >= 0 => Trading!supplierOutstanding = Trading!supplierDue
  <2>1. Trading!supplierDue \in Int /\ Ordered - Credited - Paid = Trading!supplierDue
    BY <1>1, SuppliersAreOwed
  <2>2. Trading!supplierOutstanding = IF Trading!supplierDue > 0 THEN Trading!supplierDue ELSE 0
    BY <1>1, <2>1, SuppliersAreOwed
  <2>. QED
    BY <2>1, <2>2
<1>4. \A b \in open : Trading!cashSplit(Trading!Months)[b].yours + Trading!cashSplit(Trading!Months)[b].setAside
                        = Trading!accountBalances[b]
  BY <1>1, CashSplits
<1>. QED
  BY <1>1, <1>2, <1>3, <1>4, RepsStockAgrees, BoxesShownAgree, Zenon DEF Trading!FiguresAgree

-----------------------------------------------------------------------------
(* The boxes of a product at some places, and of a place.                  *)
LEMMA PlacesAreFinite ==
  /\ IsFiniteSet(Location) /\ IsFiniteSet(Products)
  /\ Warehouses \in SUBSET Location /\ Reps \in SUBSET Location /\ Location \ Warehouses = Reps
  /\ \A S \in SUBSET Location : IsFiniteSet(S)
<1>1. IsFiniteSet(Location)
  BY LedgerAssumption, FS_Union DEF Location
<1>. QED
  BY <1>1, LedgerAssumption, FS_Subset DEF Location

LEMMA BoxesAtPlaces ==
  ASSUME balance \in [Cell -> Int], NEW p \in Products, NEW S \in SUBSET Location
  PROVE  /\ \A l \in S : balance[<<p, l>>] \in Int
         /\ Boxes(p, S) = SumFunction([l \in S |-> balance[<<p, l>>]])
         /\ Boxes(p, S) \in Int
<1>. DEFINE f == [l \in S |-> balance[<<p, l>>]]
<1>1. \A l \in S : balance[<<p, l>>] \in Int
  BY DEF Cell
<1>2. DOMAIN f = S /\ \A l \in DOMAIN f : f[l] \in Int
  BY <1>1
<1>3. Boxes(p, S) = SumFunction(f)
  BY DEF Boxes, SumOf
<1>. HIDE DEF f
<1>4. SumFunction(f) \in Int
  BY <1>2, PlacesAreFinite, SumFunctionIsInt
<1>. QED
  BY <1>1, <1>3, <1>4 DEF f

LEMMA BoxesSplit ==
  ASSUME balance \in [Cell -> Int], NEW p \in Products, NEW S \in SUBSET Location, NEW A \in SUBSET S
  PROVE  Boxes(p, S) = Boxes(p, A) + Boxes(p, S \ A)
<1>. DEFINE v == [l \in S |-> balance[<<p, l>>]]
<1>1. IsFiniteSet(S) /\ \A l \in S : v[l] \in Int
  BY PlacesAreFinite, BoxesAtPlaces
<1>2. /\ [l \in S |-> v[l]] = [l \in S |-> balance[<<p, l>>]]
      /\ [l \in A |-> v[l]] = [l \in A |-> balance[<<p, l>>]]
      /\ [l \in S \ A |-> v[l]] = [l \in S \ A |-> balance[<<p, l>>]]
  OBVIOUS
<1>3. /\ Boxes(p, S) = SumFunction([l \in S |-> v[l]])
      /\ Boxes(p, A) = SumFunction([l \in A |-> v[l]])
      /\ Boxes(p, S \ A) = SumFunction([l \in S \ A |-> v[l]])
  BY <1>2 DEF Boxes, SumOf
<1>. HIDE DEF v
<1>4. SumFunction([l \in S |-> v[l]]) = SumFunction([l \in A |-> v[l]]) + SumFunction([l \in S \ A |-> v[l]])
  BY <1>1, SumInTwo
<1>. QED
  BY <1>3, <1>4

(* Places that hold nothing count for nothing. *)
LEMMA OnlyPlacesCount ==
  ASSUME balance \in [Cell -> Int], NEW p \in Products, NEW S \in SUBSET Location
  PROVE  Boxes(p, Places(p) \cap S) = Boxes(p, S)
<1>. DEFINE A == Places(p) \cap S
            e == [l \in S \ A |-> balance[<<p, l>>]]
<1>1. A \in SUBSET S /\ S \ A \in SUBSET Location /\ A \in SUBSET Location
  OBVIOUS
<1>2. \A l \in S \ A : balance[<<p, l>>] = 0
  BY DEF Places
<1>3. DOMAIN e = S \ A /\ \A l \in DOMAIN e : e[l] = 0
  BY <1>2
<1>4. Boxes(p, S \ A) = SumFunction(e)
  BY DEF Boxes, SumOf
<1>. HIDE DEF A, e
<1>5. SumFunction(e) = 0
  BY <1>1, <1>3, PlacesAreFinite, SumOfZeros
<1>6. Boxes(p, S) = Boxes(p, A) + Boxes(p, S \ A) /\ Boxes(p, A) \in Int
  BY <1>1, BoxesSplit, BoxesAtPlaces
<1>7. Boxes(p, A) = Boxes(p, S)
  BY <1>4, <1>5, <1>6
<1>. QED
  BY <1>7 DEF A

(* The figures of one product are one: the stock page's total, the list's,  *)
(* the product page's, and the valuation's two parts.                      *)
LEMMA ProductFigures ==
  ASSUME balance \in [Cell -> Int], NEW p \in Products
  PROVE  /\ TotalBase(p) = Boxes(p, Location) /\ InStore(p) = Boxes(p, Warehouses)
         /\ OnHand(p) = TotalBase(p) /\ ProductPage(p) = TotalBase(p)
         /\ Valuation(p) = [warehouse |-> InStore(p), rep |-> TotalBase(p) - InStore(p)]
         /\ TotalBase(p) = InStore(p) + Boxes(p, Reps)
         /\ TotalBase(p) \in Int /\ InStore(p) \in Int /\ Boxes(p, Reps) \in Int
<1>1. Places(p) \cap Location = Places(p)
  BY DEF Places
<1>2. TotalBase(p) = Boxes(p, Location)
  BY <1>1, OnlyPlacesCount DEF TotalBase
<1>3. InStore(p) = Boxes(p, Warehouses)
  BY PlacesAreFinite, OnlyPlacesCount DEF InStore
<1>4. OnHand(p) = Boxes(p, Location)
  BY DEF OnHand, Boxes
<1>5. Boxes(p, Location) = Boxes(p, Warehouses) + Boxes(p, Reps)
  BY PlacesAreFinite, BoxesSplit
<1>6. Boxes(p, Location) \in Int /\ Boxes(p, Warehouses) \in Int /\ Boxes(p, Reps) \in Int
  BY PlacesAreFinite, BoxesAtPlaces
<1>7. Boxes(p, Location) - Boxes(p, Warehouses) = Boxes(p, Reps)
  BY <1>5, <1>6
<1>. QED
  BY <1>2, <1>3, <1>4, <1>5, <1>6, <1>7 DEF ProductPage, Valuation

(* What every place holds adds up to what there is of every product. *)
Held(l) == SumFunction([q \in Products |-> balance[<<q, l>>]])
LEMMA EveryBoxIsSomewhere ==
  ASSUME balance \in [Cell -> Int]
  PROVE  /\ \A l \in Location : Held(l) \in Int /\ HolderBoxes(l) = Held(l)
         /\ Summary.totalBoxes = SumFunction([l \in Location |-> Held(l)])
         /\ Summary.totalBoxes = Summary.warehouseBoxes + Summary.repBoxes
<1>. DEFINE f == [q \in Products |-> [l \in Location |-> balance[<<q, l>>]]]
            col == [l \in Location |-> SumFunction([q \in Products |-> f[q][l]])]
            v == [l \in Location |-> Held(l)]
<1>1. f \in [Products -> [Location -> Int]] /\ \A q \in Products, l \in Location : f[q][l] = balance[<<q, l>>]
  BY DEF Cell
<1>2. \A q \in Products : TotalBase(q) = SumFunction(f[q])
  BY ProductFigures DEF Boxes, SumOf
<1>3. ASSUME NEW l \in Location PROVE Held(l) \in Int
  <2>. DEFINE h1 == [q \in Products |-> balance[<<q, l>>]]
  <2>1. DOMAIN h1 = Products /\ \A q \in DOMAIN h1 : h1[q] \in Int
    BY DEF Cell
  <2>2. Held(l) = SumFunction(h1)
    BY DEF Held
  <2>. HIDE DEF h1
  <2>. QED
    BY <2>1, <2>2, PlacesAreFinite, SumFunctionIsInt
<1>4. \A l : HolderBoxes(l) = Held(l)
  BY DEF HolderBoxes, HolderValue, SumOf, Held
<1>. HIDE DEF f
<1>5. Summary.totalBoxes = SumFunction([q \in Products |-> SumFunction(f[q])])
  <2>1. [q \in Products |-> TotalBase(q)] = [q \in Products |-> SumFunction(f[q])]
    BY <1>2
  <2>. QED
    BY <2>1 DEF Summary, SumOf
<1>6. SumFunction([q \in Products |-> SumFunction(f[q])]) = SumFunction(col)
  <2>1. IsFiniteSet(Products) /\ IsFiniteSet(Location)
    BY PlacesAreFinite
  <2>. QED
    BY ONLY <1>1, <2>1, SumExchange
<1>7. col = v
  <2>1. ASSUME NEW l \in Location PROVE SumFunction([q \in Products |-> f[q][l]]) = Held(l)
    <3>1. [q \in Products |-> f[q][l]] = [q \in Products |-> balance[<<q, l>>]]
      BY <1>1
    <3>. QED
      BY <3>1 DEF Held
  <2>. QED
    BY <2>1
<1>8. /\ Summary.warehouseBoxes = SumFunction([l \in Warehouses |-> v[l]])
      /\ Summary.repBoxes = SumFunction([l \in Location \ Warehouses |-> v[l]])
  <2>1. [l \in Warehouses |-> v[l]] = [l \in Warehouses |-> HolderBoxes(l)]
    BY <1>4, PlacesAreFinite
  <2>2. [l \in Reps |-> v[l]] = [l \in Reps |-> HolderBoxes(l)]
    BY <1>4, PlacesAreFinite
  <2>3. Summary.warehouseBoxes = SumFunction([l \in Warehouses |-> HolderBoxes(l)])
        /\ Summary.repBoxes = SumFunction([l \in Reps |-> HolderBoxes(l)])
    BY DEF Summary, SumOf
  <2>. HIDE DEF v
  <2>. QED
    BY <2>1, <2>2, <2>3, PlacesAreFinite
<1>9. v = [l \in Location |-> v[l]] /\ \A l \in Location : v[l] \in Int
  BY <1>3
<1>10. v = [l \in Location |-> Held(l)]
  OBVIOUS
<1>. HIDE DEF v, col
<1>11. SumFunction([l \in Location |-> v[l]])
         = SumFunction([l \in Warehouses |-> v[l]]) + SumFunction([l \in Location \ Warehouses |-> v[l]])
  BY <1>9, PlacesAreFinite, SumInTwo
<1>. QED
  BY <1>3, <1>4, <1>5, <1>6, <1>7, <1>8, <1>9, <1>10, <1>11

(* Nor is a shilling lost: while no product is below zero, the values of    *)
(* the places add up to all boxes at one each.                             *)
LEMMA Commuting == ASSUME NEW m \in Int, NEW n \in Int PROVE m * n = n * m /\ m * n \in Int
OBVIOUS

Worth(l) == SumFunction([q \in Products |-> balance[<<q, l>>] * PerBox(q)])
LEMMA EveryBoxIsPaid ==
  ASSUME balance \in [Cell -> Int], \A p \in Products : TotalBase(p) >= 0
  PROVE  SumFunction([l \in Location |-> Worth(l)]) = SumFunction([p \in Products |-> TotalBase(p)])
<1>. DEFINE f == [l \in Location |-> [q \in Products |-> balance[<<q, l>>] * PerBox(q)]]
            col == [q \in Products |-> SumFunction([l \in Location |-> f[l][q]])]
<1>1. \A q \in Products, l \in Location : balance[<<q, l>>] \in Int
  BY DEF Cell
<1>2. \A q \in Products : PerBox(q) \in Int
  BY DEF PerBox
<1>3. f \in [Location -> [Products -> Int]]
      /\ \A q \in Products, l \in Location : f[l][q] = balance[<<q, l>>] * PerBox(q)
  <2>1. \A q \in Products, l \in Location : balance[<<q, l>>] * PerBox(q) \in Int
    BY <1>1, <1>2, Commuting
  <2>. QED
    BY <2>1
<1>4. [l \in Location |-> Worth(l)] = [l \in Location |-> SumFunction(f[l])]
  BY DEF Worth
<1>. HIDE DEF f
<1>5. SumFunction([l \in Location |-> SumFunction(f[l])]) = SumFunction(col)
  <2>1. IsFiniteSet(Products) /\ IsFiniteSet(Location)
    BY PlacesAreFinite
  <2>. QED
    BY ONLY <1>3, <2>1, SumExchange
<1>6. ASSUME NEW q \in Products PROVE SumFunction([l \in Location |-> f[l][q]]) = TotalBase(q)
  <2>. DEFINE b == [l \in Location |-> balance[<<q, l>>]]
  <2>1. b \in [Location -> Int] /\ PerBox(q) \in Int /\ \A l \in Location : b[l] = balance[<<q, l>>]
    BY <1>1, <1>2
  <2>2. SumFunction(b) = TotalBase(q) /\ TotalBase(q) \in Int
    BY ProductFigures DEF Boxes, SumOf
  <2>. HIDE DEF b
  <2>3. [l \in Location |-> f[l][q]] = [l \in Location |-> PerBox(q) * b[l]]
    <3>1. ASSUME NEW l \in Location PROVE f[l][q] = PerBox(q) * b[l]
      <4>1. balance[<<q, l>>] \in Int /\ f[l][q] = balance[<<q, l>>] * PerBox(q) /\ b[l] = balance[<<q, l>>]
        BY <1>1, <1>3, <2>1
      <4>. QED
        BY <2>1, <4>1, Commuting
    <3>. QED
      BY <3>1
  <2>4. SumFunction([l \in Location |-> PerBox(q) * b[l]]) = PerBox(q) * SumFunction(b)
    BY <2>1, PlacesAreFinite, SumTimes
  <2>5. PerBox(q) * TotalBase(q) = TotalBase(q)
    <3>1. CASE TotalBase(q) > 0
      BY <2>2, <3>1 DEF PerBox
    <3>2. CASE TotalBase(q) = 0
      BY <2>1, <3>2
    <3>. QED
      BY <2>2, <3>1, <3>2
  <2>. QED
    BY <2>2, <2>3, <2>4, <2>5
<1>7. col = [q \in Products |-> TotalBase(q)]
  BY <1>6
<1>. QED
  BY <1>4, <1>5, <1>7

(* The list of the reps shows what the page of a rep shows, where nothing  *)
(* of his was drawn on twice.                                              *)
LEMMA RepListAgrees ==
  ASSUME balance \in [Cell -> Int], NeverNegative, NEW r \in Reps, \A p \in Products : <<p, r>> \notin raced
  PROVE  HeldUnits(r) = OnThePage(r)
<1>1. \A p \in Products : balance[<<p, r>>] \in Int /\ balance[<<p, r>>] >= 0
  BY DEF NeverNegative, Cell, Location
<1>2. \A n \in Int : n >= 0 => Max({n, 0}) = n
  BY DEF Max
<1>3. [p \in Products |-> Max({balance[<<p, r>>], 0})] = [p \in Products |-> balance[<<p, r>>]]
  BY <1>1, <1>2
<1>. QED
  BY <1>3 DEF HeldUnits, OnThePage, SumOf

(* The alert counts the store's boxes, where no rebuild is at work or left  *)
(* them wrong, and rings for every product that is low.                    *)
LEMMA AlertsAgree ==
  ASSUME balance \in [Cell -> Int], NeverNegative, DriftExplained, NEW p \in Products,
         ~ \E w \in Warehouses : <<p, w>> \in rtodo \cup torn
  PROVE  /\ AlertStock(p) = InStore(p)
         /\ (\A r \in Reps : <<p, r>> \notin raced) =>
              \A min \in Minimums : Badge(TotalBase(p), min) # "OK" => Alert(p, min) # "none"
<1>1. \A w \in Warehouses : cache[<<p, w>>] = balance[<<p, w>>]
  BY DEF DriftExplained, Cell, Location
<1>2. [w \in Warehouses |-> cache[<<p, w>>]] = [w \in Warehouses |-> balance[<<p, w>>]]
  BY <1>1
<1>3. AlertStock(p) = Boxes(p, Warehouses)
  BY <1>2 DEF AlertStock, Boxes, SumOf
<1>4. AlertStock(p) = InStore(p)
  BY <1>3, ProductFigures
<1>5. ASSUME \A r \in Reps : <<p, r>> \notin raced, NEW min \in Minimums, Badge(TotalBase(p), min) # "OK"
      PROVE  Alert(p, min) # "none"
  <2>. DEFINE b == [r \in Reps |-> balance[<<p, r>>]]
  <2>1. \A r \in Reps : balance[<<p, r>>] \in Int /\ balance[<<p, r>>] >= 0
    BY <1>5 DEF NeverNegative, Cell, Location
  <2>2. DOMAIN b = Reps /\ \A r \in DOMAIN b : b[r] \in Nat
    BY <2>1
  <2>3. Boxes(p, Reps) = SumFunction(b)
    BY DEF Boxes, SumOf
  <2>. HIDE DEF b
  <2>4. SumFunction(b) \in Nat
    BY <2>2, LedgerAssumption, SumFunctionIsNat
  <2>5. InStore(p) \in Int /\ TotalBase(p) \in Int /\ InStore(p) <= TotalBase(p)
    <3>1. Boxes(p, Reps) >= 0 /\ Boxes(p, Reps) \in Int /\ InStore(p) \in Int /\ TotalBase(p) \in Int
          /\ TotalBase(p) = InStore(p) + Boxes(p, Reps)
      BY <2>3, <2>4, ProductFigures
    <3>. QED
      BY <3>1
  <2>6. min \in Nat /\ min >= 1
    BY ScreensAssumption
  <2>7. TotalBase(p) <= min
    BY <1>5, <2>5, <2>6 DEF Badge
  <2>8. ~(AlertStock(p) > min) /\ min # 0
    BY <1>4, <2>5, <2>6, <2>7
  <2>. QED
    BY <2>8 DEF Alert
<1>. QED
  BY <1>4, <1>5

LEMMA BadgesAgree ==
  ASSUME balance \in [Cell -> Int], NEW min \in Minimums, NEW p \in Products
  PROVE  /\ Badge(TotalBase(p), min) = ListBadge(p, min)
         /\ p \in LowStock(min) <=> Badge(TotalBase(p), min) # "OK"
<1>1. OnHand(p) = TotalBase(p) /\ TotalBase(p) \in Int
  BY ProductFigures
<1>2. min \in Nat /\ min >= 1
  BY ScreensAssumption
<1>3. p \in LowStock(min) <=> OnHand(p) <= min
  BY <1>2 DEF LowStock
<1>4. Badge(TotalBase(p), min) = ListBadge(p, min)
  BY <1>1, <1>2, <1>3 DEF Badge, ListBadge
<1>5. p \in LowStock(min) <=> Badge(TotalBase(p), min) # "OK"
  BY <1>1, <1>2, <1>3 DEF Badge
<1>. QED
  BY <1>4, <1>5

LEMMA StockScreensAgree ==
  ASSUME balance \in [Cell -> Int], NeverNegative, DriftExplained
  PROVE  StockFiguresAgree
<1>1. \A p \in Products :
        /\ OnHand(p) = TotalBase(p) /\ ProductPage(p) = TotalBase(p)
        /\ Valuation(p) = [warehouse |-> InStore(p), rep |-> TotalBase(p) - InStore(p)]
  BY ProductFigures
<1>2. \A p \in Products : \A min \in Minimums :
        /\ Badge(TotalBase(p), min) = ListBadge(p, min)
        /\ p \in LowStock(min) <=> Badge(TotalBase(p), min) # "OK"
  BY BadgesAgree
<1>3. \A p \in Products :
        \/ \E w \in Warehouses : <<p, w>> \in rtodo \cup torn
        \/ /\ AlertStock(p) = InStore(p)
           /\ (\A r \in Reps : <<p, r>> \notin raced) =>
                \A min \in Minimums : Badge(TotalBase(p), min) # "OK" => Alert(p, min) # "none"
  BY AlertsAgree
<1>4. Summary.totalBoxes = Summary.warehouseBoxes + Summary.repBoxes
  BY EveryBoxIsSomewhere
<1>5. (\A p \in Products : TotalBase(p) >= 0) => SumOf(Location, HolderValue) = Summary.totalBoxes
  <2>1. \A l : HolderValue(l) = Worth(l)
    BY DEF HolderValue, SumOf, Worth
  <2>2. SumOf(Location, HolderValue) = SumFunction([l \in Location |-> Worth(l)])
    BY <2>1 DEF SumOf
  <2>3. Summary.totalBoxes = SumFunction([p \in Products |-> TotalBase(p)])
    BY DEF Summary, SumOf
  <2>. QED
    BY <2>2, <2>3, EveryBoxIsPaid
<1>6. \A r \in Reps : HeldUnits(r) # OnThePage(r) => \E p \in Products : <<p, r>> \in raced
  BY RepListAgrees
<1>. QED
  BY <1>1, <1>2, <1>3, <1>4, <1>5, <1>6, Zenon DEF StockFiguresAgree

-----------------------------------------------------------------------------
(* What the stock pages rest on: typed cells, a guarded engine and caches  *)
(* whose drift is explained.                                               *)
CellsHold == balance \in [Cell -> Int] /\ NeverNegative /\ DriftExplained

(* The screens that show one figure show one number: profit and loss, the  *)
(* sales report, the cash flow, the accounts and the dashboards on one      *)
(* side; on the other the stock screens, which disagree only at cells that *)
(* a race, a rebuild or a deletion has touched.                            *)
THEOREM FiguresAlwaysAgree == DeskSpec => []FiguresAgree
<1>1. DeskInit => Init /\ TradeInv
  BY TradeInitInv DEF DeskInit
<1>2. TypeOK => balance \in [Cell -> Int]
  BY DEF TypeOK
<1>3. TradeInv /\ CellsHold => FiguresAgree
  <2>. SUFFICES ASSUME TradeInv, CellsHold PROVE FiguresAgree
    OBVIOUS
  <2>1. Trading!FiguresAgree
    BY OwnersScreensAgree
  <2>2. StockFiguresAgree
    BY StockScreensAgree DEF CellsHold
  <2>. QED
    BY <2>1, <2>2 DEF FiguresAgree
<1>4. LedgerInv => TypeOK
  BY DEF LedgerInv
<1>5. DeskSpec => []TradeInv
  BY <1>1, TradeStepKeeps, DeskStepsTrade, PTL DEF DeskSpec
<1>6. DeskSpec => Spec
  BY <1>1, DeskStepsLedger, PTL DEF DeskSpec, Spec
<1>7. Spec => []TypeOK
  BY <1>4, LedgerInitInv, LedgerStepKeeps, PTL DEF Spec
<1>8. TypeOK /\ NeverNegative /\ DriftExplained => CellsHold
  BY <1>2 DEF CellsHold
<1>. QED
  BY <1>3, <1>5, <1>6, <1>7, <1>8, StockNegativeOnlyWhenRaced, CacheDriftIsExplained, PTL
===============================================================================
