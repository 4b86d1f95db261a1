--------------------------- MODULE InventoryScreens ---------------------------
(***************************************************************************)
(* The stock figures people see, over the state of InventoryLedger: the    *)
(* balances of Inventory.jsx, the pages of a product, a warehouse and a    *)
(* rep, the valuation, and the low-stock alerts.  All but the alerts add   *)
(* up ledger rows; the alerts read the cache of the warehouses.  Nothing   *)
(* here changes the state.  A box costs one unit, and the minimum level of *)
(* a product is whatever the owner set.                                    *)
(***************************************************************************)
EXTENDS InventoryLedger, FiniteSetsExt

CONSTANT Minimums  \* the minimum levels looked at

ASSUME ScreensAssumption == Minimums \subseteq Nat \ {0}

SumOf(S, f(_)) == SumFunction([x \in S |-> f(x)])

(* balances: the places with something of p, good or bad, and their sum.   *)
Places(p) == {l \in Location : balance[<<p, l>>] # 0}
Boxes(p, S) == SumOf(S, LAMBDA l : balance[<<p, l>>])
TotalBase(p) == Boxes(p, Places(p))

(* ProductStockModal: the store; the rest is with the reps. *)
InStore(p) == Boxes(p, Places(p) \cap Warehouses)

(* The summary of every row: what the cards on top of the page say.        *)
PerBox(p) == IF TotalBase(p) > 0 THEN 1 ELSE 0
HolderBoxes(l) == SumOf(Products, LAMBDA p : balance[<<p, l>>])
HolderValue(l) == SumOf(Products, LAMBDA p : balance[<<p, l>>] * PerBox(p))
Summary ==
  [totalBoxes |-> SumOf(Products, TotalBase),
   warehouseBoxes |-> SumOf(Warehouses, HolderBoxes),
   repBoxes |-> SumOf(Reps, HolderBoxes)]

(* The badge of a product card; the cards on top count the badges.         *)
Badge(boxes, min) ==
  IF boxes <= 0 THEN "Out" ELSE IF min > 0 /\ boxes <= min THEN "Low" ELSE "OK"

(* productOnHand, and the product list; lowStock, for the dashboard.       *)
OnHand(p) == SumOf(Location, LAMBDA l : balance[<<p, l>>])
LowStock(min) == {p \in Products : min > 0 /\ OnHand(p) <= min}
ListBadge(p, min) ==
  IF OnHand(p) <= 0 THEN "Out" ELSE IF p \in LowStock(min) THEN "Low" ELSE "OK"

(* getProduct, and valuation, which keeps the two kinds apart.             *)
ProductPage(p) == Boxes(p, Warehouses) + Boxes(p, Reps)
Valuation(p) == [warehouse |-> Boxes(p, Warehouses), rep |-> Boxes(p, Reps)]

(* The page of a warehouse and of a rep show every balance; the list of    *)
(* the reps, and the alert about stock they hold, only what is above zero. *)
OnThePage(l) == SumOf(Products, LAMBDA p : balance[<<p, l>>])
HeldUnits(r) == SumOf(Products, LAMBDA p : Max({balance[<<p, r>>], 0}))

(* checkProductLowStock and its copy for the phone: the cached stock of    *)
(* all warehouses.                                                         *)
(* Mutant: the alert counts what the reps hold as well. *)
AlertStockEverywhere(p) == SumOf(Location, LAMBDA l : cache[<<p, l>>])
AlertStock(p) == SumOf(Warehouses, LAMBDA w : cache[<<p, w>>])
Alert(p, min) ==
  LET left == AlertStock(p)
  IN IF min = 0 \/ left > min THEN "none" ELSE IF left <= 0 THEN "out" ELSE "low"

-----------------------------------------------------------------------------
(* One stock, one figure: the list, the page and the card of a product and *)
(* the valuation count the same boxes, and what the list and the dashboard *)
(* call running low is what the stock page calls low or out; the places    *)
(* "add up to everything" and, unless a product is below zero, so do their *)
(* values.  The list of the reps may differ from the page of a rep only    *)
(* where two handlers drew on its boxes at once.  An alert counts the      *)
(* boxes in the store, unless a rebuild is rewriting them or left them     *)
(* wrong; and no product the stock page calls low or out escapes it for    *)
(* another reason.                                                         *)
StockFiguresAgree ==
  /\ \A p \in Products :
       LET total == TotalBase(p)
           store == InStore(p)
       IN
       /\ OnHand(p) = total /\ ProductPage(p) = total
       /\ Valuation(p) = [warehouse |-> store, rep |-> total - store]
       /\ \A min \in Minimums :
            /\ Badge(total, min) = ListBadge(p, min)
            /\ p \in LowStock(min) <=> Badge(total, min) # "OK"
       /\ \/ \E w \in Warehouses : <<p, w>> \in rtodo \cup torn
          \/ /\ AlertStock(p) = store
             /\ (\A r \in Reps : <<p, r>> \notin raced) =>
                  \A min \in Minimums : Badge(total, min) # "OK" => Alert(p, min) # "none"
  /\ LET all == Summary
     IN
     /\ all.totalBoxes = all.warehouseBoxes + all.repBoxes
     /\ (\A p \in Products : TotalBase(p) >= 0) => SumOf(Location, HolderValue) = all.totalBoxes
  /\ \A r \in Reps : HeldUnits(r) # OnThePage(r) => \E p \in Products : <<p, r>> \in raced
===============================================================================
