-------------------------------- MODULE MCDesk --------------------------------
(* The books that share no table - the stock ledger, purchase orders,       *)
(* customer credit, stock requests, the account of a rep, the users, and    *)
(* the trade behind the owner's figures - checked side by side: desk says   *)
(* whose requests come in, so the run explores the union of their           *)
(* behaviours and not the product.                                          *)
EXTENDS InventoryScreens

CONSTANTS Orders, Sales, Requests, Goods, Accounts, Admin, Makes, Tills,
  OnShelf, MaxTransfers, MaxEdits,                        \* of Dispatch
  MaxCost, MaxPaid, MaxBalance, MaxAmends, MaxLandings,   \* of Purchasing
  MaxPrincipal, MaxIssues,       \* of CustomerCredit; MaxMoves of RepAccounts
  Price, BoxCosts, Rate, Capital, MaxEvents    \* of Figures; the wallets' opening balance

ASSUME DeskAssumption ==
  /\ IsFiniteSet(Orders) /\ IsFiniteSet(Sales) /\ IsFiniteSet(Requests) /\ IsFiniteSet(Goods)
  /\ IsFiniteSet(Accounts) /\ Admin \in Accounts
  /\ {OnShelf, MaxTransfers, MaxIssues, MaxCost, MaxPaid, MaxBalance} \subseteq Nat
  /\ IsFiniteSet(Makes) /\ IsFiniteSet(Tills) /\ IsFiniteSet(Reps) /\ {"direct", "no"} \cap (Reps \cup Makes) = {}
  /\ Makes # {} /\ Tills # {}
  /\ Price \in Nat \ {0} /\ 1 \in BoxCosts /\ BoxCosts \subseteq Nat \ {0} /\ Rate \in Nat /\ Capital \in Int
  /\ "direct" \notin Requests

VARIABLES desk,
  po, paid, balancePaid, returned, arrived, h, amends, crossed, touched, loose,
  sale, credit, received, due, back, payer, overlapped,
  request, transfer, boxes, sold, clerk, contested, cut, undoneTwice,
  login, rep, held, history, orders, moves, removing, swallowed, reset, mixed,
  user, admin, clashed, stepped,
  trade, debt, shelf, hand, cost, bill, book, payouts, draw, fined, open, staff, written,
  month, epoch, events

Purchase == INSTANCE PurchaseScreens
Credit == INSTANCE SaleScreens WITH paid <- received, h <- payer, crossed <- overlapped
Stock == INSTANCE StockScreens WITH h <- clerk, crossed <- contested
RepAccount == INSTANCE RepAccounts
  WITH Products <- Goods, MaxMoves <- MaxIssues, h <- removing, crossed <- mixed
Account == INSTANCE Users WITH First <- Admin, h <- admin, crossed <- clashed
Trading == INSTANCE Figures
  WITH Brands <- Makes, Team <- Reps, Slots <- Tills, Costs <- BoxCosts,
       Opening <- [m \in Makes |-> Capital], sale <- trade, costPrice <- cost

purchaseVars == <<po, paid, balancePaid, returned, arrived, h, amends, crossed, touched, loose>>
creditVars == <<sale, credit, received, due, back, payer, overlapped>>
stockVars == <<request, transfer, boxes, sold, clerk, contested, cut, undoneTwice>>
repVars == <<login, rep, held, history, orders, moves, removing, swallowed, reset, mixed>>
userVars == <<user, admin, clashed, stepped>>
tradeVars == <<trade, debt, shelf, hand, cost, bill, book, payouts, draw, fined, open, staff,
               written, month, epoch, events>>
goodsVars == <<desk, purchaseVars, creditVars, stockVars>>
people == <<repVars, userVars>>

DeskInit ==
  /\ desk \in {"ledger", "purchase", "credit", "stock", "rep", "user", "trade"}
  /\ Init /\ Purchase!Init /\ Credit!Init /\ Stock!Init
  /\ RepAccount!Init /\ Account!Init
  /\ Trading!Init
  /\ desk = "trade" \/ Trading!NothingPosted

DeskNext ==
  \/ desk = "ledger" /\ Next /\ UNCHANGED <<goodsVars, people, tradeVars>>
  \/ desk = "trade" /\ Trading!Next /\ UNCHANGED <<vars, goodsVars, people>>
  \/ /\ UNCHANGED <<desk, vars, people, tradeVars>>
     /\ \/ desk = "purchase" /\ Purchase!Next /\ UNCHANGED <<creditVars, stockVars>>
        \/ desk = "credit" /\ Credit!Next /\ UNCHANGED <<purchaseVars, stockVars>>
        \/ desk = "stock" /\ Stock!Next /\ UNCHANGED <<purchaseVars, creditVars>>
  \/ /\ UNCHANGED <<vars, goodsVars, tradeVars>>
     /\ \/ desk = "rep" /\ RepAccount!Next /\ UNCHANGED userVars
        \/ desk = "user" /\ Account!Next /\ UNCHANGED repVars

DeskSpec == DeskInit /\ [][DeskNext]_<<vars, goodsVars, people, tradeVars>>

Symmetry == Permutations(Sessions)

(* The books of the other desks never change, so the books of the desk at  *)
(* work tell one state of the run from another.                            *)
View ==
  CASE desk = "ledger" -> <<desk, vars>>
    [] desk = "purchase" -> <<desk, purchaseVars>>
    [] desk = "credit" -> <<desk, creditVars>>
    [] desk = "stock" -> <<desk, stockVars>>
    [] desk = "rep" -> <<desk, repVars>>
    [] desk = "user" -> <<desk, userVars>>
    [] desk = "trade" -> <<desk, tradeVars>>

-----------------------------------------------------------------------------
(* The type invariants of the books: no row leaves its type and no place   *)
(* holds less than nothing.                                                *)
DeskTypeOK ==
  CASE desk = "ledger" -> TypeOK
    [] desk = "purchase" -> Purchase!TypeOK
    [] desk = "credit" -> Credit!TypeOK
    [] desk = "stock" -> Stock!TypeOK
    [] desk = "rep" -> RepAccount!TypeOK
    [] desk = "user" -> Account!TypeOK
    [] desk = "trade" -> Trading!TypeOK

(* Purchasing: an order is never paid above its cost, a cancelled one is   *)
(* unpaid, the supplier is not overpaid; the boxes land once; the pages    *)
(* show one debt and send what is accepted.                                *)
PurchasesSettle ==
  desk = "purchase" =>
    /\ Purchase!PaymentsFitOrders /\ Purchase!SupplierNotOverpaid /\ Purchase!BoxesLandOnce
    /\ Purchase!PagesAgree
(* CustomerCredit: a debt, its payments and its sale agree, and so do the  *)
(* pages that show them.                                                   *)
CreditAddsUp == desk = "credit" => Credit!CreditAddsUp /\ Credit!PagesAgree
(* Dispatch: the boxes of a request leave the shelf once, and every place  *)
(* holds what the standing transfers carried there; the pages agree.       *)
BoxesFollowRequests ==
  desk = "stock" => Stock!IssuedOnce /\ Stock!BoxesFollowTransfers /\ Stock!PagesAgree
(* RepAccounts: no deletion swallows boxes that are still out. *)
NoBoxesSwallowed == desk = "rep" => RepAccount!NoBoxesSwallowed
(* Users: somebody can always sign in and manage the accounts. *)
AnAdminRemains == desk = "user" => Account!AnAdminRemains
(* Figures: the balance sheet follows from the trade.  Figures and stock   *)
(* pages: the screens that show one figure show one number.                *)
BooksBalance == desk = "trade" => Trading!BooksBalance
FiguresAgree ==
  /\ desk = "trade" => Trading!FiguresAgree
  /\ desk = "ledger" => StockFiguresAgree
===============================================================================
