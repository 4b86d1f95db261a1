# The Lab: a TLA+ verification project

The Lab distributes boxed products through sales representatives. A rep takes
boxes out of a warehouse on an *order* (a settlement), sells them, and must
account for every box before a deadline: by settling it (paying) or returning
it. The server (`src/server/src`) is an Express application over Prisma and
PostgreSQL; the client is a React single-page application.

Paths such as `settlement.service.js:490` are under `src/server/src/services/`
unless they say otherwise. `PROJECT.json` is the machine-readable index: the
components, the runs, the lines each definition models, the mutants that break
each property, the findings, the hazards and the theorems.

1. [How the server runs](#1-how-the-server-runs)
2. [Inventory](#2-inventory)
3. [Modules](#3-modules)
4. [Runs](#4-runs)
5. [Proofs](#5-proofs)
6. [Where the code and its documentation disagree](#6-where-the-code-and-its-documentation-disagree)
7. [What is not modelled](#7-what-is-not-modelled)
8. [Plan](#8-plan)

## 1. How the server runs

* Every HTTP request is a handler in one Node process or serverless function,
  and several run at once. A handler's unit of atomicity is at best a Prisma
  interactive transaction, which Postgres runs at READ COMMITTED: each
  statement sees what is committed when it starts, an UPDATE locks its row
  until the commit, and nothing re-validates what an earlier statement read.
* Many handlers read the row they decide on *before* their transaction, so
  what they decide with may be old when they write.
* Cron sweeps (`src/server/src/routes/cron.routes.js`) and some page loads run
  the same background work: expire returns, flag overdue orders, send
  reminders, charge fines. Two sweeps can overlap each other and any handler.
* Balances are derived from rows (ledger rows, sale items, return items,
  penalties), with a few stored aggregates that must agree with them:
  `WarehouseStock`, `RepStock`, `Settlement.settledValue`, `assignedValue`,
  `status`, `deadlineAt`.

## 2. Inventory

| component | state it keeps | operations | interacts with | hard behaviour | what makes it correct | modules |
|---|---|---|---|---|---|---|
| Stock ledger engine (`inventory.service.js`, `stockCount.service.js`) | signed `InventoryTransaction` rows; cached `WarehouseStock`/`RepStock` | post, decrease with availability check, transfer, stock count, delete a row, rebuild the caches | called by every operation that moves boxes | check and commit are two statements; the rebuild is not one transaction | cache = sum of rows; no location below zero; a rebuild repairs; every page shows one stock | `InventoryLedger`, `InventoryScreens` |
| Settlement lifecycle (`settlement.service.js`, `settlementSubmission.service.js`, `returns.service.js`) | orders with status, submissions, returns | issue, append, submit, approve, reject, return, approve or drop a return, recompute, flag overdue | ledger, sales, deadlines, commission, finance | requests wait for days while the order changes under them; oldest-first allocation over several orders | each box settled or returned once; the order closes when, and only when, nothing is owed; the forms send what the service takes | `OrderBook`, `OrderScreens` |
| The same handlers at READ COMMITTED | the same | approve a submission, approve or drop a return | each other, through row locks | two decisions on one row or order at once, rollbacks, a process that dies | a row says what happened to its box; the order closes; nobody waits for ever | `OrderRaces` |
| Deadlines, pauses, late fines (`settlement.service.js`, `returns.service.js`, `penalty.service.js`) | deadline, penalty start, extension flag, change history, fines | self-extend, extend, undo, give back a return's wait, sweep | returns, cron, dashboards | read-then-write handlers; a sweep beside all of them | deadline = first one + standing changes + hours given back; a day is fined once, if it is due | `DeadlineClock` |
| Deadline reminders (`settlement.service.js`) | the stage last sent | send due reminders; every change of the deadline | deadlines, message queue | the stage is claimed after the deadline was read; three triggers | each stage once, in order; a later deadline rings again | `Reminders` |
| Commission withdrawals, emergency window (`commission.service.js`, `penalty.service.js`) | requests, window, corrections, fines | request, decide, cancel, open and close the window, correct, fine, waive | commission balance, rep page | the balance is read, the request inserted later; two decisions on one request | requests never exceed the balance; one window, one request; a decision is final | `Payouts`, `PayoutScreens` |
| Commission rules and rates (`commission.service.js`) | dated rates, a copy per process, brand names | add and remove a rate, rename a brand, move a product | settled boxes are priced at every reading | caches of other processes; a price that depends on a name | a box of an issued order keeps its price; one price for a box | `Rates`; balances in `Trade`, `Figures` |
| Sales bonus (`bonus.service.js`) | tiers, awards | edit tiers, progress, pay | sales | progress is read, the award inserted later | a sale counts toward one bonus | `Bonus`, `BonusScreens` |
| Stock requests (`stockRequest.service.js`) | requests | place, edit, approve, reject, cancel | transfers | the transfer commits before the request is marked | the boxes of a request leave once | `Dispatch`, `StockScreens` |
| Stock transfers (`transfers.service.js`) | transfers and their items | create in three directions, reverse | ledger, orders, requests | a reversal under a live order, two reversals at once | every place holds what the transfers carried there | `Dispatch`; the order's side in `OrderBook` |
| Sales and cancellation (`sales.service.js`) | sales, payment | sell, cancel | orders, ledger, finance, credit | the order is recomputed from rows the cancel changes | a cancelled box is owed again; no money stays behind | `OrderBook`, `OrderRaces`, `CustomerCredit`, `CashBook`, `SaleScreens` |
| Customer credit (`credit.service.js`) | debts with a paid amount, payments | sell on credit, pay, cancel, mark overdue | sales | two transactions read one balance | debt = principal less payments, on the debt and on the sale | `CustomerCredit`, `SaleScreens` |
| Finance ledger (`finance.service.js`) | entries, accounts | record, edit, delete, transfer, backfill, close a wallet | sales, payouts, suppliers | entries are written after the document, unawaited; the backfill races them | one entry per document; statements close on the cash held | `CashBook` |
| Purchases and suppliers (`purchase.service.js`, `finance.service.js`) | purchase orders, payments, goods sent back | create, update, reprice, receive, cancel, delete, pay | ledger, finance | every handler writes by id what it decided on an earlier read | boxes land once; no order overpaid; one debt on every page | `Purchasing`, `PurchaseScreens` |
| WhatsApp delivery queue (`whatsappNotify.service.js`) | queued messages with attempts | queue, claim, send, write back, retry, requeue | everything that notifies | a sender dies between claim and result; the answer comes too late | a message is sent once, and in the end sent or reported | `Courier`, `Outbox` |
| Rep accounts, deletion, data reset (`salesReps.controller.js`) | the rep and its login | create, switch, delete, purge, reset | stock, orders, users | the check, the wipe and the deletions are three steps | no deletion swallows boxes that are out | `RepAccounts` |
| Users and sign-in (`users.controller.js`, middleware) | users with roles | create, update, remove, authorise | every route | the check and the write are apart | somebody can always administer | `Users` |
| Reports, dashboards, statements (`reports.service.js`, `finance.service.js`, `dashboard.service.js`, monthly and weekly reports) | none: computed from rows | profit, balances, cash flow, bills, balance sheet | everything | the same figure from a dozen queries, each with its own filter | two screens that show one figure show one number | `Trade`, `Figures` |
| Document numbers (`utils/numbering.js`) | none: counts the day's rows | next number | every numbered document | two inserts count the same | no half-written document is left | in `OrderRaces` |
| Cron and polling triggers | none | run the sweeps | all of the sweeps | overlap | every sweep runs again | sessions and fairness of `DeadlineClock`, `Outbox`, `Reminders` |
| Web client (`OrderDetail.jsx` and the pages) | what it last fetched | show, offer, send | every service | a form decides from one read what the service decides from another | it offers what is accepted | the `...Screens` modules |
| Catalogue (products, packaging, brands, warehouses) | rows | edit | unit conversion, rates | renaming a brand re-prices commission | - | in `Rates` |
| In-app notifications, audit and activity log | rows | insert | - | none: nothing reads them to decide | - | no |
| Exports and PDFs | none | format | figures | none | - | no |

## 3. Modules

A component's module has its state, one action per operation and its
properties. A `...Screens` module extends it with what the pages compute from
that state, and what they let a user send; it adds no action, so its
property is an invariant of the same runs. `MC...` modules hold the
instances, and `...Proofs` modules the theorems.

| module | what it is |
|---|---|
| `InventoryLedger` | the ledger, its cache, the availability check and the cache rebuild |
| `OrderBook` | the order lifecycle, each handler one step |
| `OrderRaces` | the contended handlers of one order, statement by statement |
| `DeadlineClock`, `Reminders` | deadline, pauses and fines of one order, with overlapping handlers; its reminders |
| `Payouts`, `Bonus`, `Rates` | what a rep earns and draws: requests on the commission balance, the sales bonus, the price of a settled box |
| `Dispatch` | stock requests and transfers, statement by statement |
| `CustomerCredit`, `Purchasing`, `CashBook` | debts of customers, debts to suppliers, the money ledger |
| `RepAccounts`, `Users` | the accounts of reps and of administrators |
| `Trade`, `Figures` | the rows the owner's figures come from; the figures, one operator per function of the services |
| `Courier`, `Outbox` | what message delivery promises; the table of messages and its senders |
| `InventoryScreens`, `OrderScreens`, `PayoutScreens`, `BonusScreens`, `StockScreens`, `PurchaseScreens`, `SaleScreens` | the pages over the module they extend |
| `MCDesk`, `MCRep`, `MCClock` | several books checked side by side, see section 4 |
| `MCOrderBook`, `MCOrderRaces`, `MCCashBook`, `MCOutbox` | one module each |
| `DeskProofs` and `TradeProofs` (of the books of `MCDesk`), `RepProofs` (of those of `MCRep`, with `OrderBook`), `OrderRacesProofs`, `DeadlineClockProofs`, `CashBookProofs`, `OutboxProofs` | theorems, section 5 |
| `SumTheorems` | what those proofs need of sums and counts over finite sets |

Conventions shared by all of them. A handler that runs as several statements
is a *session*; a variable (`h`, `job`, `p`, `plan`, `pend`) holds the
statement it runs next and what it has read so far, and every other session
may run in between. A transaction whose writes commit together is one step,
its earlier reads another. Variables marked *history* record something that
happened (two handlers overlapped on a row, a request was dropped half way).
No guard reads them; properties use them to name exactly the case they
exclude. Names follow the code.

### `InventoryLedger`, `InventoryScreens`

A *cell* is a (product, location) pair. `rows[c]` holds the signed quantities
of its ledger rows, `balance[c]` their sum, `cache[c]` the stored copy. A
handler checks (`DecreaseStock`, `TransferStock`, `CreateStockCount`), keeps
its movement in `pend`, and commits it in a later step (`CommitMovement`), or
rolls back; between the two other handlers run. `IncreaseStock` checks nothing
and is one step. `DeleteMovement` removes a row and changes nothing else.

`recomputeAllCaches` has the phases of the code: it reads the sums of each
kind of location (`ReadSums`), zeroes both caches in a transaction of its own
(`ZeroCaches`), then rewrites the rows one at a time, warehouses first
(`RewriteRow`); the request may die at any point (`RebuildDies`). Of the
history variables, `stale` and `torn` say which cells a movement touched since
the rebuild read them, and which were left unrepaired; `raced` says on which
cells two handlers drew at once.

All pages add up ledger rows; only the low-stock alerts read the warehouse
cache, and so inherit its errors. The list of reps drops negative balances,
the page of a rep shows them.

### `OrderBook`, `OrderScreens`

Each handler is one step, every call it makes included: `CreateTransfer`,
`AddStockToRep` (which appends to the rep's open order, or issues a new one), `CancelTransfer`, `Submit`,
`ApproveSubmission`, `RejectSubmission`, `CancelSale`, `CreateReturn`,
`CreateUnlinkedReturn`, `ApproveReturn`, `DropReturn`, `RefreshOverdue`,
`ExtendDeadline`, `SelfExtend`, `UndoDeadlineChange`; `DeadlinePasses` is time.
`Recomputed` is `recomputeStatus`. What is abstracted:

* prices are one unit a box, so `settledValue` counts boxes; the code compares
  these values only with zero (the status PARTIAL);
* REJECTED, CANCELLED and EXPIRED rows are counted by no query: `DROPPED`;
* of the clock the model keeps whether an order is past its deadline (`late`)
  and whether a change of its deadline stands (`moved`);
* `Subs` and `Rets` bound the requests ever made; rows are partial functions,
  so an id that was never used is not in the domain.

A return not linked to an order is split over the rep's open orders oldest
first, pending boxes subtracted (`Allocated`); an approved return puts GOOD
boxes back in the warehouse and writes DAMAGED ones off.

In `OrderScreens` a form is the set of requests its buttons and inputs can
produce from a page just loaded. `FormsAreAccepted` says that the service
takes them; `ScreensAgree` that list, chips, summary and order page count the
same orders and boxes.

### `OrderRaces`

A handler is a session with the list of statements it still has to run
(`plan`). It reads its row outside the transaction (`StartApproval` and the
like), then each statement sees what is committed, and its own writes. Writes
become visible at the commit; locks (the unique key of the sale number, the
rep's stock row of each product, the return or submission row, the order) are
taken by the statement that writes the row and held to the end. `Rollback`
covers every error path, `Crash` a process that dies. Each row carries one
box. `overlap` is history: rows two handlers worked on at once.

The manual `settle` is left out: in `OrderBook` an order whose boxes are all
accounted for is already closed (`AutoCloses`), and what `settle` would do
after a race is close it by hand.

### `DeadlineClock`, `Reminders`

One order, time in days. `selfExtend` and `extendDeadline` read the order,
decide, and write; `undoDeadlineChange` claims the row in the status and
deadline it was read with and unfined (`Claims`); a rejected or cancelled
return is three statements (write the return, read the order, move the
deadline); an expired one is a single transaction with its fine; a sweep
counts pending returns, reads the order again, counts the fines, and inserts
the missing ones one by one. PARTIAL is OPEN here. `credit`, `stale` and
`crashes` are history: days given back, whether a handler wrote over an order
it had not read, and handlers that died.

The window (72 h) and the extension (96 h) are cut to a day each: the
formulas only add and compare them. The clock moves only when no handler is
under way: requests and sweeps take seconds.

`Reminders` counts time in rungs of the reminder ladder (the last hour, six
hours, a day). A sweep reads the order, claims the stage by a conditional
update, then rings; every change of the deadline arms the ladder again, but
the hours of a dropped return move the deadline and arm nothing.

### `Payouts`, `PayoutScreens`

The balance of a rep is earned commission plus corrections, less requests not
rejected, less fines. A request reads it (`computeForRep` is taken as one
read), claims the emergency window if it needs it (the one conditional
update), and inserts its row later; a decision reads the row and writes it by
id later; a rejected emergency request hands its window back. `debits` is
history: what fines, downward corrections and cancelled sales took off a
balance already asked for.

### `Bonus`, `BonusScreens`, `Rates`

A *run* of sales ends with an award. An award is computed from one read and
inserted later, held only by the unique key of tier and run. In `Rates`
nothing is kept of orders: a box is priced by the row in force when its order
was issued, so a property quantifies over every past moment. Each process has
a cache with a life of its own; a write clears only the writer's.

### `Dispatch`, `StockScreens`

Placing, editing, approving, rejecting and cancelling a request, and the
transfer an approval makes: the transfer commits first and the request is
marked FULFILLED afterwards; sessions may die in between (`cut`). Transfers
and their reversals run in all three directions. One product; the warehouse of
the rep is resolved already.

### `CustomerCredit`, `Purchasing`, `CashBook`

A payment and a cancellation of a credit sale read the debt and commit later
what they computed. Purchase orders are read, decided on and written by id;
payments are ledger rows keyed to an order or to the supplier as a whole, kept
as their sums. In `CashBook` each ledger row is there: the recorder of a sale
or payout runs after the document committed and may never run, the backfill
posts what is missing row by row, transfers have two legs in one transaction,
and the cash-flow statement is computed as `cashflow` does.

### `RepAccounts`, `Users`

A removal of a rep is a check, a wipe in one transaction, and deletions after
it. The foreign key of the stock ledger is what stops a deletion once boxes
were issued meanwhile. In `Users` a request authenticates and checks first
and writes later.

### `Trade`, `Figures`

`Trade` has the rows handlers leave behind, one action a handler: sales with
discount and credit, payments, bills, deliveries, transfers, payouts, owner's
money, wallets that close, a fresh start (`epoch`). `Figures` has the queries, one
operator a function, with the filters each one has. `BooksBalance` derives the
balance sheet from the trade: what is left of it is the opening balances, the
profit and the other income, less commission earned net of fines, and a named
term for each thing the screens leave out (closed wallets, sales not yet
posted, money from before the epoch, reps switched off).

### `Courier`, `Outbox`

`Courier` is the abstract specification: a message waits, is in one pair of
hands, and ends sent or failed; a sent one is never taken up again. `Outbox`
is the table `whatsapp_notifications`: a sender picks rows (`Flush`, or the
request that queued one), claims each by raising its attempts if nobody has,
calls the provider, and writes what came of it without looking again. A call
may be answered too late, a sender may die at any point; rows cool down, grow
too old, and leave the provider's budget window. `Abstraction` maps a row to
the courier's state; once an admin's requeue has crossed a sender's old read
(attempts start again at 0, so the read can match once more) the message is
mapped to *waiting* and nothing is promised of it.

## 4. Runs

| run | instance | distinct states | shows |
|---|---|---|---|
| `orders` | 2 orders of one rep, 1 product, 3 boxes, 1 submission, 2 returns, lines of up to 2 boxes | 442 thousand | rows and counters agree, a submission takes only boxes still owed, no box is returned twice, and a rep holds what its orders owe: `TypeOK`, `SettlesOnlyOwed`, `BoxesReturnedOnce`, `CountersAreSums`, `HeldMatchesOrders` |
| `rep_page` | four desks: 1 order of 2 products with 2 submissions and 1 return of mixed condition, its deadline passing and moving; 2 withdrawals with 2 handlers and 1 fine; 2 bonus tiers; 2 brands and 1 product to price | 954 thousand | an order closes when and only when nothing is owed (`AutoCloses`, `ClosedHonest`); payouts (`RequestsFit`, `DecisionsStand`), bonus and rates (`AwardsStand`) go wrong only where two requests overlapped; the services accept what the pages offer (`PagesAreAccepted`) and the pages agree (`ScreensAgree`) |
| `races` | 2 sessions, 2 submissions and 1 return for 2 boxes of one product | 46 thousand | `QuietOrderIsClosed`, `RowsTellTheTruth`, `ClosedOwesNothing`, and the liveness `HandlersFinish` |
| `clock` | 2 overlapping handlers, 1 return, 3 days, 2 deadline changes, no sweep; beside it 2 reminder sweeps | 2.4 million | `DeadlineIsAccounted`, `ClosedStaysClosed`, `RemindersEscalate` |
| `fines` | 1 handler beside 1 sweep, 5 days, 1 change, 1 crash | 666 thousand | `FinedOncePerDay`, `FinedTimeStands`, and the liveness `LateDaysAreFined` |
| `cashbook` | 2 sessions, 3 ledger rows, 1 sale, 1 payout, 2 wallets, 2 periods | 1.9 million | a document has one row and a cancelled sale none (`Mirrored`), a backfill that ends leaves nothing without one (`BackfillCompletes`), every statement closes on the cash held (`ClosingIsCash`) |
| `desk` | seven desks, 2 sessions at each: stock ledger (3 movements, 1 deletion, 1 rebuild), purchases, credit, stock requests, a rep's account, users (2 accounts), and two months of trade | 791 thousand | caches, balances, debts, boxes and accounts go wrong only where two requests overlapped or a step died (`DeskTypeOK`, `DriftExplained`, `NeverNegative`, `QuietRebuildRepairs`, `PurchasesSettle`, `CreditAddsUp`, `BoxesFollowRequests`, `NoBoxesSwallowed`, `AnAdminRemains`); the balance sheet follows from the trade and the screens show one number (`BooksBalance`, `FiguresAgree`) |
| `outbox` | 2 messages, one held back by the budget and one sent in quiet hours too, 2 senders, 2 attempts, 1 crash or requeue | 294 thousand | `NeverSentTwice`, the refinement `ActsAsCourier`, and the liveness `EveryMessageSettles` |
| `orders_cancel_sale`, `orders_overdue_list`, `races_two_products`, `clock_window` | the smallest instances that show them | - | four statements of the repository that the code does not keep, see section 6 |

**Unions.** `desk`, `rep_page` and `clock` each check several books that share
no variable. A variable of the instance says which book moves; the others stay
in their initial state, so the run explores the union of their behaviours and
not the product. Each property says of which book it speaks. Books that do
share state are composed: `OrderBook` contains the transfers, returns and
sales of an order, `CashBook` the sales and payouts it mirrors, `Dispatch` the
requests and their transfers, `Trade` all that the figures read.

**Why the bounds are enough.** *Two* is where contention begins: two
overlapping handlers, two orders that share a rep's stock (a box of one order
can pay for the other), two returns that compete for the same boxes, two
products so that accounting for one does not close the order. Three boxes and
lines of two let a return span two orders, leave a remainder and ask for one
box too many. In `races` there are more requests (3) than boxes (2), so that
some decision must be refused. Five days let a deadline pass, three late days
be fined, and time be given back in between; two changes are needed for an
undo to race another, and `fines` has one because a fine ends the changes that
may be taken back. A payout desk starts with two units earned, below the
minimum of three and at the emergency floor of two, so that both the window
and, after one more sale, the ordinary path open. Taking one message of two
per flush puts the first in the way of the second, as taking two of three
does; two attempts separate a retry from the last attempt. Three ledger rows
are a document, its duplicate, and an entry by hand or the legs of a transfer.
The trade desk starts from a month of business and adds two events, enough for
one filter to see a row another does not. Two administrators are enough for
each to remove the other; one payment to a supplier beside those on an order
is enough to overpay, since either reads the same debt. What larger bounds
would add to `desk` is covered by the proofs: each of its properties is a
theorem for every value of the constants.

Each property of a passing run has a mutant in `PROJECT.json`: a plausible bug
in one definition (a check left out, a subtraction of the pending boxes
forgotten, a status computed too early, a lock taken in the other order, an
off-by-one in the first fine, a filter left out of one screen) with which the
run fails.

Deadlock checking is off in every run: requests and time are bounded, so each
instance stops when they are used up. That no *handler* gets stuck is
`HandlersFinish`.

**Fairness.** No request is ever assumed to come.
* `OrderRaces`: `SF_vars(Statement(s))` for each session. Nothing makes a
  request start, but one under way runs its statements, and Postgres grants a
  lock to its waiters in the order they came, so a waiter is not passed over
  for ever: a weak assumption would allow that.
* `DeadlineClock`: `WF_vars(Sweep(s))`. Cron and the reps' dashboards, polled
  every minute (`dashboard.controller.js:36-41`), start the sweep again; the
  crashes of an instance are bounded.
* `Outbox`: `WF_vars(Working(x))`, a sender goes on with the rows it took;
  `SF_vars(Flush(x, FALSE))`, a timer every five minutes
  (`.github/workflows/deadline-watch.yml:23`), the daily cron and the polls of
  open pages flush, again and again outside quiet hours, which end every morning (quiet hours
  are an input, so weak fairness would never apply); `WF_vars(CoolDown(m))`
  and `WF_vars(WindowFrees)`, time passes.

**What the properties set aside**, because the code does break the stronger
form; each is in the hazards, and in the comment of its property:
* `NeverNegative`, `CreditAddsUp`, `PurchasesSettle`, `RequestsFit`,
  `BoxesFollowRequests`, `Mirrored`, `AwardsStand`, `AnAdminRemains` excuse a
  row, cell or document two handlers worked on at once, and nothing else of it:
  the other rows must still be right. `AnAdminRemains` also excuses an admin
  who gives up their own role, `NoBoxesSwallowed` a reset by hand.
* `DriftExplained` excuses the cells a movement touched during a rebuild (the
  rebuild then writes an old sum) and the rows deleted by hand.
* `ClosedHonest` excuses orders with a cancelled sale, see section 6.
* `RowsTellTheTruth` and `ClosedOwesNothing` excuse a row that was approved
  and dropped at once: both handlers read PENDING and the later write wins.
* `DeadlineIsAccounted` and `ClosedStaysClosed` excuse `stale`:
  `extendDeadline` writes the status and deadline it computed over whatever
  the order has become, which can reopen a closed order; and the claim of an
  undo can succeed on an order that changed and came back.
* `FinedOncePerDay` is for one sweep: two at once fine the same days. Two
  returns of one order that wait together give the shared hours back twice;
  the `clock` run has one return. A dropped return moves the deadline ahead but
  leaves the status OVERDUE; `effectiveStatus` then still refuses the rep's own
  extension.
* `RemindersEscalate` excuses a deadline that moved while a sweep was under way
  or by the hours of a dropped return.
* `DecisionsStand` excuses, for the price of a box, a product moved to another
  brand, brands that come to read the same, and a rate that lands after its
  start; see section 6.
* `ClosingIsCash` states the two things a statement leaves out: the owner's
  money from before its window, and transfers with wallets closed since.
* `NeverSentTwice` and `EveryMessageSettles` name their losses: an acceptance
  the sender never learnt, a sender that died on the last attempt, a message
  older than 48 hours, a requeue across an old read.

## 5. Proofs

`tlapm` proves the following for every value of the constants.

| theorem | module | assumes | argument |
|---|---|---|---|
| `CountersAlwaysAddUp`: `Spec => []CountersAreSums` | `RepProofs` | `OrderAssumption` | `CounterInv` = `SaleFollows` (a PENDING submission has no sale) and `CountersAreSums`. Every handler writes one row and its counters, so a sum changes by one term |
| `NoBoxIsReturnedTwice`: `Spec => []BoxesReturnedOnce` | `RepProofs` | the same, and `~MixedLines`: a return has one line a product | what was returned and what waits in PENDING returns fit what was issued (`LockedFit`): where a return has lines of one condition, the check of each line is the check of the whole. A GOOD and a DAMAGED line of one return do count the same boxes twice, see section 6 |
| `StockAlwaysAddsUp`: `Spec => []HeldMatchesOrders` | `RepProofs` | `OrderAssumption` | `StockInv` = `UnissuedHasNoItems`, `RecalledOnce` (nothing is recalled unless the transfer was cancelled), `HeldMatchesOrders`; a handler moves the boxes of one order and one rep (`Moved`), and the sums follow |
| `OrdersCloseThemselves`: `Spec => []AutoCloses`, `ClosedOrdersAreHonest`: `Spec => []ClosedHonest`, `TypeCorrect`: `Spec => []TypeOK` | `RepProofs` | `OrderAssumption` | `OrderInv` = `TypeOK`, `UnissuedIsBlank`, `RowsOnIssued` (requests name issued orders), `AutoCloses`, `ClosedHonest`: a handler that does not recompute must not change what is owed |
| `SettlementsTakeOwedBoxes`: `Spec => SettlesOnlyOwed` | `RepProofs` | `OrderAssumption` | an action property, from `OrderInv` |
| `RowsAlwaysTellTheTruth`: `Spec => []RowsTellTheTruth` | `OrderRacesProofs` | `RaceAssumption` | `RaceInv` = `Typed`, `IdleIsFree` (a session without a row is idle), `AloneWithRow` (whoever works on a row nobody else worked on is alone with it, and it is still PENDING), `RowsTellTheTruth` |
| `ClosedOrdersOweNothing`: `Spec => []ClosedOwesNothing` | `OrderRacesProofs` | `RaceAssumption` | `ClosedInv` = `RaceInv`, `WorkTyped`, `HoldsStock` (a handler past its stock movement holds the lock of the rep's stock row), `ClosingReads` (a handler about to write SETTLED has counted rows that, with its own, leave nothing owed), the property |
| `QuietOrdersAreClosed`: `Spec => []QuietOrderIsClosed` | `OrderRacesProofs` | `RaceAssumption` and one product | `QuietInv` adds the converse: if with the row of a handler about to write nothing is owed, it writes SETTLED (`OpenReads`), and if nothing is owed the order is closed. With one product `HoldsStock` leaves one handler between its count and its write; with two it does not, which is why `races_two_products` fails |
| `ClosedOrdersStayClosed`: `Spec => ClosedStaysClosed` | `DeadlineClockProofs` | none beyond `Spec` | `LiveWhenRead`: no extension or undo under way has read a closed order; a write over an order that closed since is `stale` |
| `FinedTimeIsNotTakenBack`: `Spec => FinedTimeStands` | `DeadlineClockProofs` | none beyond `Spec` | an action property: rows of the history are added at its end and closed only by the undo, whose claim finds no fine (`HistoryIsAList` keeps the history a list through both) |
| `DeadlineAlwaysAccounted`: `Spec => []DeadlineIsAccounted` | `DeadlineClockProofs` | `ClockAssumption` | `AccountInv` = `ClockTyped`, `ReadsTyped` (what a handler read is well formed: rows it means to undo are open in the history it read), the property; the shifts of an undo are a sum over the rows it closes |
| `OneSweepFinesADayOnce`: `Spec => []FinedOncePerDay` | `DeadlineClockProofs` | one sweeper | `SweepInv`: for some day `n` each day up to `n` was fined once and none after it, and the day a sweep fines next is `n + 1` |
| `RemindersAlwaysEscalate`: `ClockSpec => []RemindersEscalate` | `DeadlineClockProofs` | `ReminderAssumption` | `ReminderInv`: what rang, and what was claimed and has yet to ring, lies at or below the stored stage, each stage once (`RangInOrder`, `WillRing`); sweeps are alone unless `doubled` (`OneSweeps`); a stage stored or read is one the deadline has reached (`DueReached`), which time only confirms |
| `RequestsAlwaysFit`: `RepSpec => []RequestsFit` | `RepProofs` | `RepAssumption` | the balance: `PayoutInv` = `PayoutTyped`, `OneAsks` (unless `raced`, one request is under way), `Fits` (and it still fits the balance, less what was debited since), `OneDecides`. The window: `WindowInv`, by counting. Requests alive, handlers that hold a claim, handlers about to hand one back and the open window itself are never more than the windows opened, and each step moves one of them to the next place |
| `DecisionsAlwaysStand`: `RepSpec => DecisionsStand` | `RepProofs` | `RepAssumption` | an action property; for requests from `OneDecides`, for prices from `RateBase` = `RateTyped`, `LaterThanBegun` (a rate waits to be written for a start that lay ahead when it was let in): what starts later than an order is not in force for it |
| `AwardsAlwaysStand`: `RepSpec => []AwardsStand` | `RepProofs` | `RepAssumption` | `BonusInv` = `BonusTyped`, `SalesDated` (what an award counts is dated before its payment) and, unless `tangled`, `InOrder`: a payment under way is alone, its sales are nobody's yet, its tier says what was read. `CopyInv` = `CopyTyped`, `CopiesHold`: a kept copy prices a box as the rows do, unless something from before that box was written since it was read. That a box has one price rests on rates with one latest start (`OneLatest`) |
| `RepTypesHold`: `RepSpec => []RepTypeOK` | `RepProofs` | `RepAssumption` | the invariants of the four books together (`RepInv`), with `PayoutMore` (the withheld amount is the sum over the requests not rejected: a decision changes it by its own request) and `BonusMore` |
| `PagesAlwaysAccepted`: `RepSpec => []PagesAreAccepted` | `RepProofs` | `RepAssumption` | `RepInv`, one lemma per page. A form of an order stays within the boxes left because the boxes waiting are never negative (`OrderCounts`, from `CounterInv`); a balance comes apart by the status of its requests (`WithheldByStatus`); among finitely many targets one is largest; what starts later prices nothing earlier (`LaterRowPricesNothing`) |
| `ScreensAlwaysAgree`: `RepSpec => []ScreensAgree` | `RepProofs` | `RepAssumption` | `OrderInv`, `CountersAreSums` and `StockInv` of the order book: money and boxes left on an order are one sum over its products; approved returns add up by order and product (`SumByClass`); what the reps hold is a table of boxes by order and product, summed by columns on one side and by rows on the other (`SumExchange`), where orders not live leave nothing |
| `DocumentsAreMirroredOnce`: `Spec => []Mirrored` | `CashBookProofs` | `CashBookAssumption` | `DocumentInv` = `KnownFirst` (a row or a session names a document that exists), `PlannedAlone` (an uncontested document is in one session's hands, and has no row yet), `OneRow`, `CancelledIsClear` (a sale cancelled while nobody meant to post it has no row and is in nobody's list) |
| `BackfillLeavesNoGap`: `Spec => BackfillCompletes` | `CashBookProofs` | the same | an action property, from `Tracked`: a document without a row was in the list of every backfill that began after it, and still is |
| `StatementsCloseOnCash`: `Spec => []ClosingIsCash` | `CashBookProofs` | the same | `LegsPair` (the two legs of a transfer have one amount unless `edited`) and arithmetic on sums: income less expenses by wallet is income less expenses by kind of row |
| `CacheDriftIsExplained`: `Spec => []DriftExplained` | `DeskProofs` | `LedgerAssumption` | invariant `LedgerInv` = `TypeOK`, `DriftExplained`, `PhaseOK` (which variables are reset in which phase of the rebuild) and `SumsFresh` (a sum read and not marked stale is still the balance). Without `SumsFresh` rewriting a row could not be shown to repair it |
| `StockNegativeOnlyWhenRaced`: `Spec => []NeverNegative` | `DeskProofs` | the same | `Guarded`: at a cell not in `raced` (two handlers drew on it at once, or a row was deleted) at most one handler holds a checked decrease, and it still fits the balance |
| `QuietRebuildsRepair`: `Spec => QuietRebuildRepairs` | `DeskProofs` | `LedgerAssumption` | an action property, from `RepairInv` = `LedgerInv`, `RowsAddUp` (a balance is the sum of its rows: appending and deleting a row change the sum by that row), `UnseenAreZero` (the rebuild reads no sum for a cell without rows), `TornIsWaiting` (once the caches are zeroed, a torn cell waits to be rewritten or moved since it was read) |
| `NoBoxesAreSwallowed`: `DeskSpec => []NoBoxesSwallowed` | `DeskProofs` | `DeskAssumption` | `RepInv` = `RepTyped`, `KeysHold` (the foreign keys: boxes have rows, rows a rep, a rep a login), `WipesFindNothing` (a checked wipe finds no boxes, unless stock was issued since) |
| `AnAdminAlwaysRemains`: `DeskSpec => []AnAdminRemains` | `DeskProofs` | `DeskAssumption` | `UserInv` = `UserTyped`, `OneIsSpared`: some active admin is not the one any request under way is about to take. That an admin exists is not inductive by itself: the check of a removal and its write are two steps |
| `PurchasesAlwaysSettle`: `DeskSpec => []PurchasesSettle` | `DeskProofs` | `DeskAssumption` | `PurchaseInv` = `TypeOK`, `OrderReads` (what a request has read of its order is still so), `OneOnOrder` (it is alone on that order) and `NewIsUnread`, all three unless two requests met on the order (`crossed`), the payments and the boxes, and `DebtFits` unless `loose`: one request is under way and what it is about to pay fits the debt. The debt is one sum over the orders (`DebtIsSum`) that each request changes at one order; the pages' totals are sums over the same orders |
| `BoxesAlwaysFollowRequests`: `DeskSpec => []BoxesFollowRequests` | `DeskProofs` | `DeskAssumption` | `RequestInv` = `StockTyped`, `BookInv` (outside `contested` and `cut`: what a session read of its request is still so, it is alone on it, and with nobody about to write it down a request is FULFILLED exactly when its boxes have left), `BoxInv` (a reversal under way found its transfer standing and it still stands; each place holds what was carried). The boxes of the fulfilled requests and those of their transfers are one sum through a bijection |
| `DebtsAddUp`: `Credit!Spec => []Credit!CreditAddsUp` | `DeskProofs` | none | `CreditInv` = `TypeOK`, `UnsoldIsBlank`, `Alone` and `ReadsAreFresh` (what a session read of a sale nobody else turned to is still so), `AllAddUp`. The run checks it as the first half of `desk`'s `CreditAddsUp`, which the next theorem proves |
| `CreditAlwaysAddsUp`: `DeskSpec => []CreditAddsUp` | `DeskProofs` | `DeskAssumption` | `CreditInv`, and `PageInv` for the pages, which hold also where requests met: `DebtRows` (a balance is the principal less what was paid, on a debt that takes payments; one flagged overdue is due) and `PrincipalRead`. The totals of the pages are sums over the sales that count and over the open debts, and they differ by zeros |
| `BooksAlwaysBalance`: `DeskSpec => []BooksBalance` | `TradeProofs` | `DeskAssumption` | `TradeInv` = `TradeTyped` and four accounts, each a sum that an action changes by its own row: the sales of a wallet and month are the live sales entered there (`SalesPosted`), what a supplier was paid left his brand's wallet (`BillsPosted`), what reps were paid is on record (`PayoutsDrawn`), and what was billed and has come is on the shelf, with a rep, in a sold line, or written off (`BoxesCosted`). The last needs today's price of the lines that carry none, which a delivery changes for all of them at once. The balance sheet follows from the four by arithmetic, its sums split by open and closed wallets, by months before and since the epoch, and by reps on and off the team |
| `FiguresAlwaysAgree`: `DeskSpec => []FiguresAgree` | `TradeProofs` | `DeskAssumption`, `LedgerAssumption` | the owner's screens from `TradeInv`: one sum over the sales of a window, split by brand, rep, region or kind of payment (`SumByClass`), one table of boxes read by rows and by columns (`SumExchange`). The stock pages from the theorems on the ledger: a balance below zero or a cache that is off occurs only where `NeverNegative` and `DriftExplained` say, which is what the pages may differ by |
| `DeskTypesHold`: `DeskSpec => []DeskTypeOK` | `TradeProofs` | `DeskAssumption`, `LedgerAssumption` | the invariants of the seven books together (`DeskTyped`). That a wallet's sales do not go below zero needs `SalesPosted`: a cancellation takes out what the sale had put in |
| `NoMessageIsSentTwice`: `Spec => []NeverSentTwice` | `OutboxProofs` | `OutboxAssumption` | `OutboxInv` = `Typed`, `ReadsAreOld` (no sender has read more attempts than the row has), `InHand` (while a sender holds a message every reading of its row is out of date), `Alone` (one sender holds it), both unless a requeue crossed it, `Recorded` (what the provider accepted is recorded, or about to be), `NeverSentTwice` |
| `OutboxActsAsCourier`: `Spec => ActsAsCourier` | `OutboxProofs` | `OutboxAssumption` | the refinement: the initial rows map to the courier's, and under `OutboxInv` every step maps to a step of the courier or a stutter |

Each invariant has one lemma per action or per family of actions, and the
last step of each theorem is propositional temporal logic.

**Assumptions** on constants are named in the modules that declare them, and
TLC evaluates them in every run. They are what makes the constants describe a
database: sets of rows are finite (`OrderAssumption`, `RaceAssumption`,
`CashBookAssumption`, `LedgerAssumption`, `DeskAssumption`), a box has a price
and a landed cost above zero, the rate of commission is a natural number,
identifiers of different tables
differ, the fallback rate has the name of no brand, a minimum of zero counts as
none set, a request may be as large as the emergency floor (`RepAssumption`), a
document knows its rep, product or wallet, at least one box is issued,
quantities are natural numbers. `NoBoxIsReturnedTwice`,
`QuietOrdersAreClosed` and `OneSweepFinesADayOnce` have a further hypothesis,
and the code breaks each of them without it: sections 4 and 6 name the
counterexamples.

**Sums.** A counter of the code is a sum over rows, in the model
`SumFunction` of the community modules, a fold. `SumTheorems` proves what the
others need: the sum of nothing is 0; adding, taking out or changing one row
changes it by that row; functions that agree have one sum; a sum over sums;
class by class; a table by rows or by columns; the sum through a bijection. A fold has no closed form to expand, so these go by
induction on finite sets, as the well-foundedness of strict inclusion.

**Only model-checked:**
liveness and fairness, which are out of the prover's reach: `HandlersFinish`,
`LateDaysAreFined`, `EveryMessageSettles`. Every invariant and every other
action property of the passing runs is the statement of a theorem. The months
of `Trade` (two) are a definition, not a constant, so the theorems on the
figures are for two reporting months.

## 6. Where the code and its documentation disagree

Four runs end in a counterexample to a sentence of the repository.

1. **A cancelled sale does not reopen its order** (`orders_cancel_sale`).
   `cancelSale` recomputes the order before it marks the sale CANCELLED
   (`sales.service.js:391`), and the recomputation counts every sale that is
   not CANCELLED. `README.md:57` of the repository: "An order closes only when
   every issued box is settled or returned".
2. **The overdue list misses overdue orders** (`orders_overdue_list`). The
   chip counts them all; the list behind it asks for OPEN or PARTIAL rows past
   their deadline and so leaves out those the sweep has stored as OVERDUE
   (`settlement.service.js:305`), against "a row can never be counted twice or
   missed" (`:943-945`).
3. **An order of two products may not close itself** (`races_two_products`).
   A return is approved while a submission of the other product commits
   between the return's read and its update (`settlement.service.js:496`).
   With one product the rep's stock row serialises the two, which is what
   `races` checks.
4. **The hours a return waited can be fined** (`clock_window`): between the
   statement that rejects the return and the one that moves the deadline
   (`returns.service.js:392`) the sweep sees neither.

Met while modelling, and stated where a property makes room for them:

* *Orders.* Neither `submit` nor `settleBoxesTx` subtracts pending returns, so
  a box in a pending return can be settled (repository `README.md:60`: "Boxes
  inside a pending return are **locked**"). A GOOD and a DAMAGED line of one
  return may each be as large as what is outstanding (`returns.service.js:73`).
  The card "Boxes back on the shelf" counts DAMAGED boxes too. Once a box has
  been both settled and returned, the boxes left are clamped product by product
  and the bar of the order can run past its track ("the segments can never sum
  past the track", `OrderDetail.jsx:1194`): two orders of one rep and two
  products show it, and `ScreensAgree` bounds the bar of the other orders.
* *Commission.* Moving a product to another brand, or renaming a brand onto
  another's name, prices settled boxes anew, against "so no settled box can be
  re-priced" (`createRate`). Two fallback rates may start at one instant: the
  unique key ignores rows without a brand. A copy of the rates in another
  process is old for up to a minute.
* *Payouts.* A decision never looks at the balance again; fines and
  corrections may take it below zero while requests stand. Bonus: two admins
  who pay two tiers of one run both succeed.
* *Money.* `paySupplier` caps a payment by the order, not by the supplier's
  debt, so payments and credits on the supplier as a whole beside it overpay
  ("Over-payment is blocked"). One leg of a transfer can be edited alone. A
  backfilled sale is posted at its total, a recorded one at what was paid.
  Statements of a window leave out the owner's earlier money.
* *Purchasing.* An update may set RECEIVED without boxes landing, reopen a
  received order (its boxes can land again), or undo a cancellation.
* *Stock.* A transfer reversed later leaves its request FULFILLED. A request
  whose approval died after the transfer is PENDING with its boxes gone, and
  can be approved again. The dialog that adds stock to a rep counts the boxes of all
  warehouses and draws on the first.
* *Messages.* `retryFailed` resets the attempts and requeues rows up to a week
  old, of which a flush takes only those younger than 48 hours. The copy on the
  phone of a reminder that rings again is not queued: its title is the key.
* *Figures.* "Every figure on the dashboard and in the reports comes through
  here" (`reports.service.js`), but the daily series, top products and the
  brand breakdown add up lines before discount. The brand breakdown uses
  current costs, the daily series is not cut at the epoch, the overview counts
  closed wallets and the cash flow does not, and the commission of inactive
  reps drops out of what is payable.
* *Accounts.* The last-administrator check counts active admins even when the
  one removed is already switched off; `update` guards nothing. A deletion adds
  up a rep's boxes over products, a reset looks at none.

## 7. What is not modelled

* *Within the modelled components:* customer returns linked to an order; sales
  entered by staff straight onto an order (no screen sends them); the manual
  close; fine amounts and returns' monetary penalties; the change history of
  orders older than the history table, and the dialogs over it; unit
  conversion (quantities are base units); prices of sale lines in `OrderBook`;
  requests of more than one product; which event queues which message, and its
  text; the throttle of the flush, which is per process.
* *In `Trade` and `Figures`:* windows of days and weeks (a window is a month or
  all time), stock movement and missing-stock reports, averages and margins.
* *Reordering suggestions, catalogue, profile fields:* rows edited one at a
  time, or arithmetic on one row. Brand names and product brands are in
  `Rates`, where they matter.
* *Passwords, tokens and permissions*: no state another part decides with.
* *Notifications, audit and activity log:* inserts nothing reads to decide.
* *Exports and PDFs, layout, caching and fetching in the client:* formatting of
  figures computed elsewhere. The pages over the cash book, the catalogue and
  the users only list rows.

Hazards without a property: a dropped return leaves the status OVERDUE
(`returns.service.js:401`), staff sales onto an order
(`settlement.service.js:550`), and the fine between a rejection and its
give-back, which the run `clock_window` shows to happen.

## 8. Plan

What is left, in order of what it is worth:

1. An abstract *box ledger* (each box is in a warehouse, with a rep, settled,
   returned or written off, and moves along fixed edges) that `OrderBook` and
   the committed state of `OrderRaces` implement outside the cases of section 6.
2. The dialogs over the deadline history (`OrderDetail.jsx`), with the history
   of older orders.
3. A larger `cashbook`: two sales, so that two backfills cross.
