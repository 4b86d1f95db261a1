--------------------------- MODULE InventoryLedger ---------------------------
(***************************************************************************)
(* The stock ledger of The Lab and its materialized cache                  *)
(* (src/server/src/services/inventory.service.js, stockCount.service.js    *)
(* and the maintenance routes of inventory.controller.js).                 *)
(*                                                                         *)
(* A cell is a (product, location) pair.  Its balance is the sum of its    *)
(* ledger rows; WarehouseStock / RepStock hold a cached copy.  Handlers    *)
(* run as Postgres READ COMMITTED transactions: the availability check and *)
(* the commit of the movement are two steps, so handlers interleave        *)
(* between them.  recomputeAllCaches is NOT one transaction: it reads the  *)
(* group sums, zeroes both caches in a transaction of its own, and then    *)
(* rewrites the rows one by one.                                           *)
(***************************************************************************)
EXTENDS Integers, Sequences, SequencesExt

CONSTANTS Products,      \* product ids
          Warehouses,    \* warehouse locations
          Reps,          \* sales representatives, each a stock location
          Sessions,      \* handlers that may be in flight together
          MaxQty,        \* bound: boxes moved by one request
          MaxMoves,      \* bound: movements committed
          MaxDeletes,    \* bound: ledger rows deleted by the admin
          MaxRecomputes  \* bound: cache rebuilds started

ASSUME LedgerAssumption ==
  /\ IsFiniteSet(Products) /\ IsFiniteSet(Warehouses) /\ IsFiniteSet(Reps)
  /\ Warehouses \cap Reps = {}
  /\ MaxQty \in Nat \ {0}
  /\ MaxMoves \in Nat /\ MaxDeletes \in Nat /\ MaxRecomputes \in Nat

Location == Warehouses \cup Reps
Cell == Products \X Location
Kind == {"WAREHOUSE", "SALES_REP"}
KindOf(c) == IF c[2] \in Warehouses THEN "WAREHOUSE" ELSE "SALES_REP"
Bounded == {"moves", "deletes", "recomputes"}
Zero == [c \in Cell |-> 0]

VARIABLES
  rows,      \* rows[c]: signed baseQuantity of the InventoryTransaction rows
  balance,   \* balance[c]: what the SUM over rows[c] returns
  cache,     \* WarehouseStock / RepStock
  pend,      \* pend[s]: movement handler s has checked but not committed
  rpc,       \* where the rebuild stands: "idle", "read" or "write"
  rgot,      \* kinds of location whose sums the rebuild has read
  rsum,      \* the sums it read
  rseen,     \* the cells that had a row, i.e. a group, when they were read
  rtodo,     \* cells zeroed and not yet rewritten
  stale,     \* history: cells moved since the rebuild read them
  torn,      \* history: cells a rebuild or a deletion left unrepaired
  raced,     \* history: cells two handlers drew on at once, or with a row deleted
  used       \* counters for the bounds

vars == <<rows, balance, cache, pend, rpc, rgot, rsum, rseen, rtodo, stale,
          torn, raced, used>>
rebuild == <<rpc, rgot, rsum, rseen, rtodo>>

Init ==
  /\ rows = [c \in Cell |-> <<>>]
  /\ balance = Zero
  /\ cache = Zero
  /\ pend = [s \in Sessions |-> Zero]
  /\ rpc = "idle" /\ rgot = {} /\ rsum = Zero /\ rseen = {} /\ rtodo = {}
  /\ stale = {} /\ torn = {} /\ raced = {}
  /\ used = [b \in Bounded |-> 0]

-----------------------------------------------------------------------------
(* The cached balances after the movement d is posted: the upsert           *)
(* increments the stock row of each cell that moves.                       *)
(* Mutant: the rep branch of the upsert is forgotten. *)
PostedWarehousesOnly(d) ==
  [c \in Cell |-> IF KindOf(c) = "WAREHOUSE" THEN cache[c] + d[c] ELSE cache[c]]
PostedCache(d) == [c \in Cell |-> cache[c] + d[c]]

(* postMovement: append a row and increment the cache, in one transaction. *)
(* d gives the signed quantity per cell, 0 where nothing moves.            *)
PostMovement(d) ==
  /\ used["moves"] < MaxMoves
  /\ used' = [used EXCEPT !["moves"] = @ + 1]
  /\ rows' = [c \in Cell |-> IF d[c] = 0 THEN rows[c] ELSE Append(rows[c], d[c])]
  /\ balance' = [c \in Cell |-> balance[c] + d[c]]
  /\ cache' = PostedCache(d)
  /\ stale' = stale \cup {c \in Cell : d[c] # 0 /\ KindOf(c) \in rgot}
  /\ UNCHANGED <<rebuild, torn, raced>>

(* increaseStock: inbound movements need no check. *)
IncreaseStock(c, n) ==
  /\ PostMovement([Zero EXCEPT ![c] = n])
  /\ UNCHANGED pend

(* assertAvailable: the ledger balance of the source covers the request.   *)
(* Mutant: the check accepts one box too many. *)
AvailableOffByOne(c, n) == balance[c] + 1 >= n
Available(c, n) == balance[c] >= n

(* Handler s prepares the movement d, to be committed later. *)
Prepare(s, d) ==
  /\ pend[s] = Zero
  /\ pend' = [pend EXCEPT ![s] = d]
  /\ raced' = raced \cup {c \in Cell : d[c] < 0 /\ \E t \in Sessions \ {s} : pend[t][c] < 0}
  /\ UNCHANGED <<rows, balance, cache, rebuild, stale, torn, used>>

(* The check is the first statement of decreaseStock. *)
DecreaseStock(s, c, n) ==
  /\ Available(c, n)
  /\ Prepare(s, [Zero EXCEPT ![c] = -n])

TransferStock(s, p, from, to, n) ==
  /\ from # to
  /\ Available(<<p, from>>, n)
  /\ Prepare(s, [Zero EXCEPT ![<<p, from>>] = -n, ![<<p, to>>] = n])

(* createStockCount reads the expected balance and will post the variance; *)
(* no row is written when the count agrees.                                *)
CreateStockCount(s, c, counted) ==
  /\ counted # balance[c]
  /\ Prepare(s, [Zero EXCEPT ![c] = counted - balance[c]])

CommitMovement(s) ==
  /\ pend[s] # Zero
  /\ PostMovement(pend[s])
  /\ pend' = [pend EXCEPT ![s] = Zero]

(* A later statement of the handler throws: the transaction rolls back. *)
Rollback(s) ==
  /\ pend[s] # Zero
  /\ pend' = [pend EXCEPT ![s] = Zero]
  /\ UNCHANGED <<rows, balance, cache, rebuild, stale, torn, raced, used>>

-----------------------------------------------------------------------------
StartRebuild == rpc' = "read" /\ rgot' = {} /\ stale' = {} /\ rseen' = {}

RecomputeCaches ==
  /\ rpc = "idle"
  /\ used["recomputes"] < MaxRecomputes
  /\ StartRebuild
  /\ used' = [used EXCEPT !["recomputes"] = @ + 1]
  /\ UNCHANGED <<rows, balance, cache, pend, rsum, rtodo, torn, raced>>

(* deleteMovement removes one row, with no transaction around it and no    *)
(* availability check, and then rebuilds every cache.                      *)
DeleteMovement(c, i) ==
  /\ rpc = "idle"
  /\ used["deletes"] < MaxDeletes
  /\ used' = [used EXCEPT !["deletes"] = @ + 1]
  /\ rows' = [rows EXCEPT ![c] = RemoveAt(@, i)]
  /\ balance' = [balance EXCEPT ![c] = @ - rows[c][i]]
  /\ torn' = torn \cup {c} /\ raced' = raced \cup {c}
  /\ StartRebuild
  /\ UNCHANGED <<cache, pend, rsum, rtodo>>

(* The sums known after the groups of kind k are read.                     *)
SumsWith(k) == [c \in Cell |-> IF KindOf(c) = k THEN balance[c] ELSE rsum[c]]

(* warehouseBalances and repBalances: two group-by queries, run in parallel. *)
ReadSums(k) ==
  /\ rpc = "read"
  /\ k \notin rgot
  /\ rgot' = rgot \cup {k}
  /\ rsum' = SumsWith(k)
  /\ rseen' = rseen \cup {c \in Cell : KindOf(c) = k /\ rows[c] # <<>>}
  /\ UNCHANGED <<rows, balance, cache, pend, rpc, rtodo, stale, torn, raced, used>>

(* Both updateMany statements of the rebuild's only transaction.           *)
(* Mutant: the rep rows are not zeroed. *)
ZeroedWarehousesOnly ==
  [c \in Cell |-> IF KindOf(c) = "WAREHOUSE" THEN 0 ELSE cache[c]]
ZeroedCache == Zero

ZeroCaches ==
  /\ rpc = "read"
  /\ rgot = Kind
  /\ rpc' = "write"
  /\ cache' = ZeroedCache
  /\ rtodo' = rseen
  /\ torn' = {c \in Cell \ rseen : balance[c] # 0} \cup (torn \cap rseen)
  /\ UNCHANGED <<rows, balance, pend, rgot, rsum, rseen, stale, raced, used>>

(* One upsert of the sum read earlier: warehouse rows first, then rep rows. *)
RewriteRow(c) ==
  /\ rpc = "write"
  /\ c \in rtodo
  /\ KindOf(c) = "SALES_REP" => \A e \in rtodo : KindOf(e) = "SALES_REP"
  /\ cache' = [cache EXCEPT ![c] = rsum[c]]
  /\ rtodo' = rtodo \ {c}
  /\ torn' = IF c \in stale THEN torn \cup {c} ELSE torn \ {c}
  /\ UNCHANGED <<rows, balance, pend, rpc, rgot, rsum, rseen, stale, raced, used>>

EndRebuild ==
  rpc' = "idle" /\ rgot' = {} /\ rseen' = {} /\ rsum' = Zero /\ stale' = {}

FinishRebuild ==
  /\ rpc = "write"
  /\ rtodo = {}
  /\ EndRebuild
  /\ UNCHANGED <<rows, balance, cache, pend, rtodo, torn, raced, used>>

(* The request dies (function timeout, lost connection): what was written  *)
(* stays written, the rest stays zero.                                     *)
RebuildDies ==
  /\ rpc # "idle"
  /\ EndRebuild
  /\ torn' = torn \cup rtodo
  /\ rtodo' = {}
  /\ UNCHANGED <<rows, balance, cache, pend, raced, used>>

-----------------------------------------------------------------------------
Handler(s) ==
  \/ \E c \in Cell, n \in 1..MaxQty : DecreaseStock(s, c, n)
  \/ \E p \in Products, from, to \in Location, n \in 1..MaxQty :
       TransferStock(s, p, from, to, n)
  \/ \E c \in Cell, n \in 0..MaxQty : CreateStockCount(s, c, n)
  \/ CommitMovement(s)
  \/ Rollback(s)

Rebuild ==
  \/ RecomputeCaches
  \/ \E k \in Kind : ReadSums(k)
  \/ ZeroCaches
  \/ \E c \in Cell : RewriteRow(c)
  \/ FinishRebuild

Next ==
  \/ \E c \in Cell, n \in 1..MaxQty : IncreaseStock(c, n)
  \/ \E s \in Sessions : Handler(s)
  \/ \E c \in Cell : \E i \in DOMAIN rows[c] : DeleteMovement(c, i)
  \/ Rebuild
  \/ RebuildDies

Spec == Init /\ [][Next]_vars

-----------------------------------------------------------------------------
TypeOK ==
  /\ rows \in [Cell -> Seq(Int)]
  /\ balance \in [Cell -> Int]
  /\ cache \in [Cell -> Int]
  /\ pend \in [Sessions -> [Cell -> Int]]
  /\ rpc \in {"idle", "read", "write"}
  /\ rgot \in SUBSET Kind
  /\ rsum \in [Cell -> Int]
  /\ rseen \in SUBSET Cell /\ rtodo \in SUBSET Cell
  /\ stale \in SUBSET Cell /\ torn \in SUBSET Cell /\ raced \in SUBSET Cell
  /\ used \in [Bounded -> Nat]

(* A cached balance differs from the ledger only where a rebuild has       *)
(* zeroed it and not yet rewritten it, or where a movement overlapped a    *)
(* rebuild, a row was deleted, or a rebuild died: postMovement itself      *)
(* never makes the two drift.                                              *)
DriftExplained ==
  \A c \in Cell : cache[c] # balance[c] => c \in rtodo \cup torn

(* assertAvailable keeps the stock of every location at or above zero,     *)
(* except where the boxes of one cell were drawn on by two handlers at     *)
(* once - each checked before the other committed - or a ledger row was    *)
(* deleted by hand.                                                        *)
NeverNegative == \A c \in Cell : balance[c] < 0 => c \in raced

(* A rebuild that ran to its end with no movement, deletion or second      *)
(* failure beside it has repaired every cell: drift never survives it.     *)
QuietRebuildRepairs ==
  [][FinishRebuild /\ stale = {} => torn' = {} /\ cache' = balance']_vars
=============================================================================
