------------------------------ MODULE DeskProofs ------------------------------
(***************************************************************************)
(* Proofs about the books of MCDesk, for any set of requests in flight, of *)
(* rows and of bounds.                                                     *)
(***************************************************************************)
EXTENDS MCDesk, SumTheorems, SequenceTheorems, TLAPS

-----------------------------------------------------------------------------
(* The stock ledger (InventoryLedger).                                     *)

(* Outside the rewriting phase nothing waits to be rewritten; during it    *)
(* both kinds of sums have been read.                                      *)
PhaseOK ==
  /\ rpc # "write" => rtodo = {}
  /\ rpc = "write" => rgot = Kind

(* A sum the rebuild has read is still the balance unless a movement       *)
(* touched the cell since.                                                 *)
SumsFresh ==
  \A c \in Cell : KindOf(c) \in rgot /\ c \notin stale => rsum[c] = balance[c]

LedgerInv == TypeOK /\ DriftExplained /\ PhaseOK /\ SumsFresh

-----------------------------------------------------------------------------
(* Deleting one element of a sequence of integers leaves one. *)
LEMMA RemoveAtType ==
  ASSUME NEW q \in Seq(Int), NEW i \in DOMAIN q
  PROVE  RemoveAt(q, i) \in Seq(Int) /\ q[i] \in Int
<1>1. i \in 1..Len(q) /\ Len(q) \in Nat
  OBVIOUS
<1>2. q[i] \in Int
  BY <1>1
<1>3. SubSeq(q, 1, i - 1) \in Seq(Int)
  BY <1>1
<1>4. SubSeq(q, i + 1, Len(q)) \in Seq(Int)
  BY <1>1
<1>5. RemoveAt(q, i) = SubSeq(q, 1, i - 1) \o SubSeq(q, i + 1, Len(q))
  BY DEF RemoveAt
<1>. QED
  BY <1>2, <1>3, <1>4, <1>5

(* KindOf classifies every cell. *)
LEMMA KindOfType == \A c \in Cell : KindOf(c) \in Kind
BY DEF KindOf, Kind

LEMMA ZeroType == Zero \in [Cell -> Int]
BY DEF Zero

(* The cells a transfer names are cells. *)
LEMMA PairInCell ==
  ASSUME NEW p \in Products, NEW l \in Location
  PROVE  <<p, l>> \in Cell
BY DEF Cell

-----------------------------------------------------------------------------
(* Posting a well-typed movement keeps every part of the invariant: it     *)
(* adds the same quantity to the ledger and to the cache.                  *)
LEMMA PostKeepsInv ==
  ASSUME LedgerInv, NEW d \in [Cell -> Int], PostMovement(d),
         pend' \in [Sessions -> [Cell -> Int]]
  PROVE  LedgerInv'
<1>. USE DEF LedgerInv
<1>1. TypeOK'
  <2>1. \A c \in Cell : d[c] # 0 => Append(rows[c], d[c]) \in Seq(Int)
    BY DEF TypeOK
  <2>2. rows' \in [Cell -> Seq(Int)]
    BY <2>1 DEF TypeOK, PostMovement, PostedCache
  <2>3. balance' \in [Cell -> Int] /\ cache' \in [Cell -> Int]
    <3>1. balance \in [Cell -> Int] /\ cache \in [Cell -> Int]
      BY DEF TypeOK
    <3>2. /\ balance' = [c \in Cell |-> balance[c] + d[c]]
          /\ cache' = [c \in Cell |-> cache[c] + d[c]]
      BY DEF PostMovement, PostedCache
    <3>. QED
      BY <3>1, <3>2
  <2>4. used' \in [Bounded -> Nat]
    BY DEF TypeOK, PostMovement, PostedCache, Bounded
  <2>5. stale' \in SUBSET Cell
    BY DEF TypeOK, PostMovement, PostedCache, Bounded
  <2>. QED
    BY <2>2, <2>3, <2>4, <2>5 DEF TypeOK, PostMovement, PostedCache, rebuild
<1>2. DriftExplained'
  <2>. SUFFICES ASSUME NEW c \in Cell, cache'[c] # balance'[c]
                PROVE  c \in rtodo' \cup torn'
    BY DEF DriftExplained
  <2>1. cache'[c] = cache[c] + d[c] /\ balance'[c] = balance[c] + d[c]
    BY DEF PostMovement, PostedCache
  <2>2. cache[c] # balance[c]
    BY <2>1
  <2>. QED
    BY <2>2 DEF DriftExplained, PostMovement, PostedCache, rebuild
<1>3. PhaseOK'
  BY DEF PhaseOK, PostMovement, PostedCache, rebuild
<1>4. SumsFresh'
  <2>. SUFFICES ASSUME NEW c \in Cell, KindOf(c) \in rgot', c \notin stale'
                PROVE  rsum'[c] = balance'[c]
    BY DEF SumsFresh, KindOf
  <2>1. rgot' = rgot /\ rsum' = rsum
    BY DEF PostMovement, PostedCache, rebuild
  <2>2. d[c] = 0 /\ c \notin stale
    BY <2>1 DEF PostMovement, PostedCache
  <2>3. balance'[c] = balance[c]
    BY <2>2 DEF PostMovement, PostedCache, TypeOK
  <2>. QED
    BY <2>1, <2>2, <2>3 DEF SumsFresh
<1>. QED
  BY <1>1, <1>2, <1>3, <1>4

(* Only pend changes when a handler prepares or abandons a movement, and   *)
(* the history of the cells two handlers drew on.                          *)
LEMMA PrepareKeepsInv ==
  ASSUME LedgerInv, pend' \in [Sessions -> [Cell -> Int]], raced' \in SUBSET Cell,
         UNCHANGED <<rows, balance, cache, rebuild, stale, torn, used>>
  PROVE  LedgerInv'
BY DEF LedgerInv, TypeOK, DriftExplained, PhaseOK, SumsFresh, rebuild, KindOf

LEMMA HandlerKeepsInv ==
  ASSUME LedgerInv, NEW s \in Sessions, Handler(s)
  PROVE  LedgerInv'
<1>. USE LedgerAssumption
<1>0. pend \in [Sessions -> [Cell -> Int]]
  BY DEF LedgerInv, TypeOK
<1>1. ASSUME NEW c \in Cell, NEW n \in 1..MaxQty, DecreaseStock(s, c, n)
      PROVE  LedgerInv'
  <2>1. [Zero EXCEPT ![c] = -n] \in [Cell -> Int]
    BY ZeroType
  <2>2. pend' \in [Sessions -> [Cell -> Int]]
    BY <1>0, <1>1, <2>1 DEF DecreaseStock, Prepare
  <2>9. raced' \in SUBSET Cell
    BY <1>1 DEF DecreaseStock, Prepare, LedgerInv, TypeOK
  <2>. QED
    BY <1>1, <2>2, <2>9, PrepareKeepsInv DEF DecreaseStock, Prepare
<1>2. ASSUME NEW p \in Products, NEW from \in Location, NEW to \in Location,
             NEW n \in 1..MaxQty, TransferStock(s, p, from, to, n)
      PROVE  LedgerInv'
  <2>1. [Zero EXCEPT ![<<p, from>>] = -n, ![<<p, to>>] = n] \in [Cell -> Int]
    BY ZeroType, PairInCell
  <2>2. pend' \in [Sessions -> [Cell -> Int]]
    BY <1>0, <1>2, <2>1 DEF TransferStock, Prepare
  <2>9. raced' \in SUBSET Cell
    BY <1>2 DEF TransferStock, Prepare, LedgerInv, TypeOK
  <2>. QED
    BY <1>2, <2>2, <2>9, PrepareKeepsInv DEF TransferStock, Prepare
<1>3. ASSUME NEW c \in Cell, NEW n \in 0..MaxQty, CreateStockCount(s, c, n)
      PROVE  LedgerInv'
  <2>1. balance[c] \in Int /\ n \in Int
    BY DEF LedgerInv, TypeOK
  <2>2. [Zero EXCEPT ![c] = n - balance[c]] \in [Cell -> Int]
    BY <2>1, ZeroType
  <2>3. pend' \in [Sessions -> [Cell -> Int]]
    BY <1>0, <1>3, <2>2 DEF CreateStockCount, Prepare
  <2>9. raced' \in SUBSET Cell
    BY <1>3 DEF CreateStockCount, Prepare, LedgerInv, TypeOK
  <2>. QED
    BY <1>3, <2>3, <2>9, PrepareKeepsInv DEF CreateStockCount, Prepare
<1>4. CASE CommitMovement(s)
  <2>1. pend' \in [Sessions -> [Cell -> Int]]
    BY <1>0, <1>4, ZeroType DEF CommitMovement
  <2>2. pend[s] \in [Cell -> Int] /\ PostMovement(pend[s])
    BY <1>0, <1>4 DEF CommitMovement
  <2>. QED
    BY <2>1, <2>2, PostKeepsInv
<1>5. CASE Rollback(s)
  <2>1. pend' \in [Sessions -> [Cell -> Int]]
    BY <1>0, <1>5, ZeroType DEF Rollback
  <2>2. raced' \in SUBSET Cell
    BY <1>5 DEF Rollback, LedgerInv, TypeOK
  <2>. QED
    BY <1>5, <2>1, <2>2, PrepareKeepsInv DEF Rollback
<1>. QED
  BY <1>1, <1>2, <1>3, <1>4, <1>5 DEF Handler
-----------------------------------------------------------------------------
LEMMA LedgerInitInv == Init => LedgerInv
<1>. SUFFICES ASSUME Init PROVE LedgerInv
  OBVIOUS
<1>1. TypeOK
  BY ZeroType DEF Init, TypeOK, Bounded
<1>2. DriftExplained /\ PhaseOK /\ SumsFresh
  BY DEF Init, DriftExplained, PhaseOK, SumsFresh
<1>. QED
  BY <1>1, <1>2 DEF LedgerInv

LEMMA IncreaseKeepsInv ==
  ASSUME LedgerInv, NEW c \in Cell, NEW n \in 1..MaxQty, IncreaseStock(c, n)
  PROVE  LedgerInv'
<1>1. [Zero EXCEPT ![c] = n] \in [Cell -> Int]
  BY ZeroType, LedgerAssumption
<1>2. pend' \in [Sessions -> [Cell -> Int]]
  BY DEF IncreaseStock, LedgerInv, TypeOK
<1>. QED
  BY <1>1, <1>2, PostKeepsInv DEF IncreaseStock

LEMMA DeleteKeepsInv ==
  ASSUME LedgerInv, NEW c \in Cell, NEW i \in DOMAIN rows[c], DeleteMovement(c, i)
  PROVE  LedgerInv'
<1>1. RemoveAt(rows[c], i) \in Seq(Int) /\ rows[c][i] \in Int
  <2>1. rows[c] \in Seq(Int)
    BY DEF LedgerInv, TypeOK
  <2>. QED
    BY <2>1, RemoveAtType
<1>2. rows' \in [Cell -> Seq(Int)] /\ balance' \in [Cell -> Int]
  BY <1>1 DEF DeleteMovement, LedgerInv, TypeOK
<1>3. TypeOK'
  BY <1>2 DEF DeleteMovement, StartRebuild, LedgerInv, TypeOK, Bounded
<1>4. DriftExplained'
  BY DEF DeleteMovement, LedgerInv, TypeOK, DriftExplained
<1>5. PhaseOK' /\ SumsFresh'
  BY DEF DeleteMovement, StartRebuild, LedgerInv, PhaseOK, SumsFresh, KindOf
<1>. QED
  BY <1>3, <1>4, <1>5 DEF LedgerInv

LEMMA RebuildKeepsInv == LedgerInv /\ Rebuild => LedgerInv'
<1>. SUFFICES ASSUME LedgerInv, Rebuild PROVE LedgerInv'
  OBVIOUS
<1>. USE DEF LedgerInv
<1>1. CASE RecomputeCaches
  <2>1. TypeOK'
    BY <1>1 DEF RecomputeCaches, StartRebuild, TypeOK, Bounded
  <2>2. DriftExplained' /\ PhaseOK' /\ SumsFresh'
    BY <1>1 DEF RecomputeCaches, StartRebuild, DriftExplained, PhaseOK,
       SumsFresh, KindOf
  <2>. QED
    BY <2>1, <2>2
<1>2. ASSUME NEW k \in Kind, ReadSums(k)
      PROVE  LedgerInv'
  <2>1. rsum' \in [Cell -> Int]
    BY <1>2 DEF ReadSums, SumsWith, TypeOK
  <2>2. TypeOK'
    BY <1>2, <2>1 DEF ReadSums, SumsWith, TypeOK
  <2>3. DriftExplained' /\ PhaseOK'
    BY <1>2 DEF ReadSums, SumsWith, DriftExplained, PhaseOK
  <2>4. SumsFresh'
    BY <1>2 DEF ReadSums, SumsWith, SumsFresh, TypeOK, KindOf
  <2>. QED
    BY <2>2, <2>3, <2>4
<1>3. CASE ZeroCaches
  <2>1. TypeOK'
    BY <1>3, ZeroType DEF ZeroCaches, ZeroedCache, TypeOK
  <2>2. DriftExplained'
    BY <1>3 DEF ZeroCaches, ZeroedCache, DriftExplained, TypeOK, Zero
  <2>3. PhaseOK' /\ SumsFresh'
    BY <1>3 DEF ZeroCaches, ZeroedCache, PhaseOK, SumsFresh, KindOf
  <2>. QED
    BY <2>1, <2>2, <2>3
<1>4. ASSUME NEW c \in Cell, RewriteRow(c)
      PROVE  LedgerInv'
  <2>1. TypeOK'
    BY <1>4 DEF RewriteRow, TypeOK
  <2>2. KindOf(c) \in rgot
    BY <1>4, KindOfType DEF RewriteRow, PhaseOK
  <2>3. c \notin stale => cache'[c] = balance'[c]
    BY <1>4, <2>2 DEF RewriteRow, SumsFresh, TypeOK
  <2>4. \A e \in Cell \ {c} : cache'[e] = cache[e]
    BY <1>4 DEF RewriteRow, TypeOK
  <2>5. DriftExplained'
    BY <1>4, <2>3, <2>4 DEF RewriteRow, DriftExplained
  <2>6. PhaseOK' /\ SumsFresh'
    BY <1>4 DEF RewriteRow, PhaseOK, SumsFresh, KindOf
  <2>. QED
    BY <2>1, <2>5, <2>6
<1>5. CASE FinishRebuild
  <2>1. TypeOK'
    BY <1>5, ZeroType DEF FinishRebuild, EndRebuild, TypeOK
  <2>2. DriftExplained' /\ PhaseOK' /\ SumsFresh'
    BY <1>5 DEF FinishRebuild, EndRebuild, DriftExplained, PhaseOK, SumsFresh
  <2>. QED
    BY <2>1, <2>2
<1>. QED
  BY <1>1, <1>2, <1>3, <1>4, <1>5 DEF Rebuild

LEMMA DyingKeepsInv == LedgerInv /\ RebuildDies => LedgerInv'
<1>. SUFFICES ASSUME LedgerInv, RebuildDies PROVE LedgerInv'
  OBVIOUS
<1>1. TypeOK'
  BY ZeroType DEF RebuildDies, EndRebuild, LedgerInv, TypeOK
<1>2. DriftExplained' /\ PhaseOK' /\ SumsFresh'
  BY DEF RebuildDies, EndRebuild, LedgerInv, DriftExplained, PhaseOK, SumsFresh
<1>. QED
  BY <1>1, <1>2 DEF LedgerInv

LEMMA LedgerStepKeeps == LedgerInv /\ [Next]_vars => LedgerInv'
<1>. SUFFICES ASSUME LedgerInv, [Next]_vars PROVE LedgerInv'
  OBVIOUS
<1>1. ASSUME NEW c \in Cell, NEW n \in 1..MaxQty, IncreaseStock(c, n)
      PROVE  LedgerInv'
  BY <1>1, IncreaseKeepsInv
<1>2. ASSUME NEW s \in Sessions, Handler(s)
      PROVE  LedgerInv'
  BY <1>2, HandlerKeepsInv
<1>3. ASSUME NEW c \in Cell, NEW i \in DOMAIN rows[c], DeleteMovement(c, i)
      PROVE  LedgerInv'
  BY <1>3, DeleteKeepsInv
<1>4. CASE Rebuild
  BY <1>4, RebuildKeepsInv
<1>5. CASE RebuildDies
  BY <1>5, DyingKeepsInv
<1>6. CASE UNCHANGED vars
  BY <1>6 DEF vars, LedgerInv, TypeOK, DriftExplained, PhaseOK, SumsFresh, KindOf
<1>. QED
  BY <1>1, <1>2, <1>3, <1>4, <1>5, <1>6 DEF Next

(* Whatever handlers, deletions and rebuilds interleave, a cached balance  *)
(* differs from the ledger only at a cell a rebuild is about to rewrite,   *)
(* or one that a deletion, an overlapped or a dead rebuild left torn:      *)
(* posting movements never makes WarehouseStock / RepStock drift.          *)
THEOREM CacheDriftIsExplained == Spec => []DriftExplained
<1>1. LedgerInv => DriftExplained
  BY DEF LedgerInv
<1>. QED
  BY <1>1, LedgerInitInv, LedgerStepKeeps, PTL DEF Spec

-----------------------------------------------------------------------------
(* A rebuild left alone repairs every cell.                                *)

(* The balance of a cell is the sum of its rows. *)
RowsAddUp == \A c \in Cell : balance[c] = SumFunction(rows[c])
(* The rebuild reads no sum for a cell without rows. *)
UnseenAreZero == \A c \in Cell : KindOf(c) \in rgot /\ c \notin rseen => rsum[c] = 0
(* Once the caches are zeroed, a torn cell waits to be rewritten, or moved *)
(* since the rebuild read it.                                              *)
TornIsWaiting == rpc = "write" => torn \subseteq rtodo \cup stale

RepairInv == LedgerInv /\ RowsAddUp /\ UnseenAreZero /\ TornIsWaiting

(* The sum of a list with one more element, and with one less. *)
LEMMA SumOfAppend ==
  ASSUME NEW q \in Seq(Int), NEW n \in Int
  PROVE  SumFunction(Append(q, n)) = SumFunction(q) + n
<1>. DEFINE g == Append(q, n)
            a == Len(q) + 1
<1>1. Len(q) \in Nat /\ DOMAIN q = 1..Len(q) /\ g \in Seq(Int) /\ Len(g) = a /\ DOMAIN g = 1..a
  OBVIOUS
<1>2. g[a] = n /\ \A x \in 1..Len(q) : g[x] = q[x]
  OBVIOUS
<1>3. /\ IsFiniteSet(DOMAIN q)
      /\ a \notin DOMAIN q /\ a \in DOMAIN g /\ DOMAIN q \ {a} = DOMAIN g \ {a}
  <2>1. IsFiniteSet(1..Len(q))
    BY <1>1, FS_Interval
  <2>2. 1..Len(q) = 1..a \ {a} /\ a \in 1..a /\ a \notin 1..Len(q)
    BY <1>1
  <2>. QED
    BY <1>1, <2>1, <2>2
<1>4. (\A x \in DOMAIN q : q[x] \in Int) /\ (\A x \in DOMAIN g : g[x] \in Int)
  BY <1>1, <1>2
<1>. HIDE DEF g, a
<1>5. \A x \in DOMAIN q \ {a} : g[x] = q[x]
  BY <1>1, <1>2
<1>6. SumFunction(g) = SumFunction(q) - ValueAt(q, a) + ValueAt(g, a)
  BY <1>3, <1>4, <1>5, SumDiffersAt
<1>7. ValueAt(q, a) = 0 /\ ValueAt(g, a) = n
  BY <1>2, <1>3 DEF ValueAt
<1>8. SumFunction(q) \in Int
  BY <1>3, <1>4, SumFunctionIsInt
<1>. QED
  BY <1>6, <1>7, <1>8 DEF g

LEMMA JoinedLists ==
  ASSUME NEW low \in Seq(Int), NEW high \in Seq(Int)
  PROVE  /\ low \o high \in Seq(Int) /\ Len(low \o high) = Len(low) + Len(high)
         /\ \A x \in 1..Len(low) : (low \o high)[x] = low[x]
         /\ \A x \in 1..Len(high) : (low \o high)[Len(low) + x] = high[x]
BY ConcatProperties

LEMMA SumOfRemoveAt ==
  ASSUME NEW q \in Seq(Int), NEW i \in DOMAIN q
  PROVE  SumFunction(RemoveAt(q, i)) = SumFunction(q) - q[i]
<1>. DEFINE g == RemoveAt(q, i)
            n == Len(q) - 1
            m == [x \in 1..n |-> IF x < i THEN x ELSE x + 1]
<1>1. Len(q) \in Nat /\ DOMAIN q = 1..Len(q) /\ i \in 1..Len(q) /\ n \in Nat
  OBVIOUS
<1>. DEFINE low == SubSeq(q, 1, i - 1)
            high == SubSeq(q, i + 1, Len(q))
<1>2. /\ low \in Seq(Int) /\ high \in Seq(Int)
      /\ Len(low) = i - 1 /\ Len(high) = Len(q) - i
      /\ \A x \in 1..(i - 1) : low[x] = q[x]
      /\ \A x \in 1..(Len(q) - i) : high[x] = q[i + x]
  <2>1. low \in Seq(Int)
    BY <1>1
  <2>2. high \in Seq(Int)
    BY <1>1
  <2>3. Len(low) = i - 1
    BY <1>1
  <2>4. Len(high) = Len(q) - i
    BY <1>1
  <2>5. \A x \in 1..(i - 1) : low[x] = q[x]
    BY <1>1
  <2>6. \A x \in 1..(Len(q) - i) : high[x] = q[i + x]
    BY <1>1
  <2>. QED
    BY <2>1, <2>2, <2>3, <2>4, <2>5, <2>6
<1>0. g = low \o high
  BY DEF RemoveAt
<1>. HIDE DEF low, high, g
<1>3. /\ g \in Seq(Int) /\ Len(g) = n
      /\ \A x \in 1..n : g[x] = IF x < i THEN q[x] ELSE q[x + 1]
  <2>0. /\ g \in Seq(Int) /\ Len(g) = Len(low) + Len(high)
        /\ \A x \in 1..Len(low) : g[x] = low[x]
        /\ \A x \in 1..Len(high) : g[Len(low) + x] = high[x]
    BY <1>0, <1>2, JoinedLists
  <2>1. g \in Seq(Int) /\ Len(g) = n
    BY <1>1, <1>2, <2>0
  <2>2. ASSUME NEW x \in 1..n, x < i PROVE g[x] = q[x]
    <3>1. x \in 1..Len(low) /\ x \in 1..(i - 1)
      BY <1>1, <1>2, <2>2
    <3>2. g[x] = low[x]
      BY <2>0, <3>1
    <3>3. low[x] = q[x]
      BY <1>2, <3>1
    <3>. QED
      BY <3>2, <3>3
  <2>3. ASSUME NEW x \in 1..n, ~(x < i) PROVE g[x] = q[x + 1]
    <3>. DEFINE y == x - (i - 1)
    <3>1. y \in 1..(Len(q) - i) /\ (i - 1) + y = x /\ i + y = x + 1
      BY <1>1, <2>3
    <3>. HIDE DEF y
    <3>2. g[(i - 1) + y] = high[y]
      BY <1>2, <2>0, <3>1
    <3>3. high[y] = q[i + y]
      BY <1>2, <3>1
    <3>. QED
      BY <3>1, <3>2, <3>3
  <2>. QED
    BY <2>1, <2>2, <2>3
<1>4. DOMAIN g = 1..n
  BY <1>3
<1>5. m \in [1..n -> DOMAIN q \ {i}]
  BY <1>1
<1>6. \A x, y \in 1..n : m[x] = m[y] => x = y
  BY <1>1
<1>7. \A x \in 1..n : g[x] = q[m[x]]
  BY <1>1, <1>3
<1>8. {m[x] : x \in 1..n} = DOMAIN q \ {i}
  <2>1. ASSUME NEW y \in DOMAIN q \ {i} PROVE \E x \in 1..n : m[x] = y
    <3>1. CASE y < i
      BY <1>1, <3>1
    <3>2. CASE y > i
      <4>1. y - 1 \in 1..n /\ m[y - 1] = y
        BY <1>1, <3>2
      <4>. QED
        BY <4>1
    <3>. QED
      BY <1>1, <3>1, <3>2
  <2>. QED
    BY <1>5, <2>1
<1>. HIDE DEF m
<1>9. \A y \in DOMAIN q : q[y] \in Int
  BY <1>1
<1>10. SumFunctionOnSet(g, 1..n) = SumFunctionOnSet(q, DOMAIN q \ {i})
  <2>. DEFINE S == 1..n
              R == DOMAIN q \ {i}
  <2>1. IsFiniteSet(S)
    BY <1>1, FS_Interval
  <2>2. \A y \in R : q[y] \in Int
    BY <1>9
  <2>3. m \in Bijection(S, R)
    BY <1>5, <1>6, <1>8 DEF Bijection, Injection, Surjection, IsInjective
  <2>4. \A x \in S : g[x] = q[m[x]]
    BY <1>7
  <2>5. SumFunctionOnSet(g, S) = SumFunctionOnSet(q, R)
    <3>. HIDE DEF S, R
    <3>. QED
      BY <2>1, <2>2, <2>3, <2>4, SumOfBijection
  <2>. QED
    BY <2>5
<1>11. SumFunctionOnSet(q, DOMAIN q) = q[i] + SumFunctionOnSet(q, DOMAIN q \ {i})
  <2>1. IsFiniteSet(DOMAIN q)
    BY <1>1, FS_Interval
  <2>. QED
    BY <1>9, <2>1, SumOfOneMore
<1>12. SumFunctionOnSet(q, DOMAIN q \ {i}) \in Int
  <2>1. IsFiniteSet(DOMAIN q \ {i})
    <3>1. IsFiniteSet(1..Len(q))
      BY <1>1, FS_Interval
    <3>. QED
      BY <1>1, <3>1, FS_RemoveElement
  <2>. QED
    BY <1>9, <2>1, SumIsInt
<1>. QED
  <2>1. SumFunction(g) = SumFunctionOnSet(q, DOMAIN q \ {i})
    BY <1>4, <1>10 DEF SumFunction
  <2>2. SumFunction(q) = q[i] + SumFunctionOnSet(q, DOMAIN q \ {i}) /\ q[i] \in Int
    BY <1>9, <1>11 DEF SumFunction
  <2>3. SumFunction(g) = SumFunction(q) - q[i]
    BY <1>12, <2>1, <2>2
  <2>. QED
    BY <2>3 DEF g

LEMMA SumOfNoRows == SumFunction(<<>>) = 0
<1>1. DOMAIN <<>> = {}
  OBVIOUS
<1>. QED
  BY <1>1, SumFunctionOfNothing

LEMMA RepairInitInv == Init => RepairInv
<1>1. Init => RowsAddUp
  BY SumOfNoRows DEF Init, RowsAddUp, Zero
<1>. QED
  BY <1>1, LedgerInitInv DEF Init, RepairInv, UnseenAreZero, TornIsWaiting

-----------------------------------------------------------------------------
LEMMA PostingKeepsRepair ==
  ASSUME RepairInv, NEW d \in [Cell -> Int], PostMovement(d)
  PROVE  (RowsAddUp /\ UnseenAreZero /\ TornIsWaiting)'
<1>1. ASSUME NEW c \in Cell PROVE balance'[c] = SumFunction(rows'[c])
  <2>1. rows[c] \in Seq(Int) /\ balance[c] \in Int /\ d[c] \in Int
    BY DEF RepairInv, LedgerInv, TypeOK
  <2>2. /\ rows'[c] = IF d[c] = 0 THEN rows[c] ELSE Append(rows[c], d[c])
        /\ balance'[c] = balance[c] + d[c]
    BY DEF PostMovement
  <2>3. SumFunction(Append(rows[c], d[c])) = SumFunction(rows[c]) + d[c]
    BY <2>1, SumOfAppend
  <2>4. balance[c] = SumFunction(rows[c])
    BY DEF RepairInv, RowsAddUp
  <2>. QED
    BY <2>1, <2>2, <2>3, <2>4
<1>2. UNCHANGED <<rpc, rgot, rsum, rseen, rtodo, torn>> /\ stale \subseteq stale'
  BY DEF PostMovement, rebuild
<1>. QED
  BY <1>1, <1>2 DEF RepairInv, RowsAddUp, UnseenAreZero, TornIsWaiting, KindOf

LEMMA HandlerKeepsRepair ==
  ASSUME RepairInv, NEW s \in Sessions, Handler(s)
  PROVE  (RowsAddUp /\ UnseenAreZero /\ TornIsWaiting)'
<1>1. CASE CommitMovement(s)
  <2>1. pend[s] \in [Cell -> Int]
    BY DEF RepairInv, LedgerInv, TypeOK
  <2>. QED
    BY <1>1, <2>1, PostingKeepsRepair DEF CommitMovement
<1>2. CASE ~CommitMovement(s)
  <2>1. UNCHANGED <<rows, balance, cache, rebuild, stale, torn, used>>
    BY <1>2 DEF Handler, DecreaseStock, TransferStock, CreateStockCount, Prepare, Rollback
  <2>. QED
    BY <2>1 DEF rebuild, RepairInv, RowsAddUp, UnseenAreZero, TornIsWaiting, KindOf
<1>. QED
  BY <1>1, <1>2

LEMMA DeletionKeepsRepair ==
  ASSUME RepairInv, NEW c \in Cell, NEW i \in DOMAIN rows[c], DeleteMovement(c, i)
  PROVE  (RowsAddUp /\ UnseenAreZero /\ TornIsWaiting)'
<1>1. /\ rows' = [rows EXCEPT ![c] = RemoveAt(rows[c], i)]
      /\ balance' = [balance EXCEPT ![c] = balance[c] - rows[c][i]]
      /\ rpc' = "read" /\ rgot' = {}
  BY DEF DeleteMovement, StartRebuild
<1>2. rows[c] \in Seq(Int) /\ rows \in [Cell -> Seq(Int)] /\ balance \in [Cell -> Int]
  BY DEF RepairInv, LedgerInv, TypeOK
<1>3. SumFunction(RemoveAt(rows[c], i)) = SumFunction(rows[c]) - rows[c][i]
  BY <1>2, SumOfRemoveAt
<1>4. RowsAddUp'
  <2>1. rows'[c] = RemoveAt(rows[c], i) /\ balance'[c] = balance[c] - rows[c][i]
    BY <1>1, <1>2
  <2>2. \A e \in Cell \ {c} : rows'[e] = rows[e] /\ balance'[e] = balance[e]
    BY <1>1, <1>2
  <2>. QED
    BY <1>3, <2>1, <2>2 DEF RepairInv, RowsAddUp
<1>. QED
  BY <1>1, <1>4 DEF UnseenAreZero, TornIsWaiting

(* Reading: a group that does not come back had no row, so its sum is 0.   *)
LEMMA ReadingKeepsRepair ==
  ASSUME RepairInv, NEW k \in Kind, ReadSums(k)
  PROVE  (RowsAddUp /\ UnseenAreZero /\ TornIsWaiting)'
<1>1. /\ rpc = "read" /\ rgot' = rgot \cup {k}
      /\ rsum' = [c \in Cell |-> IF KindOf(c) = k THEN balance[c] ELSE rsum[c]]
      /\ rseen' = rseen \cup {c \in Cell : KindOf(c) = k /\ rows[c] # <<>>}
      /\ UNCHANGED <<rows, balance, rpc>>
  BY DEF ReadSums, SumsWith
<1>2. ASSUME NEW c \in Cell, KindOf(c) \in rgot', c \notin rseen' PROVE rsum'[c] = 0
  <2>1. CASE KindOf(c) = k
    <3>1. rows[c] = <<>> /\ rsum'[c] = balance[c]
      BY <1>1, <1>2, <2>1
    <3>2. balance[c] = SumFunction(rows[c])
      BY DEF RepairInv, RowsAddUp
    <3>. QED
      BY <3>1, <3>2, SumOfNoRows
  <2>2. CASE KindOf(c) # k
    BY <1>1, <1>2, <2>2 DEF RepairInv, UnseenAreZero
  <2>. QED
    BY <2>1, <2>2
<1>. QED
  BY <1>1, <1>2 DEF RepairInv, RowsAddUp, UnseenAreZero, TornIsWaiting, KindOf

(* Zeroing: a cell the rebuild did not see and will not rewrite is torn    *)
(* only if it holds boxes now; it held none when it was read, so it moved. *)
LEMMA ZeroingKeepsRepair ==
  ASSUME RepairInv, ZeroCaches
  PROVE  (RowsAddUp /\ UnseenAreZero /\ TornIsWaiting)'
<1>1. /\ rgot = Kind /\ rtodo' = rseen
      /\ torn' = {c \in Cell \ rseen : balance[c] # 0} \cup (torn \cap rseen)
      /\ UNCHANGED <<rows, balance, rgot, rsum, rseen, stale>>
  BY DEF ZeroCaches
<1>2. ASSUME NEW c \in Cell \ rseen, balance[c] # 0 PROVE c \in stale
  <2>1. KindOf(c) \in rgot
    BY <1>1, KindOfType
  <2>2. rsum[c] = 0
    BY <2>1 DEF RepairInv, UnseenAreZero
  <2>3. c \notin stale => rsum[c] = balance[c]
    BY <2>1 DEF RepairInv, LedgerInv, SumsFresh
  <2>. QED
    BY <1>2, <2>2, <2>3
<1>3. torn' \subseteq rtodo' \cup stale'
  BY <1>1, <1>2
<1>. QED
  BY <1>1, <1>3 DEF RepairInv, RowsAddUp, UnseenAreZero, TornIsWaiting, KindOf

LEMMA RebuildingKeepsRepair ==
  ASSUME RepairInv, Rebuild \/ RebuildDies
  PROVE  (RowsAddUp /\ UnseenAreZero /\ TornIsWaiting)'
<1>1. CASE RecomputeCaches
  BY <1>1 DEF RecomputeCaches, StartRebuild, RepairInv, RowsAddUp, UnseenAreZero, TornIsWaiting
<1>2. ASSUME NEW k \in Kind, ReadSums(k)
      PROVE  (RowsAddUp /\ UnseenAreZero /\ TornIsWaiting)'
  BY <1>2, ReadingKeepsRepair
<1>3. CASE ZeroCaches
  BY <1>3, ZeroingKeepsRepair
<1>4. ASSUME NEW c \in Cell, RewriteRow(c)
      PROVE  (RowsAddUp /\ UnseenAreZero /\ TornIsWaiting)'
  BY <1>4 DEF RewriteRow, RepairInv, RowsAddUp, UnseenAreZero, TornIsWaiting, KindOf
<1>5. CASE FinishRebuild \/ RebuildDies
  BY <1>5 DEF FinishRebuild, RebuildDies, EndRebuild, RepairInv, RowsAddUp, UnseenAreZero, TornIsWaiting
<1>. QED
  BY <1>1, <1>2, <1>3, <1>4, <1>5 DEF Rebuild

LEMMA RepairStepKeeps == RepairInv /\ [Next]_vars => RepairInv'
<1>. SUFFICES ASSUME RepairInv, [Next]_vars
              PROVE  (RowsAddUp /\ UnseenAreZero /\ TornIsWaiting)'
  BY LedgerStepKeeps DEF RepairInv
<1>1. ASSUME NEW c \in Cell, NEW n \in 1..MaxQty, IncreaseStock(c, n)
      PROVE  (RowsAddUp /\ UnseenAreZero /\ TornIsWaiting)'
  <2>1. [Zero EXCEPT ![c] = n] \in [Cell -> Int]
    BY ZeroType, LedgerAssumption
  <2>. QED
    BY <1>1, <2>1, PostingKeepsRepair DEF IncreaseStock
<1>2. CASE UNCHANGED vars
  BY <1>2 DEF vars, RepairInv, RowsAddUp, UnseenAreZero, TornIsWaiting, KindOf
<1>. QED
  BY <1>1, <1>2, HandlerKeepsRepair, DeletionKeepsRepair, RebuildingKeepsRepair DEF Next

(* For any products, places and requests: a rebuild that ran to its end    *)
(* while nothing moved leaves no cell torn, and every cached balance is    *)
(* the ledger's.                                                           *)
THEOREM QuietRebuildsRepair == Spec => QuietRebuildRepairs
<1>1. ASSUME RepairInv, FinishRebuild, stale = {} PROVE torn' = {} /\ cache' = balance'
  <2>1. /\ rpc = "write" /\ rtodo = {}
        /\ torn' = torn /\ cache' = cache /\ balance' = balance
    BY <1>1 DEF FinishRebuild
  <2>2. torn = {}
    BY <1>1, <2>1 DEF RepairInv, TornIsWaiting
  <2>3. \A c \in Cell : cache[c] = balance[c]
    BY <1>1, <2>1, <2>2 DEF RepairInv, LedgerInv, DriftExplained
  <2>4. cache \in [Cell -> Int] /\ balance \in [Cell -> Int]
    BY <1>1 DEF RepairInv, LedgerInv, TypeOK
  <2>. QED
    BY <2>1, <2>2, <2>3, <2>4
<1>2. RepairInv => [FinishRebuild /\ stale = {} => torn' = {} /\ cache' = balance']_vars
  BY <1>1
<1>. QED
  BY <1>2, RepairInitInv, RepairStepKeeps, PTL DEF Spec, QuietRebuildRepairs

-----------------------------------------------------------------------------
(* At a cell where no two handlers drew at once, what each handler has     *)
(* checked still fits the balance, and only one of them takes boxes away.  *)
CellGuarded(c) ==
  /\ balance[c] >= 0
  /\ \A s \in Sessions : balance[c] + pend[s][c] >= 0
  /\ \A s, t \in Sessions : pend[s][c] < 0 /\ pend[t][c] < 0 => s = t

Guarded == \A c \in Cell \ raced : CellGuarded(c)

(* A handler that checked the movement it prepares keeps the guard: a cell *)
(* another handler already draws on is recorded as raced.                  *)
LEMMA PrepareGuards ==
  ASSUME TypeOK, Guarded, NEW s \in Sessions, NEW d \in [Cell -> Int],
         Prepare(s, d), \A c \in Cell : balance[c] >= 0 => balance[c] + d[c] >= 0
  PROVE  Guarded'
<1>. SUFFICES ASSUME NEW c \in Cell, c \notin raced' PROVE CellGuarded(c)'
  BY DEF Guarded
<1>0. balance \in [Cell -> Int] /\ pend \in [Sessions -> [Cell -> Int]]
  BY DEF TypeOK
<1>1. CellGuarded(c) /\ balance' = balance
  BY DEF Prepare, Guarded
<1>2. \A t \in Sessions : pend'[t][c] = IF t = s THEN d[c] ELSE pend[t][c]
  BY <1>0 DEF Prepare
<1>3. d[c] < 0 => \A t \in Sessions \ {s} : ~(pend[t][c] < 0)
  BY DEF Prepare
<1>4. \A t \in Sessions : balance'[c] + pend'[t][c] >= 0
  BY <1>1, <1>2 DEF CellGuarded
<1>5. \A t, u \in Sessions : pend'[t][c] < 0 /\ pend'[u][c] < 0 => t = u
  BY <1>1, <1>2, <1>3 DEF CellGuarded
<1>. QED
  BY <1>1, <1>4, <1>5 DEF CellGuarded

(* Committing what was checked leaves the balance at or above zero, and    *)
(* whatever the others checked still fits.                                 *)
LEMMA CommitGuards ==
  ASSUME TypeOK, Guarded, NEW s \in Sessions, CommitMovement(s)
  PROVE  Guarded'
<1>. SUFFICES ASSUME NEW c \in Cell, c \notin raced' PROVE CellGuarded(c)'
  BY DEF Guarded
<1>0. balance \in [Cell -> Int] /\ pend \in [Sessions -> [Cell -> Int]]
  BY DEF TypeOK
<1>1. CellGuarded(c)
  BY DEF CommitMovement, PostMovement, Guarded
<1>2. balance'[c] = balance[c] + pend[s][c]
  BY DEF CommitMovement, PostMovement
<1>3. \A t \in Sessions : pend'[t][c] = IF t = s THEN 0 ELSE pend[t][c]
  BY <1>0 DEF CommitMovement, Zero
<1>4. balance[c] \in Int /\ \A t \in Sessions : pend[t][c] \in Int
  BY <1>0
<1>5. balance'[c] >= 0
  BY <1>1, <1>2 DEF CellGuarded
<1>6. \A t \in Sessions : balance'[c] + pend'[t][c] >= 0
  <2>. SUFFICES ASSUME NEW t \in Sessions PROVE balance'[c] + pend'[t][c] >= 0
    OBVIOUS
  <2>1. CASE t = s
    BY <1>2, <1>3, <1>4, <1>5, <2>1
  <2>2. CASE t # s /\ pend[t][c] < 0
    <3>1. pend[s][c] >= 0
      BY <1>1, <1>4, <2>2 DEF CellGuarded
    <3>. QED
      BY <1>1, <1>2, <1>3, <1>4, <2>2, <3>1 DEF CellGuarded
  <2>3. CASE t # s /\ ~(pend[t][c] < 0)
    BY <1>2, <1>3, <1>4, <1>5, <2>3
  <2>. QED
    BY <2>1, <2>2, <2>3
<1>7. \A t, u \in Sessions : pend'[t][c] < 0 /\ pend'[u][c] < 0 => t = u
  BY <1>1, <1>3 DEF CellGuarded
<1>. QED
  BY <1>5, <1>6, <1>7 DEF CellGuarded

LEMMA HandlerGuards ==
  ASSUME TypeOK, Guarded, NEW s \in Sessions, Handler(s)
  PROVE  Guarded'
<1>. USE LedgerAssumption
<1>0. balance \in [Cell -> Int] /\ pend \in [Sessions -> [Cell -> Int]]
  BY DEF TypeOK
<1>1. ASSUME NEW c \in Cell, NEW n \in 1..MaxQty, DecreaseStock(s, c, n)
      PROVE  Guarded'
  <2>1. [Zero EXCEPT ![c] = -n] \in [Cell -> Int]
    BY ZeroType
  <2>2. \A e \in Cell : balance[e] >= 0 => balance[e] + [Zero EXCEPT ![c] = -n][e] >= 0
    BY <1>0, <1>1 DEF DecreaseStock, Available, Zero
  <2>. QED
    BY <1>1, <2>1, <2>2, PrepareGuards DEF DecreaseStock
<1>2. ASSUME NEW p \in Products, NEW from \in Location, NEW to \in Location,
             NEW n \in 1..MaxQty, TransferStock(s, p, from, to, n)
      PROVE  Guarded'
  <2>. DEFINE d == [Zero EXCEPT ![<<p, from>>] = -n, ![<<p, to>>] = n]
  <2>1. <<p, from>> \in Cell /\ <<p, to>> \in Cell /\ <<p, from>> # <<p, to>>
    BY <1>2, PairInCell DEF TransferStock
  <2>2. d \in [Cell -> Int]
    BY <2>1, ZeroType
  <2>3. \A e \in Cell : d[e] >= 0 \/ (e = <<p, from>> /\ d[e] = -n)
    BY <2>1 DEF Zero
  <2>4. balance[<<p, from>>] >= n
    BY <1>2 DEF TransferStock, Available
  <2>5. \A e \in Cell : balance[e] >= 0 => balance[e] + d[e] >= 0
    <3>. HIDE DEF d
    <3>1. \A e \in Cell : balance[e] \in Int /\ d[e] \in Int
      BY <1>0, <2>2
    <3>. QED
      BY <2>3, <2>4, <3>1
  <2>6. Prepare(s, d)
    BY <1>2 DEF TransferStock
  <2>. QED
    BY <2>2, <2>5, <2>6, PrepareGuards
<1>3. ASSUME NEW c \in Cell, NEW n \in 0..MaxQty, CreateStockCount(s, c, n)
      PROVE  Guarded'
  <2>1. [Zero EXCEPT ![c] = n - balance[c]] \in [Cell -> Int]
    BY <1>0, ZeroType
  <2>2. \A e \in Cell : balance[e] >= 0 => balance[e] + [Zero EXCEPT ![c] = n - balance[c]][e] >= 0
    BY <1>0 DEF Zero
  <2>. QED
    BY <1>3, <2>1, <2>2, PrepareGuards DEF CreateStockCount
<1>4. CASE CommitMovement(s)
  BY <1>4, CommitGuards
<1>5. CASE Rollback(s)
  <2>. SUFFICES ASSUME NEW c \in Cell, c \notin raced' PROVE CellGuarded(c)'
    BY DEF Guarded
  <2>1. CellGuarded(c) /\ balance' = balance
    BY <1>5 DEF Rollback, Guarded
  <2>2. \A t \in Sessions : pend'[t][c] = IF t = s THEN 0 ELSE pend[t][c]
    BY <1>0, <1>5 DEF Rollback, Zero
  <2>. QED
    BY <1>0, <2>1, <2>2 DEF CellGuarded
<1>. QED
  BY <1>1, <1>2, <1>3, <1>4, <1>5 DEF Handler

LEMMA StepGuards == TypeOK /\ Guarded /\ [Next]_vars => Guarded'
<1>. SUFFICES ASSUME TypeOK, Guarded, [Next]_vars PROVE Guarded'
  OBVIOUS
<1>0. balance \in [Cell -> Int] /\ pend \in [Sessions -> [Cell -> Int]]
  BY DEF TypeOK
<1>1. ASSUME NEW c \in Cell, NEW n \in 1..MaxQty, IncreaseStock(c, n)
      PROVE  Guarded'
  <2>1. \A e \in Cell : [Zero EXCEPT ![c] = n][e] \in Nat
    BY LedgerAssumption DEF Zero
  <2>2. \A e \in Cell : balance'[e] \in Int /\ balance'[e] >= balance[e]
    BY <1>0, <1>1, <2>1 DEF IncreaseStock, PostMovement
  <2>3. pend' = pend /\ raced' = raced
    BY <1>1 DEF IncreaseStock, PostMovement
  <2>4. \A s \in Sessions, e \in Cell : pend[s][e] \in Int
    BY <1>0
  <2>. QED
    BY <1>0, <2>2, <2>3, <2>4 DEF Guarded, CellGuarded
<1>2. ASSUME NEW s \in Sessions, Handler(s)
      PROVE  Guarded'
  BY <1>2, HandlerGuards
<1>3. ASSUME NEW c \in Cell, NEW i \in DOMAIN rows[c], DeleteMovement(c, i)
      PROVE  Guarded'
  <2>. SUFFICES ASSUME NEW e \in Cell, e \notin raced' PROVE CellGuarded(e)'
    BY DEF Guarded
  <2>1. e # c /\ e \notin raced
    BY <1>3 DEF DeleteMovement
  <2>2. balance'[e] = balance[e] /\ pend' = pend
    BY <1>0, <1>3, <2>1 DEF DeleteMovement
  <2>. QED
    BY <2>1, <2>2 DEF Guarded, CellGuarded
<1>4. CASE Rebuild \/ RebuildDies \/ UNCHANGED vars
  <2>1. UNCHANGED <<balance, pend, raced>>
    BY <1>4 DEF Rebuild, RebuildDies, RecomputeCaches, ReadSums, ZeroCaches,
       RewriteRow, FinishRebuild, vars
  <2>. QED
    BY <2>1 DEF Guarded, CellGuarded
<1>. QED
  BY <1>1, <1>2, <1>3, <1>4 DEF Next

(* assertAvailable keeps every warehouse's and every rep's balance at or   *)
(* above zero, whatever movements, counts and cache rebuilds interleave:   *)
(* only a cell on which two handlers drew at once, or whose rows were      *)
(* deleted by hand, can go below.                                          *)
THEOREM StockNegativeOnlyWhenRaced == Spec => []NeverNegative
<1>1. Init => Guarded
  BY DEF Init, Guarded, CellGuarded, Zero
<1>2. LedgerInv => TypeOK
  BY DEF LedgerInv
<1>3. TypeOK /\ Guarded => NeverNegative
  BY DEF TypeOK, Guarded, CellGuarded, NeverNegative
<1>. QED
  BY <1>1, <1>2, <1>3, LedgerInitInv, LedgerStepKeeps, StepGuards, PTL DEF Spec

-----------------------------------------------------------------------------
(* The debts of customers (CustomerCredit).                                *)

(* No sale, no debt, no boxes put back and nobody at work on it. *)
UnsoldIsBlank ==
  \A v \in Sales : credit[v].status = "NONE" =>
    /\ sale[v].status = "NONE" /\ back[v] = 0
    /\ \A s \in Sessions : payer[s] # Credit!Idle => payer[s].of # v

(* Whoever works on a sale nobody else turned to is alone with it. *)
Alone ==
  \A s, t \in Sessions :
    payer[s] # Credit!Idle /\ payer[t] # Credit!Idle /\ payer[s].of = payer[t].of /\ payer[s].of \notin overlapped => s = t

(* What it has read, or checked, is still so. *)
Fresh(state, owed, status) ==
  /\ state.pc = "pay" =>
       /\ owed.status \notin {"NONE", "PAID", "WRITTEN_OFF"}
       /\ state.read.principal = owed.principal
       /\ state.read.amountPaid = owed.amountPaid
       /\ state.amount \in 1..owed.balance
  /\ state.pc = "cancel" => status \notin {"NONE", "CANCELLED"}
ReadsAreFresh ==
  \A s \in Sessions : payer[s] # Credit!Idle /\ payer[s].of \notin overlapped =>
    Fresh(payer[s], credit[payer[s].of], sale[payer[s].of].status)

(* CreditAddsUp, of one sale. *)
AddsUp(v) ==
  credit[v].status # "NONE" =>
    /\ received[v] = credit[v].amountPaid
    /\ sale[v].amountPaid = credit[v].amountPaid
    /\ sale[v].balanceDue = credit[v].balance
    /\ IF sale[v].status = "CANCELLED"
       THEN credit[v].status = "WRITTEN_OFF" /\ credit[v].balance = 0 /\ back[v] = 1
       ELSE credit[v].balance = Credit!BalanceDue(credit[v].principal, received[v]) /\ back[v] = 0
AllAddUp == \A v \in Sales \ overlapped : AddsUp(v)

CreditInv == Credit!TypeOK /\ UnsoldIsBlank /\ Alone /\ ReadsAreFresh /\ AllAddUp

LEMMA CreditInitInv == Credit!Init => CreditInv
BY DEF Credit!Init, CreditInv, Credit!TypeOK, UnsoldIsBlank, Alone, ReadsAreFresh, AllAddUp, AddsUp,
       Credit!SaleRows, Credit!Debts, Credit!NoSale, Credit!NoCredit

LEMMA BalanceDueType ==
  ASSUME NEW total \in Nat, NEW down \in Nat
  PROVE  Credit!BalanceDue(total, down) \in Nat
BY DEF Credit!BalanceDue

-----------------------------------------------------------------------------
(* A new sale: its debt is what the down payment leaves. *)
LEMMA CreditSaleKeeps ==
  ASSUME CreditInv, NEW v \in Sales, NEW total \in 1..MaxPrincipal,
         NEW down \in 0..MaxPrincipal, NEW late \in BOOLEAN, Credit!CreditSale(v, total, down, late)
  PROVE  CreditInv'
<1>. DEFINE left == Credit!BalanceDue(total, down)
            status == Credit!computeStatus(left, down, FALSE)
<1>0. total \in Nat /\ down \in Nat /\ left \in Nat
  BY BalanceDueType
<1>1. status \in {"OPEN", "PARTIAL", "PAID", "OVERDUE"}
  BY <1>0 DEF Credit!computeStatus
<1>2. /\ credit[v].status = "NONE"
      /\ sale' = [sale EXCEPT ![v] =
           [status |-> IF left = 0 THEN "PAID" ELSE IF down > 0 THEN "PARTIAL" ELSE "UNPAID",
            amountPaid |-> down, balanceDue |-> left]]
      /\ credit' = [credit EXCEPT ![v] =
           [status |-> status,
            principal |-> total, amountPaid |-> down, balance |-> left]]
      /\ received' = [received EXCEPT ![v] = down]
      /\ due' = IF late THEN due \cup {v} ELSE due
      /\ UNCHANGED <<back, payer, overlapped>>
  BY DEF Credit!CreditSale
<1>. HIDE DEF left, status
<1>3. Credit!TypeOK'
  <2>1. credit' \in [Sales -> Credit!Debts]
    <3>1. [status |-> status,
           principal |-> total, amountPaid |-> down, balance |-> left] \in Credit!Debts
      BY <1>0, <1>1 DEF Credit!Debts
    <3>. QED
      BY <1>2, <3>1 DEF CreditInv, Credit!TypeOK
  <2>2. sale' \in [Sales -> Credit!SaleRows]
    <3>1. [status |-> IF left = 0 THEN "PAID" ELSE IF down > 0 THEN "PARTIAL" ELSE "UNPAID",
           amountPaid |-> down, balanceDue |-> left] \in Credit!SaleRows
      BY <1>0 DEF Credit!SaleRows
    <3>. QED
      BY <1>2, <3>1 DEF CreditInv, Credit!TypeOK
  <2>3. received' \in [Sales -> Nat] /\ due' \subseteq Sales
    BY <1>0, <1>2 DEF CreditInv, Credit!TypeOK
  <2>. QED
    BY <1>2, <2>1, <2>2, <2>3 DEF CreditInv, Credit!TypeOK
<1>4. \A s \in Sessions : payer[s] # Credit!Idle => payer[s].of # v
  BY <1>2 DEF CreditInv, UnsoldIsBlank
<1>5. UnsoldIsBlank'
  BY <1>1, <1>2 DEF CreditInv, Credit!TypeOK, UnsoldIsBlank
<1>6. Alone'
  BY <1>2 DEF CreditInv, Alone
<1>7. ReadsAreFresh'
  BY <1>2, <1>4 DEF CreditInv, Credit!TypeOK, ReadsAreFresh
<1>8. AllAddUp'
  <2>1. AddsUp(v)'
    BY <1>0, <1>1, <1>2 DEF CreditInv, Credit!TypeOK, UnsoldIsBlank, AddsUp, left
  <2>2. ASSUME NEW w \in Sales \ overlapped, w # v PROVE AddsUp(w)'
    BY <1>2, <2>2 DEF CreditInv, Credit!TypeOK, AllAddUp, AddsUp
  <2>. QED
    BY <1>2, <2>1, <2>2 DEF AllAddUp
<1>. QED
  BY <1>3, <1>5, <1>6, <1>7, <1>8 DEF CreditInv

(* A session that turns to a sale another one is at work on makes it       *)
(* crossed; otherwise it is alone with it and has just read it.            *)
LEMMA BeginKeeps ==
  ASSUME CreditInv, NEW s \in Sessions, NEW state, state # Credit!Idle, state.of \in Sales,
         credit[state.of].status # "NONE",
         state \in [pc : {"pay"}, of : Sales, read : Credit!Debts, amount : Nat]
                   \cup [pc : {"cancel"}, of : Sales],
         Fresh(state, credit[state.of], sale[state.of].status), Credit!Begin(s, state)
  PROVE  CreditInv'
<1>1. /\ payer[s] = Credit!Idle /\ payer' = [payer EXCEPT ![s] = state]
      /\ overlapped \subseteq overlapped'
      /\ overlapped' \subseteq overlapped \cup {state.of}
      /\ (\E t \in Sessions : payer[t] # Credit!Idle /\ payer[t].of = state.of) => state.of \in overlapped'
      /\ UNCHANGED <<sale, credit, received, due, back>>
  BY DEF Credit!Begin
<1>2. Credit!TypeOK'
  BY <1>1 DEF CreditInv, Credit!TypeOK
<1>3. UnsoldIsBlank'
  BY <1>1 DEF CreditInv, Credit!TypeOK, UnsoldIsBlank
<1>4. Alone'
  BY <1>1 DEF CreditInv, Credit!TypeOK, Alone
<1>5. ReadsAreFresh'
  BY <1>1 DEF CreditInv, Credit!TypeOK, ReadsAreFresh, Fresh
<1>6. AllAddUp'
  BY <1>1 DEF CreditInv, AllAddUp, AddsUp
<1>. QED
  BY <1>2, <1>3, <1>4, <1>5, <1>6 DEF CreditInv

LEMMA StartPaymentKeeps ==
  ASSUME CreditInv, NEW s \in Sessions, NEW v \in Sales, NEW n \in 1..MaxPrincipal,
         Credit!StartPayment(s, v, n)
  PROVE  CreditInv'
<1>. DEFINE state == [pc |-> "pay", of |-> v, read |-> credit[v], amount |-> n]
<1>1. Credit!MayPay(credit[v], n) /\ Credit!Begin(s, state)
  BY DEF Credit!StartPayment
<1>2. /\ state # Credit!Idle /\ state.of = v
      /\ state \in [pc : {"pay"}, of : Sales, read : Credit!Debts, amount : Nat]
  BY DEF CreditInv, Credit!TypeOK, Credit!Idle
<1>3. n \in 1..credit[v].balance
  BY <1>1 DEF Credit!MayPay, CreditInv, Credit!TypeOK, Credit!Debts
<1>4. Fresh(state, credit[v], sale[v].status)
  BY <1>1, <1>3 DEF Credit!MayPay, Fresh
<1>5. credit[v].status # "NONE"
  BY <1>1 DEF Credit!MayPay
<1>. HIDE DEF state
<1>. QED
  BY <1>1, <1>2, <1>4, <1>5, BeginKeeps

LEMMA StartCancelKeeps ==
  ASSUME CreditInv, NEW s \in Sessions, NEW v \in Sales, Credit!StartCancel(s, v)
  PROVE  CreditInv'
<1>. DEFINE state == [pc |-> "cancel", of |-> v]
<1>1. Credit!MayCancel(sale[v].status) /\ Credit!Begin(s, state)
  BY DEF Credit!StartCancel
<1>2. state # Credit!Idle /\ state.of = v /\ state \in [pc : {"cancel"}, of : Sales]
  BY DEF Credit!Idle
<1>3. Fresh(state, credit[v], sale[v].status)
  BY <1>1 DEF Credit!MayCancel, Fresh
<1>4. credit[v].status # "NONE"
  BY <1>1 DEF Credit!MayCancel, CreditInv, UnsoldIsBlank
<1>. HIDE DEF state
<1>. QED
  BY <1>1, <1>2, <1>3, <1>4, BeginKeeps

-----------------------------------------------------------------------------
(* What a session at work knows, and what it leaves to the others: a       *)
(* commit on v touches no other sale, and nobody else's reading of one.    *)
LEMMA WorkerKnows ==
  ASSUME CreditInv, NEW s \in Sessions, payer[s].pc \in {"pay", "cancel"}
  PROVE  /\ payer[s] # Credit!Idle /\ payer[s].of \in Sales
         /\ credit[payer[s].of].status # "NONE"
         /\ payer[s].pc = "pay" => payer[s].read \in Credit!Debts /\ payer[s].amount \in Nat
         /\ payer[s].of \notin overlapped =>
              /\ AddsUp(payer[s].of)
              /\ Fresh(payer[s], credit[payer[s].of], sale[payer[s].of].status)
              /\ \A t \in Sessions \ {s} : payer[t] # Credit!Idle => payer[t].of # payer[s].of
<1>1. payer[s] # Credit!Idle
  BY DEF Credit!Idle
<1>2. payer[s].of \in Sales /\ (payer[s].pc = "pay" => payer[s].read \in Credit!Debts /\ payer[s].amount \in Nat)
  BY <1>1 DEF CreditInv, Credit!TypeOK
<1>3. credit[payer[s].of].status # "NONE"
  BY <1>1, <1>2 DEF CreditInv, UnsoldIsBlank
<1>. QED
  BY <1>1, <1>2, <1>3 DEF CreditInv, Alone, ReadsAreFresh, AllAddUp

LEMMA CreditCommitKeeps ==
  ASSUME CreditInv, NEW s \in Sessions, NEW v \in Sales,
         payer[s] # Credit!Idle, payer[s].of = v, Credit!TypeOK',
         v \notin overlapped => \A t \in Sessions \ {s} : payer[t] # Credit!Idle => payer[t].of # v,
         credit'[v].status # "NONE", v \notin overlapped => AddsUp(v)',
         \A w \in Sales \ {v} : /\ credit'[w] = credit[w] /\ sale'[w] = sale[w]
                                /\ received'[w] = received[w] /\ back'[w] = back[w],
         payer' = [payer EXCEPT ![s] = Credit!Idle], overlapped' = overlapped
  PROVE  CreditInv'
<1>1. \A t \in Sessions : payer'[t] = IF t = s THEN Credit!Idle ELSE payer[t]
  BY DEF CreditInv, Credit!TypeOK
<1>2. UnsoldIsBlank'
  BY <1>1 DEF CreditInv, UnsoldIsBlank
<1>3. Alone'
  BY <1>1 DEF CreditInv, Alone
<1>4. ReadsAreFresh'
  <2>. SUFFICES ASSUME NEW t \in Sessions, payer'[t] # Credit!Idle, payer'[t].of \notin overlapped
                PROVE  Fresh(payer'[t], credit'[payer'[t].of], sale'[payer'[t].of].status)
    BY DEF ReadsAreFresh, Fresh
  <2>1. t # s /\ payer'[t] = payer[t] /\ payer[t].of # v
    BY <1>1
  <2>2. payer[t].of \in Sales
    BY <2>1 DEF CreditInv, Credit!TypeOK
  <2>. QED
    BY <2>1, <2>2 DEF CreditInv, ReadsAreFresh
<1>5. AllAddUp'
  BY DEF CreditInv, AllAddUp, AddsUp
<1>. QED
  BY <1>2, <1>3, <1>4, <1>5 DEF CreditInv

(* A payment within the balance leaves the principal less what was paid. *)
LEMMA RecordPaymentKeeps ==
  ASSUME CreditInv, NEW s \in Sessions, Credit!RecordPayment(s)
  PROVE  CreditInv'
<1>0. payer[s].pc = "pay"
  BY DEF Credit!RecordPayment
<1>. PICK v \in Sales : v = payer[s].of
  BY <1>0, WorkerKnows
<1>. DEFINE newPaid == payer[s].read.amountPaid + payer[s].amount
            newBalance == payer[s].read.principal - newPaid
            newStatus == Credit!computeStatus(newBalance, newPaid, v \in due)
<1>1. /\ received' = [received EXCEPT ![v] = @ + payer[s].amount]
      /\ credit' = [credit EXCEPT ![v] =
           [@ EXCEPT !.amountPaid = newPaid, !.balance = newBalance, !.status = newStatus]]
      /\ sale' = [sale EXCEPT ![v] =
           [status |-> IF newBalance <= 0 THEN "PAID" ELSE "PARTIAL",
            amountPaid |-> newPaid, balanceDue |-> newBalance]]
      /\ payer' = [payer EXCEPT ![s] = Credit!Idle]
      /\ UNCHANGED <<due, back, overlapped>>
  BY DEF Credit!RecordPayment
<1>2. /\ payer[s] # Credit!Idle /\ payer[s].read \in Credit!Debts /\ payer[s].amount \in Nat
      /\ v \notin overlapped =>
           /\ AddsUp(v) /\ Fresh(payer[s], credit[v], sale[v].status)
           /\ \A t \in Sessions \ {s} : payer[t] # Credit!Idle => payer[t].of # v
  BY <1>0, WorkerKnows
<1>3. newPaid \in Nat /\ newBalance \in Int
  BY <1>2 DEF Credit!Debts
<1>4. newStatus \in {"OPEN", "PARTIAL", "PAID", "OVERDUE"}
  BY <1>3 DEF Credit!computeStatus
<1>5. /\ credit \in [Sales -> Credit!Debts] /\ sale \in [Sales -> Credit!SaleRows]
      /\ received \in [Sales -> Nat] /\ back \in [Sales -> Nat]
  BY DEF CreditInv, Credit!TypeOK
<1>. HIDE DEF newPaid, newBalance, newStatus
<1>6. /\ credit'[v] = [status |-> newStatus, principal |-> credit[v].principal,
                       amountPaid |-> newPaid, balance |-> newBalance]
      /\ sale'[v].status \in {"PAID", "PARTIAL"}
      /\ sale'[v].amountPaid = newPaid /\ sale'[v].balanceDue = newBalance
      /\ received'[v] = received[v] + payer[s].amount /\ back'[v] = back[v]
  BY <1>1, <1>5 DEF Credit!Debts
<1>7. Credit!TypeOK'
  <2>1. credit' \in [Sales -> Credit!Debts]
    <3>. DEFINE owed == [credit[v] EXCEPT !.amountPaid = newPaid,
                           !.balance = newBalance, !.status = newStatus]
    <3>1. credit[v] \in Credit!Debts
      BY <1>5
    <3>2. owed \in Credit!Debts
      BY <1>3, <1>4, <3>1 DEF Credit!Debts
    <3>3. credit' = [credit EXCEPT ![v] = owed]
      BY <1>1
    <3>. HIDE DEF owed
    <3>. QED
      BY <1>5, <3>2, <3>3
  <2>2. sale' \in [Sales -> Credit!SaleRows]
    <3>. DEFINE row == [status |-> IF newBalance <= 0 THEN "PAID" ELSE "PARTIAL",
                        amountPaid |-> newPaid, balanceDue |-> newBalance]
    <3>1. row \in Credit!SaleRows
      BY <1>3 DEF Credit!SaleRows
    <3>2. sale' = [sale EXCEPT ![v] = row]
      BY <1>1
    <3>. HIDE DEF row
    <3>. QED
      BY <1>5, <3>1, <3>2
  <2>3. received' \in [Sales -> Nat]
    BY <1>1, <1>2, <1>5
  <2>. QED
    BY <1>1, <2>1, <2>2, <2>3 DEF CreditInv, Credit!TypeOK
<1>8. ASSUME v \notin overlapped PROVE AddsUp(v)'
  <2>1. /\ payer[s].read.principal = credit[v].principal
        /\ payer[s].read.amountPaid = credit[v].amountPaid
        /\ payer[s].amount \in 1..credit[v].balance
        /\ credit[v].status \notin {"NONE", "WRITTEN_OFF"}
    BY <1>0, <1>2, <1>8 DEF Fresh
  <2>2. /\ received[v] = credit[v].amountPaid /\ back[v] = 0
        /\ credit[v].balance = Credit!BalanceDue(credit[v].principal, received[v])
    BY <1>2, <1>8, <2>1 DEF AddsUp
  <2>3. credit[v].principal \in Nat /\ received[v] \in Nat /\ credit[v].balance \in Int
    BY <1>5 DEF Credit!Debts
  <2>4. newPaid = received'[v] /\ newBalance = Credit!BalanceDue(credit[v].principal, newPaid)
    BY <1>6, <2>1, <2>2, <2>3 DEF newPaid, newBalance, Credit!BalanceDue
  <2>. QED
    BY <1>6, <2>2, <2>4 DEF AddsUp
<1>9. credit'[v].status # "NONE"
  BY <1>4, <1>6
<1>10. \A w \in Sales \ {v} : /\ credit'[w] = credit[w] /\ sale'[w] = sale[w]
                              /\ received'[w] = received[w] /\ back'[w] = back[w]
  BY <1>1, <1>5
<1>. QED
  BY <1>1, <1>2, <1>7, <1>8, <1>9, <1>10, CreditCommitKeeps

(* A cancellation that was alone finds the boxes not put back yet. *)
LEMMA CancelSaleKeeps ==
  ASSUME CreditInv, NEW s \in Sessions, Credit!CancelSale(s)
  PROVE  CreditInv'
<1>0. payer[s].pc = "cancel"
  BY DEF Credit!CancelSale
<1>. PICK v \in Sales : v = payer[s].of
  BY <1>0, WorkerKnows
<1>1. /\ back' = [back EXCEPT ![v] = @ + 1]
      /\ credit' = [credit EXCEPT ![v].status = "WRITTEN_OFF", ![v].balance = 0]
      /\ sale' = [sale EXCEPT ![v].status = "CANCELLED", ![v].balanceDue = 0]
      /\ payer' = [payer EXCEPT ![s] = Credit!Idle]
      /\ UNCHANGED <<received, due, overlapped>>
  BY DEF Credit!CancelSale
<1>2. /\ payer[s] # Credit!Idle
      /\ v \notin overlapped =>
           /\ AddsUp(v) /\ Fresh(payer[s], credit[v], sale[v].status)
           /\ \A t \in Sessions \ {s} : payer[t] # Credit!Idle => payer[t].of # v
      /\ credit[v].status # "NONE"
  BY <1>0, WorkerKnows
<1>3. /\ credit \in [Sales -> Credit!Debts] /\ sale \in [Sales -> Credit!SaleRows]
      /\ received \in [Sales -> Nat] /\ back \in [Sales -> Nat]
  BY DEF CreditInv, Credit!TypeOK
<1>. DEFINE owed == [credit[v] EXCEPT !.status = "WRITTEN_OFF", !.balance = 0]
            row == [sale[v] EXCEPT !.status = "CANCELLED", !.balanceDue = 0]
<1>4. credit' = [credit EXCEPT ![v] = owed] /\ sale' = [sale EXCEPT ![v] = row]
  BY <1>1, <1>3 DEF Credit!Debts, Credit!SaleRows
<1>11. /\ owed.status = "WRITTEN_OFF" /\ owed.balance = 0
       /\ owed.amountPaid = credit[v].amountPaid
       /\ row.status = "CANCELLED" /\ row.balanceDue = 0
       /\ row.amountPaid = sale[v].amountPaid
  BY <1>3 DEF Credit!Debts, Credit!SaleRows
<1>10. owed \in Credit!Debts /\ row \in Credit!SaleRows
  <2>1. ASSUME NEW n \in Int
        PROVE  [credit[v] EXCEPT !.status = "WRITTEN_OFF", !.balance = n] \in Credit!Debts
    BY <1>3 DEF Credit!Debts
  <2>2. ASSUME NEW n \in Int
        PROVE  [sale[v] EXCEPT !.status = "CANCELLED", !.balanceDue = n] \in Credit!SaleRows
    BY <1>3 DEF Credit!SaleRows
  <2>3. 0 \in Int
    OBVIOUS
  <2>. QED
    BY <2>1, <2>2, <2>3, Zenon
<1>. HIDE DEF owed, row
<1>5. Credit!TypeOK'
  <2>1. credit' \in [Sales -> Credit!Debts]
    BY <1>3, <1>4, <1>10
  <2>2. sale' \in [Sales -> Credit!SaleRows]
    BY <1>3, <1>4, <1>10
  <2>3. back' \in [Sales -> Nat]
    BY <1>1, <1>3
  <2>. QED
    BY <1>1, <2>1, <2>2, <2>3 DEF CreditInv, Credit!TypeOK
<1>6. ASSUME v \notin overlapped PROVE AddsUp(v)'
  <2>1. sale[v].status # "CANCELLED"
    BY <1>0, <1>2, <1>6 DEF Fresh
  <2>2. /\ received[v] = credit[v].amountPaid /\ sale[v].amountPaid = credit[v].amountPaid
        /\ back[v] = 0
    BY <1>2, <1>6, <2>1 DEF AddsUp
  <2>3. back'[v] = 1
    BY <1>1, <1>3, <2>2
  <2>4. credit'[v] = owed /\ sale'[v] = row /\ received'[v] = received[v]
    BY <1>1, <1>3, <1>4
  <2>5. /\ credit'[v].status = "WRITTEN_OFF" /\ credit'[v].balance = 0
        /\ sale'[v].status = "CANCELLED" /\ sale'[v].balanceDue = 0
        /\ received'[v] = credit'[v].amountPaid
        /\ sale'[v].amountPaid = credit'[v].amountPaid
    BY <1>11, <2>2, <2>4
  <2>. QED
    BY <2>3, <2>5 DEF AddsUp
<1>7. \A w \in Sales \ {v} : /\ credit'[w] = credit[w] /\ sale'[w] = sale[w]
                             /\ received'[w] = received[w] /\ back'[w] = back[w]
  BY <1>1, <1>3
<1>8. credit'[v].status # "NONE"
  BY <1>3, <1>4, <1>11
<1>. QED
  BY <1>1, <1>2, <1>5, <1>6, <1>7, <1>8, CreditCommitKeeps

-----------------------------------------------------------------------------
(* The overdue mark changes the status of a live debt to another live one. *)
LEMMA CreditRefreshKeeps == ASSUME CreditInv, Credit!refreshOverdue PROVE CreditInv'
<1>1. /\ credit' = [v \in Sales |->
           IF Credit!Flaggable(v) THEN [credit[v] EXCEPT !.status = "OVERDUE"] ELSE credit[v]]
      /\ UNCHANGED <<sale, received, due, back, payer, overlapped>>
  BY DEF Credit!refreshOverdue
<1>2. credit \in [Sales -> Credit!Debts]
  BY DEF CreditInv, Credit!TypeOK
<1>3. ASSUME NEW v \in Sales
      PROVE  /\ credit'[v] \in Credit!Debts
             /\ credit'[v].principal = credit[v].principal
             /\ credit'[v].amountPaid = credit[v].amountPaid
             /\ credit'[v].balance = credit[v].balance
             /\ \/ credit'[v].status = credit[v].status
                \/ /\ credit[v].status \in {"OPEN", "PARTIAL"}
                   /\ credit'[v].status = "OVERDUE"
  BY <1>1, <1>2 DEF Credit!Flaggable, Credit!Debts
<1>4. Credit!TypeOK'
  BY <1>1, <1>3 DEF CreditInv, Credit!TypeOK
<1>5. UnsoldIsBlank'
  BY <1>1, <1>3 DEF CreditInv, UnsoldIsBlank
<1>6. Alone'
  BY <1>1 DEF CreditInv, Alone
<1>7. ReadsAreFresh'
  <2>. SUFFICES ASSUME NEW s \in Sessions, payer[s] # Credit!Idle, payer[s].of \notin overlapped
                PROVE  Fresh(payer[s], credit'[payer[s].of], sale[payer[s].of].status)
    BY <1>1 DEF ReadsAreFresh, Fresh
  <2>1. payer[s].of \in Sales
    BY DEF CreditInv, Credit!TypeOK
  <2>. QED
    BY <1>3, <2>1 DEF CreditInv, ReadsAreFresh, Fresh
<1>8. AllAddUp'
  BY <1>1, <1>3 DEF CreditInv, AllAddUp, AddsUp
<1>. QED
  BY <1>4, <1>5, <1>6, <1>7, <1>8 DEF CreditInv

LEMMA DuePassesKeeps == ASSUME CreditInv, NEW v \in Sales, Credit!DuePasses(v) PROVE CreditInv'
BY DEF Credit!DuePasses, CreditInv, Credit!TypeOK, UnsoldIsBlank, Alone, ReadsAreFresh, Fresh, AllAddUp, AddsUp

LEMMA CreditRollbackKeeps == ASSUME CreditInv, NEW s \in Sessions, Credit!Rollback(s) PROVE CreditInv'
<1>1. /\ payer' = [payer EXCEPT ![s] = Credit!Idle]
      /\ UNCHANGED <<sale, credit, received, due, back, overlapped>>
  BY DEF Credit!Rollback
<1>2. \A t \in Sessions : payer'[t] = IF t = s THEN Credit!Idle ELSE payer[t]
  BY <1>1 DEF CreditInv, Credit!TypeOK
<1>3. Credit!TypeOK'
  BY <1>1 DEF CreditInv, Credit!TypeOK
<1>4. UnsoldIsBlank' /\ Alone'
  BY <1>1, <1>2 DEF CreditInv, UnsoldIsBlank, Alone
<1>5. ReadsAreFresh'
  BY <1>1, <1>2 DEF CreditInv, ReadsAreFresh, Fresh
<1>6. AllAddUp'
  BY <1>1 DEF CreditInv, AllAddUp, AddsUp
<1>. QED
  BY <1>3, <1>4, <1>5, <1>6 DEF CreditInv

LEMMA CreditStepKeeps == CreditInv /\ [Credit!Next]_Credit!vars => CreditInv'
<1>. SUFFICES ASSUME CreditInv, [Credit!Next]_Credit!vars PROVE CreditInv'
  OBVIOUS
<1>1. CASE UNCHANGED Credit!vars
  BY <1>1 DEF Credit!vars, CreditInv, Credit!TypeOK, UnsoldIsBlank, Alone, ReadsAreFresh, Fresh, AllAddUp, AddsUp
<1>2. CASE Credit!Next
  BY <1>2, CreditSaleKeeps, DuePassesKeeps, CreditRefreshKeeps, StartPaymentKeeps, StartCancelKeeps,
     RecordPaymentKeeps, CancelSaleKeeps, CreditRollbackKeeps
  DEF Credit!Next
<1>. QED
  BY <1>1, <1>2

(* For any number of requests and sales: the payments, the debt and the    *)
(* sale agree, and a cancelled sale put its boxes back once, unless two    *)
(* requests worked on that sale at once.                                   *)
THEOREM DebtsAddUp == Credit!Spec => []Credit!CreditAddsUp
<1>1. CreditInv => Credit!CreditAddsUp
  BY DEF CreditInv, AllAddUp, AddsUp, Credit!CreditAddsUp
<1>. QED
  BY <1>1, CreditInitInv, CreditStepKeeps, PTL DEF Credit!Spec

-----------------------------------------------------------------------------
(* The desk serves one book at a time and leaves the others alone, so what *)
(* it does is a behaviour of each of them.                                 *)
LEMMA DeskKeepsLedger == DeskSpec => Spec
<1>1. DeskInit => Init
  BY DEF DeskInit
<1>2. [DeskNext]_<<vars, goodsVars, people, tradeVars>> => [Next]_vars
  BY DEF DeskNext, goodsVars
<1>. QED
  BY <1>1, <1>2, PTL DEF DeskSpec, Spec

LEMMA DeskKeepsCredit == DeskSpec => Credit!Spec
<1>1. DeskInit => Credit!Init
  BY DEF DeskInit
<1>2. [DeskNext]_<<vars, goodsVars, people, tradeVars>> => [Credit!Next]_Credit!vars
  BY DEF DeskNext, goodsVars, creditVars, Credit!vars
<1>. QED
  BY <1>1, <1>2, PTL DEF DeskSpec, Credit!Spec

-----------------------------------------------------------------------------
(* The accounts that may manage accounts (Users).                          *)

(* What a request holds between its check and its write. *)
AskTyped(state) ==
  \/ state = Account!Idle
  \/ /\ state.pc = "create" /\ state.of \in Accounts /\ state.to \in Account!Row
  \/ /\ state.pc = "update" /\ state.of \in Accounts /\ state.to \in Account!Fields
  \/ /\ state.pc = "delete" /\ state.of \in Accounts
UserTyped ==
  /\ user \in [Accounts -> Account!Row \cup {Account!Nobody}]
  /\ clashed \in BOOLEAN /\ stepped \in BOOLEAN
  /\ admin = [s \in Sessions |-> admin[s]]
  /\ \A s \in Sessions : AskTyped(admin[s])

(* Beyond the check of a removal: some active admin is not the one any     *)
(* request under way is about to take.                                     *)
Spared(u) ==
  /\ Account!Authorized(u)
  /\ \A s \in Sessions : Account!TakesAdmin(admin[s]) => admin[s].of # u
OneIsSpared == clashed \/ stepped \/ \E u \in Accounts : Spared(u)

UserInv == UserTyped /\ OneIsSpared

(* An update of a row leaves a row, with the fields that were sent. *)
LEMMA UpdatedIsRow ==
  ASSUME NEW row \in Account!Row, NEW fields \in Account!Fields
  PROVE  LET after == Account!Updated(row, fields)
         IN /\ after \in Account!Row
            /\ after.role = IF "role" \in DOMAIN fields THEN fields.role ELSE row.role
            /\ after.active = IF "active" \in DOMAIN fields THEN fields.active ELSE row.active
<1>. DEFINE after == Account!Updated(row, fields)
<1>1. DOMAIN row = {"role", "active"} /\ row.role \in Account!Roles /\ row.active \in BOOLEAN
  BY DEF Account!Row
<1>2. /\ "role" \in DOMAIN fields => fields.role \in Account!Roles
      /\ "active" \in DOMAIN fields => fields.active \in BOOLEAN
  BY DEF Account!Fields, Account!Row
<1>3. after = [field \in {"role", "active"} |->
                 IF field \in DOMAIN fields THEN fields[field] ELSE row[field]]
  BY <1>1 DEF Account!Updated
<1>. HIDE DEF after
<1>4. /\ after.role = IF "role" \in DOMAIN fields THEN fields.role ELSE row.role
      /\ after.active = IF "active" \in DOMAIN fields THEN fields.active ELSE row.active
  BY <1>3
<1>5. after = [role |-> after.role, active |-> after.active]
  BY <1>3
<1>6. after \in Account!Row
  BY <1>1, <1>2, <1>4, <1>5 DEF Account!Row
<1>. QED
  BY <1>4, <1>6 DEF after

LEMMA UserInitInv == Account!Init => UserInv
<1>. SUFFICES ASSUME Account!Init PROVE UserInv
  OBVIOUS
<1>1. user[Admin] = [role |-> "ADMIN", active |-> TRUE] /\ Admin \in Accounts
  BY DeskAssumption DEF Account!Init
<1>2. Spared(Admin)
  BY <1>1 DEF Account!Init, Spared, Account!Authorized, Account!TakesAdmin, Account!Idle
<1>3. UserTyped
  BY DEF Account!Init, UserTyped, AskTyped, Account!Row, Account!Roles
<1>. QED
  BY <1>1, <1>2, <1>3 DEF UserInv, OneIsSpared

(* A request begins.  If it is about to take an admin and no other is,     *)
(* whoever else is an active admin is spared.                              *)
LEMMA UserBeginKeeps ==
  ASSUME UserInv, NEW s \in Sessions, NEW state, AskTyped(state), state # Account!Idle,
         Account!Begin(s, state), stepped' \in BOOLEAN, stepped => stepped',
         Account!TakesAdmin(state) =>
           stepped' \/ \E u \in Accounts : u # state.of /\ Account!Authorized(u)
  PROVE  UserInv'
<1>1. /\ admin'[s] = state /\ \A t \in Sessions \ {s} : admin'[t] = admin[t]
      /\ admin' = [t \in Sessions |-> admin'[t]]
      /\ user' = user
      /\ clashed' = (clashed \/ (Account!TakesAdmin(state)
                       /\ \E t \in Sessions \ {s} : Account!TakesAdmin(admin[t])))
  BY DEF Account!Begin, Account!Run, UserInv, UserTyped
<1>2. UserTyped'
  <2>1. \A t \in Sessions : AskTyped(admin[t])'
    BY <1>1 DEF AskTyped, UserInv, UserTyped
  <2>. QED
    BY <1>1, <2>1 DEF UserInv, UserTyped
<1>3. \A t \in Sessions : Account!TakesAdmin(admin[t])'
                           <=> IF t = s THEN Account!TakesAdmin(state) ELSE Account!TakesAdmin(admin[t])
  BY <1>1 DEF Account!TakesAdmin
<1>4. \A u : Account!Authorized(u)' <=> Account!Authorized(u)
  BY <1>1 DEF Account!Authorized
<1>5. ASSUME ~clashed', ~stepped' PROVE \E u \in Accounts : Spared(u)'
  <2>1. CASE Account!TakesAdmin(state)
    <3>1. \A t \in Sessions \ {s} : ~Account!TakesAdmin(admin[t])
      BY <1>1, <1>5, <2>1
    <3>2. PICK u \in Accounts : u # state.of /\ Account!Authorized(u)
      BY <1>5, <2>1
    <3>. QED
      BY <1>1, <1>3, <1>4, <3>1, <3>2 DEF Spared
  <2>2. CASE ~Account!TakesAdmin(state)
    <3>1. PICK u \in Accounts : Spared(u)
      BY <1>1, <1>5 DEF UserInv, OneIsSpared
    <3>. QED
      BY <1>1, <1>3, <1>4, <2>2, <3>1 DEF Spared
  <2>. QED
    BY <2>1, <2>2
<1>. QED
  BY <1>2, <1>5 DEF UserInv, OneIsSpared

LEMMA StartCreateKeeps ==
  ASSUME UserInv, NEW s \in Sessions, NEW by \in Accounts, NEW u \in Accounts,
         NEW row \in Account!Row, Account!StartCreate(s, by, u, row)
  PROVE  UserInv'
<1>. DEFINE state == [pc |-> "create", of |-> u, to |-> row]
<1>1. Account!Begin(s, state) /\ stepped' = stepped
  BY DEF Account!StartCreate
<1>2. AskTyped(state) /\ state # Account!Idle /\ ~Account!TakesAdmin(state)
  BY DEF AskTyped, Account!Idle, Account!TakesAdmin
<1>3. stepped' \in BOOLEAN /\ (stepped => stepped')
  BY <1>1 DEF UserInv, UserTyped
<1>. HIDE DEF state
<1>. QED
  BY <1>1, <1>2, <1>3, UserBeginKeeps

(* Who updates is an active admin; the one admin they can take from        *)
(* themselves is their role.                                               *)
LEMMA StartUpdateKeeps ==
  ASSUME UserInv, NEW s \in Sessions, NEW by \in Accounts, NEW u \in Accounts,
         NEW fields \in Account!Fields, Account!StartUpdate(s, by, u, fields)
  PROVE  UserInv'
<1>. DEFINE state == [pc |-> "update", of |-> u, to |-> fields]
<1>1. /\ Account!Begin(s, state) /\ Account!Authorized(by) /\ Account!Exists(u)
      /\ Account!KeepsSignIn(by, u, fields)
      /\ stepped' = (stepped \/ (by = u /\ "role" \in DOMAIN fields /\ fields.role # "ADMIN"))
  BY DEF Account!StartUpdate
<1>2. AskTyped(state) /\ state # Account!Idle /\ state.of = u
  BY DEF AskTyped, Account!Idle
<1>3. stepped' \in BOOLEAN /\ (stepped => stepped')
  BY <1>1 DEF UserInv, UserTyped
<1>4. ASSUME Account!TakesAdmin(state), by = u PROVE stepped'
  <2>1. user[u] \in Account!Row /\ user[u].role = "ADMIN" /\ user[u].active
    BY <1>1, <1>4 DEF Account!Authorized, Account!Exists, UserInv, UserTyped
  <2>. DEFINE after == Account!Updated(user[u], fields)
  <2>2. after.role # "ADMIN" \/ ~after.active
    BY <1>4 DEF Account!TakesAdmin
  <2>3. /\ after.role = IF "role" \in DOMAIN fields THEN fields.role ELSE user[u].role
        /\ after.active = IF "active" \in DOMAIN fields THEN fields.active ELSE user[u].active
    BY <2>1, UpdatedIsRow
  <2>. HIDE DEF after
  <2>. QED
    BY <1>1, <1>4, <2>1, <2>2, <2>3 DEF Account!KeepsSignIn
<1>. HIDE DEF state
<1>. QED
  BY <1>1, <1>2, <1>3, <1>4, UserBeginKeeps

LEMMA StartRemoveKeeps ==
  ASSUME UserInv, NEW s \in Sessions, NEW by \in Accounts, NEW u \in Accounts,
         NEW purge \in BOOLEAN, Account!StartRemove(s, by, u, purge)
  PROVE  UserInv'
<1>. DEFINE state == IF purge THEN [pc |-> "delete", of |-> u]
                     ELSE [pc |-> "update", of |-> u, to |-> [active |-> FALSE]]
<1>1. Account!Begin(s, state) /\ Account!Authorized(by) /\ by # u /\ stepped' = stepped
  BY DEF Account!StartRemove
<1>2. AskTyped(state) /\ state # Account!Idle /\ state.of = u
  BY DEF AskTyped, Account!Idle, Account!Fields
<1>3. stepped' \in BOOLEAN /\ (stepped => stepped')
  BY <1>1 DEF UserInv, UserTyped
<1>. HIDE DEF state
<1>. QED
  BY <1>1, <1>2, <1>3, UserBeginKeeps

-----------------------------------------------------------------------------
(* A write to the row of a spared admin either leaves it as it is or was   *)
(* not there when it was spared; a write to another row leaves the spared  *)
(* one spared.                                                             *)
LEMMA UserWriteKeeps ==
  ASSUME UserInv, NEW s \in Sessions, Account!Write(s)
  PROVE  UserInv'
<1>. DEFINE u == admin[s].of
            after == CASE admin[s].pc = "create" /\ ~Account!Exists(u) -> admin[s].to
                       [] admin[s].pc = "update" /\ Account!Exists(u) ->
                            Account!Updated(user[u], admin[s].to)
                       [] admin[s].pc = "delete" -> Account!Nobody
                       [] OTHER -> user[u]
<1>1. /\ admin[s] # Account!Idle
      /\ user' = [user EXCEPT ![u] = after]
      /\ admin' = [admin EXCEPT ![s] = Account!Idle]
      /\ UNCHANGED <<clashed, stepped>>
  BY DEF Account!Write, Account!Run
<1>2. u \in Accounts /\ admin[s].pc \in {"create", "update", "delete"} /\ AskTyped(admin[s])
  BY <1>1 DEF UserInv, UserTyped, AskTyped
<1>3. user[u] \in Account!Row \cup {Account!Nobody}
  BY <1>2 DEF UserInv, UserTyped
<1>4. ASSUME admin[s].pc = "update", Account!Exists(u)
      PROVE  /\ after \in Account!Row /\ user[u] \in Account!Row
             /\ ~Account!TakesAdmin(admin[s]) /\ Account!Authorized(u) => after = user[u]
  <2>1. user[u] \in Account!Row /\ admin[s].to \in Account!Fields
    BY <1>2, <1>3, <1>4 DEF Account!Exists, AskTyped, Account!Idle
  <2>2. after = Account!Updated(user[u], admin[s].to)
    BY <1>4
  <2>3. after \in Account!Row
    BY <2>1, <2>2, UpdatedIsRow
  <2>4. ASSUME ~Account!TakesAdmin(admin[s]), Account!Authorized(u) PROVE after = user[u]
    <3>1. after.role = "ADMIN" /\ after.active
      BY <1>4, <2>2, <2>4 DEF Account!TakesAdmin, Account!Authorized
    <3>2. user[u].role = "ADMIN" /\ user[u].active
      BY <2>4 DEF Account!Authorized
    <3>. HIDE DEF after
    <3>3. \A row \in Account!Row : row = [role |-> row.role, active |-> row.active]
                                   /\ row.active \in BOOLEAN
      BY DEF Account!Row
    <3>. QED
      BY <2>1, <2>3, <3>1, <3>2, <3>3
  <2>. QED
    BY <2>1, <2>3, <2>4
<1>5. after \in Account!Row \cup {Account!Nobody}
  <2>1. CASE admin[s].pc = "create"
    BY <1>2, <1>3, <2>1 DEF AskTyped, Account!Idle
  <2>2. CASE admin[s].pc = "update"
    BY <1>3, <1>4, <2>2
  <2>3. CASE admin[s].pc = "delete"
    BY <2>3
  <2>. QED
    BY <1>2, <2>1, <2>2, <2>3
<1>6. ASSUME Spared(u) PROVE after = user[u]
  <2>1. user[u].role = "ADMIN" /\ Account!Exists(u) /\ ~Account!TakesAdmin(admin[s])
    BY <1>2, <1>6 DEF Spared, Account!Authorized, Account!Exists, Account!Nobody
  <2>2. CASE admin[s].pc = "create"
    BY <2>1, <2>2
  <2>3. CASE admin[s].pc = "update"
    BY <1>4, <1>6, <2>1, <2>3 DEF Spared
  <2>4. CASE admin[s].pc = "delete"
    BY <2>1, <2>4 DEF Account!TakesAdmin
  <2>. QED
    BY <1>2, <2>2, <2>3, <2>4
<1>. HIDE DEF after
<1>7. /\ user' = [v \in Accounts |-> user'[v]] /\ user'[u] = after
      /\ \A v \in Accounts \ {u} : user'[v] = user[v]
      /\ admin' = [t \in Sessions |-> admin'[t]] /\ admin'[s] = Account!Idle
      /\ \A t \in Sessions \ {s} : admin'[t] = admin[t]
  BY <1>1, <1>2 DEF UserInv, UserTyped
<1>8. UserTyped'
  <2>1. \A v \in Accounts : user'[v] \in Account!Row \cup {Account!Nobody}
    BY <1>5, <1>7 DEF UserInv, UserTyped
  <2>2. \A t \in Sessions : AskTyped(admin[t])'
    BY <1>7 DEF AskTyped, UserInv, UserTyped
  <2>. QED
    BY <1>1, <1>7, <2>1, <2>2 DEF UserInv, UserTyped
<1>9. ASSUME NEW v \in Accounts, Spared(v) PROVE Spared(v)'
  <2>1. user'[v] = user[v]
    BY <1>6, <1>7, <1>9
  <2>2. Account!Authorized(v)'
    BY <1>9, <2>1 DEF Spared, Account!Authorized
  <2>3. ASSUME NEW t \in Sessions, Account!TakesAdmin(admin[t])', admin'[t].of = v
        PROVE  FALSE
    <3>1. t # s
      BY <1>7, <2>3 DEF Account!TakesAdmin, Account!Idle
    <3>2. Account!TakesAdmin(admin[t]) /\ admin[t].of = v
      BY <1>7, <2>1, <2>3, <3>1 DEF Account!TakesAdmin
    <3>. QED
      BY <1>9, <3>2 DEF Spared
  <2>. QED
    BY <2>2, <2>3 DEF Spared
<1>. QED
  BY <1>1, <1>8, <1>9 DEF UserInv, OneIsSpared

LEMMA UserCrashKeeps ==
  ASSUME UserInv, NEW s \in Sessions, Account!Crash(s)
  PROVE  UserInv'
<1>1. /\ admin' = [t \in Sessions |-> admin'[t]] /\ admin'[s] = Account!Idle
      /\ \A t \in Sessions \ {s} : admin'[t] = admin[t]
      /\ UNCHANGED <<user, clashed, stepped>>
  BY DEF Account!Crash, Account!Run, UserInv, UserTyped
<1>2. UserTyped'
  <2>1. \A t \in Sessions : AskTyped(admin[t])'
    BY <1>1 DEF AskTyped, UserInv, UserTyped
  <2>. QED
    BY <1>1, <2>1 DEF UserInv, UserTyped
<1>3. ASSUME NEW v \in Accounts, Spared(v) PROVE Spared(v)'
  <2>1. \A t \in Sessions : Account!TakesAdmin(admin[t])' =>
          Account!TakesAdmin(admin[t]) /\ admin'[t] = admin[t]
    BY <1>1 DEF Account!TakesAdmin, Account!Idle
  <2>2. Account!Authorized(v)'
    BY <1>1, <1>3 DEF Spared, Account!Authorized
  <2>. QED
    BY <1>3, <2>1, <2>2 DEF Spared
<1>. QED
  BY <1>1, <1>2, <1>3 DEF UserInv, OneIsSpared

LEMMA UserStepKeeps == UserInv /\ [Account!Next]_Account!vars => UserInv'
<1>. SUFFICES ASSUME UserInv, [Account!Next]_Account!vars PROVE UserInv'
  OBVIOUS
<1>1. CASE UNCHANGED Account!vars
  BY <1>1 DEF Account!vars, UserInv, UserTyped, AskTyped, OneIsSpared, Spared,
     Account!Authorized, Account!TakesAdmin
<1>2. CASE Account!Next
  BY <1>2, StartCreateKeeps, StartUpdateKeeps, StartRemoveKeeps, UserWriteKeeps, UserCrashKeeps
  DEF Account!Next
<1>. QED
  BY <1>1, <1>2

(* A step of the desks is a step of the users or leaves them alone. *)
LEMMA DeskStepsUsers ==
  [DeskNext]_<<vars, goodsVars, people, tradeVars>> => [Account!Next]_Account!vars
BY DEF DeskNext, people, userVars, Account!vars

(* "Cannot remove the last active administrator": somebody can sign in and *)
(* manage the accounts, for any number of accounts and requests, unless    *)
(* two requests each took an admin away at once or an admin gave up the    *)
(* role.                                                                   *)
THEOREM AnAdminAlwaysRemains == DeskSpec => []AnAdminRemains
<1>1. DeskInit => UserInv
  BY UserInitInv DEF DeskInit
<1>2. UserInv => AnAdminRemains
  BY DEF UserInv, OneIsSpared, Spared, AnAdminRemains, Account!AnAdminRemains, Account!activeAdmins
<1>. QED
  BY <1>1, <1>2, UserStepKeeps, DeskStepsUsers, PTL DEF DeskSpec

-----------------------------------------------------------------------------
(* The account of a rep (RepAccounts).                                     *)

WorkState(state) ==
  \/ state = RepAccount!Idle
  \/ state.pc = "issue" /\ state.p \in Goods
  \/ state.pc = "reset"
  \/ state \in [pc : RepAccount!Removal, purge : BOOLEAN]
RepTyped ==
  /\ RepAccount!TypeOK
  /\ mixed \in BOOLEAN /\ swallowed \in BOOLEAN /\ reset \in BOOLEAN
  /\ removing = [s \in Sessions |-> removing[s]]
  /\ \A s \in Sessions : WorkState(removing[s])

(* Boxes have ledger rows, ledger rows a rep, and a rep a login: the       *)
(* foreign keys.                                                           *)
KeysHold ==
  /\ ~history => held = RepAccount!None
  /\ rep = "NONE" => ~history
  /\ login = "NONE" => rep = "NONE"
(* A wipe that was checked finds no boxes, unless stock was issued since.  *)
WipesFindNothing ==
  \A s \in Sessions : removing[s].pc = "wipe" => mixed \/ held = RepAccount!None

RepInv == RepTyped /\ KeysHold /\ WipesFindNothing /\ (swallowed => reset \/ mixed)

LEMMA RepSums == ASSUME NEW f PROVE RepAccount!SumFunction(f) = SumFunction(f)
BY Zenon DEF RepAccount!SumFunction, RepAccount!SumFunctionOnSet, RepAccount!FoldFunctionOnSet,
  RepAccount!MapThenFoldSet, SumFunction, SumFunctionOnSet, FoldFunctionOnSet, MapThenFoldSet

(* Somebody who holds no box of any kind holds no boxes. *)
LEMMA NoBoxesIsNone ==
  ASSUME NEW q \in [Goods -> Nat]
  PROVE  /\ RepAccount!Boxes(q) \in Nat
         /\ RepAccount!Boxes(q) <= 0 <=> q = RepAccount!None
<1>1. DOMAIN q = Goods /\ IsFiniteSet(Goods)
  BY DeskAssumption
<1>2. SumFunction(q) \in Nat /\ \A p \in Goods : q[p] <= SumFunction(q)
  BY <1>1, SumFunctionIsNat
<1>3. q = RepAccount!None <=> \A p \in Goods : q[p] = 0
  BY DEF RepAccount!None
<1>4. (\A p \in Goods : q[p] = 0) => SumFunction(q) = 0
  BY <1>1, SumOfZeros
<1>. QED
  BY <1>2, <1>3, <1>4, RepSums DEF RepAccount!Boxes

(* What a session holds, by the statement it is at. *)
LEMMA WorkOf ==
  ASSUME RepInv, NEW s \in Sessions
  PROVE  /\ removing[s].pc = "issue" => removing[s].p \in Goods
         /\ removing[s].pc \in RepAccount!Removal =>
              removing[s] \in [pc : RepAccount!Removal, purge : BOOLEAN]
<1>1. WorkState(removing[s])
  BY DEF RepInv, RepTyped
<1>2. \A state \in [pc : RepAccount!Removal, purge : BOOLEAN] : state.pc \in RepAccount!Removal
  OBVIOUS
<1>3. "issue" \notin RepAccount!Removal /\ "idle" \notin RepAccount!Removal
      /\ "reset" \notin RepAccount!Removal
  BY DEF RepAccount!Removal
<1>4. RepAccount!Idle.pc = "idle"
  BY DEF RepAccount!Idle
<1>. QED
  BY <1>1, <1>2, <1>3, <1>4 DEF WorkState

LEMMA RepInitInv == RepAccount!Init => RepInv
<1>. SUFFICES ASSUME RepAccount!Init PROVE RepInv
  OBVIOUS
<1>1. RepAccount!None \in [Goods -> Nat]
  BY DEF RepAccount!None
<1>2. RepTyped
  <2>1. moves \in 0..MaxIssues
    BY DeskAssumption DEF RepAccount!Init
  <2>. QED
    BY <1>1, <2>1 DEF RepAccount!Init, RepTyped, RepAccount!TypeOK, WorkState
<1>. QED
  BY <1>2 DEF RepAccount!Init, RepInv, KeysHold, WipesFindNothing, RepAccount!Idle

(* A step of a session that leaves the stock alone and does not begin to   *)
(* wipe, or has just found nothing to wipe.                                *)
LEMMA SessionMovesOn ==
  ASSUME RepInv, NEW s \in Sessions, NEW state, WorkState(state), RepAccount!Run(s, state),
         state.pc = "wipe" => held = RepAccount!None,
         RepAccount!TypeOK',
         UNCHANGED <<held, history, swallowed, reset>>,
         mixed' \in BOOLEAN, mixed => mixed',
         rep' = "NONE" => ~history, login' = "NONE" => rep' = "NONE"
  PROVE  RepInv'
<1>1. /\ removing' = [t \in Sessions |-> removing'[t]] /\ removing'[s] = state
      /\ \A t \in Sessions \ {s} : removing'[t] = removing[t]
  BY DEF RepAccount!Run, RepInv, RepTyped
<1>2. RepTyped'
  <2>1. \A t \in Sessions : WorkState(removing'[t])
    BY <1>1 DEF RepInv, RepTyped
  <2>. QED
    BY <1>1, <2>1 DEF RepInv, RepTyped, WorkState
<1>3. KeysHold'
  BY DEF RepInv, KeysHold
<1>4. WipesFindNothing'
  BY <1>1 DEF RepInv, WipesFindNothing
<1>. QED
  BY <1>2, <1>3, <1>4 DEF RepInv

LEMMA ProfileKeeps ==
  ASSUME RepInv, RepAccount!Create \/ RepAccount!Update \/ RepAccount!SwitchUser
  PROVE  RepInv'
<1>1. UNCHANGED <<held, history, orders, moves, removing, swallowed, reset, mixed>>
  BY DEF RepAccount!Create, RepAccount!Update, RepAccount!SwitchUser, RepAccount!stock, RepAccount!past
<1>2. /\ RepAccount!TypeOK' /\ KeysHold'
  BY <1>1 DEF RepAccount!Create, RepAccount!Update, RepAccount!SwitchUser, RepInv, RepTyped,
     RepAccount!TypeOK, KeysHold
<1>. QED
  BY <1>1, <1>2 DEF RepInv, RepTyped, WorkState, WipesFindNothing

(* A box leaves the rep: there was one, so no wipe was found harmless. *)
LEMMA BoxLeavesKeeps ==
  ASSUME RepInv, NEW p \in Goods, RepAccount!Account(p)
  PROVE  RepInv'
<1>1. /\ rep # "NONE" /\ held[p] > 0 /\ held' = [held EXCEPT ![p] = @ - 1]
      /\ UNCHANGED <<login, rep, history, orders, moves, removing, swallowed, reset, mixed>>
  BY DEF RepAccount!Account, RepAccount!past
<1>2. held # RepAccount!None
  BY <1>1 DEF RepAccount!None
<1>3. held' \in [Goods -> Nat]
  BY <1>1 DEF RepInv, RepTyped, RepAccount!TypeOK
<1>. QED
  BY <1>1, <1>2, <1>3 DEF RepInv, RepTyped, RepAccount!TypeOK, WorkState, KeysHold, WipesFindNothing

LEMMA StartIssueKeeps ==
  ASSUME RepInv, NEW s \in Sessions, NEW p \in Goods, RepAccount!StartIssue(s, p)
  PROVE  RepInv'
<1>. DEFINE state == [pc |-> "issue", p |-> p]
<1>1. /\ RepAccount!Run(s, state) /\ moves < MaxIssues /\ moves' = moves + 1
      /\ UNCHANGED <<login, rep, held, history, orders, swallowed, reset, mixed>>
  BY DEF RepAccount!StartIssue, RepAccount!past
<1>2. RepAccount!TypeOK'
  <2>1. moves' \in 0..MaxIssues
    BY <1>1, DeskAssumption DEF RepInv, RepTyped, RepAccount!TypeOK
  <2>. QED
    BY <1>1, <2>1 DEF RepInv, RepTyped, RepAccount!TypeOK
<1>3. WorkState(state) /\ state.pc # "wipe"
  BY DEF WorkState
<1>. HIDE DEF state
<1>. QED
  BY <1>1, <1>2, <1>3, SessionMovesOn DEF RepInv, RepTyped, KeysHold

(* Stock that arrives while a removal is under way is what the history     *)
(* variable is for.                                                        *)
LEMMA IssueKeeps ==
  ASSUME RepInv, NEW s \in Sessions, RepAccount!Issue(s)
  PROVE  RepInv'
<1>. DEFINE p == removing[s].p
<1>1. /\ removing[s].pc = "issue" /\ RepAccount!Run(s, RepAccount!Idle)
      /\ IF rep = "NONE" THEN UNCHANGED <<held, history, orders, mixed>>
         ELSE /\ held' = [held EXCEPT ![p] = @ + 1]
              /\ history' = TRUE /\ orders' = TRUE
              /\ mixed' = (mixed \/ RepAccount!Removing)
      /\ UNCHANGED <<login, rep, moves, swallowed, reset>>
  BY DEF RepAccount!Issue
<1>2. WorkState(RepAccount!Idle) /\ RepAccount!Idle.pc # "wipe"
  BY DEF WorkState, RepAccount!Idle
<1>3. CASE rep = "NONE"
  <2>1. RepAccount!TypeOK'
    BY <1>1, <1>3 DEF RepInv, RepTyped, RepAccount!TypeOK
  <2>. QED
    BY <1>1, <1>2, <1>3, <2>1, SessionMovesOn DEF RepInv, RepTyped, KeysHold
<1>4. CASE rep # "NONE"
  <2>. HIDE DEF p
  <2>2. p \in Goods
    BY <1>1, WorkOf DEF p
  <2>3. RepAccount!TypeOK'
    BY <1>1, <1>4, <2>2 DEF RepInv, RepTyped, RepAccount!TypeOK
  <2>4. /\ removing' = [t \in Sessions |-> removing'[t]] /\ removing'[s] = RepAccount!Idle
        /\ \A t \in Sessions \ {s} : removing'[t] = removing[t]
    BY <1>1 DEF RepAccount!Run, RepInv, RepTyped
  <2>5. RepAccount!Removing \in BOOLEAN
    BY DEF RepAccount!Removing
  <2>6. RepTyped'
    <3>1. \A t \in Sessions : WorkState(removing'[t])
      BY <1>2, <2>4 DEF RepInv, RepTyped
    <3>. QED
      BY <1>1, <1>4, <2>3, <2>4, <2>5, <3>1 DEF RepInv, RepTyped, WorkState
  <2>7. WipesFindNothing'
    <3>1. ASSUME NEW t \in Sessions, removing'[t].pc = "wipe" PROVE mixed'
      <4>1. removing[t].pc = "wipe"
        BY <1>2, <2>4, <3>1
      <4>2. RepAccount!Removing
        BY <4>1 DEF RepAccount!Removing, RepAccount!Removal
      <4>. QED
        BY <1>1, <1>4, <4>2
    <3>. QED
      BY <3>1 DEF WipesFindNothing
  <2>8. KeysHold'
    BY <1>1, <1>4 DEF RepInv, KeysHold
  <2>9. (swallowed => reset \/ mixed)'
    BY <1>1, <1>4 DEF RepInv
  <2>. QED
    BY <2>6, <2>7, <2>8, <2>9 DEF RepInv
<1>. QED
  BY <1>3, <1>4

-----------------------------------------------------------------------------
LEMMA StartRemovalKeeps ==
  ASSUME RepInv, NEW s \in Sessions,
         (\E purge \in BOOLEAN : RepAccount!StartRemove(s, purge)) \/ RepAccount!StartRemoveUser(s)
  PROVE  RepInv'
<1>1. PICK state \in [pc : RepAccount!Removal, purge : BOOLEAN] :
        /\ RepAccount!Run(s, state)
        /\ state.pc = "wipe" => RepAccount!Deletable
        /\ mixed' = (mixed \/ RepAccount!Removing)
        /\ UNCHANGED <<login, rep, held, history, orders, moves, swallowed, reset>>
  <2>1. CASE RepAccount!StartRemoveUser(s)
    <3>1. CASE rep = "NONE"
      <4>. DEFINE state == [pc |-> "drop login", purge |-> TRUE]
      <4>1. state \in [pc : RepAccount!Removal, purge : BOOLEAN] /\ state.pc # "wipe"
        BY DEF RepAccount!Removal
      <4>. QED
        BY <2>1, <3>1, <4>1 DEF RepAccount!StartRemoveUser, RepAccount!stock
    <3>2. CASE rep # "NONE"
      <4>. DEFINE state == [pc |-> "wipe", purge |-> TRUE]
      <4>1. state \in [pc : RepAccount!Removal, purge : BOOLEAN]
        BY DEF RepAccount!Removal
      <4>. QED
        BY <2>1, <3>2, <4>1 DEF RepAccount!StartRemoveUser, RepAccount!stock
    <3>. QED
      BY <3>1, <3>2
  <2>2. ASSUME NEW purge \in BOOLEAN, RepAccount!StartRemove(s, purge)
        PROVE  \E state \in [pc : RepAccount!Removal, purge : BOOLEAN] :
                 /\ RepAccount!Run(s, state)
                 /\ state.pc = "wipe" => RepAccount!Deletable
                 /\ mixed' = (mixed \/ RepAccount!Removing)
                 /\ UNCHANGED <<login, rep, held, history, orders, moves, swallowed, reset>>
    <3>. DEFINE state == [pc |-> IF purge THEN "wipe" ELSE "suspend?", purge |-> purge]
    <3>1. state \in [pc : RepAccount!Removal, purge : BOOLEAN]
      BY DEF RepAccount!Removal
    <3>. QED
      BY <2>2, <3>1 DEF RepAccount!StartRemove, RepAccount!stock
  <2>. QED
    BY <2>1, <2>2
<1>2. state.pc = "wipe" => held = RepAccount!None
  BY <1>1, NoBoxesIsNone DEF RepAccount!Deletable, RepInv, RepTyped, RepAccount!TypeOK
<1>3. RepAccount!TypeOK' /\ mixed' \in BOOLEAN
  BY <1>1 DEF RepInv, RepTyped, RepAccount!TypeOK, RepAccount!Removing
<1>4. WorkState(state)
  BY <1>1 DEF WorkState
<1>. QED
  BY <1>1, <1>2, <1>3, <1>4, SessionMovesOn DEF RepInv, KeysHold

LEMMA StartResetKeeps ==
  ASSUME RepInv, NEW s \in Sessions, RepAccount!StartReset(s)
  PROVE  RepInv'
<1>. DEFINE state == [pc |-> "reset"]
<1>1. /\ RepAccount!Run(s, state)
      /\ UNCHANGED <<login, rep, held, history, orders, moves, swallowed, reset, mixed>>
  BY DEF RepAccount!StartReset, RepAccount!past, RepAccount!stock
<1>2. WorkState(state) /\ state.pc # "wipe"
  BY DEF WorkState
<1>3. RepAccount!TypeOK'
  BY <1>1 DEF RepInv, RepTyped, RepAccount!TypeOK
<1>. HIDE DEF state
<1>. QED
  BY <1>1, <1>2, <1>3, SessionMovesOn DEF RepInv, RepTyped, KeysHold

(* What a session at a removal turns to next: a later statement of it. *)
LEMMA NextStatement ==
  ASSUME RepInv, NEW s \in Sessions, removing[s].pc \in RepAccount!Removal,
         NEW pc \in {"drop rep", "drop login"}
  PROVE  WorkState([removing[s] EXCEPT !.pc = pc]) /\ [removing[s] EXCEPT !.pc = pc].pc = pc
<1>1. removing[s] \in [pc : RepAccount!Removal, purge : BOOLEAN]
  BY WorkOf
<1>2. /\ [removing[s] EXCEPT !.pc = pc] \in [pc : RepAccount!Removal, purge : BOOLEAN]
      /\ [removing[s] EXCEPT !.pc = pc].pc = pc
  BY <1>1 DEF RepAccount!Removal
<1>. QED
  BY <1>2 DEF WorkState

LEMMA RepIdle == WorkState(RepAccount!Idle) /\ RepAccount!Idle.pc = "idle"
BY DEF WorkState, RepAccount!Idle

LEMMA SuspendOrDropKeeps ==
  ASSUME RepInv, NEW s \in Sessions, RepAccount!SuspendOrDrop(s)
  PROVE  RepInv'
<1>. DEFINE next == [removing[s] EXCEPT !.pc = "drop rep"]
<1>1. /\ removing[s].pc = "suspend?"
      /\ IF history
         THEN /\ rep' = (IF rep = "NONE" THEN "NONE" ELSE "SUSPENDED")
              /\ RepAccount!Run(s, RepAccount!Idle)
         ELSE rep' = rep /\ RepAccount!Run(s, next)
      /\ UNCHANGED <<login, held, history, orders, moves, swallowed, reset, mixed>>
  BY DEF RepAccount!SuspendOrDrop, RepAccount!past, RepAccount!stock
<1>2. WorkState(next) /\ next.pc = "drop rep"
  BY <1>1, NextStatement DEF RepAccount!Removal
<1>. HIDE DEF next
<1>3. PICK state : WorkState(state) /\ state.pc # "wipe" /\ RepAccount!Run(s, state)
  BY <1>1, <1>2, RepIdle
<1>4. /\ RepAccount!TypeOK' /\ mixed' \in BOOLEAN
      /\ rep' = "NONE" => ~history
      /\ login' = "NONE" => rep' = "NONE"
  BY <1>1 DEF RepInv, RepTyped, RepAccount!TypeOK, KeysHold
<1>. QED
  BY <1>1, <1>3, <1>4, SessionMovesOn

(* A checked wipe deletes no row of a box, unless stock was issued since;  *)
(* a reset may.                                                            *)
LEMMA WipeKeeps ==
  ASSUME RepInv, NEW s \in Sessions, RepAccount!Wipe(s)
  PROVE  RepInv'
<1>. DEFINE next == [removing[s] EXCEPT !.pc = "drop rep"]
<1>1. /\ removing[s].pc \in {"wipe", "reset"}
      /\ held' = RepAccount!None /\ history' = FALSE /\ orders' = FALSE
      /\ swallowed' = (swallowed \/ RepAccount!Boxes(held) > 0)
      /\ reset' = (reset \/ removing[s].pc = "reset")
      /\ RepAccount!Run(s, IF removing[s].pc = "wipe" THEN next ELSE RepAccount!Idle)
      /\ UNCHANGED <<login, rep, moves, mixed>>
  BY DEF RepAccount!Wipe
<1>2. removing[s].pc = "wipe" => WorkState(next) /\ next.pc = "drop rep"
  BY NextStatement DEF RepAccount!Removal
<1>. HIDE DEF next
<1>3. PICK state : WorkState(state) /\ state.pc # "wipe" /\ RepAccount!Run(s, state)
  BY <1>1, <1>2, RepIdle
<1>4. /\ removing' = [t \in Sessions |-> removing'[t]] /\ removing'[s] = state
      /\ \A t \in Sessions \ {s} : removing'[t] = removing[t]
  BY <1>3 DEF RepAccount!Run, RepInv, RepTyped
<1>5. RepAccount!Boxes(held) \in Nat /\ (RepAccount!Boxes(held) <= 0 <=> held = RepAccount!None)
  BY NoBoxesIsNone DEF RepInv, RepTyped, RepAccount!TypeOK
<1>6. RepTyped'
  <2>1. \A t \in Sessions : WorkState(removing'[t])
    BY <1>3, <1>4 DEF RepInv, RepTyped
  <2>2. RepAccount!None \in [Goods -> Nat]
    BY DEF RepAccount!None
  <2>3. RepAccount!TypeOK'
    BY <1>1, <2>2 DEF RepInv, RepTyped, RepAccount!TypeOK
  <2>4. swallowed' \in BOOLEAN /\ reset' \in BOOLEAN /\ mixed' \in BOOLEAN
    BY <1>1, <1>5 DEF RepInv, RepTyped
  <2>. QED
    BY <1>4, <2>1, <2>3, <2>4 DEF RepTyped, WorkState
<1>7. KeysHold'
  BY <1>1 DEF RepInv, KeysHold
<1>8. WipesFindNothing'
  BY <1>1 DEF WipesFindNothing, RepAccount!None
<1>9. swallowed' => reset' \/ mixed'
  <2>1. CASE removing[s].pc = "reset"
    BY <1>1, <2>1
  <2>2. CASE removing[s].pc = "wipe"
    <3>1. mixed \/ held = RepAccount!None
      BY <2>2 DEF RepInv, WipesFindNothing
    <3>2. held = RepAccount!None => ~(RepAccount!Boxes(held) > 0)
      BY <1>5
    <3>. QED
      BY <1>1, <3>1, <3>2 DEF RepInv
  <2>. QED
    BY <1>1, <2>1, <2>2
<1>. QED
  BY <1>6, <1>7, <1>8, <1>9 DEF RepInv

LEMMA DropKeeps ==
  ASSUME RepInv, NEW s \in Sessions, RepAccount!DropRep(s) \/ RepAccount!DropLogin(s)
  PROVE  RepInv'
<1>. DEFINE next == [removing[s] EXCEPT !.pc = "drop login"]
<1>1. /\ removing[s].pc \in RepAccount!Removal
      /\ RepAccount!Run(s, next) \/ RepAccount!Run(s, RepAccount!Idle)
      /\ rep' \in {rep, "NONE"} /\ login' \in {login, "NONE"} /\ orders' \in {orders, FALSE}
      /\ UNCHANGED <<held, history, moves, swallowed, reset, mixed>>
      /\ login' # login => rep' = "NONE"
      /\ rep' # rep => ~history
  BY DEF RepAccount!DropRep, RepAccount!DropLogin, RepAccount!past, RepAccount!Droppable, RepAccount!Removal
<1>2. WorkState(next) /\ next.pc = "drop login"
  BY <1>1, NextStatement
<1>. HIDE DEF next
<1>3. PICK state : WorkState(state) /\ state.pc # "wipe" /\ RepAccount!Run(s, state)
  BY <1>1, <1>2, RepIdle
<1>4. /\ RepAccount!TypeOK' /\ mixed' \in BOOLEAN
      /\ rep' = "NONE" => ~history
      /\ login' = "NONE" => rep' = "NONE"
  BY <1>1 DEF RepInv, RepTyped, RepAccount!TypeOK, KeysHold
<1>. QED
  BY <1>1, <1>3, <1>4, SessionMovesOn

LEMMA RepCrashKeeps ==
  ASSUME RepInv, NEW s \in Sessions, RepAccount!Crash(s)
  PROVE  RepInv'
<1>1. /\ RepAccount!Run(s, RepAccount!Idle)
      /\ UNCHANGED <<login, rep, held, history, orders, moves, swallowed, reset, mixed>>
  BY DEF RepAccount!Crash, RepAccount!stock
<1>2. /\ RepAccount!TypeOK' /\ mixed' \in BOOLEAN
      /\ rep' = "NONE" => ~history
      /\ login' = "NONE" => rep' = "NONE"
  BY <1>1 DEF RepInv, RepTyped, RepAccount!TypeOK, KeysHold
<1>. QED
  BY <1>1, <1>2, RepIdle, SessionMovesOn

LEMMA RepStepKeeps == RepInv /\ [RepAccount!Next]_RepAccount!vars => RepInv'
<1>. SUFFICES ASSUME RepInv, [RepAccount!Next]_RepAccount!vars PROVE RepInv'
  OBVIOUS
<1>1. CASE UNCHANGED RepAccount!vars
  BY <1>1 DEF RepAccount!vars, RepAccount!stock, RepAccount!past, RepInv, RepTyped, RepAccount!TypeOK,
     WorkState, KeysHold, WipesFindNothing
<1>2. CASE RepAccount!Next
  BY <1>2, ProfileKeeps, BoxLeavesKeeps, StartIssueKeeps, IssueKeeps, StartRemovalKeeps,
     StartResetKeeps, SuspendOrDropKeeps, WipeKeeps, DropKeeps, RepCrashKeeps
  DEF RepAccount!Next
<1>. QED
  BY <1>1, <1>2

(* A step of the desks is a step of the rep's account or leaves it alone. *)
LEMMA DeskStepsRep ==
  [DeskNext]_<<vars, goodsVars, people, tradeVars>> => [RepAccount!Next]_RepAccount!vars
BY DEF DeskNext, people, repVars, RepAccount!vars, RepAccount!stock, RepAccount!past

(* "Boxes still out are the one thing a deletion must never swallow": for  *)
(* any number of products and requests, boxes that are out keep their rep  *)
(* and its login, and no checked removal deletes their rows, unless stock  *)
(* was issued while it was under way.                                      *)
THEOREM NoBoxesAreSwallowed == DeskSpec => []NoBoxesSwallowed
<1>1. DeskInit => RepInv
  BY RepInitInv DEF DeskInit
<1>2. RepInv => NoBoxesSwallowed
  <2>. SUFFICES ASSUME RepInv PROVE RepAccount!NoBoxesSwallowed
    BY DEF NoBoxesSwallowed
  <2>1. RepAccount!Boxes(held) > 0 => held # RepAccount!None
    BY NoBoxesIsNone DEF RepInv, RepTyped, RepAccount!TypeOK
  <2>. QED
    BY <2>1 DEF RepInv, KeysHold, RepAccount!NoBoxesSwallowed
<1>. QED
  BY <1>1, <1>2, RepStepKeeps, DeskStepsRep, PTL DEF DeskSpec

-----------------------------------------------------------------------------
(* The orders of a supplier and what is owed on them (Purchasing).         *)

(* A request that works on an order, and not on the supplier's debt. *)
OnOrder(w, o) == w.pc \in {"pay", "status", "cost", "delete", "receive"} /\ w.order = o

(* What it has read of the order, or checked, is still so. *)
OrderRead(w, o) ==
  /\ w.pc = "pay" =>
       /\ po[o].status \in {"OPEN", "RECEIVED"}
       /\ o \notin touched => w.amount <= po[o].cost - paid[o]
  /\ w.pc \in {"status", "cost", "delete"} => po[o].status \in {"OPEN", "CANCELLED"}
  /\ w.pc = "delete" => paid[o] = 0
  /\ w.pc = "status" /\ w.to = "CANCELLED" => paid[o] = 0
  /\ w.pc = "receive" => po[o].status = "OPEN"
OrderReads ==
  \A s \in Sessions, o \in Orders :
    o \notin crossed /\ OnOrder(h[s], o) => OrderRead(h[s], o)
OneOnOrder ==
  \A s, t \in Sessions, o \in Orders :
    o \notin crossed /\ OnOrder(h[s], o) /\ OnOrder(h[t], o) => s = t
NewIsUnread ==
  \A s \in Sessions, o \in Orders : po[o].status = "NONE" => ~OnOrder(h[s], o)

(* A request about the debt still fits it, and is the only one under way.  *)
FitsDebt(w) == w.pc \in {"balance", "credit"} => w.amount <= Purchase!Outstanding
Solvent == Purchase!Outstanding >= 0
DebtFits ==
  /\ crossed = {} /\ touched = {}
  /\ \A s, t \in Sessions : h[s] # Purchase!Idle /\ h[t] # Purchase!Idle => s = t
  /\ Solvent
  /\ \A s \in Sessions : FitsDebt(h[s])

PurchaseInv ==
  /\ Purchase!TypeOK
  /\ OrderReads /\ OneOnOrder /\ NewIsUnread
  /\ Purchase!PaymentsFitOrders /\ Purchase!BoxesLandOnce
  /\ loose \/ DebtFits

LEMMA PurchaseSums == ASSUME NEW f PROVE Purchase!SumFunction(f) = SumFunction(f)
BY Zenon DEF Purchase!SumFunction, Purchase!SumFunctionOnSet, Purchase!FoldFunctionOnSet,
  Purchase!MapThenFoldSet, SumFunction, SumFunctionOnSet, FoldFunctionOnSet, MapThenFoldSet

(* What is left to pay on the orders that count. *)
Left == [o \in Purchase!Owing |-> po[o].cost - paid[o]]

DebtIsSum ==
  /\ Purchase!Outstanding = SumFunction(Left) - returned - balancePaid
  /\ SumFunction(Left) \in Int /\ Purchase!Outstanding \in Int
  /\ IsFiniteSet(Purchase!Owing) /\ Left \in [Purchase!Owing -> Int]

LEMMA OutstandingIsSum == Purchase!TypeOK => DebtIsSum
<1>. SUFFICES ASSUME Purchase!TypeOK PROVE DebtIsSum
  OBVIOUS
<1>1. IsFiniteSet(Purchase!Owing)
  BY DeskAssumption, FS_Subset DEF DeskAssumption, Purchase!Owing
<1>2. Left \in [Purchase!Owing -> Int]
  BY DEF Left, Purchase!Owing, Purchase!TypeOK
<1>3. SumFunction(Left) \in Int
  BY <1>1, <1>2, SumFunctionIsInt
<1>4. Purchase!Outstanding = SumFunction(Left) - returned - balancePaid
  BY PurchaseSums DEF Left, Purchase!Outstanding
<1>. QED
  BY <1>1, <1>2, <1>3, <1>4 DEF DebtIsSum, Purchase!TypeOK

(* Orders that are not paid above their cost leave no negative debt. *)
PaidInOrders ==
  /\ Purchase!TypeOK /\ Purchase!PaymentsFitOrders
  /\ crossed = {} /\ touched = {} /\ balancePaid = 0 /\ returned = 0
LEMMA PaidInOrdersFits == PaidInOrders => Solvent
<1>. SUFFICES ASSUME PaidInOrders PROVE Solvent
  OBVIOUS
<1>0. DebtIsSum
  BY OutstandingIsSum DEF PaidInOrders
<1>1. \A o \in DOMAIN Left : Left[o] \in Nat
  BY DEF Left, PaidInOrders, Purchase!Owing, Purchase!TypeOK, Purchase!PaymentsFitOrders
<1>2. IsFiniteSet(DOMAIN Left)
  BY <1>0 DEF DebtIsSum
<1>3. SumFunction(Left) \in Nat
  BY <1>1, <1>2, SumFunctionIsNat
<1>. QED
  BY <1>0, <1>3 DEF DebtIsSum, PaidInOrders, Solvent

(* The debt does not change when no order and no payment does. *)
LEMMA DebtStands ==
  ASSUME UNCHANGED <<po, paid, balancePaid, returned>>
  PROVE  Purchase!Outstanding' = Purchase!Outstanding
BY DEF Purchase!Outstanding, Purchase!Owing

LEMMA PurchaseInitInv == Purchase!Init => PurchaseInv
<1>. SUFFICES ASSUME Purchase!Init PROVE PurchaseInv
  OBVIOUS
<1>1. Purchase!TypeOK
  BY DEF Purchase!Init, Purchase!TypeOK, Purchase!SessionState
<1>2. Purchase!PaymentsFitOrders
  BY DEF Purchase!Init, Purchase!PaymentsFitOrders, Purchase!Exists
<1>3. Solvent
  BY <1>1, <1>2, PaidInOrdersFits DEF PaidInOrders, Purchase!Init
<1>4. \A s \in Sessions : h[s] = Purchase!Idle
  BY DEF Purchase!Init
<1>5. DebtFits
  BY <1>3, <1>4 DEF Purchase!Init, DebtFits, FitsDebt, Purchase!Idle
<1>6. OrderReads /\ OneOnOrder /\ NewIsUnread
  BY <1>4 DEF OrderReads, OneOnOrder, NewIsUnread, OnOrder, Purchase!Idle
<1>7. Purchase!BoxesLandOnce
  BY DEF Purchase!Init, Purchase!BoxesLandOnce
<1>. QED
  BY <1>1, <1>2, <1>5, <1>6, <1>7 DEF PurchaseInv

(* A session is at rest, works on an order, or on the debt. *)
LEMMA PurchaseWork ==
  ASSUME NEW w \in Purchase!SessionState
  PROVE  /\ "order" \in DOMAIN w <=> w.pc \in {"pay", "status", "cost", "delete", "receive"}
         /\ w = Purchase!Idle <=> w.pc = "idle"
         /\ w.pc \in {"idle", "balance", "credit", "pay", "status", "cost", "delete", "receive"}
         /\ w.pc \in {"pay", "status", "cost", "delete", "receive"} => w.order \in Orders
         /\ w.pc \in {"pay", "balance", "credit"} => w.amount \in Nat
         /\ w.pc = "cost" => w.cost \in Nat
         /\ w.pc = "status" => w.to \in {"OPEN", "RECEIVED", "CANCELLED"}
<1>1. CASE w = Purchase!Idle
  BY <1>1 DEF Purchase!Idle
<1>2. CASE w \in [pc : {"pay"}, order : Orders, amount : Nat]
  BY <1>2 DEF Purchase!Idle
<1>3. CASE w \in [pc : {"balance", "credit"}, amount : Nat]
  BY <1>3 DEF Purchase!Idle
<1>4. CASE w \in [pc : {"status"}, order : Orders, to : {"OPEN", "RECEIVED", "CANCELLED"}]
  BY <1>4 DEF Purchase!Idle
<1>5. CASE w \in [pc : {"cost"}, order : Orders, cost : Nat]
  BY <1>5 DEF Purchase!Idle
<1>6. CASE w \in [pc : {"delete", "receive"}, order : Orders]
  BY <1>6 DEF Purchase!Idle
<1>. QED
  BY <1>1, <1>2, <1>3, <1>4, <1>5, <1>6 DEF Purchase!SessionState

(* A request that read an order, or the debt, and nothing else changed. *)
LEMMA PurchaseBegins ==
  ASSUME PurchaseInv, NEW s \in Sessions, NEW w \in Purchase!SessionState,
         w # Purchase!Idle, Purchase!Begin(s, w),
         \A o \in Orders : OnOrder(w, o) => OrderRead(w, o) /\ po[o].status # "NONE",
         FitsDebt(w)
  PROVE  PurchaseInv'
<1>1. /\ h[s] = Purchase!Idle /\ h' = [h EXCEPT ![s] = w]
      /\ h'[s] = w /\ \A t \in Sessions : t # s => h'[t] = h[t]
      /\ \A t \in Sessions : h[t] \in Purchase!SessionState
  BY DEF PurchaseInv, Purchase!TypeOK, Purchase!Begin, Purchase!Run
<1>2. UNCHANGED <<po, paid, balancePaid, returned, arrived, amends, touched>>
  BY DEF Purchase!Begin
<1>3. crossed \subseteq crossed' /\ crossed' \subseteq Orders
  BY DEF Purchase!Begin, PurchaseInv, Purchase!TypeOK
<1>4. ASSUME NEW o \in Orders, OnOrder(w, o), NEW t \in Sessions, t # s, OnOrder(h[t], o)
      PROVE  o \in crossed'
  <2>1. h[t] # Purchase!Idle /\ "order" \in DOMAIN h[t] /\ h[t].order = o
    BY <1>1, <1>4, PurchaseWork DEF OnOrder, Purchase!Idle
  <2>2. "order" \in DOMAIN w /\ w.order = o
    BY <1>4, PurchaseWork DEF OnOrder
  <2>3. t \in Purchase!Busy(s)
    BY <1>4, <2>1 DEF Purchase!Busy
  <2>. QED
    BY <2>1, <2>2, <2>3 DEF Purchase!Begin
<1>5. Purchase!TypeOK'
  BY <1>1, <1>2, <1>3 DEF PurchaseInv, Purchase!TypeOK, Purchase!Begin
<1>6. \A t \in Sessions, o \in Orders : OnOrder(h[t], o)' => OnOrder(h'[t], o)
  BY DEF OnOrder
<1>7. OneOnOrder'
  <2>. SUFFICES ASSUME NEW q \in Sessions, NEW t \in Sessions, NEW o \in Orders, o \notin crossed',
                       OnOrder(h'[q], o), OnOrder(h'[t], o)
                PROVE  q = t
    BY DEF OneOnOrder, OnOrder
  <2>1. CASE q # s /\ t # s
    BY <1>1, <1>3, <2>1 DEF PurchaseInv, OneOnOrder
  <2>2. CASE q = s /\ t # s
    BY <1>1, <1>4, <2>2
  <2>3. CASE q # s /\ t = s
    BY <1>1, <1>4, <2>3
  <2>. QED
    BY <2>1, <2>2, <2>3
<1>8. OrderReads'
  <2>. SUFFICES ASSUME NEW t \in Sessions, NEW o \in Orders, o \notin crossed', OnOrder(h'[t], o)
                PROVE  OrderRead(h[t], o)'
    BY DEF OrderReads, OnOrder
  <2>1. OrderRead(h'[t], o)
    BY <1>1, <1>3 DEF PurchaseInv, OrderReads
  <2>. QED
    BY <1>2, <2>1 DEF OrderRead
<1>9. NewIsUnread'
  BY <1>1, <1>2 DEF PurchaseInv, NewIsUnread, OnOrder
<1>10. Purchase!PaymentsFitOrders' /\ Purchase!BoxesLandOnce'
  BY <1>2, <1>3 DEF PurchaseInv, Purchase!PaymentsFitOrders, Purchase!BoxesLandOnce, Purchase!Exists
<1>11. ASSUME ~loose' PROVE DebtFits'
  <2>1. ~loose /\ Purchase!Busy(s) = {}
    BY <1>11 DEF Purchase!Begin
  <2>2. \A t \in Sessions : t # s => h[t] = Purchase!Idle
    BY <2>1 DEF Purchase!Busy
  <2>3. crossed' = crossed
    BY <2>1, <1>2 DEF Purchase!Begin
  <2>4. DebtFits
    BY <2>1 DEF PurchaseInv
  <2>5. Purchase!Outstanding' = Purchase!Outstanding
    BY <1>2, DebtStands
  <2>6. \A t \in Sessions : FitsDebt(h[t])'
    BY <1>1, <2>2, <2>5 DEF FitsDebt, Purchase!Idle
  <2>7. \A q, t \in Sessions : h'[q] # Purchase!Idle /\ h'[t] # Purchase!Idle => q = t
    BY <1>1, <2>2
  <2>. QED
    BY <1>2, <2>3, <2>4, <2>5, <2>6, <2>7 DEF DebtFits, Solvent, Purchase!Idle
<1>. QED
  BY <1>5, <1>7, <1>8, <1>9, <1>10, <1>11 DEF PurchaseInv

(* After a request ended every other one is where it was. *)
LEMMA PurchaseRests ==
  ASSUME PurchaseInv, NEW s \in Sessions, h[s] # Purchase!Idle, Purchase!Run(s, Purchase!Idle),
         crossed' = crossed
  PROVE  /\ h' \in [Sessions -> Purchase!SessionState]
         /\ \A t \in Sessions : h'[t] = Purchase!Idle \/ (t # s /\ h'[t] = h[t])
         /\ OneOnOrder'
         /\ ~loose => \A t \in Sessions : h'[t] = Purchase!Idle
<1>1. /\ h' = [h EXCEPT ![s] = Purchase!Idle] /\ h \in [Sessions -> Purchase!SessionState]
      /\ Purchase!Idle \in Purchase!SessionState
  BY DEF PurchaseInv, Purchase!TypeOK, Purchase!Run, Purchase!SessionState
<1>2. \A t \in Sessions : h'[t] = Purchase!Idle \/ (t # s /\ h'[t] = h[t])
  BY <1>1
<1>3. \A t \in Sessions, o \in Orders : OnOrder(h'[t], o) => OnOrder(h[t], o)
  BY <1>2 DEF OnOrder, Purchase!Idle
<1>4. OneOnOrder'
  BY <1>3 DEF PurchaseInv, OneOnOrder, OnOrder
<1>5. ~loose => \A t \in Sessions : h'[t] = Purchase!Idle
  BY <1>2 DEF PurchaseInv, DebtFits
<1>. QED
  BY <1>1, <1>2, <1>4, <1>5

(* A request that writes its order leaves what the others read. *)
LEMMA OtherOrdersStand ==
  ASSUME PurchaseInv, NEW s \in Sessions, NEW o \in Orders, OnOrder(h[s], o),
         Purchase!Run(s, Purchase!Idle), crossed' = crossed, touched \subseteq touched',
         \A q \in Orders : q # o => po'[q] = po[q] /\ paid'[q] = paid[q],
         po'[o].status # "NONE"
  PROVE  OrderReads' /\ NewIsUnread'
<1>0. h[s] # Purchase!Idle
  BY DEF OnOrder, Purchase!Idle
<1>1. \A t \in Sessions : h'[t] = Purchase!Idle \/ (t # s /\ h'[t] = h[t])
  BY <1>0, PurchaseRests
<1>2. OrderReads'
  <2>. SUFFICES ASSUME NEW t \in Sessions, NEW q \in Orders, q \notin crossed', OnOrder(h'[t], q)
                PROVE  OrderRead(h[t], q)'
    BY DEF OrderReads, OnOrder
  <2>1. t # s /\ h'[t] = h[t] /\ OnOrder(h[t], q)
    BY <1>1 DEF OnOrder, Purchase!Idle
  <2>2. q # o
    BY <2>1 DEF PurchaseInv, OneOnOrder
  <2>3. OrderRead(h[t], q)
    BY <2>1 DEF PurchaseInv, OrderReads
  <2>. QED
    BY <2>1, <2>2, <2>3 DEF OrderRead
<1>3. NewIsUnread'
  <2>. SUFFICES ASSUME NEW t \in Sessions, NEW q \in Orders, po'[q].status = "NONE", OnOrder(h'[t], q)
                PROVE  FALSE
    BY DEF NewIsUnread, OnOrder
  <2>1. OnOrder(h[t], q)
    BY <1>1 DEF OnOrder, Purchase!Idle
  <2>. QED
    BY <2>1 DEF PurchaseInv, NewIsUnread
<1>. QED
  BY <1>2, <1>3

(* With every request at rest the debt only has to be no less than zero. *)
LEMMA RestingDebtFits ==
  ASSUME \A t \in Sessions : h'[t] = Purchase!Idle, crossed' = {}, touched' = {},
         Solvent'
  PROVE  DebtFits'
<1>1. \A t \in Sessions : FitsDebt(h[t])'
  BY DEF FitsDebt, Purchase!Idle
<1>. QED
  BY <1>1 DEF DebtFits, Purchase!Idle

LEMMA PaySupplierKeeps ==
  ASSUME PurchaseInv, NEW s \in Sessions, Purchase!PaySupplier(s)
  PROVE  PurchaseInv'
<1>. DEFINE o == h[s].order
            n == h[s].amount
<1>0. Purchase!TypeOK /\ h[s] \in Purchase!SessionState
  BY DEF PurchaseInv, Purchase!TypeOK
<1>1. h[s].pc = "pay" /\ OnOrder(h[s], o) /\ o \in Orders /\ n \in Nat /\ h[s] # Purchase!Idle
  BY <1>0, PurchaseWork DEF Purchase!PaySupplier, OnOrder
<1>a. n = h[s].amount
  OBVIOUS
<1>. HIDE DEF o, n
<1>2. /\ paid' = [paid EXCEPT ![o] = @ + n] /\ loose' = (loose \/ Purchase!Unallocated)
      /\ Purchase!Run(s, Purchase!Idle)
      /\ UNCHANGED <<po, balancePaid, returned, arrived, amends, crossed, touched>>
  BY DEF Purchase!PaySupplier, o, n
<1>3. paid'[o] = paid[o] + n /\ \A q \in Orders : q # o => paid'[q] = paid[q]
  BY <1>0, <1>1, <1>2 DEF Purchase!TypeOK
<1>4. Purchase!TypeOK'
  BY <1>0, <1>1, <1>2, PurchaseRests DEF Purchase!TypeOK, Purchase!Unallocated
<1>5. o \notin crossed => OrderRead(h[s], o)
  BY <1>1 DEF PurchaseInv, OrderReads
<1>6. Purchase!PaymentsFitOrders'
  <2>. SUFFICES ASSUME NEW q \in Orders, q \notin crossed, q \notin touched
                PROVE  /\ paid'[q] <= po[q].cost
                       /\ ~Purchase!Exists(q) \/ po[q].status = "CANCELLED" => paid'[q] = 0
    BY <1>2 DEF Purchase!PaymentsFitOrders, Purchase!Exists
  <2>1. CASE q = o
    BY <1>0, <1>a, <1>1, <1>3, <1>5, <2>1 DEF OrderRead, Purchase!TypeOK, Purchase!Exists
  <2>2. CASE q # o
    BY <1>3, <2>2 DEF PurchaseInv, Purchase!PaymentsFitOrders
  <2>. QED
    BY <2>1, <2>2
<1>7. Purchase!BoxesLandOnce'
  BY <1>2 DEF PurchaseInv, Purchase!BoxesLandOnce
<1>8. po[o].status # "NONE"
  BY <1>1 DEF PurchaseInv, NewIsUnread
<1>9. OrderReads' /\ NewIsUnread'
  BY <1>1, <1>2, <1>3, <1>8, OtherOrdersStand
<1>10. ASSUME ~loose' PROVE DebtFits'
  <2>0. ~loose /\ ~Purchase!Unallocated
    BY <1>2, <1>10, Zenon
  <2>1. ~loose /\ balancePaid = 0 /\ returned = 0
    BY <1>0, <2>0 DEF Purchase!Unallocated, Purchase!TypeOK
  <2>2. crossed = {} /\ touched = {}
    BY <2>1 DEF PurchaseInv, DebtFits
  <2>3. PaidInOrders'
    BY <1>2, <1>4, <1>6, <2>1, <2>2 DEF PaidInOrders
  <2>4. Solvent'
    BY <2>3, PaidInOrdersFits, PTL
  <2>. QED
    BY <1>1, <1>2, <2>1, <2>2, <2>4, PurchaseRests, RestingDebtFits
<1>. QED
  BY <1>1, <1>2, <1>4, <1>6, <1>7, <1>9, <1>10, PurchaseRests DEF PurchaseInv

(* A request that leaves the orders alone takes none of them further. *)
LEMMA OrdersStand ==
  ASSUME PurchaseInv, NEW s \in Sessions, h[s] # Purchase!Idle, Purchase!Run(s, Purchase!Idle),
         UNCHANGED <<po, paid, arrived, crossed, touched>>
  PROVE  /\ OrderReads' /\ NewIsUnread' /\ OneOnOrder'
         /\ Purchase!PaymentsFitOrders' /\ Purchase!BoxesLandOnce'
<1>1. \A t \in Sessions : h'[t] = Purchase!Idle \/ (t # s /\ h'[t] = h[t])
  BY PurchaseRests
<1>2. \A t \in Sessions, o \in Orders : OnOrder(h'[t], o) => OnOrder(h[t], o) /\ h'[t] = h[t]
  BY <1>1 DEF OnOrder, Purchase!Idle
<1>3. OrderReads'
  BY <1>2 DEF PurchaseInv, OrderReads, OrderRead, OnOrder
<1>4. NewIsUnread'
  BY <1>2 DEF PurchaseInv, NewIsUnread, OnOrder
<1>5. Purchase!PaymentsFitOrders' /\ Purchase!BoxesLandOnce'
  BY DEF PurchaseInv, Purchase!PaymentsFitOrders, Purchase!BoxesLandOnce, Purchase!Exists
<1>. QED
  BY <1>3, <1>4, <1>5, PurchaseRests

LEMMA SupplierLevelKeeps ==
  ASSUME PurchaseInv, NEW s \in Sessions,
         Purchase!PaySupplierBalance(s) \/ Purchase!RecordSupplierCredit(s)
  PROVE  PurchaseInv'
<1>. DEFINE n == h[s].amount
<1>0. Purchase!TypeOK /\ h[s] \in Purchase!SessionState
  BY DEF PurchaseInv, Purchase!TypeOK
<1>1. h[s].pc \in {"balance", "credit"} /\ n \in Nat /\ h[s] # Purchase!Idle
  BY <1>0, PurchaseWork DEF Purchase!PaySupplierBalance, Purchase!RecordSupplierCredit
<1>2. /\ Purchase!Run(s, Purchase!Idle)
      /\ UNCHANGED <<po, paid, arrived, amends, crossed, touched, loose>>
      /\ \/ balancePaid' = balancePaid + n /\ returned' = returned
         \/ returned' = returned + n /\ balancePaid' = balancePaid
  BY DEF Purchase!PaySupplierBalance, Purchase!RecordSupplierCredit
<1>3. Purchase!TypeOK'
  BY <1>0, <1>1, <1>2, PurchaseRests DEF Purchase!TypeOK
<1>4. ASSUME ~loose PROVE DebtFits'
  <2>1. DebtFits /\ n <= Purchase!Outstanding
    BY <1>1, <1>4 DEF PurchaseInv, DebtFits, FitsDebt
  <2>2. DebtIsSum /\ DebtIsSum'
    BY <1>0, <1>3, OutstandingIsSum, PTL
  <2>3. Left' = Left
    BY <1>2 DEF Left, Purchase!Owing
  <2>4. Purchase!Outstanding' = Purchase!Outstanding - n
    BY <1>0, <1>1, <1>2, <2>2, <2>3 DEF DebtIsSum, Purchase!TypeOK
  <2>5. Solvent'
    BY <1>1, <2>1, <2>2, <2>4 DEF Solvent, DebtIsSum
  <2>. QED
    BY <1>1, <1>2, <1>4, <2>1, <2>5, PurchaseRests, RestingDebtFits DEF DebtFits
<1>. QED
  BY <1>1, <1>2, <1>3, <1>4, OrdersStand DEF PurchaseInv

LEMMA UpdateKeeps ==
  ASSUME PurchaseInv, NEW s \in Sessions, Purchase!UpdatePurchaseOrder(s)
  PROVE  PurchaseInv'
<1>. DEFINE o == h[s].order
<1>0. Purchase!TypeOK /\ h[s] \in Purchase!SessionState
  BY DEF PurchaseInv, Purchase!TypeOK
<1>1. /\ h[s].pc \in {"status", "cost"} /\ OnOrder(h[s], o) /\ o \in Orders /\ h[s] # Purchase!Idle
      /\ h[s].pc = "status" => h[s].to \in {"OPEN", "RECEIVED", "CANCELLED"}
      /\ h[s].pc = "cost" => h[s].cost \in Nat
  BY <1>0, PurchaseWork DEF Purchase!UpdatePurchaseOrder, OnOrder
<1>2. /\ po' = IF ~Purchase!Exists(o) THEN po
               ELSE IF h[s].pc = "status" THEN [po EXCEPT ![o].status = h[s].to]
               ELSE [po EXCEPT ![o].cost = h[s].cost]
      /\ touched' = IF h[s].pc = "cost" THEN touched \cup {o} ELSE touched
      /\ loose' = (loose \/ Purchase!Unallocated \/ h[s].pc = "cost")
      /\ Purchase!Run(s, Purchase!Idle)
      /\ UNCHANGED <<paid, balancePaid, returned, arrived, amends, crossed>>
  BY DEF Purchase!UpdatePurchaseOrder
<1>. HIDE DEF o
<1>3. \A q \in Orders : q # o => po'[q] = po[q]
  BY <1>0, <1>1, <1>2 DEF Purchase!TypeOK
<1>4. /\ h[s].pc = "status" => po'[o].cost = po[o].cost
      /\ ~Purchase!Exists(o) => po'[o] = po[o]
      /\ Purchase!Exists(o) /\ h[s].pc = "status" => po'[o].status = h[s].to
      /\ Purchase!Exists(o) /\ h[s].pc = "cost" => po'[o].status = po[o].status
  BY <1>0, <1>1, <1>2 DEF Purchase!TypeOK
<1>5. Purchase!TypeOK'
  <2>1. po' \in [Orders -> [status : {"NONE", "OPEN", "RECEIVED", "CANCELLED", "DELETED"}, cost : Nat]]
    BY <1>0, <1>1, <1>2 DEF Purchase!TypeOK
  <2>2. touched' \subseteq Orders /\ loose' \in BOOLEAN
    BY <1>0, <1>1, <1>2, Zenon DEF Purchase!TypeOK
  <2>. QED
    BY <1>0, <1>1, <1>2, <2>1, <2>2, PurchaseRests DEF Purchase!TypeOK
<1>6. o \notin crossed => OrderRead(h[s], o)
  BY <1>1 DEF PurchaseInv, OrderReads
<1>7. Purchase!PaymentsFitOrders'
  <2>. SUFFICES ASSUME NEW q \in Orders, q \notin crossed, q \notin touched'
                PROVE  /\ paid[q] <= po'[q].cost
                       /\ po'[q].status \notin {"OPEN", "RECEIVED"} => paid[q] = 0
    BY <1>2 DEF Purchase!PaymentsFitOrders, Purchase!Exists
  <2>0. q \notin touched
    BY <1>2
  <2>1. /\ paid[q] <= po[q].cost
        /\ po[q].status \notin {"OPEN", "RECEIVED"} => paid[q] = 0
    BY <2>0 DEF PurchaseInv, Purchase!PaymentsFitOrders, Purchase!Exists
  <2>2. CASE q = o
    <3>1. h[s].pc = "status"
      BY <1>1, <1>2, <2>2
    <3>. QED
      BY <1>1, <1>4, <1>6, <2>1, <2>2, <3>1 DEF OrderRead, Purchase!Exists
  <2>3. CASE q # o
    BY <1>3, <2>1, <2>3
  <2>. QED
    BY <2>2, <2>3
<1>8. Purchase!BoxesLandOnce'
  <2>. SUFFICES ASSUME NEW q \in Orders, q \notin crossed
                PROVE  arrived[q] <= 1 /\ (arrived[q] = 1 => po'[q].status = "RECEIVED")
    BY <1>2 DEF Purchase!BoxesLandOnce
  <2>1. arrived[q] <= 1 /\ (arrived[q] = 1 => po[q].status = "RECEIVED")
    BY DEF PurchaseInv, Purchase!BoxesLandOnce
  <2>2. CASE q = o
    BY <1>1, <1>6, <2>1, <2>2 DEF OrderRead
  <2>3. CASE q # o
    BY <1>3, <2>1, <2>3
  <2>. QED
    BY <2>2, <2>3
<1>9. po'[o].status # "NONE"
  <2>1. po[o].status # "NONE"
    BY <1>1 DEF PurchaseInv, NewIsUnread
  <2>. QED
    BY <1>1, <1>4, <2>1
<1>10. OrderReads' /\ NewIsUnread'
  BY <1>1, <1>2, <1>3, <1>9, OtherOrdersStand
<1>11. ASSUME ~loose' PROVE DebtFits'
  <2>0. ~loose /\ ~Purchase!Unallocated /\ ~(h[s].pc = "cost")
    BY <1>2, <1>11, Zenon
  <2>a. balancePaid = 0 /\ returned = 0
    BY <1>0, <2>0 DEF Purchase!Unallocated, Purchase!TypeOK
  <2>1. balancePaid = 0 /\ returned = 0 /\ touched' = touched
    BY <1>2, <2>0, <2>a, Zenon
  <2>2. crossed = {} /\ touched = {}
    BY <2>0 DEF PurchaseInv, DebtFits
  <2>3. PaidInOrders'
    BY <1>2, <1>5, <1>7, <2>1, <2>2 DEF PaidInOrders
  <2>4. Solvent'
    BY <2>3, PaidInOrdersFits, PTL
  <2>. QED
    BY <1>1, <1>2, <2>0, <2>1, <2>2, <2>4, PurchaseRests, RestingDebtFits
<1>. QED
  BY <1>1, <1>2, <1>5, <1>7, <1>8, <1>10, <1>11, PurchaseRests DEF PurchaseInv

LEMMA DeleteKeeps ==
  ASSUME PurchaseInv, NEW s \in Sessions, Purchase!DeletePurchaseOrder(s)
  PROVE  PurchaseInv'
<1>. DEFINE o == h[s].order
<1>0. Purchase!TypeOK /\ h[s] \in Purchase!SessionState
  BY DEF PurchaseInv, Purchase!TypeOK
<1>1. h[s].pc = "delete" /\ OnOrder(h[s], o) /\ o \in Orders /\ h[s] # Purchase!Idle
  BY <1>0, PurchaseWork DEF Purchase!DeletePurchaseOrder, OnOrder
<1>2. /\ po' = IF Purchase!Exists(o) THEN [po EXCEPT ![o].status = "DELETED"] ELSE po
      /\ loose' = (loose \/ Purchase!Unallocated)
      /\ Purchase!Run(s, Purchase!Idle)
      /\ UNCHANGED <<paid, balancePaid, returned, arrived, amends, crossed, touched>>
  BY DEF Purchase!DeletePurchaseOrder
<1>. HIDE DEF o
<1>3. \A q \in Orders : q # o => po'[q] = po[q]
  BY <1>0, <1>1, <1>2 DEF Purchase!TypeOK
<1>4. /\ po'[o].cost = po[o].cost
      /\ po'[o].status = IF Purchase!Exists(o) THEN "DELETED" ELSE po[o].status
  BY <1>0, <1>1, <1>2 DEF Purchase!TypeOK
<1>5. Purchase!TypeOK'
  <2>1. po' \in [Orders -> [status : {"NONE", "OPEN", "RECEIVED", "CANCELLED", "DELETED"}, cost : Nat]]
    BY <1>0, <1>1, <1>2 DEF Purchase!TypeOK
  <2>2. loose' \in BOOLEAN
    BY <1>0, <1>2, Zenon DEF Purchase!TypeOK
  <2>. QED
    BY <1>0, <1>1, <1>2, <2>1, <2>2, PurchaseRests DEF Purchase!TypeOK
<1>6. o \notin crossed => OrderRead(h[s], o)
  BY <1>1 DEF PurchaseInv, OrderReads
<1>7. Purchase!PaymentsFitOrders'
  <2>. SUFFICES ASSUME NEW q \in Orders, q \notin crossed, q \notin touched
                PROVE  /\ paid[q] <= po'[q].cost
                       /\ po'[q].status \notin {"OPEN", "RECEIVED"} => paid[q] = 0
    BY <1>2 DEF Purchase!PaymentsFitOrders, Purchase!Exists
  <2>1. /\ paid[q] <= po[q].cost
        /\ po[q].status \notin {"OPEN", "RECEIVED"} => paid[q] = 0
    BY DEF PurchaseInv, Purchase!PaymentsFitOrders, Purchase!Exists
  <2>2. CASE q = o
    BY <1>1, <1>4, <1>6, <2>1, <2>2 DEF OrderRead
  <2>3. CASE q # o
    BY <1>3, <2>1, <2>3
  <2>. QED
    BY <2>2, <2>3
<1>8. Purchase!BoxesLandOnce'
  <2>. SUFFICES ASSUME NEW q \in Orders, q \notin crossed
                PROVE  arrived[q] <= 1 /\ (arrived[q] = 1 => po'[q].status = "RECEIVED")
    BY <1>2 DEF Purchase!BoxesLandOnce
  <2>1. arrived[q] <= 1 /\ (arrived[q] = 1 => po[q].status = "RECEIVED")
    BY DEF PurchaseInv, Purchase!BoxesLandOnce
  <2>2. CASE q = o
    BY <1>1, <1>6, <2>1, <2>2 DEF OrderRead
  <2>3. CASE q # o
    BY <1>3, <2>1, <2>3
  <2>. QED
    BY <2>2, <2>3
<1>9. po'[o].status # "NONE"
  <2>1. po[o].status # "NONE"
    BY <1>1 DEF PurchaseInv, NewIsUnread
  <2>. QED
    BY <1>4, <2>1
<1>10. OrderReads' /\ NewIsUnread'
  BY <1>1, <1>2, <1>3, <1>9, OtherOrdersStand
<1>11. ASSUME ~loose' PROVE DebtFits'
  <2>0. ~loose /\ ~Purchase!Unallocated
    BY <1>2, <1>11, Zenon
  <2>1. balancePaid = 0 /\ returned = 0
    BY <1>0, <2>0 DEF Purchase!Unallocated, Purchase!TypeOK
  <2>2. crossed = {} /\ touched = {}
    BY <2>0 DEF PurchaseInv, DebtFits
  <2>3. PaidInOrders'
    BY <1>2, <1>5, <1>7, <2>1, <2>2 DEF PaidInOrders
  <2>4. Solvent'
    BY <2>3, PaidInOrdersFits, PTL
  <2>. QED
    BY <1>1, <1>2, <2>0, <2>2, <2>4, PurchaseRests, RestingDebtFits
<1>. QED
  BY <1>1, <1>2, <1>5, <1>7, <1>8, <1>10, <1>11, PurchaseRests DEF PurchaseInv

LEMMA ReceiveKeeps ==
  ASSUME PurchaseInv, NEW s \in Sessions, Purchase!ReceivePurchaseOrder(s)
  PROVE  PurchaseInv'
<1>. DEFINE o == h[s].order
<1>0. Purchase!TypeOK /\ h[s] \in Purchase!SessionState
  BY DEF PurchaseInv, Purchase!TypeOK
<1>1. h[s].pc = "receive" /\ OnOrder(h[s], o) /\ o \in Orders /\ h[s] # Purchase!Idle
  BY <1>0, PurchaseWork DEF Purchase!ReceivePurchaseOrder, OnOrder
<1>2. /\ IF Purchase!Exists(o)
         THEN /\ po' = [po EXCEPT ![o].status = "RECEIVED"]
              /\ arrived' = [arrived EXCEPT ![o] = @ + 1]
         ELSE UNCHANGED <<po, arrived>>
      /\ Purchase!Run(s, Purchase!Idle)
      /\ UNCHANGED <<paid, balancePaid, returned, amends, crossed, touched, loose>>
  BY DEF Purchase!ReceivePurchaseOrder
<1>. HIDE DEF o
<1>3. \A q \in Orders : q # o => po'[q] = po[q] /\ arrived'[q] = arrived[q]
  BY <1>0, <1>1, <1>2 DEF Purchase!TypeOK
<1>4. /\ po'[o].cost = po[o].cost
      /\ Purchase!Exists(o) => po'[o].status = "RECEIVED" /\ arrived'[o] = arrived[o] + 1
      /\ ~Purchase!Exists(o) => po'[o] = po[o] /\ arrived'[o] = arrived[o]
  BY <1>0, <1>1, <1>2 DEF Purchase!TypeOK
<1>5. Purchase!TypeOK'
  <2>1. po' \in [Orders -> [status : {"NONE", "OPEN", "RECEIVED", "CANCELLED", "DELETED"}, cost : Nat]]
    BY <1>0, <1>1, <1>2 DEF Purchase!TypeOK
  <2>2. arrived' \in [Orders -> Nat]
    BY <1>0, <1>1, <1>2 DEF Purchase!TypeOK
  <2>. QED
    BY <1>0, <1>1, <1>2, <2>1, <2>2, PurchaseRests DEF Purchase!TypeOK
<1>6. o \notin crossed => OrderRead(h[s], o)
  BY <1>1 DEF PurchaseInv, OrderReads
<1>7. Purchase!PaymentsFitOrders'
  <2>. SUFFICES ASSUME NEW q \in Orders, q \notin crossed, q \notin touched
                PROVE  /\ paid[q] <= po'[q].cost
                       /\ po'[q].status \notin {"OPEN", "RECEIVED"} => paid[q] = 0
    BY <1>2 DEF Purchase!PaymentsFitOrders, Purchase!Exists
  <2>1. /\ paid[q] <= po[q].cost
        /\ po[q].status \notin {"OPEN", "RECEIVED"} => paid[q] = 0
    BY DEF PurchaseInv, Purchase!PaymentsFitOrders, Purchase!Exists
  <2>2. CASE q = o
    BY <1>1, <1>4, <1>6, <2>1, <2>2 DEF OrderRead
  <2>3. CASE q # o
    BY <1>3, <2>1, <2>3
  <2>. QED
    BY <2>2, <2>3
<1>8. Purchase!BoxesLandOnce'
  <2>. SUFFICES ASSUME NEW q \in Orders, q \notin crossed
                PROVE  arrived'[q] <= 1 /\ (arrived'[q] = 1 => po'[q].status = "RECEIVED")
    BY <1>2 DEF Purchase!BoxesLandOnce
  <2>1. arrived[q] \in Nat /\ arrived[q] <= 1 /\ (arrived[q] = 1 => po[q].status = "RECEIVED")
    BY DEF PurchaseInv, Purchase!BoxesLandOnce, Purchase!TypeOK
  <2>2. CASE q = o
    BY <1>1, <1>4, <1>6, <2>1, <2>2 DEF OrderRead
  <2>3. CASE q # o
    BY <1>3, <2>1, <2>3
  <2>. QED
    BY <2>2, <2>3
<1>9. po'[o].status # "NONE"
  <2>1. po[o].status # "NONE"
    BY <1>1 DEF PurchaseInv, NewIsUnread
  <2>. QED
    BY <1>4, <2>1
<1>10. OrderReads' /\ NewIsUnread'
  BY <1>1, <1>2, <1>3, <1>9, OtherOrdersStand
<1>11. ASSUME ~loose PROVE DebtFits'
  <2>1. DebtFits /\ po[o].status = "OPEN"
    BY <1>1, <1>6, <1>11 DEF PurchaseInv, DebtFits, OrderRead
  <2>2. Purchase!Owing' = Purchase!Owing
    BY <1>3, <1>4, <2>1 DEF Purchase!Owing, Purchase!Exists
  <2>3. \A q \in Orders : po'[q].cost = po[q].cost
    BY <1>3, <1>4
  <2>4. Left' = Left
    BY <1>2, <2>2, <2>3 DEF Left, Purchase!Owing
  <2>5. DebtIsSum /\ DebtIsSum'
    BY <1>0, <1>5, OutstandingIsSum, PTL
  <2>6. Solvent'
    BY <1>2, <2>1, <2>4, <2>5 DEF DebtIsSum, DebtFits, Solvent
  <2>. QED
    BY <1>1, <1>2, <1>11, <2>1, <2>6, PurchaseRests, RestingDebtFits DEF DebtFits
<1>. QED
  BY <1>1, <1>2, <1>5, <1>7, <1>8, <1>10, <1>11, PurchaseRests DEF PurchaseInv

(* A payment edited by hand: lowered it leaves more to pay. *)
LEMMA AmendKeeps ==
  ASSUME PurchaseInv, NEW o \in Orders, NEW n \in 0..MaxPaid, Purchase!AmendPayment(o, n)
  PROVE  PurchaseInv'
<1>0. Purchase!TypeOK /\ n \in Nat
  BY DEF PurchaseInv
<1>1. /\ paid[o] > 0 /\ n # paid[o] /\ amends' = amends + 1
      /\ paid' = [paid EXCEPT ![o] = n]
      /\ touched' = IF n > paid[o] THEN touched \cup {o} ELSE touched
      /\ loose' = (loose \/ n > paid[o])
      /\ UNCHANGED <<po, balancePaid, returned, arrived, h, crossed>>
  BY DEF Purchase!AmendPayment
<1>2. paid'[o] = n /\ (\A q \in Orders : q # o => paid'[q] = paid[q]) /\ paid[o] \in Nat
  BY <1>0, <1>1 DEF Purchase!TypeOK
<1>3. Purchase!TypeOK'
  <2>1. paid' \in [Orders -> Nat] /\ amends' \in Nat
    BY <1>0, <1>1 DEF Purchase!TypeOK
  <2>2. touched' \subseteq Orders /\ loose' \in BOOLEAN
    BY <1>0, <1>1, Zenon DEF Purchase!TypeOK
  <2>. QED
    BY <1>0, <1>1, <2>1, <2>2 DEF Purchase!TypeOK
<1>4. Purchase!PaymentsFitOrders'
  <2>. SUFFICES ASSUME NEW q \in Orders, q \notin crossed, q \notin touched'
                PROVE  /\ paid'[q] <= po[q].cost
                       /\ po[q].status \notin {"OPEN", "RECEIVED"} => paid'[q] = 0
    BY <1>1 DEF Purchase!PaymentsFitOrders, Purchase!Exists
  <2>1. q \notin touched
    BY <1>1
  <2>2. /\ paid[q] <= po[q].cost /\ po[q].cost \in Nat
        /\ po[q].status \notin {"OPEN", "RECEIVED"} => paid[q] = 0
    BY <1>0, <2>1 DEF PurchaseInv, Purchase!PaymentsFitOrders, Purchase!Exists, Purchase!TypeOK
  <2>3. CASE q = o
    <3>1. ~(n > paid[o])
      BY <1>1, <2>3
    <3>. QED
      BY <1>0, <1>1, <1>2, <2>2, <2>3, <3>1
  <2>4. CASE q # o
    BY <1>2, <2>2, <2>4
  <2>. QED
    BY <2>3, <2>4
<1>5. OrderReads'
  <2>. SUFFICES ASSUME NEW t \in Sessions, NEW q \in Orders, q \notin crossed, OnOrder(h[t], q)
                PROVE  OrderRead(h[t], q)'
    BY <1>1 DEF OrderReads, OnOrder
  <2>1. OrderRead(h[t], q)
    BY DEF PurchaseInv, OrderReads
  <2>2. CASE q # o
    BY <1>1, <1>2, <2>1, <2>2 DEF OrderRead
  <2>3. CASE q = o
    <3>1. /\ h[t].pc # "delete" /\ ~(h[t].pc = "status" /\ h[t].to = "CANCELLED")
          /\ h[t].pc = "pay" => h[t].amount \in Nat
      BY <1>0, <1>1, <2>1, <2>3, PurchaseWork DEF OrderRead, Purchase!TypeOK
    <3>2. ASSUME h[t].pc = "pay", o \notin touched' PROVE h[t].amount <= po[o].cost - n
      <4>1. ~(n > paid[o]) /\ o \notin touched
        BY <1>1, <3>2
      <4>2. h[t].amount <= po[o].cost - paid[o] /\ po[o].cost \in Nat
        BY <1>0, <2>1, <2>3, <3>2, <4>1 DEF OrderRead, Purchase!TypeOK
      <4>. QED
        BY <1>0, <1>2, <3>1, <3>2, <4>1, <4>2
    <3>. QED
      BY <1>1, <1>2, <2>1, <2>3, <3>1, <3>2 DEF OrderRead
  <2>. QED
    BY <2>2, <2>3
<1>6. OneOnOrder' /\ NewIsUnread' /\ Purchase!BoxesLandOnce'
  BY <1>1 DEF PurchaseInv, OneOnOrder, NewIsUnread, OnOrder, Purchase!BoxesLandOnce
<1>7. ASSUME ~loose' PROVE DebtFits'
  <2>1. ~loose /\ ~(n > paid[o])
    BY <1>1, <1>7, Zenon
  <2>2. DebtFits /\ touched' = touched /\ n <= paid[o]
    BY <1>0, <1>1, <1>2, <2>1 DEF PurchaseInv
  <2>3. DebtIsSum /\ DebtIsSum'
    BY <1>0, <1>3, OutstandingIsSum, PTL
  <2>. DEFINE S == Purchase!Owing
  <2>4. S' = S
    BY <1>1 DEF Purchase!Owing
  <2>5. IsFiniteSet(S) /\ Left \in [S -> Int] /\ Left' \in [S -> Int]
    BY <2>3, <2>4 DEF DebtIsSum
  <2>6. \A q \in S : Left[q] <= Left'[q]
    <3>. SUFFICES ASSUME NEW q \in S PROVE Left[q] <= Left'[q]
      OBVIOUS
    <3>1. q \in Orders /\ Left[q] = po[q].cost - paid[q] /\ Left'[q] = po[q].cost - paid'[q]
      BY <1>1, <2>4 DEF Left, Purchase!Owing
    <3>2. paid'[q] <= paid[q] /\ paid'[q] \in Nat /\ paid[q] \in Nat /\ po[q].cost \in Nat
      BY <1>0, <1>2, <2>2, <3>1 DEF Purchase!TypeOK
    <3>. QED
      BY <3>1, <3>2
  <2>7. SumFunction(Left) <= SumFunction(Left')
    <3>. HIDE DEF S
    <3>. QED
      BY <2>5, <2>6, SumNoLess
  <2>8. SumFunction(Left)' = SumFunction(Left')
    BY DEF SumFunction
  <2>9. Purchase!Outstanding <= Purchase!Outstanding' /\ Purchase!Outstanding' \in Int
    BY <1>0, <1>1, <2>3, <2>7, <2>8 DEF DebtIsSum, Purchase!TypeOK
  <2>10. Solvent' /\ \A t \in Sessions : FitsDebt(h[t])'
    <3>1. Solvent'
      BY <2>2, <2>3, <2>9 DEF DebtFits, Solvent, DebtIsSum
    <3>2. ASSUME NEW t \in Sessions PROVE FitsDebt(h[t])'
      <4>1. FitsDebt(h[t]) /\ h[t] \in Purchase!SessionState
        BY <1>0, <2>2 DEF DebtFits, Purchase!TypeOK
      <4>2. h[t].pc \in {"balance", "credit"} => h[t].amount \in Nat
        BY <4>1, PurchaseWork
      <4>. QED
        BY <1>1, <2>3, <2>9, <4>1, <4>2 DEF FitsDebt, DebtIsSum
    <3>. QED
      BY <3>1, <3>2
  <2>. QED
    BY <1>1, <2>2, <2>10 DEF DebtFits
<1>. QED
  BY <1>3, <1>4, <1>5, <1>6, <1>7 DEF PurchaseInv

(* A new order adds what is left to pay on it. *)
LEMMA CreateOrderKeeps ==
  ASSUME PurchaseInv, NEW o \in Orders, NEW total \in Purchase!Costs, NEW n \in 0..MaxCost,
         Purchase!CreatePurchaseOrder(o, total, n)
  PROVE  PurchaseInv'
<1>0. Purchase!TypeOK /\ n \in Nat /\ total \in Nat /\ n <= total
  BY DEF PurchaseInv, Purchase!Costs, Purchase!CreatePurchaseOrder, Purchase!AtCounter
<1>1. /\ po[o].status = "NONE"
      /\ po' = [po EXCEPT ![o] = [status |-> "OPEN", cost |-> total]]
      /\ paid' = [paid EXCEPT ![o] = n]
      /\ UNCHANGED <<balancePaid, returned, arrived, h, amends, crossed, touched, loose>>
  BY DEF Purchase!CreatePurchaseOrder
<1>2. /\ paid'[o] = n /\ po'[o].status = "OPEN" /\ po'[o].cost = total
      /\ \A q \in Orders : q # o => paid'[q] = paid[q] /\ po'[q] = po[q]
  BY <1>0, <1>1 DEF Purchase!TypeOK
<1>3. Purchase!TypeOK'
  BY <1>0, <1>1 DEF Purchase!TypeOK
<1>4. \A t \in Sessions : ~OnOrder(h[t], o)
  BY <1>1 DEF PurchaseInv, NewIsUnread
<1>5. Purchase!PaymentsFitOrders'
  BY <1>0, <1>1, <1>2 DEF PurchaseInv, Purchase!PaymentsFitOrders, Purchase!Exists
<1>6. Purchase!BoxesLandOnce'
  BY <1>1, <1>2 DEF PurchaseInv, Purchase!BoxesLandOnce
<1>7. OrderReads'
  <2>. SUFFICES ASSUME NEW t \in Sessions, NEW q \in Orders, q \notin crossed, OnOrder(h[t], q)
                PROVE  OrderRead(h[t], q)'
    BY <1>1 DEF OrderReads, OnOrder
  <2>1. OrderRead(h[t], q) /\ q # o
    BY <1>4 DEF PurchaseInv, OrderReads
  <2>. QED
    BY <1>1, <1>2, <2>1 DEF OrderRead
<1>8. OneOnOrder' /\ NewIsUnread'
  BY <1>1, <1>2 DEF PurchaseInv, OneOnOrder, NewIsUnread, OnOrder
<1>9. ASSUME ~loose PROVE DebtFits'
  <2>1. DebtFits
    BY <1>9 DEF PurchaseInv
  <2>3. DebtIsSum /\ DebtIsSum'
    BY <1>0, <1>3, OutstandingIsSum, PTL
  <2>. DEFINE S == Purchase!Owing
              g == Left
              k == Left'
  <2>4. o \notin S /\ S' = S \cup {o}
    BY <1>1, <1>2 DEF Purchase!Owing
  <2>5. /\ IsFiniteSet(DOMAIN g) /\ DOMAIN g = S /\ DOMAIN k = S \cup {o}
        /\ \A q \in DOMAIN g : g[q] \in Int
        /\ \A q \in DOMAIN k : k[q] \in Int
    BY <2>3, <2>4 DEF DebtIsSum
  <2>6. \A q \in S : k[q] = g[q]
    BY <1>2, <2>4 DEF Left, Purchase!Owing
  <2>7. k[o] = total - n
    BY <1>2, <2>4 DEF Left, Purchase!Owing
  <2>8. SumFunction(Left)' = SumFunction(k)
    BY DEF SumFunction
  <2>9. SumFunction(k) = SumFunction(g) - ValueAt(g, o) + ValueAt(k, o)
    <3>. HIDE DEF g, k, S
    <3>1. DOMAIN g \ {o} = DOMAIN k \ {o} /\ \A q \in DOMAIN g \ {o} : k[q] = g[q]
      BY <2>4, <2>5, <2>6
    <3>. QED
      BY <2>5, <3>1, SumDiffersAt
  <2>10. ValueAt(g, o) = 0 /\ ValueAt(k, o) = total - n
    <3>. HIDE DEF g, k, S
    <3>. QED
      BY <2>4, <2>5, <2>7 DEF ValueAt
  <2>11. Purchase!Outstanding' = Purchase!Outstanding + (total - n)
    <3>1. SumFunction(k) = SumFunction(Left) + (total - n) /\ SumFunction(Left) \in Int
      BY <1>0, <2>3, <2>9, <2>10 DEF DebtIsSum
    <3>. HIDE DEF k
    <3>. QED
      BY <1>0, <1>1, <2>3, <2>8, <3>1 DEF DebtIsSum, Purchase!TypeOK
  <2>12. Purchase!Outstanding <= Purchase!Outstanding' /\ Purchase!Outstanding' \in Int
    BY <1>0, <2>3, <2>11 DEF DebtIsSum
  <2>13. Solvent'
    BY <2>1, <2>3, <2>12 DEF DebtFits, Solvent, DebtIsSum
  <2>14. ASSUME NEW t \in Sessions PROVE FitsDebt(h[t])'
    <3>1. FitsDebt(h[t]) /\ h[t] \in Purchase!SessionState
      BY <1>0, <2>1 DEF DebtFits, Purchase!TypeOK
    <3>2. h[t].pc \in {"balance", "credit"} => h[t].amount \in Nat
      BY <3>1, PurchaseWork
    <3>. QED
      BY <1>1, <2>3, <2>12, <3>1, <3>2 DEF FitsDebt, DebtIsSum
  <2>. QED
    BY <1>1, <2>1, <2>13, <2>14 DEF DebtFits
<1>. QED
  BY <1>1, <1>3, <1>5, <1>6, <1>7, <1>8, <1>9 DEF PurchaseInv

LEMMA PurchaseStartsKeep ==
  ASSUME PurchaseInv, NEW s \in Sessions, NEW o \in Orders,
         \/ \E n \in 1..MaxPaid : Purchase!StartPaySupplier(s, o, n)
         \/ \E status \in {"OPEN", "RECEIVED", "CANCELLED"} : Purchase!StartUpdate(s, o, status)
         \/ \E total \in Purchase!Costs : Purchase!StartReprice(s, o, total)
         \/ Purchase!StartDelete(s, o)
         \/ Purchase!StartReceive(s, o)
  PROVE  PurchaseInv'
<1>0. po[o].status \in {"NONE", "OPEN", "RECEIVED", "CANCELLED", "DELETED"}
  BY DEF PurchaseInv, Purchase!TypeOK
<1>1. CASE \E n \in 1..MaxPaid : Purchase!StartPaySupplier(s, o, n)
  <2>. PICK n \in 1..MaxPaid : Purchase!StartPaySupplier(s, o, n)
    BY <1>1
  <2>. DEFINE w == [pc |-> "pay", order |-> o, amount |-> n]
  <2>1. w \in Purchase!SessionState /\ w # Purchase!Idle
    BY DEF Purchase!SessionState, Purchase!Idle
  <2>2. \A q \in Orders : OnOrder(w, q) => OrderRead(w, q) /\ po[q].status # "NONE"
    BY DEF OnOrder, OrderRead, Purchase!StartPaySupplier, Purchase!Payable, Purchase!Exists
  <2>3. FitsDebt(w) /\ Purchase!Begin(s, w)
    BY DEF FitsDebt, Purchase!StartPaySupplier
  <2>. QED
    BY <2>1, <2>2, <2>3, PurchaseBegins
<1>2. CASE \E status \in {"OPEN", "RECEIVED", "CANCELLED"} : Purchase!StartUpdate(s, o, status)
  <2>. PICK status \in {"OPEN", "RECEIVED", "CANCELLED"} : Purchase!StartUpdate(s, o, status)
    BY <1>2
  <2>. DEFINE w == [pc |-> "status", order |-> o, to |-> status]
  <2>1. w \in Purchase!SessionState /\ w # Purchase!Idle
    BY DEF Purchase!SessionState, Purchase!Idle
  <2>2. \A q \in Orders : OnOrder(w, q) => OrderRead(w, q) /\ po[q].status # "NONE"
    BY DEF OnOrder, OrderRead, Purchase!StartUpdate, Purchase!Cancellable, Purchase!Exists
  <2>3. FitsDebt(w) /\ Purchase!Begin(s, w)
    BY DEF FitsDebt, Purchase!StartUpdate
  <2>. QED
    BY <2>1, <2>2, <2>3, PurchaseBegins
<1>3. CASE \E total \in Purchase!Costs : Purchase!StartReprice(s, o, total)
  <2>. PICK total \in Purchase!Costs : Purchase!StartReprice(s, o, total)
    BY <1>3
  <2>. DEFINE w == [pc |-> "cost", order |-> o, cost |-> total]
  <2>1. w \in Purchase!SessionState /\ w # Purchase!Idle
    BY DEF Purchase!SessionState, Purchase!Idle, Purchase!Costs
  <2>2. \A q \in Orders : OnOrder(w, q) => OrderRead(w, q) /\ po[q].status # "NONE"
    BY DEF OnOrder, OrderRead, Purchase!StartReprice, Purchase!Exists
  <2>3. FitsDebt(w) /\ Purchase!Begin(s, w)
    BY DEF FitsDebt, Purchase!StartReprice
  <2>. QED
    BY <2>1, <2>2, <2>3, PurchaseBegins
<1>4. CASE Purchase!StartDelete(s, o)
  <2>. DEFINE w == [pc |-> "delete", order |-> o]
  <2>1. w \in Purchase!SessionState /\ w # Purchase!Idle
    BY DEF Purchase!SessionState, Purchase!Idle
  <2>2. \A q \in Orders : OnOrder(w, q) => OrderRead(w, q) /\ po[q].status # "NONE"
    BY <1>4 DEF OnOrder, OrderRead, Purchase!StartDelete, Purchase!Cancellable, Purchase!Exists
  <2>3. FitsDebt(w) /\ Purchase!Begin(s, w)
    BY <1>4 DEF FitsDebt, Purchase!StartDelete
  <2>. QED
    BY <2>1, <2>2, <2>3, PurchaseBegins
<1>5. CASE Purchase!StartReceive(s, o)
  <2>. DEFINE w == [pc |-> "receive", order |-> o]
  <2>1. w \in Purchase!SessionState /\ w # Purchase!Idle
    BY DEF Purchase!SessionState, Purchase!Idle
  <2>2. \A q \in Orders : OnOrder(w, q) => OrderRead(w, q) /\ po[q].status # "NONE"
    BY <1>5 DEF OnOrder, OrderRead, Purchase!StartReceive, Purchase!Receivable
  <2>3. FitsDebt(w) /\ Purchase!Begin(s, w)
    BY <1>5 DEF FitsDebt, Purchase!StartReceive
  <2>. QED
    BY <2>1, <2>2, <2>3, PurchaseBegins
<1>. QED
  BY <1>1, <1>2, <1>3, <1>4, <1>5

LEMMA SupplierStartsKeep ==
  ASSUME PurchaseInv, NEW s \in Sessions, NEW kind \in {"balance", "credit"},
         NEW n \in 1..MaxBalance, Purchase!StartSupplierLevel(s, kind, n)
  PROVE  PurchaseInv'
<1>. DEFINE w == [pc |-> kind, amount |-> n]
<1>1. w \in Purchase!SessionState /\ w # Purchase!Idle
  BY DEF Purchase!SessionState, Purchase!Idle
<1>2. \A q \in Orders : ~OnOrder(w, q)
  BY DEF OnOrder
<1>3. FitsDebt(w) /\ Purchase!Begin(s, w)
  BY DEF FitsDebt, Purchase!StartSupplierLevel, Purchase!WithinDebt
<1>. QED
  BY <1>1, <1>2, <1>3, PurchaseBegins

LEMMA PurchaseCrashKeeps ==
  ASSUME PurchaseInv, NEW s \in Sessions, Purchase!Crash(s)
  PROVE  PurchaseInv'
<1>1. /\ h[s] # Purchase!Idle /\ Purchase!Run(s, Purchase!Idle)
      /\ UNCHANGED <<po, paid, balancePaid, returned, arrived, amends, crossed, touched, loose>>
  BY DEF Purchase!Crash
<1>2. Purchase!TypeOK'
  BY <1>1, PurchaseRests DEF PurchaseInv, Purchase!TypeOK
<1>3. ASSUME ~loose PROVE DebtFits'
  <2>1. DebtFits
    BY <1>3 DEF PurchaseInv
  <2>2. Solvent'
    BY <1>1, <2>1, DebtStands DEF DebtFits, Solvent
  <2>. QED
    BY <1>1, <1>3, <2>1, <2>2, PurchaseRests, RestingDebtFits DEF DebtFits
<1>. QED
  BY <1>1, <1>2, <1>3, OrdersStand DEF PurchaseInv

LEMMA PurchaseStepKeeps == PurchaseInv /\ [Purchase!Next]_Purchase!vars => PurchaseInv'
<1>. SUFFICES ASSUME PurchaseInv, [Purchase!Next]_Purchase!vars PROVE PurchaseInv'
  OBVIOUS
<1>1. CASE UNCHANGED Purchase!vars
  <2>1. UNCHANGED <<po, paid, balancePaid, returned, arrived, h, amends, crossed, touched, loose>>
    BY <1>1 DEF Purchase!vars
  <2>2. Purchase!TypeOK' /\ OrderReads' /\ OneOnOrder' /\ NewIsUnread'
    BY <2>1 DEF PurchaseInv, Purchase!TypeOK, OrderReads, OrderRead, OnOrder, OneOnOrder, NewIsUnread
  <2>3. Purchase!PaymentsFitOrders' /\ Purchase!BoxesLandOnce'
    BY <2>1 DEF PurchaseInv, Purchase!PaymentsFitOrders, Purchase!BoxesLandOnce, Purchase!Exists
  <2>4. loose' \/ DebtFits'
    BY <2>1, DebtStands DEF PurchaseInv, DebtFits, FitsDebt, Solvent
  <2>. QED
    BY <2>2, <2>3, <2>4 DEF PurchaseInv
<1>2. ASSUME NEW s \in Sessions, Purchase!Session(s) PROVE PurchaseInv'
  BY <1>2, PurchaseStartsKeep, SupplierStartsKeep, PaySupplierKeeps, SupplierLevelKeeps,
     UpdateKeeps, DeleteKeeps, ReceiveKeeps, PurchaseCrashKeeps
  DEF Purchase!Session
<1>. QED
  BY <1>1, <1>2, CreateOrderKeeps, AmendKeeps DEF Purchase!Next

(* A step of the desks is a step of the purchases or leaves them alone. *)
LEMMA DeskStepsPurchases ==
  [DeskNext]_<<vars, goodsVars, people, tradeVars>> => [Purchase!Next]_Purchase!vars
BY DEF DeskNext, goodsVars, purchaseVars, Purchase!vars

(* What the pages of the purchases need: the orders on the way have not    *)
(* landed, and the sums they add up differently are the same.              *)
LEMMA PurchasePagesAgree == PurchaseInv => Purchase!PagesAgree
<1>. SUFFICES ASSUME PurchaseInv PROVE Purchase!PagesAgree
  OBVIOUS
<1>. DEFINE S == Purchase!Owing
            bought == [o \in S |-> po[o].cost]
            given == [o \in S |-> paid[o]]
            way == Purchase!OnTheWay.orders
<1>0. Purchase!TypeOK /\ DebtIsSum
  BY OutstandingIsSum DEF PurchaseInv
<1>1. IsFiniteSet(S) /\ bought \in [S -> Nat] /\ given \in [S -> Nat] /\ Left \in [S -> Int]
  BY <1>0 DEF DebtIsSum, Purchase!Owing, Purchase!TypeOK
<1>2. SumFunction(bought) = SumFunction(Left) + SumFunction(given)
  <2>1. bought = [o \in S |-> Left[o] + given[o]]
    <3>1. \A o \in S : po[o].cost = Left[o] + given[o]
      BY <1>0 DEF Left, Purchase!Owing, Purchase!TypeOK
    <3>. QED
      BY <3>1
  <2>. HIDE DEF S, bought, given
  <2>. QED
    BY <1>1, <2>1, SumOfSums
<1>3. SumFunction(bought) \in Nat /\ SumFunction(given) \in Nat
  <2>. HIDE DEF S, bought, given
  <2>. QED
    BY <1>1, SumFunctionIsNat
<1>4. \A o \in Orders :
        /\ Purchase!RowOffered(o) = Purchase!OrderOffered(o)
        /\ "receive" \in Purchase!OrderOffered(o) <=> Purchase!Receivable(o)
        /\ "delete" \in Purchase!OrderOffered(o) /\ o \notin crossed => arrived[o] = 0
        /\ Purchase!PayOrderForm(o) = {n \in Purchase!Amounts : Purchase!Payable(o, n)}
        /\ o \in way \ crossed => arrived[o] = 0
  <2>. SUFFICES ASSUME NEW o \in Orders
                PROVE  /\ Purchase!RowOffered(o) = Purchase!OrderOffered(o)
                       /\ "receive" \in Purchase!OrderOffered(o) <=> Purchase!Receivable(o)
                       /\ "delete" \in Purchase!OrderOffered(o) /\ o \notin crossed => arrived[o] = 0
                       /\ Purchase!PayOrderForm(o) = {n \in Purchase!Amounts : Purchase!Payable(o, n)}
                       /\ o \in way \ crossed => arrived[o] = 0
    OBVIOUS
  <2>1. Purchase!RowOffered(o) = Purchase!OrderOffered(o)
    BY DEF Purchase!RowOffered, Purchase!OrderOffered
  <2>2. "receive" \in Purchase!OrderOffered(o) <=> Purchase!Receivable(o)
    BY DEF Purchase!OrderOffered, Purchase!Receivable, Purchase!Exists
  <2>3. po[o].status = "OPEN" /\ o \notin crossed => arrived[o] = 0
    <3>. SUFFICES ASSUME po[o].status = "OPEN", o \notin crossed PROVE arrived[o] = 0
      OBVIOUS
    <3>1. arrived[o] <= 1 /\ arrived[o] # 1
      BY DEF PurchaseInv, Purchase!BoxesLandOnce
    <3>2. arrived[o] \in Nat
      BY <1>0 DEF Purchase!TypeOK
    <3>. QED
      BY <3>1, <3>2
  <2>4. "delete" \in Purchase!OrderOffered(o) => po[o].status = "OPEN"
    BY DEF Purchase!OrderOffered, Purchase!Exists
  <2>5. o \in way => po[o].status = "OPEN"
    BY DEF Purchase!OnTheWay
  <2>6. ASSUME NEW n \in Purchase!Amounts
        PROVE  Purchase!PayOffered(o) /\ n <= Purchase!OrderLeft(o) <=> Purchase!Payable(o, n)
    <3>1. n \in Nat /\ n > 0 /\ po[o].cost \in Nat /\ paid[o] \in Nat
      BY <1>0, <2>6, DeskAssumption DEF DeskAssumption, Purchase!Amounts, Purchase!TypeOK
    <3>2. o \in Purchase!Owing <=> Purchase!Exists(o) /\ po[o].status # "CANCELLED"
      BY DEF Purchase!Owing, Purchase!Exists
    <3>. QED
      BY <3>1, <3>2 DEF Purchase!PayOffered, Purchase!OrderLeft, Purchase!Payable
  <2>7. Purchase!PayOrderForm(o) = {n \in Purchase!Amounts : Purchase!Payable(o, n)}
    BY <2>6 DEF Purchase!PayOrderForm
  <2>. QED
    BY <2>1, <2>2, <2>3, <2>4, <2>5, <2>7
<1>5. \A total \in Purchase!Costs : Purchase!NewPurchaseForm(total) =
        {n \in {0} \cup Purchase!Amounts : Purchase!AtCounter(total, n)}
  BY DEF Purchase!Costs, Purchase!NewPurchaseForm, Purchase!AtCounter
<1>6. /\ Purchase!SupplierTotals.purchased = SumFunction(bought)
      /\ Purchase!SupplierTotals.returned = returned
      /\ Purchase!SupplierTotals.paid = SumFunction(given) + balancePaid
      /\ Purchase!SupplierTotals.outstanding =
           SumFunction(bought) - returned - (SumFunction(given) + balancePaid)
  BY PurchaseSums DEF Purchase!SupplierTotals
<1>7. Purchase!SupplierRow.outstanding = SumFunction(Left) - returned - balancePaid
  BY PurchaseSums DEF Purchase!SupplierRow, Purchase!OrderLeft, Left
<1>8. Purchase!OnTheWay.value <= SumFunction(bought)
  <2>. DEFINE inside == [o \in way |-> po[o].cost]
  <2>1. way \in SUBSET S /\ \A o \in way : bought[o] = po[o].cost
    BY DEF Purchase!OnTheWay, Purchase!Owing
  <2>2. Purchase!OnTheWay.value = SumFunction(inside)
    BY PurchaseSums DEF Purchase!OnTheWay
  <2>3. \A o \in S : bought[o] \in Nat
    BY <1>1
  <2>4. DOMAIN inside = way /\ \A o \in way : inside[o] = bought[o]
    BY <2>1
  <2>5. DOMAIN bought = S
    OBVIOUS
  <2>. HIDE DEF S, bought, way, inside
  <2>6. SumFunction(inside) = SumFunctionOnSet(bought, way)
    <3>1. IsFiniteSet(way)
      BY <1>1, <2>1, FS_Subset
    <3>. QED
      BY <2>4, <3>1, SumOfSame DEF SumFunction
  <2>7. SumFunction(bought) = SumFunctionOnSet(bought, way) + SumFunctionOnSet(bought, S \ way)
    BY <1>1, <2>1, <2>3, <2>5, SumOfParts DEF SumFunction
  <2>8. SumFunctionOnSet(bought, S \ way) \in Nat /\ SumFunctionOnSet(bought, way) \in Nat
    <3>. DEFINE rest == [o \in S \ way |-> bought[o]]
    <3>1. IsFiniteSet(S \ way) /\ IsFiniteSet(way)
      BY <1>1, <2>1, FS_Subset
    <3>2. SumFunction(rest) = SumFunctionOnSet(bought, S \ way)
      BY <3>1, SumOfSame DEF SumFunction
    <3>3. SumFunction(rest) \in Nat /\ SumFunction(inside) \in Nat
      BY <2>1, <2>3, <2>4, <3>1, SumFunctionIsNat
    <3>. QED
      BY <2>6, <3>2, <3>3
  <2>. QED
    BY <2>2, <2>6, <2>7, <2>8
<1>9. {n \in Purchase!Amounts : Purchase!SupplierTotals.outstanding > 0 /\ n <= Purchase!SupplierTotals.outstanding}
        = {n \in Purchase!Amounts : Purchase!WithinDebt(n)}
  <2>1. Purchase!SupplierTotals.outstanding = Purchase!Outstanding /\ Purchase!Outstanding \in Int
    <3>. HIDE DEF bought, given
    <3>. QED
      BY <1>0, <1>2, <1>3, <1>6 DEF DebtIsSum, Purchase!TypeOK
  <2>2. \A n \in Purchase!Amounts : n \in Int /\ n > 0
    BY DeskAssumption DEF DeskAssumption, Purchase!Amounts
  <2>. QED
    BY <2>1, <2>2 DEF Purchase!WithinDebt
<1>10. /\ Purchase!SupplierRow.outstanding = Purchase!SupplierTotals.outstanding
       /\ Purchase!SupplierTotals.outstanding = Purchase!Outstanding
       /\ Purchase!Billed - Purchase!SupplierTotals.paid = Purchase!SupplierTotals.outstanding
       /\ Purchase!OnTheWay.value <= Purchase!SupplierTotals.purchased
  <2>. HIDE DEF bought, given
  <2>1. SumFunction(Left) \in Int /\ returned \in Int /\ balancePaid \in Int
    BY <1>0 DEF DebtIsSum, Purchase!TypeOK
  <2>2. Purchase!Billed = SumFunction(bought) - returned
    BY <1>6 DEF Purchase!Billed
  <2>. QED
    BY <1>0, <1>2, <1>3, <1>6, <1>7, <1>8, <2>1, <2>2 DEF DebtIsSum
<1>. HIDE DEF S, bought, given
<1>. QED
  BY <1>4, <1>5, <1>9, <1>10 DEF Purchase!PagesAgree, Purchase!PaySupplierForm

(* "Over-payment is blocked", and what the pages of the purchases say: for *)
(* any number of orders and requests, no order is paid above its cost, the *)
(* supplier is not overpaid, boxes land once, unless requests overlapped   *)
(* or somebody corrected the books by hand; and the pages show one debt.   *)
THEOREM PurchasesAlwaysSettle == DeskSpec => []PurchasesSettle
<1>1. DeskInit => PurchaseInv
  BY PurchaseInitInv DEF DeskInit
<1>2. PurchaseInv => PurchasesSettle
  BY PurchasePagesAgree
  DEF PurchaseInv, DebtFits, Solvent, PurchasesSettle, Purchase!SupplierNotOverpaid
<1>. QED
  BY <1>1, <1>2, PurchaseStepKeeps, DeskStepsPurchases, PTL DEF DeskSpec

-----------------------------------------------------------------------------
(* Stock requests and the transfers that fulfil them (Dispatch).           *)

(* A session that works on a request. *)
OnRequest(w, r) == w.pc \in {"edit", "dispatch", "persist", "decline"} /\ w.of = r

(* A row of the transfers is unused, or says where boxes went and is never *)
(* taken back into use.                                                    *)
TransfersMade ==
  \A i \in Stock!Ids :
    /\ transfer[i].status = "NONE" => transfer[i] = Stock!NoTransfer
    /\ transfer[i].status # "NONE" => <<transfer[i].from, transfer[i].to>> \in Stock!Endpoints

(* What a session has read of its request is still so; the boxes of the    *)
(* request have left exactly when the session has moved them.              *)
RequestRead(w, r) ==
  /\ request[r].status = "PENDING"
  /\ w.pc \in {"dispatch", "persist"} => w.edition = request[r].edition
  /\ w.pc = "persist" =>
       /\ Stock!DispatchedFor(r) = {w.transfer}
       /\ transfer[w.transfer].boxes = w.boxes
  /\ w.pc # "persist" => Stock!DispatchedFor(r) = {}
Calm(r) == r \in Requests /\ r \notin contested /\ r \notin cut
RequestReads ==
  \A s \in Sessions, r \in Requests : Calm(r) /\ OnRequest(clerk[s], r) => RequestRead(clerk[s], r)
OneOnRequest ==
  \A s, t \in Sessions, r \in Requests :
    r \notin contested /\ OnRequest(clerk[s], r) /\ OnRequest(clerk[t], r) => s = t

(* With nobody about to write it down, the boxes of a request have left    *)
(* exactly when it is FULFILLED, in the transfer it names.                 *)
Unwritten(r) == \E s \in Sessions : clerk[s].pc = "persist" /\ clerk[s].of = r
FulfilledIsDispatched ==
  \A r \in Requests : Calm(r) /\ ~Unwritten(r) =>
    IF request[r].status = "FULFILLED"
    THEN LET i == request[r].transfer
         IN /\ Stock!DispatchedFor(r) = {i}
            /\ transfer[i].boxes = request[r].boxes
    ELSE Stock!DispatchedFor(r) = {}

(* A reversal under way has found its transfer standing, and still does    *)
(* unless two reversals of it overlapped.                                  *)
ReversalReads ==
  \A s \in Sessions : clerk[s].pc = "reverse" => transfer[clerk[s].of].status # "NONE"
OneReverses ==
  /\ \A s, t \in Sessions :
       clerk[s].pc = "reverse" /\ clerk[t].pc = "reverse" /\ clerk[s].of = clerk[t].of => s = t
  /\ \A s \in Sessions : clerk[s].pc = "reverse" => transfer[clerk[s].of].status = "COMPLETED"

StockTyped == Stock!TypeOK /\ TransfersMade
BookInv == RequestReads /\ OneOnRequest /\ FulfilledIsDispatched
BoxInv == ReversalReads /\ (undoneTwice \/ OneReverses) /\ Stock!BoxesFollowTransfers

RequestInv == StockTyped /\ BookInv /\ BoxInv

LEMMA StockSums == ASSUME NEW f PROVE Stock!SumFunction(f) = SumFunction(f)
BY Zenon DEF Stock!SumFunction, Stock!SumFunctionOnSet, Stock!FoldFunctionOnSet,
  Stock!MapThenFoldSet, SumFunction, SumFunctionOnSet, FoldFunctionOnSet, MapThenFoldSet

(* What a session holds, by the statement it is at. *)
LEMMA ClerkWork ==
  ASSUME NEW w \in Stock!SessionState
  PROVE  /\ w = Stock!Idle <=> w.pc = "idle"
         /\ w.pc \in {"idle", "edit", "dispatch", "persist", "decline", "reverse"}
         /\ w.pc \in {"edit", "dispatch", "persist", "decline"} => w.of \in Requests
         /\ w.pc \in {"edit", "dispatch", "persist"} => w.boxes \in Nat
         /\ w.pc \in {"dispatch", "persist"} => w.edition \in Nat
         /\ w.pc = "persist" => w.transfer \in Stock!Ids
         /\ w.pc = "decline" => w.to \in {"REJECTED", "CANCELLED"}
         /\ w.pc = "reverse" => w.of \in Stock!Ids
<1>1. CASE w = Stock!Idle
  BY <1>1 DEF Stock!Idle
<1>2. CASE w \in [pc : {"edit"}, of : Requests, boxes : Nat]
  BY <1>2 DEF Stock!Idle
<1>3. CASE w \in [pc : {"dispatch"}, of : Requests, boxes : Nat, edition : Nat]
  BY <1>3 DEF Stock!Idle
<1>4. CASE w \in [pc : {"persist"}, of : Requests, boxes : Nat, edition : Nat, transfer : Stock!Ids]
  BY <1>4 DEF Stock!Idle
<1>5. CASE w \in [pc : {"decline"}, of : Requests, to : {"REJECTED", "CANCELLED"}]
  BY <1>5 DEF Stock!Idle
<1>6. CASE w \in [pc : {"reverse"}, of : Stock!Ids]
  BY <1>6 DEF Stock!Idle
<1>. QED
  BY <1>1, <1>2, <1>3, <1>4, <1>5, <1>6 DEF Stock!SessionState

(* What one transfer adds to what was carried between places. *)
Share(row, from, to) ==
  IF row.status = "COMPLETED" /\ row.from \in from /\ row.to \in to THEN row.boxes ELSE 0
(* The boxes of the transfers that stand. *)
Load(from, to) ==
  [i \in {i \in Stock!Ids : /\ transfer[i].status = "COMPLETED"
                            /\ transfer[i].from \in from /\ transfer[i].to \in to}
     |-> transfer[i].boxes]

CarriedSums == \A from, to : Stock!Carried(from, to) = SumFunction(Load(from, to))

LEMMA CarriedIsSum == CarriedSums
BY StockSums DEF CarriedSums, Stock!Carried, Load

(* What was carried changes by what one transfer carries before and after. *)
LEMMA CarriedChanges ==
  ASSUME Stock!TypeOK, \A j \in Stock!Ids : transfer'[j].boxes \in Nat, NEW i \in Stock!Ids, NEW from, NEW to,
         \A j \in Stock!Ids : j # i => transfer'[j] = transfer[j]
  PROVE  /\ Stock!Carried(from, to) \in Int
         /\ Stock!Carried(from, to)' =
              Stock!Carried(from, to) - Share(transfer[i], from, to) + Share(transfer'[i], from, to)
<1>. DEFINE f == Load(from, to)
            g == Load(from, to)'
<1>0. MaxTransfers \in Int
  BY DeskAssumption DEF DeskAssumption
<1>1. IsFiniteSet(Stock!Ids)
  BY <1>0, FS_Interval DEF Stock!Ids
<1>2. DOMAIN f \subseteq Stock!Ids /\ DOMAIN g \subseteq Stock!Ids
  BY DEF Load
<1>3. IsFiniteSet(DOMAIN f)
  BY <1>1, <1>2, FS_Subset
<1>4. \A j \in DOMAIN f : f[j] \in Int
  BY DEF Load, Stock!TypeOK
<1>5. \A j \in DOMAIN g : g[j] \in Int
  BY DEF Load, Stock!TypeOK
<1>6. DOMAIN f \ {i} = DOMAIN g \ {i}
  BY DEF Load
<1>7. \A j \in DOMAIN f \ {i} : g[j] = f[j]
  BY <1>6 DEF Load
<1>8. ValueAt(f, i) = Share(transfer[i], from, to)
  BY DEF ValueAt, Share, Load
<1>9. ValueAt(g, i) = Share(transfer'[i], from, to)
  BY DEF ValueAt, Share, Load
<1>10. SumFunction(f)' = SumFunction(g)
  BY DEF SumFunction
<1>11. Stock!Carried(from, to)' = SumFunction(g)
  <2>1. CarriedSums'
    BY CarriedIsSum, PTL
  <2>. QED
    BY <1>10, <2>1 DEF CarriedSums
<1>12. Stock!Carried(from, to) = SumFunction(f)
  BY CarriedIsSum DEF CarriedSums
<1>. HIDE DEF f, g
<1>13. SumFunction(g) = SumFunction(f) - ValueAt(f, i) + ValueAt(g, i)
  BY <1>3, <1>4, <1>5, <1>6, <1>7, SumDiffersAt
<1>14. SumFunction(f) \in Int
  BY <1>3, <1>4, SumFunctionIsInt
<1>. QED
  BY <1>8, <1>9, <1>11, <1>12, <1>13, <1>14

(* The boxes a place should hold. *)
Due(p) ==
  (IF p = "shelf" THEN OnShelf ELSE 0) + Stock!Carried(Stock!Places, {p})
  - Stock!Carried({p}, Stock!Places) - (IF p = "rep" THEN sold ELSE 0)

(* A transfer that appears, or is taken back, moves its boxes once. *)
LEMMA BoxesFollowMove ==
  ASSUME Stock!TypeOK, \A j \in Stock!Ids : transfer'[j].boxes \in Nat, NEW i \in Stock!Ids,
         NEW from \in Stock!Places, NEW to \in Stock!Places, from # to, NEW n \in Nat,
         \A j \in Stock!Ids : j # i => transfer'[j] = transfer[j],
         boxes' = [boxes EXCEPT ![from] = @ - n, ![to] = @ + n], sold' = sold,
         \/ /\ transfer[i].status = "NONE" /\ transfer'[i].status = "COMPLETED"
            /\ transfer'[i].from = from /\ transfer'[i].to = to /\ transfer'[i].boxes = n
         \/ /\ transfer[i].status = "COMPLETED" /\ transfer'[i].status = "CANCELLED"
            /\ transfer[i].from = to /\ transfer[i].to = from /\ transfer[i].boxes = n,
         \A p \in Stock!Places : boxes[p] = Due(p)
  PROVE  Stock!BoxesFollowTransfers'
<1>. SUFFICES ASSUME NEW p \in Stock!Places PROVE boxes'[p] = Due(p)'
  BY DEF Stock!BoxesFollowTransfers, Due
<1>1. /\ boxes'[from] = boxes[from] - n /\ boxes'[to] = boxes[to] + n
      /\ p # from /\ p # to => boxes'[p] = boxes[p]
      /\ boxes[p] \in Int /\ boxes[from] \in Int /\ boxes[to] \in Int
  BY DEF Stock!TypeOK
<1>. DEFINE In == Stock!Carried(Stock!Places, {p})
            Out == Stock!Carried({p}, Stock!Places)
<1>2. /\ In \in Int
      /\ In' = In - Share(transfer[i], Stock!Places, {p}) + Share(transfer'[i], Stock!Places, {p})
  BY CarriedChanges
<1>3. /\ Out \in Int
      /\ Out' = Out - Share(transfer[i], {p}, Stock!Places) + Share(transfer'[i], {p}, Stock!Places)
  BY CarriedChanges
<1>4. /\ Share(transfer[i], Stock!Places, {p}) \in Int /\ Share(transfer'[i], Stock!Places, {p}) \in Int
      /\ Share(transfer[i], {p}, Stock!Places) \in Int /\ Share(transfer'[i], {p}, Stock!Places) \in Int
  BY DEF Share, Stock!TypeOK
<1>5. (Share(transfer'[i], Stock!Places, {p}) - Share(transfer[i], Stock!Places, {p}))
        - (Share(transfer'[i], {p}, Stock!Places) - Share(transfer[i], {p}, Stock!Places))
      = (IF p = to THEN n ELSE 0) - (IF p = from THEN n ELSE 0)
  <2>1. CASE transfer[i].status = "NONE"
    <3>1. /\ Share(transfer[i], Stock!Places, {p}) = 0 /\ Share(transfer[i], {p}, Stock!Places) = 0
          /\ Share(transfer'[i], Stock!Places, {p}) = (IF p = to THEN n ELSE 0)
          /\ Share(transfer'[i], {p}, Stock!Places) = (IF p = from THEN n ELSE 0)
      BY <2>1 DEF Share
    <3>. QED
      BY <3>1
  <2>2. CASE transfer[i].status = "COMPLETED"
    <3>1. /\ Share(transfer'[i], Stock!Places, {p}) = 0 /\ Share(transfer'[i], {p}, Stock!Places) = 0
          /\ Share(transfer[i], Stock!Places, {p}) = (IF p = from THEN n ELSE 0)
          /\ Share(transfer[i], {p}, Stock!Places) = (IF p = to THEN n ELSE 0)
      BY <2>2 DEF Share
    <3>. QED
      BY <3>1
  <2>. QED
    BY <2>1, <2>2
<1>6. boxes'[p] = boxes[p] + ((IF p = to THEN n ELSE 0) - (IF p = from THEN n ELSE 0))
  <2>1. CASE p = from
    BY <1>1, <2>1
  <2>2. CASE p = to
    BY <1>1, <2>2
  <2>3. CASE p # from /\ p # to
    BY <1>1, <2>3
  <2>. QED
    BY <2>1, <2>2, <2>3
<1>7. In' - Out' = In - Out + ((IF p = to THEN n ELSE 0) - (IF p = from THEN n ELSE 0)) /\ In' \in Int /\ Out' \in Int
  <2>. HIDE DEF In, Out
  <2>. QED
    BY <1>2, <1>3, <1>4, <1>5
<1>8. boxes[p] = (IF p = "shelf" THEN OnShelf ELSE 0) + In - Out - (IF p = "rep" THEN sold ELSE 0)
  BY DEF Due
<1>9. Due(p)' = (IF p = "shelf" THEN OnShelf ELSE 0) + In' - Out' - (IF p = "rep" THEN sold ELSE 0)
  BY DEF Due
<1>10. OnShelf \in Int /\ sold \in Int
  BY DeskAssumption DEF DeskAssumption, Stock!TypeOK
<1>. HIDE DEF In, Out
<1>. QED
  BY <1>1, <1>2, <1>3, <1>6, <1>7, <1>8, <1>9, <1>10

(* The rows that moved the boxes of requests are as they were. *)
DispatchesStand ==
  /\ \A q \in Requests : Stock!DispatchedFor(q)' = Stock!DispatchedFor(q)
  /\ \A i \in Stock!Ids : transfer[i].for \in Requests => transfer'[i].boxes = transfer[i].boxes

(* Reading a request, and what was read of it, take only its row and the   *)
(* transfers that moved its boxes.                                         *)
LEMMA ReadStands ==
  ASSUME StockTyped, DispatchesStand, NEW r \in Requests, request'[r] = request[r],
         NEW w \in Stock!SessionState, RequestRead(w, r)
  PROVE  /\ request'[r].status = "PENDING"
         /\ w.pc \in {"dispatch", "persist"} => w.edition = request'[r].edition
         /\ w.pc = "persist" =>
              /\ Stock!DispatchedFor(r)' = {w.transfer}
              /\ transfer'[w.transfer].boxes = w.boxes
         /\ w.pc # "persist" => Stock!DispatchedFor(r)' = {}
<1>1. w.pc = "persist" => w.transfer \in Stock!Ids /\ transfer[w.transfer].for = r
  BY DEF RequestRead, Stock!DispatchedFor
<1>. QED
  BY <1>1 DEF RequestRead, DispatchesStand

(* A step that does not touch the requests, nor the sessions at work on    *)
(* them.                                                                   *)
LEMMA BookStands ==
  ASSUME StockTyped, BookInv, DispatchesStand, request' = request,
         contested \subseteq contested', cut \subseteq cut',
         \A t \in Sessions, q \in Requests : OnRequest(clerk'[t], q) => clerk'[t] = clerk[t],
         \A t \in Sessions : clerk[t].pc = "persist" /\ clerk[t].of \notin cut' => clerk'[t] = clerk[t]
  PROVE  BookInv'
<1>1. \A q \in Requests : Calm(q)' => Calm(q)
  BY DEF Calm
<1>2. RequestReads'
  <2>. SUFFICES ASSUME NEW t \in Sessions, NEW q \in Requests, Calm(q)', OnRequest(clerk'[t], q)
                PROVE  RequestRead(clerk[t], q)'
    BY DEF RequestReads, OnRequest
  <2>1. clerk'[t] = clerk[t] /\ clerk[t] \in Stock!SessionState /\ RequestRead(clerk[t], q)
    BY <1>1 DEF BookInv, RequestReads, StockTyped, Stock!TypeOK
  <2>. QED
    BY <2>1, ReadStands DEF RequestRead
<1>3. OneOnRequest'
  <2>. SUFFICES ASSUME NEW s \in Sessions, NEW t \in Sessions, NEW q \in Requests, q \notin contested',
                       OnRequest(clerk'[s], q), OnRequest(clerk'[t], q)
                PROVE  s = t
    BY DEF OneOnRequest, OnRequest
  <2>. QED
    BY DEF BookInv, OneOnRequest
<1>4. FulfilledIsDispatched'
  <2>. SUFFICES ASSUME NEW q \in Requests, Calm(q)', ~Unwritten(q)'
                PROVE  IF request'[q].status = "FULFILLED"
                       THEN /\ Stock!DispatchedFor(q)' = {request'[q].transfer}
                            /\ transfer'[request'[q].transfer].boxes = request'[q].boxes
                       ELSE Stock!DispatchedFor(q)' = {}
    BY DEF FulfilledIsDispatched
  <2>1. Calm(q) /\ ~Unwritten(q)
    <3>1. \A t \in Sessions : ~(clerk'[t].pc = "persist" /\ clerk'[t].of = q)
      BY DEF Unwritten
    <3>. QED
      BY <1>1, <3>1 DEF Unwritten, Calm
  <2>2. Stock!DispatchedFor(q)' = Stock!DispatchedFor(q)
    BY DEF DispatchesStand
  <2>3. CASE request[q].status = "FULFILLED"
    <3>. DEFINE i == request[q].transfer
    <3>1. Stock!DispatchedFor(q) = {i} /\ transfer[i].boxes = request[q].boxes
      BY <2>1, <2>3 DEF BookInv, FulfilledIsDispatched
    <3>2. i \in Stock!Ids /\ transfer[i].for = q
      BY <3>1 DEF Stock!DispatchedFor
    <3>. QED
      BY <2>2, <2>3, <3>1, <3>2 DEF DispatchesStand
  <2>4. CASE request[q].status # "FULFILLED"
    BY <2>1, <2>2, <2>4 DEF BookInv, FulfilledIsDispatched
  <2>. QED
    BY <2>3, <2>4
<1>. QED
  BY <1>2, <1>3, <1>4 DEF BookInv

(* A session that ends its work on a request, and may have written it. *)
LEMMA BookEnds ==
  ASSUME StockTyped, BookInv, NEW s \in Sessions, NEW r \in Requests, OnRequest(clerk[s], r),
         Stock!Run(s, Stock!Idle), transfer' = transfer, contested' = contested, cut \subseteq cut',
         \A q \in Requests : q # r => request'[q] = request[q],
         r \notin contested /\ r \notin cut' =>
           IF request'[r].status = "FULFILLED"
           THEN /\ Stock!DispatchedFor(r) = {request'[r].transfer}
                /\ transfer[request'[r].transfer].boxes = request'[r].boxes
           ELSE Stock!DispatchedFor(r) = {}
  PROVE  BookInv'
<1>1. /\ clerk'[s] = Stock!Idle /\ \A t \in Sessions : t # s => clerk'[t] = clerk[t]
      /\ \A t \in Sessions : clerk[t] \in Stock!SessionState
  BY DEF StockTyped, Stock!TypeOK, Stock!Run
<1>2. \A q \in Requests : Calm(q)' => Calm(q)
  BY DEF Calm
<1>3. \A t \in Sessions, q \in Requests :
        OnRequest(clerk'[t], q) => t # s /\ clerk'[t] = clerk[t] /\ OnRequest(clerk[t], q)
  BY <1>1 DEF OnRequest, Stock!Idle
<1>4. \A q \in Requests : Stock!DispatchedFor(q)' = Stock!DispatchedFor(q)
  BY DEF Stock!DispatchedFor
<1>5. DispatchesStand
  BY <1>4 DEF DispatchesStand
<1>6. RequestReads'
  <2>. SUFFICES ASSUME NEW t \in Sessions, NEW q \in Requests, Calm(q)', OnRequest(clerk'[t], q)
                PROVE  RequestRead(clerk[t], q)'
    BY DEF RequestReads, OnRequest
  <2>1. t # s /\ clerk'[t] = clerk[t] /\ OnRequest(clerk[t], q) /\ Calm(q)
    BY <1>2, <1>3
  <2>2. q # r /\ RequestRead(clerk[t], q)
    BY <2>1 DEF BookInv, OneOnRequest, RequestReads, Calm
  <2>. QED
    BY <1>1, <1>5, <2>1, <2>2, ReadStands DEF RequestRead
<1>7. OneOnRequest'
  <2>. SUFFICES ASSUME NEW p \in Sessions, NEW t \in Sessions, NEW q \in Requests, q \notin contested,
                       OnRequest(clerk'[p], q), OnRequest(clerk'[t], q)
                PROVE  p = t
    BY DEF OneOnRequest, OnRequest
  <2>. QED
    BY <1>3 DEF BookInv, OneOnRequest
<1>8. FulfilledIsDispatched'
  <2>. SUFFICES ASSUME NEW q \in Requests, Calm(q)', ~Unwritten(q)'
                PROVE  IF request'[q].status = "FULFILLED"
                       THEN /\ Stock!DispatchedFor(q) = {request'[q].transfer}
                            /\ transfer[request'[q].transfer].boxes = request'[q].boxes
                       ELSE Stock!DispatchedFor(q) = {}
    BY <1>4 DEF FulfilledIsDispatched
  <2>1. CASE q = r
    BY <2>1 DEF Calm
  <2>2. CASE q # r
    <3>1. ~Unwritten(q)
      <4>1. \A t \in Sessions : ~(clerk'[t].pc = "persist" /\ clerk'[t].of = q)
        BY DEF Unwritten
      <4>. QED
        BY <1>1, <2>2, <4>1 DEF Unwritten, OnRequest
    <3>. QED
      BY <1>2, <2>2, <3>1 DEF BookInv, FulfilledIsDispatched
  <2>. QED
    BY <2>1, <2>2
<1>. QED
  BY <1>6, <1>7, <1>8 DEF BookInv

LEMMA StockInitInv == Stock!Init => RequestInv
<1>. SUFFICES ASSUME Stock!Init PROVE RequestInv
  OBVIOUS
<1>0. OnShelf \in Nat /\ MaxTransfers \in Nat /\ "direct" \notin Requests
  BY DeskAssumption DEF DeskAssumption
<1>1. StockTyped
  BY <1>0 DEF Stock!Init, StockTyped, Stock!TypeOK, TransfersMade, Stock!NoTransfer, Stock!Direct,
     Stock!Places, Stock!SessionState
<1>2. \A s \in Sessions : clerk[s] = Stock!Idle
  BY DEF Stock!Init
<1>3. \A r \in Requests : Stock!DispatchedFor(r) = {}
  BY <1>0 DEF Stock!Init, Stock!DispatchedFor, Stock!NoTransfer, Stock!Direct
<1>4. BookInv
  BY <1>2, <1>3 DEF Stock!Init, BookInv, RequestReads, OneOnRequest, FulfilledIsDispatched,
     OnRequest, Stock!Idle
<1>5. ReversalReads /\ OneReverses
  BY <1>2 DEF ReversalReads, OneReverses, Stock!Idle
<1>6. ASSUME NEW from, NEW to PROVE Stock!Carried(from, to) = 0
  <2>1. DOMAIN Load(from, to) = {}
    BY DEF Load, Stock!Init, Stock!NoTransfer
  <2>2. SumFunction(Load(from, to)) = 0
    BY <2>1, SumFunctionOfNothing
  <2>. QED
    BY <2>2, CarriedIsSum DEF CarriedSums
<1>7. Stock!BoxesFollowTransfers
  BY <1>0, <1>6 DEF Stock!Init, Stock!BoxesFollowTransfers, Stock!Places
<1>. QED
  BY <1>1, <1>4, <1>5, <1>7 DEF RequestInv, BoxInv

(* A step that moves no boxes and starts no reversal. *)
LEMMA BoxesStand ==
  ASSUME BoxInv, UNCHANGED <<transfer, boxes, sold, undoneTwice>>,
         \A t \in Sessions : clerk'[t].pc = "reverse" => clerk'[t] = clerk[t]
  PROVE  BoxInv'
<1>1. ReversalReads' /\ (undoneTwice' \/ OneReverses')
  BY DEF BoxInv, ReversalReads, OneReverses
<1>2. Stock!BoxesFollowTransfers'
  BY DEF BoxInv, Stock!BoxesFollowTransfers, Stock!Carried
<1>. QED
  BY <1>1, <1>2 DEF BoxInv

(* A session that has read a pending request, and nothing else changed. *)
LEMMA RequestBegins ==
  ASSUME RequestInv, NEW s \in Sessions, NEW r \in Requests, NEW w \in Stock!SessionState,
         OnRequest(w, r), w.pc # "persist", Stock!Begin(s, r, w),
         request[r].status = "PENDING", w.pc = "dispatch" => w.edition = request[r].edition
  PROVE  RequestInv'
<1>1. /\ clerk[s] = Stock!Idle /\ clerk' = [clerk EXCEPT ![s] = w]
      /\ clerk'[s] = w /\ \A t \in Sessions : t # s => clerk'[t] = clerk[t]
      /\ \A t \in Sessions : clerk[t] \in Stock!SessionState
  BY DEF RequestInv, StockTyped, Stock!TypeOK, Stock!Begin, Stock!Run
<1>2. UNCHANGED <<request, transfer, boxes, sold, cut, undoneTwice>>
  BY DEF Stock!Begin
<1>3. /\ contested \subseteq contested' /\ contested' \subseteq contested \cup {r}
      /\ r \notin contested' => \A t \in Sessions : ~OnRequest(clerk[t], r)
  BY DEF Stock!Begin, OnRequest, Stock!Idle
<1>4. StockTyped'
  BY <1>1, <1>2, <1>3 DEF RequestInv, StockTyped, Stock!TypeOK, TransfersMade
<1>5. BoxInv'
  BY <1>1, <1>2, BoxesStand DEF RequestInv, OnRequest
<1>6. \A q \in Requests : Stock!DispatchedFor(q)' = Stock!DispatchedFor(q) /\ (Calm(q)' => Calm(q))
  BY <1>2, <1>3 DEF Stock!DispatchedFor, Calm
<1>7. \A q \in Requests : Unwritten(q)' <=> Unwritten(q)
  BY <1>1 DEF Unwritten, Stock!Idle, OnRequest
<1>8. RequestReads'
  <2>. SUFFICES ASSUME NEW t \in Sessions, NEW q \in Requests, Calm(q)', OnRequest(clerk'[t], q)
                PROVE  RequestRead(clerk[t], q)'
    BY DEF RequestReads, OnRequest
  <2>1. CASE t = s
    <3>1. q = r /\ r \notin contested' /\ Calm(r)
      BY <1>1, <1>6, <2>1 DEF OnRequest, Calm
    <3>2. ~Unwritten(r)
      BY <1>3, <3>1 DEF Unwritten, OnRequest
    <3>3. Stock!DispatchedFor(r) = {}
      BY <3>1, <3>2 DEF RequestInv, BookInv, FulfilledIsDispatched
    <3>. QED
      BY <1>1, <1>2, <1>6, <2>1, <3>1, <3>3 DEF RequestRead
  <2>2. CASE t # s
    <3>1. clerk'[t] = clerk[t] /\ RequestRead(clerk[t], q)
      BY <1>1, <1>6, <2>2 DEF RequestInv, BookInv, RequestReads
    <3>. QED
      BY <1>2, <1>6, <3>1 DEF RequestRead
  <2>. QED
    BY <2>1, <2>2
<1>9. OneOnRequest'
  <2>. SUFFICES ASSUME NEW p \in Sessions, NEW t \in Sessions, NEW q \in Requests, q \notin contested',
                       OnRequest(clerk'[p], q), OnRequest(clerk'[t], q)
                PROVE  p = t
    BY DEF OneOnRequest, OnRequest
  <2>1. CASE p # s /\ t # s
    BY <1>1, <1>3, <2>1 DEF RequestInv, BookInv, OneOnRequest
  <2>2. CASE p = s /\ t # s
    BY <1>1, <1>3, <2>2 DEF OnRequest
  <2>3. CASE p # s /\ t = s
    BY <1>1, <1>3, <2>3 DEF OnRequest
  <2>. QED
    BY <2>1, <2>2, <2>3
<1>10. FulfilledIsDispatched'
  <2>. SUFFICES ASSUME NEW q \in Requests, Calm(q)', ~Unwritten(q)'
                PROVE  IF request[q].status = "FULFILLED"
                       THEN /\ Stock!DispatchedFor(q) = {request[q].transfer}
                            /\ transfer[request[q].transfer].boxes = request[q].boxes
                       ELSE Stock!DispatchedFor(q) = {}
    BY <1>2, <1>6 DEF FulfilledIsDispatched
  <2>. QED
    BY <1>6, <1>7 DEF RequestInv, BookInv, FulfilledIsDispatched
<1>. QED
  BY <1>4, <1>5, <1>8, <1>9, <1>10 DEF RequestInv, BookInv

LEMMA RequestStartsKeep ==
  ASSUME RequestInv, NEW s \in Sessions, NEW r \in Requests,
         \/ \E n \in Stock!Quantities : Stock!StartEdit(s, r, n) \/ Stock!StartApprove(s, r, n)
         \/ \E status \in {"REJECTED", "CANCELLED"} : Stock!StartDecline(s, r, status)
  PROVE  RequestInv'
<1>0. request[r].edition \in Nat /\ \A n \in Stock!Quantities : n \in Nat
  BY DeskAssumption DEF DeskAssumption, RequestInv, StockTyped, Stock!TypeOK, Stock!Quantities
<1>1. ASSUME NEW n \in Stock!Quantities, Stock!StartEdit(s, r, n) PROVE RequestInv'
  <2>. DEFINE w == [pc |-> "edit", of |-> r, boxes |-> n]
  <2>1. w \in Stock!SessionState /\ OnRequest(w, r) /\ w.pc = "edit"
    BY <1>0 DEF Stock!SessionState, OnRequest
  <2>2. Stock!Begin(s, r, w) /\ request[r].status = "PENDING"
    BY <1>1 DEF Stock!StartEdit
  <2>. HIDE DEF w
  <2>. QED
    BY <2>1, <2>2, RequestBegins
<1>2. ASSUME NEW n \in Stock!Quantities, Stock!StartApprove(s, r, n) PROVE RequestInv'
  <2>. DEFINE w == [pc |-> "dispatch", of |-> r, boxes |-> n, edition |-> request[r].edition]
  <2>1. w \in Stock!SessionState /\ OnRequest(w, r) /\ w.pc = "dispatch" /\ w.edition = request[r].edition
    BY <1>0 DEF Stock!SessionState, OnRequest
  <2>2. Stock!Begin(s, r, w) /\ request[r].status = "PENDING"
    BY <1>2 DEF Stock!StartApprove, Stock!Approvable
  <2>. HIDE DEF w
  <2>. QED
    BY <2>1, <2>2, RequestBegins
<1>3. ASSUME NEW status \in {"REJECTED", "CANCELLED"}, Stock!StartDecline(s, r, status) PROVE RequestInv'
  <2>. DEFINE w == [pc |-> "decline", of |-> r, to |-> status]
  <2>1. w \in Stock!SessionState /\ OnRequest(w, r) /\ w.pc = "decline"
    BY DEF Stock!SessionState, OnRequest
  <2>2. Stock!Begin(s, r, w) /\ request[r].status = "PENDING"
    BY <1>3 DEF Stock!StartDecline
  <2>. HIDE DEF w
  <2>. QED
    BY <2>1, <2>2, RequestBegins
<1>. QED
  BY <1>1, <1>2, <1>3

(* A session at rest is again in its type, and no reversal started. *)
LEMMA ClerkRests ==
  ASSUME StockTyped, NEW s \in Sessions, Stock!Run(s, Stock!Idle)
  PROVE  /\ clerk' \in [Sessions -> Stock!SessionState] /\ clerk'[s] = Stock!Idle
         /\ \A t \in Sessions : t # s => clerk'[t] = clerk[t]
         /\ \A t \in Sessions : clerk'[t].pc = "reverse" => clerk'[t] = clerk[t]
<1>1. Stock!Idle \in Stock!SessionState /\ Stock!Idle.pc = "idle"
  BY DEF Stock!SessionState, Stock!Idle
<1>. QED
  BY <1>1 DEF StockTyped, Stock!TypeOK, Stock!Run

(* A session that ends its work on a request it may have written. *)
LEMMA RequestEnds ==
  ASSUME RequestInv, NEW s \in Sessions,
         \/ Stock!Edit(s) \/ Stock!DispatchRefused(s) \/ Stock!Persist(s) \/ Stock!Decline(s)
         \/ Stock!Crash(s) /\ clerk[s].pc # "reverse"
  PROVE  RequestInv'
<1>. DEFINE r == clerk[s].of
            w == clerk[s]
<1>0. StockTyped /\ BookInv /\ BoxInv /\ w \in Stock!SessionState
  BY DEF RequestInv, StockTyped, Stock!TypeOK
<1>1. /\ Stock!Run(s, Stock!Idle) /\ UNCHANGED <<transfer, boxes, sold, contested, undoneTwice>>
      /\ w.pc \in {"edit", "dispatch", "persist", "decline"}
  BY <1>0, ClerkWork DEF Stock!Edit, Stock!DispatchRefused, Stock!Persist, Stock!Decline, Stock!Crash
<1>2. r \in Requests /\ OnRequest(w, r)
  BY <1>0, <1>1, ClerkWork DEF OnRequest
<1>3. r \notin contested /\ r \notin cut => RequestRead(w, r)
  BY <1>0, <1>2 DEF BookInv, RequestReads, Calm
<1>. HIDE DEF r, w
<1>4. CASE Stock!Edit(s)
  <2>1. /\ w.pc = "edit" /\ cut' = cut
        /\ \/ request' = [request EXCEPT ![r].boxes = w.boxes, ![r].edition = @ + 1]
           \/ request' = request
    BY <1>4 DEF Stock!Edit, r, w
  <2>2. /\ request'[r].status = request[r].status /\ \A q \in Requests : q # r => request'[q] = request[q]
        /\ request' \in [Requests ->
             [status : {"NONE", "PENDING", "FULFILLED", "REJECTED", "CANCELLED"},
              boxes : Nat, edition : Nat, transfer : Stock!Ids \cup {0}]]
    <3>1. w.boxes \in Nat
      BY <1>0, <2>1, ClerkWork DEF w
    <3>. QED
      BY <1>0, <1>2, <2>1, <3>1 DEF StockTyped, Stock!TypeOK
  <2>3. BookInv'
    <3>1. r \notin contested /\ r \notin cut =>
            request'[r].status # "FULFILLED" /\ Stock!DispatchedFor(r) = {}
      BY <1>3, <2>1, <2>2 DEF RequestRead
    <3>. QED
      BY <1>0, <1>1, <1>2, <2>1, <2>2, <3>1, BookEnds DEF w
  <2>4. StockTyped'
    BY <1>0, <1>1, <2>1, <2>2, ClerkRests DEF StockTyped, Stock!TypeOK, TransfersMade
  <2>. QED
    BY <1>0, <1>1, <2>3, <2>4, ClerkRests, BoxesStand DEF RequestInv
<1>5. CASE Stock!DispatchRefused(s)
  <2>1. w.pc = "dispatch" /\ cut' = cut /\ request' = request
    BY <1>5 DEF Stock!DispatchRefused, w
  <2>3. BookInv'
    <3>1. r \notin contested /\ r \notin cut =>
            request'[r].status # "FULFILLED" /\ Stock!DispatchedFor(r) = {}
      BY <1>3, <2>1 DEF RequestRead
    <3>. QED
      BY <1>0, <1>1, <1>2, <2>1, <3>1, BookEnds DEF w
  <2>4. StockTyped'
    BY <1>0, <1>1, <2>1, ClerkRests DEF StockTyped, Stock!TypeOK, TransfersMade
  <2>. QED
    BY <1>0, <1>1, <2>3, <2>4, ClerkRests, BoxesStand DEF RequestInv
<1>6. CASE Stock!Decline(s)
  <2>1. w.pc = "decline" /\ cut' = cut /\ request' = [request EXCEPT ![r].status = w.to]
        /\ w.to \in {"REJECTED", "CANCELLED"}
    BY <1>0, <1>6, ClerkWork DEF Stock!Decline, r, w
  <2>2. /\ request'[r].status = w.to /\ \A q \in Requests : q # r => request'[q] = request[q]
        /\ request' \in [Requests ->
             [status : {"NONE", "PENDING", "FULFILLED", "REJECTED", "CANCELLED"},
              boxes : Nat, edition : Nat, transfer : Stock!Ids \cup {0}]]
    BY <1>0, <1>2, <2>1 DEF StockTyped, Stock!TypeOK
  <2>3. BookInv'
    <3>1. r \notin contested /\ r \notin cut =>
            request'[r].status # "FULFILLED" /\ Stock!DispatchedFor(r) = {}
      BY <1>3, <2>1, <2>2 DEF RequestRead
    <3>. QED
      BY <1>0, <1>1, <1>2, <2>1, <2>2, <3>1, BookEnds DEF w
  <2>4. StockTyped'
    BY <1>0, <1>1, <2>1, <2>2, ClerkRests DEF StockTyped, Stock!TypeOK, TransfersMade
  <2>. QED
    BY <1>0, <1>1, <2>3, <2>4, ClerkRests, BoxesStand DEF RequestInv
<1>7. CASE Stock!Persist(s)
  <2>1. /\ w.pc = "persist"
        /\ IF request[r].edition = w.edition
           THEN /\ request' = [request EXCEPT ![r].status = "FULFILLED", ![r].boxes = w.boxes,
                                              ![r].transfer = w.transfer]
                /\ cut' = cut
           ELSE request' = request /\ cut' = cut \cup {r}
    BY <1>7 DEF Stock!Persist, r, w
  <2>2. w.boxes \in Nat /\ w.transfer \in Stock!Ids
    BY <1>0, <2>1, ClerkWork
  <2>3. CASE request[r].edition = w.edition
    <3>. DEFINE Row == [status : {"NONE", "PENDING", "FULFILLED", "REJECTED", "CANCELLED"},
                        boxes : Nat, edition : Nat, transfer : Stock!Ids \cup {0}]
                row == [request[r] EXCEPT !.status = "FULFILLED", !.boxes = w.boxes,
                                          !.transfer = w.transfer]
    <3>a. request \in [Requests -> Row] /\ request[r] \in Row
      BY <1>0, <1>2 DEF StockTyped, Stock!TypeOK
    <3>b. /\ row \in Row /\ row.status = "FULFILLED" /\ row.boxes = w.boxes
          /\ row.transfer = w.transfer
      BY <2>2, <3>a
    <3>c. request' = [request EXCEPT ![r] = row] /\ cut' = cut
      BY <1>2, <2>1, <2>3, <3>a
    <3>1. /\ request'[r].status = "FULFILLED" /\ request'[r].boxes = w.boxes
          /\ request'[r].transfer = w.transfer /\ cut' = cut
          /\ \A q \in Requests : q # r => request'[q] = request[q]
          /\ request' \in [Requests -> Row]
      <4>. HIDE DEF row, Row
      <4>. QED
        BY <1>2, <3>a, <3>b, <3>c
    <3>2. r \notin contested /\ r \notin cut =>
            /\ Stock!DispatchedFor(r) = {request'[r].transfer}
            /\ transfer[request'[r].transfer].boxes = request'[r].boxes
      BY <1>3, <2>1, <3>1 DEF RequestRead
    <3>3. BookInv'
      BY <1>0, <1>1, <1>2, <3>1, <3>2, BookEnds DEF w
    <3>4. StockTyped'
      BY <1>0, <1>1, <3>1, ClerkRests DEF StockTyped, Stock!TypeOK, TransfersMade
    <3>. QED
      BY <1>0, <1>1, <3>3, <3>4, ClerkRests, BoxesStand DEF RequestInv
  <2>4. CASE request[r].edition # w.edition
    <3>1. request' = request /\ cut' = cut \cup {r}
      BY <2>1, <2>4
    <3>2. BookInv'
      BY <1>0, <1>1, <1>2, <3>1, BookEnds DEF w
    <3>3. StockTyped'
      BY <1>0, <1>1, <1>2, <3>1, ClerkRests DEF StockTyped, Stock!TypeOK, TransfersMade
    <3>. QED
      BY <1>0, <1>1, <3>2, <3>3, ClerkRests, BoxesStand DEF RequestInv
  <2>. QED
    BY <2>3, <2>4
<1>8. CASE Stock!Crash(s)
  <2>1. request' = request /\ cut' = IF w.pc = "persist" THEN cut \cup {r} ELSE cut
    BY <1>8 DEF Stock!Crash, r, w
  <2>2. BookInv'
    <3>1. r \notin contested /\ r \notin cut' =>
            request'[r].status # "FULFILLED" /\ Stock!DispatchedFor(r) = {}
      BY <1>3, <2>1 DEF RequestRead
    <3>2. cut \subseteq cut'
      BY <2>1
    <3>. QED
      BY <1>0, <1>1, <1>2, <2>1, <3>1, <3>2, BookEnds DEF w
  <2>3. StockTyped'
    <3>1. cut' \subseteq Requests
      BY <1>0, <1>2, <2>1 DEF StockTyped, Stock!TypeOK
    <3>. QED
      BY <1>0, <1>1, <2>1, <3>1, ClerkRests DEF StockTyped, Stock!TypeOK, TransfersMade
  <2>. QED
    BY <1>0, <1>1, <2>2, <2>3, ClerkRests, BoxesStand DEF RequestInv
<1>. QED
  BY <1>4, <1>5, <1>6, <1>7, <1>8

(* A request is placed: no boxes have left for it and nobody works on it.  *)
LEMMA PlaceKeeps ==
  ASSUME RequestInv, NEW r \in Requests, NEW n \in Stock!Quantities, Stock!PlaceRequest(r, n)
  PROVE  RequestInv'
<1>0. StockTyped /\ BookInv /\ BoxInv /\ n \in Nat
  BY DeskAssumption DEF DeskAssumption, RequestInv, Stock!Quantities
<1>1. /\ request[r].status = "NONE"
      /\ request' = [request EXCEPT ![r].status = "PENDING", ![r].boxes = n]
      /\ UNCHANGED <<transfer, boxes, sold, clerk, contested, cut, undoneTwice>>
  BY DEF Stock!PlaceRequest
<1>. DEFINE Row == [status : {"NONE", "PENDING", "FULFILLED", "REJECTED", "CANCELLED"},
                    boxes : Nat, edition : Nat, transfer : Stock!Ids \cup {0}]
<1>2. request \in [Requests -> Row]
  BY <1>0 DEF StockTyped, Stock!TypeOK
<1>3. /\ request'[r].status = "PENDING" /\ \A q \in Requests : q # r => request'[q] = request[q]
      /\ request' \in [Requests -> Row]
  BY <1>0, <1>1, <1>2
<1>4. StockTyped'
  BY <1>0, <1>1, <1>3 DEF StockTyped, Stock!TypeOK, TransfersMade
<1>5. BoxInv'
  BY <1>0, <1>1, BoxesStand
<1>6. ASSUME Calm(r), NEW t \in Sessions PROVE ~OnRequest(clerk[t], r)
  BY <1>0, <1>1, <1>6 DEF BookInv, RequestReads, RequestRead
<1>7. Calm(r) => Stock!DispatchedFor(r) = {}
  <2>. SUFFICES ASSUME Calm(r) PROVE Stock!DispatchedFor(r) = {}
    OBVIOUS
  <2>1. ~Unwritten(r)
    BY <1>6 DEF Unwritten, OnRequest
  <2>. QED
    BY <1>0, <1>1, <2>1 DEF BookInv, FulfilledIsDispatched
<1>8. \A q \in Requests : /\ Stock!DispatchedFor(q)' = Stock!DispatchedFor(q)
                          /\ Calm(q)' = Calm(q) /\ Unwritten(q)' = Unwritten(q)
  BY <1>1 DEF Stock!DispatchedFor, Calm, Unwritten
<1>9. RequestReads'
  <2>. SUFFICES ASSUME NEW t \in Sessions, NEW q \in Requests, Calm(q), OnRequest(clerk[t], q)
                PROVE  RequestRead(clerk[t], q)'
    BY <1>1, <1>8 DEF RequestReads, OnRequest, Calm
  <2>1. q # r /\ RequestRead(clerk[t], q)
    BY <1>0, <1>6 DEF BookInv, RequestReads
  <2>. QED
    BY <1>1, <1>3, <1>8, <2>1 DEF RequestRead
<1>10. OneOnRequest'
  BY <1>0, <1>1 DEF BookInv, OneOnRequest, OnRequest
<1>11. FulfilledIsDispatched'
  <2>. SUFFICES ASSUME NEW q \in Requests, Calm(q), ~Unwritten(q)
                PROVE  IF request'[q].status = "FULFILLED"
                       THEN /\ Stock!DispatchedFor(q) = {request'[q].transfer}
                            /\ transfer[request'[q].transfer].boxes = request'[q].boxes
                       ELSE Stock!DispatchedFor(q) = {}
    BY <1>1, <1>8 DEF FulfilledIsDispatched
  <2>1. CASE q = r
    BY <1>3, <1>7, <2>1
  <2>2. CASE q # r
    BY <1>0, <1>3, <2>2 DEF BookInv, FulfilledIsDispatched
  <2>. QED
    BY <2>1, <2>2
<1>. QED
  BY <1>4, <1>5, <1>9, <1>10, <1>11 DEF RequestInv, BookInv

(* The ends of a transfer are two places. *)
LEMMA EndsDiffer ==
  ASSUME NEW from, NEW to, <<from, to>> \in Stock!Endpoints
  PROVE  from \in Stock!Places /\ to \in Stock!Places /\ from # to
BY DEF Stock!Endpoints, Stock!Places

(* A transfer is made: a fresh row, and the boxes with it. *)
LEMMA TransferIsMade ==
  ASSUME StockTyped, BoxInv, NEW i \in Stock!Ids, NEW from, NEW to, <<from, to>> \in Stock!Endpoints,
         NEW n \in Nat, NEW for \in Requests \cup {Stock!Direct},
         Stock!createTransfer(i, from, to, n, for), UNCHANGED <<sold, undoneTwice>>,
         \A t \in Sessions : clerk'[t].pc = "reverse" => clerk'[t] = clerk[t]
  PROVE  /\ boxes' \in [Stock!Places -> Nat] /\ TransfersMade' /\ BoxInv'
         /\ transfer' \in [Stock!Ids -> [status : {"NONE", "COMPLETED", "CANCELLED"},
                                         from : Stock!Places, to : Stock!Places, boxes : Nat,
                                         for : Requests \cup {Stock!Direct}]]
         /\ \A j \in Stock!Ids : j # i => transfer'[j] = transfer[j]
         /\ transfer[i].for = Stock!Direct /\ transfer'[i].for = for /\ transfer'[i].boxes = n
<1>0. from \in Stock!Places /\ to \in Stock!Places /\ from # to
  BY EndsDiffer
<1>. DEFINE row == [status |-> "COMPLETED", from |-> from, to |-> to, boxes |-> n, for |-> for]
            Row == [status : {"NONE", "COMPLETED", "CANCELLED"}, from : Stock!Places,
                    to : Stock!Places, boxes : Nat, for : Requests \cup {Stock!Direct}]
<1>1. /\ transfer[i].status = "NONE" /\ boxes[from] >= n
      /\ boxes' = [boxes EXCEPT ![from] = @ - n, ![to] = @ + n]
      /\ transfer' = [transfer EXCEPT ![i] = row]
  BY DEF Stock!createTransfer, Stock!Move
<1>2. row \in Row /\ transfer \in [Stock!Ids -> Row] /\ boxes \in [Stock!Places -> Nat] /\ sold \in Nat
  BY <1>0 DEF StockTyped, Stock!TypeOK
<1>3. /\ transfer'[i] = row /\ transfer' \in [Stock!Ids -> Row]
      /\ \A j \in Stock!Ids : j # i => transfer'[j] = transfer[j]
  <2>. HIDE DEF row, Row
  <2>. QED
    BY <1>1, <1>2
<1>4. boxes' \in [Stock!Places -> Nat]
  <2>1. boxes[from] \in Nat /\ boxes[to] \in Nat /\ boxes[from] - n \in Nat /\ boxes[to] + n \in Nat
    BY <1>0, <1>1, <1>2
  <2>. QED
    BY <1>1, <1>2, <2>1
<1>5. transfer[i] = Stock!NoTransfer
  BY <1>1 DEF StockTyped, TransfersMade
<1>6. TransfersMade'
  BY <1>3 DEF StockTyped, TransfersMade
<1>7. ReversalReads' /\ (undoneTwice \/ OneReverses')
  <2>1. \A t \in Sessions : clerk'[t].pc = "reverse" =>
          clerk'[t] = clerk[t] /\ clerk[t].of \in Stock!Ids /\ clerk[t].of # i
    BY <1>1, ClerkWork DEF BoxInv, ReversalReads, StockTyped, Stock!TypeOK
  <2>. QED
    BY <1>3, <2>1 DEF BoxInv, ReversalReads, OneReverses
<1>8. Stock!BoxesFollowTransfers'
  <2>1. CASE undoneTwice
    BY <2>1 DEF Stock!BoxesFollowTransfers
  <2>2. CASE ~undoneTwice
    <3>1. \A p \in Stock!Places : boxes[p] = Due(p)
      BY <2>2 DEF BoxInv, Stock!BoxesFollowTransfers, Due
    <3>2. /\ transfer'[i].status = "COMPLETED" /\ transfer'[i].from = from
          /\ transfer'[i].to = to /\ transfer'[i].boxes = n
      BY <1>3
    <3>3. \A j \in Stock!Ids : transfer'[j].boxes \in Nat
      BY <1>3
    <3>. HIDE DEF row, Row
    <3>. QED
      BY <1>0, <1>1, <1>3, <3>1, <3>2, <3>3, BoxesFollowMove DEF StockTyped
  <2>. QED
    BY <2>1, <2>2
<1>. QED
  BY <1>3, <1>4, <1>5, <1>6, <1>7, <1>8 DEF BoxInv, Stock!NoTransfer

LEMMA TransferDirectlyKeeps ==
  ASSUME RequestInv, NEW i \in Stock!Ids, NEW ends \in Stock!Endpoints, NEW n \in Stock!Quantities,
         Stock!TransferDirectly(i, ends[1], ends[2], n)
  PROVE  RequestInv'
<1>0. StockTyped /\ BookInv /\ BoxInv /\ n \in Nat /\ Stock!Direct \notin Requests
  BY DeskAssumption DEF DeskAssumption, RequestInv, Stock!Quantities, Stock!Direct
<1>1. /\ Stock!createTransfer(i, ends[1], ends[2], n, Stock!Direct)
      /\ <<ends[1], ends[2]>> \in Stock!Endpoints
      /\ UNCHANGED <<request, sold, clerk, contested, cut, undoneTwice>>
  BY DEF Stock!TransferDirectly
<1>2. /\ boxes' \in [Stock!Places -> Nat] /\ TransfersMade' /\ BoxInv'
      /\ transfer' \in [Stock!Ids -> [status : {"NONE", "COMPLETED", "CANCELLED"},
                                      from : Stock!Places, to : Stock!Places, boxes : Nat,
                                      for : Requests \cup {Stock!Direct}]]
      /\ \A j \in Stock!Ids : j # i => transfer'[j] = transfer[j]
      /\ transfer[i].for = Stock!Direct /\ transfer'[i].for = Stock!Direct
  BY <1>0, <1>1, TransferIsMade
<1>3. DispatchesStand
  <2>1. \A q \in Requests, j \in Stock!Ids : transfer'[j].for = q <=> transfer[j].for = q
    BY <1>0, <1>2
  <2>2. \A q \in Requests : Stock!DispatchedFor(q)' = Stock!DispatchedFor(q)
    BY <2>1 DEF Stock!DispatchedFor
  <2>. QED
    BY <1>0, <1>2, <2>2 DEF DispatchesStand
<1>4. BookInv'
  BY <1>0, <1>1, <1>3, BookStands
<1>5. StockTyped'
  BY <1>0, <1>1, <1>2 DEF StockTyped, Stock!TypeOK
<1>. QED
  BY <1>2, <1>4, <1>5 DEF RequestInv

(* The boxes of a request leave: what the session carries on to write down.*)
LEMMA DispatchBoxesKeeps ==
  ASSUME RequestInv, NEW s \in Sessions, NEW i \in Stock!Ids, Stock!DispatchBoxes(s, i)
  PROVE  RequestInv'
<1>0. /\ StockTyped /\ BookInv /\ BoxInv /\ Stock!Direct \notin Requests
      /\ clerk \in [Sessions -> Stock!SessionState]
  BY DeskAssumption DEF DeskAssumption, RequestInv, StockTyped, Stock!TypeOK, Stock!Direct
<1>p. /\ clerk[s].pc = "dispatch" /\ clerk[s].of \in Requests /\ clerk[s].boxes \in Nat
      /\ clerk[s].edition \in Nat
  BY <1>0, ClerkWork DEF Stock!DispatchBoxes
<1>. PICK r \in Requests, n \in Nat, e \in Nat :
       r = clerk[s].of /\ n = clerk[s].boxes /\ e = clerk[s].edition
  BY <1>p
<1>. DEFINE w == [pc |-> "persist", of |-> r, boxes |-> n, edition |-> e, transfer |-> i]
<1>1. /\ clerk[s].pc = "dispatch" /\ Stock!createTransfer(i, "shelf", "rep", n, r)
      /\ clerk' = [clerk EXCEPT ![s] = w]
      /\ UNCHANGED <<request, sold, contested, cut, undoneTwice>>
  BY DEF Stock!DispatchBoxes, Stock!Run
<1>2. OnRequest(clerk[s], r)
  BY <1>1 DEF OnRequest
<1>3. /\ w \in Stock!SessionState /\ OnRequest(w, r)
      /\ w.pc = "persist" /\ w.of = r /\ w.boxes = n /\ w.transfer = i /\ w.edition = clerk[s].edition
  BY DEF Stock!SessionState, OnRequest
<1>a. \A q \in Requests : OnRequest(w, q) => q = r
  BY DEF OnRequest
<1>. HIDE DEF w
<1>4. /\ clerk'[s] = w /\ clerk' \in [Sessions -> Stock!SessionState]
      /\ \A t \in Sessions : t # s => clerk'[t] = clerk[t]
  BY <1>0, <1>1, <1>3
<1>5. /\ boxes' \in [Stock!Places -> Nat] /\ TransfersMade' /\ BoxInv'
      /\ transfer' \in [Stock!Ids -> [status : {"NONE", "COMPLETED", "CANCELLED"},
                                      from : Stock!Places, to : Stock!Places, boxes : Nat,
                                      for : Requests \cup {Stock!Direct}]]
      /\ \A j \in Stock!Ids : j # i => transfer'[j] = transfer[j]
      /\ transfer[i].for = Stock!Direct /\ transfer'[i].for = r /\ transfer'[i].boxes = n
  <2>1. <<"shelf", "rep">> \in Stock!Endpoints
    BY DEF Stock!Endpoints
  <2>2. \A t \in Sessions : clerk'[t].pc = "reverse" => clerk'[t] = clerk[t]
    BY <1>3, <1>4
  <2>. QED
    BY <1>0, <1>1, <1>2, <2>1, <2>2, TransferIsMade
<1>6. StockTyped'
  BY <1>0, <1>1, <1>4, <1>5 DEF StockTyped, Stock!TypeOK
<1>7. \A q \in Requests : q # r => Stock!DispatchedFor(q)' = Stock!DispatchedFor(q)
  <2>1. \A q \in Requests, j \in Stock!Ids : q # r => (transfer'[j].for = q <=> transfer[j].for = q)
    BY <1>0, <1>2, <1>5
  <2>. QED
    BY <2>1 DEF Stock!DispatchedFor
<1>8. \A j \in Stock!Ids : transfer[j].for \in Requests => transfer'[j] = transfer[j]
  BY <1>0, <1>5
<1>9. Stock!DispatchedFor(r)' = Stock!DispatchedFor(r) \cup {i}
  <2>1. \A j \in Stock!Ids : transfer'[j].for = r <=> transfer[j].for = r \/ j = i
    BY <1>0, <1>2, <1>5
  <2>. QED
    BY <2>1 DEF Stock!DispatchedFor
<1>10. ASSUME Calm(r) PROVE RequestRead(clerk[s], r) /\ Stock!DispatchedFor(r) = {}
  BY <1>0, <1>1, <1>2, <1>10 DEF BookInv, RequestReads, RequestRead
<1>11. \A q \in Requests : Calm(q)' => Calm(q)
  BY <1>1 DEF Calm
<1>12. \A p, t \in Sessions, q \in Requests :
         q \notin contested /\ OnRequest(clerk[p], q) /\ OnRequest(clerk[t], q) => p = t
  BY <1>0 DEF BookInv, OneOnRequest
<1>13. RequestReads'
  <2>. SUFFICES ASSUME NEW t \in Sessions, NEW q \in Requests, Calm(q), OnRequest(clerk'[t], q)
                PROVE  RequestRead(clerk[t], q)'
    BY <1>11 DEF RequestReads, OnRequest
  <2>1. CASE t = s
    <3>1. q = r
      BY <1>a, <1>4, <2>1
    <3>. QED
      BY <1>1, <1>3, <1>4, <1>5, <1>9, <1>10, <2>1, <3>1 DEF RequestRead
  <2>2. CASE t # s
    <3>1. /\ clerk'[t] = clerk[t] /\ RequestRead(clerk[t], q) /\ q # r
          /\ clerk[t] \in Stock!SessionState
      BY <1>0, <1>2, <1>4, <1>12, <2>2 DEF BookInv, RequestReads, Calm
    <3>2. clerk[t].pc = "persist" => clerk[t].transfer \in Stock!Ids /\ transfer[clerk[t].transfer].for = q
      BY <3>1 DEF RequestRead, Stock!DispatchedFor
    <3>3. Stock!DispatchedFor(q)' = Stock!DispatchedFor(q)
      BY <1>7, <3>1
    <3>. QED
      BY <1>1, <1>8, <3>1, <3>2, <3>3 DEF RequestRead
  <2>. QED
    BY <2>1, <2>2
<1>14. OneOnRequest'
  <2>1. \A t \in Sessions, q \in Requests : OnRequest(clerk'[t], q) => OnRequest(clerk[t], q)
    BY <1>a, <1>2, <1>4
  <2>. QED
    BY <1>1, <1>12, <2>1 DEF OneOnRequest, OnRequest
<1>15. FulfilledIsDispatched'
  <2>. SUFFICES ASSUME NEW q \in Requests, Calm(q), ~Unwritten(q)'
                PROVE  IF request[q].status = "FULFILLED"
                       THEN /\ Stock!DispatchedFor(q)' = {request[q].transfer}
                            /\ transfer'[request[q].transfer].boxes = request[q].boxes
                       ELSE Stock!DispatchedFor(q)' = {}
    BY <1>1, <1>11 DEF FulfilledIsDispatched
  <2>1. q # r
    BY <1>3, <1>4 DEF Unwritten
  <2>2. ~Unwritten(q)
    <3>1. \A t \in Sessions : ~(clerk'[t].pc = "persist" /\ clerk'[t].of = q)
      BY DEF Unwritten
    <3>. QED
      BY <1>1, <1>4, <3>1 DEF Unwritten
  <2>3. Stock!DispatchedFor(q)' = Stock!DispatchedFor(q)
    BY <1>7, <2>1
  <2>4. CASE request[q].status = "FULFILLED"
    <3>1. /\ Stock!DispatchedFor(q) = {request[q].transfer}
          /\ transfer[request[q].transfer].boxes = request[q].boxes
      BY <1>0, <2>2, <2>4 DEF BookInv, FulfilledIsDispatched
    <3>2. request[q].transfer \in Stock!Ids /\ transfer[request[q].transfer].for = q
      BY <3>1 DEF Stock!DispatchedFor
    <3>. QED
      BY <1>8, <2>3, <2>4, <3>1, <3>2
  <2>5. CASE request[q].status # "FULFILLED"
    BY <1>0, <2>2, <2>3, <2>5 DEF BookInv, FulfilledIsDispatched
  <2>. QED
    BY <2>4, <2>5
<1>. QED
  BY <1>5, <1>6, <1>13, <1>14, <1>15 DEF RequestInv, BookInv

LEMMA StartReverseKeeps ==
  ASSUME RequestInv, NEW s \in Sessions, NEW i \in Stock!Ids, Stock!StartReverse(s, i)
  PROVE  RequestInv'
<1>. DEFINE w == [pc |-> "reverse", of |-> i]
<1>0. /\ StockTyped /\ BookInv /\ BoxInv /\ clerk \in [Sessions -> Stock!SessionState]
      /\ undoneTwice \in BOOLEAN
  BY DEF RequestInv, StockTyped, Stock!TypeOK
<1>1. /\ clerk[s] = Stock!Idle /\ clerk' = [clerk EXCEPT ![s] = w] /\ transfer[i].status = "COMPLETED"
      /\ undoneTwice' = (undoneTwice \/ \E t \in Sessions : clerk[t].pc = "reverse" /\ clerk[t].of = i)
      /\ UNCHANGED <<request, transfer, boxes, sold, contested, cut>>
  BY DEF Stock!StartReverse, Stock!Run, Stock!Reversible
<1>2. w \in Stock!SessionState /\ w.pc = "reverse" /\ w.of = i /\ \A q \in Requests : ~OnRequest(w, q)
  BY DEF Stock!SessionState, OnRequest
<1>. HIDE DEF w
<1>3. /\ clerk'[s] = w /\ clerk' \in [Sessions -> Stock!SessionState]
      /\ \A t \in Sessions : t # s => clerk'[t] = clerk[t]
  BY <1>0, <1>1, <1>2
<1>4. StockTyped'
  <2>1. undoneTwice' \in BOOLEAN
    BY <1>1, Zenon
  <2>. QED
    BY <1>0, <1>1, <1>3, <2>1 DEF StockTyped, Stock!TypeOK, TransfersMade
<1>5. BookInv'
  <2>1. DispatchesStand
    BY <1>1 DEF DispatchesStand, Stock!DispatchedFor
  <2>2. \A t \in Sessions, q \in Requests : OnRequest(clerk'[t], q) => clerk'[t] = clerk[t]
    BY <1>2, <1>3
  <2>3. \A t \in Sessions : clerk[t].pc = "persist" => clerk'[t] = clerk[t]
    BY <1>1, <1>3 DEF Stock!Idle
  <2>. QED
    BY <1>0, <1>1, <2>1, <2>2, <2>3, BookStands
<1>6. ReversalReads'
  BY <1>0, <1>1, <1>2, <1>3 DEF BoxInv, ReversalReads
<1>7. undoneTwice' \/ OneReverses'
  <2>. SUFFICES ASSUME ~undoneTwice' PROVE OneReverses'
    OBVIOUS
  <2>1. ~undoneTwice /\ \A t \in Sessions : ~(clerk[t].pc = "reverse" /\ clerk[t].of = i)
    BY <1>1, Zenon
  <2>2. OneReverses
    BY <1>0, <2>1 DEF BoxInv
  <2>. QED
    BY <1>1, <1>2, <1>3, <2>1, <2>2 DEF OneReverses
<1>8. Stock!BoxesFollowTransfers'
  BY <1>0, <1>1 DEF BoxInv, Stock!BoxesFollowTransfers, Stock!Carried
<1>. QED
  BY <1>4, <1>5, <1>6, <1>7, <1>8 DEF RequestInv, BoxInv

LEMMA ReverseKeeps ==
  ASSUME RequestInv, NEW s \in Sessions, Stock!cancelTransfer(s)
  PROVE  RequestInv'
<1>0. /\ StockTyped /\ BookInv /\ BoxInv /\ clerk \in [Sessions -> Stock!SessionState]
      /\ clerk[s].pc = "reverse" /\ clerk[s].of \in Stock!Ids
  <2>1. clerk[s].pc = "reverse" /\ clerk[s] \in Stock!SessionState
    BY DEF RequestInv, StockTyped, Stock!TypeOK, Stock!cancelTransfer
  <2>. QED
    BY <2>1, ClerkWork DEF RequestInv, StockTyped, Stock!TypeOK
<1>. PICK i \in Stock!Ids : i = clerk[s].of
  BY <1>0
<1>1. /\ transfer[i].status # "NONE"
      /\ <<transfer[i].from, transfer[i].to>> \in Stock!Endpoints /\ transfer[i].boxes \in Nat
  BY <1>0 DEF BoxInv, ReversalReads, StockTyped, TransfersMade, Stock!TypeOK
<1>. PICK from \in Stock!Places, to \in Stock!Places, n \in Nat :
       from = transfer[i].to /\ to = transfer[i].from /\ n = transfer[i].boxes
  BY <1>1, EndsDiffer
<1>2. from # to
  BY <1>1, EndsDiffer
<1>3. /\ Stock!Run(s, Stock!Idle)
      /\ UNCHANGED <<request, sold, contested, cut, undoneTwice>>
      /\ IF boxes[from] >= n
         THEN /\ boxes' = [boxes EXCEPT ![from] = @ - n, ![to] = @ + n]
              /\ transfer' = [transfer EXCEPT ![i].status = "CANCELLED"]
         ELSE boxes' = boxes /\ transfer' = transfer
  BY DEF Stock!cancelTransfer, Stock!Move
<1>4. /\ clerk' \in [Sessions -> Stock!SessionState] /\ clerk'[s] = Stock!Idle
      /\ \A t \in Sessions : t # s => clerk'[t] = clerk[t]
      /\ \A t \in Sessions : clerk'[t].pc = "reverse" => clerk'[t] = clerk[t] /\ t # s
  BY <1>0, <1>3, ClerkRests DEF Stock!Idle
<1>. DEFINE Row == [status : {"NONE", "COMPLETED", "CANCELLED"}, from : Stock!Places,
                    to : Stock!Places, boxes : Nat, for : Requests \cup {Stock!Direct}]
<1>5. transfer \in [Stock!Ids -> Row] /\ boxes \in [Stock!Places -> Nat]
  BY <1>0 DEF StockTyped, Stock!TypeOK
<1>6. /\ transfer' \in [Stock!Ids -> Row]
      /\ \A j \in Stock!Ids : j # i => transfer'[j] = transfer[j]
      /\ \A j \in Stock!Ids : /\ transfer'[j].for = transfer[j].for
                              /\ transfer'[j].boxes = transfer[j].boxes
                              /\ transfer'[j].from = transfer[j].from
                              /\ transfer'[j].to = transfer[j].to
      /\ transfer'[i].status # "NONE"
      /\ boxes[from] >= n => transfer'[i].status = "CANCELLED"
  BY <1>1, <1>3, <1>5
<1>7. DispatchesStand
  <2>1. \A q \in Requests : Stock!DispatchedFor(q)' = Stock!DispatchedFor(q)
    BY <1>6 DEF Stock!DispatchedFor
  <2>. QED
    BY <1>6, <2>1 DEF DispatchesStand
<1>8. BookInv'
  <2>1. \A t \in Sessions, q \in Requests : OnRequest(clerk'[t], q) => clerk'[t] = clerk[t]
    BY <1>4 DEF OnRequest, Stock!Idle
  <2>2. \A t \in Sessions : clerk[t].pc = "persist" => clerk'[t] = clerk[t]
    BY <1>0, <1>4
  <2>. QED
    BY <1>0, <1>3, <1>7, <2>1, <2>2, BookStands
<1>9. StockTyped'
  <2>1. boxes' \in [Stock!Places -> Nat]
    <3>1. CASE boxes[from] >= n
      <4>1. boxes[from] - n \in Nat /\ boxes[to] + n \in Nat
        BY <1>5, <3>1
      <4>2. boxes' = [boxes EXCEPT ![from] = @ - n, ![to] = @ + n]
        BY <1>3, <3>1
      <4>3. from \in Stock!Places /\ to \in Stock!Places
        OBVIOUS
      <4>. HIDE DEF Row
      <4>. QED
        BY <1>2, <1>5, <4>1, <4>2, <4>3
    <3>2. CASE ~(boxes[from] >= n)
      BY <1>3, <1>5, <3>2
    <3>. QED
      BY <3>1, <3>2
  <2>2. TransfersMade'
    <3>. SUFFICES ASSUME NEW j \in Stock!Ids
                  PROVE  /\ transfer'[j].status = "NONE" => transfer'[j] = Stock!NoTransfer
                         /\ transfer'[j].status # "NONE" =>
                              <<transfer'[j].from, transfer'[j].to>> \in Stock!Endpoints
      BY DEF TransfersMade
    <3>1. CASE j = i
      BY <1>1, <1>6, <3>1
    <3>2. CASE j # i
      BY <1>0, <1>6, <3>2 DEF StockTyped, TransfersMade
    <3>. QED
      BY <3>1, <3>2
  <2>. QED
    BY <1>0, <1>3, <1>4, <1>6, <2>1, <2>2 DEF StockTyped, Stock!TypeOK
<1>10. BoxInv'
  <2>1. ReversalReads'
    <3>. SUFFICES ASSUME NEW t \in Sessions, clerk'[t].pc = "reverse"
                  PROVE  transfer'[clerk'[t].of].status # "NONE"
      BY DEF ReversalReads
    <3>1. clerk'[t] = clerk[t] /\ clerk[t].of \in Stock!Ids
      BY <1>0, <1>4, ClerkWork
    <3>2. transfer[clerk[t].of].status # "NONE"
      BY <1>0, <3>1 DEF BoxInv, ReversalReads
    <3>. QED
      BY <1>6, <3>1, <3>2
  <2>2. CASE undoneTwice
    BY <1>3, <2>1, <2>2 DEF BoxInv, Stock!BoxesFollowTransfers
  <2>3. CASE ~undoneTwice
    <3>1. OneReverses
      BY <1>0, <2>3 DEF BoxInv
    <3>2. transfer[i].status = "COMPLETED"
      BY <1>0, <3>1 DEF OneReverses
    <3>3. OneReverses'
      <4>1. \A t \in Sessions : clerk'[t].pc = "reverse" =>
              clerk'[t] = clerk[t] /\ clerk[t].of \in Stock!Ids /\ clerk[t].of # i
        BY <1>0, <1>4, <3>1, ClerkWork DEF OneReverses
      <4>. QED
        BY <1>6, <3>1, <4>1 DEF OneReverses
    <3>4. \A p \in Stock!Places : boxes[p] = Due(p)
      BY <1>0, <2>3 DEF BoxInv, Stock!BoxesFollowTransfers, Due
    <3>5. Stock!BoxesFollowTransfers'
      <4>1. CASE boxes[from] >= n
        <5>1. \A j \in Stock!Ids : transfer'[j].boxes \in Nat
          BY <1>5, <1>6
        <5>2. transfer'[i].status = "CANCELLED" /\ boxes' = [boxes EXCEPT ![from] = @ - n, ![to] = @ + n]
          BY <1>3, <1>6, <4>1
        <5>. QED
          BY <1>0, <1>2, <1>3, <1>6, <3>2, <3>4, <5>1, <5>2, BoxesFollowMove DEF StockTyped
      <4>2. CASE ~(boxes[from] >= n)
        BY <1>0, <1>3, <4>2 DEF BoxInv, Stock!BoxesFollowTransfers, Stock!Carried
      <4>. QED
        BY <4>1, <4>2
    <3>. QED
      BY <2>1, <3>3, <3>5 DEF BoxInv
  <2>. QED
    BY <2>2, <2>3
<1>. QED
  BY <1>8, <1>9, <1>10 DEF RequestInv

LEMMA ReverseCrashKeeps ==
  ASSUME RequestInv, NEW s \in Sessions, Stock!Crash(s), clerk[s].pc = "reverse"
  PROVE  RequestInv'
<1>0. StockTyped /\ BookInv /\ BoxInv
  BY DEF RequestInv
<1>1. /\ Stock!Run(s, Stock!Idle) /\ cut' = cut
      /\ UNCHANGED <<request, transfer, boxes, sold, contested, undoneTwice>>
  BY DEF Stock!Crash
<1>2. /\ clerk' \in [Sessions -> Stock!SessionState] /\ clerk'[s] = Stock!Idle
      /\ \A t \in Sessions : t # s => clerk'[t] = clerk[t]
      /\ \A t \in Sessions : clerk'[t].pc = "reverse" => clerk'[t] = clerk[t]
  BY <1>0, <1>1, ClerkRests
<1>3. StockTyped'
  BY <1>0, <1>1, <1>2 DEF StockTyped, Stock!TypeOK, TransfersMade
<1>4. BookInv'
  <2>1. DispatchesStand
    BY <1>1 DEF DispatchesStand, Stock!DispatchedFor
  <2>2. \A t \in Sessions, q \in Requests : OnRequest(clerk'[t], q) => clerk'[t] = clerk[t]
    BY <1>2 DEF OnRequest, Stock!Idle
  <2>3. \A t \in Sessions : clerk[t].pc = "persist" => clerk'[t] = clerk[t]
    BY <1>2
  <2>. QED
    BY <1>0, <1>1, <2>1, <2>2, <2>3, BookStands
<1>. QED
  BY <1>0, <1>1, <1>2, <1>3, <1>4, BoxesStand DEF RequestInv

LEMMA SettleKeepsBoxes ==
  ASSUME RequestInv, NEW n \in Stock!Quantities, Stock!Settle(n)
  PROVE  RequestInv'
<1>0. StockTyped /\ BookInv /\ BoxInv /\ n \in Nat /\ OnShelf \in Nat
  BY DeskAssumption DEF DeskAssumption, RequestInv, Stock!Quantities
<1>1. /\ boxes["rep"] >= n /\ boxes' = [boxes EXCEPT !["rep"] = @ - n] /\ sold' = sold + n
      /\ UNCHANGED <<request, transfer, clerk, contested, cut, undoneTwice>>
  BY DEF Stock!Settle
<1>2. boxes \in [Stock!Places -> Nat] /\ sold \in Nat /\ "rep" \in Stock!Places
  BY <1>0 DEF StockTyped, Stock!TypeOK, Stock!Places
<1>3. /\ boxes' \in [Stock!Places -> Nat] /\ sold' \in Nat /\ boxes'["rep"] = boxes["rep"] - n
      /\ \A p \in Stock!Places : p # "rep" => boxes'[p] = boxes[p]
  BY <1>0, <1>1, <1>2
<1>4. StockTyped'
  BY <1>0, <1>1, <1>3 DEF StockTyped, Stock!TypeOK, TransfersMade
<1>5. BookInv'
  <2>1. DispatchesStand
    BY <1>1 DEF DispatchesStand, Stock!DispatchedFor
  <2>. QED
    BY <1>0, <1>1, <2>1, BookStands
<1>6. ReversalReads' /\ (undoneTwice' \/ OneReverses')
  BY <1>0, <1>1 DEF BoxInv, ReversalReads, OneReverses
<1>7. Stock!BoxesFollowTransfers'
  <2>. SUFFICES ASSUME ~undoneTwice, NEW p \in Stock!Places PROVE boxes'[p] = Due(p)'
    BY <1>1 DEF Stock!BoxesFollowTransfers, Due
  <2>1. boxes[p] = Due(p)
    BY <1>0 DEF BoxInv, Stock!BoxesFollowTransfers, Due
  <2>. DEFINE In == Stock!Carried(Stock!Places, {p})
              Out == Stock!Carried({p}, Stock!Places)
  <2>2. In' = In /\ Out' = Out
    BY <1>1 DEF Stock!Carried
  <2>3. In \in Int /\ Out \in Int
    <3>. SUFFICES ASSUME NEW from, NEW to PROVE Stock!Carried(from, to) \in Int
      OBVIOUS
    <3>1. DOMAIN Load(from, to) \subseteq Stock!Ids /\ \A j \in DOMAIN Load(from, to) : Load(from, to)[j] \in Int
      BY <1>0 DEF Load, StockTyped, Stock!TypeOK
    <3>2. IsFiniteSet(DOMAIN Load(from, to))
      <4>1. MaxTransfers \in Int
        BY DeskAssumption DEF DeskAssumption
      <4>2. IsFiniteSet(Stock!Ids)
        BY <4>1, FS_Interval DEF Stock!Ids
      <4>. QED
        BY <3>1, <4>2, FS_Subset
    <3>3. SumFunction(Load(from, to)) \in Int
      BY <3>1, <3>2, SumFunctionIsInt
    <3>. QED
      BY <3>3, CarriedIsSum DEF CarriedSums
  <2>4. Due(p) = (IF p = "shelf" THEN OnShelf ELSE 0) + In - Out - (IF p = "rep" THEN sold ELSE 0)
    BY DEF Due
  <2>5. Due(p)' = (IF p = "shelf" THEN OnShelf ELSE 0) + In - Out - (IF p = "rep" THEN sold + n ELSE 0)
    BY <1>1, <2>2 DEF Due
  <2>. HIDE DEF In, Out
  <2>6. CASE p = "rep"
    BY <1>0, <1>2, <1>3, <2>1, <2>3, <2>4, <2>5, <2>6
  <2>7. CASE p # "rep"
    BY <1>0, <1>2, <1>3, <2>1, <2>3, <2>4, <2>5, <2>7
  <2>. QED
    BY <2>6, <2>7
<1>. QED
  BY <1>4, <1>5, <1>6, <1>7 DEF RequestInv, BoxInv

LEMMA StockStepKeeps == RequestInv /\ [Stock!Next]_Stock!vars => RequestInv'
<1>. SUFFICES ASSUME RequestInv, [Stock!Next]_Stock!vars PROVE RequestInv'
  OBVIOUS
<1>1. CASE UNCHANGED Stock!vars
  <2>1. UNCHANGED <<request, transfer, boxes, sold, clerk, contested, cut, undoneTwice>>
    BY <1>1 DEF Stock!vars
  <2>2. DispatchesStand
    BY <2>1 DEF DispatchesStand, Stock!DispatchedFor
  <2>3. StockTyped'
    BY <2>1 DEF RequestInv, StockTyped, Stock!TypeOK, TransfersMade
  <2>. QED
    BY <2>1, <2>2, <2>3, BookStands, BoxesStand DEF RequestInv
<1>2. ASSUME NEW s \in Sessions, Stock!Crash(s) PROVE RequestInv'
  BY <1>2, RequestEnds, ReverseCrashKeeps
<1>3. ASSUME NEW s \in Sessions,
             \/ \E i \in Stock!Ids : Stock!StartReverse(s, i) \/ Stock!DispatchBoxes(s, i)
             \/ Stock!Edit(s) \/ Stock!DispatchRefused(s) \/ Stock!Persist(s) \/ Stock!Decline(s)
             \/ Stock!cancelTransfer(s)
      PROVE  RequestInv'
  BY <1>3, StartReverseKeeps, DispatchBoxesKeeps, RequestEnds, ReverseKeeps
<1>4. ASSUME NEW s \in Sessions, NEW r \in Requests,
             \/ \E n \in Stock!Quantities : Stock!StartEdit(s, r, n) \/ Stock!StartApprove(s, r, n)
             \/ \E status \in {"REJECTED", "CANCELLED"} : Stock!StartDecline(s, r, status)
      PROVE  RequestInv'
  BY <1>4, RequestStartsKeep
<1>5. ASSUME \/ \E r \in Requests, n \in Stock!Quantities : Stock!PlaceRequest(r, n)
             \/ \E i \in Stock!Ids, ends \in Stock!Endpoints, n \in Stock!Quantities :
                  Stock!TransferDirectly(i, ends[1], ends[2], n)
             \/ \E n \in Stock!Quantities : Stock!Settle(n)
      PROVE  RequestInv'
  BY <1>5, PlaceKeeps, TransferDirectlyKeeps, SettleKeepsBoxes
<1>. QED
  BY <1>1, <1>2, <1>3, <1>4, <1>5 DEF Stock!Next

(* A step of the desks is a step of the requests or leaves them alone. *)
LEMMA DeskStepsStock ==
  [DeskNext]_<<vars, goodsVars, people, tradeVars>> => [Stock!Next]_Stock!vars
BY DEF DeskNext, goodsVars, stockVars, Stock!vars

LEMMA StockCounts == ASSUME NEW S PROVE Stock!Cardinality(S) = Cardinality(S)
BY DEF Stock!Cardinality, Cardinality

LEMMA RequestInvIssuesOnce == RequestInv => Stock!IssuedOnce
<1>. SUFFICES ASSUME RequestInv, NEW r \in Requests, r \notin contested, r \notin cut
              PROVE  /\ Cardinality(Stock!DispatchedFor(r)) <= 1
                     /\ \A i \in Stock!DispatchedFor(r) :
                          \/ /\ request[r].status = "FULFILLED" /\ request[r].transfer = i
                             /\ request[r].boxes = transfer[i].boxes
                          \/ \E s \in Sessions : clerk[s].pc = "persist" /\ clerk[s].transfer = i
                     /\ request[r].status = "FULFILLED" => Stock!DispatchedFor(r) # {}
  BY StockCounts DEF Stock!IssuedOnce
<1>0. BookInv /\ Calm(r)
  BY DEF RequestInv, Calm
<1>1. CASE Unwritten(r)
  <2>. PICK s \in Sessions : clerk[s].pc = "persist" /\ clerk[s].of = r
    BY <1>1 DEF Unwritten
  <2>1. Stock!DispatchedFor(r) = {clerk[s].transfer} /\ request[r].status = "PENDING"
    BY <1>0 DEF BookInv, RequestReads, RequestRead, OnRequest
  <2>2. Cardinality(Stock!DispatchedFor(r)) = 1
    BY <2>1, FS_Singleton
  <2>. QED
    BY <2>1, <2>2
<1>2. CASE ~Unwritten(r)
  <2>1. IF request[r].status = "FULFILLED"
        THEN /\ Stock!DispatchedFor(r) = {request[r].transfer}
             /\ transfer[request[r].transfer].boxes = request[r].boxes
        ELSE Stock!DispatchedFor(r) = {}
    BY <1>0, <1>2 DEF BookInv, FulfilledIsDispatched
  <2>2. CASE request[r].status = "FULFILLED"
    <3>1. Cardinality(Stock!DispatchedFor(r)) = 1
      BY <2>1, <2>2, FS_Singleton
    <3>. QED
      BY <2>1, <2>2, <3>1
  <2>3. CASE request[r].status # "FULFILLED"
    <3>1. Cardinality(Stock!DispatchedFor(r)) = 0
      BY <2>1, <2>3, FS_EmptySet
    <3>. QED
      BY <2>1, <2>3, <3>1
  <2>. QED
    BY <2>2, <2>3
<1>. QED
  BY <1>1, <1>2

(* The boxes of each transfer, and the boxes some transfers moved.         *)
Loads == [i \in Stock!Ids |-> transfer[i].boxes]

LEMMA BoxesMovedAreSum ==
  ASSUME Stock!TypeOK
  PROVE  /\ IsFiniteSet(Stock!Ids) /\ \A i \in Stock!Ids : Loads[i] \in Int
         /\ \A S \in SUBSET Stock!Ids :
              IsFiniteSet(S) /\ Stock!BoxesMoved(S) = SumFunctionOnSet(Loads, S)
<1>1. IsFiniteSet(Stock!Ids)
  <2>1. MaxTransfers \in Int
    BY DeskAssumption DEF DeskAssumption
  <2>. QED
    BY <2>1, FS_Interval DEF Stock!Ids
<1>2. \A i \in Stock!Ids : Loads[i] \in Int
  BY DEF Loads, Stock!TypeOK
<1>3. ASSUME NEW S \in SUBSET Stock!Ids
      PROVE  IsFiniteSet(S) /\ Stock!BoxesMoved(S) = SumFunctionOnSet(Loads, S)
  <2>. DEFINE f == [i \in S |-> transfer[i].boxes]
  <2>1. IsFiniteSet(S)
    BY <1>1, FS_Subset
  <2>2. Stock!BoxesMoved(S) = SumFunction(f)
    BY StockSums DEF Stock!BoxesMoved
  <2>3. DOMAIN f = S /\ \A i \in S : f[i] = Loads[i]
    BY DEF Loads
  <2>. HIDE DEF f
  <2>4. SumFunctionOnSet(f, S) = SumFunctionOnSet(Loads, S)
    BY <2>1, <2>3, SumOfSame
  <2>. QED
    BY <2>1, <2>2, <2>3, <2>4 DEF SumFunction
<1>. QED
  BY <1>1, <1>2, <1>3

(* Every request is in one bucket of the totals.                           *)
LEMMA EveryRequestCounts ==
  ASSUME StockTyped
  PROVE  /\ Stock!RequestSummary.issued + Stock!RequestSummary.pending
              + Stock!RequestSummary.refused = Stock!RequestSummary.totalRequests
         /\ Stock!Cardinality(Stock!ActiveRequests) = Stock!RequestSummary.pending
<1>. DEFINE issued == Stock!With("FULFILLED")
            pending == Stock!With("PENDING")
            refused == Stock!With("REJECTED") \cup Stock!With("CANCELLED")
            made == Stock!Made
<1>1. /\ Stock!RequestSummary.issued = Cardinality(issued)
      /\ Stock!RequestSummary.pending = Cardinality(pending)
      /\ Stock!RequestSummary.refused = Cardinality(refused)
      /\ Stock!RequestSummary.totalRequests = Cardinality(made)
  BY StockCounts DEF Stock!RequestSummary
<1>2. Stock!Cardinality(Stock!ActiveRequests) = Cardinality(pending)
  BY StockCounts DEF Stock!ActiveRequests
<1>3. made \subseteq Requests /\ issued \subseteq made /\ pending \subseteq made /\ refused \subseteq made
  BY DEF Stock!Made, Stock!With
<1>4. IsFiniteSet(issued) /\ IsFiniteSet(pending) /\ IsFiniteSet(refused)
  BY <1>3, FS_Subset, DeskAssumption DEF DeskAssumption
<1>5. \A r \in made : request[r].status \in {"PENDING", "FULFILLED", "REJECTED", "CANCELLED"}
  BY DEF StockTyped, Stock!TypeOK, Stock!Made
<1>6. made = (issued \cup pending) \cup refused
  BY <1>5 DEF Stock!With
<1>7. issued \cap pending = {} /\ (issued \cup pending) \cap refused = {}
  BY DEF Stock!With
<1>. HIDE DEF issued, pending, refused, made
<1>8. /\ Cardinality(issued) \in Nat /\ Cardinality(pending) \in Nat
      /\ Cardinality(refused) \in Nat /\ Cardinality({}) = 0
  BY <1>4, FS_CardinalityType, FS_EmptySet
<1>9. /\ IsFiniteSet(issued \cup pending)
      /\ Cardinality(issued \cup pending) = Cardinality(issued) + Cardinality(pending) - 0
  BY <1>4, <1>7, <1>8, FS_Union
<1>10. Cardinality(made) = Cardinality(issued \cup pending) + Cardinality(refused) - 0
  <2>. DEFINE A == issued \cup pending
  <2>1. IsFiniteSet(A) /\ A \cap refused = {} /\ made = A \cup refused
    BY <1>6, <1>7, <1>9
  <2>. HIDE DEF A
  <2>2. Cardinality(A \cup refused) = Cardinality(A) + Cardinality(refused) - Cardinality(A \cap refused)
    BY <1>4, <2>1, FS_Union
  <2>3. Cardinality(made) = Cardinality(A) + Cardinality(refused) - 0
    BY <1>8, <2>1, <2>2
  <2>. QED
    BY <2>3 DEF A
<1>. QED
  BY <1>1, <1>2, <1>8, <1>9, <1>10

(* Once no approval is half done, the boxes of the fulfilled requests are  *)
(* those of the transfers made for a request.                              *)
LEMMA IssuedBoxesLeft ==
  ASSUME RequestInv, contested \cup cut = {}, \A s \in Sessions : clerk[s].pc # "persist"
  PROVE  /\ Stock!RequestSummary.boxes =
              Stock!BoxesMoved({i \in Stock!Movements : transfer[i].for # Stock!Direct})
         /\ \A i \in Stock!Movements :
              transfer[i].for # Stock!Direct => transfer[i].for \in Stock!With("FULFILLED")
<1>. DEFINE S == Stock!With("FULFILLED")
            R == {i \in Stock!Movements : transfer[i].for # Stock!Direct}
            m == [r \in S |-> request[r].transfer]
            f == [r \in S |-> request[r].boxes]
<1>0. Stock!TypeOK /\ TransfersMade /\ BookInv
  BY DEF RequestInv, StockTyped
<1>1. \A r \in Requests : Calm(r) /\ ~Unwritten(r)
  BY DEF Calm, Unwritten
<1>2. \A r \in Requests :
        /\ request[r].status = "FULFILLED" =>
             /\ Stock!DispatchedFor(r) = {request[r].transfer}
             /\ transfer[request[r].transfer].boxes = request[r].boxes
        /\ request[r].status # "FULFILLED" => Stock!DispatchedFor(r) = {}
  BY <1>0, <1>1 DEF BookInv, FulfilledIsDispatched
<1>3. S \subseteq Requests /\ \A r \in Requests : r \in S <=> request[r].status = "FULFILLED"
  BY DEF Stock!With, Stock!Made
<1>4. Stock!Direct \notin Requests
  BY DeskAssumption DEF DeskAssumption, Stock!Direct
<1>5. ASSUME NEW r \in S
      PROVE  m[r] \in R /\ transfer[m[r]].for = r /\ transfer[m[r]].boxes = f[r]
  <2>1. m[r] \in Stock!DispatchedFor(r) /\ transfer[m[r]].boxes = f[r]
    BY <1>2, <1>3
  <2>2. m[r] \in Stock!Ids /\ transfer[m[r]].for = r
    BY <2>1 DEF Stock!DispatchedFor
  <2>3. transfer[m[r]].status # "NONE"
    <3>1. r \in Requests
      BY <1>3
    <3>. HIDE DEF S, R, m, f
    <3>2. transfer[m[r]] = Stock!NoTransfer => transfer[m[r]].for = Stock!Direct
      BY DEF Stock!NoTransfer
    <3>. QED
      BY <1>0, <1>4, <2>2, <3>1, <3>2 DEF TransfersMade
  <2>. QED
    BY <1>3, <1>4, <2>1, <2>2, <2>3 DEF Stock!Movements
<1>6. ASSUME NEW i \in R
      PROVE  transfer[i].for \in S /\ m[transfer[i].for] = i
  <2>1. i \in Stock!Ids /\ transfer[i].for \in Requests
    BY <1>0 DEF Stock!Movements, Stock!TypeOK
  <2>2. i \in Stock!DispatchedFor(transfer[i].for)
    BY <2>1 DEF Stock!DispatchedFor
  <2>3. transfer[i].for \in S
    BY <1>2, <1>3, <2>1, <2>2
  <2>. QED
    BY <1>2, <1>3, <2>2, <2>3
<1>7. R \in SUBSET Stock!Ids
  BY DEF Stock!Movements
<1>8. IsFiniteSet(S)
  BY <1>3, FS_Subset, DeskAssumption DEF DeskAssumption
<1>9. Stock!RequestSummary.boxes = SumFunction(f)
  BY StockSums DEF Stock!RequestSummary, Stock!BoxesOf
<1>10. \A r \in S : f[r] = Loads[m[r]]
  BY <1>5, <1>7 DEF Loads
<1>11. \A i \in R : Loads[i] \in Int
  BY <1>0, <1>7, BoxesMovedAreSum
<1>12. DOMAIN f = S /\ DOMAIN m = S /\ m \in [S -> R]
  BY <1>5
<1>13. \A i \in Stock!Movements :
         transfer[i].for # Stock!Direct => transfer[i].for \in Stock!With("FULFILLED")
  BY <1>6
<1>14. Stock!RequestSummary.boxes = Stock!BoxesMoved(R)
  <2>. HIDE DEF S, R, m, f
  <2>1. m \in Bijection(S, R)
    BY <1>5, <1>6, <1>12 DEF Bijection, Injection, Surjection, IsInjective
  <2>2. SumFunctionOnSet(f, S) = SumFunctionOnSet(Loads, R)
    BY <1>8, <1>10, <1>11, <2>1, SumOfBijection
  <2>3. Stock!BoxesMoved(R) = SumFunctionOnSet(Loads, R)
    BY <1>0, <1>7, BoxesMovedAreSum
  <2>. QED
    BY <1>9, <1>12, <2>2, <2>3 DEF SumFunction
<1>. QED
  BY <1>13, <1>14

(* The destinations account for every box moved; what the rep holds and    *)
(* sold is what came to the rep less what went back.                       *)
LEMMA DestinationsAddUp ==
  ASSUME RequestInv
  PROVE  LET t == Stock!TransferSummary
         IN /\ t.boxes = t.destinations["shelf"] + t.destinations["annex"] + t.destinations["rep"]
            /\ undoneTwice \/
                 sold + boxes["rep"] = t.destinations["rep"]
                   - Stock!BoxesMoved({i \in Stock!Standing : transfer[i].from = "rep"})
<1>. DEFINE All == Stock!Standing
            Into(p) == {i \in Stock!Standing : transfer[i].to = p}
            Back == {i \in Stock!Standing : transfer[i].from = "rep"}
            On(S) == SumFunctionOnSet(Loads, S)
<1>0. Stock!TypeOK /\ TransfersMade /\ BoxInv
  BY DEF RequestInv, StockTyped
<1>1. /\ Stock!TransferSummary.boxes = Stock!BoxesMoved(All)
      /\ Stock!TransferSummary.destinations["shelf"] = Stock!BoxesMoved(Into("shelf"))
      /\ Stock!TransferSummary.destinations["annex"] = Stock!BoxesMoved(Into("annex"))
      /\ Stock!TransferSummary.destinations["rep"] = Stock!BoxesMoved(Into("rep"))
  BY DEF Stock!TransferSummary, Stock!Places
<1>2. All \in SUBSET Stock!Ids /\ \A i \in All : transfer[i].to \in {"shelf", "annex", "rep"}
  BY <1>0 DEF Stock!Standing, Stock!Movements, Stock!TypeOK, Stock!Places
<1>3. /\ Into("shelf") \in SUBSET All /\ Into("annex") \in SUBSET (All \ Into("shelf"))
      /\ Into("rep") = (All \ Into("shelf")) \ Into("annex")
      /\ Back \in SUBSET All
  BY <1>2
<1>4. \A S \in SUBSET All :
        /\ IsFiniteSet(S) /\ Stock!BoxesMoved(S) = On(S) /\ On(S) \in Int
        /\ \A i \in S : Loads[i] \in Int
  <2>. SUFFICES ASSUME NEW S \in SUBSET All
                PROVE  /\ IsFiniteSet(S) /\ Stock!BoxesMoved(S) = On(S) /\ On(S) \in Int
                       /\ \A i \in S : Loads[i] \in Int
    OBVIOUS
  <2>1. IsFiniteSet(S) /\ Stock!BoxesMoved(S) = On(S) /\ \A i \in S : Loads[i] \in Int
    BY <1>0, <1>2, BoxesMovedAreSum
  <2>. QED
    BY <2>1, SumIsInt
<1>5. /\ Stock!Carried(Stock!Places, {"rep"}) = Stock!BoxesMoved(Into("rep"))
      /\ Stock!Carried({"rep"}, Stock!Places) = Stock!BoxesMoved(Back)
  <2>1. \A i \in Stock!Ids :
          /\ transfer[i].status = "COMPLETED" <=> i \in Stock!Standing
          /\ transfer[i].from \in Stock!Places /\ transfer[i].to \in Stock!Places
    BY <1>0 DEF Stock!TypeOK, Stock!Standing, Stock!Movements
  <2>2. {i \in Stock!Ids : /\ transfer[i].status = "COMPLETED"
                           /\ transfer[i].from \in Stock!Places /\ transfer[i].to \in {"rep"}} = Into("rep")
    BY <1>2, <2>1
  <2>3. {i \in Stock!Ids : /\ transfer[i].status = "COMPLETED"
                           /\ transfer[i].from \in {"rep"} /\ transfer[i].to \in Stock!Places} = Back
    BY <1>2, <2>1
  <2>. HIDE DEF Into, Back
  <2>. QED
    BY <2>2, <2>3 DEF Stock!Carried, Stock!BoxesMoved
<1>6. undoneTwice \/ boxes["rep"] = 0 + Stock!Carried(Stock!Places, {"rep"})
                                    - Stock!Carried({"rep"}, Stock!Places) - sold
  <2>1. "rep" \in Stock!Places /\ "rep" # "shelf"
    BY DEF Stock!Places
  <2>. QED
    BY <1>0, <2>1 DEF BoxInv, Stock!BoxesFollowTransfers
<1>7. boxes["rep"] \in Nat /\ sold \in Nat
  BY <1>0 DEF Stock!TypeOK, Stock!Places
<1>. HIDE DEF All, Into, Back
<1>8. On(All) = On(Into("shelf")) + On(All \ Into("shelf"))
  BY <1>3, <1>4, SumOfParts
<1>9. On(All \ Into("shelf")) = On(Into("annex")) + On(Into("rep"))
  BY <1>3, <1>4, SumOfParts
<1>10. /\ Stock!BoxesMoved(All) = On(All) /\ On(All) \in Int
       /\ Stock!BoxesMoved(Into("shelf")) = On(Into("shelf")) /\ On(Into("shelf")) \in Int
       /\ Stock!BoxesMoved(Into("annex")) = On(Into("annex")) /\ On(Into("annex")) \in Int
       /\ Stock!BoxesMoved(Into("rep")) = On(Into("rep")) /\ On(Into("rep")) \in Int
       /\ Stock!BoxesMoved(Back) = On(Back) /\ On(Back) \in Int
  BY <1>3, <1>4
<1>11. Stock!BoxesMoved(All) = Stock!BoxesMoved(Into("shelf")) + Stock!BoxesMoved(Into("annex"))
                               + Stock!BoxesMoved(Into("rep"))
  <2>. HIDE DEF On
  <2>. QED
    BY <1>8, <1>9, <1>10
<1>12. undoneTwice \/ sold + boxes["rep"] = Stock!BoxesMoved(Into("rep")) - Stock!BoxesMoved(Back)
  <2>. HIDE DEF On
  <2>1. CASE undoneTwice
    BY <2>1
  <2>2. CASE boxes["rep"] = 0 + Stock!Carried(Stock!Places, {"rep"})
                            - Stock!Carried({"rep"}, Stock!Places) - sold
    BY <1>5, <1>7, <1>10, <2>2
  <2>. QED
    BY <1>6, <2>1, <2>2
<1>. QED
  BY <1>1, <1>11, <1>12 DEF Back

LEMMA RequestPagesAgree == RequestInv => Stock!PagesAgree
<1>. SUFFICES ASSUME RequestInv PROVE Stock!PagesAgree
  OBVIOUS
<1>0. StockTyped /\ Stock!TypeOK /\ OnShelf \in Nat
  BY DeskAssumption DEF DeskAssumption, RequestInv, StockTyped
<1>. DEFINE q == Stock!RequestSummary
            t == Stock!TransferSummary
<1>1. \A r \in Requests :
        /\ Stock!StaffOffered(r) # {} <=> Stock!RepOffered(r) # {}
        /\ Stock!QuickApproval(r) <=>
             r \in Stock!ActiveRequests /\ request[r].boxes <= boxes["shelf"]
  BY DEF Stock!StaffOffered, Stock!RepOffered, Stock!QuickApproval, Stock!Approvable,
         Stock!ActiveRequests, Stock!With, Stock!Made
<1>2. /\ boxes["shelf"] \in Nat /\ boxes["annex"] \in Nat
      /\ \A n \in Stock!Quantities : n \in Nat /\ n >= 1
  BY <1>0 DEF Stock!TypeOK, Stock!Places, Stock!Quantities
<1>3. {n \in Stock!CartForm : n <= boxes["shelf"]} = {n \in Stock!Quantities : n <= boxes["shelf"]}
  BY <1>2 DEF Stock!CartForm, Stock!CartOffers
<1>4. Stock!CartForm = {} <=> \A n \in Stock!Quantities : n > boxes["shelf"]
  <2>1. Stock!Quantities # {} => 1 \in Stock!Quantities
    BY <1>0 DEF Stock!Quantities
  <2>. QED
    BY <1>2, <2>1 DEF Stock!CartForm, Stock!CartOffers
<1>5. boxes["annex"] = 0 => \A n \in Stock!AddStockForm : n <= boxes["shelf"]
  BY <1>2 DEF Stock!AddStockForm, Stock!InTheLab
<1>6. Stock!TransferForm = Stock!Endpoints
  <2>1. Stock!TransferForm \subseteq Stock!Endpoints
    BY DEF Stock!TransferForm, Stock!Endpoints, Stock!Stores, Stock!Places
  <2>2. Stock!Endpoints \subseteq Stock!TransferForm
    BY DEF Stock!TransferForm, Stock!Endpoints, Stock!Stores, Stock!Places
  <2>. QED
    BY <2>1, <2>2
<1>7. \A i \in Stock!Ids : Stock!ReverseOffered(i) <=> Stock!Reversible(i)
  BY <1>0 DEF Stock!ReverseOffered, Stock!Reversible, Stock!Movements, Stock!TypeOK
<1>8. /\ Stock!ActiveRequests \cap Stock!CompletedRequests = {}
      /\ Stock!StaffHistory("ALL") = Stock!CompletedRequests
      /\ Stock!StaffHistory("PENDING") = Stock!ActiveRequests
  BY DEF Stock!ActiveRequests, Stock!CompletedRequests, Stock!StaffHistory, Stock!With
<1>9. /\ q.issued + q.pending + q.refused = q.totalRequests
      /\ Stock!Cardinality(Stock!ActiveRequests) = q.pending
  BY <1>0, EveryRequestCounts
<1>10. contested \cup cut = {} /\ (\A s \in Sessions : clerk[s].pc # "persist") =>
         /\ q.boxes = Stock!BoxesMoved({i \in Stock!Movements : transfer[i].for # Stock!Direct})
         /\ \A i \in Stock!Movements :
              transfer[i].for # Stock!Direct => transfer[i].for \in Stock!With("FULFILLED")
  BY IssuedBoxesLeft
<1>11. /\ t.boxes = t.destinations["shelf"] + t.destinations["annex"] + t.destinations["rep"]
       /\ undoneTwice \/
            sold + boxes["rep"] = t.destinations["rep"]
              - Stock!BoxesMoved({i \in Stock!Standing : transfer[i].from = "rep"})
  BY DestinationsAddUp
<1>. HIDE DEF q, t
<1>. QED
  BY <1>1, <1>3, <1>4, <1>5, <1>6, <1>7, <1>8, <1>9, <1>10, <1>11 DEF Stock!PagesAgree, q, t

(* "The boxes of a request leave the shelf once": for any number of        *)
(* requests, transfers and sessions, an approval dispatches at most once   *)
(* and its request says so, every place holds what the standing transfers  *)
(* carried there less what was sold, and the pages say the same, unless    *)
(* two sessions worked on one request or an approval died half done.       *)
THEOREM BoxesAlwaysFollowRequests == DeskSpec => []BoxesFollowRequests
<1>1. DeskInit => RequestInv
  BY StockInitInv DEF DeskInit
<1>2. RequestInv => BoxesFollowRequests
  BY RequestInvIssuesOnce, RequestPagesAgree DEF RequestInv, BoxInv, BoxesFollowRequests
<1>. QED
  BY <1>1, <1>2, StockStepKeeps, DeskStepsStock, PTL DEF DeskSpec

-----------------------------------------------------------------------------
(* The pages of the credit sales (SaleScreens).                            *)

(* What the pages need of one debt, also where two requests met: a balance *)
(* is what is left of the principal, on a debt that takes payments; a debt *)
(* flagged overdue is due; and a debt has a sale.                          *)
DebtRow(v) ==
  /\ sale[v].status = "NONE" <=> credit[v].status = "NONE"
  /\ credit[v].status = "NONE" => credit[v].balance = 0
  /\ credit[v].balance > 0 =>
       /\ credit[v].status \in {"OPEN", "PARTIAL", "OVERDUE"}
       /\ credit[v].balance = credit[v].principal - credit[v].amountPaid
  /\ credit[v].status = "OVERDUE" => v \in due
DebtRows == \A v \in Sales : DebtRow(v)
(* The principal a payment read is still the debt's. *)
PrincipalRead ==
  \A s \in Sessions : payer[s].pc = "pay" => payer[s].read.principal = credit[payer[s].of].principal
PageInv == DebtRows /\ PrincipalRead

LEMMA PageInitInv == Credit!Init => PageInv
BY DEF Credit!Init, PageInv, DebtRows, DebtRow, PrincipalRead, Credit!NoSale, Credit!NoCredit, Credit!Idle

(* One row was written, and its principal stands for whoever read it. *)
LEMMA DebtRowKeeps ==
  ASSUME CreditInv, PageInv, NEW v \in Sales, DebtRow(v)', due \subseteq due',
         \A w \in Sales : w # v => credit'[w] = credit[w] /\ sale'[w] = sale[w],
         credit[v].status # "NONE" => credit'[v].principal = credit[v].principal,
         \A s \in Sessions : payer'[s].pc = "pay" => payer'[s] = payer[s]
  PROVE  PageInv'
<1>1. DebtRows'
  BY DEF PageInv, DebtRows, DebtRow
<1>2. PrincipalRead'
  <2>. SUFFICES ASSUME NEW s \in Sessions, payer'[s].pc = "pay"
                PROVE  payer'[s].read.principal = credit'[payer'[s].of].principal
    BY DEF PrincipalRead
  <2>1. payer'[s] = payer[s] /\ payer[s].pc = "pay"
    OBVIOUS
  <2>2. /\ payer[s].of \in Sales /\ credit[payer[s].of].status # "NONE"
        /\ payer[s].read.principal = credit[payer[s].of].principal
    BY <2>1, WorkerKnows DEF PageInv, PrincipalRead
  <2>. QED
    BY <2>1, <2>2
<1>. QED
  BY <1>1, <1>2 DEF PageInv

LEMMA CreditSaleKeepsPage ==
  ASSUME CreditInv, PageInv, NEW v \in Sales, NEW total \in 1..MaxPrincipal,
         NEW down \in 0..MaxPrincipal, NEW late \in BOOLEAN, Credit!CreditSale(v, total, down, late)
  PROVE  PageInv'
<1>. DEFINE left == Credit!BalanceDue(total, down)
            account == [status |-> Credit!computeStatus(left, down, FALSE), principal |-> total,
                     amountPaid |-> down, balance |-> left]
            entry == [status |-> IF left = 0 THEN "PAID" ELSE IF down > 0 THEN "PARTIAL" ELSE "UNPAID",
                      amountPaid |-> down, balanceDue |-> left]
<1>1. total \in Nat /\ down \in Nat
  OBVIOUS
<1>2. /\ credit[v].status = "NONE" /\ credit' = [credit EXCEPT ![v] = account]
      /\ sale' = [sale EXCEPT ![v] = entry]
      /\ due \subseteq due' /\ payer' = payer
  BY DEF Credit!CreditSale
<1>3. /\ account.status # "NONE" /\ account.status # "OVERDUE" /\ entry.status # "NONE"
      /\ account.balance > 0 => account.status \in {"OPEN", "PARTIAL"} /\ account.balance = account.principal - account.amountPaid
  BY <1>1 DEF Credit!BalanceDue, Credit!computeStatus
<1>. HIDE DEF left, account, entry
<1>4. /\ credit'[v] = account /\ sale'[v] = entry
      /\ \A w \in Sales : w # v => credit'[w] = credit[w] /\ sale'[w] = sale[w]
  BY <1>2 DEF CreditInv, Credit!TypeOK
<1>5. DebtRow(v)'
  BY <1>3, <1>4 DEF DebtRow
<1>. QED
  BY <1>2, <1>4, <1>5, DebtRowKeeps

LEMMA RecordPaymentKeepsPage ==
  ASSUME CreditInv, PageInv, NEW s \in Sessions, Credit!RecordPayment(s)
  PROVE  PageInv'
<1>0. payer[s].pc = "pay"
  BY DEF Credit!RecordPayment
<1>. PICK v \in Sales : v = payer[s].of
  BY <1>0, WorkerKnows
<1>. DEFINE newPaid == payer[s].read.amountPaid + payer[s].amount
            newBalance == payer[s].read.principal - newPaid
            newStatus == Credit!computeStatus(newBalance, newPaid, v \in due)
            account == [credit[v] EXCEPT !.amountPaid = newPaid, !.balance = newBalance,
                                      !.status = newStatus]
            entry == [status |-> IF newBalance <= 0 THEN "PAID" ELSE "PARTIAL",
                      amountPaid |-> newPaid, balanceDue |-> newBalance]
<1>1. credit' = [credit EXCEPT ![v] = account] /\ sale' = [sale EXCEPT ![v] = entry]
      /\ payer' = [payer EXCEPT ![s] = Credit!Idle] /\ due' = due
  BY DEF Credit!RecordPayment
<1>2. /\ credit[v] \in Credit!Debts /\ payer[s].read \in Credit!Debts /\ payer[s].amount \in Nat
      /\ payer[s].read.principal = credit[v].principal
  BY <1>0, WorkerKnows DEF PageInv, PrincipalRead, CreditInv, Credit!TypeOK
<1>3. newPaid \in Nat /\ newBalance \in Int /\ newBalance = credit[v].principal - newPaid
  BY <1>2 DEF Credit!Debts
<1>4. /\ newStatus \in {"PAID", "OVERDUE", "PARTIAL", "OPEN"}
      /\ newBalance > 0 => newStatus # "PAID"
      /\ newStatus = "OVERDUE" => v \in due
  BY <1>3 DEF Credit!computeStatus
<1>. HIDE DEF newPaid, newBalance, newStatus
<1>5. /\ account.principal = credit[v].principal /\ account.amountPaid = newPaid
      /\ account.balance = newBalance /\ account.status = newStatus
  BY <1>2 DEF Credit!Debts
<1>6. entry.status # "NONE"
  OBVIOUS
<1>. HIDE DEF account, entry
<1>7. /\ credit'[v] = account /\ sale'[v] = entry
      /\ \A w \in Sales : w # v => credit'[w] = credit[w] /\ sale'[w] = sale[w]
  BY <1>1 DEF CreditInv, Credit!TypeOK
<1>8. DebtRow(v)'
  BY <1>1, <1>3, <1>4, <1>5, <1>6, <1>7 DEF DebtRow
<1>9. \A t \in Sessions : payer'[t].pc = "pay" => payer'[t] = payer[t]
  BY <1>1 DEF CreditInv, Credit!TypeOK, Credit!Idle
<1>. QED
  BY <1>1, <1>5, <1>7, <1>8, <1>9, DebtRowKeeps

LEMMA CancelSaleKeepsPage ==
  ASSUME CreditInv, PageInv, NEW s \in Sessions, Credit!CancelSale(s)
  PROVE  PageInv'
<1>0. payer[s].pc = "cancel"
  BY DEF Credit!CancelSale
<1>. PICK v \in Sales : v = payer[s].of
  BY <1>0, WorkerKnows
<1>. DEFINE account == [credit[v] EXCEPT !.status = "WRITTEN_OFF", !.balance = 0]
            entry == [sale[v] EXCEPT !.status = "CANCELLED", !.balanceDue = 0]
<1>1. credit[v] \in Credit!Debts /\ sale[v] \in Credit!SaleRows
  BY DEF CreditInv, Credit!TypeOK
<1>2. credit' = [credit EXCEPT ![v] = account] /\ sale' = [sale EXCEPT ![v] = entry]
      /\ payer' = [payer EXCEPT ![s] = Credit!Idle] /\ due' = due
  BY DEF Credit!CancelSale, CreditInv, Credit!TypeOK
<1>3. /\ account.principal = credit[v].principal /\ account.balance = 0 /\ account.status = "WRITTEN_OFF"
      /\ entry.status = "CANCELLED"
  BY <1>1 DEF Credit!Debts, Credit!SaleRows
<1>. HIDE DEF account, entry
<1>4. /\ credit'[v] = account /\ sale'[v] = entry
      /\ \A w \in Sales : w # v => credit'[w] = credit[w] /\ sale'[w] = sale[w]
  BY <1>2 DEF CreditInv, Credit!TypeOK
<1>5. DebtRow(v)'
  BY <1>3, <1>4 DEF DebtRow
<1>6. \A t \in Sessions : payer'[t].pc = "pay" => payer'[t] = payer[t]
  BY <1>2 DEF CreditInv, Credit!TypeOK, Credit!Idle
<1>. QED
  BY <1>2, <1>3, <1>4, <1>5, <1>6, DebtRowKeeps

LEMMA RefreshKeepsPage == ASSUME CreditInv, PageInv, Credit!refreshOverdue PROVE PageInv'
<1>1. /\ credit' = [v \in Sales |-> IF Credit!Flaggable(v)
                                     THEN [credit[v] EXCEPT !.status = "OVERDUE"] ELSE credit[v]]
      /\ UNCHANGED <<sale, due, payer>>
  BY DEF Credit!refreshOverdue
<1>2. ASSUME NEW v \in Sales PROVE DebtRow(v)' /\ credit'[v].principal = credit[v].principal
  <2>1. credit[v] \in Credit!Debts /\ DebtRow(v)
    BY DEF CreditInv, Credit!TypeOK, PageInv, DebtRows
  <2>2. CASE Credit!Flaggable(v)
    <3>1. credit'[v] = [credit[v] EXCEPT !.status = "OVERDUE"]
      BY <1>1, <2>2
    <3>2. /\ credit'[v].status = "OVERDUE" /\ credit'[v].principal = credit[v].principal
          /\ credit'[v].balance = credit[v].balance /\ credit'[v].amountPaid = credit[v].amountPaid
      BY <2>1, <3>1 DEF Credit!Debts
    <3>. QED
      BY <1>1, <2>1, <2>2, <3>2 DEF Credit!Flaggable, DebtRow
  <2>3. CASE ~Credit!Flaggable(v)
    BY <1>1, <2>1, <2>3 DEF DebtRow
  <2>. QED
    BY <2>2, <2>3
<1>3. DebtRows'
  BY <1>2 DEF DebtRows
<1>4. PrincipalRead'
  BY <1>1, <1>2, WorkerKnows DEF PageInv, PrincipalRead
<1>. QED
  BY <1>3, <1>4 DEF PageInv

(* The steps that write no account. *)
LEMMA DebtsStand ==
  ASSUME CreditInv, PageInv, due \subseteq due', UNCHANGED <<sale, credit>>,
         \A s \in Sessions : payer'[s].pc = "pay" =>
           payer'[s] = payer[s] \/ payer'[s].read = credit[payer'[s].of]
  PROVE  PageInv'
<1>1. DebtRows'
  BY DEF PageInv, DebtRows, DebtRow
<1>2. PrincipalRead'
  BY DEF PageInv, PrincipalRead
<1>. QED
  BY <1>1, <1>2 DEF PageInv

LEMMA PageStepKeeps == CreditInv /\ PageInv /\ [Credit!Next]_Credit!vars => PageInv'
<1>. SUFFICES ASSUME CreditInv, PageInv, [Credit!Next]_Credit!vars PROVE PageInv'
  OBVIOUS
<1>1. CASE UNCHANGED Credit!vars
  BY <1>1, DebtsStand DEF Credit!vars
<1>2. ASSUME NEW v \in Sales, Credit!DuePasses(v) PROVE PageInv'
  BY <1>2, DebtsStand DEF Credit!DuePasses
<1>3. ASSUME NEW s \in Sessions, NEW state, Credit!Begin(s, state),
             state.pc = "pay" => state.read = credit[state.of]
      PROVE  PageInv'
  <2>1. payer' = [payer EXCEPT ![s] = state] /\ UNCHANGED <<sale, credit, due>>
    BY <1>3 DEF Credit!Begin
  <2>2. \A t \in Sessions : payer'[t] = payer[t] \/ payer'[t] = state
    BY <2>1 DEF CreditInv, Credit!TypeOK
  <2>. QED
    BY <1>3, <2>1, <2>2, DebtsStand
<1>4. ASSUME NEW s \in Sessions, NEW v \in Sales, NEW n \in 1..MaxPrincipal, Credit!StartPayment(s, v, n)
      PROVE  PageInv'
  <2>1. Credit!Begin(s, [pc |-> "pay", of |-> v, read |-> credit[v], amount |-> n])
    BY <1>4 DEF Credit!StartPayment
  <2>. QED
    BY <1>3, <2>1
<1>5. ASSUME NEW s \in Sessions, NEW v \in Sales, Credit!StartCancel(s, v) PROVE PageInv'
  <2>1. Credit!Begin(s, [pc |-> "cancel", of |-> v])
    BY <1>5 DEF Credit!StartCancel
  <2>. QED
    BY <1>3, <2>1
<1>6. ASSUME NEW s \in Sessions, Credit!Rollback(s) PROVE PageInv'
  <2>1. payer' = [payer EXCEPT ![s] = Credit!Idle] /\ UNCHANGED <<sale, credit, due>>
    BY <1>6 DEF Credit!Rollback
  <2>2. \A t \in Sessions : payer'[t].pc = "pay" => payer'[t] = payer[t]
    BY <2>1 DEF CreditInv, Credit!TypeOK, Credit!Idle
  <2>. QED
    BY <2>1, <2>2, DebtsStand
<1>7. CASE Credit!Next
  BY <1>2, <1>4, <1>5, <1>6, <1>7, CreditSaleKeepsPage, RefreshKeepsPage, RecordPaymentKeepsPage,
     CancelSaleKeepsPage DEF Credit!Next
<1>. QED
  BY <1>1, <1>7

LEMMA CreditSums == ASSUME NEW f PROVE Credit!SumFunction(f) = SumFunction(f)
BY Zenon DEF Credit!SumFunction, Credit!SumFunctionOnSet, Credit!FoldFunctionOnSet,
  Credit!MapThenFoldSet, SumFunction, SumFunctionOnSet, FoldFunctionOnSet, MapThenFoldSet

LEMMA CreditCounts == ASSUME NEW S PROVE Credit!Cardinality(S) = Cardinality(S)
BY DEF Credit!Cardinality, Cardinality

LEMMA CountsAdd ==
  ASSUME NEW S, NEW T, IsFiniteSet(S), IsFiniteSet(T), S \cap T = {}
  PROVE  /\ IsFiniteSet(S \cup T) /\ Cardinality(S \cup T) = Cardinality(S) + Cardinality(T)
         /\ Cardinality(S) \in Nat /\ Cardinality(T) \in Nat
<1>1. Cardinality(S) \in Nat /\ Cardinality(T) \in Nat /\ Cardinality({}) = 0
  BY FS_CardinalityType, FS_EmptySet
<1>2. /\ IsFiniteSet(S \cup T)
      /\ Cardinality(S \cup T) = Cardinality(S) + Cardinality(T) - Cardinality(S \cap T)
  BY FS_Union
<1>3. Cardinality(S \cap T) = 0
  BY <1>1
<1>. QED
  BY <1>1, <1>2, <1>3

(* A sale is in exactly one chip. *)
LEMMA EverySaleHasAChip ==
  ASSUME CreditInv
  PROVE  Credit!AllStatuses = Credit!SaleSummary.sales + Credit!SaleSummary.cancelled
<1>. DEFINE In(status) == {v \in Credit!Recorded : sale[v].status = status}
            Names == {"PAID", "PARTIAL", "UNPAID", "CANCELLED"}
            chips == [status \in Names |-> Cardinality(In(status))]
<1>1. Credit!AllStatuses = SumFunction(chips)
  <2>1. Credit!ByStatus = chips
    BY CreditCounts DEF Credit!ByStatus
  <2>. QED
    BY <2>1, CreditSums DEF Credit!AllStatuses
<1>2. /\ Credit!SaleSummary.sales = Cardinality(Credit!Counted)
      /\ Credit!SaleSummary.cancelled = Cardinality(Credit!Recorded \ Credit!Counted)
  BY CreditCounts DEF Credit!SaleSummary
<1>3. Credit!Recorded \subseteq Sales /\ IsFiniteSet(Sales)
  BY DeskAssumption DEF Credit!Recorded, DeskAssumption
<1>4. \A v \in Credit!Recorded : sale[v].status \in Names
  BY DEF CreditInv, Credit!TypeOK, Credit!SaleRows, Credit!Recorded
<1>5. \A status : IsFiniteSet(In(status))
  <2>. SUFFICES ASSUME NEW status PROVE IsFiniteSet(In(status))
    OBVIOUS
  <2>1. In(status) \subseteq Sales
    BY <1>3
  <2>. QED
    BY <1>3, <2>1, FS_Subset
<1>6. /\ Credit!Counted = (In("PAID") \cup In("PARTIAL")) \cup In("UNPAID")
      /\ Credit!Recorded \ Credit!Counted = In("CANCELLED")
  BY <1>4 DEF Credit!Counted
<1>7. In("PAID") \cap In("PARTIAL") = {} /\ (In("PAID") \cup In("PARTIAL")) \cap In("UNPAID") = {}
  OBVIOUS
<1>8. /\ chips["PAID"] = Cardinality(In("PAID")) /\ chips["PARTIAL"] = Cardinality(In("PARTIAL"))
      /\ chips["UNPAID"] = Cardinality(In("UNPAID")) /\ chips["CANCELLED"] = Cardinality(In("CANCELLED"))
      /\ DOMAIN chips = Names
  OBVIOUS
<1>9. \A status \in Names : chips[status] \in Int
  <2>. SUFFICES ASSUME NEW status \in Names PROVE Cardinality(In(status)) \in Int
    OBVIOUS
  <2>. HIDE DEF In
  <2>1. Cardinality(In(status)) \in Nat
    BY <1>5, FS_CardinalityType
  <2>. QED
    BY <2>1
<1>. HIDE DEF In, chips
<1>10. SumFunction(chips) = chips["PAID"] + (chips["PARTIAL"] + (chips["UNPAID"] + (chips["CANCELLED"] + 0)))
  <2>. DEFINE Two == {"UNPAID", "CANCELLED"}
              Three == {"PARTIAL", "UNPAID", "CANCELLED"}
  <2>1. IsFiniteSet(Names) /\ IsFiniteSet(Three) /\ IsFiniteSet(Two) /\ IsFiniteSet({"CANCELLED"})
    <3>1. IsFiniteSet({"CANCELLED"})
      BY FS_Singleton
    <3>2. IsFiniteSet({"CANCELLED"} \cup {"UNPAID"})
      BY <3>1, FS_AddElement
    <3>3. IsFiniteSet(Two \cup {"PARTIAL"})
      <4>1. Two = {"CANCELLED"} \cup {"UNPAID"}
        OBVIOUS
      <4>. QED
        BY <3>2, <4>1, FS_AddElement
    <3>4. IsFiniteSet(Three \cup {"PAID"})
      <4>1. Three = Two \cup {"PARTIAL"}
        OBVIOUS
      <4>. QED
        BY <3>3, <4>1, FS_AddElement
    <3>5. /\ Two = {"CANCELLED"} \cup {"UNPAID"} /\ Three = Two \cup {"PARTIAL"}
          /\ Names = Three \cup {"PAID"}
      OBVIOUS
    <3>. QED
      BY <3>1, <3>2, <3>3, <3>4, <3>5
  <2>2. /\ Names \ {"PAID"} = Three /\ Three \ {"PARTIAL"} = Two
        /\ Two \ {"UNPAID"} = {"CANCELLED"} /\ {"CANCELLED"} \ {"CANCELLED"} = {}
    OBVIOUS
  <2>3. SumFunctionOnSet(chips, Names) = chips["PAID"] + SumFunctionOnSet(chips, Three)
    BY <1>9, <2>1, <2>2, SumOfOneMore
  <2>4. SumFunctionOnSet(chips, Three) = chips["PARTIAL"] + SumFunctionOnSet(chips, Two)
    BY <1>9, <2>1, <2>2, SumOfOneMore
  <2>5. SumFunctionOnSet(chips, Two) = chips["UNPAID"] + SumFunctionOnSet(chips, {"CANCELLED"})
    BY <1>9, <2>1, <2>2, SumOfOneMore
  <2>6. SumFunctionOnSet(chips, {"CANCELLED"}) = chips["CANCELLED"] + SumFunctionOnSet(chips, {})
    BY <1>9, <2>1, <2>2, SumOfOneMore
  <2>7. SumFunctionOnSet(chips, {}) = 0
    BY SumOfNothing
  <2>. QED
    BY <1>8, <2>3, <2>4, <2>5, <2>6, <2>7 DEF SumFunction
<1>11. /\ IsFiniteSet(In("PAID") \cup In("PARTIAL"))
       /\ Cardinality(In("PAID") \cup In("PARTIAL")) = Cardinality(In("PAID")) + Cardinality(In("PARTIAL"))
       /\ Cardinality(In("PAID")) \in Nat /\ Cardinality(In("PARTIAL")) \in Nat
  BY <1>5, <1>7, CountsAdd
<1>12. /\ Cardinality(Credit!Counted) = Cardinality(In("PAID") \cup In("PARTIAL")) + Cardinality(In("UNPAID"))
       /\ Cardinality(In("UNPAID")) \in Nat
  BY <1>5, <1>6, <1>7, <1>11, CountsAdd
<1>13. Cardinality(In("CANCELLED")) \in Nat
  BY <1>5, FS_CardinalityType
<1>14. Cardinality(Credit!Counted)
         = Cardinality(In("PAID")) + Cardinality(In("PARTIAL")) + Cardinality(In("UNPAID"))
  BY <1>11, <1>12
<1>15. SumFunction(chips) = Cardinality(In("PAID")) + Cardinality(In("PARTIAL"))
                            + Cardinality(In("UNPAID")) + Cardinality(In("CANCELLED"))
  BY <1>8, <1>10, <1>11, <1>12, <1>13
<1>16. Cardinality(Credit!Recorded \ Credit!Counted) = Cardinality(In("CANCELLED"))
  BY <1>6
<1>. QED
  BY <1>1, <1>2, <1>11, <1>12, <1>13, <1>14, <1>15, <1>16

(* The open debts, as the report and the customer's page add them up.      *)
OpenSum(S) == SumFunctionOnSet([v \in S |-> credit[v].balance], S)

LEMMA OpenDebts ==
  ASSUME CreditInv, PageInv
  PROVE  /\ IsFiniteSet(Credit!Open) /\ Credit!Open \subseteq Credit!Recorded
         /\ \A v \in Credit!Open : /\ credit[v].balance \in Nat
                                   /\ credit[v].balance = credit[v].principal - credit[v].amountPaid
                                   /\ credit[v].principal \in Int /\ credit[v].amountPaid \in Int
<1>1. Credit!Open \subseteq Sales /\ IsFiniteSet(Sales)
  BY DeskAssumption DEF Credit!Open, DeskAssumption
<1>2. \A v \in Sales : credit[v] \in Credit!Debts /\ DebtRow(v)
  BY DEF CreditInv, Credit!TypeOK, PageInv, DebtRows
<1>3. ASSUME NEW v \in Credit!Open
      PROVE  /\ v \in Credit!Recorded /\ credit[v].balance \in Nat
             /\ credit[v].balance = credit[v].principal - credit[v].amountPaid
             /\ credit[v].principal \in Int /\ credit[v].amountPaid \in Int
  <2>1. credit[v] \in Credit!Debts /\ DebtRow(v) /\ credit[v].balance > 0 /\ v \in Sales
    BY <1>2 DEF Credit!Open
  <2>2. credit[v].balance \in Int /\ credit[v].principal \in Nat /\ credit[v].amountPaid \in Nat
    BY <2>1 DEF Credit!Debts
  <2>. QED
    BY <2>1, <2>2 DEF DebtRow, Credit!Recorded
<1>. QED
  BY <1>1, <1>3, FS_Subset

LEMMA CollectedIsPrincipalLessDebt ==
  ASSUME CreditInv, PageInv
  PROVE  Credit!DebtSummary.totalPrincipal - Credit!DebtSummary.totalCollected
           = Credit!DebtSummary.totalOutstanding
<1>. DEFINE S == Credit!Open
            lent == [v \in S |-> credit[v].principal]
            got == [v \in S |-> credit[v].amountPaid]
            left == [v \in S |-> credit[v].balance]
<1>1. /\ Credit!DebtSummary.totalPrincipal = SumFunction(lent)
      /\ Credit!DebtSummary.totalCollected = SumFunction(got)
      /\ Credit!DebtSummary.totalOutstanding = SumFunction(left)
  BY CreditSums DEF Credit!DebtSummary
<1>2. IsFiniteSet(S) /\ lent \in [S -> Int] /\ got \in [S -> Int] /\ left \in [S -> Int]
  BY OpenDebts
<1>3. lent = [v \in S |-> left[v] + got[v]]
  <2>1. \A v \in S : lent[v] = left[v] + got[v]
    BY OpenDebts
  <2>. QED
    BY <2>1
<1>. HIDE DEF S, lent, got, left
<1>4. SumFunction(lent) = SumFunction(left) + SumFunction(got)
  BY <1>2, <1>3, SumOfSums
<1>5. SumFunction(left) \in Int /\ SumFunction(got) \in Int
  BY <1>2, SumFunctionIsInt
<1>. QED
  BY <1>1, <1>4, <1>5

(* Where no two requests met, the sales page and the debt report say the   *)
(* same is owed.                                                           *)
LEMMA SalesOweTheDebts ==
  ASSUME CreditInv, PageInv, overlapped = {}
  PROVE  /\ Credit!SaleSummary.owed = Credit!DebtSummary.totalOutstanding
         /\ Credit!SaleSummary.unpaid = Credit!DebtSummary.openAccounts
         /\ Credit!ListedDebts = Credit!Open
         /\ Credit!DebtSummary.overdueAmount <= Credit!SaleSummary.owed
<1>. DEFINE S == Credit!Open
            C == Credit!Counted
            owed == [v \in C |-> sale[v].balanceDue]
            left == [v \in S |-> credit[v].balance]
            late == [v \in S \cap due |-> credit[v].balance]
<1>1. /\ Credit!SaleSummary.owed = SumFunction(owed)
      /\ Credit!DebtSummary.totalOutstanding = SumFunction(left)
      /\ Credit!DebtSummary.overdueAmount = SumFunction(late)
      /\ Credit!SaleSummary.unpaid = Cardinality({v \in C : sale[v].balanceDue > 0})
      /\ Credit!DebtSummary.openAccounts = Cardinality(S)
  BY CreditSums, CreditCounts DEF Credit!DebtSummary, Credit!SaleSummary
<1>2. IsFiniteSet(S) /\ IsFiniteSet(C) /\ IsFiniteSet(S \cap due)
  <2>1. C \subseteq Sales /\ IsFiniteSet(Sales)
    BY DeskAssumption DEF Credit!Counted, Credit!Recorded, DeskAssumption
  <2>. QED
    BY <2>1, OpenDebts, FS_Subset
<1>3. ASSUME NEW v \in C
      PROVE  /\ credit[v].balance \in Nat /\ sale[v].balanceDue = credit[v].balance
             /\ v \in S <=> credit[v].balance > 0
  <2>1. v \in Sales /\ sale[v].status # "NONE" /\ sale[v].status # "CANCELLED"
    BY DEF Credit!Counted, Credit!Recorded
  <2>2. credit[v] \in Credit!Debts /\ received[v] \in Nat /\ DebtRow(v) /\ AddsUp(v)
    BY <2>1 DEF CreditInv, Credit!TypeOK, AllAddUp, PageInv, DebtRows
  <2>3. credit[v].status # "NONE" /\ credit[v].principal \in Nat
    BY <2>1, <2>2 DEF DebtRow, Credit!Debts
  <2>4. sale[v].balanceDue = credit[v].balance
        /\ credit[v].balance = Credit!BalanceDue(credit[v].principal, received[v])
    BY <2>1, <2>2, <2>3 DEF AddsUp
  <2>. QED
    BY <2>1, <2>2, <2>3, <2>4, BalanceDueType DEF Credit!Open
<1>4. S \subseteq C
  <2>. SUFFICES ASSUME NEW v \in S PROVE v \in C
    OBVIOUS
  <2>1. v \in Sales /\ v \in Credit!Recorded /\ credit[v].balance > 0
    BY OpenDebts DEF Credit!Open
  <2>2. AddsUp(v) /\ DebtRow(v)
    BY <2>1 DEF CreditInv, AllAddUp, PageInv, DebtRows
  <2>3. sale[v].status # "CANCELLED"
    BY <2>1, <2>2 DEF AddsUp, DebtRow, Credit!Recorded
  <2>. QED
    BY <2>1, <2>3 DEF Credit!Counted
<1>5. /\ \A v \in S : left[v] = owed[v]
      /\ \A v \in S \cap due : late[v] = owed[v]
      /\ \A v \in C : owed[v] \in Nat
      /\ \A v \in C \ S : owed[v] = 0
      /\ DOMAIN owed = C /\ DOMAIN left = S /\ DOMAIN late = S \cap due
  BY <1>3, <1>4
<1>6. {v \in C : sale[v].balanceDue > 0} = S
  BY <1>3, <1>4
<1>7. Credit!ListedDebts = S
  BY OpenDebts DEF Credit!ListedDebts, Credit!Open, Credit!Recorded
<1>. HIDE DEF S, C, owed, left, late
<1>8. SumFunction(left) = SumFunctionOnSet(owed, S) /\ SumFunction(late) = SumFunctionOnSet(owed, S \cap due)
  BY <1>2, <1>5, SumOfSame DEF SumFunction
<1>9. SumFunction(owed) = SumFunctionOnSet(owed, S) + SumFunctionOnSet(owed, C \ S)
  BY <1>2, <1>4, <1>5, SumOfParts DEF SumFunction
<1>10. SumFunctionOnSet(owed, C \ S) = 0
  <2>. DEFINE rest == [v \in C \ S |-> owed[v]]
  <2>1. IsFiniteSet(C \ S) /\ DOMAIN rest = C \ S /\ \A v \in C \ S : rest[v] = owed[v] /\ rest[v] = 0
    BY <1>2, <1>5, FS_Subset
  <2>. HIDE DEF rest
  <2>2. SumFunction(rest) = 0
    BY <2>1, SumOfZeros
  <2>3. SumFunctionOnSet(rest, C \ S) = SumFunctionOnSet(owed, C \ S)
    BY <2>1, SumOfSame
  <2>. QED
    BY <2>1, <2>2, <2>3 DEF SumFunction
<1>11. SumFunctionOnSet(owed, S) = SumFunctionOnSet(owed, S \cap due) + SumFunctionOnSet(owed, S \ (S \cap due))
  BY <1>2, <1>4, <1>5, SumOfParts
<1>12. /\ SumFunctionOnSet(owed, S) \in Int /\ SumFunctionOnSet(owed, S \cap due) \in Int
       /\ SumFunctionOnSet(owed, S \ (S \cap due)) \in Nat
  <2>. DEFINE A == S \ (S \cap due)
              rest == [v \in A |-> owed[v]]
  <2>1. IsFiniteSet(A) /\ A \subseteq C /\ DOMAIN rest = A /\ \A v \in A : rest[v] = owed[v] /\ rest[v] \in Nat
    BY <1>2, <1>4, <1>5, FS_Subset
  <2>. HIDE DEF A, rest
  <2>2. SumFunction(rest) \in Nat
    BY <2>1, SumFunctionIsNat
  <2>3. SumFunctionOnSet(rest, A) = SumFunctionOnSet(owed, A)
    BY <2>1, SumOfSame
  <2>4. SumFunctionOnSet(owed, A) \in Nat
    BY <2>1, <2>2, <2>3 DEF SumFunction
  <2>5. SumFunctionOnSet(owed, S) \in Int /\ SumFunctionOnSet(owed, S \cap due) \in Int
    BY <1>2, <1>4, <1>5, SumIsInt
  <2>. QED
    BY <2>4, <2>5 DEF A
<1>13. SumFunction(owed) = SumFunction(left)
  BY <1>8, <1>9, <1>10, <1>12
<1>14. SumFunction(late) <= SumFunction(owed)
  BY <1>8, <1>9, <1>10, <1>11, <1>12
<1>. QED
  BY <1>1, <1>6, <1>7, <1>13, <1>14 DEF S

LEMMA SalePagesAgree == CreditInv /\ PageInv => Credit!PagesAgree
<1>. SUFFICES ASSUME CreditInv, PageInv PROVE Credit!PagesAgree
  OBVIOUS
<1>1. Credit!AllStatuses = Credit!SaleSummary.sales + Credit!SaleSummary.cancelled
  BY EverySaleHasAChip
<1>2. Credit!CustomerStats.outstandingDebt = Credit!DebtSummary.totalOutstanding
  BY DEF Credit!CustomerStats, Credit!DebtSummary
<1>3. Credit!DebtSummary.totalPrincipal - Credit!DebtSummary.totalCollected
        = Credit!DebtSummary.totalOutstanding
  BY CollectedIsPrincipalLessDebt
<1>4. ASSUME NEW v \in Credit!Recorded
      PROVE  /\ Credit!CancelOffered(v) <=> Credit!MayCancel(sale[v].status)
             /\ credit[v].status = "OVERDUE" => v \in due
             /\ v \in Credit!ListedDebts => Credit!MayPay(credit[v], credit[v].balance)
  <2>1. v \in Sales /\ sale[v].status # "NONE"
    BY DEF Credit!Recorded
  <2>2. DebtRow(v) /\ credit[v].balance \in Int
    BY <2>1 DEF PageInv, DebtRows, CreditInv, Credit!TypeOK, Credit!Debts
  <2>3. v \in Credit!ListedDebts => Credit!MayPay(credit[v], credit[v].balance)
    BY <2>2 DEF Credit!ListedDebts, Credit!MayPay, DebtRow
  <2>. QED
    BY <2>1, <2>2, <2>3 DEF Credit!CancelOffered, Credit!MayCancel, DebtRow
<1>5. \A total \in 1..MaxPrincipal, down \in 0..MaxPrincipal :
        Credit!Shortfall(total, down) = Credit!BalanceDue(total, down)
  BY DEF Credit!Shortfall, Credit!BalanceDue
<1>6. overlapped = {} =>
        /\ Credit!SaleSummary.owed = Credit!DebtSummary.totalOutstanding
        /\ Credit!SaleSummary.unpaid = Credit!DebtSummary.openAccounts
        /\ Credit!ListedDebts = Credit!Open
        /\ Credit!DebtSummary.overdueAmount <= Credit!SaleSummary.owed
  BY SalesOweTheDebts
<1>. QED
  BY <1>1, <1>2, <1>3, <1>4, <1>5, <1>6 DEF Credit!PagesAgree

(* A step of the desks is a step of the credit sales or leaves them alone. *)
LEMMA DeskStepsCredit ==
  [DeskNext]_<<vars, goodsVars, people, tradeVars>> => [Credit!Next]_Credit!vars
BY DEF DeskNext, goodsVars, creditVars, Credit!vars

(* For any number of requests and sales: payments, debt and sale agree and *)
(* a cancelled sale put its boxes back once, unless two requests worked on *)
(* that sale at once; and the sales page, the debt report and the page of  *)
(* a customer show one debt.                                               *)
THEOREM CreditAlwaysAddsUp == DeskSpec => []CreditAddsUp
<1>1. DeskInit => CreditInv /\ PageInv
  BY CreditInitInv, PageInitInv DEF DeskInit
<1>2. CreditInv /\ PageInv => CreditAddsUp
  BY SalePagesAgree DEF CreditInv, AllAddUp, AddsUp, Credit!CreditAddsUp, CreditAddsUp
<1>. QED
  BY <1>1, <1>2, CreditStepKeeps, PageStepKeeps, DeskStepsCredit, PTL DEF DeskSpec
===============================================================================
