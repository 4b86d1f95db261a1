--------------------------------- MODULE Rates ---------------------------------
(***************************************************************************)
(* What a settled box earns: the rows of commission_rates, the copy every  *)
(* server process keeps of them for a minute, and the brand a product is   *)
(* filed under (src/server/src/services/commission.service.js; brands and  *)
(* products from namedResource.controller.js and products.service.js).     *)
(* A box is priced by the row in force when its order was issued, and any  *)
(* moment of the past may have an order, so nothing is kept of orders.     *)
(***************************************************************************)
EXTENDS Integers, FiniteSets

CONSTANTS Sessions,   \* handlers that may be in flight together
          Servers,    \* processes, each with a cache of its own
          Brands, Products,
          Keys,       \* brand names, normalised
          Others,     \* the brand of the fallback rows (NULL), and its key
          MaxRate,    \* bound: commission per box
          CacheLife,  \* RATE_CACHE_MS, in ticks
          MaxTime,    \* bound: ticks
          MaxWrites   \* bound: rates, renames and moves written

VARIABLES
  rates,    \* rows of commission_rates
  key,      \* key[b]: the normalised name of a brand
  brandOf,  \* the brand of a product
  cache,    \* cache[v]: the rows process v has read, and when
  now,
  h,        \* h[s]: the write session s is about to make
  written,  \* history: when something was written, and from when it counts
  writes    \* counter for the bound

vars == <<rates, key, brandOf, cache, now, h, written, writes>>

Idle == [pc |-> "idle"]
Elsewhere == "another process"
Cold == [rows |-> {}, at |-> -1]

(* The first migration leaves a fallback row from the beginning.           *)
Init ==
  /\ rates = {[brand |-> Others, perBox |-> 1, from |-> 0]}
  /\ key \in {k \in [Brands -> Keys] : \A b, c \in Brands : k[b] = k[c] => b = c}
  /\ brandOf \in [Products -> Brands]
  /\ cache = [v \in Servers |-> Cold]
  /\ now = 0
  /\ h = [s \in Sessions |-> Idle]
  /\ written = {} /\ writes = 0

Run(s, state) == h' = [h EXCEPT ![s] = state]
Write == writes < MaxWrites /\ writes' = writes + 1
Log(from) == written' = written \cup {[at |-> now, from |-> from]}

-----------------------------------------------------------------------------
(* allRates: the rows, each under the name its brand has now.              *)
TableOf(rows) ==
  {[key    |-> IF r.brand = Others THEN Others ELSE key[r.brand],
    perBox |-> r.perBox, from |-> r.from] : r \in rows}
Table == TableOf(rates)

(* pickRate: the latest row of the brand, else the latest fallback row; a  *)
(* set, for two fallback rows may start together.                          *)
(* Mutant: rows that have not started count. *)
PickAny(rows, k, t) ==
  LET own == {r \in rows : r.key = k}
      best == IF own # {} THEN own ELSE {r \in rows : r.key = Others}
  IN {r.perBox : r \in {r \in best : \A q \in best : q.from <= r.from}}
Pick(rows, k, t) ==
  LET started == {r \in rows : r.from <= t}
      own == {r \in started : r.key = k}
      best == IF own # {} THEN own ELSE {r \in started : r.key = Others}
  IN {r.perBox : r \in {r \in best : \A q \in best : q.from <= r.from}}

(* earnedForRep, earnedBetween, rateForProductOnOrder: a box of product p  *)
(* on an order issued at t, and what a process says it earns.              *)
BoxRate(p, t) == Pick(Table, key[brandOf[p]], t)
CacheLive(v) == cache[v] # Cold /\ now - cache[v].at < CacheLife
Quoted(v, p, t) ==
  IF CacheLive(v) THEN Pick(cache[v].rows, key[brandOf[p]], t) ELSE BoxRate(p, t)

(* Any pricing fills the cache of its process; a process may restart.      *)
ReadRates(v) ==
  /\ ~CacheLive(v)
  /\ cache' = [cache EXCEPT ![v] = [rows |-> Table, at |-> now]]
  /\ UNCHANGED <<rates, key, brandOf, now, h, written, writes>>
Restart(v) ==
  /\ cache[v] # Cold
  /\ cache' = [cache EXCEPT ![v] = Cold]
  /\ UNCHANGED <<rates, key, brandOf, now, h, written, writes>>

-----------------------------------------------------------------------------
(* createRate and deleteRate: only a start that lies ahead; the write, and *)
(* the clearing of this process's copy, come later.  Only the rows of a    *)
(* brand are kept apart by the unique key.                                 *)
(* Mutant: a rate may start this instant. *)
AheadOrNow(from) == from >= now
Ahead(from) == from > now

StartCreate(s, b, n, from) ==
  /\ h[s] = Idle /\ Ahead(from) /\ writes < MaxWrites
  /\ Run(s, [pc |-> "create", row |-> [brand |-> b, perBox |-> n, from |-> from], began |-> now])
  /\ UNCHANGED <<rates, key, brandOf, cache, now, written, writes>>
StartDelete(s, r) ==
  /\ h[s] = Idle /\ Ahead(r.from) /\ writes < MaxWrites
  /\ Run(s, [pc |-> "delete", row |-> r, began |-> now])
  /\ UNCHANGED <<rates, key, brandOf, cache, now, written, writes>>

Taken(row) ==
  row.brand # Others /\ \E r \in rates : r.brand = row.brand /\ r.from = row.from

WriteRate(s, v) ==
  LET row == h[s].row
      refused == h[s].pc = "create" /\ Taken(row)
  IN /\ h[s] # Idle /\ Write
     /\ rates' = CASE h[s].pc = "delete" -> rates \ {row}
                   [] refused -> rates
                   [] OTHER -> rates \cup {row}
     /\ cache' = IF refused \/ v = Elsewhere THEN cache ELSE [cache EXCEPT ![v] = Cold]
     /\ Log(row.from)
     /\ Run(s, Idle)
     /\ UNCHANGED <<key, brandOf, now>>

(* A brand is renamed, maybe to a name that reads the same as another's    *)
(* once normalised; a product is filed under another brand.                *)
RenameBrand(b, k) ==
  /\ Write /\ k # key[b]
  /\ key' = [key EXCEPT ![b] = k]
  /\ Log(0)
  /\ UNCHANGED <<rates, brandOf, cache, now, h>>
MoveProduct(p, b) ==
  /\ Write /\ b # brandOf[p]
  /\ brandOf' = [brandOf EXCEPT ![p] = b]
  /\ Log(0)
  /\ UNCHANGED <<rates, key, cache, now, h>>

Tick ==
  /\ now < MaxTime
  /\ now' = now + 1
  /\ UNCHANGED <<rates, key, brandOf, cache, h, written, writes>>

-----------------------------------------------------------------------------
(* CommissionRateSettings: the rates the form takes, and the rows with a   *)
(* Remove button; RatesCard: what an order made now would earn.            *)
RateForm ==
  {r \in [brand : Brands \cup {Others}, perBox : 1..MaxRate, from : 0..MaxTime] : r.from > now}
RemoveOffered == {r \in rates : r.from > now}
RateCard == [p \in Products |-> BoxRate(p, now)]

Next ==
  \/ \E s \in Sessions :
       \/ \E b \in Brands \cup {Others}, n \in 1..MaxRate, from \in 0..MaxTime :
            StartCreate(s, b, n, from)
       \/ \E r \in rates : StartDelete(s, r)
       \/ \E v \in Servers \cup {Elsewhere} : WriteRate(s, v)
  \/ \E v \in Servers : ReadRates(v) \/ Restart(v)
  \/ \E b \in Brands, k \in Keys : RenameBrand(b, k)
  \/ \E p \in Products, b \in Brands : MoveProduct(p, b)
  \/ Tick

-----------------------------------------------------------------------------
TypeOK ==
  /\ rates \subseteq [brand : Brands \cup {Others}, perBox : 1..MaxRate, from : 0..MaxTime]
  /\ key \in [Brands -> Keys] /\ brandOf \in [Products -> Brands]
  /\ \A v \in Servers : cache[v] = Cold \/ cache[v].at \in 0..now
  /\ now \in 0..MaxTime

(* Every box has a price, one price, unless two fallback rates start at    *)
(* one instant (the unique key does not see rows without a brand) or two   *)
(* brands read the same; and every process quotes it, until CacheLife      *)
(* after something that bears on that box was written.                     *)
Collision == \E b, c \in Brands : b # c /\ key[b] = key[c]
Tied == \E r, q \in rates : r # q /\ r.brand = q.brand /\ r.from = q.from
QuotesAgree ==
  \A p \in Products, t \in 0..now :
    /\ Cardinality(BoxRate(p, t)) = 1 \/ Tied \/ Collision
    /\ \A v \in Servers :
         \/ Quoted(v, p, t) = BoxRate(p, t)
         \/ \E w \in written : w.from <= t /\ now - w.at < CacheLife

(* "Only a rate that has not priced anything yet can be taken back"        *)
(* (CommissionRateSettings), nor may a new one price anything yet: with    *)
(* any row of the form, or without any row it offers to remove, boxes      *)
(* issued so far earn the same, and the card of rates still holds.         *)
PagesAgree ==
  LET priced(rows) ==
        [p \in Products |-> [t \in 0..now |-> Pick(TableOf(rows), key[brandOf[p]], t)]]
  IN /\ \A r \in RateForm : priced(rates \cup {r}) = priced(rates)
     /\ \A r \in RemoveOffered : priced(rates \ {r}) = priced(rates)
     /\ \A p \in Products : RateCard[p] = priced(rates)[p][now]

(* "no settled box can be re-priced" (createRate): what a box of an order  *)
(* issued by now earns never changes, unless its product moves to another  *)
(* brand, two brands come to read the same or no longer do, or a rate      *)
(* lands after the start it was let in for has passed.                     *)
OverTaken(s) == h[s] # Idle /\ h[s].row.from > h[s].began /\ h[s].row.from <= now
PriceStands ==
  \A p \in Products, t \in 0..now :
    \/ BoxRate(p, t)' = BoxRate(p, t)
    \/ brandOf'[p] # brandOf[p]
    \/ Collision \/ Collision'
    \/ \E s \in Sessions : OverTaken(s) /\ h'[s] = Idle
===============================================================================
