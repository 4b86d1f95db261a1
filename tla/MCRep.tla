------------------------------- MODULE MCRep ----------------------------------
(* What the page of a rep stands on - its orders with their deadlines, its  *)
(* payouts, its bonus and the rates its boxes earn, each with the screens   *)
(* that show it - checked side by side: desk says which of the four moves,  *)
(* so the run explores the union of their behaviours, not the product.      *)
EXTENDS OrderScreens, TLC

CONSTANTS r1,
  Handlers, Withdrawals, Fines, Minimum, Floor, Window,
  MaxEarned, MaxAmount, MaxOpens, MaxChanges, MaxClock,
  Tiers, MaxTarget, MaxDate, MaxEdits,
  Admins, Processes, Brands, Names, Soap, Others, CacheLife, MaxRate, MaxDay, MaxWrites

(* The fallback rate has no brand (NULL), so no name either.  A minimum of *)
(* zero counts as none set (getRule); a request may be as large as the     *)
(* floor.                                                                  *)
ASSUME RepAssumption ==
  /\ IsFiniteSet(Withdrawals) /\ Others \notin Brands \cup Names
  /\ Minimum \in Nat \ {0} /\ Floor \in 1..MaxAmount /\ MaxEdits \in Nat
  /\ MaxAmount \in Nat /\ MaxEarned \in Nat /\ MaxClock \in Nat
  /\ MaxTarget \in Nat /\ MaxDate \in Nat
  /\ MaxRate \in Nat \ {0} /\ CacheLife \in Nat /\ MaxDay \in Nat

AllToOneRep == [o \in Orders |-> r1]

VARIABLES desk,
  gross, adjustment, onCommission, fine, windowAt, req, withheld, clock,
  asking, shifts, opened, debits, raced, disputed,
  rule, sold, awards, date, edits, paying, tangled,
  rates, key, brandOf, cache, day, editing, written, writes

Payout == INSTANCE PayoutScreens
  WITH Requests <- Withdrawals, MaxTime <- MaxClock,
       held <- withheld, now <- clock, h <- asking, changes <- shifts, crossed <- disputed
Tier == INSTANCE BonusScreens
  WITH Sessions <- Handlers, Sales <- Withdrawals, MaxTime <- MaxDate,
       now <- date, h <- paying, crossed <- tangled
Rate == INSTANCE Rates
  WITH Sessions <- Admins, Servers <- Processes, Products <- Soap, Keys <- Names, MaxTime <- MaxDay,
       now <- day, h <- editing

payoutVars == <<gross, adjustment, onCommission, fine, windowAt, req, withheld, clock,
                asking, shifts, opened, debits, raced, disputed>>
bonusVars == <<rule, sold, awards, date, edits, paying, tangled>>
rateVars == <<rates, key, brandOf, cache, day, editing, written, writes>>

RepInit ==
  /\ desk \in {"orders", "payout", "bonus", "rates"}
  /\ Init /\ Payout!Init /\ Tier!Init /\ Rate!Init
  /\ gross = (IF desk = "payout" THEN 2 ELSE 0)
  /\ key = (CHOOSE k \in [Brands -> Names] : \A b, c \in Brands : k[b] = k[c] => b = c)
  /\ brandOf = [p \in Soap |-> CHOOSE b \in Brands : TRUE]

RepNext ==
  \/ desk = "orders" /\ Next /\ UNCHANGED <<desk, payoutVars, bonusVars, rateVars>>
  \/ desk = "payout" /\ Payout!Next /\ UNCHANGED <<desk, vars, bonusVars, rateVars>>
  \/ desk = "bonus" /\ Tier!Next /\ UNCHANGED <<desk, vars, payoutVars, rateVars>>
  \/ desk = "rates" /\ Rate!Next /\ UNCHANGED <<desk, vars, payoutVars, bonusVars>>

RepSpec == RepInit /\ [][RepNext]_<<desk, vars, payoutVars, bonusVars, rateVars>>

Symmetry ==
  Permutations(Handlers) \cup Permutations(Withdrawals) \cup Permutations(Tiers)

-----------------------------------------------------------------------------
(* The type invariants: no row leaves its type, and what is withheld from  *)
(* a commission balance is the sum of the requests not rejected.           *)
RepTypeOK ==
  CASE desk = "orders" -> TypeOK
    [] desk = "payout" -> Payout!TypeOK
    [] desk = "bonus" -> Tier!TypeOK
    [] desk = "rates" -> Rate!TypeOK

(* What the pages of a rep let people send, on data just read, is what the *)
(* services take: settlements, returns and changes of an order; requests   *)
(* and decisions of a payout; payments and edits of a bonus; rates that    *)
(* have priced nothing yet.                                                *)
PagesAreAccepted ==
  CASE desk = "orders" -> FormsAreAccepted
    [] desk = "payout" -> Payout!PagesAgree
    [] desk = "bonus" -> Tier!PagesAgree
    [] desk = "rates" -> Rate!PagesAgree

(* Payouts: requests never overdraw the balance, one window serves one     *)
(* request.                                                                *)
RequestsFit == desk = "payout" => Payout!NeverOverdrawn /\ Payout!OneRequestPerWindow
(* Payouts: a decision stands.  Rates: what a box of an order already      *)
(* issued earns never changes, but by a move of its product or its brand's *)
(* name.                                                                   *)
DecisionsStand ==
  /\ [][desk = "payout" => Payout!Stands]_payoutVars
  /\ [][desk = "rates" => Rate!PriceStands]_rateVars
(* Bonus: a sale counts toward one bonus, and what a bonus was paid for    *)
(* stays on record.  Rates: a box has one price and every process quotes   *)
(* it, but for a copy read just before a write.                            *)
AwardsStand ==
  /\ desk = "bonus" => Tier!EachSaleCountsOnce /\ Tier!AwardedTermsStand
  /\ desk = "rates" => Rate!QuotesAgree
===============================================================================
