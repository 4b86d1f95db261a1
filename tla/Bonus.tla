-------------------------------- MODULE Bonus ---------------------------------
(***************************************************************************)
(* The sales bonus of one rep (src/server/src/services/bonus.service.js).  *)
(* Taking a bonus ends a run: the sales of the next one are counted from   *)
(* the moment it was paid.  The progress of the rep is a bundle of queries *)
(* taken as one read; the award is a later insert, held only by the unique *)
(* key of rule and run.  Every sale is worth one unit of a target; its     *)
(* date is taken before it commits, so it may turn up a tick later.        *)
(***************************************************************************)
EXTENDS Integers, FiniteSetsExt

CONSTANTS Sessions,   \* handlers that may be in flight together
          Tiers,      \* rows of BonusRule that may be created
          Sales,      \* settled sales that may be made
          MaxTarget,  \* bound: the target of a tier, and its amount
          MaxTime,    \* bound: ticks
          MaxEdits    \* bound: edits and switches of tiers

VARIABLES
  rule,      \* rule[t]: target, amount, effectiveFrom, isActive; or NoRule
  sold,      \* sold[v]: soldAt of a live sale, Unsold or Cancelled
  awards,    \* BonusAward rows, with the sales each was counted from
  now, edits,
  h,         \* h[s]: the statement session s runs next and what it has read
  crossed    \* history: two payments, or a payment and an edit, overlapped

vars == <<rule, sold, awards, now, edits, h, crossed>>

NoRule == [target |-> 0, amount |-> 0, from |-> 0, active |-> FALSE]
Unsold == -1
Cancelled == -2
Idle == [pc |-> "idle"]

Init ==
  /\ rule = [t \in Tiers |-> NoRule]
  /\ sold = [v \in Sales |-> Unsold]
  /\ awards = {} /\ now = 0 /\ edits = 0
  /\ h = [s \in Sessions |-> Idle]
  /\ crossed = FALSE

Run(s, state) == h' = [h EXCEPT ![s] = state]
Exists(t) == rule[t] # NoRule
InFlight(pc) == \E s \in Sessions : h[s].pc = pc

-----------------------------------------------------------------------------
(* activeTiers *)
activeTiers == {t \in Tiers : Exists(t) /\ rule[t].active /\ rule[t].from <= now}

(* cycleStartFor: the last payment, or the earliest start of a tier.       *)
(* Mutant: the last payment is forgotten. *)
CycleFromRules == Min({rule[t].from : t \in activeTiers})
CycleStart ==
  LET ruleStart == Min({rule[t].from : t \in activeTiers})
  IN Max({ruleStart} \cup {a.paidAt : a \in awards})

(* qualifyingSales, and progressForRep: the tiers within reach, and the    *)
(* dearest of them.                                                        *)
QualifyingSales == {v \in Sales : sold[v] >= CycleStart}
Reached == {t \in activeTiers : Cardinality(QualifyingSales) >= rule[t].target}
Claimable == {t \in Reached : \A u \in Reached : rule[u].target <= rule[t].target}

-----------------------------------------------------------------------------
(* payTier: the tier asked for, or the claimable one when that is not in   *)
(* play; then the insert, which the unique key may refuse.  The payment is *)
(* dated after what was read.                                              *)
StartPayment(s, asked) ==
  /\ h[s] = Idle /\ activeTiers # {}
  /\ \E t \in IF asked \in activeTiers THEN {asked} ELSE Claimable :
       /\ t \in Reached
       /\ Run(s, [pc |-> "pay", tier |-> t, amount |-> rule[t].amount, cycle |-> CycleStart,
                  counted |-> QualifyingSales])
  /\ crossed' = (crossed \/ InFlight("pay") \/ InFlight("edit"))
  /\ UNCHANGED <<rule, sold, awards, now, edits>>

PayTier(s) ==
  /\ h[s].pc = "pay" /\ now < MaxTime
  /\ now' = now + 1
  /\ LET t == h[s].tier
         award == [tier |-> t, cycle |-> h[s].cycle, amount |-> h[s].amount,
                   counted |-> h[s].counted, paidAt |-> now']
     IN IF \E a \in awards : a.tier = t /\ a.cycle = h[s].cycle
        THEN awards' = awards
        ELSE awards' = awards \cup {award}
  /\ Run(s, Idle)
  /\ UNCHANGED <<rule, sold, edits, crossed>>

(* An approved settlement makes a sale; it may be cancelled. *)
Approve(v, at) ==
  /\ sold[v] = Unsold /\ at \in {now, now - 1} /\ at >= 0
  /\ sold' = [sold EXCEPT ![v] = at]
  /\ UNCHANGED <<rule, awards, now, edits, h, crossed>>
CancelSale(v) ==
  /\ sold[v] >= 0
  /\ sold' = [sold EXCEPT ![v] = Cancelled]
  /\ UNCHANGED <<rule, awards, now, edits, h, crossed>>

-----------------------------------------------------------------------------
(* createRule; the start may lie behind or ahead. *)
CreateRule(t, target, amount, from) ==
  /\ ~Exists(t) /\ target > 0 /\ amount > 0
  /\ rule' = [rule EXCEPT ![t] =
       [target |-> target, amount |-> amount, from |-> from, active |-> TRUE]]
  /\ UNCHANGED <<sold, awards, now, edits, h, crossed>>

(* updateRule, of the figures or the start: refused once the tier has      *)
(* awards; the write comes later.                                          *)
Editable(t) == \A a \in awards : a.tier # t
StartUpdate(s, t) ==
  /\ h[s] = Idle /\ Exists(t) /\ Editable(t)
  /\ edits < MaxEdits /\ edits' = edits + 1
  /\ Run(s, [pc |-> "edit", tier |-> t])
  /\ crossed' = (crossed \/ InFlight("pay"))
  /\ UNCHANGED <<rule, sold, awards, now>>
UpdateRule(s, target, amount, from) ==
  /\ h[s].pc = "edit" /\ target > 0 /\ amount > 0
  /\ rule' = [rule EXCEPT ![h[s].tier].target = target, ![h[s].tier].amount = amount,
                          ![h[s].tier].from = from]
  /\ Run(s, Idle)
  /\ UNCHANGED <<sold, awards, now, edits, crossed>>
SetRuleActive(t) ==
  /\ Exists(t) /\ edits < MaxEdits
  /\ rule' = [rule EXCEPT ![t].active = ~@]
  /\ edits' = edits + 1
  /\ UNCHANGED <<sold, awards, now, h, crossed>>

Tick ==
  /\ now < MaxTime
  /\ now' = now + 1
  /\ UNCHANGED <<rule, sold, awards, edits, h, crossed>>
Crash(s) ==
  /\ h[s] # Idle
  /\ Run(s, Idle)
  /\ UNCHANGED <<rule, sold, awards, now, edits, crossed>>

-----------------------------------------------------------------------------
Next ==
  \/ \E s \in Sessions :
       \/ \E asked \in Tiers : StartPayment(s, asked) \/ StartUpdate(s, asked)
       \/ PayTier(s)
       \/ \E target, amount \in 1..MaxTarget, from \in 0..MaxTime :
            UpdateRule(s, target, amount, from)
       \/ Crash(s)
  \/ \E v \in Sales : CancelSale(v) \/ \E at \in 0..MaxTime : Approve(v, at)
  \/ \E t \in Tiers :
       \/ SetRuleActive(t)
       \/ \E target, amount \in 1..MaxTarget, from \in 0..MaxTime :
            CreateRule(t, target, amount, from)
  \/ Tick

-----------------------------------------------------------------------------
TypeOK ==
  /\ rule \in [Tiers -> [target : 0..MaxTarget, amount : 0..MaxTarget,
                         from : 0..MaxTime, active : BOOLEAN]]
  /\ sold \in [Sales -> {Unsold, Cancelled} \cup 0..MaxTime]
  /\ \A a \in awards : a.tier \in Tiers /\ a.counted \subseteq Sales /\ a.paidAt \in 0..now
  /\ now \in 0..MaxTime /\ edits \in 0..MaxEdits /\ crossed \in BOOLEAN

(* A sale counts toward one bonus at most, whatever tiers come, go, start  *)
(* earlier or are paid in between, and no later sale is counted from       *)
(* before the last payment; unless two payments overlapped, each of its    *)
(* own tier, which the unique key does not see.                            *)
EachSaleCountsOnce ==
  crossed \/ \A a, b \in awards : a # b => a.counted \cap b.counted = {}

(* "the target and amount behind it are a matter of record"                *)
(* (updateRule): the tier of an award still says what was paid and what    *)
(* was asked, unless an edit and the payment overlapped.                   *)
AwardedTermsStand ==
  crossed \/ \A a \in awards : /\ a.amount = rule[a.tier].amount
                              /\ Cardinality(a.counted) >= rule[a.tier].target
===============================================================================
