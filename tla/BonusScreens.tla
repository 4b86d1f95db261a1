----------------------------- MODULE BonusScreens -----------------------------
(***************************************************************************)
(* What the owner and the rep read of the sales bonus, and the buttons     *)
(* they get: progressForRep and summaryAllReps of bonus.service.js, shown  *)
(* by BonusSettings and BonusCell of Commissions.jsx, BonusProgress.jsx    *)
(* and ProgressRows.jsx, over the state of Bonus.  Nothing here changes    *)
(* the state.                                                              *)
(***************************************************************************)
EXTENDS Bonus

(* progressForRep: the tiers in play against the sales of the run.         *)
Configured == activeTiers # {}
Reward == Cardinality(QualifyingSales)
Remaining(t) == Max({0, rule[t].target - Reward})
NextTier == {t \in activeTiers \ Reached :
            \A u \in activeTiers \ Reached : rule[t].target <= rule[u].target}
Top == {t \in activeTiers : \A u \in activeTiers : rule[u].target <= rule[t].target}

(* The tier a bar or a sentence is about: the next one, or the top one.    *)
Aim == IF NextTier # {} THEN NextTier ELSE Top

(* BonusSettings: a button for every tier passed; the figures of a rule    *)
(* may be edited while nothing was awarded under it.                       *)
(* Mutant: a button for every tier in play. *)
PayOfferedAll == activeTiers
PayOffered == IF Configured THEN Reached ELSE {}
EditOffered == {t \in Tiers : Exists(t) /\ {a \in awards : a.tier = t} = {}}

(* payTier on what was just read: the tiers it pays when t is asked for.   *)
PaysFor(t) ==
  {u \in IF t \in activeTiers THEN {t} ELSE Claimable : Configured /\ u \in Reached}

(* BonusCell and the line under BonusProgress: money earned, and money     *)
(* ahead with the distance to it.                                          *)
Earned == IF Configured THEN Claimable ELSE {}
Ready == Earned # {}

-----------------------------------------------------------------------------
(* The page and the service agree, on data just read: the button of a tier *)
(* pays that tier and every tier that can be taken has one; a rule is open *)
(* to edits exactly when updateRule takes them; the bonus named as earned  *)
(* is the best on offer and the one ahead lies beyond it; the bar is green *)
(* exactly when a bonus can be taken; and a run begins with nothing but    *)
(* the sales dated at or after the payment that ended the last.            *)
PagesAgree ==
  /\ \A t \in PayOffered : PaysFor(t) = {t}
  /\ \A t \in activeTiers : PaysFor(t) # {} => t \in PayOffered
  /\ \A t \in Tiers : t \in EditOffered <=> Exists(t) /\ Editable(t)
  /\ Ready <=> PayOffered # {}
  /\ \A t \in Earned, u \in NextTier :
       rule[t].target < rule[u].target /\ Remaining(t) = 0 /\ Remaining(u) > 0
  /\ \A t \in Aim : Remaining(t) = 0 => activeTiers = Reached
  /\ Configured /\ awards # {} =>
       \A v \in QualifyingSales, a \in awards : sold[v] >= a.paidAt
===============================================================================
