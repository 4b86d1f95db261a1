------------------------------- MODULE Reminders --------------------------------
(***************************************************************************)
(* The reminders of one order before its deadline (sendDueReminders of     *)
(* src/server/src/services/settlement.service.js) and everything that      *)
(* moves the deadline or re-arms them.  A sweep reads the order, claims    *)
(* the stage with a conditional update, and rings the bell afterwards;     *)
(* three triggers start sweeps, so they overlap.  Time is counted in       *)
(* steps of the reminder ladder: 1 is the last hour, 2 up to six hours, 3  *)
(* up to a day.                                                            *)
(***************************************************************************)
EXTENDS Integers, SequencesExt

CONSTANTS Sessions,    \* sweeps that may be in flight together
          First,       \* the deadline the order is issued with
          SelfHours,   \* SELF_EXTENSION_HOURS on the ladder
          MaxTime,     \* bound: ticks
          MaxMoves     \* bound: changes of the deadline and undos

VARIABLES
  now, deadline, live,
  stage,     \* reminderStage
  changes,   \* the changes that still stand: shift, when, by the rep or not
  moves,     \* how often the deadline was set, for the bound
  rung,      \* history: the reminders that rang since it was set last
  h,         \* h[s]: the statement sweep s runs next and what it has read
  moved,     \* history: the deadline moved while a sweep was under way
  overlapped,\* history: two sweeps were under way at once
  givenBack  \* history: the hours of a dropped return moved the deadline

vars == <<now, deadline, live, stage, changes, moves, rung, h, moved, overlapped, givenBack>>
history == <<moves, rung, h, overlapped>>

Idle == [pc |-> "idle"]
Init ==
  /\ now = 0 /\ deadline = First /\ live = TRUE
  /\ stage = 0 /\ changes = <<>> /\ moves = 0 /\ rung = <<>>
  /\ h = [s \in Sessions |-> Idle]
  /\ moved = FALSE /\ overlapped = FALSE /\ givenBack = FALSE

Run(s, state) == h' = [h EXCEPT ![s] = state]
Sweeping == \E s \in Sessions : h[s] # Idle

-----------------------------------------------------------------------------
(* reminderStageFor: one rung a step, none for an order past its deadline. *)
reminderStageFor(left) == IF left \in 1..3 THEN 4 - left ELSE 0

StartSweep(s) ==
  /\ h[s] = Idle /\ live
  /\ reminderStageFor(deadline - now) > stage
  /\ Run(s, [pc |-> "claim", stage |-> reminderStageFor(deadline - now)])
  /\ overlapped' = (overlapped \/ Sweeping)
  /\ UNCHANGED <<now, deadline, live, stage, changes, moves, rung, moved, givenBack>>

(* The claim: whatever has become of the order, the stage must be ahead of *)
(* the stored one.                                                         *)
(* Mutant: a plain update that trusts the earlier read. *)
AheadBlindly(k) == TRUE
Ahead(k) == stage < k
Claim(s) ==
  /\ h[s].pc = "claim"
  /\ IF Ahead(h[s].stage)
     THEN stage' = h[s].stage
          /\ Run(s, [pc |-> "ring", stage |-> h[s].stage, late |-> FALSE])
     ELSE stage' = stage /\ Run(s, Idle)
  /\ UNCHANGED <<now, deadline, live, changes, moves, rung, moved, overlapped, givenBack>>

(* notifyUser; the copy for the phone is Outbox's. *)
Ring(s) ==
  /\ h[s].pc = "ring"
  /\ rung' = IF h[s].late THEN rung ELSE Append(rung, h[s].stage)
  /\ Run(s, Idle)
  /\ UNCHANGED <<now, deadline, live, stage, changes, moves, moved, overlapped, givenBack>>

-----------------------------------------------------------------------------
(* The deadline is set, with the stage that goes with it; what was claimed *)
(* before still rings, for the old one.                                    *)
Rearmed(to) == IF to <= now THEN 3 ELSE 0
Move(to) ==
  /\ live
  /\ deadline' = to
  /\ stage' = Rearmed(to)
  /\ moves < MaxMoves /\ moves' = moves + 1
  /\ rung' = <<>>
  /\ h' = [s \in Sessions |-> IF h[s].pc = "ring" THEN [h[s] EXCEPT !.late = TRUE] ELSE h[s]]
  /\ moved' = (moved \/ Sweeping)
  /\ UNCHANGED <<now, live, overlapped, givenBack>>

(* extendDeadline: any time still ahead; selfExtend: once, before the      *)
(* deadline.                                                               *)
Change(to, self) ==
  /\ changes' = Append(changes, [shift |-> to - deadline, at |-> now, self |-> self])
  /\ Move(to)
ExtendDeadline(to) == to > now /\ Change(to, FALSE)
SelfExtend ==
  /\ now <= deadline
  /\ ~\E k \in DOMAIN changes : changes[k].self
  /\ Change(deadline + SelfHours, TRUE)

(* undoDeadlineChange takes back the last change, or all of them, if the   *)
(* order was not overdue when the time was given.  Here the deadline may   *)
(* come to lie in the past, and then no reminder is owed.                  *)
UndoDeadlineChange(all) ==
  LET k == IF all THEN 1 ELSE Len(changes)
      to == deadline - SumFunction([i \in k..Len(changes) |-> changes[i].shift])
  IN /\ changes # <<>>
     /\ to >= changes[k].at
     /\ changes' = SubSeq(changes, 1, k - 1)
     /\ Move(to)

(* rejectReturn, cancelReturn and the expiry of a return give the hours it *)
(* waited back, and leave the stage alone.                                 *)
GiveBack ==
  /\ live /\ ~givenBack
  /\ givenBack' = TRUE
  /\ deadline' = deadline + 1
  /\ moved' = (moved \/ Sweeping)
  /\ UNCHANGED <<now, live, stage, changes, history>>

Settle ==
  /\ live /\ live' = FALSE
  /\ UNCHANGED <<now, deadline, stage, changes, history, moved, givenBack>>
Tick ==
  /\ now < MaxTime /\ now' = now + 1
  /\ UNCHANGED <<deadline, live, stage, changes, history, moved, givenBack>>
(* The process dies; a stage that was claimed never rings. *)
Crash(s) ==
  /\ h[s] # Idle /\ Run(s, Idle)
  /\ UNCHANGED <<now, deadline, live, stage, changes, moves, rung, moved, overlapped, givenBack>>

Next ==
  \/ \E s \in Sessions : StartSweep(s) \/ Claim(s) \/ Ring(s) \/ Crash(s)
  \/ \E to \in 1..(MaxTime + 1) : ExtendDeadline(to)
  \/ SelfExtend \/ (\E all \in BOOLEAN : UndoDeadlineChange(all))
  \/ GiveBack \/ Settle \/ Tick

-----------------------------------------------------------------------------
TypeOK ==
  /\ now \in 0..MaxTime /\ deadline \in Int /\ stage \in 0..3
  /\ {live, moved, overlapped, givenBack} \subseteq BOOLEAN
  /\ moves \in 0..MaxMoves

(* "each reminder goes out exactly once even if two sweeps race"           *)
(* (sendDueReminders), read as at most once for each time the reminders    *)
(* were armed; sweeps that do not overlap ring them in order; and a stage  *)
(* that counts as reminded is one the deadline has reached, so a later     *)
(* deadline does not lose its reminders - unless it moved while a sweep    *)
(* was under way, or by the hours of a dropped return, which re-arm        *)
(* nothing.                                                                *)
RemindersEscalate ==
  /\ \A i, j \in DOMAIN rung :
       i < j => rung[i] # rung[j] /\ (overlapped \/ rung[i] < rung[j])
  /\ stage > 0 => moved \/ givenBack \/ deadline - now <= 4 - stage
===============================================================================
