------------------------------- MODULE MCClock --------------------------------
(* The deadline of an order and the reminders that ring ahead of it, each   *)
(* with two sessions at once.  They are checked side by side: clock says    *)
(* which of the two moves, so the run explores the union of their           *)
(* behaviours and not the product.                                          *)
EXTENDS DeadlineClock, TLC

CONSTANTS Sweeps, FirstDue, SelfRungs, MaxTicks, MaxResets

ASSUME ReminderAssumption ==
  FirstDue \in Int /\ SelfRungs \in Int /\ MaxTicks \in Nat /\ MaxResets \in Nat

VARIABLES clock, time, due, live, stage, ladder, resets, rung, sweep, shifted, doubled, givenBack

Reminder == INSTANCE Reminders
  WITH Sessions <- Sweeps, First <- FirstDue, SelfHours <- SelfRungs,
       MaxTime <- MaxTicks, MaxMoves <- MaxResets,
       now <- time, deadline <- due, changes <- ladder, moves <- resets, h <- sweep,
       moved <- shifted, overlapped <- doubled

reminderVars == <<time, due, live, stage, ladder, resets, rung, sweep, shifted, doubled, givenBack>>

ClockInit == clock \in {"deadline", "reminder"} /\ Init /\ Reminder!Init
ClockNext ==
  \/ clock = "deadline" /\ Next /\ UNCHANGED <<clock, reminderVars>>
  \/ clock = "reminder" /\ Reminder!Next /\ UNCHANGED <<clock, vars>>
ClockSpec == ClockInit /\ [][ClockNext]_<<clock, vars, reminderVars>>

Symmetry == Permutations(Handlers) \cup Permutations(Sweeps)

-----------------------------------------------------------------------------
(* Reminders: no row leaves its type, each reminder rings once and in      *)
(* order, and a later deadline does not lose its own.                      *)
RemindersEscalate == Reminder!TypeOK /\ Reminder!RemindersEscalate
===============================================================================
