---------------------------- MODULE DeadlineClock ----------------------------
(***************************************************************************)
(* The deadline of one order, the fines it draws and the hours it gets     *)
(* back, with the handlers that move it running side by side.              *)
(*                                                                         *)
(* Most of these handlers read the order, decide, and write what they      *)
(* decided without looking again; only the undo claims the row in the      *)
(* state it was read in.  A step of a session is one statement, or one     *)
(* transaction of writes.  Time is counted in days and the order is issued *)
(* on day 1; 0 stands for a null date.                                     *)
(***************************************************************************)
EXTENDS Integers, FiniteSetsExt, SequencesExt

CONSTANTS
  Handlers,    \* requests that may be in flight together
  Sweepers,    \* fine sweeps that may be in flight beside them
  Rets,        \* returns the rep may file against the order
  Window,      \* SETTLEMENT_WINDOW_HOURS, in days
  Extension,   \* SELF_EXTENSION_HOURS, in days
  MaxTime,     \* bound: the last day
  MaxChanges,  \* bound: deadline changes of the order
  MaxCrashes   \* bound: handlers that die half way

ASSUME ClockAssumption ==
  /\ Handlers \cap Sweepers = {}
  /\ {Window, Extension, MaxTime} \subseteq Nat \ {0}
  /\ {MaxChanges, MaxCrashes} \subseteq Nat

VARIABLES
  now,       \* the day
  deadline,  \* Settlement.deadlineAt
  from,      \* Settlement.penaltyFrom, 0 when null
  ext,       \* Settlement.selfExtendedAt is set
  status,    \* Settlement.status; PARTIAL is OPEN here
  changes,   \* SettlementDeadlineChange rows, oldest first
  ret,       \* status of each return
  filed,     \* Return.processedAt
  fines,     \* fines[d]: fines with daysOverdue = d; 0 is the expiry fine
  credit,    \* history: days given back for returns that waited
  stale,     \* history: a handler wrote over an order it had not read
  crashes,   \* history: handlers that died
  job        \* what each session is doing, and what it has read

order == <<deadline, from, ext, status, changes>>
vars == <<now, deadline, from, ext, status, changes, ret, filed, fines, credit,
          stale, crashes, job>>

Sessions == Handlers \cup Sweepers
Days == 0..MaxTime
Idle == [at |-> "idle"]
At(s, at) == job[s].at = at

(* The order as a statement reads it. *)
Order == [deadline |-> deadline, from |-> from, ext |-> ext, status |-> status,
          changes |-> changes]

Init ==
  /\ now = 1
  /\ deadline = 1 + Window
  /\ from = 0 /\ ext = FALSE /\ status = "OPEN" /\ changes = <<>>
  /\ ret = [t \in Rets |-> "NONE"]
  /\ filed = [t \in Rets |-> 0]
  /\ fines = [d \in Days |-> 0]
  /\ credit = 0
  /\ stale = FALSE
  /\ crashes = 0
  /\ job = [s \in Sessions |-> Idle]

-----------------------------------------------------------------------------
MaxOf(a, b) == IF a > b THEN a ELSE b

(* effectiveStatus, fineClockStart, penaltyDaysDue, chargeablePause.       *)
EffectiveStatus(o) ==
  IF o.status # "SETTLED" /\ now > o.deadline THEN "OVERDUE" ELSE o.status
FineClockStart(o) == MaxOf(o.deadline, o.from)
PenaltyDaysDue(o, day) == 1 + day - FineClockStart(o)
ChargeablePause(o, start, end) == MaxOf(0, end - MaxOf(start, o.from))

(* The daily fines on record: the expiry fine, day 0, is not one of them.  *)
(* Mutant: the fine of the first day is not counted. *)
ChargedAfterFirstDay == SumFunction([d \in Days \ {0, 1} |-> fines[d]])
(* Mutant: every fine of the order is counted. *)
ChargedOfAnyKind == SumFunction(fines)
Charged == SumFunction([d \in Days \ {0} |-> fines[d]])
NothingDue(due) == due <= Charged
AnyFine == \E d \in Days : fines[d] > 0
Pending == {t \in Rets : ret[t] = "PENDING"}

Open(chs) == {k \in DOMAIN chs : ~chs[k].undone}
Shift(chs, K) == SumFunction([k \in K |-> chs[k].shift])
Row(kind, shift) == [kind |-> kind, shift |-> shift, at |-> now, undone |-> FALSE]

(* A session: what it runs next, and what it has read so far.              *)
Proceed(s, r) == job' = [job EXCEPT ![s] = r]
End(s) == job' = [job EXCEPT ![s] = Idle]
Start(s, r) == At(s, "idle") /\ job' = [job EXCEPT ![s] = r]
Stored == UNCHANGED <<now, order, ret, filed, fines, credit, stale, crashes>>

-----------------------------------------------------------------------------
(* selfExtend: once, and only before the deadline. *)
Extendable(o) == EffectiveStatus(o) = "OPEN" /\ ~o.ext

StartSelfExtend(s) ==
  /\ Extendable(Order) /\ Len(changes) < MaxChanges
  /\ Start(s, [at |-> "selfExtend", o |-> Order])
  /\ Stored
SelfExtend(s) ==
  LET o == job[s].o
  IN /\ At(s, "selfExtend")
     /\ deadline' = o.deadline + Extension
     /\ from' = 0
     /\ ext' = TRUE
     /\ changes' = Append(changes, Row("SELF_EXTENSION", Extension))
     /\ stale' = (stale \/ o # Order)
     /\ End(s)
     /\ UNCHANGED <<now, status, ret, filed, fines, credit, crashes>>

(* extendDeadline: any date still ahead, earlier than the old one or later. *)
StartExtend(s, to) ==
  /\ status # "SETTLED" /\ to > now /\ Len(changes) < MaxChanges
  /\ Start(s, [at |-> "extend", o |-> Order, to |-> to])
  /\ Stored
Extend(s) ==
  LET o == job[s].o
  IN /\ At(s, "extend")
     /\ deadline' = job[s].to
     /\ from' = 0
     /\ status' = IF o.status = "OVERDUE" THEN "OPEN" ELSE o.status
     /\ changes' = Append(changes, Row("ADMIN_EXTENSION", job[s].to - o.deadline))
     /\ stale' = (stale \/ o # Order)
     /\ End(s)
     /\ UNCHANGED <<now, ext, ret, filed, fines, credit, crashes>>

(* undoDeadlineChange: the last open change, or all of them, comes off the *)
(* deadline as it stands.  The row is claimed in the state it was read in. *)
(* Mutant: the claim looks at the status only. *)
ClaimsStatusOnly(o) == o.status = status /\ ~AnyFine
(* Mutant: the claim looks at the deadline only. *)
ClaimsDeadlineOnly(o) == o.deadline = deadline
Claims(o) == o.status = status /\ o.deadline = deadline /\ ~AnyFine

StartUndo(s, all) ==
  LET K == IF all THEN Open(changes) ELSE {Max(Open(changes))}
  IN /\ status # "SETTLED" /\ ~AnyFine /\ Open(changes) # {}
     /\ deadline - Shift(changes, K) >= changes[Min(K)].at
     /\ Start(s, [at |-> "undo", o |-> Order, K |-> K])
     /\ Stored
Undo(s) ==
  LET o == job[s].o  K == job[s].K
      restored == o.deadline - Shift(o.changes, K)
      overdueNow == restored <= now
  IN /\ At(s, "undo")
     /\ End(s)
     /\ IF Claims(o)
        THEN /\ deadline' = restored
             /\ status' = IF overdueNow THEN "OVERDUE"
                          ELSE IF o.status = "OVERDUE" THEN "OPEN" ELSE o.status
             /\ from' = IF overdueNow THEN now ELSE 0
             /\ ext' = (ext /\ \A k \in K : o.changes[k].kind # "SELF_EXTENSION")
             /\ changes' = [k \in DOMAIN changes |->
                              [changes[k] EXCEPT !.undone = @ \/ k \in K]]
             /\ stale' = (stale \/ o.changes # changes)
        ELSE UNCHANGED <<order, stale>>
     /\ UNCHANGED <<now, ret, filed, fines, credit, crashes>>

-----------------------------------------------------------------------------
(* The rest of the order's life, each in one step: OrderBook and           *)
(* OrderRaces model it.                                                    *)
Recompute(closes) ==
  status' = IF closes THEN "SETTLED"
            ELSE IF now > deadline THEN "OVERDUE" ELSE "OPEN"
ApproveSubmission(closes) ==
  /\ status # "SETTLED" /\ Recompute(closes)
  /\ UNCHANGED <<now, deadline, from, ext, changes, ret, filed, fines, credit,
                 stale, crashes, job>>
RefreshOverdue ==
  /\ status = "OPEN" /\ deadline < now
  /\ status' = "OVERDUE"
  /\ UNCHANGED <<now, deadline, from, ext, changes, ret, filed, fines, credit,
                 stale, crashes, job>>
CreateReturn(t) ==
  /\ status # "SETTLED" /\ ret[t] = "NONE"
  /\ ret' = [ret EXCEPT ![t] = "PENDING"]
  /\ filed' = [filed EXCEPT ![t] = now]
  /\ UNCHANGED <<now, order, fines, credit, stale, crashes, job>>
ApproveReturn(t, closes) ==
  /\ ret[t] = "PENDING" /\ (status = "SETTLED" => closes)
  /\ ret' = [ret EXCEPT ![t] = "DECIDED"]
  /\ Recompute(closes)
  /\ UNCHANGED <<now, deadline, from, ext, changes, filed, fines, credit,
                 stale, crashes, job>>

(* The hours return t waited until day end go back on the order as o.      *)
GivenBack(o, t, end) ==
  /\ deadline' = o.deadline + end - filed[t]
  /\ from' = IF o.from = 0 THEN 0 ELSE o.from + ChargeablePause(o, filed[t], end)
  /\ credit' = credit + end - filed[t]
  /\ stale' = (stale \/ o # Order)

(* rejectReturn, cancelReturn: the return row, then the read of the order, *)
(* then its update, each a statement of its own.                           *)
StartReject(s, t) ==
  /\ ret[t] = "PENDING"
  /\ Start(s, [at |-> "reject", t |-> t])
  /\ Stored
Reject(s) ==
  /\ At(s, "reject")
  /\ ret' = [ret EXCEPT ![job[s].t] = "DECIDED"]
  /\ Proceed(s, [at |-> "readOrder", t |-> job[s].t, end |-> now])
  /\ UNCHANGED <<now, order, filed, fines, credit, stale, crashes>>
ReadOrder(s) ==
  /\ At(s, "readOrder")
  /\ IF status = "SETTLED" \/ job[s].end = filed[job[s].t] THEN End(s)
     ELSE Proceed(s, [at |-> "giveBack", t |-> job[s].t, end |-> job[s].end,
                      o |-> Order])
  /\ Stored
GiveBack(s) ==
  /\ At(s, "giveBack")
  /\ GivenBack(job[s].o, job[s].t, job[s].end)
  /\ End(s)
  /\ UNCHANGED <<now, ext, status, changes, ret, filed, fines, crashes>>

(* expireStaleReturns: a return older than a day, in one transaction that  *)
(* reads the order and then writes return, order and fine.                 *)
StartExpire(s, t) ==
  /\ ret[t] = "PENDING" /\ filed[t] < now - 1
  /\ Start(s, [at |-> "expire", t |-> t, o |-> Order])
  /\ Stored
Expire(s) ==
  LET o == job[s].o  t == job[s].t
  IN /\ At(s, "expire")
     /\ ret' = [ret EXCEPT ![t] = "DECIDED"]
     /\ IF o.status = "SETTLED" THEN UNCHANGED <<order, fines, credit, stale>>
        ELSE /\ GivenBack(o, t, now)
             /\ fines' = [fines EXCEPT ![0] = @ + 1]
             /\ UNCHANGED <<ext, status, changes>>
     /\ End(s)
     /\ UNCHANGED <<now, filed, crashes>>

-----------------------------------------------------------------------------
(* applyDuePenalties, for this order: its day is the day it started.       *)
StartSweep(s) ==
  /\ status # "SETTLED" /\ deadline <= now
  /\ Start(s, [at |-> "pending", day |-> now])
  /\ Stored
CountPending(s) ==
  /\ At(s, "pending")
  /\ IF Pending # {} THEN End(s)
     ELSE Proceed(s, [at |-> "fresh", day |-> job[s].day])
  /\ Stored
ReadFresh(s) ==
  /\ At(s, "fresh")
  /\ IF status = "SETTLED" \/ FineClockStart(Order) > job[s].day THEN End(s)
     ELSE Proceed(s, [at |-> "count", due |-> PenaltyDaysDue(Order, job[s].day)])
  /\ Stored
CountCharged(s) ==
  /\ At(s, "count")
  /\ IF NothingDue(job[s].due) THEN End(s)
     ELSE Proceed(s, [at |-> "charge", due |-> job[s].due, next |-> Charged + 1])
  /\ Stored
Charge(s) ==
  /\ At(s, "charge")
  /\ fines' = [fines EXCEPT ![job[s].next] = @ + 1]
  /\ IF job[s].next = job[s].due THEN End(s)
     ELSE Proceed(s, [job[s] EXCEPT !.next = @ + 1])
  /\ UNCHANGED <<now, order, ret, filed, credit, stale, crashes>>

(* Handlers take seconds: a day ends when none is under way. *)
Tick ==
  /\ now < MaxTime /\ \A s \in Sessions : At(s, "idle")
  /\ now' = now + 1
  /\ UNCHANGED <<order, ret, filed, fines, credit, stale, crashes, job>>

(* A handler that dies before its first write might as well not have run.  *)
Crash(s) ==
  /\ job[s].at \in {"readOrder", "giveBack", "charge"} /\ crashes < MaxCrashes
  /\ End(s)
  /\ crashes' = crashes + 1
  /\ UNCHANGED <<now, order, ret, filed, fines, credit, stale>>

-----------------------------------------------------------------------------
Handle(s) ==
  \/ StartSelfExtend(s) \/ SelfExtend(s)
  \/ (\E to \in Days : StartExtend(s, to)) \/ Extend(s)
  \/ (\E all \in BOOLEAN : StartUndo(s, all)) \/ Undo(s)
  \/ (\E t \in Rets : StartReject(s, t) \/ StartExpire(s, t))
  \/ Reject(s) \/ ReadOrder(s) \/ GiveBack(s) \/ Expire(s)
Sweep(s) ==
  StartSweep(s) \/ CountPending(s) \/ ReadFresh(s) \/ CountCharged(s) \/ Charge(s)

Next ==
  \/ \E s \in Handlers : Handle(s)
  \/ \E s \in Sweepers : Sweep(s)
  \/ \E s \in Sessions : Crash(s)
  \/ \E closes \in BOOLEAN :
       \/ ApproveSubmission(closes)
       \/ \E t \in Rets : ApproveReturn(t, closes)
  \/ \E t \in Rets : CreateReturn(t)
  \/ RefreshOverdue \/ Tick

(* The cron job, and every load of the dashboard, runs the sweep again. *)
Spec == Init /\ [][Next]_vars /\ \A s \in Sweepers : WF_vars(Sweep(s))

-----------------------------------------------------------------------------
TypeOK ==
  /\ now \in 1..MaxTime
  /\ deadline \in Nat /\ from \in 0..MaxTime + credit
  /\ ext \in BOOLEAN /\ stale \in BOOLEAN
  /\ status \in {"OPEN", "OVERDUE", "SETTLED"}
  /\ changes \in Seq([kind : {"SELF_EXTENSION", "ADMIN_EXTENSION"},
                      shift : Int, at : Days, undone : BOOLEAN])
  /\ ret \in [Rets -> {"NONE", "PENDING", "DECIDED"}]
  /\ filed \in [Rets -> Days]
  /\ fines \in [Days -> Nat]
  /\ credit \in Nat /\ crashes \in 0..MaxCrashes
  /\ \A s \in Sessions : At(s, "charge") => job[s].next \in 1..job[s].due

(* The deadline is the first one, plus the changes that still stand, plus  *)
(* the days given back for returns, and the rep's one extension is marked  *)
(* while it stands - unless a handler wrote over an order it had not read: *)
(* whatever is undone comes off once.                                      *)
OwnExtensions == {k \in Open(changes) : changes[k].kind = "SELF_EXTENSION"}
DeadlineIsAccounted ==
  \/ stale
  \/ /\ deadline = 1 + Window + Shift(changes, Open(changes)) + credit
     /\ Cardinality(OwnExtensions) = (IF ext THEN 1 ELSE 0)

(* No late day is fined twice by one sweep at a time, however the deadline *)
(* moves under it.  Two sweeps at once do fine a day twice: nothing in the *)
(* table or the code holds a day's fine to one row.                        *)
FinedOncePerDay == \A d \in Days \ {0} : fines[d] <= 1

(* A closed order stays closed, whatever change of its deadline was under  *)
(* way when it closed.                                                     *)
ClosedStaysClosed ==
  [][status = "SETTLED" /\ ~stale' => status' = "SETTLED"]_vars

(* Time is not taken back from an order that was fined.                    *)
FinedTimeStands ==
  [][Cardinality(Open(changes')) < Cardinality(Open(changes)) => ~AnyFine]_vars

(* An order that stays late draws its fine for every day.                  *)
FineIsDue ==
  /\ status # "SETTLED" /\ Pending = {} /\ FineClockStart(Order) <= now
  /\ Cardinality({d \in Days \ {0} : fines[d] > 0}) < PenaltyDaysDue(Order, now)
LateDaysAreFined == FineIsDue ~> ~FineIsDue

(* "give back the hours the return sat pending, so the rep is never fined  *)
(* for the approval window" (returns.service.js:388-389): a day is fined   *)
(* only if the order is that late when what its return waited, given back  *)
(* or about to be, is counted off.                                         *)
Waiting(s) ==
  IF job[s].at \in {"readOrder", "giveBack"} THEN job[s].end - filed[job[s].t] ELSE 0
ApprovalWindowIsFree ==
  [][\A d \in Days \ {0} :
       fines'[d] > fines[d] =>
         d <= PenaltyDaysDue([Order EXCEPT !.deadline =
                                @ + SumFunction([s \in Sessions |-> Waiting(s)])], now)]_vars
=============================================================================
