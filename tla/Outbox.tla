-------------------------------- MODULE Outbox --------------------------------
(***************************************************************************)
(* Delivery of WhatsApp messages (src/server/src/services/                 *)
(* whatsappNotify.service.js): the table whatsapp_notifications is queue,  *)
(* log and lock.  A sender - a request that queues a message, a cron pass  *)
(* or an admin's poll - picks rows, claims one by raising its attempts only*)
(* if nobody else has, calls the provider and writes what came of it       *)
(* without looking again.                                                  *)
(*                                                                         *)
(* Time is three facts that the clock changes: which rows were attempted   *)
(* in the last ten minutes, which are older than 48 hours, and what was    *)
(* sent within the provider's window of four hours; whether these are quiet*)
(* hours is an input of the steps that ask.  A call to the provider is     *)
(* aborted after 45 seconds, so a row does not cool down while a live      *)
(* sender still holds it.                                                  *)
(***************************************************************************)
EXTENDS Integers, FiniteSets, Sequences, SequencesExt

CONSTANTS Messages,    \* messages, one per dedupeKey
          Senders,     \* processes that may be delivering at the same time
          Info,        \* the messages of priority INFO
          Critical,    \* the messages of priority CRITICAL
          MAX_ATTEMPTS,
          Cap,         \* providerBudgetCap
          Take,        \* rows a flush takes, 2 in the code
          MaxTrouble   \* bound: senders that die at work, and requeues by the admin

ASSUME OutboxAssumption ==
  /\ Info \subseteq Messages /\ Critical \subseteq Messages \ Info
  /\ MAX_ATTEMPTS \in Nat \ {0} /\ Take \in Nat \ {0} /\ Cap \in Nat

VARIABLES
  row,      \* row[m]: status and attempts
  log,      \* the rows in the order they were created
  cooling,  \* attempted within the last ten minutes
  expired,  \* created more than 48 hours ago
  recent,   \* SENT within the provider's window
  p,        \* p[x]: where sender x stands
  reached,  \* history: what the provider accepted: no, once, twice, or doubtful
            \* (the sender never learnt or recorded it, or a requeue crossed)
  orphaned, \* history: the sender died where nobody takes over
  reread,   \* history: requeued while a sender still held what it had read
  trouble

vars == <<row, log, cooling, expired, recent, p, reached,
          orphaned, reread, trouble>>
clock == <<cooling, expired, recent>>
history == <<reached, orphaned, reread, trouble>>

Idle == [pc |-> "idle"]
(* The rows sender x has read and not finished with. *)
Queued(x) == IF "todo" \in DOMAIN p[x] THEN {p[x].todo[i][1] : i \in DOMAIN p[x].todo} ELSE {}
Holding(m) == \E x \in Senders : p[x].pc \in {"sending", "write"} /\ Head(p[x].todo)[1] = m

Init ==
  /\ row = [m \in Messages |-> [status |-> "NONE", attempts |-> 0]]
  /\ log = <<>>
  /\ cooling = {} /\ expired = {} /\ recent = {}
  /\ p = [x \in Senders |-> Idle]
  /\ reached = [m \in Messages |-> "no"]
  /\ orphaned = {} /\ reread = {} /\ trouble = 0

Run(x, state) == p' = [p EXCEPT ![x] = state]
(* A sender with rows left takes the next one, one with none is done. *)
Continue(x, todo) == Run(x, IF todo = <<>> THEN Idle ELSE [pc |-> "deliver", todo |-> todo])

-----------------------------------------------------------------------------
(* queue: the unique dedupeKey lets one row in; in quiet hours only a      *)
(* CRITICAL message is tried at once.                                      *)
Queue(x, m, quiet) ==
  /\ p[x] = Idle /\ row[m].status = "NONE"
  /\ row' = [row EXCEPT ![m] = [status |-> "PENDING", attempts |-> 0]]
  /\ log' = Append(log, m)
  /\ Continue(x, IF quiet /\ m \notin Critical THEN <<>> ELSE << <<m, 0>> >>)
  /\ UNCHANGED <<clock, history>>

(* flush: the oldest rows still to be sent, read with their attempts.      *)
(* Mutant: no cool-down. *)
FlushableHot(m, quiet) ==
  /\ row[m].status = "PENDING" /\ row[m].attempts < MAX_ATTEMPTS
  /\ m \notin expired
  /\ quiet => m \in Critical
(* Mutant: a row gets one attempt fewer than it is owed. *)
FlushableShort(m, quiet) ==
  /\ row[m].status = "PENDING" /\ row[m].attempts < MAX_ATTEMPTS - 1
  /\ m \notin expired \cup cooling
  /\ quiet => m \in Critical
Flushable(m, quiet) ==
  /\ row[m].status = "PENDING" /\ row[m].attempts < MAX_ATTEMPTS
  /\ m \notin expired \cup cooling
  /\ quiet => m \in Critical

Ready(quiet) == {i \in DOMAIN log : Flushable(log[i], quiet)}
(* The places in the log of the first rows to send, in order. *)
Oldest(quiet) ==
  LET n == IF Cardinality(Ready(quiet)) > Take THEN Take ELSE Cardinality(Ready(quiet))
  IN {f \in [1..n -> Ready(quiet)] :
        /\ \A k, l \in 1..n : k < l => f[k] < f[l]
        /\ \A i \in Ready(quiet) : (\E k \in 1..n : f[k] = i) \/ (\A k \in 1..n : f[k] < i)}

Flush(x, quiet) ==
  /\ p[x].pc = "flush" \/ (p[x].pc = "idle" /\ Ready(quiet) # {})
  /\ \E f \in Oldest(quiet) :
       Continue(x, [k \in DOMAIN f |-> <<log[f[k]], row[log[f[k]]].attempts>>])
  /\ UNCHANGED <<row, log, clock, history>>

-----------------------------------------------------------------------------
(* deliver: an INFO message waits while the provider's window is used up.  *)
OverBudget(m) == Cap > 0 /\ m \in Info /\ Cardinality(recent) >= Cap

(* The claim: raise the attempts if the row is as it was read.             *)
(* Mutant: the row only has to be pending. *)
ClaimablePending(m, read) == row[m].status = "PENDING"
Claimable(m, read) == row[m].status = "PENDING" /\ row[m].attempts = read

Claim(x) ==
  /\ p[x].pc = "deliver"
  /\ LET m == Head(p[x].todo)[1]
         read == Head(p[x].todo)[2]
     IN /\ ~OverBudget(m)
        /\ Claimable(m, read)
        /\ row' = [row EXCEPT ![m].attempts = read + 1]
        /\ cooling' = cooling \cup {m}
        /\ Run(x, [pc |-> "sending", todo |-> p[x].todo])
        /\ UNCHANGED <<log, expired, recent, history>>

(* Held for the budget, or claimed elsewhere: on to the next row. *)
Skip(x) ==
  /\ p[x].pc = "deliver"
  /\ OverBudget(Head(p[x].todo)[1]) \/ ~Claimable(Head(p[x].todo)[1], Head(p[x].todo)[2])
  /\ Continue(x, Tail(p[x].todo))
  /\ UNCHANGED <<row, log, clock, history>>

(* sendRaw: the provider accepts, refuses for its quota, fails, or accepts *)
(* and the answer does not come back in time.                              *)
Answers == {"sent", "quota", "failed", "late"}
Send(x, answer) ==
  /\ p[x].pc = "sending"
  /\ LET m == Head(p[x].todo)[1]
     IN reached' = [reached EXCEPT ![m] =
          CASE answer \notin {"sent", "late"} \/ @ = "doubtful" -> @
            [] answer = "sent" /\ @ = "no" -> "once"
            [] answer = "late" /\ @ = "no" -> "doubtful"
            [] OTHER -> "twice"]
  /\ Run(x, [pc |-> "write", todo |-> p[x].todo, answer |-> answer])
  /\ UNCHANGED <<row, log, clock, orphaned, reread, trouble>>

(* The outcome is written by id; attempts are counted from the read.       *)
Outcome(answer, attempts) ==
  IF answer = "sent" THEN "SENT"
  ELSE IF answer = "quota" \/ attempts >= MAX_ATTEMPTS THEN "FAILED" ELSE "PENDING"

Write(x) ==
  /\ p[x].pc = "write"
  /\ LET m == Head(p[x].todo)[1]
         result == Outcome(p[x].answer, Head(p[x].todo)[2] + 1)
     IN /\ row' = [row EXCEPT ![m].status = result]
        /\ recent' = IF result = "SENT" THEN recent \cup {m} ELSE recent
        /\ IF result = "FAILED"
           THEN Run(x, [pc |-> "tell", todo |-> p[x].todo])
           ELSE Continue(x, Tail(p[x].todo))
  /\ UNCHANGED <<log, cooling, expired, history>>

(* A lost message is surfaced in the app. *)
Tell(x) ==
  /\ p[x].pc = "tell"
  /\ Continue(x, Tail(p[x].todo))
  /\ UNCHANGED <<row, log, clock, history>>

(* retryFailed: every failed row starts afresh, and a flush follows. *)
Requeued == {m \in Messages : row[m].status = "FAILED"}
RetryFailed(x) ==
  /\ p[x] = Idle /\ trouble < MaxTrouble
  /\ Requeued # {}
  /\ trouble' = trouble + 1
  /\ row' = [m \in Messages |->
       IF m \in Requeued THEN [status |-> "PENDING", attempts |-> 0] ELSE row[m]]
  /\ cooling' = cooling \ Requeued
  /\ reread' = reread \cup (Requeued \cap UNION {Queued(y) : y \in Senders})
  /\ reached' = [m \in Messages |-> IF m \in reread' THEN "doubtful" ELSE reached[m]]
  /\ Run(x, [pc |-> "flush"])
  /\ UNCHANGED <<log, expired, recent, orphaned>>

-----------------------------------------------------------------------------
CoolDown(m) ==
  /\ m \in cooling /\ row[m].status = "PENDING" /\ ~Holding(m)
  /\ cooling' = cooling \ {m}
  /\ UNCHANGED <<row, log, expired, recent, p, history>>
Older(e, m) == \E i, j \in DOMAIN log : i < j /\ log[i] = e /\ log[j] = m
Expire(m) ==
  /\ row[m].status \in {"PENDING", "FAILED"} /\ m \notin expired
  /\ \A e \in Messages : Older(e, m) => e \in expired \/ row[e].status = "SENT"
  /\ expired' = expired \cup {m}
  /\ UNCHANGED <<row, log, cooling, recent, p, history>>
WindowFrees ==
  /\ recent # {}
  /\ recent' = {}
  /\ UNCHANGED <<row, log, cooling, expired, p, history>>
(* A sender dies.  What the provider accepted and was not recorded will be *)
(* sent again; a row on its last attempt stays pending and is never picked *)
(* again; a failure not yet told stays untold.                             *)
Crash(x) ==
  /\ p[x] # Idle /\ trouble < MaxTrouble
  /\ trouble' = trouble + 1
  /\ Run(x, Idle)
  /\ reached' = IF p[x].pc = "write" /\ p[x].answer = "sent" /\ reached[Head(p[x].todo)[1]] = "once"
                THEN [reached EXCEPT ![Head(p[x].todo)[1]] = "doubtful"] ELSE reached
  /\ orphaned' = IF \/ p[x].pc = "tell"
                    \/ p[x].pc \in {"sending", "write"} /\ Head(p[x].todo)[2] + 1 = MAX_ATTEMPTS
                 THEN orphaned \cup {Head(p[x].todo)[1]} ELSE orphaned
  /\ UNCHANGED <<row, log, clock, reread>>

-----------------------------------------------------------------------------
Working(x) == Claim(x) \/ Skip(x) \/ (\E a \in Answers : Send(x, a)) \/ Write(x) \/ Tell(x)
Next ==
  \/ \E x \in Senders :
       \/ \E quiet \in BOOLEAN : Flush(x, quiet) \/ \E m \in Messages : Queue(x, m, quiet)
       \/ Working(x) \/ RetryFailed(x) \/ Crash(x)
  \/ \E m \in Messages : CoolDown(m) \/ Expire(m)
  \/ WindowFrees

(* The crons and the polls keep coming, also outside the quiet hours; a    *)
(* sender goes on with its rows; clocks advance.  Nothing is assumed of    *)
(* the provider's answers.                                                 *)
Fairness ==
  /\ \A x \in Senders : WF_vars(Working(x)) /\ SF_vars(Flush(x, FALSE))
  /\ \A m \in Messages : WF_vars(CoolDown(m))
  /\ WF_vars(WindowFrees)

Spec == Init /\ [][Next]_vars
FairSpec == Spec /\ Fairness

-----------------------------------------------------------------------------
Picks == UNION {[1..n -> Messages \X (0..MAX_ATTEMPTS)] : n \in 1..Take}
TypeOK ==
  /\ row \in [Messages -> [status : {"NONE", "PENDING", "SENT", "FAILED"}, attempts : 0..MAX_ATTEMPTS]]
  /\ ToSet(log) = {m \in Messages : row[m].status # "NONE"} /\ IsInjective(log)
  /\ cooling \subseteq Messages /\ expired \subseteq Messages /\ recent \subseteq Messages
  /\ reached \in [Messages -> {"no", "once", "twice", "doubtful"}]
  /\ p \in [Senders ->
       [pc : {"idle", "flush"}] \cup [pc : {"deliver", "sending", "tell"}, todo : Picks]
       \cup [pc : {"write"}, todo : Picks, answer : Answers]]

(* "A message is never sent twice": the provider accepts a message once,   *)
(* except one whose acceptance the sender never learnt (the answer came    *)
(* too late) or never recorded (it died first), and one requeued while a   *)
(* sender still held its old read: its attempts start again at 0, so the   *)
(* old read can match once more.                                           *)
NeverSentTwice == \A m \in Messages : reached[m] # "twice"

(* What the code does is what a courier does: one pair of hands per        *)
(* message at a time, sent is final, failed moves only when requeued.      *)
(* From a crossed requeue on nothing is promised of that message.          *)
Look(m) ==
  IF m \in reread THEN "waiting"
  ELSE CASE row[m].status = "NONE" -> "none"
         [] row[m].status = "SENT" -> "sent"
         [] row[m].status = "FAILED" -> "failed"
         [] row[m].status = "PENDING" -> IF Holding(m) THEN "sending" ELSE "waiting"
Abstraction == [m \in Messages |-> Look(m)]
Log == INSTANCE Courier WITH state <- Abstraction
ActsAsCourier == Log!Spec

(* No message is silently lost: once queued it is sent, or failed and the  *)
(* admins told, unless it grew older than 48 hours first, its sender died  *)
(* on the last attempt or before telling, or a requeue crossed it.         *)
EveryMessageSettles ==
  \A m \in Messages :
    row[m].status = "PENDING" ~>
      \/ row[m].status = "SENT"
      \/ row[m].status = "FAILED" /\ \A x \in Senders : p[x].pc # "tell" \/ Head(p[x].todo)[1] # m
      \/ m \in expired \cup orphaned \cup reread
===============================================================================
