----------------------------- MODULE OutboxProofs -----------------------------
(***************************************************************************)
(* Whatever the number of senders and messages, and however they overlap,  *)
(* die and requeue, a message is in one sender's hands at a time: a claim  *)
(* raises the attempts, so what any other sender has read of the row is    *)
(* out of date until the message is handed back, and the cool-down keeps   *)
(* it from being read again meanwhile.                                     *)
(***************************************************************************)
EXTENDS Outbox, FiniteSetTheorems, SequenceTheorems, TLAPS

Reading == Messages \X Nat
Batch == Seq(Reading) \ {<<>>}
Held == {"sending", "write"}
States == [pc : {"idle", "flush"}] \cup [pc : {"deliver", "sending", "tell"}, todo : Batch]
          \cup [pc : {"write"}, todo : Batch, answer : Answers]

(* What sender x has read and not finished with; the message it works on.  *)
Waiting(r) == r.pc \in {"deliver", "sending", "tell", "write"}
Reads(r) == IF Waiting(r) THEN {r.todo[i] : i \in DOMAIN r.todo} ELSE {}
Works(r, m) == r.pc \in Held /\ Head(r.todo)[1] = m
Wrote(r, m) == r.pc = "write" /\ r.answer = "sent" /\ Head(r.todo)[1] = m

Typed ==
  /\ row \in [Messages -> [status : {"NONE", "PENDING", "SENT", "FAILED"}, attempts : Nat]]
  /\ log \in Seq(Messages)
  /\ reached \in [Messages -> {"no", "once", "twice", "doubtful"}]
  /\ p \in [Senders -> States]

(* Nobody has read more attempts of a row than it counts. *)
ReadsAreOld ==
  \A x \in Senders : \A e \in Reads(p[x]) :
    /\ row[e[1]].status # "NONE"
    /\ e[1] \in reread \/ e[2] <= row[e[1]].attempts

(* While a message is in hand its row waits and cools, and every reading   *)
(* of it is out of date.                                                   *)
InHand ==
  \A x \in Senders, m \in Messages \ reread : Works(p[x], m) =>
    /\ row[m].status = "PENDING" /\ m \in cooling
    /\ \A y \in Senders : \A e \in Reads(p[y]) : e[1] = m => e[2] < row[m].attempts

Alone ==
  \A x, y \in Senders, m \in Messages \ reread :
    Works(p[x], m) /\ Works(p[y], m) => x = y

(* What the provider accepted once is recorded, or about to be. *)
Recorded ==
  \A m \in Messages :
    /\ m \in reread => reached[m] = "doubtful" /\ row[m].status # "NONE"
    /\ reached[m] = "once" => row[m].status = "SENT" \/ \E x \in Senders : Wrote(p[x], m)

OutboxInv == Typed /\ ReadsAreOld /\ InHand /\ Alone /\ Recorded /\ NeverSentTwice

-----------------------------------------------------------------------------
(* The rows a flush takes are ready, and a sequence. *)
LEMMA BatchIsReady ==
  ASSUME Typed, OutboxAssumption, NEW quiet \in BOOLEAN, NEW f \in Oldest(quiet)
  PROVE  LET todo == [k \in DOMAIN f |-> <<log[f[k]], row[log[f[k]]].attempts>>]
         IN /\ todo \in Seq(Reading)
            /\ \A k \in DOMAIN todo : /\ Flushable(todo[k][1], quiet)
                                      /\ todo[k][2] = row[todo[k][1]].attempts
<1> DEFINE n == IF Cardinality(Ready(quiet)) > Take THEN Take ELSE Cardinality(Ready(quiet))
           todo == [k \in DOMAIN f |-> <<log[f[k]], row[log[f[k]]].attempts>>]
<1>1. Ready(quiet) \subseteq 1..Len(log)
  BY DEF Ready, Typed
<1>2. n \in Nat
  <2>1. IsFiniteSet(1..Len(log))
    BY FS_Interval DEF Typed
  <2>2. Cardinality(Ready(quiet)) \in Nat
    BY <1>1, <2>1, FS_Subset, FS_CardinalityType
  <2>. QED
    BY <2>2 DEF OutboxAssumption
<1>3. f \in [1..n -> Ready(quiet)]
  BY DEF Oldest
<1>4. ASSUME NEW k \in 1..n
      PROVE  /\ f[k] \in 1..Len(log) /\ log[f[k]] \in Messages
             /\ Flushable(log[f[k]], quiet)
             /\ row[log[f[k]]].attempts \in Nat
  <2>1. f[k] \in Ready(quiet)
    BY <1>3
  <2>2. f[k] \in 1..Len(log) /\ Flushable(log[f[k]], quiet)
    BY <1>1, <2>1 DEF Ready
  <2>3. log[f[k]] \in Messages
    BY <2>2 DEF Typed
  <2>. QED
    BY <2>2, <2>3 DEF Typed
<1>5. DOMAIN todo = 1..n /\ \A k \in 1..n : todo[k] = <<log[f[k]], row[log[f[k]]].attempts>>
  BY <1>3
<1>6. \A k \in 1..n : todo[k] \in Reading
  BY <1>4, <1>5 DEF Reading
<1>7. todo \in Seq(Reading)
  <2>1. todo \in [1..n -> Reading]
    BY <1>3, <1>5, <1>6
  <2>. HIDE DEF todo, n
  <2>. QED
    BY <1>2, <2>1, SeqDef
<1>. HIDE DEF todo, n
<1>8. \A k \in DOMAIN todo : /\ Flushable(todo[k][1], quiet)
                               /\ todo[k][2] = row[todo[k][1]].attempts
  BY <1>4, <1>5
<1>. QED
  BY <1>7, <1>8 DEF todo

(* Where a sender goes next is one record of p. *)
LEMMA RunSets ==
  ASSUME Typed, NEW x \in Senders, NEW r \in States, Run(x, r)
  PROVE  p' \in [Senders -> States] /\ p'[x] = r /\ \A y \in Senders : y # x => p'[y] = p[y]
BY DEF Run, Typed

LEMMA ContinueSets ==
  ASSUME Typed, NEW x \in Senders, NEW todo \in Seq(Reading), Continue(x, todo)
  PROVE  /\ p' \in [Senders -> States]
         /\ \A y \in Senders : y # x => p'[y] = p[y]
         /\ Reads(p'[x]) = {todo[i] : i \in DOMAIN todo}
         /\ p'[x].pc \in {"idle", "deliver"}
<1>1. CASE todo = <<>>
  <2>1. Idle \in States
    BY DEF Idle, States
  <2>2. Run(x, Idle)
    BY <1>1 DEF Continue
  <2>. QED
    BY <1>1, <2>1, <2>2, RunSets DEF Reads, Waiting, Idle
<1>2. CASE todo # <<>>
  <2>. DEFINE r == [pc |-> "deliver", todo |-> todo]
  <2>1. r \in States
    BY <1>2 DEF States, Batch
  <2>2. Run(x, r)
    BY <1>2 DEF Continue
  <2>3. Reads(r) = {todo[i] : i \in DOMAIN todo}
    BY DEF Reads, Waiting
  <2>. QED
    BY <2>1, <2>2, <2>3, RunSets
<1>. QED
  BY <1>1, <1>2

(* A sender with rows left: the first is a reading, the rest are a batch.  *)
LEMMA HeadAndTail ==
  ASSUME Typed, NEW x \in Senders, Waiting(p[x])
  PROVE  LET todo == p[x].todo
         IN /\ todo \in Batch /\ Head(todo) \in Reads(p[x]) /\ Head(todo) \in Reading
            /\ Tail(todo) \in Seq(Reading)
            /\ {Tail(todo)[i] : i \in DOMAIN Tail(todo)} \subseteq Reads(p[x])
            /\ Reads(p[x]) \subseteq Reading
<1> DEFINE todo == p[x].todo
<1>1. todo \in Batch
  BY DEF Typed, States, Waiting
<1>2. /\ todo \in Seq(Reading) /\ todo # <<>> /\ Len(todo) \in Nat \ {0}
  BY <1>1 DEF Batch
<1>3. Reads(p[x]) = {todo[i] : i \in 1..Len(todo)}
  BY <1>2 DEF Reads
<1>4. Head(todo) = todo[1] /\ 1 \in 1..Len(todo)
  BY <1>2
<1>5. /\ Tail(todo) \in Seq(Reading) /\ Len(Tail(todo)) = Len(todo) - 1
      /\ \A i \in 1..Len(todo) - 1 : Tail(todo)[i] = todo[i + 1] /\ i + 1 \in 1..Len(todo)
  BY <1>2
<1>6. {Tail(todo)[i] : i \in DOMAIN Tail(todo)} \subseteq Reads(p[x])
  BY <1>2, <1>3, <1>5
<1>7. \A i \in 1..Len(todo) : todo[i] \in Reading
  BY <1>2
<1>. QED
  BY <1>1, <1>3, <1>4, <1>5, <1>6, <1>7

(* Whoever holds a message or has its answer has it first in its batch.    *)
LEMMA WorkIsRead ==
  ASSUME Typed, NEW x \in Senders, NEW m, Works(p[x], m) \/ Wrote(p[x], m)
  PROVE  /\ Works(p[x], m) /\ m \in Messages
         /\ Head(p[x].todo)[1] = m /\ Head(p[x].todo) \in Reads(p[x])
BY HeadAndTail DEF Works, Wrote, Waiting, Held, Reading

LEMMA QueuedIsRead ==
  ASSUME Typed, NEW x \in Senders, NEW e \in Reads(p[x])
  PROVE  e[1] \in Queued(x)
<1>1. Waiting(p[x])
  BY DEF Reads
<1>2. "todo" \in DOMAIN p[x]
  BY <1>1 DEF Waiting, Typed, States
<1>. QED
  BY <1>1, <1>2 DEF Reads, Queued

-----------------------------------------------------------------------------
LEMMA InitHolds == OutboxAssumption /\ Init => OutboxInv
<1>. SUFFICES ASSUME OutboxAssumption, Init PROVE OutboxInv
  OBVIOUS
<1>1. \A x \in Senders : p[x] = Idle
  BY DEF Init
<1>2. Typed
  BY DEF Init, Typed, Idle, States
<1>3. \A x \in Senders : Reads(p[x]) = {} /\ \A m : ~Works(p[x], m)
  BY <1>1 DEF Idle, Reads, Waiting, Works, Held
<1>. QED
  BY <1>2, <1>3 DEF Init, OutboxInv, ReadsAreOld, InHand, Alone, Recorded, NeverSentTwice

(* A step that only lets go - of a message, a batch, an answer - keeps the *)
(* invariant when an answer it drops makes its message doubtful.           *)
LEMMA LettingGo ==
  ASSUME OutboxInv, Typed', UNCHANGED <<row, reread>>,
         \A y \in Senders : Reads(p'[y]) \subseteq Reads(p[y]),
         \A y \in Senders, m \in Messages : Works(p'[y], m) =>
            Works(p[y], m) /\ (m \in cooling => m \in cooling'),
         \A m \in Messages : reached'[m] # "doubtful" =>
            /\ reached'[m] = reached[m]
            /\ reached[m] = "once" =>
                 \A y \in Senders : Wrote(p[y], m) => Wrote(p'[y], m),
         \A m \in Messages : reached[m] = "doubtful" => reached'[m] = "doubtful"
  PROVE  OutboxInv'
<1>. USE DEF OutboxInv
<1>1. ReadsAreOld'
  BY DEF ReadsAreOld
<1>2. InHand'
  <2>. SUFFICES ASSUME NEW x \in Senders, NEW m \in Messages \ reread, Works(p'[x], m)
                PROVE  /\ row[m].status = "PENDING" /\ m \in cooling'
                       /\ \A y \in Senders : \A e \in Reads(p'[y]) : e[1] = m => e[2] < row[m].attempts
    BY DEF InHand
  <2>1. Works(p[x], m) /\ (m \in cooling => m \in cooling')
    OBVIOUS
  <2>. QED
    BY <2>1 DEF InHand
<1>3. Alone'
  BY DEF Alone
<1>4. Recorded'
  BY DEF Recorded
<1>5. NeverSentTwice'
  BY DEF NeverSentTwice, Typed
<1>. QED
  BY <1>1, <1>2, <1>3, <1>4, <1>5

-----------------------------------------------------------------------------
(* The steps that only let go. *)
LEMMA SkipKeeps == ASSUME OutboxInv, NEW x \in Senders, Skip(x) PROVE OutboxInv'
<1>. USE DEF OutboxInv
<1>1. Waiting(p[x]) /\ \A m : ~Wrote(p[x], m)
  BY DEF Skip, Waiting, Wrote
<1>2. Tail(p[x].todo) \in Seq(Reading) /\ Continue(x, Tail(p[x].todo))
  BY <1>1, HeadAndTail DEF Skip
<1>3. Typed'
  BY <1>2, ContinueSets DEF Skip, Typed, history
<1>4. \A y \in Senders : Reads(p'[y]) \subseteq Reads(p[y])
  BY <1>1, <1>2, ContinueSets, HeadAndTail
<1>5. \A y \in Senders, m \in Messages :
        /\ Works(p'[y], m) => Works(p[y], m)
        /\ Wrote(p[y], m) => Wrote(p'[y], m)
  BY <1>1, <1>2, ContinueSets DEF Works, Held
<1>. QED
  BY <1>3, <1>4, <1>5, LettingGo DEF Skip, clock, history

LEMMA TellKeeps == ASSUME OutboxInv, NEW x \in Senders, Tell(x) PROVE OutboxInv'
<1>. USE DEF OutboxInv
<1>1. Waiting(p[x]) /\ \A m : ~Wrote(p[x], m)
  BY DEF Tell, Waiting, Wrote
<1>2. Tail(p[x].todo) \in Seq(Reading) /\ Continue(x, Tail(p[x].todo))
  BY <1>1, HeadAndTail DEF Tell
<1>3. Typed'
  BY <1>2, ContinueSets DEF Tell, Typed, history
<1>4. \A y \in Senders : Reads(p'[y]) \subseteq Reads(p[y])
  BY <1>1, <1>2, ContinueSets, HeadAndTail
<1>5. \A y \in Senders, m \in Messages :
        /\ Works(p'[y], m) => Works(p[y], m)
        /\ Wrote(p[y], m) => Wrote(p'[y], m)
  BY <1>1, <1>2, ContinueSets DEF Works, Held
<1>. QED
  BY <1>3, <1>4, <1>5, LettingGo DEF Tell, clock, history

LEMMA ClockKeeps ==
  ASSUME OutboxInv, WindowFrees \/ \E c \in Messages : CoolDown(c) \/ Expire(c)
  PROVE  OutboxInv'
<1>. USE DEF OutboxInv
<1>1. UNCHANGED <<row, log, p, reached, reread>>
  BY DEF WindowFrees, CoolDown, Expire, history
<1>2. Typed'
  BY <1>1 DEF Typed
<1>3. \A y \in Senders, m \in Messages : Works(p[y], m) /\ m \in cooling => m \in cooling'
  BY DEF WindowFrees, CoolDown, Expire, Holding, Works, Held
<1>. QED
  BY <1>1, <1>2, <1>3, LettingGo

LEMMA CrashKeeps == ASSUME OutboxInv, NEW x \in Senders, Crash(x) PROVE OutboxInv'
<1>. USE DEF OutboxInv
<1>1. p' \in [Senders -> States] /\ p'[x] = Idle /\ \A y \in Senders : y # x => p'[y] = p[y]
  <2>1. Idle \in States
    BY DEF Idle, States
  <2>. QED
    BY <2>1, RunSets DEF Crash
<1>2. /\ \A y \in Senders : Reads(p'[y]) \subseteq Reads(p[y])
      /\ \A y \in Senders, m \in Messages :
           /\ Works(p'[y], m) => Works(p[y], m)
           /\ y # x /\ Wrote(p[y], m) => Wrote(p'[y], m)
  BY <1>1 DEF Idle, Reads, Waiting, Works, Held
<1>3. /\ reached' \in [Messages -> {"no", "once", "twice", "doubtful"}]
      /\ \A m \in Messages : reached'[m] \in {reached[m], "doubtful"}
      /\ \A m \in Messages : Wrote(p[x], m) /\ reached[m] = "once" => reached'[m] = "doubtful"
  BY DEF Crash, Typed, Wrote
<1>4. UNCHANGED <<row, log, cooling, reread>>
  BY DEF Crash, clock
<1>5. Typed'
  BY <1>1, <1>3, <1>4 DEF Typed
<1>. QED
  BY <1>2, <1>3, <1>4, <1>5, LettingGo

-----------------------------------------------------------------------------
(* Reading rows: nobody has a reading of a row that was not there, and a   *)
(* row that is ready to flush does not cool, so nobody holds it.           *)
LEMMA QueueKeeps ==
  ASSUME OutboxInv, OutboxAssumption,
         NEW x \in Senders, NEW n \in Messages, NEW quiet \in BOOLEAN, Queue(x, n, quiet)
  PROVE  OutboxInv'
<1>. USE DEF OutboxInv
<1> DEFINE todo == IF quiet /\ n \notin Critical THEN <<>> ELSE << <<n, 0>> >>
<1>1. todo \in Seq(Reading) /\ \A i \in DOMAIN todo : todo[i] = <<n, 0>>
  <2>1. <<n, 0>> \in Reading
    BY DEF Reading
  <2>. QED
    BY <2>1
<1>2. Continue(x, todo)
  BY DEF Queue
<1>3. /\ p' \in [Senders -> States] /\ p'[x].pc \in {"idle", "deliver"}
      /\ Reads(p'[x]) \subseteq {<<n, 0>>}
      /\ \A y \in Senders : y # x => p'[y] = p[y]
  <2>. HIDE DEF todo
  <2>1. /\ p' \in [Senders -> States] /\ p'[x].pc \in {"idle", "deliver"}
        /\ Reads(p'[x]) = {todo[i] : i \in DOMAIN todo}
        /\ \A y \in Senders : y # x => p'[y] = p[y]
    BY <1>1, <1>2, ContinueSets
  <2>2. {todo[i] : i \in DOMAIN todo} \subseteq {<<n, 0>>}
    BY <1>1
  <2>. QED
    BY <2>1, <2>2
<1>4. /\ row[n].status = "NONE" /\ row'[n] = [status |-> "PENDING", attempts |-> 0]
      /\ \A m \in Messages : m # n => row'[m] = row[m]
      /\ UNCHANGED <<cooling, reached, reread>>
  BY DEF Queue, clock, history, Typed
<1>5. /\ \A y \in Senders : \A e \in Reads(p[y]) : e[1] # n
      /\ \A y \in Senders : ~Works(p[y], n) /\ ~Wrote(p[y], n)
  <2>1. \A y \in Senders : \A e \in Reads(p[y]) : e[1] # n
    BY <1>4 DEF ReadsAreOld
  <2>. QED
    BY <2>1, WorkIsRead
<1>6. p[x] = Idle /\ \A m : ~Wrote(p[x], m)
  BY DEF Queue, Idle, Wrote
<1>7. /\ \A y \in Senders, m \in Messages : Works(p'[y], m) => y # x /\ Works(p[y], m) /\ m # n
      /\ \A y \in Senders, m \in Messages : Wrote(p[y], m) => Wrote(p'[y], m)
  BY <1>3, <1>5, <1>6 DEF Works, Held
<1>8. Typed'
  <2>1. row' \in [Messages -> [status : {"NONE", "PENDING", "SENT", "FAILED"}, attempts : Nat]]
    BY DEF Queue, Typed
  <2>2. log' \in Seq(Messages)
    BY DEF Queue, Typed
  <2>. QED
    BY <1>3, <1>4, <2>1, <2>2 DEF Typed
<1>9. \A y \in Senders : \A e \in Reads(p'[y]) :
        e = <<n, 0>> \/ (e \in Reads(p[y]) /\ e[1] # n)
  BY <1>3, <1>5
<1>10. ReadsAreOld'
  <2>. SUFFICES ASSUME NEW y \in Senders, NEW e \in Reads(p'[y])
                PROVE  row'[e[1]].status # "NONE" /\ (e[1] \in reread \/ e[2] <= row'[e[1]].attempts)
    BY <1>4 DEF ReadsAreOld
  <2>1. CASE e = <<n, 0>>
    BY <2>1, <1>4
  <2>2. CASE e \in Reads(p[y]) /\ e[1] # n
    <3>1. e[1] \in Messages
      BY <2>2, HeadAndTail DEF Reads, Reading
    <3>. QED
      BY <2>2, <3>1, <1>4 DEF ReadsAreOld
  <2>. QED
    BY <1>9, <2>1, <2>2
<1>11. InHand'
  <2>. SUFFICES ASSUME NEW y \in Senders, NEW m \in Messages \ reread, Works(p'[y], m)
                PROVE  /\ row'[m].status = "PENDING" /\ m \in cooling
                       /\ \A z \in Senders : \A e \in Reads(p'[z]) : e[1] = m => e[2] < row'[m].attempts
    BY <1>4 DEF InHand
  <2>1. m # n /\ Works(p[y], m) /\ row'[m] = row[m]
    BY <1>4, <1>7
  <2>2. \A z \in Senders : \A e \in Reads(p'[z]) : e[1] = m => e \in Reads(p[z])
    BY <2>1, <1>9
  <2>. QED
    BY <2>1, <2>2 DEF InHand
<1>12. Alone'
  BY <1>4, <1>7 DEF Alone
<1>13. Recorded'
  <2>. SUFFICES ASSUME NEW m \in Messages
                PROVE  /\ m \in reread => reached[m] = "doubtful" /\ row'[m].status # "NONE"
                       /\ reached[m] = "once" => row'[m].status = "SENT" \/ \E y \in Senders : Wrote(p'[y], m)
    BY <1>4 DEF Recorded
  <2>1. CASE m = n
    BY <2>1, <1>4, <1>5 DEF Recorded
  <2>2. CASE m # n
    BY <2>2, <1>4, <1>7 DEF Recorded
  <2>. QED
    BY <2>1, <2>2
<1>14. NeverSentTwice'
  BY <1>4 DEF NeverSentTwice
<1>. QED
  BY <1>8, <1>10, <1>11, <1>12, <1>13, <1>14

LEMMA FlushKeeps ==
  ASSUME OutboxInv, OutboxAssumption, NEW x \in Senders, NEW quiet \in BOOLEAN, Flush(x, quiet)
  PROVE  OutboxInv'
<1>. USE DEF OutboxInv
<1>1. PICK f \in Oldest(quiet) :
        Continue(x, [k \in DOMAIN f |-> <<log[f[k]], row[log[f[k]]].attempts>>])
  BY DEF Flush
<1> DEFINE todo == [k \in DOMAIN f |-> <<log[f[k]], row[log[f[k]]].attempts>>]
<1>2. /\ todo \in Seq(Reading)
      /\ \A k \in DOMAIN todo : /\ Flushable(todo[k][1], quiet)
                                /\ todo[k][2] = row[todo[k][1]].attempts
  BY BatchIsReady
<1>3. Continue(x, todo)
  BY <1>1
<1>. HIDE DEF todo
<1>4. /\ p' \in [Senders -> States] /\ p'[x].pc \in {"idle", "deliver"}
      /\ \A y \in Senders : y # x => p'[y] = p[y]
      /\ Reads(p'[x]) = {todo[k] : k \in DOMAIN todo}
  BY <1>2, <1>3, ContinueSets
<1>5. \A e \in Reads(p'[x]) : /\ row[e[1]].status = "PENDING" /\ e[1] \notin cooling
                              /\ e \in Reading /\ e[2] = row[e[1]].attempts
  BY <1>2, <1>4 DEF Flushable
<1>6. UNCHANGED <<row, log, cooling, reached, reread>>
  BY DEF Flush, clock, history
<1>7. \A m : ~Wrote(p[x], m)
  BY DEF Flush, Wrote
<1>8. \A y \in Senders, m \in Messages :
        /\ Works(p'[y], m) => y # x /\ Works(p[y], m)
        /\ Wrote(p[y], m) => Wrote(p'[y], m)
  BY <1>4, <1>7 DEF Works, Held
<1>9. Typed'
  BY <1>4, <1>6 DEF Typed
<1>10. ReadsAreOld'
  <2>. SUFFICES ASSUME NEW y \in Senders, NEW e \in Reads(p'[y])
                PROVE  row[e[1]].status # "NONE" /\ (e[1] \in reread \/ e[2] <= row[e[1]].attempts)
    BY <1>6 DEF ReadsAreOld
  <2>1. CASE y = x
    <3>1. row[e[1]].attempts \in Nat
      BY <2>1, <1>5 DEF Reading, Typed
    <3>. QED
      BY <2>1, <3>1, <1>5
  <2>2. CASE y # x
    BY <2>2, <1>4 DEF ReadsAreOld
  <2>. QED
    BY <2>1, <2>2
<1>11. InHand'
  <2>. SUFFICES ASSUME NEW y \in Senders, NEW m \in Messages \ reread, Works(p'[y], m)
                PROVE  /\ row[m].status = "PENDING" /\ m \in cooling
                       /\ \A z \in Senders : \A e \in Reads(p'[z]) : e[1] = m => e[2] < row[m].attempts
    BY <1>6 DEF InHand
  <2>1. Works(p[y], m) /\ m \in cooling
    BY <1>8 DEF InHand
  <2>. QED
    BY <2>1, <1>4, <1>5 DEF InHand
<1>12. Alone'
  BY <1>6, <1>8 DEF Alone
<1>13. Recorded'
  BY <1>6, <1>8 DEF Recorded
<1>14. NeverSentTwice'
  BY <1>6 DEF NeverSentTwice
<1>. QED
  BY <1>9, <1>10, <1>11, <1>12, <1>13, <1>14

-----------------------------------------------------------------------------
(* A claim succeeds only on a reading that is not out of date, so nobody   *)
(* holds the message, and it puts every other reading out of date.         *)
LEMMA ClaimKeeps ==
  ASSUME OutboxInv, NEW x \in Senders, Claim(x) PROVE OutboxInv'
<1>. USE DEF OutboxInv
<1> DEFINE n == Head(p[x].todo)[1]
           read == Head(p[x].todo)[2]
<1>1. /\ p[x].pc = "deliver" /\ Waiting(p[x])
      /\ row[n].status = "PENDING" /\ row[n].attempts = read
      /\ row' = [row EXCEPT ![n].attempts = read + 1]
      /\ cooling' = cooling \cup {n}
      /\ Run(x, [pc |-> "sending", todo |-> p[x].todo])
      /\ UNCHANGED <<log, reached, reread>>
  BY DEF Claim, Claimable, history, Waiting
<1>2. /\ p[x].todo \in Batch /\ Head(p[x].todo) \in Reads(p[x]) /\ n \in Messages /\ read \in Nat
  BY <1>1, HeadAndTail DEF Reading
<1>. HIDE DEF n, read
<1>3. /\ p' \in [Senders -> States] /\ p'[x] = [pc |-> "sending", todo |-> p[x].todo]
      /\ \A y \in Senders : y # x => p'[y] = p[y]
  <2>1. [pc |-> "sending", todo |-> p[x].todo] \in States
    BY <1>2 DEF States
  <2>. QED
    BY <1>1, <2>1, RunSets
<1>4. /\ row'[n].status = "PENDING" /\ row'[n].attempts = read + 1
      /\ \A m \in Messages : m # n => row'[m] = row[m]
      /\ \A m \in Messages : row'[m].status = row[m].status
      /\ row' \in [Messages -> [status : {"NONE", "PENDING", "SENT", "FAILED"}, attempts : Nat]]
  <2>1. row[n] \in [status : {"NONE", "PENDING", "SENT", "FAILED"}, attempts : Nat]
    BY <1>2 DEF Typed
  <2>2. row'[n] = [row[n] EXCEPT !.attempts = read + 1]
    BY <1>1, <1>2 DEF Typed
  <2>3. \A m \in Messages : m # n => row'[m] = row[m]
    BY <1>1 DEF Typed
  <2>4. row'[n].status = "PENDING" /\ row'[n].attempts = read + 1
    BY <2>1, <2>2, <1>1
  <2>5. \A m \in Messages : row'[m].status = row[m].status
    BY <2>3, <2>4, <1>1
  <2>6. row' \in [Messages -> [status : {"NONE", "PENDING", "SENT", "FAILED"}, attempts : Nat]]
    BY <1>1, <1>2 DEF Typed
  <2>. QED
    BY <2>3, <2>4, <2>5, <2>6
<1>5. Typed'
  BY <1>1, <1>3, <1>4 DEF Typed
<1>6. \A y \in Senders : Reads(p'[y]) = Reads(p[y])
  <2>1. Reads(p'[x]) = Reads(p[x])
    BY <1>1, <1>3 DEF Reads, Waiting
  <2>. QED
    BY <2>1, <1>3
<1>7. \A y \in Senders, m \in Messages \ reread : Works(p[y], m) => m # n
  <2>. SUFFICES ASSUME NEW y \in Senders, n \notin reread, Works(p[y], n) PROVE FALSE
    OBVIOUS
  <2>1. read < row[n].attempts
    <3>1. Head(p[x].todo)[1] = n /\ Head(p[x].todo)[2] = read
      BY DEF n, read
    <3>. QED
      BY <1>2, <3>1 DEF InHand
  <2>. QED
    BY <2>1, <1>1, <1>2
<1>8. /\ \A y \in Senders, m \in Messages : Works(p'[y], m) => Works(p[y], m) \/ (y = x /\ m = n)
      /\ \A y \in Senders, m \in Messages : Wrote(p[y], m) => Wrote(p'[y], m)
  <2>1. Head(p[x].todo)[1] = n
    BY DEF n
  <2>. QED
    BY <2>1, <1>1, <1>3 DEF Works, Held, Wrote
<1>9. \A y \in Senders : \A e \in Reads(p[y]) : e \in Reading
  BY HeadAndTail DEF Reads
<1>10. ReadsAreOld'
  <2>. SUFFICES ASSUME NEW y \in Senders, NEW e \in Reads(p[y])
                PROVE  row'[e[1]].status # "NONE" /\ (e[1] \in reread \/ e[2] <= row'[e[1]].attempts)
    BY <1>1, <1>6 DEF ReadsAreOld
  <2>1. e[1] \in Messages /\ e[2] \in Nat
    BY <1>9 DEF Reading
  <2>2. row[e[1]].status # "NONE" /\ (e[1] \in reread \/ e[2] <= row[e[1]].attempts)
    BY DEF ReadsAreOld
  <2>3. CASE e[1] = n
    <3>1. row'[n].status # "NONE" /\ row[n].attempts = read /\ row'[n].attempts = read + 1
      BY <1>1, <1>4
    <3>. QED
      BY <2>1, <2>2, <2>3, <3>1, <1>2
  <2>4. CASE e[1] # n
    BY <2>1, <2>2, <2>4, <1>4
  <2>. QED
    BY <2>3, <2>4
<1>11. InHand'
  <2>. SUFFICES ASSUME NEW y \in Senders, NEW m \in Messages \ reread, Works(p'[y], m)
                PROVE  /\ row'[m].status = "PENDING" /\ m \in cooling'
                       /\ \A z \in Senders : \A e \in Reads(p[z]) : e[1] = m => e[2] < row'[m].attempts
    BY <1>1, <1>6 DEF InHand
  <2>1. CASE m = n
    <3>1. ASSUME NEW z \in Senders, NEW e \in Reads(p[z]), e[1] = m
          PROVE  e[2] < row'[m].attempts
      <4>1. e[2] \in Nat
        BY <1>9 DEF Reading
      <4>2. e[2] <= row[n].attempts
        BY <3>1, <2>1 DEF ReadsAreOld
      <4>3. row[n].attempts = read /\ row'[n].attempts = read + 1
        BY <1>1, <1>4
      <4>. QED
        BY <4>1, <4>2, <4>3, <2>1, <1>2
    <3>2. row'[n].status = "PENDING" /\ n \in cooling'
      BY <1>1, <1>4
    <3>. QED
      BY <3>1, <3>2, <2>1
  <2>2. CASE m # n
    BY <2>2, <1>1, <1>4, <1>8 DEF InHand
  <2>. QED
    BY <2>1, <2>2
<1>12. Alone'
  BY <1>1, <1>7, <1>8 DEF Alone
<1>13. Recorded'
  BY <1>1, <1>4, <1>8 DEF Recorded
<1>14. NeverSentTwice'
  BY <1>1 DEF NeverSentTwice
<1>. QED
  BY <1>5, <1>10, <1>11, <1>12, <1>13, <1>14

(* The sender that calls the provider holds the message alone, and its row *)
(* is not SENT: what was accepted before would be.                         *)
LEMMA SendKeeps ==
  ASSUME OutboxInv, NEW x \in Senders, NEW answer \in Answers, Send(x, answer) PROVE OutboxInv'
<1>. USE DEF OutboxInv
<1> DEFINE n == Head(p[x].todo)[1]
<1>1. /\ p[x].pc = "sending" /\ Waiting(p[x]) /\ Works(p[x], n)
      /\ Run(x, [pc |-> "write", todo |-> p[x].todo, answer |-> answer])
      /\ UNCHANGED <<row, log, cooling, reread>>
  BY DEF Send, clock, Waiting, Works, Held
<1>2. p[x].todo \in Batch /\ n \in Messages
  BY <1>1, HeadAndTail DEF Reading
<1>3. /\ p' \in [Senders -> States]
      /\ p'[x] = [pc |-> "write", todo |-> p[x].todo, answer |-> answer]
      /\ \A y \in Senders : y # x => p'[y] = p[y]
  <2>1. [pc |-> "write", todo |-> p[x].todo, answer |-> answer] \in States
    BY <1>2 DEF States
  <2>. QED
    BY <1>1, <2>1, RunSets
<1>4. /\ \A y \in Senders : Reads(p'[y]) = Reads(p[y])
      /\ \A y \in Senders, m \in Messages : Works(p'[y], m) => Works(p[y], m)
      /\ \A y \in Senders, m \in Messages : Wrote(p[y], m) => Wrote(p'[y], m)
  BY <1>1, <1>3 DEF Reads, Waiting, Works, Held, Wrote
<1>5. reached[n] # "once"
  <2>1. CASE n \in reread
    BY <2>1, <1>2 DEF Recorded
  <2>2. CASE n \notin reread
    <3>1. row[n].status = "PENDING"
      BY <2>2, <1>1, <1>2 DEF InHand
    <3>2. \A y \in Senders : ~Wrote(p[y], n)
      <4>. SUFFICES ASSUME NEW y \in Senders, Wrote(p[y], n) PROVE FALSE
        OBVIOUS
      <4>1. Works(p[y], n) /\ p[y].pc = "write"
        BY DEF Works, Wrote, Held
      <4>2. y = x
        BY <4>1, <2>2, <1>1, <1>2 DEF Alone
      <4>. QED
        BY <4>1, <4>2, <1>1
    <3>. QED
      BY <3>1, <3>2, <1>2 DEF Recorded
  <2>. QED
    BY <2>1, <2>2
<1>6. /\ \A m \in Messages : m # n => reached'[m] = reached[m]
      /\ reached[n] = "doubtful" => reached'[n] = "doubtful"
      /\ reached'[n] \in {"no", "once", "doubtful"}
      /\ reached'[n] = "once" => answer = "sent"
      /\ reached' \in [Messages -> {"no", "once", "twice", "doubtful"}]
  <2>1. reached[n] \in {"no", "doubtful"}
    BY <1>2, <1>5 DEF Typed, NeverSentTwice
  <2>. QED
    BY <2>1, <1>2 DEF Send, Typed, Answers
<1>7. Typed'
  BY <1>1, <1>3, <1>6 DEF Typed
<1>8. ReadsAreOld'
  BY <1>1, <1>4 DEF ReadsAreOld
<1>9. InHand'
  BY <1>1, <1>4 DEF InHand
<1>10. Alone'
  BY <1>1, <1>4 DEF Alone
<1>11. Recorded'
  <2>. SUFFICES ASSUME NEW m \in Messages
                PROVE  /\ m \in reread => reached'[m] = "doubtful" /\ row[m].status # "NONE"
                       /\ reached'[m] = "once" => row[m].status = "SENT" \/ \E y \in Senders : Wrote(p'[y], m)
    BY <1>1 DEF Recorded
  <2>1. CASE m = n
    BY <2>1, <1>2, <1>3, <1>6 DEF Recorded, Wrote
  <2>2. CASE m # n
    BY <2>2, <1>4, <1>6 DEF Recorded
  <2>. QED
    BY <2>1, <2>2
<1>12. NeverSentTwice'
  BY <1>6 DEF NeverSentTwice
<1>. QED
  BY <1>7, <1>8, <1>9, <1>10, <1>11, <1>12

(* The outcome is written by id, which is safe because nobody else holds   *)
(* the message: an acceptance becomes SENT before it can be forgotten.     *)
LEMMA WriteSets ==
  ASSUME Typed, NEW x \in Senders, Write(x)
  PROVE  LET n == Head(p[x].todo)[1]
             result == row'[n].status
         IN /\ Works(p[x], n) /\ n \in Messages
            /\ result \in {"SENT", "FAILED", "PENDING"}
            /\ Wrote(p[x], n) => result = "SENT"
            /\ row'[n].attempts = row[n].attempts
            /\ \A m \in Messages : m # n => row'[m] = row[m]
            /\ UNCHANGED <<log, cooling, reached, reread>>
            /\ \A y \in Senders : y # x => p'[y] = p[y]
            /\ p'[x].pc \in {"idle", "deliver", "tell"}
            /\ \A y \in Senders : Reads(p'[y]) \subseteq Reads(p[y])
            /\ Typed'
<1> DEFINE n == Head(p[x].todo)[1]
           result == Outcome(p[x].answer, Head(p[x].todo)[2] + 1)
<1>1. /\ p[x].pc = "write" /\ Waiting(p[x]) /\ Works(p[x], n)
      /\ row' = [row EXCEPT ![n].status = result]
      /\ UNCHANGED <<log, cooling, reached, reread>>
      /\ IF result = "FAILED" THEN Run(x, [pc |-> "tell", todo |-> p[x].todo])
                              ELSE Continue(x, Tail(p[x].todo))
  BY DEF Write, Waiting, Works, Held, history
<1>2. /\ p[x].todo \in Batch /\ n \in Messages /\ Tail(p[x].todo) \in Seq(Reading)
      /\ {Tail(p[x].todo)[i] : i \in DOMAIN Tail(p[x].todo)} \subseteq Reads(p[x])
  BY <1>1, HeadAndTail DEF Reading
<1>3. result \in {"SENT", "FAILED", "PENDING"} /\ (p[x].answer = "sent" => result = "SENT")
  BY DEF Outcome
<1>4. /\ p' \in [Senders -> States] /\ p'[x].pc \in {"idle", "deliver", "tell"}
      /\ \A y \in Senders : y # x => p'[y] = p[y]
      /\ Reads(p'[x]) \subseteq Reads(p[x])
  <2>1. CASE result = "FAILED"
    <3>1. [pc |-> "tell", todo |-> p[x].todo] \in States
      BY <1>2 DEF States
    <3>2. Reads([pc |-> "tell", todo |-> p[x].todo]) = Reads(p[x])
      BY <1>1 DEF Reads, Waiting
    <3>. QED
      BY <2>1, <3>1, <3>2, <1>1, RunSets
  <2>2. CASE result # "FAILED"
    <3>1. Continue(x, Tail(p[x].todo))
      BY <2>2, <1>1
    <3>. QED
      BY <3>1, <1>2, ContinueSets
  <2>. QED
    BY <2>1, <2>2
<1>. HIDE DEF result
<1>5. /\ row'[n].status = result /\ row'[n].attempts = row[n].attempts
      /\ \A m \in Messages : m # n => row'[m] = row[m]
      /\ row' \in [Messages -> [status : {"NONE", "PENDING", "SENT", "FAILED"}, attempts : Nat]]
  <2>. HIDE DEF n
  <2>1. row[n] \in [status : {"NONE", "PENDING", "SENT", "FAILED"}, attempts : Nat]
    BY <1>2 DEF Typed
  <2>2. row'[n] = [row[n] EXCEPT !.status = result]
    BY <1>1, <1>2 DEF Typed
  <2>3. row' \in [Messages -> [status : {"NONE", "PENDING", "SENT", "FAILED"}, attempts : Nat]]
    BY <1>1, <1>2, <1>3 DEF Typed
  <2>. QED
    BY <2>1, <2>2, <2>3, <1>1 DEF Typed
<1>6. Typed'
  BY <1>1, <1>4, <1>5 DEF Typed
<1>7. Wrote(p[x], n) => result = "SENT"
  BY <1>3 DEF Wrote
<1>8. \A y \in Senders : Reads(p'[y]) \subseteq Reads(p[y])
  BY <1>4
<1>. QED
  BY <1>1, <1>2, <1>3, <1>4, <1>5, <1>6, <1>7, <1>8

LEMMA WriteKeeps == ASSUME OutboxInv, NEW x \in Senders, Write(x) PROVE OutboxInv'
<1>. USE DEF OutboxInv
<1> DEFINE n == Head(p[x].todo)[1]
<1>1. /\ Works(p[x], n) /\ n \in Messages
      /\ row'[n].status \in {"SENT", "FAILED", "PENDING"}
      /\ Wrote(p[x], n) => row'[n].status = "SENT"
      /\ row'[n].attempts = row[n].attempts
      /\ \A m \in Messages : m # n => row'[m] = row[m]
      /\ UNCHANGED <<log, cooling, reached, reread>>
      /\ \A y \in Senders : y # x => p'[y] = p[y]
      /\ p'[x].pc \in {"idle", "deliver", "tell"}
      /\ \A y \in Senders : Reads(p'[y]) \subseteq Reads(p[y])
      /\ Typed'
  BY WriteSets
<1>2. \A m : Works(p[x], m) \/ Wrote(p[x], m) => m = n
  BY DEF Works, Wrote
<1>. HIDE DEF n
<1>3. \A y \in Senders, m \in Messages : Works(p'[y], m) => y # x /\ Works(p[y], m)
  BY <1>1 DEF Works, Held
<1>4. \A y \in Senders, m \in Messages : Wrote(p[y], m) => Wrote(p'[y], m) \/ y = x
  BY <1>1
<1>5. \A y \in Senders : y # x /\ n \notin reread => ~Works(p[y], n)
  BY <1>1 DEF Alone
<1>6. \A y \in Senders : \A e \in Reads(p[y]) : e[1] \in Messages
  BY HeadAndTail DEF Reads, Reading
<1>7. ReadsAreOld'
  <2>. SUFFICES ASSUME NEW y \in Senders, NEW e \in Reads(p[y])
                PROVE  row'[e[1]].status # "NONE" /\ (e[1] \in reread \/ e[2] <= row'[e[1]].attempts)
    BY <1>1 DEF ReadsAreOld
  <2>1. CASE e[1] = n
    BY <2>1, <1>1 DEF ReadsAreOld
  <2>2. CASE e[1] # n
    BY <2>2, <1>1, <1>6 DEF ReadsAreOld
  <2>. QED
    BY <2>1, <2>2
<1>8. InHand'
  <2>. SUFFICES ASSUME NEW y \in Senders, NEW m \in Messages \ reread, Works(p'[y], m)
                PROVE  /\ row'[m].status = "PENDING" /\ m \in cooling
                       /\ \A z \in Senders : \A e \in Reads(p[z]) : e[1] = m => e[2] < row'[m].attempts
    BY <1>1 DEF InHand
  <2>1. Works(p[y], m) /\ m # n
    BY <1>3, <1>5
  <2>. QED
    BY <2>1, <1>1 DEF InHand
<1>9. Alone'
  BY <1>1, <1>3 DEF Alone
<1>10. Recorded'
  <2>. SUFFICES ASSUME NEW m \in Messages
                PROVE  /\ m \in reread => reached[m] = "doubtful" /\ row'[m].status # "NONE"
                       /\ reached[m] = "once" => row'[m].status = "SENT" \/ \E y \in Senders : Wrote(p'[y], m)
    BY <1>1 DEF Recorded
  <2>1. CASE m # n
    BY <2>1, <1>1, <1>2, <1>4 DEF Recorded
  <2>2. CASE m = n /\ n \in reread
    BY <2>2, <1>1 DEF Recorded
  <2>3. CASE m = n /\ n \notin reread
    <3>1. row[n].status = "PENDING"
      BY <2>3, <1>1 DEF InHand
    <3>2. ASSUME NEW y \in Senders, Wrote(p[y], n) PROVE y = x
      <4>1. Works(p[y], n)
        BY <3>2 DEF Works, Wrote, Held
      <4>. QED
        BY <4>1, <2>3, <1>5
    <3>. QED
      BY <2>3, <3>1, <3>2, <1>1 DEF Recorded
  <2>. QED
    BY <2>1, <2>2, <2>3
<1>11. NeverSentTwice'
  BY <1>1 DEF NeverSentTwice
<1>. QED
  BY <1>1, <1>7, <1>8, <1>9, <1>10, <1>11

(* A requeue sets the attempts back to nothing.  Where a sender still has  *)
(* a reading of such a row nothing more is said of it; elsewhere nobody    *)
(* has it.                                                                 *)
LEMMA RetryKeeps == ASSUME OutboxInv, NEW x \in Senders, RetryFailed(x) PROVE OutboxInv'
<1>. USE DEF OutboxInv
<1>1. /\ p[x] = Idle /\ p' \in [Senders -> States] /\ p'[x] = [pc |-> "flush"]
      /\ \A y \in Senders : y # x => p'[y] = p[y]
  <2>1. [pc |-> "flush"] \in States
    BY DEF States
  <2>. QED
    BY <2>1, RunSets DEF RetryFailed
<1>2. /\ \A y \in Senders : Reads(p'[y]) = Reads(p[y])
      /\ \A y \in Senders, m \in Messages : Works(p'[y], m) = Works(p[y], m)
      /\ \A y \in Senders, m \in Messages : Wrote(p'[y], m) = Wrote(p[y], m)
  BY <1>1 DEF Idle, Reads, Waiting, Works, Held, Wrote
<1>3. /\ \A m \in Messages : row'[m] =
           IF m \in Requeued THEN [status |-> "PENDING", attempts |-> 0] ELSE row[m]
      /\ row' \in [Messages -> [status : {"NONE", "PENDING", "SENT", "FAILED"}, attempts : Nat]]
      /\ cooling' = cooling \ Requeued
      /\ reread' = reread \cup (Requeued \cap UNION {Queued(y) : y \in Senders})
      /\ \A m \in Messages : reached'[m] = IF m \in reread' THEN "doubtful" ELSE reached[m]
      /\ reached' \in [Messages -> {"no", "once", "twice", "doubtful"}]
      /\ log' = log
  BY DEF RetryFailed, Typed
<1>4. Requeued \subseteq Messages /\ \A m \in Requeued : row[m].status = "FAILED"
  BY DEF Requeued
<1>5. \A y \in Senders : \A e \in Reads(p[y]) : e[1] \in Requeued => e[1] \in reread'
  BY <1>3, QueuedIsRead
<1>6. \A y \in Senders, m \in Messages : Works(p[y], m) \/ Wrote(p[y], m) =>
         (m \in Requeued => m \in reread')
  BY <1>5, WorkIsRead
<1>7. Typed'
  BY <1>1, <1>3 DEF Typed
<1>8. \A y \in Senders : \A e \in Reads(p[y]) : e[1] \in Messages
  BY HeadAndTail DEF Reads, Reading
<1>9. ReadsAreOld'
  <2>. SUFFICES ASSUME NEW y \in Senders, NEW e \in Reads(p[y])
                PROVE  row'[e[1]].status # "NONE" /\ (e[1] \in reread' \/ e[2] <= row'[e[1]].attempts)
    BY <1>2 DEF ReadsAreOld
  <2>. QED
    BY <1>3, <1>5, <1>8 DEF ReadsAreOld
<1>10. InHand'
  <2>. SUFFICES ASSUME NEW y \in Senders, NEW m \in Messages \ reread', Works(p[y], m)
                PROVE  /\ row'[m].status = "PENDING" /\ m \in cooling'
                       /\ \A z \in Senders : \A e \in Reads(p[z]) : e[1] = m => e[2] < row'[m].attempts
    BY <1>2 DEF InHand
  <2>1. m \notin Requeued /\ m \notin reread
    BY <1>3, <1>6
  <2>. QED
    BY <2>1, <1>3 DEF InHand
<1>11. Alone'
  BY <1>2, <1>3 DEF Alone
<1>12. Recorded'
  <2>. SUFFICES ASSUME NEW m \in Messages
                PROVE  /\ m \in reread' => reached'[m] = "doubtful" /\ row'[m].status # "NONE"
                       /\ reached'[m] = "once" => row'[m].status = "SENT" \/ \E y \in Senders : Wrote(p[y], m)
    BY <1>2 DEF Recorded
  <2>. QED
    BY <1>3, <1>4, <1>6 DEF Recorded
<1>13. NeverSentTwice'
  BY <1>3 DEF NeverSentTwice
<1>. QED
  BY <1>7, <1>9, <1>10, <1>11, <1>12, <1>13

-----------------------------------------------------------------------------
LEMMA NextKeeps == OutboxAssumption /\ OutboxInv /\ [Next]_vars => OutboxInv'
<1>. SUFFICES ASSUME OutboxAssumption, OutboxInv, [Next]_vars PROVE OutboxInv'
  OBVIOUS
<1>1. CASE UNCHANGED vars
  BY <1>1 DEF vars, OutboxInv, Typed, ReadsAreOld, InHand, Alone, Recorded, NeverSentTwice
<1>2. ASSUME NEW x \in Senders, NEW quiet \in BOOLEAN,
             Flush(x, quiet) \/ \E m \in Messages : Queue(x, m, quiet)
      PROVE  OutboxInv'
  BY <1>2, FlushKeeps, QueueKeeps
<1>3. ASSUME NEW x \in Senders, Working(x) PROVE OutboxInv'
  BY <1>3, ClaimKeeps, SkipKeeps, SendKeeps, WriteKeeps, TellKeeps DEF Working
<1>4. ASSUME NEW x \in Senders, RetryFailed(x) \/ Crash(x) PROVE OutboxInv'
  BY <1>4, RetryKeeps, CrashKeeps
<1>. QED
  BY <1>1, <1>2, <1>3, <1>4, ClockKeeps DEF Next

LEMMA OutboxInvariant == Spec => []OutboxInv
<1>1. Init => OutboxInv
  BY InitHolds, OutboxAssumption
<1>2. OutboxInv /\ [Next]_vars => OutboxInv'
  BY NextKeeps, OutboxAssumption
<1>. QED
  BY <1>1, <1>2, PTL DEF Spec

(* However many senders overlap, die and requeue, the provider accepts a   *)
(* message once, the doubtful ones apart.                                  *)
THEOREM NoMessageIsSentTwice == Spec => []NeverSentTwice
<1>1. OutboxInv => NeverSentTwice
  BY DEF OutboxInv
<1>. QED
  BY <1>1, OutboxInvariant, PTL

-----------------------------------------------------------------------------
(* The refinement.  What a courier sees of a message depends on its row,   *)
(* on whether somebody holds it, and on whether a requeue crossed it.      *)
LEMMA InitActs == Init => Log!Init
<1>. SUFFICES ASSUME Init PROVE Log!Init
  OBVIOUS
<1>1. \A m \in Messages : row[m].status = "NONE" /\ m \notin reread
  BY DEF Init
<1>. QED
  BY <1>1 DEF Log!Init, Abstraction, Look

LEMMA Seen ==
  ASSUME Typed, NEW m \in Messages
  PROVE  /\ m \in reread => Abstraction[m] = "waiting"
         /\ m \notin reread =>
              /\ row[m].status = "NONE" => Abstraction[m] = "none"
              /\ row[m].status = "SENT" => Abstraction[m] = "sent"
              /\ row[m].status = "FAILED" => Abstraction[m] = "failed"
              /\ row[m].status = "PENDING" /\ (\E x \in Senders : Works(p[x], m)) => Abstraction[m] = "sending"
              /\ row[m].status = "PENDING" /\ (\A x \in Senders : ~Works(p[x], m)) => Abstraction[m] = "waiting"
<1>1. Holding(m) <=> \E x \in Senders : Works(p[x], m)
  BY DEF Holding, Works, Held
<1>. QED
  BY <1>1 DEF Abstraction, Look

LEMMA SeenNext ==
  ASSUME Typed', NEW m \in Messages
  PROVE  /\ m \in reread' => Abstraction'[m] = "waiting"
         /\ m \notin reread' =>
              /\ row'[m].status = "NONE" => Abstraction'[m] = "none"
              /\ row'[m].status = "SENT" => Abstraction'[m] = "sent"
              /\ row'[m].status = "FAILED" => Abstraction'[m] = "failed"
              /\ row'[m].status = "PENDING" /\ (\E x \in Senders : Works(p'[x], m)) => Abstraction'[m] = "sending"
              /\ row'[m].status = "PENDING" /\ (\A x \in Senders : ~Works(p'[x], m)) => Abstraction'[m] = "waiting"
<1>1. Holding(m)' <=> \E x \in Senders : Works(p'[x], m)
  BY DEF Holding, Works, Held
<1>. QED
  BY <1>1 DEF Abstraction, Look

(* A message whose row and holders stay as they are looks the same. *)
LEMMA Unmoved ==
  ASSUME Typed, Typed', NEW m \in Messages, row'[m].status = row[m].status,
         m \in reread' <=> m \in reread,
         \/ m \in reread
         \/ (\E x \in Senders : Works(p'[x], m)) <=> (\E x \in Senders : Works(p[x], m))
  PROVE  Abstraction'[m] = Abstraction[m]
<1>1. row[m].status \in {"NONE", "PENDING", "SENT", "FAILED"}
  BY DEF Typed
<1>. QED
  BY <1>1, Seen, SeenNext

LEMMA IsTurn ==
  ASSUME NEW n \in Messages, NEW a, NEW b, Abstraction[n] = a, Abstraction'[n] = b,
         \A m \in Messages : m # n => Abstraction'[m] = Abstraction[m]
  PROVE  Log!Turn(n, a, b)
<1>1. Abstraction' = [Abstraction EXCEPT ![n] = b]
  BY DEF Abstraction
<1>. QED
  BY <1>1 DEF Log!Turn

LEMMA IsStutter ==
  ASSUME \A m \in Messages : Abstraction'[m] = Abstraction[m]
  PROVE  UNCHANGED Abstraction
BY DEF Abstraction

(* Letting go of a message hands it back; every other step that leaves the *)
(* rows alone is not seen.                                                 *)
LEMMA LettingGoActs ==
  ASSUME OutboxInv, OutboxInv', NEW x \in Senders, UNCHANGED <<row, reread>>,
         \A y \in Senders : y # x => p'[y] = p[y],
         p'[x].pc \in {"idle", "flush", "deliver", "tell"}
  PROVE  [Log!Next]_Abstraction
<1>. USE DEF OutboxInv
<1>1. \A m \in Messages : ~Works(p'[x], m)
  BY DEF Works, Held
<1>2. CASE \E n \in Messages \ reread : Works(p[x], n)
  <2>1. PICK n \in Messages \ reread : Works(p[x], n)
    BY <1>2
  <2>2. row[n].status = "PENDING" /\ \A y \in Senders : y # x => ~Works(p[y], n)
    BY <2>1 DEF InHand, Alone
  <2>3. Abstraction[n] = "sending" /\ Abstraction'[n] = "waiting"
    <3>1. \A y \in Senders : ~Works(p'[y], n)
      BY <1>1, <2>2
    <3>. QED
      BY <2>1, <2>2, <3>1, Seen, SeenNext
  <2>4. \A m \in Messages : m # n => ~Works(p[x], m)
    BY <2>1 DEF Works
  <2>5. \A m \in Messages : m # n => Abstraction'[m] = Abstraction[m]
    BY <1>1, <2>4, Unmoved
  <2>6. Log!GiveBack(n)
    BY <2>1, <2>3, <2>5, IsTurn DEF Log!GiveBack
  <2>. QED
    BY <2>1, <2>6 DEF Log!Next
<1>3. CASE \A n \in Messages \ reread : ~Works(p[x], n)
  <2>1. \A m \in Messages : Abstraction'[m] = Abstraction[m]
    BY <1>1, <1>3, Unmoved
  <2>. QED
    BY <2>1, IsStutter
<1>. QED
  BY <1>2, <1>3

LEMMA QueueActs ==
  ASSUME OutboxInv, OutboxInv', NEW x \in Senders, NEW n \in Messages, NEW quiet \in BOOLEAN,
         Queue(x, n, quiet)
  PROVE  Log!Next
<1>. USE DEF OutboxInv
<1>1. /\ row[n].status = "NONE" /\ row'[n].status = "PENDING"
      /\ \A m \in Messages : m # n => row'[m] = row[m]
      /\ UNCHANGED reread /\ n \notin reread
  BY DEF Queue, history, Typed, Recorded
<1>2. \A y \in Senders : ~Works(p[y], n)
  BY <1>1, WorkIsRead DEF ReadsAreOld
<1>3. /\ \A y \in Senders : y # x => p'[y] = p[y]
      /\ \A m : ~Works(p[x], m) /\ ~Works(p'[x], m)
  BY DEF Queue, Continue, Run, Idle, Works, Held, Typed
<1>4. Abstraction[n] = "none" /\ Abstraction'[n] = "waiting"
  BY <1>1, <1>2, <1>3, Seen, SeenNext
<1>5. \A m \in Messages : m # n => Abstraction'[m] = Abstraction[m]
  BY <1>1, <1>3, Unmoved
<1>6. Log!Accept(n)
  BY <1>4, <1>5, IsTurn DEF Log!Accept
<1>. QED
  BY <1>6 DEF Log!Next

LEMMA ClaimActs ==
  ASSUME OutboxInv, OutboxInv', NEW x \in Senders, Claim(x) PROVE [Log!Next]_Abstraction
<1>. USE DEF OutboxInv
<1> DEFINE n == Head(p[x].todo)[1]
<1>1. /\ p[x].pc = "deliver" /\ Waiting(p[x]) /\ row[n].status = "PENDING"
      /\ row[n].attempts = Head(p[x].todo)[2]
      /\ row' = [row EXCEPT ![n].attempts = Head(p[x].todo)[2] + 1]
      /\ p' = [p EXCEPT ![x] = [pc |-> "sending", todo |-> p[x].todo]]
      /\ UNCHANGED reread
  BY DEF Claim, Claimable, Run, history, Waiting
<1>2. n \in Messages /\ Head(p[x].todo) \in Reads(p[x]) /\ Head(p[x].todo)[2] \in Nat
  BY <1>1, HeadAndTail DEF Reading
<1>3. n \notin reread => \A y \in Senders : ~Works(p[y], n)
  <2>. SUFFICES ASSUME NEW y \in Senders, n \notin reread, Works(p[y], n) PROVE FALSE
    OBVIOUS
  <2>1. Head(p[x].todo)[2] < row[n].attempts
    BY <1>2 DEF InHand
  <2>2. row[n].attempts = Head(p[x].todo)[2] /\ Head(p[x].todo)[2] \in Nat
    BY <1>1, <1>2
  <2>. HIDE DEF n
  <2>. QED
    BY <2>1, <2>2
<1>4. /\ \A y \in Senders : y # x => p'[y] = p[y]
      /\ Works(p'[x], n) /\ \A m : m # n => ~Works(p'[x], m)
      /\ \A m : ~Works(p[x], m)
  <2>. HIDE DEF n
  <2>1. Head(p[x].todo)[1] = n
    BY DEF n
  <2>2. p'[x] = [pc |-> "sending", todo |-> p[x].todo] /\ \A y \in Senders : y # x => p'[y] = p[y]
    BY <1>1 DEF Typed
  <2>. QED
    BY <2>1, <2>2, <1>1 DEF Works, Held
<1>. HIDE DEF n
<1>5. \A m \in Messages : row'[m].status = row[m].status
  BY <1>1, <1>2 DEF Typed
<1>6. \A m \in Messages : m # n => Abstraction'[m] = Abstraction[m]
  BY <1>1, <1>4, <1>5, Unmoved
<1>7. CASE n \in reread
  <2>1. Abstraction'[n] = Abstraction[n]
    BY <1>1, <1>2, <1>5, <1>7, Unmoved
  <2>. QED
    BY <2>1, <1>6, IsStutter
<1>8. CASE n \notin reread
  <2>1. Abstraction[n] = "waiting" /\ Abstraction'[n] = "sending"
    BY <1>1, <1>2, <1>3, <1>4, <1>5, <1>8, Seen, SeenNext
  <2>2. Log!TakeUp(n)
    BY <1>2, <1>6, <2>1, IsTurn DEF Log!TakeUp
  <2>. QED
    BY <1>2, <2>2 DEF Log!Next
<1>. QED
  BY <1>7, <1>8

LEMMA WriteActs ==
  ASSUME OutboxInv, OutboxInv', NEW x \in Senders, Write(x) PROVE [Log!Next]_Abstraction
<1>. USE DEF OutboxInv
<1> DEFINE n == Head(p[x].todo)[1]
<1>1. /\ Works(p[x], n) /\ n \in Messages
      /\ row'[n].status \in {"SENT", "FAILED", "PENDING"}
      /\ \A m \in Messages : m # n => row'[m] = row[m]
      /\ UNCHANGED reread
      /\ \A y \in Senders : y # x => p'[y] = p[y]
      /\ p'[x].pc \in {"idle", "deliver", "tell"}
  BY WriteSets
<1>2. /\ \A m : m # n => ~Works(p[x], m)
      /\ \A m : ~Works(p'[x], m)
  BY <1>1 DEF Works, Held
<1>. HIDE DEF n
<1>3. \A m \in Messages : m # n => Abstraction'[m] = Abstraction[m]
  BY <1>1, <1>2, Unmoved
<1>4. CASE n \in reread
  <2>1. Abstraction'[n] = Abstraction[n]
    BY <1>1, <1>4, Seen, SeenNext
  <2>. QED
    BY <2>1, <1>3, IsStutter
<1>5. CASE n \notin reread
  <2>1. \A y \in Senders : ~Works(p'[y], n)
    BY <1>1, <1>2, <1>5 DEF Alone
  <2>2. Abstraction[n] = "sending"
    BY <1>1, <1>5, Seen DEF InHand
  <2>3. CASE row'[n].status = "SENT"
    <3>1. Abstraction'[n] = "sent"
      BY <2>3, <1>1, <1>5, SeenNext
    <3>2. Log!Delivered(n)
      BY <3>1, <2>2, <1>1, <1>3, IsTurn DEF Log!Delivered
    <3>. QED
      BY <3>2, <1>1 DEF Log!Next
  <2>4. CASE row'[n].status = "FAILED"
    <3>1. Abstraction'[n] = "failed"
      BY <2>4, <1>1, <1>5, SeenNext
    <3>2. Log!GiveUp(n)
      BY <3>1, <2>2, <1>1, <1>3, IsTurn DEF Log!GiveUp
    <3>. QED
      BY <3>2, <1>1 DEF Log!Next
  <2>5. CASE row'[n].status = "PENDING"
    <3>1. Abstraction'[n] = "waiting"
      BY <2>1, <2>5, <1>1, <1>5, SeenNext
    <3>2. Log!GiveBack(n)
      BY <3>1, <2>2, <1>1, <1>3, IsTurn DEF Log!GiveBack
    <3>. QED
      BY <3>2, <1>1 DEF Log!Next
  <2>. QED
    BY <2>3, <2>4, <2>5, <1>1
<1>. QED
  BY <1>4, <1>5

LEMMA RetryActs ==
  ASSUME OutboxInv, OutboxInv', NEW x \in Senders, RetryFailed(x) PROVE Log!Next
<1>. USE DEF OutboxInv
<1> DEFINE set == Requeued \ reread
<1>1. /\ p[x] = Idle /\ p' = [p EXCEPT ![x] = [pc |-> "flush"]]
      /\ \A m \in Messages : row'[m] =
           IF m \in Requeued THEN [status |-> "PENDING", attempts |-> 0] ELSE row[m]
      /\ reread' = reread \cup (Requeued \cap UNION {Queued(y) : y \in Senders})
  BY DEF RetryFailed, Run
<1>2. Requeued \subseteq Messages /\ \A m \in Requeued : row[m].status = "FAILED"
  BY DEF Requeued
<1>3. \A y \in Senders, m \in Messages : Works(p'[y], m) <=> Works(p[y], m)
  BY <1>1 DEF Typed, Idle, Works, Held
<1>4. \A y \in Senders, m \in Messages : Works(p[y], m) /\ m \in Requeued => m \in reread'
  BY <1>1, WorkIsRead, QueuedIsRead
<1>5. \A m \in set : Abstraction[m] = "failed" /\ Abstraction'[m] = "waiting"
  BY <1>1, <1>2, <1>3, <1>4, Seen, SeenNext
<1>6. \A m \in Messages \ set : Abstraction'[m] = Abstraction[m]
  <2>. SUFFICES ASSUME NEW m \in Messages, m \notin set
                PROVE  Abstraction'[m] = Abstraction[m]
    OBVIOUS
  <2>1. CASE m \in reread
    BY <2>1, <1>1, Seen, SeenNext
  <2>2. CASE m \notin Requeued
    <3>1. row'[m].status = row[m].status /\ (m \in reread' <=> m \in reread)
      BY <2>2, <1>1
    <3>. QED
      BY <3>1, <1>3, Unmoved
  <2>. QED
    BY <2>1, <2>2
<1>7. Log!Requeue(set)
  <2>1. Abstraction' = [m \in Messages |-> IF m \in set THEN "waiting" ELSE Abstraction[m]]
    <3>1. Abstraction' = [m \in Messages |-> Abstraction'[m]]
      BY DEF Abstraction
    <3>. HIDE DEF set
    <3>. QED
      BY <3>1, <1>5, <1>6
  <2>. QED
    BY <2>1, <1>5 DEF Log!Requeue
<1>8. set \in SUBSET Messages
  BY <1>2
<1>. QED
  BY <1>7, <1>8 DEF Log!Next

LEMMA StepsAct ==
  OutboxInv /\ OutboxInv' /\ [Next]_vars => [Log!Next]_Abstraction
<1>. SUFFICES ASSUME OutboxInv, OutboxInv', [Next]_vars PROVE [Log!Next]_Abstraction
  OBVIOUS
<1>. USE DEF OutboxInv
<1>1. ASSUME UNCHANGED <<row, reread, p>> PROVE [Log!Next]_Abstraction
  BY <1>1, Unmoved, IsStutter
<1>2. CASE UNCHANGED vars
  BY <1>1, <1>2 DEF vars, history
<1>3. ASSUME NEW x \in Senders, NEW quiet \in BOOLEAN, Flush(x, quiet)
      PROVE  [Log!Next]_Abstraction
  <2>1. /\ \A y \in Senders : y # x => p'[y] = p[y]
        /\ p'[x].pc \in {"idle", "deliver"}
        /\ UNCHANGED <<row, reread>>
    BY <1>3 DEF Flush, Continue, Run, Idle, history, Typed
  <2>. QED
    BY <2>1, LettingGoActs
<1>4. ASSUME NEW x \in Senders, Skip(x) \/ Tell(x) \/ Crash(x)
      PROVE  [Log!Next]_Abstraction
  <2>1. /\ \A y \in Senders : y # x => p'[y] = p[y]
        /\ p'[x].pc \in {"idle", "deliver"}
        /\ UNCHANGED <<row, reread>>
    BY <1>4 DEF Skip, Tell, Crash, Continue, Run, Idle, history, Typed
  <2>. QED
    BY <2>1, LettingGoActs
<1>5. ASSUME NEW x \in Senders, NEW answer \in Answers, Send(x, answer)
      PROVE  [Log!Next]_Abstraction
  <2>1. /\ UNCHANGED <<row, reread>>
        /\ \A y \in Senders, m \in Messages : Works(p'[y], m) <=> Works(p[y], m)
    BY <1>5 DEF Send, Run, Works, Held, Typed
  <2>. QED
    BY <2>1, Unmoved, IsStutter
<1>6. ASSUME NEW m \in Messages, CoolDown(m) \/ Expire(m) PROVE [Log!Next]_Abstraction
  BY <1>6, <1>1 DEF CoolDown, Expire, history
<1>7. CASE WindowFrees
  BY <1>7, <1>1 DEF WindowFrees, history
<1>. QED
  BY <1>2, <1>3, <1>4, <1>5, <1>6, <1>7, QueueActs, ClaimActs, WriteActs, RetryActs
     DEF Next, Working

(* The outbox implements the courier: one pair of hands per message at a   *)
(* time, sent is final, failed moves only when requeued - except for a     *)
(* message that a requeue crossed.                                         *)
THEOREM OutboxActsAsCourier == Spec => ActsAsCourier
<1>1. Init => Log!Init
  BY InitActs
<1>2. OutboxInv /\ OutboxInv' /\ [Next]_vars => [Log!Next]_Abstraction
  BY StepsAct
<1>. QED
  BY <1>1, <1>2, OutboxInvariant, PTL DEF Spec, ActsAsCourier, Log!Spec
===============================================================================
