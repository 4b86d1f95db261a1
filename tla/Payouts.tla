------------------------------- MODULE Payouts --------------------------------
(***************************************************************************)
(* The commission balance of one rep and the requests that draw on it      *)
(* (src/server/src/services/commission.service.js, penalty.service.js and  *)
(* the fields of the rep that salesReps.controller.js writes).             *)
(*                                                                         *)
(* Nothing here runs in a transaction: a handler is a session whose        *)
(* statements interleave with those of the others.  Only the claim of the  *)
(* emergency window is a conditional update.  computeForRep, a bundle of   *)
(* queries, is taken as one read.  Money is counted in units of a fine.    *)
(***************************************************************************)
EXTENDS Integers, FiniteSets, FiniteSetsExt

CONSTANTS Handlers,     \* handlers that may be in flight together
          Requests,     \* rows of CommissionWithdrawal that may be created
          Fines,        \* rows of SettlementPenalty, one unit each
          Minimum,      \* minWithdrawal
          Floor,        \* EMERGENCY_FLOOR
          Window,       \* EMERGENCY_WINDOW_HOURS, in ticks
          MaxEarned,    \* bound: commission earned, corrections included
          MaxAmount,    \* bound: amount of one request
          MaxOpens,     \* bound: windows the admin opens
          MaxChanges,   \* bound: corrections, sales, switches
          MaxTime       \* bound: ticks

VARIABLES
  gross,        \* earnedForRep: commission of the settled boxes
  adjustment,   \* commissionAdjustment
  onCommission, \* earnsCommission
  fine,         \* fine[f]: "NONE", "APPLIED" or "WAIVED"
  windowAt,     \* emergencyWindowAt, or Closed
  req,          \* req[w]: status, amount and underEmergency of a request
  held,         \* withdrawalTotals: the sum of the PENDING, APPROVED, PAID ones
  now,
  h,            \* h[s]: the statement session s runs next and what it has read
  changes,      \* counter for the bound
  opened,       \* history: windows the admin opened
  debits,       \* history: what fines, corrections and cancellations took off
  raced,        \* history: two requests were under way at once
  crossed       \* history: requests two decisions worked on at once

vars == <<gross, adjustment, onCommission, fine, windowAt, req, held, now, h,
          changes, opened, debits, raced, crossed>>
history == <<opened, debits, raced, crossed>>
rep == <<gross, adjustment, onCommission, fine, changes>>

Closed == -1
Idle == [pc |-> "idle"]
Statuses == {"NONE", "PENDING", "APPROVED", "REJECTED", "PAID"}
Live == {"PENDING", "APPROVED", "PAID"}
Correction == {-1, 1}

Init ==
  /\ gross \in 0..MaxEarned /\ adjustment = 0 /\ onCommission = TRUE
  /\ fine = [f \in Fines |-> "NONE"]
  /\ windowAt = Closed
  /\ req = [w \in Requests |-> [status |-> "NONE", amount |-> 0, emergency |-> FALSE]]
  /\ held = 0 /\ now = 0
  /\ h = [s \in Handlers |-> Idle]
  /\ changes = 0 /\ opened = 0 /\ debits = 0 /\ raced = FALSE /\ crossed = {}

-----------------------------------------------------------------------------
(* penaltyBreakdownForRep counts the APPLIED fines only. *)
FineTotal == Cardinality({f \in Fines : fine[f] = "APPLIED"})

(* computeForRep: what the rep may still ask for.                          *)
Available ==
  IF onCommission THEN gross + adjustment - held - FineTotal ELSE 0

(* emergencyStateFor: expiry is computed on read.                          *)
WindowOpen == windowAt # Closed /\ now - windowAt < Window
EmergencyOpen == onCommission /\ WindowOpen

InFlight(pcs) == {s \in Handlers : h[s].pc \in pcs}
Run(s, state) == h' = [h EXCEPT ![s] = state]
Change == changes < MaxChanges /\ changes' = changes + 1

-----------------------------------------------------------------------------
(* requestWithdrawal.  The ceiling first; below the minimum an open window *)
(* and the floor as well.                                                  *)
(* Mutant: the requests waiting for a decision are not subtracted. *)
WithinPending(a) ==
  a <= Available + MapThenSumSet(LAMBDA w : req[w].amount,
                                 {w \in Requests : req[w].status = "PENDING"})
WithinBalance(a) == a <= Available
Ordinary == Available >= Minimum

StartRequest(s, a) ==
  /\ h[s] = Idle
  /\ WithinBalance(a)
  /\ IF Ordinary
     THEN Run(s, [pc |-> "create", amount |-> a, emergency |-> FALSE])
     ELSE /\ EmergencyOpen /\ a >= Floor
          /\ Run(s, [pc |-> "claim", amount |-> a, emergency |-> TRUE])
  /\ raced' = (raced \/ InFlight({"claim", "create"}) # {})
  /\ UNCHANGED <<rep, windowAt, req, held, now, opened, debits, crossed>>

(* The conditional update: the window must still be open in the row.       *)
Claimed == WindowOpen
ClaimWindow(s) ==
  /\ h[s].pc = "claim"
  /\ IF Claimed
     THEN windowAt' = Closed /\ Run(s, [h[s] EXCEPT !.pc = "create"])
     ELSE windowAt' = windowAt /\ Run(s, Idle)
  /\ UNCHANGED <<rep, req, held, now, history>>

CreateRequest(s, w) ==
  /\ h[s].pc = "create"
  /\ req[w].status = "NONE"
  /\ req' = [req EXCEPT ![w] = [status |-> "PENDING", amount |-> h[s].amount,
                                emergency |-> h[s].emergency]]
  /\ held' = held + h[s].amount
  /\ Run(s, Idle)
  /\ UNCHANGED <<rep, windowAt, now, history>>

-----------------------------------------------------------------------------
(* decideWithdrawal: the status is read, and written without looking again.*)
(* Mutant: a rejected request may still be paid. *)
DecidableAlways(w, to) == req[w].status \in Live \cup {"REJECTED"}
Decidable(w, to) ==
  \/ req[w].status = "PENDING"
  \/ req[w].status = "APPROVED" /\ to = "PAID"

StartDecision(s, w, to) ==
  /\ h[s] = Idle
  /\ Decidable(w, to)
  /\ Run(s, [pc |-> "decide", row |-> w, to |-> to])
  /\ crossed' = IF \E t \in InFlight({"decide", "handback"}) : h[t].row = w
                THEN crossed \cup {w} ELSE crossed
  /\ UNCHANGED <<rep, windowAt, req, held, now, opened, debits, raced>>

(* What withdrawalTotals counts of a request.                              *)
(* Mutant: only the requests nobody has decided. *)
CountedUndecided(st, amount) == IF st = "PENDING" THEN amount ELSE 0
Counted(st, amount) == IF st \in Live THEN amount ELSE 0

WriteDecision(s) ==
  LET w == h[s].row
  IN /\ h[s].pc = "decide"
     /\ req' = [req EXCEPT ![w].status = h[s].to]
     /\ held' = held - Counted(req[w].status, req[w].amount)
                     + Counted(h[s].to, req[w].amount)
     /\ Run(s, IF h[s].to = "REJECTED" /\ req[w].emergency
               THEN [pc |-> "handback", row |-> w] ELSE Idle)
     /\ UNCHANGED <<rep, windowAt, now, history>>

(* A rejected emergency request hands the window back: 48 new hours,       *)
(* whatever the row says by now.                                           *)
HandBack(s) ==
  /\ h[s].pc = "handback"
  /\ windowAt' = now
  /\ Run(s, Idle)
  /\ UNCHANGED <<rep, req, held, now, history>>

(* setEmergencyWindow. *)
OpenWindow ==
  /\ onCommission
  /\ opened < MaxOpens
  /\ opened' = opened + 1
  /\ windowAt' = now
  /\ UNCHANGED <<rep, req, held, now, h, debits, raced, crossed>>
CloseWindow ==
  /\ windowAt # Closed
  /\ windowAt' = Closed
  /\ UNCHANGED <<rep, req, held, now, h, history>>

-----------------------------------------------------------------------------
(* adjustEarned: the column is read, the sum written back.                 *)
StartAdjust(s, d) ==
  /\ h[s] = Idle
  /\ Change
  /\ Run(s, [pc |-> "adjust", next |-> adjustment + d])
  /\ UNCHANGED <<gross, adjustment, onCommission, fine, windowAt, req, held, now,
                 opened, debits, raced, crossed>>
WriteAdjust(s) ==
  /\ h[s].pc = "adjust"
  /\ adjustment' = h[s].next
  /\ debits' = debits + (IF h[s].next < adjustment THEN adjustment - h[s].next ELSE 0)
  /\ Run(s, Idle)
  /\ UNCHANGED <<gross, onCommission, fine, changes, windowAt, req, held, now,
                 opened, raced, crossed>>

(* A fine of the sweep, of a return that expired, or a manual deduction    *)
(* (adjustCommission); and waivePenalty, which keeps the row.              *)
ApplyFine(f) ==
  /\ fine[f] = "NONE"
  /\ fine' = [fine EXCEPT ![f] = "APPLIED"]
  /\ debits' = debits + 1
  /\ UNCHANGED <<gross, adjustment, onCommission, changes, windowAt, req, held, now, h,
                 opened, raced, crossed>>
WaivePenalty(f) ==
  /\ fine[f] = "APPLIED"
  /\ fine' = [fine EXCEPT ![f] = "WAIVED"]
  /\ UNCHANGED <<gross, adjustment, onCommission, changes, windowAt, req, held, now, h, history>>

(* Boxes are settled; a sale is cancelled.                                 *)
Settle ==
  /\ gross < MaxEarned
  /\ Change
  /\ gross' = gross + 1
  /\ UNCHANGED <<adjustment, onCommission, fine, windowAt, req, held, now, h, history>>
CancelSale ==
  /\ gross > 0
  /\ Change
  /\ gross' = gross - 1
  /\ debits' = debits + 1
  /\ UNCHANGED <<adjustment, onCommission, fine, windowAt, req, held, now, h,
                 opened, raced, crossed>>

(* The rep is taken off commission, or put back on.                        *)
SwitchCommission ==
  /\ Change
  /\ onCommission' = ~onCommission
  /\ UNCHANGED <<gross, adjustment, fine, windowAt, req, held, now, h, history>>

Tick ==
  /\ now < MaxTime
  /\ now' = now + 1
  /\ UNCHANGED <<rep, windowAt, req, held, h, history>>

(* The process dies, or the hand-back fails (its error is swallowed).      *)
Crash(s) ==
  /\ h[s] # Idle
  /\ Run(s, Idle)
  /\ UNCHANGED <<rep, windowAt, req, held, now, history>>

-----------------------------------------------------------------------------
Handler(s) ==
  \/ \E a \in 1..MaxAmount : StartRequest(s, a)
  \/ ClaimWindow(s)
  \/ \E w \in Requests : CreateRequest(s, w)
  \/ \E w \in Requests, to \in {"APPROVED", "REJECTED", "PAID"} : StartDecision(s, w, to)
  \/ WriteDecision(s)
  \/ HandBack(s)
  \/ \E d \in Correction : StartAdjust(s, d)
  \/ WriteAdjust(s)
  \/ Crash(s)

Next ==
  \/ \E s \in Handlers : Handler(s)
  \/ OpenWindow \/ CloseWindow
  \/ \E f \in Fines : ApplyFine(f) \/ WaivePenalty(f)
  \/ Settle \/ CancelSale
  \/ SwitchCommission
  \/ Tick

Spec == Init /\ [][Next]_vars

-----------------------------------------------------------------------------
Session ==
  {Idle}
  \cup [pc : {"claim", "create"}, amount : 1..MaxAmount, emergency : BOOLEAN]
  \cup [pc : {"decide"}, row : Requests, to : {"APPROVED", "REJECTED", "PAID"}]
  \cup [pc : {"handback"}, row : Requests]
  \cup [pc : {"adjust"}, next : Int]

Typing ==
  /\ gross \in Nat /\ adjustment \in Int /\ onCommission \in BOOLEAN
  /\ fine \in [Fines -> {"NONE", "APPLIED", "WAIVED"}]
  /\ windowAt \in Nat \cup {Closed}
  /\ req \in [Requests -> [status : Statuses, amount : Nat, emergency : BOOLEAN]]
  /\ held \in Int /\ now \in Nat /\ changes \in Nat
  /\ h \in [Handlers -> Session]
  /\ opened \in Nat /\ debits \in Nat /\ raced \in BOOLEAN
  /\ crossed \subseteq Requests

(* Every variable has its type, and what is withheld from the balance is   *)
(* the sum of the requests not rejected.                                   *)
TypeOK ==
  /\ Typing
  /\ held = SumFunction([w \in {v \in Requests : req[v].status \in Live} |-> req[w].amount])

(* Requests alone never take the rep below zero: the balance is negative   *)
(* by no more than what was fined, corrected downwards or cancelled,       *)
(* unless two requests, or two decisions on one request, were under way at *)
(* once.  The balance is checked when the request is made and never again. *)
NeverOverdrawn ==
  raced \/ crossed # {} \/ gross + adjustment - held - FineTotal + debits >= 0

Emergencies == {w \in Requests : req[w].emergency /\ req[w].status \in Live}

(* One window opened by the admin serves one request: however often a      *)
(* rejected one hands it back, there are never more emergency requests     *)
(* alive than windows opened, unless two decisions on one request          *)
(* overlapped.                                                             *)
OneRequestPerWindow == crossed # {} \/ Cardinality(Emergencies) <= opened

(* A request that was rejected or paid stays so, unless two decisions      *)
(* worked on it at once.                                                   *)
Stands ==
  \A w \in Requests \ crossed :
    req[w].status \in {"REJECTED", "PAID"} => req'[w] = req[w]

=============================================================================
