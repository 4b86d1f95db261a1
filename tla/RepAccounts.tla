------------------------------ MODULE RepAccounts -----------------------------
(***************************************************************************)
(* The account of one rep, from creation to removal                        *)
(* (src/server/src/controllers/salesReps.controller.js and the removal of  *)
(* its user in users.controller.js), beside the stock that is issued to it *)
(* and comes back.  A removal is a check, a wipe in one transaction, and   *)
(* deletions after it: other requests run between them.  The foreign key   *)
(* of the stock ledger is the only thing that keeps a rep with boxes from  *)
(* being deleted by a removal that has looked.                             *)
(***************************************************************************)
EXTENDS Integers, Functions

CONSTANTS Sessions,   \* handlers that may be in flight together
          Products,
          MaxMoves    \* bound: boxes issued

VARIABLES
  login,     \* the user: "LIVE", switched "OFF", or "NONE"
  rep,       \* the row of the rep: "NONE", "ACTIVE", "SUSPENDED"
  held,      \* the rep's boxes of each product, by the ledger
  history,   \* there are ledger rows of the rep
  orders,    \* there are orders of the rep
  moves,
  h,         \* h[s]: the statement session s runs next and what it has read
  swallowed, \* history: boxes that were out when their rows were deleted
  reset,     \* history: the data of the rep was reset by hand
  crossed    \* history: stock moved, or two ran, while a removal was under way

vars == <<login, rep, held, history, orders, moves, h, swallowed, reset, crossed>>
stock == <<held, history, orders, moves>>
past == <<swallowed, reset, crossed>>

Idle == [pc |-> "idle"]
None == [p \in Products |-> 0]
Boxes(q) == SumFunction(q)

Init ==
  /\ login = "LIVE" /\ rep = "NONE"
  /\ held = None /\ history = FALSE /\ orders = FALSE /\ moves = 0
  /\ h = [s \in Sessions |-> Idle]
  /\ swallowed = FALSE /\ reset = FALSE /\ crossed = FALSE

Run(s, state) == h' = [h EXCEPT ![s] = state]
Removal == {"suspend?", "wipe", "drop rep", "drop login"}
Removing == \E s \in Sessions : h[s].pc \in Removal

-----------------------------------------------------------------------------
(* create: one profile a user. *)
Create ==
  /\ login # "NONE" /\ rep = "NONE"
  /\ rep' = "ACTIVE"
  /\ UNCHANGED <<login, stock, h, past>>
(* update may also switch the rep off and on. *)
Update ==
  /\ rep # "NONE"
  /\ rep' = IF rep = "ACTIVE" THEN "SUSPENDED" ELSE "ACTIVE"
  /\ UNCHANGED <<login, stock, h, past>>

(* The user is switched off or on, whatever its rep holds. *)
SwitchUser ==
  /\ login # "NONE"
  /\ login' = IF login = "LIVE" THEN "OFF" ELSE "LIVE"
  /\ UNCHANGED <<rep, stock, h, past>>

(* addStock reads the rep, whatever its state; the transaction of          *)
(* addStockToRep writes the ledger, and fails if the rep is gone.          *)
StartIssue(s, p) ==
  /\ h[s] = Idle /\ rep # "NONE" /\ moves < MaxMoves
  /\ moves' = moves + 1
  /\ Run(s, [pc |-> "issue", p |-> p])
  /\ UNCHANGED <<login, rep, held, history, orders, past>>
Issue(s) ==
  /\ h[s].pc = "issue"
  /\ IF rep = "NONE" THEN UNCHANGED <<held, history, orders, crossed>>
     ELSE /\ held' = [held EXCEPT ![h[s].p] = @ + 1]
          /\ history' = TRUE /\ orders' = TRUE
          /\ crossed' = (crossed \/ Removing)
  /\ Run(s, Idle)
  /\ UNCHANGED <<login, rep, moves, swallowed, reset>>
(* A box is settled or comes back: a negative ledger row. *)
Account(p) ==
  /\ rep # "NONE" /\ held[p] > 0
  /\ held' = [held EXCEPT ![p] = @ - 1]
  /\ UNCHANGED <<login, rep, history, orders, moves, h, past>>

-----------------------------------------------------------------------------
(* remove: deletionCheck adds up the boxes of all products.                *)
(* Mutant: a suspended rep may be removed with boxes out. *)
DeletableWhenOff == Boxes(held) <= 0 \/ rep = "SUSPENDED"
Deletable == Boxes(held) <= 0
StartRemove(s, purge) ==
  /\ h[s] = Idle /\ rep # "NONE"
  /\ Deletable
  /\ Run(s, [pc |-> IF purge THEN "wipe" ELSE "suspend?", purge |-> purge])
  /\ crossed' = (crossed \/ Removing)
  /\ UNCHANGED <<login, rep, stock, swallowed, reset>>
(* users.remove with a purge: the same for a user who is a rep. *)
StartRemoveUser(s) ==
  /\ h[s] = Idle /\ login # "NONE"
  /\ IF rep = "NONE" THEN Run(s, [pc |-> "drop login", purge |-> TRUE])
     ELSE Deletable /\ Run(s, [pc |-> "wipe", purge |-> TRUE])
  /\ crossed' = (crossed \/ Removing)
  /\ UNCHANGED <<login, rep, stock, swallowed, reset>>
(* Without a purge: a rep with ledger rows is suspended, another deleted.  *)
SuspendOrDrop(s) ==
  /\ h[s].pc = "suspend?"
  /\ IF history
     THEN /\ rep' = (IF rep = "NONE" THEN "NONE" ELSE "SUSPENDED")
          /\ Run(s, Idle)
     ELSE rep' = rep /\ Run(s, [h[s] EXCEPT !.pc = "drop rep"])
  /\ UNCHANGED <<login, stock, past>>

(* wipeRepActivity, of a purge or of resetData, which checks nothing. *)
StartReset(s) ==
  /\ h[s] = Idle /\ rep # "NONE"
  /\ Run(s, [pc |-> "reset"])
  /\ UNCHANGED <<login, rep, stock, past>>
Wipe(s) ==
  /\ h[s].pc \in {"wipe", "reset"}
  /\ held' = None /\ history' = FALSE /\ orders' = FALSE
  /\ swallowed' = (swallowed \/ Boxes(held) > 0)
  /\ reset' = (reset \/ h[s].pc = "reset")
  /\ Run(s, IF h[s].pc = "wipe" THEN [h[s] EXCEPT !.pc = "drop rep"] ELSE Idle)
  /\ UNCHANGED <<login, rep, moves, crossed>>

(* The row goes unless ledger rows name it; orders and requests go with    *)
(* it.  A purge then deletes the login.                                    *)
Droppable == ~history
DropRep(s) ==
  /\ h[s].pc = "drop rep"
  /\ IF rep # "NONE" /\ Droppable
     THEN /\ rep' = "NONE" /\ orders' = FALSE
          /\ Run(s, IF h[s].purge THEN [h[s] EXCEPT !.pc = "drop login"] ELSE Idle)
     ELSE UNCHANGED <<rep, orders>> /\ Run(s, Idle)
  /\ UNCHANGED <<login, held, history, moves, past>>
(* The deletion of the login takes a profile made meanwhile with it. *)
DropLogin(s) ==
  /\ h[s].pc = "drop login"
  /\ IF history THEN UNCHANGED <<login, rep, orders>>
     ELSE login' = "NONE" /\ rep' = "NONE" /\ orders' = FALSE
  /\ Run(s, Idle)
  /\ UNCHANGED <<held, history, moves, past>>

(* The process dies, or the deletion of the login fails: its error is      *)
(* swallowed.                                                              *)
Crash(s) ==
  /\ h[s] # Idle
  /\ Run(s, Idle)
  /\ UNCHANGED <<login, rep, stock, swallowed, reset, crossed>>

-----------------------------------------------------------------------------
Next ==
  \/ Create \/ Update \/ SwitchUser
  \/ \E p \in Products : Account(p) \/ \E s \in Sessions : StartIssue(s, p)
  \/ \E s \in Sessions :
       \/ Issue(s)
       \/ \E purge \in BOOLEAN : StartRemove(s, purge)
       \/ StartRemoveUser(s)
       \/ SuspendOrDrop(s) \/ StartReset(s) \/ Wipe(s) \/ DropRep(s) \/ DropLogin(s)
       \/ Crash(s)

-----------------------------------------------------------------------------
TypeOK ==
  /\ login \in {"NONE", "OFF", "LIVE"} /\ rep \in {"NONE", "ACTIVE", "SUSPENDED"}
  /\ held \in [Products -> Nat] /\ history \in BOOLEAN /\ orders \in BOOLEAN
  /\ moves \in 0..MaxMoves

(* "Boxes still out are the one thing a deletion must never swallow"       *)
(* (deletionCheck): while boxes are out their rep and its user exist, and  *)
(* the rows of boxes that are out are deleted only by a reset, or when     *)
(* stock was issued while a removal was under way.                         *)
NoBoxesSwallowed ==
  /\ Boxes(held) > 0 => rep # "NONE" /\ login # "NONE" /\ history
  /\ swallowed => reset \/ crossed
===============================================================================
