-------------------------------- MODULE Users ---------------------------------
(***************************************************************************)
(* The accounts that may manage accounts                                   *)
(* (src/server/src/controllers/users.controller.js): only an active ADMIN  *)
(* passes authenticate and requireAdmin, so if the last one goes nobody    *)
(* can bring one back.  A request authenticates and checks first and       *)
(* writes later.                                                           *)
(***************************************************************************)
EXTENDS Integers, FiniteSets

CONSTANTS Sessions,    \* requests that may be in flight together
          Accounts,    \* users that may exist
          First        \* the admin of the seed

VARIABLES
  user,      \* user[u]: role and isActive, or Nobody
  h,         \* h[s]: the statement session s runs next and what it has read
  crossed,   \* history: two requests that take an admin away overlapped
  stepped    \* history: an admin gave up their own role

vars == <<user, h, crossed, stepped>>

Roles == {"ADMIN", "OTHER"}
Row == [role : Roles, active : BOOLEAN]
Nobody == [role |-> "NONE", active |-> FALSE]
Idle == [pc |-> "idle"]

Init ==
  /\ user = [u \in Accounts |-> IF u = First THEN [role |-> "ADMIN", active |-> TRUE] ELSE Nobody]
  /\ h = [s \in Sessions |-> Idle]
  /\ crossed = FALSE /\ stepped = FALSE

Run(s, state) == h' = [h EXCEPT ![s] = state]
Exists(u) == user[u] # Nobody
(* authenticate and requireAdmin: the account is read on every request. *)
Authorized(u) == user[u].role = "ADMIN" /\ user[u].active
activeAdmins == {u \in Accounts : Authorized(u)}

(* update writes the fields that were sent. *)
Updated(row, fields) ==
  [field \in DOMAIN row |-> IF field \in DOMAIN fields THEN fields[field] ELSE row[field]]

(* What a request is about to write takes an admin away. *)
TakesAdmin(state) ==
  /\ state.pc \in {"update", "delete"}
  /\ user[state.of].role = "ADMIN"
  /\ state.pc = "update" =>
       LET after == Updated(user[state.of], state.to)
       IN after.role # "ADMIN" \/ ~after.active
Begin(s, state) ==
  /\ h[s] = Idle /\ Run(s, state)
  /\ crossed' = (crossed \/ (TakesAdmin(state) /\ \E t \in Sessions \ {s} : TakesAdmin(h[t])))
  /\ UNCHANGED user

StartCreate(s, by, u, row) ==
  /\ Authorized(by) /\ ~Exists(u)
  /\ Begin(s, [pc |-> "create", of |-> u, to |-> row])
  /\ UNCHANGED stepped

(* update: nobody switches off their own account.                          *)
(* Mutant: the own account is not looked at. *)
KeepsSignInUnchecked(by, u, fields) == TRUE
KeepsSignIn(by, u, fields) == ~(by = u /\ "active" \in DOMAIN fields /\ ~fields.active)
StartUpdate(s, by, u, fields) ==
  /\ Authorized(by) /\ Exists(u)
  /\ KeepsSignIn(by, u, fields)
  /\ Begin(s, [pc |-> "update", of |-> u, to |-> fields])
  /\ stepped' = (stepped \/ (by = u /\ "role" \in DOMAIN fields /\ fields.role # "ADMIN"))

(* remove: not one's own account, and no admin, switched off or not, while *)
(* there is one active admin only.  A purge deletes the row.               *)
StartRemove(s, by, u, purge) ==
  /\ Authorized(by) /\ Exists(u) /\ by # u
  /\ user[u].role = "ADMIN" => Cardinality(activeAdmins) > 1
  /\ Begin(s, IF purge THEN [pc |-> "delete", of |-> u]
              ELSE [pc |-> "update", of |-> u, to |-> [active |-> FALSE]])
  /\ UNCHANGED stepped

(* The statement that writes: it fails on a row that has gone meanwhile,   *)
(* and on an email that is taken.                                          *)
Write(s) ==
  /\ h[s] # Idle
  /\ LET u == h[s].of
         after == CASE h[s].pc = "create" /\ ~Exists(u) -> h[s].to
                    [] h[s].pc = "update" /\ Exists(u) -> Updated(user[u], h[s].to)
                    [] h[s].pc = "delete" -> Nobody
                    [] OTHER -> user[u]
     IN user' = [user EXCEPT ![u] = after]
  /\ Run(s, Idle)
  /\ UNCHANGED <<crossed, stepped>>
Crash(s) ==
  /\ h[s] # Idle /\ Run(s, Idle)
  /\ UNCHANGED <<user, crossed, stepped>>

Fields == Row \cup [role : Roles] \cup [active : BOOLEAN]
Next ==
  \E s \in Sessions :
    \/ \E u, by \in Accounts :
         \/ \E row \in Row : StartCreate(s, by, u, row)
         \/ \E fields \in Fields : StartUpdate(s, by, u, fields)
         \/ \E purge \in BOOLEAN : StartRemove(s, by, u, purge)
    \/ Write(s)
    \/ Crash(s)

TypeOK ==
  /\ user \in [Accounts -> Row \cup {Nobody}]
  /\ crossed \in BOOLEAN /\ stepped \in BOOLEAN

(* "Cannot remove the last active administrator" (remove): somebody can    *)
(* always sign in and manage the accounts, unless two requests each took   *)
(* an admin away at once, or an admin gave up the role - update guards     *)
(* against neither.                                                        *)
AnAdminRemains == crossed \/ stepped \/ activeAdmins # {}
===============================================================================
