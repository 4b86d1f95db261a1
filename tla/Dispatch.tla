------------------------------- MODULE Dispatch -------------------------------
(***************************************************************************)
(* Stock requests of a rep and the transfers that fulfil them              *)
(* (src/server/src/services/stockRequest.service.js, transfers.service.js).*)
(*                                                                         *)
(* An approval is not a transaction: it reads the request, lets            *)
(* createTransfer move the boxes in a transaction of its own, rewrites the *)
(* lines of the request one by one and only then marks it FULFILLED.  Edit,*)
(* reject, cancel and the reversal of a transfer also decide on a row they *)
(* read earlier and do not lock.  One product; the check of the stock at a *)
(* transfer is exact here (InventoryLedger has the race inside it).        *)
(***************************************************************************)
EXTENDS Integers, FiniteSets, Functions

CONSTANTS Sessions,     \* requests that may be in flight together
          Requests,     \* stock requests that may be made
          OnShelf,      \* boxes in the warehouse at the start
          MaxTransfers, \* bound: transfers created
          MaxEdits      \* bound: times the lines of a request are replaced

Places == {"shelf", "annex", "rep"}
Ids == 1..MaxTransfers
Quantities == 1..OnShelf

VARIABLES
  request,   \* request[r]: status, boxes asked, edition of its lines, transfer
  transfer,  \* transfer[i]: status, from, to, boxes, and the request it is for
  boxes,     \* boxes[p] held at a place
  sold,      \* boxes the rep settled
  h,         \* h[s]: what session s read, and where it stands
  crossed,   \* history: requests two sessions worked on at once
  cut,       \* history: requests whose approval died after the boxes had left
  undoneTwice \* history: two reversals of one transfer overlapped

vars == <<request, transfer, boxes, sold, h, crossed, cut, undoneTwice>>

Idle == [pc |-> "idle"]
Direct == "direct"
NoTransfer == [status |-> "NONE", from |-> "shelf", to |-> "rep", boxes |-> 0, for |-> Direct]

Init ==
  /\ request = [r \in Requests |-> [status |-> "NONE", boxes |-> 0, edition |-> 0, transfer |-> 0]]
  /\ transfer = [i \in Ids |-> NoTransfer]
  /\ boxes = [p \in Places |-> IF p = "shelf" THEN OnShelf ELSE 0]
  /\ sold = 0 /\ h = [s \in Sessions |-> Idle]
  /\ crossed = {} /\ cut = {} /\ undoneTwice = FALSE

-----------------------------------------------------------------------------
Run(s, state) == h' = [h EXCEPT ![s] = state]

Begin(s, r, state) ==
  /\ h[s] = Idle
  /\ Run(s, state)
  /\ crossed' = IF \E t \in Sessions : h[t] # Idle /\ h[t].of = r
                THEN crossed \cup {r} ELSE crossed
  /\ UNCHANGED <<request, transfer, boxes, sold, cut, undoneTwice>>

(* transferStock: refused when the place does not hold the boxes. *)
(* Mutant: boxes are moved whether they are there or not. *)
MoveUnchecked(from, to, n) ==
  boxes' = [boxes EXCEPT ![from] = @ - n, ![to] = @ + n]
Move(from, to, n) ==
  /\ boxes[from] >= n
  /\ boxes' = [boxes EXCEPT ![from] = @ - n, ![to] = @ + n]

(* resolveEndpoints: the three directions of a transfer. *)
Endpoints == {<<"shelf", "rep">>, <<"annex", "rep">>, <<"rep", "shelf">>, <<"rep", "annex">>,
              <<"shelf", "annex">>, <<"annex", "shelf">>}

(* createTransfer: boxes and record in one transaction. *)
createTransfer(i, from, to, n, for) ==
  /\ transfer[i].status = "NONE" /\ \A j \in 1..(i - 1) : transfer[j].status # "NONE"
  /\ Move(from, to, n)
  /\ transfer' = [transfer EXCEPT ![i] =
       [status |-> "COMPLETED", from |-> from, to |-> to, boxes |-> n, for |-> for]]

TransferDirectly(i, from, to, n) ==
  /\ <<from, to>> \in Endpoints
  /\ createTransfer(i, from, to, n, Direct)
  /\ UNCHANGED <<request, sold, h, crossed, cut, undoneTwice>>

-----------------------------------------------------------------------------
(* create: never more than the warehouse holds now. *)
PlaceRequest(r, n) ==
  /\ request[r].status = "NONE"
  /\ n <= boxes["shelf"]
  /\ request' = [request EXCEPT ![r].status = "PENDING", ![r].boxes = n]
  /\ UNCHANGED <<transfer, boxes, sold, h, crossed, cut, undoneTwice>>

(* update: the status is read before the transaction that swaps the lines. *)
StartEdit(s, r, n) ==
  /\ request[r].status = "PENDING" /\ request[r].edition < MaxEdits
  /\ Begin(s, r, [pc |-> "edit", of |-> r, boxes |-> n])
Edit(s) ==
  LET r == h[s].of
  IN /\ h[s].pc = "edit"
     /\ IF h[s].boxes <= boxes["shelf"] /\ request[r].edition < MaxEdits
        THEN request' = [request EXCEPT ![r].boxes = h[s].boxes, ![r].edition = @ + 1]
        ELSE request' = request
     /\ Run(s, Idle)
     /\ UNCHANGED <<transfer, boxes, sold, crossed, cut, undoneTwice>>

(* approve, first half: the request is pending and the shelf holds what    *)
(* the approver decided to issue, which may differ from what was asked.    *)
(* Mutant: a decided request can be approved again. *)
ApprovableAgain(r, n) == request[r].status # "NONE" /\ n <= boxes["shelf"]
Approvable(r, n) == request[r].status = "PENDING" /\ n <= boxes["shelf"]

StartApprove(s, r, n) ==
  /\ Approvable(r, n)
  /\ Begin(s, r, [pc |-> "dispatch", of |-> r, boxes |-> n, edition |-> request[r].edition])

(* The transfer commits on its own; if it is refused nothing has happened. *)
DispatchBoxes(s, i) ==
  /\ h[s].pc = "dispatch"
  /\ createTransfer(i, "shelf", "rep", h[s].boxes, h[s].of)
  /\ Run(s, [pc |-> "persist", of |-> h[s].of, boxes |-> h[s].boxes,
             edition |-> h[s].edition, transfer |-> i])
  /\ UNCHANGED <<request, sold, crossed, cut, undoneTwice>>
DispatchRefused(s) ==
  /\ h[s].pc = "dispatch"
  /\ boxes["shelf"] < h[s].boxes
  /\ Run(s, Idle)
  /\ UNCHANGED <<request, transfer, boxes, sold, crossed, cut, undoneTwice>>

(* approve, second half: the lines it read are rewritten by id - an edit   *)
(* has replaced them, and the approval fails with the boxes gone - and the *)
(* request becomes FULFILLED whatever it is by now.                        *)
Persist(s) ==
  LET r == h[s].of
  IN /\ h[s].pc = "persist"
     /\ IF request[r].edition = h[s].edition
        THEN /\ request' = [request EXCEPT ![r].status = "FULFILLED", ![r].boxes = h[s].boxes,
                                           ![r].transfer = h[s].transfer]
             /\ cut' = cut
        ELSE request' = request /\ cut' = cut \cup {r}
     /\ Run(s, Idle)
     /\ UNCHANGED <<transfer, boxes, sold, crossed, undoneTwice>>

(* reject and cancel: read PENDING, then write by id. *)
StartDecline(s, r, status) ==
  /\ request[r].status = "PENDING"
  /\ Begin(s, r, [pc |-> "decline", of |-> r, to |-> status])
Decline(s) ==
  /\ h[s].pc = "decline"
  /\ request' = [request EXCEPT ![h[s].of].status = h[s].to]
  /\ Run(s, Idle)
  /\ UNCHANGED <<transfer, boxes, sold, crossed, cut, undoneTwice>>

-----------------------------------------------------------------------------
(* cancelTransfer: the boxes go back where they came from, if they are     *)
(* still there; neither the request nor the order it opened is told.       *)
Reversible(i) == transfer[i].status = "COMPLETED"

StartReverse(s, i) ==
  /\ h[s] = Idle
  /\ Reversible(i)
  /\ Run(s, [pc |-> "reverse", of |-> i])
  /\ undoneTwice' = (undoneTwice \/ \E t \in Sessions : h[t].pc = "reverse" /\ h[t].of = i)
  /\ UNCHANGED <<request, transfer, boxes, sold, crossed, cut>>
cancelTransfer(s) ==
  LET t == transfer[h[s].of]
  IN /\ h[s].pc = "reverse"
     /\ IF boxes[t.to] >= t.boxes
        THEN /\ Move(t.to, t.from, t.boxes)
             /\ transfer' = [transfer EXCEPT ![h[s].of].status = "CANCELLED"]
        ELSE UNCHANGED <<boxes, transfer>>
     /\ Run(s, Idle)
     /\ UNCHANGED <<request, sold, crossed, cut, undoneTwice>>

(* The rep settles boxes (OrderBook). *)
Settle(n) ==
  /\ boxes["rep"] >= n
  /\ boxes' = [boxes EXCEPT !["rep"] = @ - n]
  /\ sold' = sold + n
  /\ UNCHANGED <<request, transfer, h, crossed, cut, undoneTwice>>

Crash(s) ==
  /\ h[s] # Idle
  /\ Run(s, Idle)
  /\ cut' = IF h[s].pc = "persist" THEN cut \cup {h[s].of} ELSE cut
  /\ UNCHANGED <<request, transfer, boxes, sold, crossed, undoneTwice>>

Next ==
  \/ \E r \in Requests, n \in Quantities : PlaceRequest(r, n)
  \/ \E i \in Ids, ends \in Endpoints, n \in Quantities : TransferDirectly(i, ends[1], ends[2], n)
  \/ \E n \in Quantities : Settle(n)
  \/ \E s \in Sessions :
       \/ \E r \in Requests, n \in Quantities : StartEdit(s, r, n) \/ StartApprove(s, r, n)
       \/ \E r \in Requests, status \in {"REJECTED", "CANCELLED"} : StartDecline(s, r, status)
       \/ \E i \in Ids : StartReverse(s, i) \/ DispatchBoxes(s, i)
       \/ Edit(s) \/ DispatchRefused(s) \/ Persist(s) \/ Decline(s) \/ cancelTransfer(s) \/ Crash(s)

Spec == Init /\ [][Next]_vars

-----------------------------------------------------------------------------
SessionState ==
  {Idle}
  \cup [pc : {"edit"}, of : Requests, boxes : Nat]
  \cup [pc : {"dispatch"}, of : Requests, boxes : Nat, edition : Nat]
  \cup [pc : {"persist"}, of : Requests, boxes : Nat, edition : Nat, transfer : Ids]
  \cup [pc : {"decline"}, of : Requests, to : {"REJECTED", "CANCELLED"}]
  \cup [pc : {"reverse"}, of : Ids]

TypeOK ==
  /\ request \in [Requests ->
       [status : {"NONE", "PENDING", "FULFILLED", "REJECTED", "CANCELLED"},
        boxes : Nat, edition : Nat, transfer : Ids \cup {0}]]
  /\ transfer \in [Ids -> [status : {"NONE", "COMPLETED", "CANCELLED"}, from : Places,
                           to : Places, boxes : Nat, for : Requests \cup {Direct}]]
  /\ boxes \in [Places -> Nat] /\ sold \in Nat
  /\ h \in [Sessions -> SessionState]
  /\ crossed \subseteq Requests /\ cut \subseteq Requests /\ undoneTwice \in BOOLEAN

DispatchedFor(r) == {i \in Ids : transfer[i].for = r}

(* The boxes of a request leave the shelf at most once, and when they have *)
(* left the request says so: it is FULFILLED and names that transfer and   *)
(* its boxes, or its approval is still at work.  The exceptions are        *)
(* requests two sessions worked on at once, and approvals that died after  *)
(* the boxes had left.                                                     *)
IssuedOnce ==
  \A r \in Requests \ (crossed \cup cut) :
    /\ Cardinality(DispatchedFor(r)) <= 1
    /\ \A i \in DispatchedFor(r) :
         \/ /\ request[r].status = "FULFILLED" /\ request[r].transfer = i
            /\ request[r].boxes = transfer[i].boxes
         \/ \E s \in Sessions : h[s].pc = "persist" /\ h[s].transfer = i
    /\ request[r].status = "FULFILLED" => DispatchedFor(r) # {}

Carried(from, to) ==
  LET standing == {i \in Ids : /\ transfer[i].status = "COMPLETED"
                               /\ transfer[i].from \in from /\ transfer[i].to \in to}
  IN SumFunction([i \in standing |-> transfer[i].boxes])

(* Every place holds what the transfers that stand have carried there, less*)
(* what the rep sold, unless two reversals of one transfer overlapped.     *)
BoxesFollowTransfers ==
  undoneTwice \/
  \A p \in Places :
    boxes[p] = (IF p = "shelf" THEN OnShelf ELSE 0) + Carried(Places, {p}) - Carried({p}, Places)
               - (IF p = "rep" THEN sold ELSE 0)
===============================================================================
