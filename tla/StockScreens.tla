----------------------------- MODULE StockScreens -----------------------------
(***************************************************************************)
(* What the pages of StockRequests.jsx and Transfers.jsx, and the dialog   *)
(* that adds stock to a rep, show and offer over the state of Dispatch,    *)
(* with the figures stockRequest.service.js and transfers.service.js send  *)
(* them.  Nothing here changes the state.                                  *)
(***************************************************************************)
EXTENDS Dispatch

Made == {r \in Requests : request[r].status # "NONE"}
With(status) == {r \in Made : request[r].status = status}
BoxesOf(rows) == SumFunction([r \in rows |-> request[r].boxes])

-----------------------------------------------------------------------------
(* OrderDetailModal and the strip of pending approvals: what the staff, and*)
(* what the rep, may press on a request.                                   *)
StaffOffered(r) == IF r \in With("PENDING") THEN {"approve", "reject"} ELSE {}
RepOffered(r) == IF r \in With("PENDING") THEN {"edit", "cancel"} ELSE {}
(* Quick approval issues everything that was asked.                        *)
QuickApproval(r) == "approve" \in StaffOffered(r) /\ Approvable(r, request[r].boxes)

(* availableProductIds: a rep sees whether there is stock, never how much. *)
CartOffers == boxes["shelf"] > 0
(* CartOrderSheet: any quantity of a product that is offered. *)
CartForm == IF CartOffers THEN Quantities ELSE {}

(* RepRequestsView and StaffRequestTable: the two halves of the history.   *)
ActiveRequests == With("PENDING")
CompletedRequests == {r \in Made : request[r].status # "PENDING"}
StaffHistory(filter) ==
  {r \in Made : /\ filter = "ALL" \/ request[r].status = filter
                /\ filter = "PENDING" \/ request[r].status # "PENDING"}

(* list: every request falls into one bucket; only the fulfilled ones      *)
(* count boxes.                                                            *)
RequestSummary ==
  LET issued == With("FULFILLED")
  IN [boxes |-> BoxesOf(issued), issued |-> Cardinality(issued),
      pending |-> Cardinality(With("PENDING")),
      refused |-> Cardinality(With("REJECTED") \cup With("CANCELLED")),
      totalRequests |-> Cardinality(Made)]

-----------------------------------------------------------------------------
(* Transfers: the reversal of a movement is offered until it was reversed. *)
Movements == {i \in Ids : transfer[i].status # "NONE"}
ReverseOffered(i) == i \in Movements /\ transfer[i].status # "CANCELLED"

(* listTransfers: the boxes of what stands, and where they went.           *)
(* Mutant: what was reversed still counts. *)
StandingWithReversed == Movements
Standing == {i \in Movements : transfer[i].status # "CANCELLED"}
BoxesMoved(these) == SumFunction([i \in these |-> transfer[i].boxes])
TransferSummary ==
  [boxes |-> BoxesMoved(Standing), movements |-> Cardinality(Standing),
   cancelled |-> Cardinality(Movements \ Standing),
   destinations |-> [p \in Places |-> BoxesMoved({i \in Standing : transfer[i].to = p})]]

(* TransferModal: the three directions, two different warehouses.          *)
Stores == {"shelf", "annex"}
TransferForm ==
  {ends \in Places \X Places :
     \/ ends[1] \in Stores /\ ends[2] = "rep"
     \/ ends[1] = "rep" /\ ends[2] \in Stores
     \/ ends[1] \in Stores /\ ends[2] \in Stores /\ ends[1] # ends[2]}

(* AddStockModal: "Only N boxes in The Lab", where N is counted over every *)
(* warehouse (balances with scope WAREHOUSE) while the boxes are issued    *)
(* from the first one.                                                     *)
InTheLab == boxes["shelf"] + boxes["annex"]
AddStockForm == {n \in Quantities : n <= InTheLab}

-----------------------------------------------------------------------------
(* The pages and the services agree, on data just read. What is offered on *)
(* a request or a movement is what the service accepts; a cart that offers *)
(* the product has a quantity the service takes; the dialog for adding     *)
(* stock is refused only where a second warehouse holds boxes. No request  *)
(* is missing from the totals or counted twice; the boxes "issued" are     *)
(* those that left the shelf for a request, and a refused one never left   *)
(* the warehouse - for requests nobody worked on at once, once no approval *)
(* is half done. The destinations account for every box moved.             *)
PagesAgree ==
  /\ \A r \in Requests :
       /\ StaffOffered(r) # {} <=> RepOffered(r) # {}
       /\ QuickApproval(r) <=> r \in ActiveRequests /\ request[r].boxes <= boxes["shelf"]
  /\ {n \in CartForm : n <= boxes["shelf"]} = {n \in Quantities : n <= boxes["shelf"]}
  /\ CartForm = {} <=> \A n \in Quantities : n > boxes["shelf"]
  /\ boxes["annex"] = 0 => \A n \in AddStockForm : n <= boxes["shelf"]
  /\ TransferForm = Endpoints
  /\ \A i \in Ids : ReverseOffered(i) <=> Reversible(i)
  /\ ActiveRequests \cap CompletedRequests = {}
  /\ StaffHistory("ALL") = CompletedRequests /\ StaffHistory("PENDING") = ActiveRequests
  /\ LET q == RequestSummary
         t == TransferSummary
         quiet == \A s \in Sessions : h[s].pc # "persist"
     IN /\ q.issued + q.pending + q.refused = q.totalRequests
        /\ Cardinality(ActiveRequests) = q.pending
        /\ crossed \cup cut = {} /\ quiet =>
             /\ q.boxes = BoxesMoved({i \in Movements : transfer[i].for # Direct})
             /\ \A i \in Movements :
                  transfer[i].for # Direct => transfer[i].for \in With("FULFILLED")
        /\ t.boxes = t.destinations["shelf"] + t.destinations["annex"] + t.destinations["rep"]
        /\ undoneTwice \/
             sold + boxes["rep"] = t.destinations["rep"]
                                   - BoxesMoved({i \in Standing : transfer[i].from = "rep"})
===============================================================================
