----------------------------- MODULE PayoutScreens -----------------------------
(***************************************************************************)
(* What the rep and the owner read of a commission balance, and what the   *)
(* pages let them send: RepView and AdminView of Commissions.jsx, the      *)
(* commission panel of SalesRepProfile.jsx, the review of Dashboard.jsx    *)
(* and the figures of commission.service.js behind them, over the state of *)
(* Payouts.  Nothing here changes the state.                               *)
(***************************************************************************)
EXTENDS Payouts

SumOf(statuses) ==
  SumFunction([w \in {v \in Requests : req[v].status \in statuses} |-> req[w].amount])

-----------------------------------------------------------------------------
(* computeForRep: one rule of eligibility for every page, and the floor    *)
(* that is in force while a window waives the minimum.  A rep off          *)
(* commission sees zeros.                                                  *)
EligibleWhen(open) ==
  /\ onCommission
  /\ Available >= Minimum \/ (open /\ Available >= Floor)
Eligible == EligibleWhen(EmergencyOpen)
EmergencyFloor == IF EmergencyOpen /\ Available < Minimum THEN Floor ELSE 0

(* The row of a rep, all time (BalancesTable).                             *)
BalanceRow ==
  LET shown(n) == IF onCommission THEN n ELSE 0
  IN [earned    |-> shown(gross + adjustment),
      penalties |-> shown(FineTotal),
      paid      |-> shown(SumOf({"APPROVED", "PAID"})),
      requested |-> shown(SumOf({"PENDING"})),
      available |-> Available]

(* ToMinimum, and the bar of ProgressRows: nothing is short at the minimum.*)
ShortOfMinimum == IF Available >= Minimum THEN 0 ELSE Minimum - Available

-----------------------------------------------------------------------------
(* RepView and WithdrawModal: the amounts the button sends.                *)
(* Mutant: the floor of an open window is forgotten. *)
WithdrawFormUnfloored == {a \in 1..MaxAmount : Eligible /\ a <= Available}
WithdrawForm ==
  {a \in 1..MaxAmount : Eligible /\ a <= Available /\ a >= EmergencyFloor}

(* WithdrawalDetail, the strip of pending requests, the table of AdminView *)
(* and the review on the dashboard: one press pays, approving is left out. *)
DecisionsOffered(w) ==
  CASE req[w].status = "PENDING" -> {"PAID", "REJECTED"}
    [] req[w].status = "APPROVED" -> {"PAID"}
    [] OTHER -> {}

(* RepView: the button, the warning over it, and the request on its way.   *)
RepPage ==
  [withdraw |-> Eligible, negative |-> Available < 0, windowOpen |-> EmergencyOpen,
   waiting  |-> Cardinality({w \in Requests : req[w].status = "PENDING"})]

(* AdminView: the cards on top, and the number beside Payouts.             *)
AdminCards ==
  [available |-> Available, requested |-> SumOf({"PENDING"}),
   waiting   |-> Cardinality({w \in Requests : DecisionsOffered(w) = {"PAID", "REJECTED"}})]

(* requestWithdrawal, on what the page has just read.                      *)
Takes(a) == WithinBalance(a) /\ (Ordinary \/ (EmergencyOpen /\ a >= Floor))

(* "Left after this": what the balance says already, never below zero.     *)
LeftAfter == IF Available > 0 THEN Available ELSE 0
AvailableOnce(w, to) ==
  Available + Counted(req[w].status, req[w].amount) - Counted(to, req[w].amount)

(* SalesRepProfile: a window is offered when it would do something.        *)
AllowOffered ==
  /\ onCommission /\ ~EmergencyOpen
  /\ Available < Minimum
  /\ Available >= (IF EmergencyFloor # 0 THEN EmergencyFloor ELSE Floor)
CloseOffered == onCommission /\ EmergencyOpen

(* FinesHistory: the fines still reducing a balance may be forgiven.       *)
Active == {f \in Fines : fine[f] \notin {"NONE", "WAIVED"}}
ForgiveOffered(f) == f \in Active

-----------------------------------------------------------------------------
(* The pages and the service agree, on data just read: the button sends    *)
(* what requestWithdrawal takes and nothing it refuses; an undecided       *)
(* request can be decided and an approved one paid; paying a request       *)
(* leaves the rep what the dialog says; a window is offered exactly where  *)
(* it lets a rep withdraw who could not; a fine on the page can be         *)
(* forgiven; and the columns of the balance come to the balance.           *)
PagesAgree ==
  /\ WithdrawForm = {a \in 1..MaxAmount : Takes(a)}
  /\ RepPage.withdraw <=> WithdrawForm # {}
  /\ RepPage.negative => ~RepPage.withdraw
  /\ RepPage.waiting = AdminCards.waiting
  /\ \A w \in Requests :
       /\ \A to \in DecisionsOffered(w) : Decidable(w, to)
       /\ req[w].status \in {"PENDING", "APPROVED"} => "PAID" \in DecisionsOffered(w)
       /\ "PAID" \in DecisionsOffered(w) /\ onCommission =>
            LeftAfter = (IF AvailableOnce(w, "PAID") > 0 THEN AvailableOnce(w, "PAID") ELSE 0)
  /\ AllowOffered <=> (~EmergencyOpen /\ EligibleWhen(TRUE) /\ ~Eligible)
  /\ CloseOffered => windowAt # Closed
  /\ ShortOfMinimum = 0 /\ onCommission => Eligible
  /\ \A f \in Active : fine[f] = "APPLIED"
  /\ LET r == BalanceRow
     IN /\ r.earned - r.penalties - r.paid - r.requested = r.available
        /\ AdminCards.available = r.available
        /\ onCommission => AdminCards.requested = r.requested
===============================================================================
