------------------------- MODULE MarketplaceDashboard -------------------------
(***************************************************************************)
(* The exchanges of a member: one action at a time on what the last        *)
(* refresh has shown, then a refresh; the refresh of the effect and of the *)
(* button "Actualiser" run beside it.  And the form that makes a proposal. *)
(***************************************************************************)
EXTENDS ApiClient

CONSTANTS
  Deals,    \* the proposals a member has received
  MaxSends  \* bound: how many proposals the form is used for

ASSUME DashboardAssumption == MaxSends \in Nat

VARIABLES
  deal,     \* what has become of a proposal at the service
  shown,    \* what the page shows of it
  read,     \* what a thread has read
  busy,     \* the action under way or, after it, its refresh
  loading,  \* whether the button "Actualiser" waits
  outcome,  \* notice and error: what the page says of the last action
  refused,  \* history: whether the last action was told to have failed
  offers,   \* the form: proposals made, answered for, and announced as sent
  sending   \* the form is busy

dashboardVars == <<deal, shown, read, busy, loading, outcome, refused>>
formVars == <<offers, sending>>
exchangeVars == <<dashboardVars, formVars>>

Stages == {"PENDING", "ACCEPTED", "REJECTED", "CONFIRMED"}
Acts == {"accept", "reject", "confirm"}
NoAction == [id |-> None, act |-> "none", stage |-> "none"]
Result(act) == CASE act = "accept" -> "ACCEPTED" [] act = "reject" -> "REJECTED" [] OTHER -> "CONFIRMED"

DashboardTypeOK ==
  /\ deal \in [Deals -> Stages] /\ shown \in [Deals -> Stages \cup {"unknown"}]
  /\ read \in [{"act", "load"} -> [Deals -> Stages]]
  /\ busy.act \in Acts \cup {"none"} /\ busy.stage \in {"none", "action", "refresh"}
  /\ loading \in BOOLEAN
  /\ outcome \in [notice : BOOLEAN, error : {"none", "failed", "stale", "load"}]
  /\ refused \in BOOLEAN
  /\ offers \in [made : Nat, answered : Nat] /\ sending \in BOOLEAN

\* The page /espace starts with the refresh of its effect, /annonces with none.
DashboardInit ==
  /\ deal = [d \in Deals |-> "PENDING"] /\ shown = [d \in Deals |-> "unknown"]
  /\ read = [t \in {"act", "load"} |-> deal]
  /\ busy = NoAction
  /\ loading = TRUE
  /\ outcome = [notice |-> FALSE, error |-> "none"]
  /\ refused = FALSE
  /\ offers = [made |-> 0, answered |-> 0] /\ sending = FALSE

-----------------------------------------------------------------------------
(* The Marketplace service *)

\* Confirming twice is allowed; the other actions want a pending proposal.
Possible(d, act) ==
  IF act = "confirm" THEN deal[d] \in {"ACCEPTED", "CONFIRMED"} ELSE deal[d] = "PENDING"

ServeAction ==
  /\ Calling("act") /\ busy.stage = "action"
  /\ LET possible == Possible(busy.id, busy.act) IN
     /\ Serves("act", possible)
     /\ deal' = IF possible THEN [deal EXCEPT ![busy.id] = Result(busy.act)] ELSE deal
  /\ UNCHANGED <<shown, read, busy, loading, outcome, refused, formVars>>

\* Proposals and transactions, for a refresh.
ServeRefresh(t) ==
  /\ Calling(t) /\ (t = "act" => busy.stage = "refresh")
  /\ read' = [read EXCEPT ![t] = deal]
  /\ Serves(t, TRUE)
  /\ UNCHANGED <<deal, shown, busy, loading, outcome, refused, formVars>>

\* Accepted in another tab, or refused because a rival has been accepted.
OthersMove(d) ==
  /\ deal[d] = "PENDING"
  /\ \E to \in {"ACCEPTED", "REJECTED"} : deal' = [deal EXCEPT ![d] = to]
  /\ UNCHANGED <<call, shown, read, busy, loading, outcome, refused, formVars>>

ExchangeFails(t) ==
  /\ FailCall(t) \/ LoseAnswer(t)
  /\ UNCHANGED exchangeVars

-----------------------------------------------------------------------------
(* The dashboard *)

Offered(d) ==
  CASE shown[d] = "PENDING" -> {"accept", "reject"}
    [] shown[d] = "ACCEPTED" -> {"confirm"}
    [] OTHER -> {}

Execute(d, act) ==
  /\ busy = NoAction /\ call["act"] = "none" /\ act \in Offered(d)
  /\ busy' = [id |-> d, act |-> act, stage |-> "action"]
  /\ outcome' = [notice |-> FALSE, error |-> "none"]
  /\ refused' = FALSE
  /\ Calls("act")
  /\ UNCHANGED <<deal, shown, read, loading, formVars>>

\* Variant with a bug: no finally.
StaysBusy ==
  /\ Answered("act") /\ busy.stage = "action"
  /\ refused' = Failed("act")
  /\ IF Done("act")
     THEN /\ outcome' = [outcome EXCEPT !.notice = TRUE]
          /\ busy' = [busy EXCEPT !.stage = "refresh"]
          /\ Calls("act")
     ELSE /\ outcome' = [outcome EXCEPT !.error = "failed"]
          /\ UNCHANGED busy
          /\ Returns("act")
  /\ UNCHANGED <<deal, shown, read, loading, formVars>>

\* The action is told done, and the refresh begins; or it is told to have failed.
Executed ==
  /\ Answered("act") /\ busy.stage = "action"
  /\ refused' = Failed("act")
  /\ IF Done("act")
     THEN /\ outcome' = [outcome EXCEPT !.notice = TRUE]
          /\ busy' = [busy EXCEPT !.stage = "refresh"]
          /\ Calls("act")
     ELSE /\ outcome' = [outcome EXCEPT !.error = "failed"]
          /\ busy' = NoAction
          /\ Returns("act")
  /\ UNCHANGED <<deal, shown, read, loading, formVars>>

\* Variant with a bug: a refresh that fails ends in the outer catch.
RefreshFailsAll ==
  /\ Answered("act") /\ busy.stage = "refresh"
  /\ shown' = IF Done("act") THEN read["act"] ELSE shown
  /\ outcome' = IF Done("act") THEN outcome ELSE [outcome EXCEPT !.error = "failed"]
  /\ busy' = NoAction
  /\ Returns("act")
  /\ UNCHANGED <<deal, read, loading, refused, formVars>>

\* A refresh that fails does not make the action fail.
ExecuteRefreshed ==
  /\ Answered("act") /\ busy.stage = "refresh"
  /\ shown' = IF Done("act") THEN read["act"] ELSE shown
  /\ outcome' = IF Done("act") THEN outcome ELSE [outcome EXCEPT !.error = "stale"]
  /\ busy' = NoAction
  /\ Returns("act")
  /\ UNCHANGED <<deal, read, loading, refused, formVars>>

Refresh ==
  /\ ~loading /\ busy = NoAction /\ call["load"] = "none"
  /\ loading' = TRUE
  /\ Calls("load")
  /\ UNCHANGED <<deal, shown, read, busy, outcome, refused, formVars>>

\* Nothing orders it with the refresh of an action: the last to end is shown.
Refreshed ==
  /\ Answered("load")
  /\ shown' = IF Done("load") THEN read["load"] ELSE shown
  /\ outcome' = IF Done("load") THEN outcome ELSE [outcome EXCEPT !.error = "load"]
  /\ loading' = FALSE
  /\ Returns("load")
  /\ UNCHANGED <<deal, read, busy, refused, formVars>>

-----------------------------------------------------------------------------
(* The form of a proposal *)

\* Variant with a bug: the form may be sent again while it waits.
SubmitAnyTime(t) ==
  /\ call[t] = "none" /\ offers.answered < MaxSends
  /\ sending' = TRUE
  /\ Calls(t)
  /\ UNCHANGED <<dashboardVars, offers>>

Submit(t) ==
  /\ ~sending
  /\ call[t] = "none" /\ offers.answered < MaxSends
  /\ sending' = TRUE
  /\ Calls(t)
  /\ UNCHANGED <<dashboardVars, offers>>

\* The service takes every proposal for a new one, or refuses it.
ServeProposal(t) ==
  /\ Calling(t)
  /\ \E accepted \in BOOLEAN :
       /\ Serves(t, accepted)
       /\ offers' = IF accepted THEN [offers EXCEPT !.made = @ + 1] ELSE offers
  /\ UNCHANGED <<dashboardVars, sending>>

Submitted(t) ==
  /\ Answered(t)
  /\ offers' = [offers EXCEPT !.answered = @ + 1]
  /\ sending' = FALSE
  /\ Returns(t)
  /\ UNCHANGED dashboardVars

-----------------------------------------------------------------------------
DashboardAnswers(t) ==
  \/ t = "act" /\ (ServeAction \/ ServeRefresh(t) \/ Executed \/ ExecuteRefreshed)
  \/ t = "load" /\ (ServeRefresh(t) \/ Refreshed)
  \/ t \in {"act", "load"} /\ ExchangeFails(t)

DashboardNext ==
  \/ \E t \in {"act", "load"} : DashboardAnswers(t)
  \/ Refresh
  \/ \E d \in Deals : OthersMove(d) \/ \E act \in Acts : Execute(d, act)

FormAnswers(t) == t \in {"act", "again"} /\ (ServeProposal(t) \/ ExchangeFails(t) \/ Submitted(t))
FormNext == \E t \in {"act", "again"} : FormAnswers(t) \/ Submit(t)
=============================================================================
