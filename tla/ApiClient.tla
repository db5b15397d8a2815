------------------------------ MODULE ApiClient ------------------------------
(***************************************************************************)
(* lib/api.ts as the pages use it: every call is awaited by the thread of  *)
(* control that made it, and is done or fails: a page makes no difference  *)
(* between a refusal (ApiError) and another error.  What an answer         *)
(* promises is the specification HttpCall, which the gateway implements;   *)
(* here a call that fails is never carried out after the page was told.    *)
(***************************************************************************)
EXTENDS Naturals

CONSTANTS
  Faults,  \* "error": a call fails without effect; "lost": after it
  None     \* no listing, no decision

Threads == {"load", "act", "again"}

VARIABLE call    \* the call a thread awaits

CallTypeOK == call \in [Threads -> {"none", "sent", "done", "failed"}]
NoCalls == [t \in Threads |-> "none"]

Calling(t) == call[t] = "sent"
Done(t) == call[t] = "done"
Failed(t) == call[t] = "failed"
Answered(t) == Done(t) \/ Failed(t)

Calls(t) == call' = [call EXCEPT ![t] = "sent"]
Serves(t, done) == call' = [call EXCEPT ![t] = IF done THEN "done" ELSE "failed"]
Returns(t) == call' = [call EXCEPT ![t] = "none"]

\* No token (getToken), no connection, an error of the gateway or the service.
FailCall(t) ==
  /\ "error" \in Faults /\ Calling(t)
  /\ call' = [call EXCEPT ![t] = "failed"]

\* The service has acted, and its answer does not arrive.
LoseAnswer(t) ==
  /\ "lost" \in Faults /\ Done(t)
  /\ call' = [call EXCEPT ![t] = "failed"]
=============================================================================
