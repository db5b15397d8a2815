------------------------------- MODULE HttpCall -------------------------------
(***************************************************************************)
(* What a page may conclude from the answer to a call it makes through the *)
(* gateway: "done" means that the service has carried the call out,        *)
(* "refused" that it never will.  An error, or no answer, says nothing:    *)
(* the call may have been carried out, or may still be.                    *)
(***************************************************************************)
CONSTANT Calls

VARIABLES effect,   \* what the service does about a call
          answer    \* what the page has been told

Init == /\ effect = [c \in Calls |-> "none"]
        /\ answer = [c \in Calls |-> "unsent"]

Send(c) == /\ answer[c] = "unsent"
           /\ answer' = [answer EXCEPT ![c] = "pending"]
           /\ UNCHANGED effect

\* Whether or not the page still waits.
Serve(c) == /\ answer[c] # "unsent" /\ effect[c] = "none"
            /\ effect' \in {[effect EXCEPT ![c] = e] : e \in {"acted", "refused"}}
            /\ UNCHANGED answer

Tell(c, a) == /\ answer[c] = "pending"
              /\ a = "done" => effect[c] = "acted"
              /\ a = "refused" => effect[c] = "refused"
              /\ answer' = [answer EXCEPT ![c] = a]
              /\ UNCHANGED effect

Answered(c) == \E a \in {"done", "refused", "error", "cut"} : Tell(c, a)

Next == \E c \in Calls : Send(c) \/ Serve(c) \/ Answered(c)

vars == <<effect, answer>>

\* No call waits for ever.
Spec == Init /\ [][Next]_vars /\ \A c \in Calls : WF_vars(Answered(c))
=============================================================================
