------------------------------ MODULE Notified ------------------------------
(***************************************************************************)
(* What the events promise, without outbox, broker or consumer: a fact     *)
(* happens once, and Notification learns of it at most once and never      *)
(* before.  Facts whose delivery is guaranteed are eventually learnt.      *)
(***************************************************************************)
CONSTANTS Facts, Guaranteed

VARIABLE known   \* what is known of each fact

NotifiedInit == known = [f \in Facts |-> "nothing"]

Happens(f) == /\ known[f] = "nothing"
              /\ known' = [known EXCEPT ![f] = "happened"]

Learn(f) == /\ known[f] = "happened"
            /\ known' = [known EXCEPT ![f] = "learnt"]

NotifiedNext == \E f \in Facts : Happens(f) \/ Learn(f)

NotifiedSpec == /\ NotifiedInit /\ [][NotifiedNext]_known
                /\ \A f \in Guaranteed : WF_known(Learn(f))
=============================================================================
