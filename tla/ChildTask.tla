----------------------------- MODULE ChildTask ------------------------------
(***************************************************************************)
(* What an IChildTask promises: it runs, it ends with an outcome, and one  *)
(* Join takes that outcome away before it may be started again.            *)
(***************************************************************************)
CONSTANTS Users, Outcomes

VARIABLES
    phase,    \* "idle", "running" or "ended"
    outcome,  \* how the run that ended did so
    results   \* what the last Join of each user returned

vars == <<phase, outcome, results>>

Pending == "pending"  \* no outcome

Init == phase = "idle" /\ outcome = Pending /\ results = [u \in Users |-> Pending]

Start == phase = "idle" /\ phase' = "running" /\ UNCHANGED <<outcome, results>>

End(o) == phase = "running" /\ phase' = "ended" /\ outcome' = o /\ UNCHANGED results

Join(u) == /\ phase = "ended"
           /\ phase' = "idle"
           /\ outcome' = Pending
           /\ results' = [results EXCEPT ![u] = outcome]

Next == \/ Start
        \/ \E o \in Outcomes : End(o)
        \/ \E u \in Users : Join(u)

Spec == Init /\ [][Next]_vars
=============================================================================
