------------------------- MODULE CooperativeThread --------------------------
(***************************************************************************)
(* What a thread of fibers promises, without run list, polling or the      *)
(* order in which fibers are chosen (comment on class TFiber):             *)
(*   - at most one fiber runs; the processor changes hands only when the   *)
(*     running fiber gives it up, and never to a fiber that waits, is      *)
(*     stopped, was not started or is over;                                *)
(*   - a fiber begins to wait only by itself, and stops waiting because    *)
(*     something it waits for happened or its shutdown was requested;      *)
(*   - while nobody runs, the scheduler only wakes waiting fibers, and a   *)
(*     signal only asks the main fiber to shut down.                       *)
(***************************************************************************)
CONSTANTS Fibers, Main, Nobody

VARIABLES
  running,   \* the fiber that executes user code, or Nobody
  phase,     \* "idle", "runnable", "waiting", "parked" or "over"
  requested, \* the fibers asked to shut down
  waits,     \* what a waiting fiber waits for
  happened   \* what has happened, in the terms of waits

vars == <<running, phase, requested, waits, happened>>

Init ==
  /\ running = Main
  /\ phase = [f \in Fibers |-> IF f = Main THEN "runnable" ELSE "idle"]
  /\ requested = {}
  /\ waits = [f \in Fibers |-> {}]
  /\ happened \subseteq Fibers

Becomes(f, from, to) == phase[f] \in from /\ phase'[f] = to

(* f has a reason to stop waiting.                                         *)
Woken(f) == waits[f] \cap (happened \cup happened') # {} \/ f \in requested'

(* What the running fiber may do to another one: start, stop, resume, kill *)
(* or join it, or request its shutdown.                                    *)
Manages(f) ==
  \/ phase'[f] = phase[f]
  \/ Becomes(f, {"idle", "parked"}, "runnable")
  \/ Becomes(f, {"runnable"}, "parked")
  \/ Becomes(f, {"runnable", "waiting", "parked"}, "over")
  \/ Becomes(f, {"over"}, "idle")
  \/ Becomes(f, {"waiting"}, "runnable") /\ Woken(f)

Holds(n) == n # Nobody => phase'[n] = "runnable"

(* The running fiber computes and manages others, and may hand over to one *)
(* of them or leave the choice to the scheduler.                           *)
Act ==
  /\ running # Nobody
  /\ \A f \in Fibers \ {running} : Manages(f)
  /\ phase'[running] \in {"runnable", "waiting", "parked", "over"}
  /\ running' \in {running, Nobody} \cup {f \in Fibers : phase[f] \in {"runnable", "parked"}}
  /\ Holds(running')

(* Nobody runs: fibers are woken, and one that is runnable may be chosen.  *)
Choose ==
  /\ running = Nobody
  /\ \A f \in Fibers :
       \/ phase'[f] = phase[f]
       \/ Becomes(f, {"waiting"}, "runnable") /\ Woken(f)
       \/ f = Main /\ Becomes(f, {"parked"}, "runnable") /\ f \in requested'
  /\ requested' \ requested \subseteq {Main}
  /\ Holds(running')

(* The world changes under a sleeping or running thread.                   *)
Happens == UNCHANGED <<running, phase, requested, waits>>

Next == Act \/ Choose \/ Happens

Spec == Init /\ [][Next]_vars

=============================================================================
