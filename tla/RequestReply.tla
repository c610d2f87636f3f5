---------------------------- MODULE RequestReply ----------------------------
(***************************************************************************)
(* What an HTTP client is promised: a call is handled at most once, and    *)
(* its caller gets what the handler answered to this very call, or a       *)
(* refusal by a server that never handled it, or an exception.             *)
(***************************************************************************)
EXTENDS Integers

CONSTANTS Calls,      \* the calls, in the order they are made
          Replies     \* what a handler may answer: status, length of the body

Nothing == [status |-> "none", n |-> 0]
Failure == [status |-> "exception", n |-> 0]
Refused == [status |-> "refused", n |-> 0]

VARIABLES made,    \* calls that were made
          marked,  \* those whose response tells its end from a loss of the rest
          reply,   \* what the handler answered to each of them
          answer   \* what each caller got
vars == <<made, marked, reply, answer>>

Init == /\ made = {} /\ marked = {}
        /\ reply = [i \in Calls |-> Nothing]
        /\ answer = [i \in Calls |-> Nothing]

Make(i) == /\ i \notin made
           /\ made' = made \cup {i}
           /\ marked' \in {marked, marked \cup {i}}
           /\ UNCHANGED <<reply, answer>>

\* The server may answer a call whose caller has given up.
Serve(i) == /\ i \in made /\ reply[i] = Nothing
            /\ \E r \in Replies : reply' = [reply EXCEPT ![i] = r]
            /\ UNCHANGED <<made, marked, answer>>

\* A body that ends with the connection may be short of what was answered.
Return(i) == /\ i \in made /\ answer[i] = Nothing
             /\ \/ reply[i] # Nothing /\ \E r \in Replies :
                     /\ r.status = reply[i].status /\ r.n <= reply[i].n
                     /\ i \in marked => r = reply[i]
                     /\ answer' = [answer EXCEPT ![i] = r]
                \/ /\ reply[i] = Nothing
                   /\ answer' = [answer EXCEPT ![i] = Refused]
                \/ answer' = [answer EXCEPT ![i] = Failure]
             /\ UNCHANGED <<made, marked, reply>>

Next == \E i \in Calls : Make(i) \/ Serve(i) \/ Return(i)
Spec == Init /\ [][Next]_vars
=============================================================================
