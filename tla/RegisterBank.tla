---------------------------- MODULE RegisterBank ----------------------------
(***************************************************************************)
(* What TModBus promises to the fiber that calls it: a remote bank of      *)
(* registers.  A call is carried out at most once and between its begin    *)
(* and its end; a call that returns was carried out, and a read returns    *)
(* what it then found.  A call that throws may have been carried out.      *)
(***************************************************************************)
EXTENDS Integers, Sequences

CONSTANTS Fibers, Requests

VARIABLES bank,     \* [device -> [register -> value]]
          call,     \* the call of each fiber, or NoCall
          done,     \* what carrying out the call gave, or NotDone
          returned  \* what the last call of each fiber gave, or Exception

vars == <<bank, call, done, returned>>

NoCall    == [function |-> "none"]
NotDone   == <<-1>>   \* no value of a register
Exception == <<-2>>

IsWrite(r) == r.values # <<>>
Span(r)    == r.address .. r.address + r.count - 1

\* The bank b after the write r.
Written(b, r) ==
    [b EXCEPT ![r.device] =
        [a \in DOMAIN @ |-> IF a \in Span(r) THEN r.values[a - r.address + 1] ELSE @[a]]]

\* What the read r finds in the bank b.
Found(b, r) == [i \in 1..r.count |-> b[r.device][r.address + i - 1]]

Init == /\ call = [f \in Fibers |-> NoCall]
        /\ done = [f \in Fibers |-> NotDone]
        /\ returned = [f \in Fibers |-> <<>>]

Call(f, r) == /\ call[f] = NoCall
              /\ call' = [call EXCEPT ![f] = r]
              /\ returned' = [returned EXCEPT ![f] = <<>>]
              /\ UNCHANGED <<bank, done>>

CarryOut(f) ==
    /\ call[f] # NoCall
    /\ done[f] = NotDone
    /\ IF IsWrite(call[f])
       THEN bank' = Written(bank, call[f]) /\ done' = [done EXCEPT ![f] = <<>>]
       ELSE bank' = bank /\ done' = [done EXCEPT ![f] = Found(bank, call[f])]
    /\ UNCHANGED <<call, returned>>

Return(f) == /\ call[f] # NoCall
             /\ done[f] # NotDone
             /\ returned' = [returned EXCEPT ![f] = done[f]]
             /\ call' = [call EXCEPT ![f] = NoCall]
             /\ done' = [done EXCEPT ![f] = NotDone]
             /\ bank' = bank

Throw(f) == /\ call[f] # NoCall
            /\ returned' = [returned EXCEPT ![f] = Exception]
            /\ call' = [call EXCEPT ![f] = NoCall]
            /\ done' = [done EXCEPT ![f] = NotDone]
            /\ bank' = bank

Next == \E f \in Fibers : \/ \E r \in Requests : Call(f, r)
                          \/ CarryOut(f) \/ Return(f) \/ Throw(f)

Spec == Init /\ [][Next]_vars
=============================================================================
