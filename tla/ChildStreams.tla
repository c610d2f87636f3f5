---------------------------- MODULE ChildStreams ----------------------------
(***************************************************************************)
(* system_task: TProcess::Start(), how the descriptors a child is to have  *)
(* get to their numbers, in the child between fork() and execve().         *)
(*                                                                         *)
(* External: the kernel's table, where what is opened gets the lowest free *)
(* number.                                                                 *)
(***************************************************************************)
EXTENDS Integers, SequencesExt

CONSTANTS Numbers,  \* descriptors a child may be given
          Before,   \* those the parent has open
          MaxFd

VARIABLES streams, \* what the child is to have, by number
          table, child_handles, fd_it,
          todo,     \* numbers the loop has not come to
          phase

vars == <<streams, table, child_handles, fd_it, todo, phase>>

Fds == 0..MaxFd
Closed == <<"closed">>
Parents == <<"parent">>
Device == <<"device">>
Pipe(k) == <<"pipe", k>>
Piped(s, k) == s[k] \in {"to child", "from child"}
Sorted(S) == SetToSortSeq(S, <)
Free(t) == {fd \in Fds : t[fd] = Closed}
Lowest(S) == CHOOSE fd \in S : \A other \in S : fd <= other
\* dup2(), and the closing of a handle.
Dup2(t, from, to) == [t EXCEPT ![to] = t[from]]
Close(t, fd) == [t EXCEPT ![fd] = Closed]

\* The parent makes the pipes, in the order of the numbers, and keeps an end.
MakePipe(made, k, kind) ==
    LET rx == Lowest(Free(made.table))
        tx == Lowest(Free(made.table) \ {rx})
        child == IF kind = "to child" THEN rx ELSE tx
    IN [table |-> [fd \in Fds |-> IF fd = child THEN Pipe(k) ELSE IF fd \in {rx, tx} THEN Parents ELSE made.table[fd]],
        child_handles |-> [key \in DOMAIN made.child_handles \cup {k} |-> IF key = k THEN child ELSE made.child_handles[key]]]
Pipes(s, t) ==
    FoldLeft(LAMBDA made, k : IF Piped(s, k) THEN MakePipe(made, k, s[k]) ELSE made,
             [table |-> t, child_handles |-> <<>>], Sorted(DOMAIN s))

\* The first loop gives a handle whose number is wanted another one.
MakeWay ==
    /\ phase = "make way" /\ todo # <<>> /\ todo' = Tail(todo)
    /\ LET k == Head(todo) IN
       \/ ~Piped(streams, k) /\ UNCHANGED <<table, child_handles, fd_it>>
       \/ /\ Piped(streams, k) /\ child_handles[k] \notin DOMAIN streams
          /\ fd_it' = (IF child_handles[k] + 1 > fd_it THEN child_handles[k] + 1 ELSE fd_it)
          /\ UNCHANGED <<table, child_handles>>
       \/ /\ Piped(streams, k) /\ child_handles[k] \in DOMAIN streams
          /\ LET free == Lowest({fd \in Fds : fd >= fd_it /\ fd \notin DOMAIN streams \cup DOMAIN child_handles})
             IN fd_it' = free + 1
          /\ table' = Close(Dup2(table, child_handles[k], fd_it'), child_handles[k])
          /\ child_handles' = [child_handles EXCEPT ![k] = fd_it']
    /\ UNCHANGED <<streams, phase>>
\* The second puts each where it belongs; a dup2() of what is closed fails.
Place ==
    /\ phase = "place" /\ todo # <<>>
    /\ LET k == Head(todo) IN
       \/ streams[k] = "inherit" /\ UNCHANGED <<table, phase>>
       \/ /\ streams[k] = "device"
          /\ LET tmp == Lowest(Free(table)) IN table' = Close([table EXCEPT ![k] = Device], tmp)
          /\ phase' = phase
       \/ Piped(streams, k) /\ table[child_handles[k]] = Closed /\ phase' = "failed" /\ table' = table
       \/ /\ Piped(streams, k) /\ table[child_handles[k]] # Closed
          /\ table' = Close(Dup2(table, child_handles[k], k), child_handles[k]) /\ phase' = phase
    /\ todo' = Tail(todo) /\ UNCHANGED <<streams, child_handles, fd_it>>
\* What is not to be inherited is closed.
Turn == /\ todo = <<>>
        /\ \/ phase = "make way" /\ phase' = "place" /\ todo' = Sorted(DOMAIN streams) /\ table' = table
           \/ /\ phase = "place" /\ phase' = "done" /\ todo' = todo
              /\ table' = [fd \in Fds |-> IF fd \in DOMAIN streams THEN table[fd] ELSE Closed]
        /\ UNCHANGED <<streams, child_handles, fd_it>>

Init ==
    /\ streams \in UNION {[S -> {"inherit", "device", "to child", "from child"}] : S \in SUBSET Numbers}
    /\ \E made \in {Pipes(streams, [fd \in Fds |-> IF fd \in Before THEN Parents ELSE Closed])} :
          table = made.table /\ child_handles = made.child_handles
    /\ fd_it = 0 /\ todo = Sorted(DOMAIN streams) /\ phase = "make way"
Next == MakeWay \/ Place \/ Turn
Spec == Init /\ [][Next]_vars

-----------------------------------------------------------------------------
(* Properties *)

\* The child has each pipe at the number it was asked to be at, and nothing at
\* the numbers of others: the handle that is given another number gets a free
\* one (system_task.posix.cpp:463).
PipesArrive ==
    phase \in {"done", "failed"} =>
        /\ phase = "done"
        /\ \A k \in DOMAIN streams : /\ Piped(streams, k) => table[k] = Pipe(k)
                                     /\ streams[k] = "device" => table[k] = Device
=============================================================================
