------------------------------- MODULE Thread -------------------------------
(***************************************************************************)
(* A TThread, its TSimpleMutex and its on_state_change (TSimpleSignal):    *)
(* other threads start it, shut it down, join it, and use the mutex and    *)
(* the signal that Mutex() and OnStateChange() hand out; the thread itself *)
(* runs PthreadMain.                                                       *)
(*                                                                         *)
(* A critical section is one step, because the state of the thread is only *)
(* changed under the mutex; getting the mutex and giving it back are steps *)
(* of their own, since TSimpleMutex keeps its owner beside the pthread     *)
(* mutex.  Kill and Stop send signals that act on the whole process and    *)
(* are left out, as are the queries ChildState and TaskState.              *)
(***************************************************************************)
EXTENDS Naturals

CONSTANTS Users,      \* the other threads
          Self,       \* the thread of the TThread
          Nobody,     \* not a thread
          MaxGuards,  \* bound: TMutexAutoLocks of a user that exist at once
          Uses        \* what users do beside calling from one thread at a
                      \* time: "SecondJoin" joins while another one does,
                      \* "JoinHolding" joins with the mutex of the thread

ASSUME ThreadAssumption ==
    Self \notin Users /\ Nobody \notin Users \cup {Self} /\ MaxGuards \in Nat

Threads == Users \cup {Self}

VARIABLES
    locked,      \* pthread mutex: who holds it
    owner,       \* TSimpleMutex::owner
    n_accquire,  \* TSimpleMutex::n_accquire
    state,       \* TThread::state
    exit_code,   \* what PthreadMain returns: whether it failed to set up
    exception,   \* main_fiber.exception: whether there is one
    term,        \* a SIGTERM waits for the thread
    method,        \* the method in which each user is
    place,          \* where in its method each thread is
    ending,      \* the state that PthreadMain is about to set
    guards,      \* TMutexAutoLocks of each user
    results,     \* what the last Join of each user returned
    torn,        \* history: somebody took the mutex from a thread in WaitFor
    fate         \* history: how the run that is over ended

mutex == <<locked, owner, n_accquire>>
child == <<state, exit_code, exception, term, ending, fate>>
threadVars  == <<mutex, child, method, place, guards, results, torn>>

Move(t, where) == place' = [place EXCEPT ![t] = where]

-----------------------------------------------------------------------------
(* TSimpleMutex *)

IsAcquired(t) == owner = t /\ n_accquire > 0

\* Acquire: one more of the caller, or the pthread mutex, then the owner.
Acquire(t) ==
    IF IsAcquired(t)
    THEN n_accquire' = n_accquire + 1 /\ UNCHANGED <<locked, owner>>
    ELSE locked = Nobody /\ locked' = t /\ owner' = t /\ n_accquire' = 1

Release_All(t) ==  \* mutant: unlocks whatever the count
    /\ n_accquire' = n_accquire - 1
    /\ owner' = Nobody /\ locked' = Nobody

\* Release: the pthread mutex goes with the last one.
Release(t) ==
    /\ n_accquire' = n_accquire - 1
    /\ IF n_accquire = 1 THEN owner' = Nobody /\ locked' = Nobody
       ELSE UNCHANGED <<owner, locked>>

EndGuard_Leaks(t) == UNCHANGED mutex  \* mutant: the mutex is kept

\* ~TMutexAutoLock.
EndGuard(t) == IF IsAcquired(t) THEN Release(t) ELSE UNCHANGED mutex

-----------------------------------------------------------------------------
(* Calls of the users *)

Methods   == {"Start", "Shutdown", "Join", "Acquire", "TryAcquire"}
Joiners == {u \in Users : method[u] = "Join"}

Enter(u, c) ==
    /\ method[u] = "none"
    /\ c \in {"Acquire", "TryAcquire"} => guards[u] < MaxGuards
    /\ c = "Join" => /\ Joiners = {} \/ "SecondJoin" \in Uses
                     /\ guards[u] = 0 \/ "JoinHolding" \in Uses
    /\ method' = [method EXCEPT ![u] = c]
    /\ Move(u, "acquire")
    /\ UNCHANGED <<mutex, child, guards, results, torn>>

\* The mutex has been got.  One that somebody left while he waits for the
\* signal gets a new owner.
TakeMutex(t, from, to) ==
    /\ place[t] = from
    /\ Acquire(t)
    /\ Move(t, to)
    /\ torn' = (torn \/ \E u \in Users : place[u] = "signal")
    /\ UNCHANGED <<child, method, guards, results>>

LeaveMethod(u) == method' = [method EXCEPT ![u] = "none"] /\ Move(u, "none")

\* Acquire(timeout) gives up.
GiveUpMutex(u) == /\ place[u] = "acquire" /\ method[u] = "TryAcquire"
             /\ locked # Nobody /\ ~IsAcquired(u)
             /\ LeaveMethod(u)
             /\ UNCHANGED <<mutex, child, guards, results, torn>>

\* A TMutexAutoLock begins, and ends.
Guard(u) == /\ place[u] = "inside" /\ method[u] \in {"Acquire", "TryAcquire"}
            /\ guards' = [guards EXCEPT ![u] = @ + 1]
            /\ LeaveMethod(u)
            /\ UNCHANGED <<mutex, child, results, torn>>

DropGuard(u) == /\ method[u] = "none" /\ guards[u] > 0
                /\ guards' = [guards EXCEPT ![u] = @ - 1]
                /\ EndGuard(u)
                /\ UNCHANGED <<child, method, place, results, torn>>

\* The critical section of call c.
Inside(u, c) == /\ place[u] = "inside" /\ method[u] = c
                /\ UNCHANGED <<guards, torn>>

\* TSimpleSignal::WaitFor: the pthread mutex is given back and taken again,
\* after a signal, a time-out or for no reason.
WaitFor(u) == /\ method[u] = "none" /\ guards[u] > 0 /\ locked = u
              /\ method' = [method EXCEPT ![u] = "WaitFor"] /\ Move(u, "signal")
              /\ locked' = Nobody
              /\ UNCHANGED <<owner, n_accquire, child, guards, results, torn>>

Signalled(u) == /\ place[u] = "signal" /\ locked = Nobody
            /\ locked' = u
            /\ LeaveMethod(u)
            /\ UNCHANGED <<owner, n_accquire, child, guards, results, torn>>

-----------------------------------------------------------------------------
(* TThread *)

\* The pthread: at[Self] is "none" before it is created and after it was
\* joined, "over" when it has ended.

\* A call ends.  ~TMutexAutoLock gives the mutex back.
ReturnFrom(u, self) == /\ EndGuard(u)
                   /\ method' = [method EXCEPT ![u] = "none"]
                   /\ place' = [place EXCEPT ![u] = "none", ![Self] = self]

\* pthread_create may fail.
Start(u) ==
    /\ Inside(u, "Start")
    /\ \/ state = "CONSTRUCTED" /\ ReturnFrom(u, "setup")
          /\ state' = "ALIVE" /\ exit_code' = FALSE /\ term' = FALSE
       \/ ReturnFrom(u, place[Self]) /\ UNCHANGED <<state, exit_code, term>>
    /\ UNCHANGED <<exception, ending, fate, results>>

Shutdown(u) ==
    /\ Inside(u, "Shutdown")
    /\ ReturnFrom(u, place[Self])
    /\ term' = (term \/ (state = "ALIVE" /\ place[Self] # "over"))
    /\ UNCHANGED <<state, exit_code, exception, ending, fate, results>>


JoinBegin_KeepsMutex(u) ==  \* mutant: no Release before pthread_join
    /\ Inside(u, "Join")
    /\ IF state \in {"CONSTRUCTED", "JOINING"} THEN ReturnFrom(u, place[Self]) /\ state' = state
       ELSE state' = "JOINING" /\ Move(u, "join") /\ UNCHANGED <<mutex, method>>
    /\ UNCHANGED <<exit_code, exception, term, ending, fate, results>>

\* Join up to pthread_join.
JoinBegin(u) ==
    /\ Inside(u, "Join")
    /\ IF state \in {"CONSTRUCTED", "JOINING"} THEN ReturnFrom(u, place[Self]) /\ state' = state
       ELSE state' = "JOINING" /\ Release(u) /\ Move(u, "join") /\ method' = method
    /\ UNCHANGED <<exit_code, exception, term, ending, fate, results>>

\* pthread_join.  A second one for the same run is not defined; here it waits.
PthreadJoin(u) ==
    /\ place[u] = "join" /\ place[Self] = "over"
    /\ place' = [place EXCEPT ![u] = "again", ![Self] = "none"]
    /\ UNCHANGED <<mutex, child, method, guards, results, torn>>

Joined_KeepsException(u) ==  \* mutant: a copy of the exception
    /\ place[u] = "joined"
    /\ state' = "CONSTRUCTED"
    /\ results' = [results EXCEPT ![u] =
                      IF exit_code THEN "unknown" ELSE IF exception THEN "exception" ELSE "null"]
    /\ ReturnFrom(u, place[Self])
    /\ UNCHANGED <<exit_code, exception, term, ending, fate, guards, torn>>

\* The rest of Join, under the mutex again.
Joined(u) ==
    /\ place[u] = "joined"
    /\ state' = "CONSTRUCTED"
    /\ results' = [results EXCEPT ![u] =
                      IF exit_code THEN "unknown" ELSE IF exception THEN "exception" ELSE "null"]
    /\ exception' = (exception /\ exit_code)
    /\ ReturnFrom(u, place[Self])
    /\ UNCHANGED <<exit_code, term, ending, fate, guards, torn>>

-----------------------------------------------------------------------------
(* PthreadMain *)

\* The signal stack and the signal handle, or an error that ends the thread
\* and leaves its state as it is.
SetUp ==
    /\ place[Self] = "setup"
    /\ \/ Move(Self, "main") /\ UNCHANGED <<exit_code, fate>>
       \/ Move(Self, "over") /\ exit_code' = TRUE /\ fate' = "unknown"
    /\ UNCHANGED <<mutex, state, exception, term, ending, method, guards, results, torn>>

\* main_func returns, throws, or is shut down.
MainEnds ==
    /\ place[Self] = "main"
    /\ Move(Self, "acquire")
    /\ \/ ending' = "FINISHED" /\ fate' = "null" /\ UNCHANGED <<exception, term>>
       \/ ending' = "KILLED" /\ fate' = "exception" /\ exception' = TRUE /\ term' = term
       \/ term /\ ending' = "FINISHED" /\ fate' = "null" /\ term' = FALSE
               /\ exception' = exception
    /\ UNCHANGED <<mutex, state, exit_code, method, guards, results, torn>>

\* The last thing the thread does: its new state, under the mutex.
EndThread ==
    /\ place[Self] = "inside"
    /\ state' = ending
    /\ EndGuard(Self)
    /\ Move(Self, "over")
    /\ UNCHANGED <<exit_code, exception, term, ending, fate, method, guards, results, torn>>

-----------------------------------------------------------------------------
ThreadInit ==
    /\ locked = Nobody /\ owner = Nobody /\ n_accquire = 0
    /\ state = "CONSTRUCTED"
    /\ exit_code = FALSE /\ exception = FALSE /\ term = FALSE
    /\ method = [u \in Users |-> "none"]
    /\ place = [t \in Threads |-> "none"]
    /\ ending = "FINISHED"
    /\ guards = [u \in Users |-> 0]
    /\ results = [u \in Users |-> "pending"]
    /\ torn = FALSE
    /\ fate = "null"

UserStep(u) ==
    \/ \E c \in Methods : Enter(u, c)
    \/ TakeMutex(u, "acquire", "inside") \/ TakeMutex(u, "again", "joined") \/ GiveUpMutex(u)
    \/ Guard(u) \/ DropGuard(u) \/ WaitFor(u) \/ Signalled(u)
    \/ Start(u) \/ Shutdown(u) \/ JoinBegin(u) \/ PthreadJoin(u) \/ Joined(u)

PthreadMain == SetUp \/ MainEnds \/ TakeMutex(Self, "acquire", "inside") \/ EndThread

ThreadNext == PthreadMain \/ \E u \in Users : UserStep(u)

ThreadSpec == ThreadInit /\ [][ThreadNext]_threadVars

-----------------------------------------------------------------------------
(* Properties *)

States   == {"CONSTRUCTED", "ALIVE", "FINISHED", "KILLED", "JOINING"}
Outcomes == {"null", "exception", "unknown"}

\* Every variable is in its range, and n_accquire does not wrap.
ThreadTypeOK ==
    /\ {locked, owner} \subseteq Threads \cup {Nobody}
    /\ n_accquire \in 0..(MaxGuards + 1)
    /\ state \in States /\ ending \in {"FINISHED", "KILLED"}
    /\ {exit_code, exception, term, torn} \subseteq BOOLEAN
    /\ method \in [Users -> Methods \cup {"none", "WaitFor"}]
    /\ place \in [Threads -> {"none", "acquire", "inside", "signal", "join", "again", "joined",
                           "setup", "main", "over"}]
    /\ guards \in [Users -> 0..MaxGuards]
    /\ results \in [Users -> Outcomes \cup {"pending"}]
    /\ fate \in Outcomes

\* A thread is entitled to the mutex inside a method, and between methods as
\* long as it has a TMutexAutoLock.
Entitled(t) == \/ place[t] \in {"inside", "joined"}
               \/ t \in Users /\ place[t] # "signal" /\ guards[t] > 0

\* Locks taken twice by one thread and those inside the methods of TThread nest:
\* a thread has the pthread mutex exactly as long as one of its guards lives,
\* unless a wait for the signal has been interrupted by an owner.
GuardsMatchMutex == ~torn => \A t \in Threads : Entitled(t) = (locked = t)

\* Who has the mutex waits for nobody who may need it.
HolderGoesOn == ~torn => \A u \in Users : locked = u => place[u] \notin {"join", "again"}

\* Both: a thread that may need the mutex gets it in the end.
MutexKept == GuardsMatchMutex /\ HolderGoesOn

\* The state tells whether the pthread handle may be used: Shutdown signals it
\* while ALIVE, Start overwrites it while CONSTRUCTED.
HandleValid == /\ state = "CONSTRUCTED" => place[Self] = "none"
               /\ state = "ALIVE" => place[Self] # "none"

phase == IF state = "CONSTRUCTED" THEN "idle"
         ELSE IF place[Self] \in {"over", "none"} THEN "ended" ELSE "running"
outcome == IF phase = "ended" THEN fate ELSE "pending"
CT == INSTANCE ChildTask

\* The thread is a child task: every run is joined once, by one caller, who gets
\* the outcome of that run, before the next begins.
KeepsChildTask == CT!Spec
=============================================================================
