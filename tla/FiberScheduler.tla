--------------------------- MODULE FiberScheduler ---------------------------
(***************************************************************************)
(* The fibers of one thread (TFiber, system_task.cpp) and their scheduler. *)
(*                                                                         *)
(* Fibers are cooperative: between two context switches the active fiber   *)
(* runs alone, so one action is one call of the fiber API, up to the point *)
(* where some fiber runs user code again.  TFiber::Schedule is the one     *)
(* call that is cut into steps (mode), because file descriptors become     *)
(* ready and signals arrive while it is under way.                         *)
(*                                                                         *)
(* The program running on the fibers is any sequence of legal API calls    *)
(* whose names are in Uses; calls for which the code throws are not made.  *)
(* Five more names in Uses allow calls that the code accepts and that      *)
(* documentation or comments describe differently:                         *)
(*   "StopPending"   Stop() on itself while a shutdown is pending          *)
(*   "StopBlocked"   Stop() on a fiber that is inside WaitForMany()        *)
(*   "SwitchBlocked" SwitchTo() to a fiber that is inside WaitForMany()    *)
(*   "ForeignUnblock" lifting another fiber's shutdown block               *)
(*   "KillMarked"    Kill() of a fiber whose shutdown was requested or     *)
(*                   blocked                                               *)
(* An operator X_Y next to X is X with a plausible mistake.                *)
(***************************************************************************)
EXTENDS Naturals, Sequences, SequencesExt

CONSTANTS
  Fibers,     \* the TFiber objects of the thread
  Main,       \* TThread::main_fiber, which runs the thread's own stack
  Mems,       \* conditions in memory (TMemoryWaitable, TStateWaitable)
  Handles,    \* kernel handles (THandleWaitable)
  OnShutdown, \* the TShutdownWaitable of the waiting fiber
  Null,       \* no fiber
  WaitSets,   \* the sets of waitables the program waits for
  Uses,       \* the API calls the program makes
  MaxBlock    \* bound on block_shutdown

Waitables == Mems \cup Handles \cup {OnShutdown}

ASSUME MainAssumption == Main \in Fibers /\ Null \notin Fibers
ASSUME WaitAssumption == WaitSets \subseteq SUBSET Waitables
ASSUME KindAssumption ==
  /\ Mems \cap Handles = {} /\ Mems \cap Fibers = {} /\ Handles \cap Fibers = {}
  /\ OnShutdown \notin Mems \cup Handles \cup Fibers
ASSUME BlockAssumption == MaxBlock \in Nat

VARIABLES
  mode,           \* where the thread is: user code or a phase of Schedule
  active_fiber,
  fibers,         \* TThread::fibers, the run list
  state,          \* TFiber::state
  shutdown,       \* TFiber::shutdown
  block_shutdown, \* TFiber::block_shutdown
  blocked_by,     \* TFiber::blocked_by, which the code reads of BLOCKED fibers
                  \* only; here {} as soon as the fiber is woken
  fresh,          \* fibers whose stack is at the entry of Boot
  joining,        \* the fiber whose Join() this fiber is executing, or Null
  cond,           \* the conditions in memory that hold
  fd,             \* the handles the kernel reports as ready
  is_ready        \* the handles with THandleWaitable::is_ready set

vars == <<mode, active_fiber, fibers, state, shutdown, block_shutdown,
          blocked_by, fresh, joining, cond, fd, is_ready>>

Alive == {"READY", "ACTIVE", "BLOCKED", "STOPPED"}
Joinable == {"FINISHED", "CRASHED", "KILLED"}
States == Alive \cup Joinable \cup {"CONSTRUCTED"}
IsAlive(f) == state[f] \in Alive

(* What lets shutdown_t out of the next scheduler call of f.               *)
Pending_Unblockable(f) == shutdown[f]
Pending(f) == shutdown[f] /\ block_shutdown[f] = 0

(* IWaitable::IsReady of something f is blocked by: a condition in memory, *)
(* a handle, f's own shutdown request, or a fiber it joins.                *)
IsReady(f, w) ==
  \/ w \in cond
  \/ w \in is_ready
  \/ w = OnShutdown /\ shutdown[f]
  \/ w \in Fibers /\ state[w] # "BLOCKED"

Ready(f) == \E w \in blocked_by[f] : IsReady(f, w)

InList(f) == \E i \in DOMAIN fibers : fibers[i] = f
Without_Nothing(f) == fibers
Without(f) ==
  IF InList(f) THEN RemoveAt(fibers, CHOOSE i \in DOMAIN fibers : fibers[i] = f)
               ELSE fibers

Init ==
  /\ mode = "run"
  /\ active_fiber = Main
  /\ fibers = <<Main>>
  /\ state = [f \in Fibers |-> IF f = Main THEN "ACTIVE" ELSE "CONSTRUCTED"]
  /\ shutdown = [f \in Fibers |-> FALSE]
  /\ block_shutdown = [f \in Fibers |-> 0]
  /\ blocked_by = [f \in Fibers |-> {}]
  /\ fresh = {}
  /\ joining = [f \in Fibers |-> Null]
  /\ cond = {} /\ fd = {} /\ is_ready = {}

-----------------------------------------------------------------------------
(* Context switches                                                        *)

(* Fiber n continues where it left the processor: at the entry of Boot, or *)
(* in SwitchTo behind SwapRegisters, where a pending shutdown is thrown.   *)
Land(n) ==
  LET thrown == n \notin fresh /\ Pending(n)
  IN  /\ mode' = "run"
      /\ active_fiber' = n
      /\ shutdown' = [shutdown EXCEPT ![n] = @ /\ ~thrown]
      /\ fresh' = fresh \ {n}
      /\ joining' = [joining EXCEPT ![n] = IF thrown THEN Null ELSE @]

(* The registers move from the active fiber to n, which may be the same;   *)
(* W are the BLOCKED fibers that the scheduler has found ready on the way. *)
Dispatch_TwoActive(n, W) ==
  /\ state' = [f \in Fibers |-> IF f = n THEN "ACTIVE" ELSE IF f \in W THEN "READY" ELSE state[f]]
  /\ blocked_by' = [f \in Fibers |-> IF f \in W \cup {n} THEN {} ELSE blocked_by[f]]
  /\ Land(n)
Dispatch_Unblocks(n, W) ==
  /\ state' = [f \in Fibers |->
                 IF f = n THEN "ACTIVE"
                 ELSE IF f \in W \/ (f = active_fiber /\ IsAlive(f)) THEN "READY"
                 ELSE state[f]]
  /\ blocked_by' = [f \in Fibers |-> IF f \in W \cup {n} THEN {} ELSE blocked_by[f]]
  /\ Land(n)
Dispatch(n, W) ==
  /\ state' = [f \in Fibers |->
                 IF f = n THEN "ACTIVE"
                 ELSE IF f \in W \/ (f = active_fiber /\ state[f] = "ACTIVE") THEN "READY"
                 ELSE state[f]]
  /\ blocked_by' = [f \in Fibers |-> IF f \in W \cup {n} THEN {} ELSE blocked_by[f]]
  /\ Land(n)

(* SwitchTo on a fiber that is alive and not active.                       *)
SwitchInto(t) ==
  /\ fibers' = IF state[t] = "STOPPED" THEN Append(fibers, t) ELSE fibers
  /\ Dispatch(t, {})
  /\ UNCHANGED <<block_shutdown, cond, fd, is_ready>>

(* shutdown_t leaves the current call of the active fiber.                 *)
Throw ==
  /\ shutdown' = [shutdown EXCEPT ![active_fiber] = FALSE]
  /\ joining' = [joining EXCEPT ![active_fiber] = Null]
  /\ mode' = "run"
  /\ UNCHANGED <<active_fiber, fibers, state, blocked_by, fresh, cond, fd, is_ready>>

(* WaitForMany on W: throw, or block and call the scheduler.               *)
Wait_Unchecked(W) ==
  /\ W # {}
  /\ blocked_by' = [blocked_by EXCEPT ![active_fiber] = W]
  /\ state' = [state EXCEPT ![active_fiber] = "BLOCKED"]
  /\ mode' = "schedule"
  /\ UNCHANGED <<active_fiber, fibers, shutdown, block_shutdown, fresh,
                 joining, cond, fd, is_ready>>
Wait(W) ==
  \/ Pending(active_fiber) /\ Throw /\ UNCHANGED block_shutdown
  \/ /\ ~Pending(active_fiber) /\ W # {}
     /\ blocked_by' = [blocked_by EXCEPT ![active_fiber] = W]
     /\ state' = [state EXCEPT ![active_fiber] = "BLOCKED"]
     /\ mode' = "schedule"
     /\ UNCHANGED <<active_fiber, fibers, shutdown, block_shutdown, fresh,
                    joining, cond, fd, is_ready>>

-----------------------------------------------------------------------------
(* TFiber::Schedule                                                        *)

Scheduling == mode = "schedule" /\ ~Pending(active_fiber)

(* The shutdown check at the entry of Schedule.                            *)
ScheduleThrows ==
  /\ mode = "schedule" /\ Pending(active_fiber)
  /\ Throw
  /\ UNCHANGED block_shutdown

ReadyOthers ==
  {i \in DOMAIN fibers : fibers[i] # active_fiber /\ state[fibers[i]] = "READY"}
BlockedAt == {i \in DOMAIN fibers : state[fibers[i]] = "BLOCKED"}

(* THandleWaitable::Reset clears is_ready, so that only the kernel sets it.*)
ReadyAfterReset_Always(f) == TRUE
ReadyAfterReset(f) == \E w \in blocked_by[f] \ Handles : IsReady(f, w)
WaitedUpTo(n) == UNION {blocked_by[fibers[j]] : j \in {k \in BlockedAt : k <= n}}
Reset_Omitted(n) == is_ready
Reset(n) == is_ready \ WaitedUpTo(n)

(* First loop: the first other READY fiber of the list.                    *)
PickReady ==
  /\ Scheduling
  /\ \E i \in ReadyOthers :
       /\ \A j \in ReadyOthers : i <= j
       /\ Dispatch(fibers[i], {})
  /\ UNCHANGED <<fibers, block_shutdown, cond, fd, is_ready>>

(* Second loop: the first BLOCKED fiber with a condition that holds; the   *)
(* waitables passed on the way are reset.                                  *)
PickUnblocked ==
  /\ Scheduling /\ ReadyOthers = {}
  /\ \E i \in BlockedAt :
       /\ ReadyAfterReset(fibers[i])
       /\ \A j \in BlockedAt : ReadyAfterReset(fibers[j]) => i <= j
       /\ is_ready' = Reset(i)
       /\ Dispatch(fibers[i], {})
  /\ UNCHANGED <<fibers, block_shutdown, cond, fd>>

(* Neither loop found a fiber: KernelWaitForMany collects the handles of   *)
(* all BLOCKED fibers and calls poll().                                    *)
EnterKernel ==
  /\ Scheduling /\ ReadyOthers = {}
  /\ \A i \in BlockedAt : ~ReadyAfterReset(fibers[i])
  /\ mode' = "poll"
  /\ is_ready' = Reset(Len(fibers))
  /\ UNCHANGED <<active_fiber, fibers, state, shutdown, block_shutdown,
                 blocked_by, fresh, joining, cond, fd>>

(* The effect of TFiber::Shutdown on a fiber that is alive.                *)
RequestShutdown(t) ==
  /\ fibers' = IF state[t] = "STOPPED" THEN Append(fibers, t) ELSE fibers
  /\ state' = [state EXCEPT ![t] = IF t = active_fiber THEN "ACTIVE" ELSE "READY"]
  /\ blocked_by' = [blocked_by EXCEPT ![t] = {}]
  /\ shutdown' = [shutdown EXCEPT ![t] = TRUE]

(* poll() returns because polled handles are ready, or SIGTERM, SIGINT,    *)
(* SIGQUIT or SIGHUP arrived for this thread, or both.                     *)
KernelReturns_SignalDropped ==
  /\ mode = "poll"
  /\ "Signal" \in Uses \/ fd \cap WaitedUpTo(Len(fibers)) # {}
  /\ is_ready' = is_ready \cup (fd \cap WaitedUpTo(Len(fibers)))
  /\ mode' = "scan"
  /\ UNCHANGED <<fibers, state, blocked_by, shutdown, active_fiber, block_shutdown,
                 fresh, joining, cond, fd>>
KernelReturns ==
  /\ mode = "poll"
  /\ LET polled == fd \cap WaitedUpTo(Len(fibers))
     IN  /\ is_ready' = is_ready \cup polled
         /\ \/ /\ polled # {}
               /\ UNCHANGED <<fibers, state, blocked_by, shutdown>>
            \/ "Signal" \in Uses /\ RequestShutdown(Main)
  /\ mode' = "scan"
  /\ UNCHANGED <<active_fiber, block_shutdown, fresh, joining, cond, fd>>

(* Third loop: the BLOCKED fibers that it moves to READY.  It walks the    *)
(* list once, so a joiner sees its target woken only if the target stands  *)
(* before it.                                                              *)
IsWokenSet_First(W) ==
  \/ \E i \in BlockedAt : /\ Ready(fibers[i]) /\ W = {fibers[i]}
                          /\ \A j \in BlockedAt : Ready(fibers[j]) => i <= j
  \/ W = {} /\ \A i \in BlockedAt : ~Ready(fibers[i])
IsWokenSet(W) ==
  \A i \in BlockedAt :
    fibers[i] \in W <=>
      \/ Ready(fibers[i])
      \/ \E j \in BlockedAt : /\ j < i /\ fibers[j] \in W
                              /\ fibers[j] \in blocked_by[fibers[i]]

(* ... and picks the last fiber of the list that can run.                  *)
Scan ==
  /\ mode = "scan"
  /\ \E W \in SUBSET {fibers[i] : i \in BlockedAt} :
       /\ IsWokenSet(W)
       /\ LET candidates == {i \in DOMAIN fibers :
                                \/ fibers[i] \in W
                                \/ state[fibers[i]] \in {"READY", "ACTIVE"}}
          IN  \/ \E i \in candidates :
                   /\ \A j \in candidates : j <= i
                   /\ Dispatch(fibers[i], W)
              \/ /\ candidates = {}
                 /\ mode' = "error"
                 /\ UNCHANGED <<active_fiber, state, shutdown, blocked_by, fresh, joining>>
  /\ UNCHANGED <<fibers, block_shutdown, cond, fd, is_ready>>

-----------------------------------------------------------------------------
(* Calls of the active fiber                                               *)

self == active_fiber
Calls(op) == mode = "run" /\ joining[self] = Null /\ op \in Uses

WaitForMany == Calls("WaitForMany") /\ \E W \in WaitSets : Wait(W)

Yield ==
  /\ Calls("Yield")
  /\ mode' = "schedule"
  /\ UNCHANGED <<active_fiber, fibers, state, shutdown, block_shutdown,
                 blocked_by, fresh, joining, cond, fd, is_ready>>

SwitchTo(t) ==
  /\ Calls("SwitchTo")
  /\ t # self /\ IsAlive(t)
  /\ state[t] = "BLOCKED" => "SwitchBlocked" \in Uses
  /\ SwitchInto(t)

Start(t) ==
  /\ Calls("Start")
  /\ state[t] = "CONSTRUCTED"
  /\ state' = [state EXCEPT ![t] = "READY"]
  /\ fibers' = Append(fibers, t)
  /\ fresh' = fresh \cup {t}
  /\ UNCHANGED <<mode, active_fiber, shutdown, block_shutdown, blocked_by,
                 joining, cond, fd, is_ready>>

(* Stop() takes the fiber off the list; on itself it calls the scheduler.  *)
Stop(t) ==
  /\ Calls("Stop") /\ IsAlive(t)
  /\ state[t] = "BLOCKED" => "StopBlocked" \in Uses
  /\ t = self /\ Pending(t) => "StopPending" \in Uses
  /\ \/ /\ state[t] # "STOPPED" /\ InList(t)
        /\ fibers' = Without(t)
        /\ state' = [state EXCEPT ![t] = "STOPPED"]
     \/ /\ state[t] = "STOPPED"
        /\ UNCHANGED <<fibers, state>>
  /\ mode' = IF t = self THEN "schedule" ELSE mode
  /\ UNCHANGED <<active_fiber, shutdown, block_shutdown, blocked_by, fresh,
                 joining, cond, fd, is_ready>>

Resume(t) ==
  /\ Calls("Resume") /\ t # self
  /\ state[t] = "STOPPED"
  /\ state' = [state EXCEPT ![t] = "READY"]
  /\ fibers' = Append(fibers, t)
  /\ UNCHANGED <<mode, active_fiber, shutdown, block_shutdown, blocked_by,
                 fresh, joining, cond, fd, is_ready>>

(* Kill() abandons the stack of t, and with it the calls t was executing.  *)
(* Main runs the thread's own stack and is not killed.                     *)
Kill(t) ==
  /\ Calls("Kill") /\ t # self /\ t # Main /\ IsAlive(t)
  /\ shutdown[t] \/ block_shutdown[t] > 0 => "KillMarked" \in Uses
  /\ \/ state[t] \in {"BLOCKED", "READY"} /\ InList(t) /\ fibers' = Without(t)
     \/ state[t] = "STOPPED" /\ UNCHANGED fibers
  /\ state' = [state EXCEPT ![t] = "KILLED"]
  /\ joining' = [joining EXCEPT ![t] = Null]
  /\ blocked_by' = [blocked_by EXCEPT ![t] = {}]
  /\ UNCHANGED <<mode, active_fiber, shutdown, block_shutdown, fresh, cond, fd, is_ready>>

Shutdown_OfTheDead(t) ==
  /\ Calls("Shutdown") /\ state[t] # "CONSTRUCTED"
  /\ RequestShutdown(t)
  /\ UNCHANGED <<mode, active_fiber, block_shutdown, fresh, joining, cond, fd, is_ready>>
Shutdown(t) ==
  /\ Calls("Shutdown") /\ IsAlive(t)
  /\ RequestShutdown(t)
  /\ UNCHANGED <<mode, active_fiber, block_shutdown, fresh, joining, cond, fd, is_ready>>

(* BlockShutdown(true), and the construction of a TShutdownWaitable.       *)
BlockShutdown(t) ==
  /\ Calls("BlockShutdown") /\ IsAlive(t)
  /\ block_shutdown[t] < MaxBlock
  /\ block_shutdown' = [block_shutdown EXCEPT ![t] = @ + 1]
  /\ UNCHANGED <<mode, active_fiber, fibers, state, shutdown, blocked_by,
                 fresh, joining, cond, fd, is_ready>>

(* BlockShutdown(false) throws at once when it lifts the last block of the *)
(* active fiber; the destruction of a TShutdownWaitable does not.          *)
UnblockShutdown(t) ==
  /\ Calls("BlockShutdown")
  /\ t = self \/ "ForeignUnblock" \in Uses
  /\ block_shutdown[t] > 0
  /\ block_shutdown' = [block_shutdown EXCEPT ![t] = @ - 1]
  /\ \/ t = self /\ shutdown[t] /\ block_shutdown[t] = 1 /\ Throw
     \/ UNCHANGED <<mode, active_fiber, fibers, state, shutdown, blocked_by,
                    fresh, joining, cond, fd, is_ready>>

(* Join(): the loop runs in the joiner whenever it is the active fiber.    *)
Join(t) ==
  /\ Calls("Join") /\ t # self /\ state[t] # "CONSTRUCTED"
  /\ joining' = [joining EXCEPT ![self] = t]
  /\ UNCHANGED <<mode, active_fiber, fibers, state, shutdown, block_shutdown,
                 blocked_by, fresh, cond, fd, is_ready>>

JoinLoop ==
  /\ mode = "run" /\ joining[self] # Null
  /\ LET t == joining[self]
     IN  \/ /\ ~IsAlive(t)
            /\ state' = [state EXCEPT ![t] = "CONSTRUCTED"]
            /\ joining' = [joining EXCEPT ![self] = Null]
            /\ UNCHANGED <<mode, active_fiber, fibers, shutdown, block_shutdown,
                           blocked_by, fresh, cond, fd, is_ready>>
         \/ state[t] = "BLOCKED" /\ Wait({t})
         \/ state[t] \in {"READY", "STOPPED"} /\ SwitchInto(t)

(* The main function of a fiber ends (Boot): normally or with shutdown_t,  *)
(* or with any other exception.                                            *)
Finish_KeepsRequest ==
  /\ Calls("Finish") /\ self # Main
  /\ \E s \in {"FINISHED", "CRASHED"} : state' = [state EXCEPT ![self] = s]
  /\ fibers' = Without(self)
  /\ mode' = "schedule"
  /\ UNCHANGED <<active_fiber, shutdown, block_shutdown, blocked_by, fresh, joining,
                 cond, fd, is_ready>>
Finish ==
  /\ Calls("Finish") /\ self # Main
  /\ \E s \in {"FINISHED", "CRASHED"} : state' = [state EXCEPT ![self] = s]
  /\ shutdown' = [shutdown EXCEPT ![self] = FALSE]
  /\ fibers' = Without(self)
  /\ mode' = "schedule"
  /\ UNCHANGED <<active_fiber, block_shutdown, blocked_by, fresh, joining,
                 cond, fd, is_ready>>

(* The program changes a condition or drains a handle other fibers or it   *)
(* itself wait for.                                                        *)
Touch ==
  /\ mode = "run" /\ joining[self] = Null
  /\ \/ /\ "Notify" \in Uses
        /\ \E c \in Mems : cond' \in {cond \cup {c}, cond \ {c}}
        /\ UNCHANGED fd
     \/ /\ "Drain" \in Uses
        /\ \E h \in fd : fd' = fd \ {h}
        /\ UNCHANGED cond
  /\ UNCHANGED <<mode, active_fiber, fibers, state, shutdown, block_shutdown,
                 blocked_by, fresh, joining, is_ready>>

-----------------------------------------------------------------------------
(* The kernel: a handle becomes ready at any time.                         *)
Arrive(h) ==
  /\ h \notin fd
  /\ fd' = fd \cup {h}
  /\ UNCHANGED <<mode, active_fiber, fibers, state, shutdown, block_shutdown,
                 blocked_by, fresh, joining, cond, is_ready>>

Schedule ==
  \/ ScheduleThrows \/ PickReady \/ PickUnblocked \/ EnterKernel \/ Scan

ApiCall ==
  \/ WaitForMany \/ Yield \/ Finish
  \/ \E t \in Fibers :
       \/ SwitchTo(t) \/ Start(t) \/ Stop(t) \/ Resume(t) \/ Kill(t)
       \/ Shutdown(t) \/ BlockShutdown(t) \/ UnblockShutdown(t) \/ Join(t)

Next ==
  \/ Schedule
  \/ KernelReturns
  \/ JoinLoop
  \/ ApiCall
  \/ Touch
  \/ \E h \in Handles : Arrive(h)

Spec == Init /\ [][Next]_vars

-----------------------------------------------------------------------------
(* Properties                                                              *)

TypeOK ==
  /\ mode \in {"run", "schedule", "poll", "scan", "error"}
  /\ active_fiber \in Fibers
  /\ fibers \in Seq(Fibers)
  /\ state \in [Fibers -> States]
  /\ shutdown \in [Fibers -> BOOLEAN]
  /\ block_shutdown \in [Fibers -> 0..MaxBlock]
  /\ blocked_by \in [Fibers -> SUBSET (Waitables \cup Fibers)]
  /\ fresh \subseteq Fibers
  /\ joining \in [Fibers -> Fibers \cup {Null}]
  /\ cond \subseteq Mems /\ fd \subseteq Handles /\ is_ready \subseteq Handles

(* The run list holds exactly the READY, ACTIVE and BLOCKED fibers, each   *)
(* once: Start, Stop, Resume, Kill, Shutdown, SwitchTo, Boot and a signal  *)
(* all edit it, and Stop and Kill throw when a removal does not find       *)
(* exactly one entry.                                                      *)
ListMatchesStates ==
  /\ \A i, j \in DOMAIN fibers : fibers[i] = fibers[j] => i = j
  /\ \A f \in Fibers : InList(f) <=> state[f] \in {"READY", "ACTIVE", "BLOCKED"}

(* While user code runs exactly the active fiber is ACTIVE; no other fiber *)
(* ever is.                                                                *)
OneActive ==
  /\ mode = "run" => state[active_fiber] = "ACTIVE"
  /\ \A f \in Fibers : state[f] = "ACTIVE" => f = active_fiber

(* The thread sleeps in poll() only when nothing in memory could continue: *)
(* no other fiber is READY, no condition a BLOCKED fiber waits for holds,  *)
(* and no handle it waits for is still marked from an earlier poll().      *)
NoSleepWithWork ==
  mode = "poll" =>
    /\ \A f \in Fibers : state[f] = "READY" => f = active_fiber
    /\ \A f \in Fibers : state[f] = "BLOCKED" => ~Ready(f)

(* No fiber is BLOCKED while a shutdown that it does not block is pending  *)
(* for it: WaitForMany looks before it blocks and Shutdown unblocks.       *)
NoSleepPastShutdown ==
  \A f \in Fibers : state[f] = "BLOCKED" => ~Pending(f)

(* "this can only happen if KernelWaitForMany() has a waitable has a bug": *)
(* after poll() Schedule always finds a fiber to continue with.            *)
KernelWaitProductive == mode # "error"

(* A fiber that is joined comes back to CONSTRUCTED with its data          *)
(* initialized: a request to shut down does not outlive the fiber it was   *)
(* made to.                                                                *)
RestartsClean ==
  \A f \in Fibers : state[f] = "CONSTRUCTED" => ~shutdown[f]

(* WaitForMany "returns once at least one waitable becomes ready": a fiber *)
(* inside it may run again only when a waitable is ready, a fiber it joins *)
(* moved on, or its shutdown was requested.                                *)
WakeJustified ==
  [][\A f \in Fibers :
       /\ blocked_by[f] # {}
       /\ state[f] \in {"BLOCKED", "STOPPED"}
       /\ state'[f] \in {"READY", "ACTIVE"}
       => \/ Ready(f) \/ shutdown'[f]
          \/ \E t \in blocked_by[f] \cap Fibers : state'[t] # "BLOCKED"]_vars

(* A request to shut down ends only by being thrown into the fiber, when   *)
(* nothing blocks it, or with the fiber's main function.                   *)
ShutdownDelivered ==
  [][\A f \in Fibers :
       shutdown[f] /\ ~shutdown'[f] =>
         \/ mode' = "run" /\ active_fiber' = f /\ block_shutdown'[f] = 0
         \/ state'[f] \in Joinable]_vars

(* A fiber that is over does not run again: it leaves FINISHED, CRASHED or *)
(* KILLED only for CONSTRUCTED, in the Join of another fiber, and starts   *)
(* at the entry of its main function.                                      *)
OverUntilJoined ==
  [][\A f \in Fibers :
       /\ state[f] \in Joinable => \/ state'[f] = state[f]
                                   \/ state'[f] = "CONSTRUCTED" /\ joining[active_fiber] = f
       /\ state[f] = "CONSTRUCTED" /\ state'[f] # "CONSTRUCTED" =>
            f \in fresh' /\ joining'[f] = Null]_vars

(* The thread keeps the promises of CooperativeThread: its user code sees  *)
(* none of the run list, the three loops of Schedule or poll().            *)
PhaseOf == [s \in States |->
              CASE s = "CONSTRUCTED" -> "idle"
                [] s \in {"READY", "ACTIVE"} -> "runnable"
                [] s = "BLOCKED" -> "waiting"
                [] s = "STOPPED" -> "parked"
                [] OTHER -> "over"]
Contract == INSTANCE CooperativeThread WITH
  Nobody <- Null,
  running <- IF mode = "run" THEN active_fiber ELSE Null,
  phase <- [f \in Fibers |-> PhaseOf[state[f]]],
  requested <- {f \in Fibers : shutdown[f]},
  waits <- blocked_by,
  happened <- cond \cup is_ready \cup {f \in Fibers : state[f] # "BLOCKED"}

KeepsContract == Contract!Spec

(* Fairness of the scheduler and of programs whose fibers keep calling it: *)
(* a fiber that runs reaches its next WaitForMany, Yield or end.           *)
Fairness ==
  /\ WF_vars(Schedule) /\ WF_vars(KernelReturns) /\ WF_vars(JoinLoop)
  /\ WF_vars(WaitForMany \/ Yield \/ Finish)

FairSpec == Spec /\ Fairness

(* Every READY fiber runs.                                                 *)
ReadyRuns == \A f \in Fibers : state[f] = "READY" ~> state[f] = "ACTIVE"

(* WaitForMany "returns once at least one waitable becomes ready": a wait  *)
(* for a handle ends while the handle is ready.                            *)
HandleReady(f) == state[f] = "BLOCKED" /\ blocked_by[f] \cap fd \cap Handles # {}

=============================================================================
