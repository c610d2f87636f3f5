----------------------- MODULE FiberScheduler_proofs ------------------------
(***************************************************************************)
(* Proofs about FiberScheduler for every set of fibers, waitables and      *)
(* programs.                                                               *)
(***************************************************************************)
EXTENDS FiberScheduler, SequenceTheorems, TLAPS

-----------------------------------------------------------------------------
(* The run list as a sequence                                              *)

(* s lists the fibers of X, each once.                                     *)
Lists(s, X) ==
  /\ s \in Seq(Fibers)
  /\ \A i, j \in DOMAIN s : s[i] = s[j] => i = j
  /\ \A f \in Fibers : (\E i \in DOMAIN s : s[i] = f) <=> f \in X

(* Appending a fiber that is not listed lists it too.                      *)
LEMMA AppendLists ==
  ASSUME NEW s, NEW X, NEW t \in Fibers, Lists(s, X), t \notin X
  PROVE  Lists(Append(s, t), X \cup {t})
<1>1. s \in Seq(Fibers) /\ Len(s) \in Nat /\ DOMAIN s = 1..Len(s)
  BY DEF Lists
<1>2. /\ Append(s, t) \in Seq(Fibers)
      /\ DOMAIN Append(s, t) = 1..(Len(s) + 1)
      /\ \A i \in 1..Len(s) : Append(s, t)[i] = s[i]
      /\ Append(s, t)[Len(s) + 1] = t
  BY <1>1
<1>3. \A i \in 1..Len(s) : s[i] \in X /\ s[i] # t
  BY <1>1 DEF Lists
<1>4. \A i, j \in DOMAIN Append(s, t) : Append(s, t)[i] = Append(s, t)[j] => i = j
  BY <1>1, <1>2, <1>3 DEF Lists
<1>5. \A f \in Fibers : (\E i \in DOMAIN Append(s, t) : Append(s, t)[i] = f) <=> f \in X \cup {t}
  <2>1. ASSUME NEW f \in Fibers, f \in X
        PROVE  \E i \in DOMAIN Append(s, t) : Append(s, t)[i] = f
    BY <2>1, <1>1, <1>2 DEF Lists
  <2>2. \E i \in DOMAIN Append(s, t) : Append(s, t)[i] = t
    BY <1>1, <1>2
  <2>3. ASSUME NEW i \in DOMAIN Append(s, t)
        PROVE  Append(s, t)[i] \in X \cup {t}
    BY <1>1, <1>2, <1>3
  <2>4. QED BY <2>1, <2>2, <2>3
<1>6. QED BY <1>2, <1>4, <1>5 DEF Lists

(* Removing the entry of a listed fiber unlists it and keeps the others.   *)
LEMMA RemoveLists ==
  ASSUME NEW s, NEW X, NEW k \in DOMAIN s, Lists(s, X)
  PROVE  Lists(RemoveAt(s, k), X \ {s[k]})
<1> DEFINE r == RemoveAt(s, k)
<1>1. s \in Seq(Fibers) /\ Len(s) \in Nat /\ DOMAIN s = 1..Len(s) /\ k \in 1..Len(s)
  BY DEF Lists
<1>2. /\ r \in Seq(Fibers)
      /\ DOMAIN r = 1..(Len(s) - 1)
      /\ \A i \in 1..(Len(s) - 1) : r[i] = IF i < k THEN s[i] ELSE s[i + 1]
  <2> DEFINE a == SubSeq(s, 1, k - 1)
             b == SubSeq(s, k + 1, Len(s))
  <2>1. a \in Seq(Fibers) /\ Len(a) = k - 1 /\ \A i \in 1..(k - 1) : a[i] = s[i]
    BY <1>1
  <2>2. /\ b \in Seq(Fibers) /\ Len(b) = Len(s) - k
        /\ \A i \in 1..(Len(s) - k) : b[i] = s[k + i]
    BY <1>1
  <2>3. r = a \o b
    BY DEF RemoveAt
  <2> HIDE DEF a, b, r
  <2>4. /\ r \in Seq(Fibers) /\ Len(r) = Len(a) + Len(b)
        /\ \A i \in 1..(Len(a) + Len(b)) : r[i] = IF i <= Len(a) THEN a[i] ELSE b[i - Len(a)]
    BY <2>1, <2>2, <2>3, ConcatProperties
  <2>5. DOMAIN r = 1..(Len(s) - 1)
    BY <1>1, <2>1, <2>2, <2>4
  <2>6. ASSUME NEW i \in 1..(Len(s) - 1) PROVE r[i] = IF i < k THEN s[i] ELSE s[i + 1]
    <3>1. CASE i < k
      BY <3>1, <1>1, <2>1, <2>2, <2>4
    <3>2. CASE i >= k
      <4>1. i - (k - 1) \in 1..(Len(s) - k) /\ k + (i - (k - 1)) = i + 1
        BY <3>2, <1>1
      <4>2. r[i] = b[i - (k - 1)]
        BY <3>2, <1>1, <2>1, <2>2, <2>4
      <4>3. QED BY <3>2, <4>1, <4>2, <2>2, <1>1
    <3>3. QED BY <3>1, <3>2, <1>1
  <2>7. QED BY <2>4, <2>5, <2>6
<1> DEFINE was(i) == IF i < k THEN i ELSE i + 1
<1>3. \A i \in DOMAIN r : was(i) \in 1..Len(s) /\ was(i) # k /\ r[i] = s[was(i)]
  BY <1>1, <1>2
<1>4. \A i, j \in DOMAIN r : was(i) = was(j) => i = j
  BY <1>1, <1>2
<1>5. \A i, j \in 1..Len(s) : s[i] = s[j] => i = j
  BY <1>1 DEF Lists
<1> HIDE DEF was, r
<1>6. \A i, j \in DOMAIN r : r[i] = r[j] => i = j
  BY <1>3, <1>4, <1>5
<1>7. ASSUME NEW i \in DOMAIN r PROVE r[i] \in X \ {s[k]}
  <2>1. s[was(i)] \in X
    BY <1>1, <1>3 DEF Lists
  <2>2. s[was(i)] # s[k]
    BY <1>1, <1>3, <1>5
  <2>3. QED BY <1>3, <2>1, <2>2
<1>8. ASSUME NEW f \in Fibers, f \in X, f # s[k]
      PROVE  \E i \in DOMAIN r : r[i] = f
  <2>1. PICK j \in 1..Len(s) : s[j] = f
    BY <1>1, <1>8 DEF Lists
  <2>2. CASE j < k
    BY <2>1, <2>2, <1>1, <1>2
  <2>3. CASE j > k
    <3>1. j - 1 \in DOMAIN r /\ r[j - 1] = s[j]
      BY <2>1, <2>3, <1>1, <1>2
    <3>2. QED BY <3>1, <2>1
  <2>4. QED BY <2>1, <2>2, <2>3, <1>1, <1>8
<1>9. QED BY <1>2, <1>6, <1>7, <1>8 DEF Lists, r

(* Without(f) of a list of X lists X without f.                            *)
LEMMA WithoutLists ==
  ASSUME NEW X, NEW t \in Fibers, Lists(fibers, X)
  PROVE  Lists(Without(t), X \ {t})
<1>1. CASE InList(t)
  <2>1. PICK k \in DOMAIN fibers : k = (CHOOSE i \in DOMAIN fibers : fibers[i] = t) /\ fibers[k] = t
    BY <1>1 DEF InList
  <2>2. Without(t) = RemoveAt(fibers, k)
    BY <1>1, <2>1 DEF Without
  <2>3. QED BY <2>1, <2>2, RemoveLists
<1>2. CASE ~InList(t)
  <2>1. t \notin X
    BY <1>2 DEF InList, Lists
  <2>2. X \ {t} = X
    BY <2>1
  <2>3. QED BY <1>2, <2>2 DEF Without
<1>3. QED BY <1>1, <1>2

-----------------------------------------------------------------------------
(* The inductive invariant                                                 *)

Listed == {f \in Fibers : state[f] \in {"READY", "ACTIVE", "BLOCKED"}}

(* Schedule throws at its entry only out of a fiber that is ACTIVE: Stop() *)
(* on a fiber with a pending shutdown is what would break it.              *)
EntryThrowsActive ==
  mode = "schedule" /\ Pending(active_fiber) => state[active_fiber] = "ACTIVE"

(* The main fiber is never killed and does not end.                        *)
MainAlive == state[Main] \in Alive

(* When poll() has returned the third loop finds a fiber to continue with. *)
ScanFinds ==
  mode = "scan" =>
    \E f \in Fibers : \/ state[f] \in {"READY", "ACTIVE"}
                      \/ state[f] = "BLOCKED" /\ Ready(f)

IInv ==
  /\ TypeOK
  /\ Lists(fibers, Listed)
  /\ OneActive
  /\ EntryThrowsActive
  /\ MainAlive
  /\ ScanFinds
  /\ KernelWaitProductive

(* The initial state satisfies the inductive invariant.                    *)
LEMMA InitInv == Init => IInv
<1> SUFFICES ASSUME Init PROVE IInv
  OBVIOUS
<1> USE MainAssumption, BlockAssumption DEF Init
<1>1. TypeOK
  BY DEF TypeOK, States, Alive, Joinable
<1>2. Lists(fibers, Listed)
  BY DEF Lists, Listed
<1>3. OneActive /\ EntryThrowsActive /\ MainAlive /\ ScanFinds /\ KernelWaitProductive
  BY DEF OneActive, EntryThrowsActive, MainAlive, ScanFinds, KernelWaitProductive, Alive
<1>4. QED BY <1>1, <1>2, <1>3 DEF IInv

(* A switch to a fiber that is alive, waking BLOCKED fibers on the way,    *)
(* keeps the invariant if the fiber is put on the list.                    *)
LEMMA DispatchInv ==
  ASSUME IInv, NEW n \in Fibers, NEW W \in SUBSET Fibers,
         \A f \in W : state[f] = "BLOCKED",
         state[n] \in Alive, Dispatch(n, W),
         UNCHANGED <<block_shutdown, cond, fd>>, is_ready' \subseteq Handles,
         Lists(fibers', Listed \cup {n})
  PROVE  IInv'
<1> USE DEF IInv
<1>1. TypeOK'
  BY DEF TypeOK, Dispatch, Land, Lists, States, Alive
<1>2. \A f \in Fibers : state'[f] = IF f = n THEN "ACTIVE"
         ELSE IF f \in W \/ (f = active_fiber /\ state[f] = "ACTIVE") THEN "READY"
         ELSE state[f]
  BY DEF Dispatch
<1>3. Listed' = Listed \cup {n}
  BY <1>2 DEF Listed
<1>4. OneActive'
  BY <1>2 DEF OneActive, Dispatch, Land
<1>5. MainAlive'
  BY <1>2, MainAssumption DEF MainAlive, Alive
<1>6. mode' = "run"
  BY DEF Dispatch, Land
<1>7. QED
  BY <1>1, <1>3, <1>4, <1>5, <1>6 DEF EntryThrowsActive, ScanFinds, KernelWaitProductive

(* A shutdown request to a fiber that is alive leaves it on the list, able *)
(* to run.                                                                 *)
LEMMA RequestLists ==
  ASSUME IInv, NEW t \in Fibers, IsAlive(t), RequestShutdown(t)
  PROVE  /\ Lists(fibers', Listed')
         /\ state' \in [Fibers -> States] /\ state'[t] \in {"READY", "ACTIVE"}
         /\ shutdown' \in [Fibers -> BOOLEAN]
         /\ blocked_by' \in [Fibers -> SUBSET (Waitables \cup Fibers)]
         /\ \A f \in Fibers : state'[f] = "ACTIVE" => f = active_fiber
         /\ MainAlive'
<1> USE DEF IInv, RequestShutdown
<1>1. state' \in [Fibers -> States] /\ state'[t] \in {"READY", "ACTIVE"}
  BY DEF TypeOK, States, Alive
<1>2. /\ shutdown' \in [Fibers -> BOOLEAN]
      /\ blocked_by' \in [Fibers -> SUBSET (Waitables \cup Fibers)]
  BY DEF TypeOK
<1>3. \A f \in Fibers : state'[f] = "ACTIVE" => f = active_fiber
  BY DEF TypeOK, OneActive
<1>4. MainAlive'
  BY MainAssumption DEF TypeOK, MainAlive, Alive
<1>5. Listed' = Listed \cup {t}
  BY DEF Listed, TypeOK
<1>6. Lists(fibers, Listed)
  OBVIOUS
<1>7. CASE state[t] = "STOPPED"
  <2>1. t \notin Listed
    BY <1>7 DEF Listed
  <2>2. fibers' = Append(fibers, t)
    BY <1>7
  <2>3. Lists(Append(fibers, t), Listed \cup {t})
    BY <1>6, <2>1, AppendLists
  <2>4. Lists(fibers', Listed')
    BY <1>5, <2>2, <2>3
  <2>5. QED BY <1>1, <1>2, <1>3, <1>4, <2>4
<1>8. CASE state[t] # "STOPPED"
  <2>1. t \in Listed
    BY <1>8 DEF Listed, IsAlive, Alive
  <2>2. Listed' = Listed
    BY <1>5, <2>1
  <2>3. fibers' = fibers
    BY <1>8
  <2>4. Lists(fibers', Listed')
    BY <1>6, <2>2, <2>3
  <2>5. QED BY <1>1, <1>2, <1>3, <1>4, <2>4
<1>9. QED BY <1>7, <1>8

(* The steps of Schedule and of the kernel.                                *)
LEMMA ScheduleInv ==
  ASSUME IInv, Schedule
  PROVE  IInv'
<1> USE DEF IInv
<1>0. /\ fibers \in Seq(Fibers) /\ DOMAIN fibers = 1..Len(fibers)
      /\ \A i \in DOMAIN fibers : fibers[i] \in Listed
      /\ \A f \in Listed : \E i \in DOMAIN fibers : fibers[i] = f
  BY DEF Lists, Listed
<1>1. CASE ScheduleThrows
  <2>1. UNCHANGED <<fibers, state>> /\ Listed' = Listed /\ mode' = "run"
    BY <1>1 DEF ScheduleThrows, Throw, Listed
  <2>2. TypeOK'
    BY <1>1 DEF ScheduleThrows, Throw, TypeOK
  <2>3. OneActive' /\ MainAlive'
    BY <1>1 DEF ScheduleThrows, Throw, OneActive, EntryThrowsActive, MainAlive
  <2>4. Lists(fibers', Listed')
    BY <2>1
  <2>5. QED
    BY <2>1, <2>2, <2>3, <2>4 DEF EntryThrowsActive, ScanFinds, KernelWaitProductive
<1>2. CASE PickReady
  <2>1. PICK i \in ReadyOthers : Dispatch(fibers[i], {})
    BY <1>2 DEF PickReady
  <2>2. fibers[i] \in Listed /\ fibers[i] \in Fibers /\ state[fibers[i]] \in Alive
    BY <1>0 DEF ReadyOthers, Listed, Alive
  <2>3. Lists(fibers', Listed \cup {fibers[i]})
    <3>1. Listed \cup {fibers[i]} = Listed /\ fibers' = fibers
      BY <2>2, <1>2 DEF PickReady
    <3>2. QED BY <3>1
  <2>4. UNCHANGED <<block_shutdown, cond, fd>> /\ is_ready' \subseteq Handles
    BY <1>2 DEF PickReady, TypeOK
  <2>5. QED BY <2>1, <2>2, <2>3, <2>4, DispatchInv
<1>3. CASE PickUnblocked
  <2>1. PICK i \in BlockedAt : is_ready' = Reset(i) /\ Dispatch(fibers[i], {})
    BY <1>3 DEF PickUnblocked
  <2>2. fibers[i] \in Listed /\ fibers[i] \in Fibers /\ state[fibers[i]] \in Alive
    BY <1>0 DEF BlockedAt, Listed, Alive
  <2>3. Lists(fibers', Listed \cup {fibers[i]})
    <3>1. Listed \cup {fibers[i]} = Listed /\ fibers' = fibers
      BY <2>2, <1>3 DEF PickUnblocked
    <3>2. QED BY <3>1
  <2>4. UNCHANGED <<block_shutdown, cond, fd>> /\ is_ready' \subseteq Handles
    BY <1>3, <2>1 DEF PickUnblocked, TypeOK, Reset
  <2>5. QED BY <2>1, <2>2, <2>3, <2>4, DispatchInv
<1>4. CASE EnterKernel
  <2>1. UNCHANGED <<fibers, state>> /\ Listed' = Listed /\ mode' = "poll"
    BY <1>4 DEF EnterKernel, Listed
  <2>2. TypeOK'
    BY <1>4 DEF EnterKernel, TypeOK, Reset
  <2>3. OneActive' /\ MainAlive'
    BY <1>4 DEF EnterKernel, OneActive, MainAlive
  <2>4. Lists(fibers', Listed')
    BY <2>1
  <2>5. QED
    BY <2>1, <2>2, <2>3, <2>4 DEF EntryThrowsActive, ScanFinds, KernelWaitProductive
<1>5. CASE Scan
  <2>1. PICK W \in SUBSET {fibers[i] : i \in BlockedAt} :
          /\ IsWokenSet(W)
          /\ LET candidates == {i \in DOMAIN fibers :
                                  \/ fibers[i] \in W
                                  \/ state[fibers[i]] \in {"READY", "ACTIVE"}}
             IN  \/ \E i \in candidates : Dispatch(fibers[i], W)
                 \/ candidates = {}
    BY <1>5 DEF Scan
  <2> DEFINE candidates == {i \in DOMAIN fibers :
                              \/ fibers[i] \in W
                              \/ state[fibers[i]] \in {"READY", "ACTIVE"}}
  <2>2. \A f \in W : f \in Fibers /\ state[f] = "BLOCKED"
    BY <1>0 DEF BlockedAt, Listed
  <2>3. candidates # {}
    <3>1. PICK f \in Fibers : \/ state[f] \in {"READY", "ACTIVE"}
                              \/ state[f] = "BLOCKED" /\ Ready(f)
      <4>1. mode = "scan" /\ ScanFinds
        BY <1>5 DEF Scan
      <4> HIDE DEF IInv, candidates
      <4>2. QED BY <4>1 DEF ScanFinds
    <3>2. PICK i \in DOMAIN fibers : fibers[i] = f
      <4>1. f \in Listed
        BY <3>1 DEF Listed
      <4>2. QED BY <4>1, <1>0
    <3>3. CASE state[f] \in {"READY", "ACTIVE"}
      BY <3>2, <3>3
    <3>4. CASE state[f] = "BLOCKED" /\ Ready(f)
      <4>1. i \in BlockedAt /\ fibers[i] \in W
        BY <3>2, <3>4, <2>1 DEF BlockedAt, IsWokenSet
      <4>2. QED BY <4>1, <3>2
    <3>5. QED BY <3>1, <3>3, <3>4
  <2>4. PICK i \in candidates : Dispatch(fibers[i], W)
    BY <2>1, <2>3
  <2>5. fibers[i] \in Listed /\ fibers[i] \in Fibers /\ state[fibers[i]] \in Alive
    BY <1>0, <2>2 DEF Listed, Alive
  <2>6. Lists(fibers', Listed \cup {fibers[i]})
    <3>1. Listed \cup {fibers[i]} = Listed /\ fibers' = fibers
      BY <2>5, <1>5 DEF Scan
    <3>2. QED BY <3>1
  <2>7. UNCHANGED <<block_shutdown, cond, fd>> /\ is_ready' \subseteq Handles
    BY <1>5 DEF Scan, TypeOK
  <2>8. W \in SUBSET Fibers
    BY <2>2
  <2>9. QED BY <2>2, <2>4, <2>5, <2>6, <2>7, <2>8, DispatchInv
<1>6. QED BY <1>1, <1>2, <1>3, <1>4, <1>5 DEF Schedule

(* The return from poll() keeps the invariant.                             *)
LEMMA KernelInv ==
  ASSUME IInv, KernelReturns
  PROVE  IInv'
<1> USE DEF IInv
<1> DEFINE polled == fd \cap WaitedUpTo(Len(fibers))
<1>1. /\ mode' = "scan" /\ is_ready' = is_ready \cup polled
      /\ UNCHANGED <<active_fiber, block_shutdown, fresh, joining, cond, fd>>
      /\ \/ polled # {} /\ UNCHANGED <<fibers, state, blocked_by, shutdown>>
         \/ RequestShutdown(Main)
  BY DEF KernelReturns
<1>2. is_ready' \subseteq Handles
  BY <1>1 DEF TypeOK
<1>3. CASE polled # {} /\ UNCHANGED <<fibers, state, blocked_by, shutdown>>
  <2>1. TypeOK'
    BY <1>1, <1>2, <1>3 DEF TypeOK
  <2>2. Listed' = Listed /\ fibers' = fibers
    BY <1>3 DEF Listed
  <2>3. Lists(fibers', Listed')
    BY <2>2
  <2>4. ScanFinds'
    <3>1. PICK h \in fd, k \in BlockedAt : h \in blocked_by[fibers[k]]
      BY <1>3 DEF WaitedUpTo
    <3>2. fibers[k] \in Fibers /\ state[fibers[k]] = "BLOCKED"
      BY DEF BlockedAt, TypeOK
    <3>3. h \in is_ready'
      <4>1. DOMAIN fibers = 1..Len(fibers)
        BY DEF TypeOK
      <4>2. k \in {m \in BlockedAt : m <= Len(fibers)}
        BY <4>1 DEF BlockedAt
      <4>3. h \in WaitedUpTo(Len(fibers))
        BY <3>1, <4>2 DEF WaitedUpTo
      <4>4. QED BY <4>3, <3>1, <1>1
    <3>4. Ready(fibers[k])'
      BY <1>3, <3>1, <3>3 DEF Ready, IsReady
    <3>5. QED BY <3>2, <3>4, <1>3 DEF ScanFinds
  <2>5. QED
    BY <1>1, <1>3, <2>1, <2>3, <2>4
       DEF OneActive, EntryThrowsActive, MainAlive, KernelWaitProductive
<1>4. CASE RequestShutdown(Main)
  <2>1. IsAlive(Main)
    BY DEF MainAlive, IsAlive
  <2>2. /\ Lists(fibers', Listed')
        /\ state' \in [Fibers -> States] /\ state'[Main] \in {"READY", "ACTIVE"}
        /\ shutdown' \in [Fibers -> BOOLEAN]
        /\ blocked_by' \in [Fibers -> SUBSET (Waitables \cup Fibers)]
        /\ \A f \in Fibers : state'[f] = "ACTIVE" => f = active_fiber
        /\ MainAlive'
    BY <2>1, <1>4, RequestLists, MainAssumption
  <2>3. TypeOK'
    BY <1>1, <1>2, <2>2 DEF TypeOK, Lists
  <2>4. QED
    BY <1>1, <2>2, <2>3, MainAssumption
       DEF OneActive, EntryThrowsActive, ScanFinds, KernelWaitProductive
<1>5. QED BY <1>1, <1>3, <1>4

(* WaitForMany, called by the program or by Join.                          *)
LEMMA WaitInv ==
  ASSUME IInv, mode = "run", NEW W \in SUBSET (Waitables \cup Fibers), Wait(W)
  PROVE  IInv'
<1> USE DEF IInv
<1>1. state[active_fiber] = "ACTIVE" /\ active_fiber \in Fibers
  BY DEF OneActive, TypeOK
<1>2. CASE Pending(active_fiber) /\ Throw /\ UNCHANGED block_shutdown
  <2>1. UNCHANGED <<fibers, state>> /\ Listed' = Listed /\ mode' = "run"
    BY <1>2 DEF Throw, Listed
  <2>2. Lists(fibers', Listed')
    BY <2>1
  <2>3. TypeOK'
    BY <1>2 DEF Throw, TypeOK
  <2>4. QED
    BY <1>2, <2>1, <2>2, <2>3
       DEF Throw, OneActive, EntryThrowsActive, MainAlive, ScanFinds, KernelWaitProductive
<1>3. CASE ~(Pending(active_fiber) /\ Throw /\ UNCHANGED block_shutdown)
  <2>1. /\ ~Pending(active_fiber)
        /\ blocked_by' = [blocked_by EXCEPT ![active_fiber] = W]
        /\ state' = [state EXCEPT ![active_fiber] = "BLOCKED"]
        /\ mode' = "schedule"
        /\ UNCHANGED <<active_fiber, fibers, shutdown, block_shutdown, fresh,
                       joining, cond, fd, is_ready>>
    BY <1>3 DEF Wait
  <2>2. Listed' = Listed /\ fibers' = fibers
    BY <1>1, <2>1 DEF Listed, TypeOK
  <2>3. Lists(fibers', Listed')
    BY <2>2
  <2>4. TypeOK'
    BY <2>1 DEF TypeOK, States, Alive
  <2>5. OneActive' /\ MainAlive'
    BY <1>1, <2>1, MainAssumption DEF OneActive, MainAlive, TypeOK, Alive
  <2>6. EntryThrowsActive'
    BY <2>1 DEF EntryThrowsActive, Pending
  <2>7. QED BY <2>1, <2>3, <2>4, <2>5, <2>6 DEF ScanFinds, KernelWaitProductive
<1>4. QED BY <1>2, <1>3

(* SwitchTo, called by the program or by Join.                             *)
LEMMA SwitchInv ==
  ASSUME IInv, NEW t \in Fibers, IsAlive(t), SwitchInto(t)
  PROVE  IInv'
<1> USE DEF IInv
<1>1. /\ fibers' = IF state[t] = "STOPPED" THEN Append(fibers, t) ELSE fibers
      /\ Dispatch(t, {}) /\ UNCHANGED <<block_shutdown, cond, fd, is_ready>>
  BY DEF SwitchInto
<1>2. Lists(fibers', Listed \cup {t})
  <2>1. CASE state[t] = "STOPPED"
    <3>1. t \notin Listed /\ fibers' = Append(fibers, t)
      BY <1>1, <2>1 DEF Listed
    <3>2. Lists(Append(fibers, t), Listed \cup {t})
      BY <3>1, AppendLists
    <3>3. QED BY <3>1, <3>2
  <2>2. CASE state[t] # "STOPPED"
    <3>1. Listed \cup {t} = Listed /\ fibers' = fibers
      BY <1>1, <2>2 DEF Listed, IsAlive, Alive
    <3>2. QED BY <3>1
  <2>3. QED BY <2>1, <2>2
<1>3. is_ready' \subseteq Handles /\ state[t] \in Alive
  BY <1>1 DEF TypeOK, IsAlive
<1>4. QED BY <1>1, <1>2, <1>3, DispatchInv

(* A turn of the loop in Join() keeps the invariant.                       *)
LEMMA JoinLoopInv ==
  ASSUME IInv, JoinLoop
  PROVE  IInv'
<1> USE DEF IInv
<1> DEFINE t == joining[active_fiber]
<1>1. mode = "run" /\ t \in Fibers /\ state[active_fiber] = "ACTIVE"
  BY DEF JoinLoop, self, TypeOK, OneActive
<1>2. CASE /\ ~IsAlive(t)
           /\ state' = [state EXCEPT ![t] = "CONSTRUCTED"]
           /\ joining' = [joining EXCEPT ![active_fiber] = Null]
           /\ UNCHANGED <<mode, active_fiber, fibers, shutdown, block_shutdown,
                          blocked_by, fresh, cond, fd, is_ready>>
  <2>1. t # active_fiber /\ t # Main
    BY <1>1, <1>2 DEF IsAlive, Alive, MainAlive
  <2>2. Listed' = Listed /\ fibers' = fibers
    BY <1>1, <1>2 DEF Listed, TypeOK, IsAlive, Alive
  <2>3. Lists(fibers', Listed')
    BY <2>2
  <2>4. TypeOK'
    BY <1>1, <1>2 DEF TypeOK, States
  <2>5. OneActive' /\ MainAlive'
    BY <1>1, <1>2, <2>1, MainAssumption DEF OneActive, MainAlive, TypeOK
  <2>6. QED
    BY <1>1, <1>2, <2>3, <2>4, <2>5 DEF EntryThrowsActive, ScanFinds, KernelWaitProductive
<1>3. CASE state[t] = "BLOCKED" /\ Wait({t})
  BY <1>1, <1>3, WaitInv
<1>4. CASE state[t] \in {"READY", "STOPPED"} /\ SwitchInto(t)
  BY <1>1, <1>4, SwitchInv DEF IsAlive, Alive
<1>5. QED BY <1>2, <1>3, <1>4 DEF JoinLoop, self

(* A call after which the active fiber goes on.                            *)
LEMMA ReturnsInv ==
  ASSUME IInv, mode = "run", mode' = "run", active_fiber' = active_fiber,
         TypeOK', Lists(fibers', Listed'),
         state'[active_fiber] = "ACTIVE", MainAlive',
         \A f \in Fibers : state'[f] = "ACTIVE" => f = active_fiber
  PROVE  IInv'
BY DEF IInv, OneActive, EntryThrowsActive, ScanFinds, KernelWaitProductive

(* A call that ends in the scheduler without a pending shutdown, or from   *)
(* a fiber that is still ACTIVE.                                           *)
LEMMA SchedulesInv ==
  ASSUME IInv, mode' = "schedule", active_fiber' = active_fiber,
         TypeOK', Lists(fibers', Listed'), MainAlive',
         Pending(active_fiber)' => state'[active_fiber] = "ACTIVE",
         \A f \in Fibers : state'[f] = "ACTIVE" => f = active_fiber
  PROVE  IInv'
BY DEF IInv, OneActive, EntryThrowsActive, ScanFinds, KernelWaitProductive

(* Start and Resume put a fiber on the list.                               *)
LEMMA StartResumeInv ==
  ASSUME IInv, NEW t \in Fibers, Start(t) \/ Resume(t)
  PROVE  IInv'
<1> USE DEF IInv
<1>1. /\ mode = "run" /\ mode' = "run"
      /\ state[t] \in {"CONSTRUCTED", "STOPPED"}
      /\ state' = [state EXCEPT ![t] = "READY"]
      /\ fibers' = Append(fibers, t)
      /\ fresh' \in {fresh, fresh \cup {t}}
      /\ UNCHANGED <<active_fiber, shutdown, block_shutdown, blocked_by,
                     joining, cond, fd, is_ready>>
  BY DEF Start, Resume, Calls
<1>2. t \notin Listed /\ Listed' = Listed \cup {t}
  BY <1>1 DEF Listed, TypeOK
<1>3. Lists(Append(fibers, t), Listed \cup {t})
  BY <1>2, AppendLists
<1>4. Lists(fibers', Listed')
  BY <1>1, <1>2, <1>3
<1>5. TypeOK'
  BY <1>1, <1>4 DEF TypeOK, Lists, States, Alive
<1>6. /\ state'[active_fiber] = "ACTIVE" /\ MainAlive'
      /\ \A f \in Fibers : state'[f] = "ACTIVE" => f = active_fiber
  BY <1>1, MainAssumption DEF TypeOK, OneActive, MainAlive, Alive
<1>7. QED BY <1>1, <1>4, <1>5, <1>6, ReturnsInv

(* Stop and Kill take a fiber off the list.                                *)
LEMMA StopInv ==
  ASSUME IInv, "StopPending" \notin Uses, NEW t \in Fibers, Stop(t)
  PROVE  IInv'
<1> USE DEF IInv
<1>1. /\ mode = "run" /\ state[t] \in Alive
      /\ t = active_fiber => ~Pending(t)
      /\ mode' = IF t = active_fiber THEN "schedule" ELSE mode
      /\ UNCHANGED <<active_fiber, shutdown, block_shutdown, blocked_by, fresh,
                     joining, cond, fd, is_ready>>
  BY DEF Stop, Calls, IsAlive, self
<1>2. state' = [state EXCEPT ![t] = "STOPPED"]
  BY <1>1 DEF Stop, TypeOK
<1>3. Lists(fibers', Listed')
  <2>1. Listed' = Listed \ {t}
    BY <1>2 DEF Listed, TypeOK
  <2>2. CASE fibers' = Without(t)
    <3>1. Lists(Without(t), Listed \ {t})
      BY WithoutLists
    <3>2. QED BY <2>1, <2>2, <3>1
  <2>3. CASE state[t] = "STOPPED" /\ fibers' = fibers
    <3>1. Listed \ {t} = Listed
      BY <2>3 DEF Listed
    <3>2. QED BY <2>1, <2>3, <3>1
  <2>4. QED BY <2>2, <2>3 DEF Stop
<1>4. TypeOK'
  BY <1>1, <1>2, <1>3 DEF TypeOK, Lists, States, Alive
<1>5. MainAlive' /\ \A f \in Fibers : state'[f] = "ACTIVE" => f = active_fiber
  BY <1>2, MainAssumption DEF TypeOK, OneActive, MainAlive, Alive
<1>6. CASE t = active_fiber
  <2>1. ~Pending(active_fiber)'
    BY <1>1, <1>6 DEF Pending
  <2>2. QED BY <1>1, <1>3, <1>4, <1>5, <1>6, <2>1, SchedulesInv
<1>7. CASE t # active_fiber
  <2>1. state'[active_fiber] = "ACTIVE"
    BY <1>1, <1>2, <1>7 DEF OneActive, TypeOK
  <2>2. QED BY <1>1, <1>3, <1>4, <1>5, <1>7, <2>1, ReturnsInv
<1>8. QED BY <1>6, <1>7

(* Kill() keeps the invariant.                                             *)
LEMMA KillInv ==
  ASSUME IInv, NEW t \in Fibers, Kill(t)
  PROVE  IInv'
<1> USE DEF IInv
<1>1. /\ mode = "run" /\ mode' = "run" /\ t # active_fiber /\ t # Main
      /\ state' = [state EXCEPT ![t] = "KILLED"]
      /\ joining' = [joining EXCEPT ![t] = Null]
      /\ blocked_by' = [blocked_by EXCEPT ![t] = {}]
      /\ UNCHANGED <<active_fiber, shutdown, block_shutdown, fresh, cond, fd, is_ready>>
  BY DEF Kill, Calls, self
<1>2. Lists(fibers', Listed')
  <2>1. Listed' = Listed \ {t}
    BY <1>1 DEF Listed, TypeOK
  <2>2. CASE fibers' = Without(t)
    <3>1. Lists(Without(t), Listed \ {t})
      BY WithoutLists
    <3>2. QED BY <2>1, <2>2, <3>1
  <2>3. CASE state[t] = "STOPPED" /\ fibers' = fibers
    <3>1. Listed \ {t} = Listed
      BY <2>3 DEF Listed
    <3>2. QED BY <2>1, <2>3, <3>1
  <2>4. QED BY <2>2, <2>3 DEF Kill
<1>3. TypeOK'
  BY <1>1, <1>2 DEF TypeOK, Lists, States, Joinable
<1>4. /\ state'[active_fiber] = "ACTIVE" /\ MainAlive'
      /\ \A f \in Fibers : state'[f] = "ACTIVE" => f = active_fiber
  BY <1>1, MainAssumption DEF TypeOK, OneActive, MainAlive, Alive
<1>5. QED BY <1>1, <1>2, <1>3, <1>4, ReturnsInv

(* Shutdown() keeps the invariant.                                         *)
LEMMA ShutdownInv ==
  ASSUME IInv, NEW t \in Fibers, Shutdown(t)
  PROVE  IInv'
<1> USE DEF IInv
<1>1. /\ mode = "run" /\ IsAlive(t) /\ RequestShutdown(t)
      /\ UNCHANGED <<mode, active_fiber, block_shutdown, fresh, joining, cond, fd, is_ready>>
  BY DEF Shutdown, Calls
<1>2. /\ Lists(fibers', Listed')
      /\ state' \in [Fibers -> States]
      /\ shutdown' \in [Fibers -> BOOLEAN]
      /\ blocked_by' \in [Fibers -> SUBSET (Waitables \cup Fibers)]
      /\ \A f \in Fibers : state'[f] = "ACTIVE" => f = active_fiber
      /\ MainAlive'
  BY <1>1, RequestLists
<1>3. TypeOK'
  BY <1>1, <1>2 DEF TypeOK, Lists
<1>4. state'[active_fiber] = "ACTIVE"
  BY <1>1 DEF RequestShutdown, OneActive, TypeOK
<1>5. QED BY <1>1, <1>2, <1>3, <1>4, ReturnsInv

(* Blocking and unblocking shutdowns keeps the invariant.                  *)
LEMMA BlockInv ==
  ASSUME IInv, NEW t \in Fibers, BlockShutdown(t) \/ UnblockShutdown(t)
  PROVE  IInv'
<1> USE DEF IInv
<1>1. mode = "run" /\ UNCHANGED <<mode, active_fiber, fibers, state>>
  BY DEF BlockShutdown, UnblockShutdown, Throw, Calls
<1>2. TypeOK'
  <2>1. block_shutdown' \in [Fibers -> 0..MaxBlock]
    <3>1. \A n \in 0..MaxBlock : /\ n < MaxBlock => n + 1 \in 0..MaxBlock
                                 /\ n > 0 => n - 1 \in 0..MaxBlock
      BY BlockAssumption
    <3>2. CASE BlockShutdown(t)
      BY <3>1, <3>2 DEF BlockShutdown, TypeOK
    <3>3. CASE UnblockShutdown(t)
      BY <3>1, <3>3 DEF UnblockShutdown, TypeOK
    <3>4. QED BY <3>2, <3>3
  <2>2. /\ shutdown' \in [Fibers -> BOOLEAN] /\ joining' \in [Fibers -> Fibers \cup {Null}]
        /\ UNCHANGED <<blocked_by, fresh, cond, fd, is_ready>>
    BY DEF BlockShutdown, UnblockShutdown, Throw, TypeOK
  <2>3. QED BY <1>1, <2>1, <2>2 DEF TypeOK
<1>3. Listed' = Listed /\ fibers' = fibers
  BY <1>1 DEF Listed
<1>4. Lists(fibers', Listed')
  BY <1>3
<1>5. /\ state'[active_fiber] = "ACTIVE" /\ MainAlive'
      /\ \A f \in Fibers : state'[f] = "ACTIVE" => f = active_fiber
  BY <1>1 DEF OneActive, MainAlive
<1>6. QED BY <1>1, <1>2, <1>4, <1>5, ReturnsInv

(* A fiber that ends keeps the invariant.                                  *)
LEMMA FinishInv ==
  ASSUME IInv, Finish
  PROVE  IInv'
<1> USE DEF IInv
<1>1. PICK s \in {"FINISHED", "CRASHED"} : state' = [state EXCEPT ![active_fiber] = s]
  BY DEF Finish, self
<1>2. /\ active_fiber # Main /\ mode' = "schedule"
      /\ shutdown' = [shutdown EXCEPT ![active_fiber] = FALSE]
      /\ fibers' = Without(active_fiber)
      /\ UNCHANGED <<active_fiber, block_shutdown, blocked_by, fresh, joining,
                     cond, fd, is_ready>>
  BY DEF Finish, self
<1>3. Lists(fibers', Listed')
  <2>1. Listed' = Listed \ {active_fiber}
    BY <1>1 DEF Listed, TypeOK
  <2>2. Lists(Without(active_fiber), Listed \ {active_fiber})
    BY WithoutLists DEF TypeOK
  <2>3. QED BY <1>2, <2>1, <2>2
<1>4. TypeOK'
  BY <1>1, <1>2, <1>3 DEF TypeOK, Lists, States, Joinable
<1>5. MainAlive' /\ \A f \in Fibers : state'[f] = "ACTIVE" => f = active_fiber
  BY <1>1, <1>2, MainAssumption DEF TypeOK, OneActive, MainAlive
<1>6. ~Pending(active_fiber)'
  BY <1>2 DEF Pending, TypeOK
<1>7. QED BY <1>2, <1>3, <1>4, <1>5, <1>6, SchedulesInv

(* Calls and environment steps that leave the list and the states alone.   *)
LEMMA QuietInv ==
  ASSUME IInv,
         Yield \/ Touch \/ (\E t \in Fibers : Join(t)) \/ (\E h \in Handles : Arrive(h))
           \/ UNCHANGED vars
  PROVE  IInv'
<1> USE DEF IInv
<1>1. /\ UNCHANGED <<active_fiber, fibers, state, shutdown, block_shutdown, blocked_by,
                     fresh, is_ready>>
      /\ mode' = mode \/ (mode = "run" /\ mode' = "schedule")
  BY DEF Yield, Touch, Join, Arrive, Calls, vars
<1>2. TypeOK'
  <2>1. joining' \in [Fibers -> Fibers \cup {Null}]
    BY DEF Yield, Touch, Join, Arrive, vars, TypeOK
  <2>2. cond' \subseteq Mems /\ fd' \subseteq Handles
    BY DEF Yield, Touch, Join, Arrive, vars, TypeOK
  <2>3. QED BY <1>1, <2>1, <2>2 DEF TypeOK
<1>3. Listed' = Listed /\ fibers' = fibers
  BY <1>1 DEF Listed
<1>4. Lists(fibers', Listed')
  BY <1>3
<1>5. OneActive' /\ EntryThrowsActive' /\ MainAlive' /\ KernelWaitProductive'
  BY <1>1 DEF OneActive, EntryThrowsActive, MainAlive, KernelWaitProductive, Pending
<1>6. ScanFinds'
  <2>1. CASE cond' = cond
    BY <1>1, <2>1 DEF ScanFinds, Ready, IsReady
  <2>2. CASE mode' # "scan"
    BY <2>2 DEF ScanFinds
  <2>3. cond' = cond \/ mode' # "scan"
    BY DEF Yield, Touch, Join, Arrive, vars
  <2>4. QED BY <2>1, <2>2, <2>3
<1>7. QED BY <1>2, <1>4, <1>5, <1>6

(* Every step keeps the invariant.                                         *)
LEMMA NextInv ==
  ASSUME "StopPending" \notin Uses, IInv, [Next]_vars
  PROVE  IInv'
<1>1. CASE Schedule
  BY <1>1, ScheduleInv
<1>2. CASE KernelReturns
  BY <1>2, KernelInv
<1>3. CASE JoinLoop
  BY <1>3, JoinLoopInv
<1>4. CASE ApiCall
  <2>1. CASE WaitForMany
    <3>1. PICK W \in WaitSets : Wait(W)
      BY <2>1 DEF WaitForMany
    <3>2. W \in SUBSET (Waitables \cup Fibers) /\ mode = "run"
      BY <2>1, WaitAssumption DEF WaitForMany, Calls
    <3>3. QED BY <3>1, <3>2, WaitInv
  <2>2. CASE Yield
    BY <2>2, QuietInv
  <2>3. CASE Finish
    BY <2>3, FinishInv
  <2>4. ASSUME NEW t \in Fibers, SwitchTo(t) PROVE IInv'
    BY <2>4, SwitchInv DEF SwitchTo
  <2>5. ASSUME NEW t \in Fibers, Start(t) \/ Resume(t) PROVE IInv'
    BY <2>5, StartResumeInv
  <2>6. ASSUME NEW t \in Fibers, Stop(t) PROVE IInv'
    BY <2>6, StopInv
  <2>7. ASSUME NEW t \in Fibers, Kill(t) PROVE IInv'
    BY <2>7, KillInv
  <2>8. ASSUME NEW t \in Fibers, Shutdown(t) PROVE IInv'
    BY <2>8, ShutdownInv
  <2>9. ASSUME NEW t \in Fibers, BlockShutdown(t) \/ UnblockShutdown(t) PROVE IInv'
    BY <2>9, BlockInv
  <2>10. ASSUME NEW t \in Fibers, Join(t) PROVE IInv'
    BY <2>10, QuietInv
  <2>11. QED
    BY <1>4, <2>1, <2>2, <2>3, <2>4, <2>5, <2>6, <2>7, <2>8, <2>9, <2>10 DEF ApiCall
<1>5. CASE Touch
  BY <1>5, QuietInv
<1>6. CASE \E h \in Handles : Arrive(h)
  BY <1>6, QuietInv
<1>7. CASE UNCHANGED vars
  BY <1>7, QuietInv
<1>8. QED BY <1>1, <1>2, <1>3, <1>4, <1>5, <1>6, <1>7 DEF Next

-----------------------------------------------------------------------------
(* Theorems                                                                *)

(* The conjunction of the state predicates of the scheduler is invariant   *)
(* for every program that never calls Stop() on itself while a shutdown is *)
(* pending: Schedule would then throw out of a fiber that is STOPPED.      *)
LEMMA Invariant == ASSUME "StopPending" \notin Uses PROVE Spec => []IInv
<1>1. Init => IInv
  BY InitInv
<1>2. IInv /\ [Next]_vars => IInv'
  BY NextInv
<1>3. QED BY <1>1, <1>2, PTL DEF Spec

(* Every variable keeps its type; for block_shutdown this is that no       *)
(* unblocking call counts below zero.                                      *)
THEOREM TypeCorrect == ASSUME "StopPending" \notin Uses PROVE Spec => []TypeOK
<1>1. IInv => TypeOK
  BY DEF IInv
<1>2. QED BY <1>1, Invariant, PTL

(* The run list holds exactly the READY, ACTIVE and BLOCKED fibers, once   *)
(* each, so that the removals in Stop, Kill and Boot find their entry.     *)
THEOREM RunListIsExact == ASSUME "StopPending" \notin Uses PROVE Spec => []ListMatchesStates
<1>1. IInv => ListMatchesStates
  BY DEF IInv, Lists, Listed, ListMatchesStates, InList
<1>2. QED BY <1>1, Invariant, PTL

(* User code runs on exactly one fiber, the one marked ACTIVE.             *)
THEOREM OnlyOneActive == ASSUME "StopPending" \notin Uses PROVE Spec => []OneActive
<1>1. IInv => OneActive
  BY DEF IInv
<1>2. QED BY <1>1, Invariant, PTL

(* When poll() returns, for handles or for a signal, the third loop of     *)
(* Schedule finds a fiber: the exception behind it is never thrown.        *)
THEOREM PollFindsAFiber == ASSUME "StopPending" \notin Uses PROVE Spec => []KernelWaitProductive
<1>1. IInv => KernelWaitProductive
  BY DEF IInv
<1>2. QED BY <1>1, Invariant, PTL

-----------------------------------------------------------------------------
(* Requests to shut down                                                   *)

(* A fiber that is over, or not started again, has no request pending.     *)
OverIsClean == \A f \in Fibers : ~IsAlive(f) => ~shutdown[f]

RInv == NoSleepPastShutdown /\ OverIsClean

(* A switch blocks no fiber, ends none and requests nothing.               *)
LEMMA DispatchRequests ==
  ASSUME IInv, RInv, NEW n \in Fibers, NEW W \in SUBSET Fibers,
         \A f \in W : state[f] = "BLOCKED", state[n] \in Alive,
         Dispatch(n, W), UNCHANGED block_shutdown
  PROVE  RInv'
<1>1. \A f \in Fibers : state'[f] = IF f = n THEN "ACTIVE"
         ELSE IF f \in W \/ (f = active_fiber /\ state[f] = "ACTIVE") THEN "READY"
         ELSE state[f]
  BY DEF Dispatch
<1>2. \A f \in Fibers : shutdown'[f] => shutdown[f]
  BY DEF Dispatch, Land, IInv, TypeOK
<1>3. \A f \in Fibers : state'[f] = "BLOCKED" => state[f] = "BLOCKED"
  BY <1>1
<1>4. \A f \in Fibers : state'[f] \in Alive \/ (state'[f] = state[f] /\ state[f] \notin Alive)
  BY <1>1 DEF Alive
<1>5. QED
  BY <1>2, <1>3, <1>4 DEF RInv, NoSleepPastShutdown, OverIsClean, IsAlive, Pending

(* Throwing shutdown_t withdraws a request and changes no state.           *)
LEMMA ThrowRequests ==
  ASSUME IInv, RInv, Throw,
         \A f \in Fibers : f # active_fiber => block_shutdown'[f] = block_shutdown[f]
  PROVE  RInv'
<1>1. state' = state /\ shutdown' = [shutdown EXCEPT ![active_fiber] = FALSE]
  BY DEF Throw
<1>2. \A f \in Fibers : shutdown'[f] = (shutdown[f] /\ f # active_fiber)
  BY <1>1 DEF IInv, TypeOK
<1>3. QED
  BY <1>1, <1>2 DEF RInv, NoSleepPastShutdown, OverIsClean, IsAlive, Pending

(* A fiber that goes to sleep has no request pending.                      *)
LEMMA WaitRequests ==
  ASSUME IInv, RInv, mode = "run", NEW W, Wait(W)
  PROVE  RInv'
<1>1. CASE Throw /\ UNCHANGED block_shutdown
  BY <1>1, ThrowRequests
<1>2. CASE /\ ~Pending(active_fiber)
           /\ state' = [state EXCEPT ![active_fiber] = "BLOCKED"]
           /\ UNCHANGED <<shutdown, block_shutdown>>
  BY <1>2 DEF RInv, NoSleepPastShutdown, OverIsClean, IsAlive, Alive, Pending, IInv, TypeOK
<1>3. QED BY <1>1, <1>2 DEF Wait

(* A requested fiber is woken.                                             *)
LEMMA RequestRequests ==
  ASSUME IInv, RInv, NEW t \in Fibers, IsAlive(t), RequestShutdown(t), UNCHANGED block_shutdown
  PROVE  RInv'
<1>1. \A f \in Fibers : f # t => state'[f] = state[f] /\ shutdown'[f] = shutdown[f]
  BY DEF RequestShutdown, IInv, TypeOK
<1>2. state'[t] \in {"READY", "ACTIVE"}
  BY DEF RequestShutdown, IInv, TypeOK
<1>3. QED
  BY <1>1, <1>2 DEF RInv, NoSleepPastShutdown, OverIsClean, IsAlive, Alive, Pending

(* Schedule() keeps the requests in order.                                 *)
LEMMA ScheduleRequests ==
  ASSUME IInv, RInv, Schedule
  PROVE  RInv'
<1>0. \A i \in DOMAIN fibers : fibers[i] \in Fibers
  BY DEF IInv, TypeOK
<1>1. CASE ScheduleThrows
  BY <1>1, ThrowRequests DEF ScheduleThrows
<1>2. CASE PickReady
  <2>1. PICK i \in ReadyOthers : Dispatch(fibers[i], {}) /\ UNCHANGED block_shutdown
    BY <1>2 DEF PickReady
  <2>2. fibers[i] \in Fibers /\ state[fibers[i]] \in Alive
    BY <1>0 DEF ReadyOthers, Alive
  <2>3. QED BY <2>1, <2>2, DispatchRequests
<1>3. CASE PickUnblocked
  <2>1. PICK i \in BlockedAt : Dispatch(fibers[i], {}) /\ UNCHANGED block_shutdown
    BY <1>3 DEF PickUnblocked
  <2>2. fibers[i] \in Fibers /\ state[fibers[i]] \in Alive
    BY <1>0 DEF BlockedAt, Alive
  <2>3. QED BY <2>1, <2>2, DispatchRequests
<1>4. CASE EnterKernel
  <2>1. UNCHANGED <<state, shutdown, block_shutdown>>
    BY <1>4 DEF EnterKernel
  <2>2. QED BY <2>1 DEF RInv, NoSleepPastShutdown, OverIsClean, IsAlive, Pending
<1>5. CASE Scan
  <2>1. PICK W \in SUBSET {fibers[i] : i \in BlockedAt} :
          \/ \E i \in DOMAIN fibers : /\ fibers[i] \in W \/ state[fibers[i]] \in {"READY", "ACTIVE"}
                                      /\ Dispatch(fibers[i], W)
          \/ UNCHANGED <<state, shutdown>>
    BY <1>5 DEF Scan
  <2>2. UNCHANGED block_shutdown
    BY <1>5 DEF Scan
  <2>3. \A f \in W : f \in Fibers /\ state[f] = "BLOCKED"
    BY <1>0 DEF BlockedAt
  <2>4. ASSUME NEW i \in DOMAIN fibers,
               fibers[i] \in W \/ state[fibers[i]] \in {"READY", "ACTIVE"},
               Dispatch(fibers[i], W)
        PROVE  RInv'
    <3>1. fibers[i] \in Fibers /\ state[fibers[i]] \in Alive
      BY <1>0, <2>3, <2>4 DEF Alive
    <3>2. W \in SUBSET Fibers
      BY <2>3
    <3>3. QED BY <2>2, <2>3, <2>4, <3>1, <3>2, DispatchRequests
  <2>5. CASE UNCHANGED <<state, shutdown>>
    BY <2>2, <2>5 DEF RInv, NoSleepPastShutdown, OverIsClean, IsAlive, Pending
  <2>6. QED BY <2>1, <2>4, <2>5
<1>6. QED BY <1>1, <1>2, <1>3, <1>4, <1>5 DEF Schedule

(* So does a turn of the loop in Join().                                   *)
LEMMA JoinLoopRequests ==
  ASSUME IInv, RInv, JoinLoop
  PROVE  RInv'
<1> DEFINE t == joining[active_fiber]
<1>1. mode = "run" /\ t \in Fibers
  BY DEF JoinLoop, self, IInv, TypeOK
<1>2. CASE /\ ~IsAlive(t)
           /\ state' = [state EXCEPT ![t] = "CONSTRUCTED"]
           /\ UNCHANGED <<shutdown, block_shutdown>>
  BY <1>1, <1>2 DEF RInv, NoSleepPastShutdown, OverIsClean, IsAlive, Alive, Pending, IInv, TypeOK
<1>3. CASE Wait({t})
  BY <1>1, <1>3, WaitRequests
<1>4. CASE state[t] \in {"READY", "STOPPED"} /\ SwitchInto(t)
  BY <1>1, <1>4, DispatchRequests DEF SwitchInto, Alive
<1>5. QED BY <1>2, <1>3, <1>4 DEF JoinLoop, self

(* So does every call of the program.                                      *)
LEMMA CallRequests ==
  ASSUME {"ForeignUnblock", "KillMarked"} \cap Uses = {}, IInv, RInv, ApiCall
  PROVE  RInv'
<1> USE DEF RInv, NoSleepPastShutdown, OverIsClean, IsAlive, Pending
<1>1. CASE WaitForMany
  BY <1>1, WaitRequests DEF WaitForMany, Calls
<1>2. CASE Yield
  BY <1>2 DEF Yield
<1>3. CASE Finish
  BY <1>3 DEF Finish, IInv, TypeOK, self, Alive
<1>4. ASSUME NEW t \in Fibers, SwitchTo(t) PROVE RInv'
  BY <1>4, DispatchRequests DEF SwitchTo, SwitchInto
<1>5. ASSUME NEW t \in Fibers, Start(t) \/ Resume(t) PROVE RInv'
  BY <1>5 DEF Start, Resume, IInv, TypeOK, Alive
<1>6. ASSUME NEW t \in Fibers, Stop(t) PROVE RInv'
  BY <1>6 DEF Stop, IInv, TypeOK, Alive
<1>7. ASSUME NEW t \in Fibers, Kill(t) PROVE RInv'
  <2>1. ~shutdown[t]
    BY <1>7 DEF Kill
  <2>2. state' = [state EXCEPT ![t] = "KILLED"] /\ UNCHANGED <<shutdown, block_shutdown>>
    BY <1>7 DEF Kill
  <2>3. QED BY <2>1, <2>2 DEF IInv, TypeOK
<1>8. ASSUME NEW t \in Fibers, Shutdown(t) PROVE RInv'
  BY <1>8, RequestRequests DEF Shutdown
<1>9. ASSUME NEW t \in Fibers, BlockShutdown(t) PROVE RInv'
  <2>1. \A f \in Fibers : block_shutdown'[f] = 0 => block_shutdown[f] = 0
    <3>1. \A n \in 0..MaxBlock : n + 1 # 0
      BY BlockAssumption
    <3>2. QED BY <1>9, <3>1 DEF BlockShutdown, IInv, TypeOK
  <2>2. UNCHANGED <<state, shutdown>>
    BY <1>9 DEF BlockShutdown
  <2>3. QED BY <2>1, <2>2
<1>10. ASSUME NEW t \in Fibers, UnblockShutdown(t) PROVE RInv'
  <2>1. /\ mode = "run" /\ t = active_fiber
        /\ block_shutdown' = [block_shutdown EXCEPT ![t] = @ - 1]
        /\ Throw \/ UNCHANGED <<state, shutdown>>
    BY <1>10 DEF UnblockShutdown, Calls, self
  <2>2. state[t] = "ACTIVE"
    BY <2>1 DEF IInv, OneActive
  <2>3. \A f \in Fibers : f # t => block_shutdown'[f] = block_shutdown[f]
    BY <2>1 DEF IInv, TypeOK
  <2>4. CASE Throw
    BY <2>1, <2>3, <2>4, ThrowRequests
  <2>5. CASE UNCHANGED <<state, shutdown>>
    BY <2>2, <2>3, <2>5
  <2>6. QED BY <2>1, <2>4, <2>5
<1>11. ASSUME NEW t \in Fibers, Join(t) PROVE RInv'
  BY <1>11 DEF Join
<1>12. QED
  BY <1>1, <1>2, <1>3, <1>4, <1>5, <1>6, <1>7, <1>8, <1>9, <1>10, <1>11 DEF ApiCall

(* Requests are in order in every behavior.                                *)
LEMMA RequestsInvariant ==
  ASSUME {"StopPending", "ForeignUnblock", "KillMarked"} \cap Uses = {}
  PROVE  Spec => []RInv
<1> USE DEF RInv, NoSleepPastShutdown, OverIsClean, IsAlive, Pending
<1>1. Init => RInv
  BY DEF Init
<1>2. ASSUME IInv, RInv, [Next]_vars PROVE RInv'
  <2>1. CASE Schedule
    BY <1>2, <2>1, ScheduleRequests
  <2>2. CASE KernelReturns
    <3>1. CASE RequestShutdown(Main)
      <4>1. IsAlive(Main) /\ UNCHANGED block_shutdown
        BY <1>2, <2>2 DEF IInv, MainAlive, KernelReturns
      <4>2. QED BY <1>2, <3>1, <4>1, RequestRequests, MainAssumption
    <3>2. CASE UNCHANGED <<state, shutdown, block_shutdown>>
      BY <1>2, <3>2
    <3>3. QED BY <2>2, <3>1, <3>2 DEF KernelReturns
  <2>3. CASE JoinLoop
    BY <1>2, <2>3, JoinLoopRequests
  <2>4. CASE ApiCall
    BY <1>2, <2>4, CallRequests
  <2>5. CASE Touch \/ (\E h \in Handles : Arrive(h)) \/ UNCHANGED vars
    <3>1. UNCHANGED <<state, shutdown, block_shutdown>>
      BY <2>5 DEF Touch, Arrive, vars
    <3>2. QED BY <1>2, <3>1
  <2>6. QED BY <1>2, <2>1, <2>2, <2>3, <2>4, <2>5 DEF Next
<1>3. "StopPending" \notin Uses
  OBVIOUS
<1>4. Spec => []IInv
  BY <1>3, Invariant
<1> HIDE DEF RInv
<1>5. QED BY <1>1, <1>2, <1>4, PTL DEF Spec

(* A pending shutdown that the fiber does not block never finds it waiting,*)
(* for programs that make none of the three calls that documentation and   *)
(* code disagree about.                                                    *)
THEOREM NoneSleepsPastShutdown ==
  ASSUME {"StopPending", "ForeignUnblock", "KillMarked"} \cap Uses = {}
  PROVE  Spec => []NoSleepPastShutdown
<1>1. RInv => NoSleepPastShutdown
  BY DEF RInv
<1>2. QED BY <1>1, RequestsInvariant, PTL

(* A fiber starts again without the request made to its last run, unless   *)
(* Kill() ended that run with the request pending.                         *)
THEOREM RestartIsClean ==
  ASSUME {"StopPending", "ForeignUnblock", "KillMarked"} \cap Uses = {}
  PROVE  Spec => []RestartsClean
<1>1. RInv => RestartsClean
  BY DEF RInv, OverIsClean, RestartsClean, IsAlive, Alive
<1>2. QED BY <1>1, RequestsInvariant, PTL

-----------------------------------------------------------------------------
(* Sleeping in poll()                                                      *)

(* The thread enters poll() only with nothing left to do in memory, and    *)
(* while it sleeps nothing but file descriptors changes.                   *)
THEOREM PollSleepsIdle == ASSUME "StopPending" \notin Uses PROVE Spec => []NoSleepWithWork
<1>1. Init => NoSleepWithWork
  BY DEF Init, NoSleepWithWork
<1>2. ASSUME IInv, NoSleepWithWork, [Next]_vars PROVE NoSleepWithWork'
  <2>1. CASE EnterKernel
    <3>1. \A f \in Listed : \E i \in DOMAIN fibers : fibers[i] = f
      BY <1>2 DEF IInv, Lists, Listed
    <3>2. UNCHANGED <<active_fiber, state, shutdown, blocked_by, cond>>
      BY <2>1 DEF EnterKernel
    <3>3. ASSUME NEW f \in Fibers, state[f] = "READY" PROVE f = active_fiber
      BY <2>1, <3>1, <3>3 DEF EnterKernel, ReadyOthers, Listed
    <3>4. ASSUME NEW f \in Fibers, state[f] = "BLOCKED", NEW w \in blocked_by[f]
          PROVE  ~IsReady(f, w)'
      <4>1. PICK i \in BlockedAt : fibers[i] = f /\ i \in {k \in BlockedAt : k <= Len(fibers)}
        BY <1>2, <3>1, <3>4 DEF BlockedAt, Listed, IInv, TypeOK
      <4>2. is_ready' = is_ready \ WaitedUpTo(Len(fibers)) /\ ~ReadyAfterReset(f)
        BY <2>1, <4>1 DEF EnterKernel, Reset
      <4>3. w \notin is_ready'
        BY <4>1, <4>2, <3>4 DEF WaitedUpTo
      <4>4. CASE w \in Handles
        BY <1>2, <3>2, <4>3, <4>4, KindAssumption DEF IsReady, IInv, TypeOK
      <4>5. CASE w \notin Handles
        BY <3>2, <4>2, <4>3, <4>5, <3>4 DEF ReadyAfterReset, IsReady
      <4>6. QED BY <4>4, <4>5
    <3>5. QED BY <3>2, <3>3, <3>4 DEF NoSleepWithWork, Ready
  <2>2. CASE (\E h \in Handles : Arrive(h)) \/ UNCHANGED vars
    BY <1>2, <2>2 DEF Arrive, vars, NoSleepWithWork, Ready, IsReady
  <2>3. CASE ScheduleThrows \/ PickReady \/ PickUnblocked \/ Scan \/ KernelReturns \/ JoinLoop
    BY <1>2, <2>3
       DEF ScheduleThrows, PickReady, PickUnblocked, Scan, KernelReturns, JoinLoop, Throw,
           Dispatch, Land, Wait, SwitchInto, NoSleepWithWork
  <2>4. CASE ApiCall \/ Touch
    BY <1>2, <2>4
       DEF ApiCall, WaitForMany, Yield, Finish, SwitchTo, Start, Stop, Resume, Kill, Shutdown,
           BlockShutdown, UnblockShutdown, Join, Touch, Calls, Throw, Dispatch, Land, Wait,
           SwitchInto, NoSleepWithWork
  <2>5. QED BY <1>2, <2>1, <2>2, <2>3, <2>4 DEF Next, Schedule
<1>3. QED BY <1>1, <1>2, Invariant, PTL DEF Spec

(* A request to shut down is withdrawn only where shutdown_t is thrown     *)
(* into its fiber, with no block left, or with the fiber's end.            *)
THEOREM RequestsAreDelivered ==
  ASSUME "StopPending" \notin Uses
  PROVE  Spec => ShutdownDelivered
<1> DEFINE Delivered(f) ==
      shutdown[f] /\ ~shutdown'[f] =>
        \/ mode' = "run" /\ active_fiber' = f /\ block_shutdown'[f] = 0
        \/ state'[f] \in Joinable
<1>1. ASSUME IInv, Next, NEW f \in Fibers PROVE Delivered(f)
  <2>0. shutdown \in [Fibers -> BOOLEAN] /\ active_fiber \in Fibers /\ state \in [Fibers -> States]
    BY <1>1 DEF IInv, TypeOK
  <2>1. ASSUME NEW n \in Fibers, NEW W, Dispatch(n, W), UNCHANGED block_shutdown
        PROVE  Delivered(f)
    BY <2>0, <2>1 DEF Dispatch, Land, Pending
  <2>2. ASSUME Throw, block_shutdown'[active_fiber] = 0 PROVE Delivered(f)
    BY <2>0, <2>2 DEF Throw
  <2>3. ASSUME NEW W, Wait(W) PROVE Delivered(f)
    BY <2>2, <2>3 DEF Wait, Pending
  <2>4. ASSUME NEW t \in Fibers, RequestShutdown(t) PROVE Delivered(f)
    BY <2>0, <2>4 DEF RequestShutdown
  <2>5. \A i \in DOMAIN fibers : fibers[i] \in Fibers
    BY <1>1 DEF IInv, TypeOK
  <2>6. CASE Schedule
    <3>1. CASE ScheduleThrows
      BY <3>1, <2>2 DEF ScheduleThrows, Pending
    <3>2. CASE PickReady
      BY <3>2, <2>1, <2>5 DEF PickReady, ReadyOthers
    <3>3. CASE PickUnblocked
      BY <3>3, <2>1, <2>5 DEF PickUnblocked, BlockedAt
    <3>4. CASE EnterKernel
      BY <3>4 DEF EnterKernel
    <3>5. CASE Scan
      BY <3>5, <2>1, <2>5 DEF Scan
    <3>6. QED BY <2>6, <3>1, <3>2, <3>3, <3>4, <3>5 DEF Schedule
  <2>7. CASE KernelReturns
    BY <2>7, <2>4, MainAssumption DEF KernelReturns
  <2>8. CASE JoinLoop
    BY <1>1, <2>8, <2>1, <2>3 DEF JoinLoop, SwitchInto, self, IInv, TypeOK
  <2>9. CASE ApiCall
    <3>1. CASE WaitForMany
      BY <3>1, <2>3 DEF WaitForMany
    <3>2. CASE Finish
      BY <3>2, <2>0 DEF Finish, self, Joinable
    <3>3. ASSUME NEW t \in Fibers, SwitchTo(t) PROVE Delivered(f)
      BY <3>3, <2>1 DEF SwitchTo, SwitchInto
    <3>4. ASSUME NEW t \in Fibers, Shutdown(t) PROVE Delivered(f)
      BY <3>4, <2>4 DEF Shutdown
    <3>5. ASSUME NEW t \in Fibers, UnblockShutdown(t) PROVE Delivered(f)
      <4>1. CASE UNCHANGED shutdown
        BY <4>1
      <4>2. CASE t = active_fiber /\ block_shutdown[t] = 1 /\ Throw
        <5>1. block_shutdown' = [block_shutdown EXCEPT ![t] = @ - 1]
          BY <3>5 DEF UnblockShutdown
        <5>2. block_shutdown'[active_fiber] = 0
          BY <1>1, <4>2, <5>1 DEF IInv, TypeOK
        <5>3. QED BY <4>2, <5>2, <2>2
      <4>3. QED BY <3>5, <4>1, <4>2 DEF UnblockShutdown, self
    <3>6. CASE \/ Yield
               \/ \E t \in Fibers : \/ Start(t) \/ Stop(t) \/ Resume(t) \/ Kill(t)
                                    \/ BlockShutdown(t) \/ Join(t)
      <4>1. UNCHANGED shutdown
        BY <3>6 DEF Yield, Start, Stop, Resume, Kill, BlockShutdown, Join
      <4>2. QED BY <4>1
    <3>7. QED BY <2>9, <3>1, <3>2, <3>3, <3>4, <3>5, <3>6 DEF ApiCall
  <2>10. CASE Touch \/ \E h \in Handles : Arrive(h)
    BY <2>10 DEF Touch, Arrive
  <2>11. QED BY <1>1, <2>6, <2>7, <2>8, <2>9, <2>10 DEF Next
<1>2. IInv /\ [Next]_vars => [\A f \in Fibers : Delivered(f)]_vars
  BY <1>1
<1>3. QED BY <1>2, Invariant, PTL DEF Spec, ShutdownDelivered

-----------------------------------------------------------------------------
(* Waiting                                                                 *)

(* Only a BLOCKED fiber waits for anything.                                *)
OnlyBlockedWait == \A f \in Fibers : state[f] # "BLOCKED" => blocked_by[f] = {}

(* A switch to a fiber ends the wait of that fiber and of those it wakes.  *)
LEMMA DispatchWaits ==
  ASSUME IInv, OnlyBlockedWait, NEW n \in Fibers, NEW W \in SUBSET Fibers,
         \A f \in W : state[f] = "BLOCKED", Dispatch(n, W)
  PROVE  OnlyBlockedWait'
BY DEF Dispatch, OnlyBlockedWait

(* The fibers that the third loop wakes are BLOCKED ones of this thread.   *)
LEMMA ScanWakes ==
  ASSUME IInv, Scan
  PROVE  \E W \in SUBSET Fibers :
           /\ W \subseteq {fibers[i] : i \in BlockedAt}
           /\ \A f \in W : state[f] = "BLOCKED"
           /\ IsWokenSet(W)
           /\ \E n \in Fibers : /\ n \in W \/ state[n] \in {"READY", "ACTIVE"}
                                /\ Dispatch(n, W)
<1>1. \A i \in DOMAIN fibers : fibers[i] \in Fibers
  BY DEF IInv, TypeOK
<1>2. mode' # "error"
  BY ScheduleInv DEF Schedule, IInv, KernelWaitProductive
<1>3. PICK W \in SUBSET {fibers[i] : i \in BlockedAt} :
        /\ IsWokenSet(W)
        /\ \/ \E i \in DOMAIN fibers : /\ \/ fibers[i] \in W
                                          \/ state[fibers[i]] \in {"READY", "ACTIVE"}
                                       /\ Dispatch(fibers[i], W)
           \/ mode' = "error"
  BY DEF Scan
<1>4. \A f \in W : f \in Fibers /\ state[f] = "BLOCKED"
  BY <1>1 DEF BlockedAt
<1>5. PICK i \in DOMAIN fibers : /\ fibers[i] \in W \/ state[fibers[i]] \in {"READY", "ACTIVE"}
                                 /\ Dispatch(fibers[i], W)
  BY <1>2, <1>3
<1>6. QED BY <1>1, <1>3, <1>4, <1>5

(* Nothing but Stop() leaves the set of waitables behind with a fiber that *)
(* does not wait any more.                                                 *)
LEMMA OnlyBlockedWaitHolds ==
  ASSUME {"StopPending", "StopBlocked"} \cap Uses = {}
  PROVE  Spec => []OnlyBlockedWait
<1> USE DEF OnlyBlockedWait
<1>1. Init => OnlyBlockedWait
  BY DEF Init
<1>2. ASSUME IInv, OnlyBlockedWait, [Next]_vars PROVE OnlyBlockedWait'
  <2>0. /\ state \in [Fibers -> States] /\ active_fiber \in Fibers
        /\ blocked_by \in [Fibers -> SUBSET (Waitables \cup Fibers)]
        /\ \A i \in DOMAIN fibers : fibers[i] \in Fibers
        /\ mode = "run" => state[active_fiber] = "ACTIVE"
    BY <1>2 DEF IInv, TypeOK, OneActive
  <2>1. ASSUME NEW n \in Fibers, Dispatch(n, {}) PROVE OnlyBlockedWait'
    BY <1>2, <2>1, DispatchWaits
  <2>2. ASSUME NEW W, Wait(W) PROVE OnlyBlockedWait'
    BY <1>2, <2>0, <2>2 DEF Wait, Throw
  <2>3. ASSUME NEW t \in Fibers, RequestShutdown(t) PROVE OnlyBlockedWait'
    BY <1>2, <2>0, <2>3 DEF RequestShutdown
  <2>4. CASE Schedule
    <3>1. CASE ScheduleThrows \/ EnterKernel
      BY <1>2, <3>1 DEF ScheduleThrows, Throw, EnterKernel
    <3>2. CASE PickReady \/ PickUnblocked
      BY <2>0, <2>1, <3>2 DEF PickReady, PickUnblocked, ReadyOthers, BlockedAt
    <3>3. CASE Scan
      BY <1>2, <3>3, ScanWakes, DispatchWaits
    <3>4. QED BY <2>4, <3>1, <3>2, <3>3 DEF Schedule
  <2>5. CASE KernelReturns
    BY <1>2, <2>3, <2>5, MainAssumption DEF KernelReturns
  <2>6. CASE JoinLoop
    <3>1. PICK t \in Fibers :
            \/ ~IsAlive(t) /\ state' = [state EXCEPT ![t] = "CONSTRUCTED"] /\ UNCHANGED blocked_by
            \/ Wait({t})
            \/ SwitchInto(t)
      BY <1>2, <2>6 DEF JoinLoop, self, IInv, TypeOK
    <3>2. CASE ~IsAlive(t) /\ state' = [state EXCEPT ![t] = "CONSTRUCTED"] /\ UNCHANGED blocked_by
      BY <1>2, <2>0, <3>2 DEF IsAlive, Alive
    <3>3. QED BY <2>1, <2>2, <3>1, <3>2 DEF SwitchInto
  <2>7. CASE ApiCall
    <3>1. CASE WaitForMany
      BY <2>2, <3>1 DEF WaitForMany
    <3>2. CASE Yield \/ \E t \in Fibers : BlockShutdown(t) \/ UnblockShutdown(t) \/ Join(t)
      BY <1>2, <3>2 DEF Yield, BlockShutdown, UnblockShutdown, Join, Throw
    <3>3. CASE Finish
      BY <1>2, <2>0, <3>3 DEF Finish, Calls, self
    <3>4. ASSUME NEW t \in Fibers, SwitchTo(t) PROVE OnlyBlockedWait'
      BY <2>1, <3>4 DEF SwitchTo, SwitchInto
    <3>5. ASSUME NEW t \in Fibers, Start(t) \/ Resume(t) PROVE OnlyBlockedWait'
      BY <1>2, <2>0, <3>5 DEF Start, Resume
    <3>6. ASSUME NEW t \in Fibers, Stop(t) PROVE OnlyBlockedWait'
      BY <1>2, <2>0, <3>6 DEF Stop
    <3>7. ASSUME NEW t \in Fibers, Kill(t) PROVE OnlyBlockedWait'
      BY <1>2, <2>0, <3>7 DEF Kill
    <3>8. ASSUME NEW t \in Fibers, Shutdown(t) PROVE OnlyBlockedWait'
      BY <2>3, <3>8 DEF Shutdown
    <3>9. QED
      BY <2>7, <3>1, <3>2, <3>3, <3>4, <3>5, <3>6, <3>7, <3>8 DEF ApiCall
  <2>8. CASE Touch \/ (\E h \in Handles : Arrive(h)) \/ UNCHANGED vars
    BY <1>2, <2>8 DEF Touch, Arrive, vars
  <2>9. QED BY <1>2, <2>4, <2>5, <2>6, <2>7, <2>8 DEF Next
<1>3. "StopPending" \notin Uses
  OBVIOUS
<1> HIDE DEF OnlyBlockedWait
<1>4. QED BY <1>1, <1>2, <1>3, Invariant, PTL DEF Spec

(* A wait ends only for a reason: something the fiber waits for is ready,  *)
(* a fiber it joins moved on, or its shutdown was requested.               *)
THEOREM WakingIsJustified ==
  ASSUME {"StopPending", "StopBlocked", "SwitchBlocked"} \cap Uses = {}
  PROVE  Spec => WakeJustified
<1> DEFINE Justified(f) ==
      /\ blocked_by[f] # {}
      /\ state[f] \in {"BLOCKED", "STOPPED"}
      /\ state'[f] \in {"READY", "ACTIVE"}
      => \/ Ready(f) \/ shutdown'[f]
         \/ \E t \in blocked_by[f] \cap Fibers : state'[t] # "BLOCKED"
<1>1. ASSUME IInv, OnlyBlockedWait, Next, NEW f \in Fibers, state[f] = "BLOCKED" PROVE Justified(f)
  <2>0. /\ state \in [Fibers -> States] /\ active_fiber \in Fibers
        /\ shutdown \in [Fibers -> BOOLEAN]
        /\ \A i \in DOMAIN fibers : fibers[i] \in Fibers
        /\ mode = "run" => state[active_fiber] = "ACTIVE"
    BY <1>1 DEF IInv, TypeOK, OneActive
  <2>1. ASSUME state'[f] = "BLOCKED" PROVE Justified(f)
    BY <2>1
  <2>2. ASSUME NEW n \in Fibers, Dispatch(n, {}), n # f PROVE Justified(f)
    BY <1>1, <2>2 DEF Dispatch
  <2>3. ASSUME NEW W, Wait(W) PROVE Justified(f)
    BY <1>1, <2>0, <2>1, <2>3 DEF Wait, Throw
  <2>4. ASSUME NEW t \in Fibers, RequestShutdown(t) PROVE Justified(f)
    BY <1>1, <2>0, <2>1, <2>4 DEF RequestShutdown
  <2>5. CASE Schedule
    <3>1. CASE ScheduleThrows \/ EnterKernel
      BY <1>1, <3>1 DEF ScheduleThrows, Throw, EnterKernel
    <3>2. CASE PickReady
      BY <1>1, <2>0, <2>2, <3>2 DEF PickReady, ReadyOthers
    <3>3. CASE PickUnblocked
      <4>1. PICK i \in BlockedAt : ReadyAfterReset(fibers[i]) /\ Dispatch(fibers[i], {})
        BY <3>3 DEF PickUnblocked
      <4>2. CASE fibers[i] = f
        BY <4>1, <4>2 DEF ReadyAfterReset, Ready
      <4>3. QED BY <2>0, <2>2, <4>1, <4>2 DEF BlockedAt
    <3>4. CASE Scan
      <4>1. PICK W \in SUBSET Fibers :
              /\ W \subseteq {fibers[i] : i \in BlockedAt}
              /\ IsWokenSet(W)
              /\ \E n \in Fibers : /\ n \in W \/ state[n] \in {"READY", "ACTIVE"}
                                   /\ Dispatch(n, W)
        BY <1>1, <3>4, ScanWakes
      <4>2. CASE f \in W
        <5>1. PICK i \in BlockedAt : fibers[i] = f
          BY <4>1, <4>2
        <5>2. \/ Ready(f)
              \/ \E j \in BlockedAt : fibers[j] \in W /\ fibers[j] \in blocked_by[f]
          BY <4>1, <4>2, <5>1 DEF IsWokenSet
        <5>3. \A t \in W : state'[t] # "BLOCKED"
          BY <4>1 DEF Dispatch
        <5>4. QED BY <4>1, <5>2, <5>3
      <4>3. CASE f \notin W
        BY <1>1, <4>1, <4>3 DEF Dispatch
      <4>4. QED BY <4>2, <4>3
    <3>5. QED BY <2>5, <3>1, <3>2, <3>3, <3>4 DEF Schedule
  <2>6. CASE KernelReturns
    BY <1>1, <2>4, <2>6, MainAssumption DEF KernelReturns
  <2>7. CASE JoinLoop
    <3>1. PICK t \in Fibers :
            \/ ~IsAlive(t) /\ state' = [state EXCEPT ![t] = "CONSTRUCTED"]
            \/ Wait({t})
            \/ state[t] \in {"READY", "STOPPED"} /\ SwitchInto(t)
      BY <1>1, <2>7 DEF JoinLoop, self, IInv, TypeOK
    <3>2. CASE ~IsAlive(t) /\ state' = [state EXCEPT ![t] = "CONSTRUCTED"]
      BY <1>1, <2>0, <3>2 DEF IsAlive, Alive
    <3>3. QED BY <1>1, <2>2, <2>3, <3>1, <3>2 DEF SwitchInto
  <2>8. CASE ApiCall
    <3>1. CASE WaitForMany
      BY <2>3, <3>1 DEF WaitForMany
    <3>2. CASE Yield \/ \E t \in Fibers : BlockShutdown(t) \/ UnblockShutdown(t) \/ Join(t)
      BY <1>1, <3>2 DEF Yield, BlockShutdown, UnblockShutdown, Join, Throw
    <3>3. CASE Finish
      BY <1>1, <2>0, <3>3 DEF Finish, Calls, self
    <3>4. ASSUME NEW t \in Fibers, SwitchTo(t) PROVE Justified(f)
      BY <1>1, <2>2, <3>4 DEF SwitchTo, SwitchInto
    <3>5. ASSUME NEW t \in Fibers, Start(t) \/ Resume(t) PROVE Justified(f)
      BY <1>1, <2>0, <3>5 DEF Start, Resume
    <3>6. ASSUME NEW t \in Fibers, Stop(t) \/ Kill(t) PROVE Justified(f)
      BY <1>1, <2>0, <3>6 DEF Stop, Kill
    <3>7. ASSUME NEW t \in Fibers, Shutdown(t) PROVE Justified(f)
      BY <2>4, <3>7 DEF Shutdown
    <3>8. QED
      BY <2>8, <3>1, <3>2, <3>3, <3>4, <3>5, <3>6, <3>7 DEF ApiCall
  <2>9. CASE Touch \/ \E h \in Handles : Arrive(h)
    BY <1>1, <2>9 DEF Touch, Arrive
  <2>10. QED BY <1>1, <2>5, <2>6, <2>7, <2>8, <2>9 DEF Next
<1>2. IInv /\ OnlyBlockedWait /\ [Next]_vars => [\A f \in Fibers : Justified(f)]_vars
  <2> SUFFICES ASSUME IInv, OnlyBlockedWait, Next, NEW f \in Fibers PROVE Justified(f)
    OBVIOUS
  <2>1. CASE state[f] = "BLOCKED"
    BY <1>1, <2>1
  <2>2. CASE state[f] # "BLOCKED"
    BY <2>2 DEF OnlyBlockedWait
  <2>3. QED BY <2>1, <2>2
<1>3. {"StopPending", "StopBlocked"} \cap Uses = {} /\ "StopPending" \notin Uses
  OBVIOUS
<1>4. QED BY <1>2, <1>3, Invariant, OnlyBlockedWaitHolds, PTL DEF Spec, WakeJustified

-----------------------------------------------------------------------------
(* The contract                                                            *)

(* The phase of a fiber that each of its states stands for.                *)
LEMMA Phases ==
  /\ PhaseOf["CONSTRUCTED"] = "idle" /\ PhaseOf["STOPPED"] = "parked"
  /\ PhaseOf["READY"] = "runnable" /\ PhaseOf["ACTIVE"] = "runnable"
  /\ PhaseOf["BLOCKED"] = "waiting"
  /\ \A s \in Joinable : PhaseOf[s] = "over"
BY DEF PhaseOf, States, Alive, Joinable

Phase == [f \in Fibers |-> PhaseOf[state[f]]]
Happened == cond \cup is_ready \cup {f \in Fibers : state[f] # "BLOCKED"}
Running == IF mode = "run" THEN active_fiber ELSE Null

(* The invariants that the contract rests on.                              *)
CInv == IInv /\ RInv /\ OnlyBlockedWait

(* f is woken: it stops waiting for a reason that the contract names.      *)
Wakes(f) ==
  /\ state[f] = "BLOCKED" /\ state'[f] \in {"READY", "ACTIVE"}
  /\ Ready(f) \/ shutdown'[f] \/ \E t \in blocked_by[f] \cap Fibers : state'[t] # "BLOCKED"

(* The reasons of WaitForMany are the reasons of the contract; a request   *)
(* that a fiber waits for is still there when it is woken.                 *)
LEMMA WokenForContract ==
  ASSUME CInv, CInv', NEW f \in Fibers, Wakes(f), shutdown[f] => shutdown'[f]
  PROVE  Contract!Woken(f)
<1>1. CASE shutdown'[f]
  BY <1>1 DEF Contract!Woken
<1>2. CASE Ready(f) /\ ~shutdown'[f]
  <2>1. PICK w \in blocked_by[f] : IsReady(f, w)
    BY <1>2 DEF Ready
  <2>2. w \in Happened
    BY <1>2, <2>1 DEF IsReady, Happened
  <2>3. QED BY <2>1, <2>2 DEF Contract!Woken, Happened
<1>3. CASE \E t \in blocked_by[f] \cap Fibers : state'[t] # "BLOCKED"
  BY <1>3 DEF Contract!Woken
<1>4. QED BY <1>1, <1>2, <1>3 DEF Wakes

(* What the running fiber does to another one.                             *)
Handled(f) ==
  \/ PhaseOf[state'[f]] = PhaseOf[state[f]]
  \/ state[f] \in {"CONSTRUCTED", "STOPPED"} /\ state'[f] \in {"READY", "ACTIVE"}
  \/ state[f] = "READY" /\ state'[f] = "STOPPED"
  \/ state[f] \in {"READY", "BLOCKED", "STOPPED"} /\ state'[f] \in Joinable
  \/ state[f] \in Joinable /\ state'[f] = "CONSTRUCTED"
  \/ Wakes(f) /\ shutdown'[f]

(* A step in user code that handles the others so, and hands the processor *)
(* to a fiber that can take it or to the scheduler, is one of the          *)
(* contract.                                                               *)
LEMMA ActsByContract ==
  ASSUME CInv, CInv', mode = "run",
         \A f \in Fibers \ {active_fiber} : Handled(f),
         state'[active_fiber] # "CONSTRUCTED",
         mode' = "run" => \/ active_fiber' = active_fiber
                          \/ state[active_fiber'] \in {"READY", "STOPPED"}
  PROVE  Contract!Act
<1>0. /\ state \in [Fibers -> States] /\ state' \in [Fibers -> States]
      /\ active_fiber \in Fibers /\ active_fiber' \in Fibers
      /\ mode' = "run" => state'[active_fiber'] = "ACTIVE"
  BY DEF CInv, IInv, TypeOK, OneActive
<1>1. Running = active_fiber /\ Running # Null
  BY <1>0, MainAssumption DEF Running
<1>2. \A f \in Fibers : Phase[f] = PhaseOf[state[f]] /\ Phase'[f] = PhaseOf[state'[f]]
  BY DEF Phase
<1>3. ASSUME NEW f \in Fibers \ {active_fiber} PROVE Contract!Manages(f)
  <2>1. CASE Wakes(f) /\ shutdown'[f]
    <3>1. Contract!Woken(f)
      BY <2>1, WokenForContract
    <3>2. PhaseOf[state[f]] = "waiting" /\ PhaseOf[state'[f]] = "runnable"
      BY <2>1, Phases DEF Wakes
    <3>3. QED BY <3>1, <3>2 DEF Contract!Manages, Contract!Becomes
  <2>2. CASE Handled(f) /\ ~(Wakes(f) /\ shutdown'[f])
    BY <2>2, Phases DEF Handled, Contract!Manages, Contract!Becomes
  <2>3. QED BY <2>1, <2>2
<1>4. PhaseOf[state'[active_fiber]] \in {"runnable", "waiting", "parked", "over"}
  BY <1>0, Phases DEF States, Alive
<1>5. CASE mode' = "run"
  <2>1. Running' = active_fiber' /\ Phase'[active_fiber'] = "runnable"
    BY <1>0, <1>2, <1>5, Phases DEF Running
  <2>2. active_fiber' = active_fiber \/ PhaseOf[state[active_fiber']] \in {"runnable", "parked"}
    BY <1>5, Phases
  <2>3. QED BY <1>0, <1>1, <1>2, <1>3, <1>4, <2>1, <2>2
          DEF Contract!Act, Contract!Holds, Running, Phase
<1>6. CASE mode' # "run"
  BY <1>0, <1>1, <1>2, <1>3, <1>4, <1>6 DEF Contract!Act, Contract!Holds, Running, Phase
<1>7. QED BY <1>5, <1>6

(* So is a step of the scheduler that only wakes fibers with a reason.     *)
LEMMA ChoosesByContract ==
  ASSUME CInv, CInv', mode # "run",
         \A f \in Fibers :
           \/ PhaseOf[state'[f]] = PhaseOf[state[f]]
           \/ Wakes(f) /\ (shutdown[f] => shutdown'[f])
           \/ f = Main /\ state[f] = "STOPPED" /\ state'[f] \in {"READY", "ACTIVE"} /\ shutdown'[f],
         \A f \in Fibers : shutdown'[f] => shutdown[f] \/ f = Main
  PROVE  Contract!Choose
<1>0. /\ state \in [Fibers -> States] /\ state' \in [Fibers -> States]
      /\ active_fiber' \in Fibers
      /\ mode' = "run" => state'[active_fiber'] = "ACTIVE"
  BY DEF CInv, IInv, TypeOK, OneActive
<1>1. ASSUME NEW f \in Fibers
      PROVE  \/ PhaseOf[state'[f]] = PhaseOf[state[f]]
             \/ Contract!Becomes(f, {"waiting"}, "runnable") /\ Contract!Woken(f)
             \/ f = Main /\ Contract!Becomes(f, {"parked"}, "runnable") /\ shutdown'[f]
  <2>1. CASE Wakes(f) /\ (shutdown[f] => shutdown'[f])
    BY <2>1, WokenForContract, Phases DEF Wakes, Contract!Becomes
  <2>2. CASE f = Main /\ state[f] = "STOPPED" /\ state'[f] \in {"READY", "ACTIVE"} /\ shutdown'[f]
    BY <2>2, Phases DEF Contract!Becomes
  <2>3. QED BY <2>1, <2>2
<1>2. Contract!Holds(Running')
  BY <1>0, Phases DEF Contract!Holds, Running
<1>3. QED BY <1>1, <1>2 DEF Contract!Choose, Running

(* A step that touches neither the processor nor phases, requests or waits *)
(* is the world changing around the thread.                                *)
LEMMA HappensByContract ==
  ASSUME UNCHANGED <<Running, state, shutdown, blocked_by>>
  PROVE  Contract!Happens
<1>1. UNCHANGED Phase
  BY DEF Phase
<1>2. QED BY <1>1 DEF Contract!Happens, Running, Phase

(* A fiber that is given the processor out of Schedule had none of its     *)
(* waitables served by a request that is thrown into it on the way.        *)
LEMMA DispatchChooses ==
  ASSUME CInv, CInv', mode # "run", NEW n \in Fibers, NEW W \in SUBSET Fibers,
         Dispatch(n, W), UNCHANGED block_shutdown,
         \A f \in W : Wakes(f),
         state[n] \in {"READY", "ACTIVE"} \/ Wakes(n)
  PROVE  Contract!Choose
<1>0. /\ shutdown \in [Fibers -> BOOLEAN] /\ active_fiber \in Fibers
      /\ \A f \in Fibers : state[f] = "BLOCKED" => ~Pending(f)
  BY DEF CInv, IInv, TypeOK, RInv, NoSleepPastShutdown
<1>1. shutdown' = [shutdown EXCEPT ![n] = @ /\ ~(n \notin fresh /\ Pending(n))]
  BY DEF Dispatch, Land
<1>2. \A f \in Fibers : shutdown'[f] => shutdown[f]
  BY <1>0, <1>1
<1>3. \A f \in Fibers : state[f] = "BLOCKED" /\ shutdown[f] => shutdown'[f]
  BY <1>0, <1>1
<1>4. \A f \in Fibers : state'[f] = IF f = n THEN "ACTIVE"
         ELSE IF f \in W \/ (f = active_fiber /\ state[f] = "ACTIVE") THEN "READY"
         ELSE state[f]
  BY DEF Dispatch
<1>5. \A f \in Fibers : \/ PhaseOf[state'[f]] = PhaseOf[state[f]]
                        \/ Wakes(f) /\ (shutdown[f] => shutdown'[f])
  BY <1>3, <1>4, Phases DEF Wakes
<1>6. QED BY <1>2, <1>5, ChoosesByContract

(* A request to shut down wakes a BLOCKED fiber and resumes a stopped one. *)
LEMMA RequestHandles ==
  ASSUME CInv, NEW t \in Fibers, IsAlive(t), RequestShutdown(t)
  PROVE  /\ \A f \in Fibers \ {t} : state'[f] = state[f] /\ shutdown'[f] = shutdown[f]
         /\ shutdown'[t] /\ state'[t] \in {"READY", "ACTIVE"}
         /\ \/ PhaseOf[state'[t]] = PhaseOf[state[t]]
            \/ state[t] = "STOPPED"
            \/ Wakes(t)
<1>1. /\ shutdown \in [Fibers -> BOOLEAN] /\ state \in [Fibers -> States]
  BY DEF CInv, IInv, TypeOK
<1>2. /\ \A f \in Fibers \ {t} : state'[f] = state[f] /\ shutdown'[f] = shutdown[f]
      /\ shutdown'[t] /\ state'[t] \in {"READY", "ACTIVE"}
  BY <1>1 DEF RequestShutdown
<1>3. state[t] \in {"READY", "ACTIVE", "STOPPED", "BLOCKED"}
  BY DEF IsAlive, Alive
<1>4. QED BY <1>2, <1>3, Phases DEF Wakes

(* Schedule() keeps the contract.                                          *)
LEMMA ScheduleKeeps ==
  ASSUME CInv, CInv', Schedule
  PROVE  Contract!Next
<1>0. /\ state \in [Fibers -> States] /\ active_fiber \in Fibers
      /\ \A i \in DOMAIN fibers : fibers[i] \in Fibers
      /\ shutdown \in [Fibers -> BOOLEAN]
  BY DEF CInv, IInv, TypeOK
<1>1. CASE ScheduleThrows
  <2>1. mode # "run" /\ UNCHANGED state
    BY <1>1 DEF ScheduleThrows, Throw
  <2>2. \A f \in Fibers : shutdown'[f] => shutdown[f]
    BY <1>0, <1>1 DEF ScheduleThrows, Throw
  <2>3. QED BY <2>1, <2>2, ChoosesByContract DEF Contract!Next
<1>2. CASE PickReady
  <2>1. PICK i \in ReadyOthers : Dispatch(fibers[i], {})
    BY <1>2 DEF PickReady
  <2>2. mode # "run" /\ UNCHANGED block_shutdown
    BY <1>2 DEF PickReady, Scheduling
  <2>3. QED BY <1>0, <2>1, <2>2, DispatchChooses DEF ReadyOthers, Contract!Next
<1>3. CASE PickUnblocked
  <2>1. PICK i \in BlockedAt : ReadyAfterReset(fibers[i]) /\ Dispatch(fibers[i], {})
    BY <1>3 DEF PickUnblocked
  <2>2. mode # "run" /\ UNCHANGED block_shutdown
    BY <1>3 DEF PickUnblocked, Scheduling
  <2>3. fibers[i] \in Fibers /\ state[fibers[i]] = "BLOCKED" /\ Ready(fibers[i])
    BY <1>0, <2>1 DEF BlockedAt, ReadyAfterReset, Ready
  <2>4. Wakes(fibers[i])
    BY <2>1, <2>3 DEF Wakes, Dispatch
  <2>5. QED BY <2>1, <2>2, <2>3, <2>4, DispatchChooses DEF Contract!Next
<1>4. CASE EnterKernel
  <2>1. UNCHANGED <<Running, state, shutdown, blocked_by>>
    BY <1>4 DEF EnterKernel, Scheduling, Running
  <2>2. QED BY <2>1, HappensByContract DEF Contract!Next
<1>5. CASE Scan
  <2>1. PICK W \in SUBSET Fibers :
          /\ W \subseteq {fibers[i] : i \in BlockedAt}
          /\ \A f \in W : state[f] = "BLOCKED"
          /\ IsWokenSet(W)
          /\ \E n \in Fibers : /\ n \in W \/ state[n] \in {"READY", "ACTIVE"}
                               /\ Dispatch(n, W)
    BY <1>5, ScanWakes DEF CInv
  <2>2. PICK n \in Fibers : (n \in W \/ state[n] \in {"READY", "ACTIVE"}) /\ Dispatch(n, W)
    BY <2>1
  <2>3. \A f \in W : state'[f] \in {"READY", "ACTIVE"}
    BY <2>2 DEF Dispatch
  <2>4. ASSUME NEW f \in W PROVE Wakes(f)
    <3>1. PICK i \in BlockedAt : fibers[i] = f
      BY <2>1
    <3>2. Ready(f) \/ \E j \in BlockedAt : fibers[j] \in W /\ fibers[j] \in blocked_by[f]
      BY <2>1, <3>1 DEF IsWokenSet
    <3>3. \A t \in W : t \in Fibers /\ state'[t] # "BLOCKED"
      BY <2>3
    <3>4. QED BY <2>1, <2>3, <3>2, <3>3 DEF Wakes
  <2>5. mode # "run" /\ UNCHANGED block_shutdown
    BY <1>5 DEF Scan
  <2>6. QED BY <2>2, <2>4, <2>5, DispatchChooses DEF Contract!Next
<1>6. QED BY <1>1, <1>2, <1>3, <1>4, <1>5 DEF Schedule

(* WaitForMany keeps the contract, called by the program or by Join().     *)
LEMMA WaitKeeps ==
  ASSUME CInv, CInv', mode = "run", NEW W, Wait(W)
  PROVE  Contract!Next
<1>1. state \in [Fibers -> States] /\ state[active_fiber] = "ACTIVE" /\ active_fiber \in Fibers
  BY DEF CInv, IInv, TypeOK, OneActive
<1>2. /\ \A f \in Fibers \ {active_fiber} : state'[f] = state[f]
      /\ state'[active_fiber] \in {"ACTIVE", "BLOCKED"}
      /\ active_fiber' = active_fiber
  BY <1>1 DEF Wait, Throw
<1>3. QED BY <1>2, ActsByContract DEF Handled, Contract!Next

(* So does SwitchTo to a fiber that is not waiting.                        *)
LEMMA SwitchKeeps ==
  ASSUME CInv, CInv', mode = "run", NEW t \in Fibers, SwitchInto(t),
         state[t] \in {"READY", "STOPPED"}
  PROVE  Contract!Next
<1>1. state[active_fiber] = "ACTIVE" /\ active_fiber \in Fibers
  BY DEF CInv, IInv, TypeOK, OneActive
<1>2. /\ \A f \in Fibers : state'[f] = IF f = t THEN "ACTIVE"
           ELSE IF f = active_fiber /\ state[f] = "ACTIVE" THEN "READY" ELSE state[f]
      /\ active_fiber' = t
  BY DEF SwitchInto, Dispatch, Land
<1>3. Handled(t) /\ \A f \in Fibers \ {active_fiber, t} : Handled(f)
  BY <1>2, Phases DEF Handled
<1>4. QED BY <1>1, <1>2, <1>3, ActsByContract DEF Contract!Next

(* So does a turn of the loop in Join().                                   *)
LEMMA JoinLoopKeeps ==
  ASSUME CInv, CInv', JoinLoop
  PROVE  Contract!Next
<1>0. mode = "run" /\ state \in [Fibers -> States] /\ state[active_fiber] = "ACTIVE"
  BY DEF CInv, IInv, TypeOK, OneActive, JoinLoop
<1>1. PICK t \in Fibers :
        \/ /\ ~IsAlive(t) /\ state' = [state EXCEPT ![t] = "CONSTRUCTED"]
           /\ UNCHANGED <<mode, active_fiber>>
        \/ Wait({t})
        \/ state[t] \in {"READY", "STOPPED"} /\ SwitchInto(t)
  BY DEF JoinLoop, self, CInv, IInv, TypeOK
<1>2. CASE /\ ~IsAlive(t) /\ state' = [state EXCEPT ![t] = "CONSTRUCTED"]
           /\ UNCHANGED <<mode, active_fiber>>
  <2>1. /\ \A f \in Fibers \ {t} : state'[f] = state[f]
        /\ state[t] \in Joinable \cup {"CONSTRUCTED"} /\ state'[t] = "CONSTRUCTED"
        /\ t # active_fiber
    BY <1>0, <1>2 DEF States, IsAlive, Alive
  <2>2. \A f \in Fibers \ {active_fiber} : Handled(f)
    BY <2>1 DEF Handled
  <2>3. state'[active_fiber] # "CONSTRUCTED"
    BY <1>0, <2>1 DEF CInv, IInv, TypeOK
  <2>4. QED BY <1>0, <1>2, <2>2, <2>3, ActsByContract DEF Contract!Next
<1>3. QED BY <1>0, <1>1, <1>2, WaitKeeps, SwitchKeeps

(* So does every call of the program.                                      *)
LEMMA CallKeeps ==
  ASSUME {"StopBlocked", "SwitchBlocked"} \cap Uses = {}, CInv, CInv', ApiCall
  PROVE  Contract!Next
<1>0. /\ mode = "run" /\ state \in [Fibers -> States]
      /\ active_fiber \in Fibers /\ state[active_fiber] = "ACTIVE"
      /\ \A f \in Fibers : state[f] = "ACTIVE" => f = active_fiber
  <2>1. mode = "run"
    BY DEF ApiCall, WaitForMany, Yield, Finish, SwitchTo, Start, Stop, Resume, Kill, Shutdown,
           BlockShutdown, UnblockShutdown, Join, Calls
  <2>2. QED BY <2>1 DEF CInv, IInv, TypeOK, OneActive
<1>1. ASSUME NEW t \in Fibers, \A f \in Fibers \ {t} : state'[f] = state[f],
             t # active_fiber => Handled(t),
             state'[active_fiber] # "CONSTRUCTED", active_fiber' = active_fiber
      PROVE  Contract!Next
  <2>1. \A f \in Fibers \ {active_fiber} : Handled(f)
    BY <1>1 DEF Handled
  <2>2. QED BY <1>0, <1>1, <2>1, ActsByContract DEF Contract!Next
<1>2. CASE WaitForMany
  BY <1>0, <1>2, WaitKeeps DEF WaitForMany
<1>3. CASE Yield
  BY <1>0, <1>1, <1>3 DEF Yield
<1>4. CASE Finish
  BY <1>0, <1>1, <1>4 DEF Finish, self
<1>5. ASSUME NEW t \in Fibers, SwitchTo(t) PROVE Contract!Next
  BY <1>0, <1>5, SwitchKeeps DEF SwitchTo, IsAlive, Alive, self
<1>6. ASSUME NEW t \in Fibers, Start(t) \/ Resume(t) PROVE Contract!Next
  <2>1. /\ state[t] \in {"CONSTRUCTED", "STOPPED"}
        /\ state' = [state EXCEPT ![t] = "READY"] /\ active_fiber' = active_fiber
    BY <1>6 DEF Start, Resume
  <2>2. Handled(t) /\ state'[active_fiber] # "CONSTRUCTED"
    BY <1>0, <2>1 DEF Handled
  <2>3. QED BY <1>0, <1>1, <2>1, <2>2
<1>7. ASSUME NEW t \in Fibers, Stop(t) PROVE Contract!Next
  <2>1. /\ state[t] \in {"READY", "ACTIVE", "STOPPED"}
        /\ state' = [state EXCEPT ![t] = "STOPPED"] /\ active_fiber' = active_fiber
    BY <1>0, <1>7 DEF Stop, IsAlive, Alive
  <2>2. t # active_fiber => Handled(t)
    BY <1>0, <2>1 DEF Handled
  <2>3. QED BY <1>0, <1>1, <2>1, <2>2
<1>8. ASSUME NEW t \in Fibers, Kill(t) PROVE Contract!Next
  <2>1. /\ state[t] \in {"READY", "BLOCKED", "STOPPED"} /\ t # active_fiber
        /\ state' = [state EXCEPT ![t] = "KILLED"] /\ active_fiber' = active_fiber
    BY <1>8 DEF Kill, self
  <2>2. Handled(t)
    BY <1>0, <2>1 DEF Handled, Joinable
  <2>3. QED BY <1>0, <1>1, <2>1, <2>2
<1>9. ASSUME NEW t \in Fibers, Shutdown(t) PROVE Contract!Next
  <2>1. /\ \A f \in Fibers \ {t} : state'[f] = state[f]
        /\ shutdown'[t] /\ state'[t] \in {"READY", "ACTIVE"}
        /\ \/ PhaseOf[state'[t]] = PhaseOf[state[t]]
           \/ state[t] = "STOPPED"
           \/ Wakes(t)
        /\ active_fiber' = active_fiber
    BY <1>9, RequestHandles DEF Shutdown
  <2>2. Handled(t)
    BY <2>1 DEF Handled
  <2>3. QED BY <1>0, <1>1, <2>1, <2>2
<1>10. ASSUME NEW t \in Fibers, BlockShutdown(t) \/ UnblockShutdown(t) \/ Join(t)
       PROVE  Contract!Next
  <2>1. UNCHANGED <<state, active_fiber>>
    BY <1>10 DEF BlockShutdown, UnblockShutdown, Throw, Join
  <2>2. QED BY <1>0, <1>1, <2>1
<1>11. QED
  BY <1>2, <1>3, <1>4, <1>5, <1>6, <1>7, <1>8, <1>9, <1>10 DEF ApiCall

(* Every step of the thread is one of the contract, or touches nothing the *)
(* contract speaks of.                                                     *)
LEMMA StepsKeepContract ==
  ASSUME {"StopBlocked", "SwitchBlocked"} \cap Uses = {}, CInv, CInv', [Next]_vars
  PROVE  [Contract!Next]_(Contract!vars)
<1>1. CASE KernelReturns
  <2>1. mode # "run" /\ mode' # "run"
    BY <1>1 DEF KernelReturns
  <2>2. CASE UNCHANGED <<state, blocked_by, shutdown>>
    BY <2>1, <2>2, HappensByContract DEF Contract!Next, Running
  <2>3. CASE RequestShutdown(Main)
    <3>1. IsAlive(Main)
      BY DEF CInv, IInv, MainAlive, IsAlive
    <3>2. QED BY <2>1, <2>3, <3>1, RequestHandles, ChoosesByContract, MainAssumption
            DEF Contract!Next
  <2>4. QED BY <1>1, <2>2, <2>3 DEF KernelReturns
<1>2. CASE Touch \/ \E h \in Handles : Arrive(h)
  <2>1. UNCHANGED <<Running, state, shutdown, blocked_by>>
    BY <1>2 DEF Touch, Arrive, Running
  <2>2. QED BY <2>1, HappensByContract DEF Contract!Next
<1>3. CASE UNCHANGED vars
  <2>1. UNCHANGED <<Running, state, shutdown, blocked_by, cond, is_ready>>
    BY <1>3 DEF vars, Running
  <2>2. UNCHANGED <<Phase, Happened>>
    BY <2>1 DEF Phase, Happened
  <2>3. QED BY <2>1, <2>2, HappensByContract DEF Contract!Next
<1>4. QED
  BY <1>1, <1>2, <1>3, ScheduleKeeps, JoinLoopKeeps, CallKeeps DEF Next

(* The thread keeps the promises of CooperativeThread for every number of  *)
(* fibers and every program that makes only the calls whose effect is as   *)
(* documented.                                                             *)
THEOREM ThreadKeepsContract ==
  ASSUME {"StopPending", "StopBlocked", "SwitchBlocked", "ForeignUnblock", "KillMarked"}
           \cap Uses = {}
  PROVE  Spec => KeepsContract
<1>1. Init => Contract!Init
  <2> SUFFICES ASSUME Init PROVE Contract!Init
    OBVIOUS
  <2>1. Phase = [f \in Fibers |-> IF f = Main THEN "runnable" ELSE "idle"]
    BY Phases DEF Init, Phase
  <2>2. QED BY <2>1 DEF Init, Contract!Init, Phase
<1>2. CInv /\ CInv' /\ [Next]_vars => [Contract!Next]_(Contract!vars)
  BY StepsKeepContract
<1>3. Spec => []CInv
  <2>1. "StopPending" \notin Uses /\ {"StopPending", "StopBlocked"} \cap Uses = {}
        /\ {"StopPending", "ForeignUnblock", "KillMarked"} \cap Uses = {}
    OBVIOUS
  <2>2. QED BY <2>1, Invariant, RequestsInvariant, OnlyBlockedWaitHolds, PTL DEF CInv
<1>4. QED BY <1>1, <1>2, <1>3, PTL DEF Spec, KeepsContract, Contract!Spec

=============================================================================
