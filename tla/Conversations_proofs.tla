------------------------- MODULE Conversations_proofs -------------------------
(***************************************************************************)
(* Proofs about the conversations below a program's streams: Process, for  *)
(* any programs, pipes and input; Tls, for any amount of data, any size of *)
(* the buffer and any room in the connection; OneWire, for any sensors     *)
(* that share a bus, uuids of any length and any devices to be found; and  *)
(* GCode, for any program, of any length, and wherever the machine starts. *)
(***************************************************************************)
EXTENDS Process, Tls, OneWire, GCode, SequenceTheorems, FiniteSetTheorems, TLAPS

-----------------------------------------------------------------------------
(* TProcess::ExecuteWithStatus: where its fiber is says what is left. *)

FiberStates == {"none", "runs", "done", "threw", "shut down"}
Places == {"watch", "join", "collect", "timeout", "reap", "cleanup", "unwind", "destroy", "returned", "threw", "gone"}
Unwound == {"unwind", "destroy", "gone"}

Types ==
    /\ call.pipes \in [Streams -> BOOLEAN]
    /\ proc \in {"runs", "stopped", "zombie", "reaped"} /\ main \in Places
    /\ pipe \in [Streams -> Int] /\ moved \in [Streams -> Int] /\ printed \in [Streams -> Int]
    /\ fiber \in [Streams -> FiberStates]

(* Where the calling fiber is says whether the child may be left, and a    *)
(* child that has ended has said how.                                      *)
ChildKept ==
    /\ main \in {"collect", "cleanup", "returned", "threw", "gone"} => proc = "reaped"
    /\ main \in {"watch", "join", "timeout", "reap", "destroy"} => proc # "reaped"
    /\ main = "join" => proc = "zombie"
    /\ ~Alive => status \in {call.program.code, "killed"}

(* Each stream of the call has its fiber, which ends with all there is to  *)
(* move unless it throws or is shut down; only who unwinds shuts it down.  *)
FibersKept ==
    \A s \in Streams :
      /\ fiber[s] = "none" <=> ~call.pipes[s]
      /\ fiber[s] = "shut down" => main \in Unwound
      /\ main \in Unwound \cup {"returned", "threw"} => Finished(s)
OutputKept ==
    \A s \in Outputs :
      /\ fiber[s] # "threw" /\ pipe[s] >= 0 /\ pipe[s] + moved[s] = printed[s]
      /\ fiber[s] = "done" => pipe[s] = 0 /\ ~Alive
InputKept ==
    /\ fiber[Stdin] = "done" => moved[Stdin] = Input
    /\ main = "returned" => fiber[Stdin] # "threw"

ProcessInv == Types /\ ChildKept /\ FibersKept /\ OutputKept /\ InputKept

-----------------------------------------------------------------------------
(* The child and the fibers of the pipes                                   *)

(* Nothing moves, and no fiber changes.                                    *)
LEMMA PipesKept ==
  ASSUME ProcessInv, UNCHANGED <<call, pipe, open, fiber, moved, printed>>, ~Alive => ~Alive',
         main' \in Unwound => main \in Unwound \/ (\A s \in Streams : Finished(s)),
         main \in Unwound => main' \in Unwound,
         main' \in {"returned", "threw"} => \A s \in Streams : Finished(s),
         main' = "returned" => fiber[Stdin] # "threw"
  PROVE  FibersKept' /\ OutputKept' /\ InputKept'
<1>1. FibersKept'
  BY DEF ProcessInv, FibersKept, Finished
<1>2. OutputKept'
  BY DEF ProcessInv, OutputKept
<1>3. InputKept'
  BY DEF ProcessInv, InputKept
<1>4. QED BY <1>1, <1>2, <1>3

LEMMA ChildKeeps ==
  ASSUME ProcessInv, Child \/ ChildStops \/ Time
  PROVE  ProcessInv'
<1> USE DEF ProcessInv, Types
<1>1. CASE ChildReads
  <2>1. Types' /\ pipe' \in [Streams -> Int] /\ \A s \in Outputs : pipe'[s] = pipe[s]
    BY <1>1 DEF ChildReads, Streams, Stdin, Outputs, Moves
  <2>2. UNCHANGED <<call, proc, status, fiber, moved, printed, main>>
    BY <1>1 DEF ChildReads
  <2>3. ChildKept'
    BY <2>2 DEF ChildKept, Alive
  <2>4. FibersKept' /\ InputKept'
    BY <2>2 DEF FibersKept, InputKept, Finished
  <2>5. OutputKept'
    BY <2>1, <2>2 DEF OutputKept, Alive
  <2>6. QED BY <2>1, <2>3, <2>4, <2>5
<1>2. ASSUME NEW s \in Outputs, ChildPrints(s) PROVE ProcessInv'
  <2>1. s \in Streams /\ proc = "runs" /\ UNCHANGED <<call, open, fiber, moved, main>>
    BY <1>2 DEF ChildPrints, Streams
  <2>2. \/ UNCHANGED <<proc, status, pipe, printed>>
        \/ /\ pipe' = [pipe EXCEPT ![s] = @ + 1] /\ printed' = [printed EXCEPT ![s] = @ + 1]
           /\ UNCHANGED <<proc, status>>
        \/ proc' = "zombie" /\ status' = "killed" /\ UNCHANGED <<pipe, printed>>
    BY <1>2 DEF ChildPrints, Ends
  <2>3. /\ pipe' \in [Streams -> Int] /\ printed' \in [Streams -> Int]
        /\ \A t \in Streams : \/ pipe'[t] = pipe[t] /\ printed'[t] = printed[t]
                              \/ pipe'[t] = pipe[t] + 1 /\ printed'[t] = printed[t] + 1
    BY <2>1, <2>2
  <2>4. Types'
    BY <2>1, <2>2, <2>3
  <2>5. ChildKept'
    BY <2>1, <2>2 DEF ChildKept, Alive
  <2>6. FibersKept' /\ InputKept'
    BY <2>1 DEF FibersKept, InputKept, Finished
  <2>7. OutputKept'
    BY <2>1, <2>3 DEF OutputKept, Alive, Streams
  <2>8. QED BY <2>4, <2>5, <2>6, <2>7
<1>3. CASE ChildExits \/ ChildStops \/ Time
  <2>1. /\ UNCHANGED <<call, pipe, open, fiber, moved, printed, main>>
        /\ \/ proc = "runs" /\ proc' = "zombie" /\ status' = call.program.code
           \/ proc = "runs" /\ proc' = "stopped" /\ status' = status
           \/ UNCHANGED <<proc, status>>
    BY <1>3 DEF ChildExits, ChildStops, Time, Ends
  <2>2. Types'
    BY <2>1
  <2>3. ChildKept' /\ (~Alive => ~Alive')
    BY <2>1 DEF ChildKept, Alive
  <2>4. FibersKept' /\ OutputKept' /\ InputKept'
    BY <2>1, <2>3, PipesKept DEF FibersKept, InputKept, Finished
  <2>5. QED BY <2>2, <2>3, <2>4
<1>4. QED BY <1>1, <1>2, <1>3 DEF Child

LEMMA FeedKeeps ==
  ASSUME ProcessInv, Feed
  PROVE  ProcessInv'
<1> USE DEF ProcessInv, Types
<1>1. fiber[Stdin] = "runs" /\ UNCHANGED <<call, proc, status, printed, main>>
  BY DEF Feed
<1>2. /\ pipe' \in [Streams -> Int] /\ moved' \in [Streams -> Int] /\ fiber' \in [Streams -> FiberStates]
      /\ \A s \in Outputs : pipe'[s] = pipe[s] /\ moved'[s] = moved[s] /\ fiber'[s] = fiber[s]
  <2>1. Stdin \in Streams /\ Stdin \notin Outputs /\ Outputs \subseteq Streams
    BY DEF Streams, Stdin, Outputs
  <2>2. \/ \E x \in {"done", "threw"} : fiber' = [fiber EXCEPT ![Stdin] = x] /\ UNCHANGED <<pipe, moved>>
        \/ /\ pipe' = [pipe EXCEPT ![Stdin] = @ + 1] /\ moved' = [moved EXCEPT ![Stdin] = @ + 1]
           /\ UNCHANGED fiber
    BY DEF Feed
  <2>3. \A x \in {"done", "threw"} : x \in FiberStates
    BY DEF FiberStates
  <2>4. QED BY <2>1, <2>2, <2>3
<1>3. fiber'[Stdin] \in {"runs", "done", "threw"} /\ (fiber'[Stdin] = "done" => moved'[Stdin] = Input)
  BY DEF Feed, Streams, Stdin
<1>4. Types'
  BY <1>1, <1>2
<1>5. ChildKept'
  BY <1>1 DEF ChildKept, Alive
<1>6. Streams = {Stdin} \cup Outputs /\ Stdin \in Streams
  BY DEF Streams
<1>7. main \notin Unwound \cup {"returned", "threw"}
  BY <1>1, <1>6 DEF FibersKept, Finished
<1>8. FibersKept'
  BY <1>1, <1>2, <1>3, <1>6, <1>7 DEF FibersKept, Finished
<1>9. OutputKept'
  BY <1>1, <1>2 DEF OutputKept, Alive
<1>10. InputKept'
  BY <1>1, <1>3, <1>7 DEF InputKept
<1>11. QED BY <1>4, <1>5, <1>8, <1>9, <1>10

LEMMA DrainKeeps ==
  ASSUME ProcessInv, NEW s \in Outputs, Drain(s)
  PROVE  ProcessInv'
<1> USE DEF ProcessInv, Types
<1>1. fiber[s] = "runs" /\ UNCHANGED <<call, proc, status, printed, main>> /\ s \in Streams /\ s # Stdin
  BY DEF Drain, Streams, Outputs, Stdin
<1>2. \/ /\ pipe[s] > 0 /\ pipe' = [pipe EXCEPT ![s] = @ - 1] /\ moved' = [moved EXCEPT ![s] = @ + 1]
         /\ UNCHANGED <<fiber, open>>
      \/ /\ pipe[s] = 0 /\ ~Alive /\ fiber' = [fiber EXCEPT ![s] = "done"]
         /\ open' = [open EXCEPT ![s] = FALSE] /\ UNCHANGED <<pipe, moved>>
  BY DEF Drain, Ended
<1>3. Types'
  <2>1. pipe' \in [Streams -> Int] /\ moved' \in [Streams -> Int]
    BY <1>1, <1>2
  <2>2. fiber' \in [Streams -> FiberStates]
    BY <1>1, <1>2 DEF FiberStates
  <2>3. QED BY <1>1, <2>1, <2>2
<1>4. /\ \A t \in Streams \ {s} : pipe'[t] = pipe[t] /\ moved'[t] = moved[t] /\ fiber'[t] = fiber[t]
      /\ fiber'[s] \in {"runs", "done"}
      /\ fiber'[s] = "done" => pipe'[s] = 0 /\ ~Alive
      /\ pipe'[s] >= 0 /\ pipe'[s] + moved'[s] = pipe[s] + moved[s]
  BY <1>1, <1>2 DEF OutputKept
<1>5. ChildKept'
  BY <1>1 DEF ChildKept, Alive
<1>6. main \notin Unwound \cup {"returned", "threw"}
  BY <1>1 DEF FibersKept, Finished
<1>7. FibersKept'
  BY <1>1, <1>4, <1>6 DEF FibersKept, Finished
<1>8. OutputKept'
  BY <1>1, <1>4 DEF OutputKept, Alive, Streams
<1>9. InputKept'
  BY <1>1, <1>4 DEF InputKept, Streams
<1>10. QED BY <1>3, <1>5, <1>7, <1>8, <1>9

-----------------------------------------------------------------------------
(* The calling fiber                                                       *)

(* SIGTERM ends a child that heeds it, or does nothing yet.                *)
LEMMA ShutdownIs ==
  ASSUME NEW to, ShutdownProcess(to)
  PROVE  main' = to /\ (UNCHANGED <<proc, status>> \/ (proc = "runs" /\ proc' = "zombie" /\ status' = "killed"))
  BY DEF ShutdownProcess, GoesTo, Ends

LEMMA JoinIs ==
  ASSUME NEW from, NEW to, Join(from, to)
  PROVE  /\ main = from /\ UNCHANGED <<call, pipe, open, fiber, moved, printed>>
         /\ \/ proc = "zombie" /\ proc' = "reaped" /\ main' = to /\ status' = status
            \/ proc = "stopped" /\ proc' = "runs" /\ main' = main /\ status' = status
            \/ proc = "stopped" /\ proc' = "zombie" /\ main' = main /\ status' = "killed"
  BY DEF Join, Resume, Ends, GoesTo, Rest

LEMMA WatchKeeps ==
  ASSUME ProcessInv, Watch \/ TimedOut \/ Cleanup \/ Collect("collect")
  PROVE  ProcessInv'
<1>1. /\ UNCHANGED <<call, pipe, open, fiber, moved, printed>>
      /\ \/ main = "watch" /\ proc = "zombie" /\ main' = "join" /\ UNCHANGED <<proc, status>>
         \/ main = "watch" /\ main' = "timeout" /\ UNCHANGED <<proc, status>>
         \/ /\ main = "timeout" /\ main' = "reap"
            /\ UNCHANGED <<proc, status>> \/ (proc = "runs" /\ proc' = "zombie" /\ status' = "killed")
         \/ main = "cleanup" /\ main' = "threw" /\ UNCHANGED <<proc, status>> /\ \A s \in Streams : Finished(s)
         \/ main = "collect" /\ main' = "cleanup" /\ UNCHANGED <<proc, status>>
         \/ /\ main = "collect" /\ main' = "returned" /\ UNCHANGED <<proc, status>>
            /\ fiber[Stdin] # "threw" /\ Finished(Stdin) /\ \A s \in Outputs : Finished(s)
  BY ShutdownIs DEF Watch, TimedOut, Cleanup, Collect, GoesTo, Rest, Outputs
<1>2. Types'
  BY <1>1 DEF ProcessInv, Types, Places
<1>3. ChildKept' /\ (~Alive => ~Alive')
  BY <1>1 DEF ProcessInv, ChildKept, Alive
<1>4. main \notin Unwound /\ main' \notin Unwound
  BY <1>1 DEF Unwound
<1>5. main' \in {"returned", "threw"} => \A s \in Streams : Finished(s)
  BY <1>1 DEF Streams
<1>6. main' = "returned" => fiber[Stdin] # "threw"
  BY <1>1
<1>7. FibersKept' /\ OutputKept' /\ InputKept'
  BY <1>1, <1>3, <1>4, <1>5, <1>6, PipesKept
<1>8. QED BY <1>2, <1>3, <1>7 DEF ProcessInv

LEMMA JoinKeeps ==
  ASSUME ProcessInv, Join("join", "collect") \/ Join("reap", "cleanup") \/ Join("destroy", "gone")
  PROVE  ProcessInv'
<1>1. /\ UNCHANGED <<call, pipe, open, fiber, moved, printed>>
      /\ \/ main = "join" /\ main' \in {"join", "collect"} /\ (main' = "collect" => proc' = "reaped")
         \/ main = "reap" /\ main' \in {"reap", "cleanup"} /\ (main' = "cleanup" => proc' = "reaped")
         \/ main = "destroy" /\ main' \in {"destroy", "gone"} /\ (main' = "gone" => proc' = "reaped")
      /\ \/ proc = "zombie" /\ proc' = "reaped" /\ status' = status /\ main' # main
         \/ main' = main /\ proc = "stopped" /\ proc' = "runs"
         \/ main' = main /\ proc = "stopped" /\ proc' = "zombie" /\ status' = "killed"
  BY JoinIs
<1>2. Types'
  BY <1>1 DEF ProcessInv, Types, Places
<1>3. ChildKept' /\ (~Alive => ~Alive')
  BY <1>1 DEF ProcessInv, ChildKept, Alive
<1>4. main \in Unwound <=> main' \in Unwound
  BY <1>1 DEF Unwound
<1>5. main' \notin {"returned", "threw"}
  BY <1>1
<1>6. FibersKept' /\ OutputKept' /\ InputKept'
  BY <1>1, <1>3, <1>4, <1>5, PipesKept
<1>7. QED BY <1>2, <1>3, <1>6 DEF ProcessInv

LEMMA UnwindKeeps ==
  ASSUME ProcessInv, Unwind
  PROVE  ProcessInv'
<1> USE DEF ProcessInv
<1>1. /\ main \in {"watch", "reap", "collect", "cleanup"} /\ main' = "unwind"
      /\ UNCHANGED <<call, proc, status, pipe, open, moved, printed>>
  BY DEF Unwind, GoesTo
<1>2. fiber' = [s \in Streams |-> IF fiber[s] = "runs" THEN "shut down" ELSE fiber[s]]
  BY DEF Unwind
<1>3. \A s \in Streams : \/ fiber[s] = "runs" /\ fiber'[s] = "shut down"
                         \/ fiber[s] # "runs" /\ fiber'[s] = fiber[s]
  BY <1>2
<1>4. Types'
  BY <1>1, <1>2 DEF Types, Places, FiberStates
<1>5. ChildKept'
  BY <1>1 DEF ChildKept, Alive
<1>6. FibersKept'
  BY <1>1, <1>3 DEF FibersKept, Finished, Unwound
<1>7. OutputKept'
  BY <1>1, <1>3 DEF OutputKept, Alive, Streams
<1>8. InputKept'
  BY <1>1, <1>3 DEF InputKept, Streams
<1>9. QED BY <1>4, <1>5, <1>6, <1>7, <1>8

LEMMA DestroyKeeps ==
  ASSUME ProcessInv, Destroy
  PROVE  ProcessInv'
<1>1. /\ UNCHANGED <<call, pipe, open, fiber, moved, printed>> /\ main = "unwind"
      /\ \/ proc = "reaped" /\ main' = "gone" /\ UNCHANGED <<proc, status>>
         \/ /\ proc # "reaped" /\ main' = "destroy"
            /\ UNCHANGED <<proc, status>> \/ (proc = "runs" /\ proc' = "zombie" /\ status' = "killed")
  BY ShutdownIs DEF Destroy, GoesTo, Rest
<1>2. Types'
  BY <1>1 DEF ProcessInv, Types, Places
<1>3. ChildKept' /\ (~Alive => ~Alive')
  BY <1>1 DEF ProcessInv, ChildKept, Alive
<1>4. main \in Unwound /\ main' \in Unwound /\ main' \notin {"returned", "threw"}
  BY <1>1 DEF Unwound
<1>5. FibersKept' /\ OutputKept' /\ InputKept'
  BY <1>1, <1>3, <1>4, PipesKept
<1>6. QED BY <1>2, <1>3, <1>5 DEF ProcessInv

-----------------------------------------------------------------------------
(* The specification                                                       *)

LEMMA Initially == ProcessInit => ProcessInv
<1> SUFFICES ASSUME ProcessInit PROVE ProcessInv
  OBVIOUS
<1>1. /\ call.pipes \in [Streams -> BOOLEAN] /\ open = call.pipes
      /\ proc = "runs" /\ main = "watch" /\ pipe = [s \in Streams |-> 0]
      /\ moved = [s \in Streams |-> 0] /\ printed = [s \in Streams |-> 0]
  BY DEF ProcessInit
<1>2. fiber = [s \in Streams |-> IF call.pipes[s] THEN "runs" ELSE "none"]
  BY DEF ProcessInit
<1>3. Types
  BY <1>1, <1>2 DEF Types, Places, FiberStates
<1>4. ChildKept
  BY <1>1 DEF ChildKept, Alive
<1>5. FibersKept
  BY <1>1, <1>2 DEF FibersKept, Unwound
<1>6. OutputKept
  BY <1>1, <1>2 DEF OutputKept, Streams
<1>7. InputKept
  BY <1>1, <1>2 DEF InputKept, Streams
<1>8. QED BY <1>3, <1>4, <1>5, <1>6, <1>7 DEF ProcessInv

LEMMA StepKeeps == ProcessInv /\ [ProcessNext]_processVars => ProcessInv'
<1> SUFFICES ASSUME ProcessInv, [ProcessNext]_processVars PROVE ProcessInv'
  OBVIOUS
<1>1. CASE UNCHANGED processVars
  BY <1>1 DEF processVars, ProcessInv, Types, ChildKept, FibersKept, OutputKept, InputKept, Alive, Finished
<1>2. CASE Main
  BY <1>2, WatchKeeps, JoinKeeps, DestroyKeeps DEF Main
<1>3. QED BY <1>1, <1>2, ChildKeeps, FeedKeeps, DrainKeeps, UnwindKeeps DEF ProcessNext

(* For any programs, pipes and input: what a call knows of its child, where*)
(* it is and how it ended, and that its fibers keep count of all that the  *)
(* child printed.                                                          *)
THEOREM ProcessInvariant == ProcessSpec => []ProcessInv
  BY Initially, StepKeeps, PTL DEF ProcessSpec

(* For any programs, pipes and input: a call that returns has all its child*)
(* printed and how it ended, and however it ends, no child and no fiber    *)
(* is left.                                                                *)
THEOREM CommandsAreDone == ProcessSpec => []CommandDone
<1>1. ProcessInv => CommandDone
  <2> SUFFICES ASSUME ProcessInv PROVE CommandDone
    OBVIOUS
  <2>1. main \in {"returned", "threw", "gone"} => proc = "reaped" /\ \A s \in Streams : Finished(s)
    BY DEF ProcessInv, ChildKept, FibersKept, Unwound
  <2>2. ASSUME main = "returned"
        PROVE  /\ \A s \in Outputs : call.pipes[s] => moved[s] = printed[s]
               /\ call.pipes[Stdin] => moved[Stdin] = Input
               /\ status \in {call.program.code, "killed"}
    <3>1. \A s \in Streams : call.pipes[s] => fiber[s] \in {"done", "threw"}
      BY <2>1, <2>2 DEF ProcessInv, Types, FibersKept, Finished, FiberStates, Unwound
    <3>2. \A s \in Outputs : call.pipes[s] => moved[s] = printed[s]
      BY <3>1 DEF ProcessInv, Types, OutputKept, Streams
    <3>3. call.pipes[Stdin] => moved[Stdin] = Input
      BY <2>2, <3>1 DEF ProcessInv, InputKept, Streams
    <3>4. status \in {call.program.code, "killed"}
      BY <2>1, <2>2 DEF ProcessInv, ChildKept, Alive
    <3>5. QED BY <3>2, <3>3, <3>4
  <2>3. QED BY <2>1, <2>2 DEF CommandDone
<1>2. QED BY <1>1, ProcessInvariant, PTL

-----------------------------------------------------------------------------
Server == Peer(Client)
TwoEnds ==
    /\ Side = {Client, Server} /\ Server # Client /\ Peer(Server) = Client
    /\ Items \in Nat /\ BufferSize \in Nat \ {0} /\ Room \in Nat

Results == {"ok", "INPUT", "OUTPUT", "error", "end"}
Records == [type : {"hello", "data", "close"}, items : Seq(Nat)]
WriterPlaces == {"negotiate", "write", "later", "flush", "asked", "close", "done", "failed", "gone"}
TlsStreams == [buffer : Seq(Nat), input : Results, output : Results,
            input_closed : BOOLEAN, output_closed : BOOLEAN, closed : BOOLEAN]
TlsTypes ==
    /\ flight \in [Side -> 1..Negotiated] /\ pending \in [Side -> Seq(Nat)] /\ wire \in [Side -> Seq(Records)]
    /\ fin \in [Side -> BOOLEAN] /\ data \in [Side -> TlsStreams]
    /\ writer \in [Side -> WriterPlaces] /\ reader \in [Side -> {"read", "done", "failed"}]
    /\ accepted \in [Side -> Seq(Nat)] /\ received \in [Side -> Seq(Nat)]

-----------------------------------------------------------------------------
(* The items are numbers in order; what is on its way is cut into records. *)

\* The items from a + 1 on.
Counts(x, a) == x \in Seq(Nat) /\ \A i \in 1..Len(x) : x[i] = a + i
Holds(r, a, b) == IF r.type = "data" THEN a < b /\ Len(r.items) = b - a /\ Counts(r.items, a) ELSE a = b
\* The records w hold what comes after the first a items, up to the first b.
Cuts(w, a, b, cut) ==
    /\ cut \in [0..Len(w) -> Nat] /\ cut[0] = a /\ cut[Len(w)] = b /\ \A i \in 0..Len(w) : cut[i] <= b
    /\ \A i \in 1..Len(w) : Holds(w[i], cut[i - 1], cut[i])
Chain(w, a, b) == \E cut \in [0..Len(w) -> Nat] : Cuts(w, a, b, cut)

Plain(w) == \A i \in 1..Len(w) : w[i].type # "hello"
Closes(w) == \E i \in 1..Len(w) : w[i].type = "close"
ClosedLast(w) == \A i \in 1..Len(w) : w[i].type = "close" => i = Len(w)

\* How far the ends have got with the handshake, and what of it is on its way.
Shake(client, server, up, down) ==
    \/ client = 1 /\ server = 1 /\ up = <<>> /\ down = <<>>
    \/ client = 2 /\ server = 1 /\ up = <<Hello>> /\ down = <<>>
    \/ client = 2 /\ server = 2 /\ up = <<>> /\ down = <<>>
    \/ client = 2 /\ server = 3 /\ up = <<>> /\ down = <<Hello>>
    \/ client = 3 /\ server = 3 /\ up = <<>> /\ down = <<>>
    \/ client = 4 /\ server = 3 /\ up # <<>> /\ Head(up) = Hello /\ Plain(Tail(up)) /\ down = <<>>
    \/ client = 4 /\ server = 4 /\ Plain(up) /\ Plain(down)
Shaken(f, w) == Shake(f[Client], f[Server], w[Client], w[Server])

\* The connection: what the end x sends is beyond its first from[x] items and
\* up to to[x], and only an end in ends has sent its last record.
Sound(w, a, b, x, ends) == Chain(w, a, b) /\ ClosedLast(w) /\ (Closes(w) => x \in ends)
Connected(f, w, from, to, ends) ==
    /\ f \in [Side -> 1..Negotiated] /\ w \in [Side -> Seq(Records)] /\ Shaken(f, w)
    /\ \A x \in Side : Sound(w[x], from[x], to[x], x, ends)

-----------------------------------------------------------------------------
(* Lemmas about sequences of items and of records                          *)

LEMMA CountsJoined ==
  ASSUME NEW x, NEW y, NEW a \in Nat, Counts(x, a), Counts(y, a + Len(x))
  PROVE  Counts(x \o y, a) /\ Len(x \o y) = Len(x) + Len(y)
<1>1. x \in Seq(Nat) /\ y \in Seq(Nat)
  BY DEF Counts
<1>2. x \o y \in Seq(Nat) /\ Len(x \o y) = Len(x) + Len(y) /\ Len(x) \in Nat /\ Len(y) \in Nat
  BY <1>1
<1>3. \A i \in 1..Len(x \o y) : (x \o y)[i] = a + i
  <2> SUFFICES ASSUME NEW i \in 1..Len(x \o y) PROVE (x \o y)[i] = a + i
    OBVIOUS
  <2>1. CASE i <= Len(x)
    BY <1>1, <1>2, <2>1 DEF Counts
  <2>2. CASE i > Len(x)
    <3>1. (x \o y)[i] = y[i - Len(x)] /\ i - Len(x) \in 1..Len(y)
      BY <1>1, <1>2, <2>2
    <3>2. y[i - Len(x)] = a + Len(x) + (i - Len(x))
      BY <3>1 DEF Counts
    <3>3. QED BY <1>2, <3>1, <3>2
  <2>3. QED BY <1>2, <2>1, <2>2
<1>4. QED BY <1>2, <1>3 DEF Counts

LEMMA CountsAppended ==
  ASSUME NEW x, Counts(x, 0)
  PROVE  Counts(Append(x, Len(x) + 1), 0) /\ Len(Append(x, Len(x) + 1)) = Len(x) + 1
<1>1. x \in Seq(Nat) /\ Len(x) \in Nat
  BY DEF Counts
<1>2. Append(x, Len(x) + 1) \in Seq(Nat)
  BY <1>1
<1>3. QED BY <1>1, <1>2 DEF Counts

LEMMA CountsTaken ==
  ASSUME NEW x, NEW a \in Nat, Counts(x, a), x # <<>>
  PROVE  Head(x) = a + 1 /\ Counts(Tail(x), a + 1) /\ Len(Tail(x)) = Len(x) - 1 /\ Len(x) \in Nat \ {0}
<1>1. x \in Seq(Nat) /\ Len(x) \in Nat \ {0}
  BY DEF Counts
<1>2. Tail(x) \in Seq(Nat) /\ Len(Tail(x)) = Len(x) - 1
  BY <1>1
<1>3. \A i \in 1..Len(Tail(x)) : Tail(x)[i] = x[i + 1] /\ i + 1 \in 1..Len(x)
  BY <1>1, <1>2
<1>4. \A i \in 1..Len(Tail(x)) : Tail(x)[i] = (a + 1) + i
  BY <1>1, <1>2, <1>3 DEF Counts
<1>5. Head(x) = a + 1
  BY <1>1 DEF Counts
<1>6. QED BY <1>1, <1>2, <1>4, <1>5 DEF Counts

\* A record is sent.
LEMMA ChainAppended ==
  ASSUME NEW w \in Seq(Records), NEW a, NEW b, NEW r \in Records, NEW c \in Nat, Chain(w, a, b), Holds(r, b, c)
  PROVE  Chain(Append(w, r), a, c)
<1> DEFINE v == Append(w, r)
<1>1. PICK cut \in [0..Len(w) -> Nat] : Cuts(w, a, b, cut)
  BY DEF Chain
<1>2. v \in Seq(Records) /\ Len(v) = Len(w) + 1 /\ Len(w) \in Nat /\ v[Len(w) + 1] = r
      /\ \A i \in 1..Len(w) : v[i] = w[i]
  OBVIOUS
<1> HIDE DEF v
<1> DEFINE more == [i \in 0..Len(v) |-> IF i <= Len(w) THEN cut[i] ELSE c]
<1>3. more \in [0..Len(v) -> Nat] /\ more[Len(v)] = c
  BY <1>2
<1>4. \A i \in 0..Len(w) : more[i] = cut[i]
  BY <1>2
<1> HIDE DEF more
<1>5. \A i \in 1..Len(v) : Holds(v[i], more[i - 1], more[i])
  <2> SUFFICES ASSUME NEW i \in 1..Len(v) PROVE Holds(v[i], more[i - 1], more[i])
    OBVIOUS
  <2>1. CASE i \in 1..Len(w)
    <3>1. i - 1 \in 0..Len(w) /\ i \in 0..Len(w)
      BY <1>2, <2>1
    <3>2. Holds(w[i], cut[i - 1], cut[i])
      BY <1>1, <2>1 DEF Cuts
    <3>3. QED BY <1>2, <1>4, <2>1, <3>1, <3>2
  <2>2. CASE i = Len(w) + 1
    <3>1. more[i - 1] = b
      <4>1. i - 1 = Len(w) /\ Len(w) \in 0..Len(w)
        BY <1>2, <2>2
      <4>2. cut[Len(w)] = b
        BY <1>1 DEF Cuts
      <4>3. QED BY <1>4, <4>1, <4>2
    <3>2. more[i] = c /\ v[i] = r
      BY <1>2, <1>3, <2>2
    <3>3. QED BY <3>1, <3>2
  <2>3. QED BY <1>2, <2>1, <2>2
<1>6. more[0] = a
  BY <1>1, <1>2, <1>4 DEF Cuts
<1>7. \A i \in 0..Len(v) : more[i] <= c
  <2>1. b \in Nat /\ b <= c
    <3>1. b \in Nat
      BY <1>1, <1>2 DEF Cuts
    <3>2. QED BY <3>1 DEF Holds
  <2>2. \A i \in 0..Len(w) : cut[i] <= b /\ cut[i] \in Nat
    BY <1>1 DEF Cuts
  <2>3. \A i \in 0..Len(w) : more[i] <= c
    BY <1>4, <2>1, <2>2
  <2>4. \A i \in 0..Len(v) : i \in 0..Len(w) \/ i = Len(v)
    BY <1>2
  <2>5. QED BY <1>3, <2>3, <2>4
<1>8. Cuts(v, a, c, more)
  BY <1>3, <1>5, <1>6, <1>7 DEF Cuts
<1>9. QED BY <1>3, <1>8 DEF Chain, v

\* A record is taken: what it holds comes first.
LEMMA ChainTaken ==
  ASSUME NEW w \in Seq(Records), NEW a \in Nat, NEW b, Chain(w, a, b), w # <<>>
  PROVE  \E c \in Nat : Holds(Head(w), a, c) /\ Chain(Tail(w), c, b)
<1> DEFINE v == Tail(w)
<1>1. PICK cut \in [0..Len(w) -> Nat] : Cuts(w, a, b, cut)
  BY DEF Chain
<1>2. v \in Seq(Records) /\ Len(v) = Len(w) - 1 /\ Len(v) \in Nat /\ Head(w) = w[1] /\ 1 \in 1..Len(w)
      /\ \A i \in 1..Len(v) : v[i] = w[i + 1]
  OBVIOUS
<1> HIDE DEF v
<1> DEFINE rest == [i \in 0..Len(v) |-> cut[i + 1]]
<1>3. rest \in [0..Len(v) -> Nat]
  BY <1>2
<1>4. \A i \in 0..Len(v) : rest[i] = cut[i + 1]
  OBVIOUS
<1> HIDE DEF rest
<1>5. Holds(Head(w), a, cut[1]) /\ cut[1] \in Nat
  BY <1>1, <1>2 DEF Cuts
<1>6. \A i \in 1..Len(v) : Holds(v[i], rest[i - 1], rest[i])
  <2> SUFFICES ASSUME NEW i \in 1..Len(v) PROVE Holds(v[i], rest[i - 1], rest[i])
    OBVIOUS
  <2>1. rest[i - 1] = cut[i] /\ rest[i] = cut[i + 1]
    <3>1. i - 1 \in 0..Len(v) /\ i \in 0..Len(v) /\ (i - 1) + 1 = i
      BY <1>2
    <3>2. QED BY <1>4, <3>1
  <2>2. i + 1 \in 1..Len(w) /\ (i + 1) - 1 = i
    BY <1>2
  <2>3. Holds(w[i + 1], cut[i], cut[i + 1])
    BY <1>1, <2>2 DEF Cuts
  <2>4. QED BY <1>2, <2>1, <2>3
<1>7. rest[0] = cut[1] /\ rest[Len(v)] = b
  <2>1. 0 \in 0..Len(v) /\ Len(v) \in 0..Len(v) /\ Len(v) + 1 = Len(w)
    BY <1>2
  <2>2. QED BY <1>1, <1>4, <2>1 DEF Cuts
<1>8. \A i \in 0..Len(v) : rest[i] <= b
  <2>1. \A i \in 0..Len(v) : i + 1 \in 0..Len(w)
    BY <1>2
  <2>2. QED BY <1>1, <1>4, <2>1 DEF Cuts
<1>9. Cuts(v, cut[1], b, rest)
  BY <1>3, <1>6, <1>7, <1>8 DEF Cuts
<1>10. QED BY <1>3, <1>5, <1>9 DEF Chain, v

LEMMA ChainOrdered ==
  ASSUME NEW w \in Seq(Records), NEW a, NEW b, Chain(w, a, b)
  PROVE  a <= b
<1>1. 0 \in 0..Len(w)
  OBVIOUS
<1>2. QED BY <1>1 DEF Chain, Cuts

LEMMA NothingHeld ==
  ASSUME NEW a, NEW b, Chain(<<>>, a, b)
  PROVE  a = b
BY DEF Chain, Cuts

LEMMA SoundAppended ==
  ASSUME NEW w \in Seq(Records), NEW a, NEW b, NEW r \in Records, NEW c \in Nat, NEW x, NEW ends,
         Sound(w, a, b, x, ends), Holds(r, b, c), ~Closes(w), r.type = "close" => x \in ends
  PROVE  Sound(Append(w, r), a, c, x, ends)
<1>1. Chain(Append(w, r), a, c)
  BY ChainAppended DEF Sound
<1>2. Len(Append(w, r)) = Len(w) + 1 /\ Len(w) \in Nat /\ Append(w, r)[Len(w) + 1] = r
      /\ \A i \in 1..Len(w) : Append(w, r)[i] = w[i]
  OBVIOUS
<1>3. \A i \in 1..Len(Append(w, r)) : Append(w, r)[i].type = "close" => i = Len(w) + 1 /\ r.type = "close"
  BY <1>2 DEF Closes
<1>4. QED BY <1>1, <1>2, <1>3 DEF Sound, ClosedLast, Closes

LEMMA SoundTaken ==
  ASSUME NEW w \in Seq(Records), NEW a \in Nat, NEW b, NEW x, NEW ends, Sound(w, a, b, x, ends), w # <<>>
  PROVE  /\ \E c \in Nat : Holds(Head(w), a, c) /\ Sound(Tail(w), c, b, x, ends)
         /\ Head(w) \in Records
         /\ Head(w).type = "close" => Tail(w) = <<>> /\ x \in ends
<1> DEFINE v == Tail(w)
           n == Len(w)
<1>1. PICK c \in Nat : Holds(Head(w), a, c) /\ Chain(v, c, b)
  BY ChainTaken DEF Sound
<1>2. v \in Seq(Records) /\ Len(v) = n - 1 /\ n \in Nat /\ n # 0 /\ Head(w) = w[1] /\ w[1] \in Records
      /\ \A i \in 1..Len(v) : v[i] = w[i + 1]
  OBVIOUS
<1>3. \A i \in 1..n : w[i].type = "close" => i = n /\ x \in ends
  BY DEF Sound, ClosedLast, Closes
<1> HIDE DEF v, n
<1>4. n = 1 => v = <<>>
  BY <1>2
<1>5. ClosedLast(v) /\ (Closes(v) => x \in ends)
  <2>1. \A i \in 1..Len(v) : i + 1 \in 1..n /\ v[i].type = w[i + 1].type
    BY <1>2
  <2>2. \A i \in 1..Len(v) : v[i].type = "close" => i + 1 = n /\ x \in ends
    BY <1>3, <2>1
  <2>3. \A i \in 1..Len(v) : i + 1 = n => i = Len(v)
    BY <1>2
  <2>4. QED BY <2>2, <2>3 DEF ClosedLast, Closes
<1>6. Head(w).type = "close" => v = <<>> /\ x \in ends
  <2>1. 1 \in 1..n
    BY <1>2
  <2>2. QED BY <1>2, <1>3, <1>4, <2>1
<1>7. Sound(v, c, b, x, ends)
  BY <1>1, <1>5 DEF Sound
<1>8. QED BY <1>1, <1>2, <1>6, <1>7 DEF v

-----------------------------------------------------------------------------
(* The handshake                                                           *)

Calls == [result : Results, flight : 1..Negotiated, wire : [Side -> Seq(Records)]]

LEMMA Turns ==
  ASSUME TwoEnds
  PROVE  /\ \A k \in 1..3 : Sends(Client, k) <=> k \in {1, 3}
         /\ \A k \in 1..3 : Sends(Server, k) <=> k = 2
<1>1. 1 % 2 = 1 /\ 2 % 2 = 0 /\ 3 % 2 = 1
  OBVIOUS
<1>2. \A k \in 1..3 : k = 1 \/ k = 2 \/ k = 3
  OBVIOUS
<1>3. QED BY <1>1, <1>2 DEF Sends, TwoEnds

\* Who sends a flight has nothing on its way.
LEMMA FlightSent ==
  ASSUME TwoEnds, NEW s \in Side, NEW f \in [Side -> 1..Negotiated], NEW w \in [Side -> Seq(Records)],
         Shaken(f, w), f[s] # Negotiated, Sends(s, f[s])
  PROVE  w[s] = <<>> /\ Shaken([f EXCEPT ![s] = @ + 1], [w EXCEPT ![s] = Append(@, Hello)])
<1>1. f[s] \in 1..3
  BY DEF Negotiated, Flights
<1>2. Append(<<>>, Hello) = <<Hello>> /\ Head(<<Hello>>) = Hello /\ Tail(<<Hello>>) = <<>> /\ <<Hello>> # <<>>
  OBVIOUS
<1>3. Plain(<<>>)
  BY DEF Plain
<1>4. CASE s = Client
  <2>1. f[Client] \in {1, 3}
    BY <1>1, <1>4, Turns
  <2>2. w[Client] = <<>> /\ w[Server] = <<>> /\ f[Server] = f[Client]
    BY <2>1 DEF Shaken, Shake
  <2>3. [f EXCEPT ![s] = @ + 1][Client] = f[Client] + 1 /\ [f EXCEPT ![s] = @ + 1][Server] = f[Server]
    BY <1>4 DEF TwoEnds
  <2>4. [w EXCEPT ![s] = Append(@, Hello)][Client] = <<Hello>> /\ [w EXCEPT ![s] = Append(@, Hello)][Server] = <<>>
    BY <1>2, <1>4, <2>2 DEF TwoEnds
  <2>5. Shake(f[Client] + 1, f[Server], <<Hello>>, <<>>)
    BY <1>2, <1>3, <2>1, <2>2 DEF Shake
  <2>6. QED BY <1>4, <2>2, <2>3, <2>4, <2>5 DEF Shaken
<1>5. CASE s = Server
  <2>1. f[Server] = 2
    BY <1>1, <1>5, Turns
  <2>2. w[Client] = <<>> /\ w[Server] = <<>> /\ f[Client] = 2
    BY <2>1 DEF Shaken, Shake
  <2>3. [f EXCEPT ![s] = @ + 1][Client] = 2 /\ [f EXCEPT ![s] = @ + 1][Server] = 3
    BY <1>5, <2>1, <2>2 DEF TwoEnds
  <2>4. [w EXCEPT ![s] = Append(@, Hello)][Client] = <<>> /\ [w EXCEPT ![s] = Append(@, Hello)][Server] = <<Hello>>
    BY <1>2, <1>5, <2>2 DEF TwoEnds
  <2>5. Shake(2, 3, <<>>, <<Hello>>)
    BY DEF Shake
  <2>6. QED BY <1>5, <2>2, <2>3, <2>4, <2>5 DEF Shaken
<1>6. QED BY <1>4, <1>5 DEF TwoEnds

\* Who waits for a flight takes no record that is not one.
LEMMA FlightTaken ==
  ASSUME TwoEnds, NEW s \in Side, NEW f \in [Side -> 1..Negotiated], NEW w \in [Side -> Seq(Records)],
         Shaken(f, w), f[s] # Negotiated, ~Sends(s, f[s]), w[Peer(s)] # <<>>
  PROVE  Head(w[Peer(s)]) = Hello /\ Shaken([f EXCEPT ![s] = @ + 1], [w EXCEPT ![Peer(s)] = Tail(@)])
<1>1. f[s] \in 1..3
  BY DEF Negotiated, Flights
<1>2. Head(<<Hello>>) = Hello /\ Tail(<<Hello>>) = <<>>
  OBVIOUS
<1>3. CASE s = Client
  <2>1. f[Client] = 2 /\ w[Server] # <<>> /\ Peer(s) = Server
    BY <1>1, <1>3, Turns DEF Server
  <2>2. w[Client] = <<>> /\ w[Server] = <<Hello>> /\ f[Server] = 3
    BY <2>1 DEF Shaken, Shake
  <2>3. [f EXCEPT ![s] = @ + 1][Client] = 3 /\ [f EXCEPT ![s] = @ + 1][Server] = 3
    BY <1>3, <2>1, <2>2 DEF TwoEnds
  <2>4. [w EXCEPT ![Peer(s)] = Tail(@)][Client] = <<>> /\ [w EXCEPT ![Peer(s)] = Tail(@)][Server] = <<>>
    BY <1>2, <1>3, <2>1, <2>2 DEF TwoEnds
  <2>5. Shake(3, 3, <<>>, <<>>)
    BY DEF Shake
  <2>6. QED BY <1>2, <2>1, <2>2, <2>3, <2>4, <2>5 DEF Shaken
<1>4. CASE s = Server
  <2>1. f[Server] \in {1, 3} /\ w[Client] # <<>> /\ Peer(s) = Client
    BY <1>1, <1>4, Turns DEF TwoEnds
  <2>2. [f EXCEPT ![s] = @ + 1][Client] = f[Client] /\ [f EXCEPT ![s] = @ + 1][Server] = f[Server] + 1
    BY <1>4 DEF TwoEnds
  <2>3. [w EXCEPT ![Peer(s)] = Tail(@)][Client] = Tail(w[Client]) /\ [w EXCEPT ![Peer(s)] = Tail(@)][Server] = w[Server]
    BY <1>4, <2>1 DEF TwoEnds
  <2>4. CASE f[Server] = 1
    <3>1. f[Client] = 2 /\ w[Client] = <<Hello>> /\ w[Server] = <<>>
      BY <2>1, <2>4 DEF Shaken, Shake
    <3>2. Shake(f[Client], f[Server] + 1, Tail(w[Client]), w[Server])
      BY <1>2, <2>4, <3>1 DEF Shake
    <3>3. QED BY <1>2, <2>1, <2>2, <2>3, <3>1, <3>2 DEF Shaken
  <2>5. CASE f[Server] = 3
    <3>1. f[Client] = 4 /\ Head(w[Client]) = Hello /\ Plain(Tail(w[Client])) /\ w[Server] = <<>>
      BY <2>1, <2>5 DEF Shaken, Shake
    <3>2. Plain(w[Server])
      BY <3>1 DEF Plain
    <3>3. Shake(f[Client], f[Server] + 1, Tail(w[Client]), w[Server])
      BY <2>5, <3>1, <3>2 DEF Shake
    <3>4. QED BY <2>1, <2>2, <2>3, <3>1, <3>3 DEF Shaken
  <2>6. QED BY <2>1, <2>4, <2>5
<1>5. QED BY <1>3, <1>4 DEF TwoEnds

Further(h, v) == [h EXCEPT !.flight = @ + 1, !.wire = v]
LEMMA CallChanged ==
  ASSUME NEW h \in Calls, h.flight + 1 \in 1..Negotiated, NEW v \in [Side -> Seq(Records)]
  PROVE  /\ Further(h, v) \in Calls
         /\ Further(h, v).flight = h.flight + 1 /\ Further(h, v).wire = v /\ Further(h, v).result = h.result
BY DEF Calls, Further

\* One flight more, or none.
Refused(h, g) == g.result # "ok" /\ g.flight = h.flight /\ g.wire = h.wire
LEMMA Advances ==
  ASSUME TwoEnds, TlsTypes, NEW s \in Side, NEW h \in Calls
  PROVE  /\ Advance(s, h) \in Calls
         /\ \/ Advance(s, h) = h /\ (h.result # "ok" \/ h.flight = Negotiated)
            \/ Refused(h, Advance(s, h))
            \/ /\ h.flight # Negotiated /\ Sends(s, h.flight)
               /\ Advance(s, h) = Further(h, [h.wire EXCEPT ![s] = Append(@, Hello)])
            \/ /\ h.flight # Negotiated /\ ~Sends(s, h.flight) /\ h.wire[Peer(s)] # <<>>
               /\ Advance(s, h) = Further(h, [h.wire EXCEPT ![Peer(s)] = Tail(@)])
<1>1. Hello \in Records /\ Peer(s) \in Side
  BY DEF Hello, Record, Records, TwoEnds, Server
<1>2. h.wire[s] \in Seq(Records) /\ h.wire[Peer(s)] \in Seq(Records) /\ h.flight \in 1..4
  BY <1>1 DEF Calls, Negotiated, Flights
<1>3. Append(h.wire[s], Hello) \in Seq(Records)
  BY <1>1, <1>2
<1>4. h.wire[Peer(s)] # <<>> => Tail(h.wire[Peer(s)]) \in Seq(Records)
  BY <1>2
<1>5. CASE h.result # "ok" \/ h.flight = Negotiated
  BY <1>5 DEF Advance
<1>6. CASE h.result = "ok" /\ h.flight # Negotiated /\ Sends(s, h.flight)
  <2>1. h.flight + 1 \in 1..Negotiated
    BY <1>2, <1>6 DEF Negotiated, Flights
  <2>2. CASE fin[Peer(s)] /\ data[Peer(s)].closed
    BY <1>6, <2>2 DEF Advance, Refused, Calls, Results
  <2>3. CASE ~(fin[Peer(s)] /\ data[Peer(s)].closed) /\ Len(h.wire[s]) = Room
    BY <1>6, <2>3 DEF Advance, Refused, Calls, Results
  <2>4. CASE ~(fin[Peer(s)] /\ data[Peer(s)].closed) /\ Len(h.wire[s]) # Room
    <3>1. Advance(s, h) = Further(h, [h.wire EXCEPT ![s] = Append(@, Hello)])
      BY <1>6, <2>4 DEF Advance, Further, Calls
    <3>a. [h.wire EXCEPT ![s] = Append(@, Hello)] \in [Side -> Seq(Records)]
      BY <1>3 DEF Calls
    <3>2. Advance(s, h) \in Calls
      BY <2>1, <3>1, <3>a, CallChanged
    <3>3. QED BY <1>6, <3>1, <3>2
  <2>5. QED BY <2>2, <2>3, <2>4
<1>7. CASE h.result = "ok" /\ h.flight # Negotiated /\ ~Sends(s, h.flight)
  <2>1. h.flight + 1 \in 1..Negotiated
    BY <1>2, <1>7 DEF Negotiated, Flights
  <2>2. CASE h.wire[Peer(s)] # <<>>
    <3>1. Advance(s, h) = Further(h, [h.wire EXCEPT ![Peer(s)] = Tail(@)])
      BY <1>7, <2>2 DEF Advance, Further, Calls
    <3>a. [h.wire EXCEPT ![Peer(s)] = Tail(@)] \in [Side -> Seq(Records)]
      BY <1>1, <1>4, <2>2 DEF Calls
    <3>2. Advance(s, h) \in Calls
      BY <2>1, <3>1, <3>a, CallChanged
    <3>3. QED BY <1>7, <2>2, <3>1, <3>2
  <2>3. CASE h.wire[Peer(s)] = <<>>
    BY <1>7, <2>3 DEF Advance, Refused, Calls, Results
  <2>4. QED BY <2>2, <2>3
<1>8. QED BY <1>5, <1>6, <1>7

\* The connection as the call h of the end s has left it.
Ahead(s, h, from, to, ends) == Connected([flight EXCEPT ![s] = h.flight], h.wire, from, to, ends)

LEMMA AdvanceKeeps ==
  ASSUME TwoEnds, TlsTypes, NEW s \in Side, NEW h \in Calls,
         NEW from \in [Side -> Nat], NEW to \in [Side -> Nat], NEW ends, Ahead(s, h, from, to, ends)
  PROVE  /\ Advance(s, h) \in Calls /\ Ahead(s, Advance(s, h), from, to, ends)
         /\ h.result # "ok" \/ h.flight = Negotiated => Advance(s, h) = h
         /\ Advance(s, h).result = "ok" /\ h.flight # Negotiated => Advance(s, h).flight = h.flight + 1
         /\ Advance(s, h).result = "end" => h.result = "end"
<1> DEFINE g == Advance(s, h)
           f == [flight EXCEPT ![s] = h.flight]
           p == Peer(s)
<1>1. p \in Side /\ p # s /\ f \in [Side -> 1..Negotiated] /\ f[s] = h.flight /\ h.wire \in [Side -> Seq(Records)]
      /\ Shaken(f, h.wire) /\ \A x \in Side : Sound(h.wire[x], from[x], to[x], x, ends)
  BY DEF TwoEnds, Server, TlsTypes, Calls, Ahead, Connected
<1>2. g \in Calls
  BY Advances
<1>3. h.result # "ok" \/ h.flight = Negotiated => g = h
  BY DEF Advance
<1>4. g.result = "end" => h.result = "end"
  BY Advances, CallChanged DEF Advance, Calls
<1>5. CASE g = h /\ (h.result # "ok" \/ h.flight = Negotiated)
  BY <1>2, <1>3, <1>4, <1>5
<1>6. CASE Refused(h, g)
  BY <1>2, <1>3, <1>4, <1>6 DEF Refused, Ahead
<1>7. ASSUME h.flight # Negotiated, NEW v \in [Side -> Seq(Records)], g = Further(h, v), Shaken([f EXCEPT ![s] = @ + 1], v),
             \A x \in Side : Sound(v[x], from[x], to[x], x, ends)
      PROVE  Ahead(s, g, from, to, ends) /\ g.flight = h.flight + 1
  <2>1. h.flight + 1 \in 1..Negotiated
    BY <1>7 DEF Calls, Negotiated, Flights
  <2>2. g.flight = h.flight + 1 /\ g.wire = v
    BY <1>7, <2>1, CallChanged
  <2>3. [flight EXCEPT ![s] = g.flight] = [f EXCEPT ![s] = @ + 1]
    BY <1>1, <2>2 DEF TlsTypes
  <2>4. [flight EXCEPT ![s] = g.flight] \in [Side -> 1..Negotiated]
    BY <2>1, <2>2 DEF TlsTypes
  <2>5. QED BY <1>7, <2>2, <2>3, <2>4 DEF Ahead, Connected
<1>8. CASE /\ h.flight # Negotiated /\ Sends(s, h.flight)
           /\ g = Further(h, [h.wire EXCEPT ![s] = Append(@, Hello)])
  <2> DEFINE v == [h.wire EXCEPT ![s] = Append(@, Hello)]
  <2>1. h.wire[s] = <<>> /\ Shaken([f EXCEPT ![s] = @ + 1], v)
    BY <1>1, <1>8, FlightSent
  <2>2. Hello \in Records /\ Hello.type = "hello"
    BY DEF Hello, Record, Records
  <2>3. v \in [Side -> Seq(Records)] /\ v[s] = Append(h.wire[s], Hello) /\ \A x \in Side : x # s => v[x] = h.wire[x]
    BY <1>1, <2>2
  <2>4. Sound(v[s], from[s], to[s], s, ends)
    <3>1. Holds(Hello, to[s], to[s]) /\ ~Closes(h.wire[s]) /\ to[s] \in Nat
      BY <2>1, <2>2 DEF Holds, Closes
    <3>2. QED BY <1>1, <2>2, <2>3, <3>1, SoundAppended
  <2>5. \A x \in Side : Sound(v[x], from[x], to[x], x, ends)
    BY <1>1, <2>3, <2>4
  <2> HIDE DEF v, f, g
  <2>6. g = Further(h, v)
    BY <1>8 DEF v
  <2>7. Ahead(s, g, from, to, ends) /\ g.flight = h.flight + 1
    BY <1>7, <1>8, <2>1, <2>3, <2>5, <2>6
  <2>8. QED BY <1>2, <1>3, <1>4, <2>7 DEF g
<1>9. CASE /\ h.flight # Negotiated /\ ~Sends(s, h.flight) /\ h.wire[p] # <<>>
           /\ g = Further(h, [h.wire EXCEPT ![p] = Tail(@)])
  <2> DEFINE v == [h.wire EXCEPT ![p] = Tail(@)]
  <2>1. Head(h.wire[p]) = Hello /\ Shaken([f EXCEPT ![s] = @ + 1], v)
    BY <1>1, <1>9, FlightTaken
  <2>2. Hello.type = "hello"
    BY DEF Hello, Record
  <2>3. Tail(h.wire[p]) \in Seq(Records)
    BY <1>1, <1>9
  <2>4. v \in [Side -> Seq(Records)] /\ v[p] = Tail(h.wire[p]) /\ \A x \in Side : x # p => v[x] = h.wire[x]
    BY <1>1, <2>3
  <2>5. Sound(v[p], from[p], to[p], p, ends)
    <3>1. PICK c \in Nat : Holds(Head(h.wire[p]), from[p], c) /\ Sound(Tail(h.wire[p]), c, to[p], p, ends)
      BY <1>1, <1>9, SoundTaken
    <3>2. c = from[p]
      BY <2>1, <2>2, <3>1 DEF Holds
    <3>3. QED BY <2>4, <3>1, <3>2
  <2>6. \A x \in Side : Sound(v[x], from[x], to[x], x, ends)
    BY <1>1, <2>4, <2>5
  <2> HIDE DEF v, f, g
  <2>7. g = Further(h, v)
    BY <1>9 DEF v
  <2>8. Ahead(s, g, from, to, ends) /\ g.flight = h.flight + 1
    BY <1>7, <1>9, <2>1, <2>4, <2>6, <2>7
  <2>9. QED BY <1>2, <1>3, <1>4, <2>8 DEF g
<1>10. QED BY <1>5, <1>6, <1>8, <1>9, Advances

\* A call that goes on has the handshake behind it.
First(s) == [result |-> "ok", flight |-> flight[s], wire |-> wire]
LEMMA BegunKeeps ==
  ASSUME TwoEnds, TlsTypes, NEW s \in Side, NEW from \in [Side -> Nat], NEW to \in [Side -> Nat], NEW ends,
         Connected(flight, wire, from, to, ends)
  PROVE  /\ Begun(s) \in Calls /\ Ahead(s, Begun(s), from, to, ends)
         /\ Begun(s).result = "ok" => Begun(s).flight = Negotiated
         /\ flight[s] = Negotiated => Begun(s) = First(s)
         /\ Begun(s).result # "end"
<1> DEFINE h0 == First(s)
           h1 == Advance(s, h0)
           h2 == Advance(s, h1)
           h3 == Advance(s, h2)
<1>1. h0 \in Calls /\ h0.flight = flight[s] /\ h0.result = "ok" /\ Ahead(s, h0, from, to, ends)
  <2>1. [flight EXCEPT ![s] = flight[s]] = flight
    BY DEF TlsTypes
  <2>2. QED BY <2>1 DEF First, Calls, Results, TlsTypes, Ahead
<1>2. Begun(s) = h3
  BY DEF Begun, First
<1> HIDE DEF h0, h3, h2, h1
<1>3. /\ h1 \in Calls /\ Ahead(s, h1, from, to, ends) /\ h1.result # "end"
      /\ h0.flight = Negotiated => h1 = h0
      /\ h1.result = "ok" /\ h0.flight # Negotiated => h1.flight = h0.flight + 1
  BY <1>1, AdvanceKeeps DEF h1
<1>4. /\ h2 \in Calls /\ Ahead(s, h2, from, to, ends) /\ h2.result # "end"
      /\ h1.result # "ok" \/ h1.flight = Negotiated => h2 = h1
      /\ h2.result = "ok" /\ h1.flight # Negotiated => h2.flight = h1.flight + 1
  BY <1>3, AdvanceKeeps DEF h2
<1>5. /\ h3 \in Calls /\ Ahead(s, h3, from, to, ends) /\ h3.result # "end"
      /\ h2.result # "ok" \/ h2.flight = Negotiated => h3 = h2
      /\ h3.result = "ok" /\ h2.flight # Negotiated => h3.flight = h2.flight + 1
  BY <1>4, AdvanceKeeps DEF h3
<1>6. flight[s] = Negotiated => h3 = h0
  BY <1>1, <1>3, <1>4, <1>5
<1>7. h3.result = "ok" => h3.flight = Negotiated
  <2>1. h0.flight \in 1..4 /\ h1.flight \in 1..4 /\ h2.flight \in 1..4 /\ h3.flight \in 1..4 /\ Negotiated = 4
    BY <1>1, <1>3, <1>4, <1>5 DEF Calls, Negotiated, Flights
  <2>2. h3.result = "ok" => h2.result = "ok" /\ h1.result = "ok"
    BY <1>4, <1>5
  <2>3. QED BY <1>3, <1>4, <1>5, <2>1, <2>2
<1>8. QED BY <1>2, <1>5, <1>6, <1>7 DEF h0

\* A record behind the handshake.
LEMMA PlainAppended ==
  ASSUME NEW w \in Seq(Records), NEW r \in Records, Plain(w), r.type # "hello"
  PROVE  Plain(Append(w, r))
<1>1. Len(Append(w, r)) = Len(w) + 1 /\ Len(w) \in Nat /\ Append(w, r)[Len(w) + 1] = r
      /\ \A i \in 1..Len(w) : Append(w, r)[i] = w[i]
  OBVIOUS
<1>2. \A i \in 1..Len(Append(w, r)) : i \in 1..Len(w) \/ i = Len(w) + 1
  BY <1>1
<1>3. QED BY <1>1, <1>2 DEF Plain

LEMMA TailOfAppended ==
  ASSUME NEW w \in Seq(Records), NEW r \in Records, w # <<>>
  PROVE  Head(Append(w, r)) = Head(w) /\ Tail(Append(w, r)) = Append(Tail(w), r) /\ Append(w, r) # <<>>
         /\ Tail(w) \in Seq(Records)
  OBVIOUS

LEMMA RecordSent ==
  ASSUME TwoEnds, NEW s \in Side, NEW f \in [Side -> 1..Negotiated], NEW w \in [Side -> Seq(Records)],
         Shaken(f, w), f[s] = Negotiated, NEW r \in Records, r.type # "hello"
  PROVE  Shaken(f, [w EXCEPT ![s] = Append(@, r)])
<1> DEFINE v == [w EXCEPT ![s] = Append(@, r)]
<1>1. Client \in Side /\ Server \in Side /\ Client # Server /\ Negotiated = 4
  BY DEF TwoEnds, Negotiated, Flights
<1>2. w[Client] \in Seq(Records) /\ w[Server] \in Seq(Records)
  BY <1>1
<1>3. CASE s = Client
  <2>1. v[Client] = Append(w[Client], r) /\ v[Server] = w[Server]
    BY <1>1, <1>3
  <2>2. CASE f[Server] = 3
    <3>1. w[Client] # <<>> /\ Head(w[Client]) = Hello /\ Plain(Tail(w[Client])) /\ w[Server] = <<>>
      BY <1>1, <1>3, <2>2 DEF Shaken, Shake
    <3>2. Head(v[Client]) = Hello /\ Tail(v[Client]) = Append(Tail(w[Client]), r) /\ v[Client] # <<>>
          /\ Tail(w[Client]) \in Seq(Records)
      BY <1>2, <2>1, <3>1, TailOfAppended
    <3>3. Plain(Tail(v[Client]))
      BY <3>1, <3>2, PlainAppended
    <3> HIDE DEF v
    <3>4. QED BY <1>1, <1>3, <2>1, <2>2, <3>1, <3>2, <3>3 DEF Shaken, Shake, v
  <2>3. CASE f[Server] # 3
    <3>1. f[Server] = 4 /\ Plain(w[Client]) /\ Plain(w[Server])
      BY <1>1, <1>3, <2>3 DEF Shaken, Shake
    <3>2. Plain(v[Client])
      BY <1>2, <2>1, <3>1, PlainAppended
    <3>3. QED BY <1>1, <1>3, <2>1, <3>1, <3>2 DEF Shaken, Shake
  <2>4. QED BY <2>2, <2>3
<1>4. CASE s = Server
  <2>1. v[Server] = Append(w[Server], r) /\ v[Client] = w[Client]
    BY <1>1, <1>4
  <2>2. f[Client] = 4 /\ Plain(w[Client]) /\ Plain(w[Server])
    BY <1>1, <1>4 DEF Shaken, Shake
  <2>3. Plain(v[Server])
    BY <1>2, <2>1, <2>2, PlainAppended
  <2>4. QED BY <1>1, <1>4, <2>1, <2>2, <2>3 DEF Shaken, Shake
<1>5. QED BY <1>3, <1>4 DEF TwoEnds

\* Behind its handshake, an end takes nothing when it sends.
Quiet(s, h) == flight[s] = Negotiated => h.flight = Negotiated /\ \A x \in Side : x # s => h.wire[x] = wire[x]

LEMMA SentKeeps ==
  ASSUME TwoEnds, TlsTypes, NEW s \in Side, NEW r \in Records, r.type # "hello",
         NEW from \in [Side -> Nat], NEW to \in [Side -> Nat], NEW ends, NEW more,
         Connected(flight, wire, from, to, ends), s \notin ends, \A x \in ends : x \in more, r.type = "close" => s \in more,
         NEW c \in Nat, Holds(r, to[s], c)
  PROVE  /\ Sent(s, r) \in Calls /\ Sent(s, r).result # "end"
         /\ Sent(s, r).result # "ok" => Ahead(s, Sent(s, r), from, to, ends)
         /\ Sent(s, r).result = "ok" => /\ Sent(s, r).flight = Negotiated
                                        /\ Ahead(s, Sent(s, r), from, [to EXCEPT ![s] = c], more)
         /\ flight[s] = Negotiated => Sent(s, r).result # "INPUT"
         /\ Quiet(s, Sent(s, r))
<1> DEFINE h == Begun(s)
           g == Sent(s, r)
           v == [h.wire EXCEPT ![s] = Append(@, r)]
           f == [flight EXCEPT ![s] = h.flight]
<1>1. /\ h \in Calls /\ Ahead(s, h, from, to, ends) /\ (h.result = "ok" => h.flight = Negotiated) /\ h.result # "end"
      /\ (flight[s] = Negotiated => h.result = "ok") /\ Quiet(s, h)
  BY BegunKeeps DEF First, Quiet
<1>2. Sent(s, r) = IF h.result # "ok" THEN h
                   ELSE IF data[Peer(s)].closed THEN [h EXCEPT !.result = "error"]
                   ELSE IF Len(h.wire[s]) = Room THEN [h EXCEPT !.result = "OUTPUT"]
                   ELSE [h EXCEPT !.wire = v]
  BY <1>1 DEF Sent, Calls
<1> HIDE DEF h, v
<1>3. CASE h.result # "ok"
  BY <1>1, <1>2, <1>3
<1>4. CASE h.result = "ok" /\ data[Peer(s)].closed
  BY <1>1, <1>2, <1>4 DEF Ahead, Calls, Results, Quiet
<1>5. CASE h.result = "ok" /\ ~data[Peer(s)].closed /\ Len(h.wire[s]) = Room
  BY <1>1, <1>2, <1>5 DEF Ahead, Calls, Results, Quiet
<1>6. CASE h.result = "ok" /\ ~data[Peer(s)].closed /\ Len(h.wire[s]) # Room
  <2>1. /\ f \in [Side -> 1..Negotiated] /\ f[s] = Negotiated /\ h.wire \in [Side -> Seq(Records)]
        /\ Shaken(f, h.wire) /\ \A x \in Side : Sound(h.wire[x], from[x], to[x], x, ends)
    BY <1>1, <1>6 DEF Ahead, Connected, Calls, TlsTypes
  <2>2. /\ v \in [Side -> Seq(Records)] /\ v[s] = Append(h.wire[s], r)
        /\ \A x \in Side : x # s => v[x] = h.wire[x]
    BY <2>1 DEF v
  <2>3. g = [h EXCEPT !.wire = v] /\ g \in Calls /\ g.result = "ok" /\ g.flight = h.flight /\ g.wire = v
    <3>1. g = [h EXCEPT !.wire = v]
      BY <1>2, <1>6
    <3> HIDE DEF g
    <3>2. QED BY <1>1, <1>6, <2>2, <3>1 DEF Calls
  <2> HIDE DEF f, g
  <2>4. Shaken(f, v)
    BY <2>1, RecordSent DEF v
  <2>5. \A x \in Side : Sound(h.wire[x], from[x], to[x], x, more)
    BY <2>1 DEF Sound
  <2>6. Sound(v[s], from[s], c, s, more)
    <3>1. ~Closes(h.wire[s])
      BY <2>1 DEF Sound
    <3>2. QED BY <2>1, <2>2, <2>5, <3>1, SoundAppended
  <2>7. \A x \in Side : Sound(v[x], from[x], [to EXCEPT ![s] = c][x], x, more)
    BY <2>2, <2>5, <2>6
  <2>8. Connected(f, v, from, [to EXCEPT ![s] = c], more)
    BY <2>1, <2>2, <2>4, <2>7 DEF Connected
  <2>9. Ahead(s, g, from, [to EXCEPT ![s] = c], more)
    BY <2>3, <2>8 DEF Ahead, f
  <2>10. Quiet(s, g)
    BY <1>1, <2>2, <2>3 DEF Quiet
  <2>11. QED BY <1>1, <1>6, <2>3, <2>9, <2>10 DEF g
<1>7. QED BY <1>3, <1>4, <1>5, <1>6

\* A record is taken behind the handshake.
LEMMA PlainTaken ==
  ASSUME NEW w \in Seq(Records), Plain(w), w # <<>>
  PROVE  Plain(Tail(w)) /\ Head(w).type # "hello"
<1>1. Len(Tail(w)) = Len(w) - 1 /\ Len(w) \in Nat \ {0} /\ Head(w) = w[1]
      /\ \A i \in 1..Len(Tail(w)) : Tail(w)[i] = w[i + 1]
  OBVIOUS
<1>2. \A i \in 1..Len(Tail(w)) : i + 1 \in 1..Len(w)
  BY <1>1
<1>3. 1 \in 1..Len(w)
  BY <1>1
<1>4. QED BY <1>1, <1>2, <1>3 DEF Plain

LEMMA RecordTaken ==
  ASSUME TwoEnds, NEW s \in Side, NEW f \in [Side -> 1..Negotiated], NEW w \in [Side -> Seq(Records)],
         Shaken(f, w), f[s] = Negotiated, w[Peer(s)] # <<>>
  PROVE  Shaken(f, [w EXCEPT ![Peer(s)] = Tail(@)]) /\ Head(w[Peer(s)]).type # "hello"
<1> DEFINE v == [w EXCEPT ![Peer(s)] = Tail(@)]
<1>1. Client \in Side /\ Server \in Side /\ Client # Server /\ Negotiated = 4
  BY DEF TwoEnds, Negotiated, Flights
<1>2. w[Client] \in Seq(Records) /\ w[Server] \in Seq(Records)
  BY <1>1
<1>3. f[Client] = 4 /\ f[Server] = 4 /\ Plain(w[Client]) /\ Plain(w[Server])
  BY <1>1 DEF Shaken, Shake, TwoEnds, Server
<1>4. Plain(Tail(w[Peer(s)])) /\ Head(w[Peer(s)]).type # "hello"
  BY <1>2, <1>3, PlainTaken DEF TwoEnds, Server
<1>5. Plain(v[Client]) /\ Plain(v[Server])
  BY <1>1, <1>3, <1>4 DEF TwoEnds, Server
<1>6. QED BY <1>3, <1>4, <1>5 DEF Shaken, Shake

\* The call g that takes the next record, after the handshake.
Follows(s, h, g, from, to, ends) ==
    LET got == h.wire[Peer(s)] IN
    /\ g \in Calls /\ g.flight = Negotiated /\ g.wire[s] = h.wire[s]
    /\ got = <<>> => g.wire = h.wire /\ g.result \in {"error", "INPUT"}
    /\ got # <<>> => /\ g.result = IF Head(got).type = "close" THEN "end" ELSE "ok"
                     /\ Head(got) \in Records /\ Head(got).type # "hello"
                     /\ g.wire = [h.wire EXCEPT ![Peer(s)] = Tail(@)]
                     /\ \E c \in Nat : /\ Holds(Head(got), from[Peer(s)], c)
                                       /\ Ahead(s, g, [from EXCEPT ![Peer(s)] = c], to, ends)
                     /\ Head(got).type = "close" => Tail(got) = <<>> /\ Peer(s) \in ends
LEMMA NextRecordKeeps ==
  ASSUME TwoEnds, TlsTypes, NEW s \in Side, NEW h \in Calls, h.flight = Negotiated, h.result = "ok",
         NEW from \in [Side -> Nat], NEW to \in [Side -> Nat], NEW ends, Ahead(s, h, from, to, ends)
  PROVE  Follows(s, h, NextRecord(s, h), from, to, ends)
<1> DEFINE g == NextRecord(s, h)
           p == Peer(s)
           f == [flight EXCEPT ![s] = h.flight]
           v == [h.wire EXCEPT ![p] = Tail(@)]
<1>1. p \in Side /\ p # s /\ f \in [Side -> 1..Negotiated] /\ f[s] = Negotiated /\ h.wire \in [Side -> Seq(Records)]
      /\ Shaken(f, h.wire) /\ \A x \in Side : Sound(h.wire[x], from[x], to[x], x, ends)
  BY DEF TwoEnds, Server, TlsTypes, Calls, Ahead, Connected
<1>2. CASE h.wire[p] = <<>>
  <2>1. g = [h EXCEPT !.result = IF fin[p] THEN "error" ELSE "INPUT"]
    BY <1>2 DEF NextRecord
  <2> HIDE DEF g
  <2>2. QED BY <1>2, <2>1 DEF Calls, Results, g, Follows
<1>3. CASE h.wire[p] # <<>>
  <2>1. Tail(h.wire[p]) \in Seq(Records)
    BY <1>1, <1>3
  <2>2. v \in [Side -> Seq(Records)] /\ v[p] = Tail(h.wire[p]) /\ \A x \in Side : x # p => v[x] = h.wire[x]
    BY <1>1, <2>1
  <2>3. Shaken(f, v) /\ Head(h.wire[p]).type # "hello"
    BY <1>1, <1>3, RecordTaken
  <2>4. /\ Head(h.wire[p]) \in Records
        /\ Head(h.wire[p]).type = "close" => Tail(h.wire[p]) = <<>> /\ p \in ends
    BY <1>1, <1>3, SoundTaken
  <2>5. PICK c \in Nat : Holds(Head(h.wire[p]), from[p], c) /\ Sound(Tail(h.wire[p]), c, to[p], p, ends)
    BY <1>1, <1>3, SoundTaken
  <2>6. \A x \in Side : Sound(v[x], [from EXCEPT ![p] = c][x], to[x], x, ends)
    BY <1>1, <2>2, <2>5
  <2>7. g = [h EXCEPT !.wire = v, !.result = IF Head(h.wire[p]).type = "close" THEN "end" ELSE "ok"]
    BY <1>3 DEF NextRecord, Calls
  <2> HIDE DEF g, v, f
  <2>8. /\ g \in Calls /\ g.flight = h.flight /\ g.wire = v
        /\ g.result = IF Head(h.wire[p]).type = "close" THEN "end" ELSE "ok"
    BY <2>2, <2>7 DEF Calls, Results
  <2>9. Connected(f, v, [from EXCEPT ![p] = c], to, ends)
    BY <1>1, <2>2, <2>3, <2>6 DEF Connected
  <2>10. Ahead(s, g, [from EXCEPT ![p] = c], to, ends)
    BY <2>8, <2>9 DEF Ahead, f
  <2>11. g.wire[s] = h.wire[s]
    BY <1>1, <2>2, <2>8
  <2>12. QED BY <1>3, <2>3, <2>4, <2>5, <2>8, <2>10, <2>11 DEF g, v, Follows
<1>4. QED BY <1>2, <1>3

-----------------------------------------------------------------------------
(* The invariant                                                           *)

\* What has been read, or has arrived and is read next, from each end.
From == [x \in Side |-> Len(received[Peer(x)]) + Len(pending[Peer(x)])]
Done == {x \in Side : writer[x] = "done"}
Stored(x, to) ==
    /\ Counts(accepted[x], 0) /\ Counts(data[x].buffer, to) /\ to + Len(data[x].buffer) <= Len(accepted[x])
    /\ ~data[x].closed => to + Len(data[x].buffer) = Len(accepted[x])
Carried ==
    \E to \in [Side -> Nat] : Connected(flight, wire, From, to, Done) /\ \A x \in Side : Stored(x, to[x])
Delivered(s) == Counts(received[s], 0) /\ Counts(pending[s], Len(received[s]))
\* What the fibers of an end know about it and about the other.
TlsEnded(s) == writer[Peer(s)] = "done" /\ wire[Peer(s)] = <<>> /\ pending[s] = <<>> /\ flight[s] = Negotiated
Known(s) ==
    /\ data[s].closed => writer[s] = "gone"
    /\ writer[s] = "done" => data[s].buffer = <<>> /\ flight[s] = Negotiated
    /\ data[s].input_closed /\ ~data[s].closed => TlsEnded(s)
    /\ reader[s] = "done" /\ ~data[s].closed => data[s].input_closed
TlsInv == TlsTypes /\ Carried /\ \A s \in Side : Delivered(s) /\ Known(s)

LEMMA FromTypes ==
  ASSUME TwoEnds, TlsTypes
  PROVE  From \in [Side -> Nat]
<1>1. \A x \in Side : Len(received[Peer(x)]) \in Nat /\ Len(pending[Peer(x)]) \in Nat
  BY DEF TwoEnds, Server, TlsTypes
<1>2. ASSUME NEW x \in Side PROVE Len(received[Peer(x)]) + Len(pending[Peer(x)]) \in Nat
  <2> DEFINE m == Len(received[Peer(x)])
             n == Len(pending[Peer(x)])
  <2>1. m \in Nat /\ n \in Nat
    BY <1>1
  <2> HIDE DEF m, n
  <2>2. m + n \in Nat
    BY <2>1
  <2>3. QED BY <2>2 DEF m, n
<1>3. QED BY <1>2, Zenon DEF From

\* The fiber that writes.
Untouched(x) == data'[x] = data[x] /\ writer'[x] = writer[x] /\ accepted'[x] = accepted[x]
Carries(s, h) ==
    \E to \in [Side -> Nat] : /\ Ahead(s, h, From, to, Done') /\ Stored(s, to[s])'
                              /\ \A x \in Side : x # s => Stored(x, to[x])
LEMMA WriterStep ==
  ASSUME TwoEnds, TlsInv, NEW s \in Side, NEW h \in Calls, External(s, h), Quiet(s, h), Carries(s, h), TlsTypes',
         writer[s] # "done", \A x \in Side : x # s => Untouched(x),
         ~data'[s].closed, data'[s].input_closed = data[s].input_closed, ~data[s].closed,
         writer'[s] = "done" => data'[s].buffer = <<>> /\ h.flight = Negotiated,
         UNCHANGED <<pending, reader, received>>
  PROVE  TlsInv'
<1>1. TlsTypes /\ Peer(s) \in Side /\ Peer(s) # s /\ Peer(Peer(s)) = s /\ \A x \in Side : x = s \/ x = Peer(s)
  BY DEF TlsInv, TwoEnds, Server
<1>2. flight' = [flight EXCEPT ![s] = h.flight] /\ wire' = h.wire
  BY DEF External
<1>3. Carried'
  <2>1. PICK to \in [Side -> Nat] : /\ Ahead(s, h, From, to, Done') /\ Stored(s, to[s])'
                                    /\ \A x \in Side : x # s => Stored(x, to[x])
    BY DEF Carries
  <2>2. From' = From
    BY DEF From
  <2>3. Connected(flight', wire', From', to, Done')
    BY <1>2, <2>1, <2>2 DEF Ahead
  <2>4. \A x \in Side : Stored(x, to[x])'
    BY <2>1 DEF Stored, Untouched
  <2>5. QED BY <2>3, <2>4 DEF Carried
<1>4. \A x \in Side : Delivered(x)'
  BY DEF Delivered, TlsInv
<1>5. Known(s)'
  <2>1. Known(s)
    BY DEF TlsInv
  <2>2. writer'[s] = "done" => data'[s].buffer = <<>> /\ flight'[s] = Negotiated
    BY <1>1, <1>2 DEF TlsTypes
  <2>3. data[s].input_closed => TlsEnded(s)'
    <3>1. data[s].input_closed => TlsEnded(s)
      BY <2>1 DEF Known
    <3>2. TlsEnded(s) => TlsEnded(s)'
      BY <1>1, <1>2 DEF TlsEnded, Quiet, Untouched, TlsTypes
    <3>3. QED BY <3>1, <3>2
  <2>4. QED BY <2>1, <2>2, <2>3 DEF Known
<1>6. Known(Peer(s))'
  <2> DEFINE p == Peer(s)
  <2>1. Known(p) /\ Untouched(p) /\ flight'[p] = flight[p] /\ reader' = reader
    BY <1>1, <1>2 DEF TlsInv, TlsTypes
  <2>2. ~TlsEnded(p)
    BY <1>1 DEF TlsEnded
  <2> HIDE DEF p
  <2>3. QED BY <2>1, <2>2 DEF Known, Untouched, p
<1>7. QED BY <1>1, <1>3, <1>4, <1>5, <1>6 DEF TlsInv

LEMMA FirstIs ==
  ASSUME TwoEnds, TlsTypes, NEW s \in Side
  PROVE  First(s) \in Calls /\ Quiet(s, First(s))
         /\ \A from, to, ends : Connected(flight, wire, from, to, ends) => Ahead(s, First(s), from, to, ends)
         /\ (UNCHANGED <<flight, wire>> => External(s, First(s)))
<1>1. [flight EXCEPT ![s] = flight[s]] = flight
  BY DEF TlsTypes
<1>2. First(s).flight = flight[s] /\ First(s).wire = wire /\ First(s) \in Calls
  BY DEF First, Calls, Results, TlsTypes
<1>3. QED BY <1>1, <1>2 DEF Quiet, Ahead, External

LEMMA DoneIs ==
  ASSUME TlsTypes, TlsTypes', NEW s \in Side, writer[s] # "done", \A x \in Side : x # s => writer'[x] = writer[x]
  PROVE  /\ writer'[s] # "done" => Done' = Done
         /\ s \notin Done /\ (\A x \in Done : x \in Done') /\ (writer'[s] = "done" => s \in Done')
  BY DEF Done

LEMMA NegotiateKeeps ==
  ASSUME TwoEnds, TlsInv, NEW s \in Side, Negotiate(s)
  PROVE  TlsInv'
<1> DEFINE h == Begun(s)
<1>1. TlsTypes /\ Known(s) /\ writer[s] = "negotiate" /\ ~data[s].closed
  BY DEF TlsInv, Known, Negotiate
<1>2. PICK to \in [Side -> Nat] : Connected(flight, wire, From, to, Done) /\ \A x \in Side : Stored(x, to[x])
  BY DEF TlsInv, Carried
<1>3. /\ h \in Calls /\ Ahead(s, h, From, to, Done)
      /\ h.result = "ok" => h.flight = Negotiated
      /\ flight[s] = Negotiated => h = First(s)
  BY <1>1, <1>2, FromTypes, BegunKeeps
<1>4. Quiet(s, h)
  <2>1. Quiet(s, First(s))
    BY <1>1, FirstIs
  <2> HIDE DEF h
  <2>2. QED BY <1>3, <2>1 DEF Quiet
<1>5. External(s, h) /\ UNCHANGED <<pending, fin, data, reader, accepted, received>>
  BY DEF Negotiate
<1>6. \/ writer' = [writer EXCEPT ![s] = "write"] \/ writer' = writer \/ writer' = [writer EXCEPT ![s] = "failed"]
  <2>1. h.result \in Results \ {"end"}
    BY <1>1, <1>2, <1>3, FromTypes, BegunKeeps DEF Calls
  <2> HIDE DEF h
  <2>2. CASE h.result = "ok"
    BY <2>2 DEF Negotiate, h
  <2>3. CASE h.result \in {"INPUT", "OUTPUT"}
    BY <2>3 DEF Negotiate, h
  <2>4. CASE h.result = "error"
    BY <2>4 DEF Negotiate, h
  <2>5. QED BY <2>1, <2>2, <2>3, <2>4 DEF Results
<1> HIDE DEF h
<1>7. writer' \in [Side -> WriterPlaces] /\ writer'[s] # "done" /\ \A x \in Side : x # s => writer'[x] = writer[x]
  BY <1>1, <1>6 DEF TlsTypes, WriterPlaces
<1>8. TlsTypes'
  BY <1>1, <1>3, <1>5, <1>7 DEF TlsTypes, External, Calls
<1>9. Done' = Done
  BY <1>1, <1>7, <1>8, DoneIs
<1>10. Stored(s, to[s])'
  BY <1>2, <1>5 DEF Stored
<1>11. Carries(s, h)
  BY <1>2, <1>3, <1>9, <1>10 DEF Carries
<1>12. \A x \in Side : x # s => Untouched(x)
  BY <1>5, <1>7 DEF Untouched
<1>13. QED BY <1>1, <1>3, <1>4, <1>5, <1>7, <1>8, <1>11, <1>12, WriterStep

\* The fiber goes on in its program.
LEMMA WriterMoves ==
  ASSUME TwoEnds, TlsInv, NEW s \in Side, ~data[s].closed, writer[s] # "done",
         writer' \in [Side -> WriterPlaces], writer'[s] # "done", \A x \in Side : x # s => writer'[x] = writer[x],
         UNCHANGED <<flight, pending, wire, fin, data, reader, accepted, received>>
  PROVE  TlsInv'
<1>1. TlsTypes /\ TlsTypes'
  BY DEF TlsInv, TlsTypes
<1>2. PICK to \in [Side -> Nat] : Connected(flight, wire, From, to, Done) /\ \A x \in Side : Stored(x, to[x])
  BY DEF TlsInv, Carried
<1>3. Done' = Done
  BY <1>1, DoneIs
<1>4. First(s) \in Calls /\ Quiet(s, First(s)) /\ Ahead(s, First(s), From, to, Done') /\ External(s, First(s))
  BY <1>1, <1>2, <1>3, FirstIs
<1>5. Stored(s, to[s])'
  BY <1>2 DEF Stored
<1>6. Carries(s, First(s))
  BY <1>2, <1>4, <1>5 DEF Carries
<1>7. QED BY <1>1, <1>4, <1>6, WriterStep DEF Untouched

\* The buffer goes out, or stays.
LEMMA BufferSent ==
  ASSUME TwoEnds, TlsInv, NEW s \in Side, ~data[s].closed, writer[s] # "done",
         NEW b, b # <<>>, NEW h, h = Sent(s, Data(b)), External(s, h),
         data' = [data EXCEPT ![s] = Driven([data[s] EXCEPT !.buffer = b], h)],
         writer' = IF h.result = "error" THEN [writer EXCEPT ![s] = "failed"] ELSE writer,
         accepted' \in [Side -> Seq(Nat)], \A x \in Side : x # s => accepted'[x] = accepted[x],
         \A m \in Nat : Stored(s, m) => /\ Counts(b, m) /\ Counts(accepted'[s], 0)
                                        /\ Len(accepted'[s]) = m + Len(b),
         UNCHANGED <<pending, fin, reader, received>>
  PROVE  TlsInv'
<1>1. TlsTypes /\ Known(s)
  BY DEF TlsInv
<1>2. PICK to \in [Side -> Nat] : Connected(flight, wire, From, to, Done) /\ \A x \in Side : Stored(x, to[x])
  BY DEF TlsInv, Carried
<1> DEFINE m == to[s]
           n == Len(b)
           r == Data(b)
           more == [to EXCEPT ![s] = m + n]
<1>3. m \in Nat /\ Counts(b, m) /\ Counts(accepted'[s], 0) /\ Len(accepted'[s]) = m + n
  BY <1>2
<1>4. b \in Seq(Nat) /\ n \in Nat \ {0}
  BY <1>3 DEF Counts
<1>5. r \in Records /\ r.type = "data" /\ r.items = b
  BY <1>4 DEF Data, Record, Records
<1>6. m + n \in Nat /\ Holds(r, m, m + n)
  BY <1>3, <1>4, <1>5 DEF Holds
<1> HIDE DEF r
<1>7. writer'[s] # "done" /\ \A x \in Side : x # s => writer'[x] = writer[x]
  BY <1>1 DEF TlsTypes
<1>8. writer' \in [Side -> WriterPlaces]
  BY <1>1 DEF TlsTypes, WriterPlaces
<1>9. s \notin Done
  BY DEF Done
<1>10. /\ h \in Calls /\ h.result # "end" /\ Quiet(s, h)
       /\ h.result # "ok" => Ahead(s, h, From, to, Done)
       /\ h.result = "ok" => Ahead(s, h, From, more, Done)
  <2>1. r.type # "hello" /\ r.type # "close"
    BY <1>5
  <2>2. h = Sent(s, r)
    BY DEF r
  <2>3. r.type = "close" => s \in Done
    BY <2>1
  <2> HIDE DEF m, n
  <2>4. /\ Sent(s, r) \in Calls /\ Sent(s, r).result # "end" /\ Quiet(s, Sent(s, r))
        /\ Sent(s, r).result # "ok" => Ahead(s, Sent(s, r), From, to, Done)
        /\ Sent(s, r).result = "ok" => Ahead(s, Sent(s, r), From, [to EXCEPT ![s] = m + n], Done)
    BY <1>1, <1>2, <1>5, <1>6, <1>9, <2>1, <2>3, FromTypes, SentKeeps DEF m
  <2>5. QED BY <2>2, <2>4
<1>11. /\ data'[s] \in TlsStreams /\ ~data'[s].closed /\ data'[s].input_closed = data[s].input_closed
       /\ data'[s].buffer = (IF h.result = "ok" THEN <<>> ELSE b)
       /\ data' \in [Side -> TlsStreams]
       /\ \A x \in Side : x # s => data'[x] = data[x]
  <2> DEFINE d == [data[s] EXCEPT !.buffer = b]
             e == Driven(d, h)
  <2>1. d \in TlsStreams /\ ~d.closed /\ d.input_closed = data[s].input_closed /\ d.buffer = b
    BY <1>1, <1>4 DEF TlsTypes, TlsStreams
  <2>2. h.result \in {"ok", "INPUT", "OUTPUT", "error"}
    BY <1>10 DEF Calls, Results
  <2>3. <<>> \in Seq(Nat)
    OBVIOUS
  <2> HIDE DEF d
  <2>4. e \in TlsStreams /\ ~e.closed /\ e.input_closed = data[s].input_closed /\ e.buffer = (IF h.result = "ok" THEN <<>> ELSE b)
    <3>1. CASE h.result = "ok"
      BY <2>1, <2>3, <3>1 DEF Driven, TlsStreams, Results
    <3>2. CASE h.result \in {"INPUT", "OUTPUT"}
      BY <2>1, <3>2 DEF Driven, TlsStreams, Results
    <3>3. CASE h.result = "error"
      BY <2>1, <3>3 DEF Driven
    <3>4. QED BY <2>2, <3>1, <3>2, <3>3
  <2>5. data' = [data EXCEPT ![s] = e]
    BY DEF d
  <2> HIDE DEF e
  <2>6. QED BY <1>1, <2>4, <2>5 DEF TlsTypes
<1>12. TlsTypes'
  BY <1>1, <1>8, <1>10, <1>11 DEF TlsTypes, External, Calls
<1>13. Done' = Done
  BY <1>1, <1>7, <1>12, DoneIs
<1>14. CASE h.result = "ok"
  <2>1. more \in [Side -> Nat] /\ more[s] = m + n /\ \A x \in Side : x # s => more[x] = to[x]
    BY <1>6
  <2>2. data'[s].buffer = <<>> /\ Counts(<<>>, m + n) /\ Len(<<>>) = 0
    BY <1>11, <1>14 DEF Counts
  <2> HIDE DEF more
  <2>3. Stored(s, more[s])'
    BY <1>3, <1>4, <1>6, <1>11, <2>1, <2>2 DEF Stored
  <2>4. Carries(s, h)
    BY <1>2, <1>10, <1>13, <1>14, <2>1, <2>3 DEF Carries
  <2>5. QED BY <1>1, <1>7, <1>10, <1>11, <1>12, <2>4, WriterStep DEF Untouched
<1>15. CASE h.result # "ok"
  <2>1. Stored(s, to[s])'
    BY <1>3, <1>4, <1>11, <1>15 DEF Stored
  <2>2. Carries(s, h)
    BY <1>2, <1>10, <1>13, <1>15, <2>1 DEF Carries
  <2>3. QED BY <1>1, <1>7, <1>10, <1>11, <1>12, <2>2, WriterStep DEF Untouched
<1>16. QED BY <1>14, <1>15

LEMMA WriteKeeps ==
  ASSUME TwoEnds, TlsInv, NEW s \in Side, Write(s)
  PROVE  TlsInv'
<1> DEFINE left == Items - Len(accepted[s])
           size == IF left < BufferSize THEN left ELSE BufferSize
           chunk == [i \in 1..size |-> Len(accepted[s]) + i]
<1>1. TlsTypes /\ writer[s] = "write" /\ ~data[s].closed /\ UNCHANGED <<pending, fin, reader, received>>
  BY DEF TlsInv, Write
<1>2. CASE /\ left = 0 /\ writer' = [writer EXCEPT ![s] = IF s = Client THEN "flush" ELSE "close"]
           /\ UNCHANGED <<flight, wire, data, waits, accepted>>
  <2>1. writer' \in [Side -> WriterPlaces] /\ writer'[s] # "done" /\ \A x \in Side : x # s => writer'[x] = writer[x]
    BY <1>1, <1>2 DEF TlsTypes, WriterPlaces
  <2>2. QED BY <1>1, <1>2, <2>1, WriterMoves
<1>3. CASE /\ left > 0
           /\ \E b \in {IF data[s].buffer = <<>> THEN chunk ELSE data[s].buffer} :
              \E h \in {Sent(s, Data(b))} :
                /\ External(s, h)
                /\ data' = [data EXCEPT ![s] = Driven([@ EXCEPT !.buffer = b], h)]
                /\ accepted' = [accepted EXCEPT ![s] = IF data[s].buffer = <<>> THEN @ \o chunk ELSE @]
                /\ writer' = IF h.result = "error" THEN [writer EXCEPT ![s] = "failed"] ELSE writer
  <2> DEFINE b == IF data[s].buffer = <<>> THEN chunk ELSE data[s].buffer
             h == Sent(s, Data(b))
  <2>1. /\ External(s, h) /\ data' = [data EXCEPT ![s] = Driven([data[s] EXCEPT !.buffer = b], h)]
        /\ accepted' = [accepted EXCEPT ![s] = IF data[s].buffer = <<>> THEN @ \o chunk ELSE @]
        /\ writer' = IF h.result = "error" THEN [writer EXCEPT ![s] = "failed"] ELSE writer
    BY <1>1, <1>3 DEF TlsTypes
  <2>2. accepted[s] \in Seq(Nat) /\ Len(accepted[s]) \in Nat /\ size \in Nat \ {0} /\ data[s].buffer \in Seq(Nat)
    <3>1. accepted[s] \in Seq(Nat) /\ data[s].buffer \in Seq(Nat)
      BY <1>1 DEF TlsTypes, TlsStreams
    <3>2. Len(accepted[s]) \in Nat
      BY <3>1
    <3>3. left > 0
      BY <1>3
    <3>4. left \in Int
      BY <3>2 DEF TwoEnds
    <3> HIDE DEF left
    <3>5. size \in Nat \ {0}
      BY <3>3, <3>4 DEF TwoEnds
    <3>6. QED BY <3>1, <3>2, <3>5
  <2>3. Counts(chunk, Len(accepted[s])) /\ Len(chunk) = size /\ chunk # <<>>
    <3> DEFINE n == Len(accepted[s])
    <3> HIDE DEF n, size
    <3>1. [i \in 1..size |-> n + i] \in Seq(Nat) /\ Len([i \in 1..size |-> n + i]) = size
      BY <2>2 DEF n
    <3>2. QED BY <2>2, <3>1 DEF Counts, n
  <2> HIDE DEF chunk, size, left
  <2>4. chunk \in Seq(Nat) /\ b \in Seq(Nat) /\ b # <<>>
    BY <2>2, <2>3 DEF Counts
  <2>5. accepted[s] \o chunk \in Seq(Nat)
    BY <2>2, <2>4
  <2>6. /\ accepted' \in [Side -> Seq(Nat)] /\ \A x \in Side : x # s => accepted'[x] = accepted[x]
        /\ accepted'[s] = IF data[s].buffer = <<>> THEN accepted[s] \o chunk ELSE accepted[s]
    BY <1>1, <2>1, <2>5 DEF TlsTypes
  <2>7. \A m \in Nat : Stored(s, m) => /\ Counts(b, m) /\ Counts(accepted'[s], 0)
                                       /\ Len(accepted'[s]) = m + Len(b)
    <3> SUFFICES ASSUME NEW m \in Nat, Stored(s, m)
                 PROVE  Counts(b, m) /\ Counts(accepted'[s], 0) /\ Len(accepted'[s]) = m + Len(b)
      OBVIOUS
    <3>1. CASE data[s].buffer = <<>>
      <4>1. m = Len(accepted[s]) /\ Counts(accepted[s], 0) /\ b = chunk
        BY <1>1, <2>2, <3>1 DEF Stored
      <4>2. Counts(accepted[s] \o chunk, 0) /\ Len(accepted[s] \o chunk) = Len(accepted[s]) + Len(chunk)
        <5>1. 0 + Len(accepted[s]) = Len(accepted[s])
          BY <2>2
        <5>2. QED BY <2>3, <4>1, <5>1, CountsJoined
      <4>3. QED BY <2>3, <2>6, <3>1, <4>1, <4>2
    <3>2. CASE data[s].buffer # <<>>
      BY <1>1, <2>6, <3>2 DEF Stored
    <3>3. QED BY <3>1, <3>2
  <2> HIDE DEF b, h
  <2>8. h = Sent(s, Data(b))
    BY DEF h
  <2>9. writer[s] # "done"
    BY <1>1
  <2>10. QED BY <1>1, <2>1, <2>4, <2>6, <2>7, <2>8, <2>9, BufferSent
<1>4. QED BY <1>2, <1>3 DEF Write

LEMMA FlushKeeps ==
  ASSUME TwoEnds, TlsInv, NEW s \in Side, Flush(s)
  PROVE  TlsInv'
<1>1. /\ TlsTypes /\ writer[s] \in {"flush", "close"} /\ ~data[s].closed
      /\ UNCHANGED <<pending, fin, reader, accepted, received>>
  BY DEF TlsInv, Flush
<1>2. CASE writer' = [writer EXCEPT ![s] = "asked"] /\ UNCHANGED <<flight, wire, data, waits>>
  <2>1. writer' \in [Side -> WriterPlaces] /\ writer'[s] # "done" /\ \A x \in Side : x # s => writer'[x] = writer[x]
    BY <1>1, <1>2 DEF TlsTypes, WriterPlaces
  <2>2. QED BY <1>1, <1>2, <2>1, WriterMoves
<1>3. CASE /\ data[s].buffer # <<>>
           /\ \E h \in {Sent(s, Data(data[s].buffer))} :
                /\ External(s, h) /\ data' = [data EXCEPT ![s] = Driven(@, h)]
                /\ writer' = IF h.result = "error" THEN [writer EXCEPT ![s] = "failed"] ELSE writer
  <2> DEFINE b == data[s].buffer
             h == Sent(s, Data(b))
  <2>1. /\ External(s, h) /\ data' = [data EXCEPT ![s] = Driven(data[s], h)]
        /\ writer' = IF h.result = "error" THEN [writer EXCEPT ![s] = "failed"] ELSE writer
    BY <1>1, <1>3 DEF TlsTypes
  <2>2. [data[s] EXCEPT !.buffer = b] = data[s]
    BY <1>1 DEF TlsTypes, TlsStreams
  <2>3. \A m \in Nat : Stored(s, m) => /\ Counts(b, m) /\ Counts(accepted'[s], 0)
                                       /\ Len(accepted'[s]) = m + Len(b)
    BY <1>1 DEF Stored
  <2>4. accepted' \in [Side -> Seq(Nat)] /\ \A x \in Side : x # s => accepted'[x] = accepted[x]
    BY <1>1 DEF TlsTypes
  <2>5. b # <<>>
    BY <1>3
  <2> HIDE DEF b, h
  <2>6. h = Sent(s, Data(b)) /\ data' = [data EXCEPT ![s] = Driven([data[s] EXCEPT !.buffer = b], h)]
    BY <2>1, <2>2 DEF h
  <2>7. writer[s] # "done"
    BY <1>1
  <2>8. QED BY <1>1, <2>1, <2>3, <2>4, <2>5, <2>6, <2>7, BufferSent
<1>4. QED BY <1>2, <1>3 DEF Flush

LEMMA CloseOutputKeeps ==
  ASSUME TwoEnds, TlsInv, NEW s \in Side, CloseOutput(s)
  PROVE  TlsInv'
<1>1. /\ TlsTypes /\ writer[s] = "close" /\ ~data[s].closed /\ data[s].buffer = <<>> /\ Notified(s, data[s])
      /\ UNCHANGED <<pending, reader, accepted, received>>
  BY DEF TlsInv, CloseOutput
<1>2. CASE /\ flight[s] # Negotiated /\ writer' = [writer EXCEPT ![s] = "failed"]
           /\ UNCHANGED <<flight, wire, fin, data>>
  <2>1. writer' \in [Side -> WriterPlaces] /\ writer'[s] # "done" /\ \A x \in Side : x # s => writer'[x] = writer[x]
    BY <1>1, <1>2 DEF TlsTypes, WriterPlaces
  <2>2. QED BY <1>1, <1>2, <2>1, WriterMoves
<1>3. CASE flight[s] = Negotiated
  <2> DEFINE h == Sent(s, Close)
             d == [data[s] EXCEPT !.output_closed = TRUE]
             sent == [data EXCEPT ![s] = d]
  <2>1. PICK to \in [Side -> Nat] : Connected(flight, wire, From, to, Done) /\ \A x \in Side : Stored(x, to[x])
    BY DEF TlsInv, Carried
  <2>2. Close \in Records /\ Close.type = "close" /\ to[s] \in Nat /\ Holds(Close, to[s], to[s]) /\ Close.type # "hello"
    BY DEF Close, Record, Records, Holds
  <2>3. s \notin Done /\ (\A x \in Done : x \in Done \cup {s}) /\ s \in Done \cup {s}
    BY <1>1 DEF Done
  <2>4. [to EXCEPT ![s] = to[s]] = to
    OBVIOUS
  <2>5. /\ h \in Calls /\ h.result # "end" /\ Quiet(s, h) /\ h.result # "INPUT"
        /\ h.result # "ok" => Ahead(s, h, From, to, Done)
        /\ h.result = "ok" => h.flight = Negotiated /\ Ahead(s, h, From, to, Done \cup {s})
    <3>1. Close.type = "close" => s \in Done \cup {s}
      BY <2>3
    <3>2. /\ h \in Calls /\ h.result # "end" /\ Quiet(s, h) /\ (flight[s] = Negotiated => h.result # "INPUT")
          /\ h.result # "ok" => Ahead(s, h, From, to, Done)
          /\ h.result = "ok" => h.flight = Negotiated /\ Ahead(s, h, From, [to EXCEPT ![s] = to[s]], Done \cup {s})
      BY <1>1, <2>1, <2>2, <2>3, <3>1, FromTypes, SentKeeps
    <3>3. QED BY <1>3, <2>4, <3>2
  <2>6. External(s, h)
    BY <1>1, <1>3 DEF Notified
  <2>7. h.result \in {"ok", "OUTPUT", "error"}
    BY <2>5 DEF Calls, Results
  <2> HIDE DEF h
  <2>8. /\ h.result = "ok" => data' = sent /\ fin' = [fin EXCEPT ![s] = TRUE] /\ writer' = [writer EXCEPT ![s] = "done"]
        /\ h.result = "OUTPUT" => UNCHANGED <<data, fin, writer>>
        /\ h.result = "error" => writer' = [writer EXCEPT ![s] = "failed"] /\ UNCHANGED <<data, fin>>
    BY <1>1, <1>3, <2>7 DEF Notified, h
  <2>9. /\ writer' \in [Side -> WriterPlaces] /\ \A x \in Side : x # s => writer'[x] = writer[x]
        /\ writer'[s] = "done" <=> h.result = "ok"
    BY <1>1, <2>7, <2>8 DEF TlsTypes, WriterPlaces
  <2>10. /\ sent \in [Side -> TlsStreams] /\ sent[s].buffer = data[s].buffer /\ ~sent[s].closed
         /\ sent[s].input_closed = data[s].input_closed /\ \A x \in Side : x # s => sent[x] = data[x]
    <3>1. d \in TlsStreams /\ d.buffer = data[s].buffer /\ ~d.closed /\ d.input_closed = data[s].input_closed
      BY <1>1 DEF TlsTypes, TlsStreams
    <3> HIDE DEF d
    <3>2. QED BY <1>1, <3>1 DEF TlsTypes
  <2> HIDE DEF sent
  <2>11. /\ data' \in [Side -> TlsStreams] /\ data'[s].buffer = data[s].buffer /\ ~data'[s].closed
         /\ data'[s].input_closed = data[s].input_closed /\ \A x \in Side : x # s => data'[x] = data[x]
    BY <1>1, <2>7, <2>8, <2>10 DEF TlsTypes
  <2>12. TlsTypes'
    BY <1>1, <2>5, <2>6, <2>7, <2>8, <2>9, <2>11 DEF TlsTypes, External, Calls
  <2>13. Done' = IF h.result = "ok" THEN Done \cup {s} ELSE Done
    BY <1>1, <2>9, <2>12 DEF Done
  <2>14. Stored(s, to[s])'
    BY <1>1, <2>1, <2>11 DEF Stored
  <2>15. Ahead(s, h, From, to, Done')
    BY <2>5, <2>13
  <2>16. Carries(s, h)
    BY <2>1, <2>14, <2>15 DEF Carries
  <2>17. \A x \in Side : x # s => Untouched(x)
    BY <1>1, <2>9, <2>11 DEF Untouched
  <2>18. writer'[s] = "done" => data'[s].buffer = <<>> /\ h.flight = Negotiated
    BY <1>1, <2>5, <2>9, <2>11
  <2>19. QED BY <1>1, <2>5, <2>6, <2>11, <2>12, <2>16, <2>17, <2>18, WriterStep
<1>4. QED BY <1>1, <1>2, <1>3 DEF Notified

\* The fiber that reads.
LEMMA FromIs ==
  ASSUME TwoEnds, TlsTypes, NEW s \in Side, \A x \in Side : x # s => received'[x] = received[x] /\ pending'[x] = pending[x]
  PROVE  From' = [From EXCEPT ![Peer(s)] = Len(received'[s]) + Len(pending'[s])]
<1> DEFINE p == Peer(s)
           n == Len(received'[s]) + Len(pending'[s])
<1>1. p \in Side /\ p # s /\ Peer(p) = s /\ Peer(s) = p /\ \A x \in Side : x = s \/ x = p
  BY DEF TwoEnds, Server
<1>2. From'[p] = n /\ From'[s] = From[s]
  BY <1>1 DEF From
<1> HIDE DEF n, p
<1>3. \A x \in Side : From'[x] = [From EXCEPT ![p] = n][x]
  BY <1>1, <1>2 DEF From
<1>4. From' = [x \in Side |-> From'[x]] /\ [From EXCEPT ![p] = n] = [x \in Side |-> [From EXCEPT ![p] = n][x]]
  BY DEF From
<1>5. From' = [From EXCEPT ![p] = n]
  BY <1>3, <1>4, Zenon
<1>6. QED BY <1>5 DEF n, p

Takes(s, h) ==
    \E to \in [Side -> Nat] : Ahead(s, h, From', to, Done) /\ \A x \in Side : Stored(x, to[x])
LEMMA ReaderStep ==
  ASSUME TwoEnds, TlsInv, NEW s \in Side, NEW h \in Calls, External(s, h), Takes(s, h), TlsTypes',
         UNCHANGED <<writer, accepted>>, \A x \in Side : data'[x].buffer = data[x].buffer /\ data'[x].closed = data[x].closed,
         \A x \in Side : x # s => /\ data'[x] = data[x] /\ reader'[x] = reader[x]
                                  /\ received'[x] = received[x] /\ pending'[x] = pending[x],
         ~data[s].closed, writer[s] = "done" => h.wire[s] = wire[s] /\ h.flight = Negotiated,
         Delivered(s)', data'[s].input_closed => TlsEnded(s)', reader'[s] = "done" => data'[s].input_closed
  PROVE  TlsInv'
<1>1. TlsTypes /\ Peer(s) \in Side /\ Peer(s) # s /\ Peer(Peer(s)) = s /\ \A x \in Side : x = s \/ x = Peer(s)
  BY DEF TlsInv, TwoEnds, Server
<1>2. flight' = [flight EXCEPT ![s] = h.flight] /\ wire' = h.wire
  BY DEF External
<1>3. Carried'
  <2>1. PICK to \in [Side -> Nat] : Ahead(s, h, From', to, Done) /\ \A x \in Side : Stored(x, to[x])
    BY DEF Takes
  <2>2. Done' = Done
    BY DEF Done
  <2>3. Connected(flight', wire', From', to, Done')
    BY <1>2, <2>1, <2>2 DEF Ahead
  <2>4. \A x \in Side : Stored(x, to[x])'
    BY <2>1 DEF Stored
  <2>5. QED BY <2>3, <2>4 DEF Carried
<1>4. \A x \in Side : Delivered(x)'
  BY DEF Delivered, TlsInv
<1>5. Known(s)'
  <2>1. Known(s)
    BY DEF TlsInv
  <2>2. writer'[s] = "done" => data'[s].buffer = <<>> /\ flight'[s] = Negotiated
    BY <1>1, <1>2, <2>1 DEF TlsTypes, Known
  <2>3. QED BY <2>1, <2>2 DEF Known
<1>6. Known(Peer(s))'
  <2> DEFINE p == Peer(s)
  <2>1. Known(p) /\ flight'[p] = flight[p] /\ data'[p] = data[p] /\ reader'[p] = reader[p]
    BY <1>1, <1>2 DEF TlsInv, TlsTypes
  <2>2. TlsEnded(p) => TlsEnded(p)'
    BY <1>1, <1>2, <2>1 DEF TlsEnded
  <2> HIDE DEF p
  <2>3. QED BY <2>1, <2>2 DEF Known, p
<1>7. QED BY <1>1, <1>3, <1>4, <1>5, <1>6 DEF TlsInv

\* What each reading has in common.
LEMMA ReaderFacts ==
  ASSUME TwoEnds, TlsInv, NEW s \in Side
  PROVE  /\ TlsTypes /\ Known(s) /\ Delivered(s) /\ Peer(s) \in Side /\ Peer(s) # s /\ From \in [Side -> Nat]
         /\ received[s] \in Seq(Nat) /\ pending[s] \in Seq(Nat) /\ Len(received[s]) \in Nat /\ Len(pending[s]) \in Nat
         /\ From[Peer(s)] = Len(received[s]) + Len(pending[s])
<1>1. TlsTypes /\ Known(s) /\ Delivered(s)
  BY DEF TlsInv
<1>2. Peer(s) \in Side /\ Peer(s) # s /\ Peer(Peer(s)) = s
  BY DEF TwoEnds, Server
<1>3. received[s] \in Seq(Nat) /\ pending[s] \in Seq(Nat)
  BY <1>1 DEF TlsTypes
<1>4. Len(received[s]) \in Nat /\ Len(pending[s]) \in Nat
  BY <1>3
<1>5. From[Peer(s)] = Len(received[s]) + Len(pending[s])
  BY <1>2, Zenon DEF From
<1>6. From \in [Side -> Nat]
  BY <1>1, FromTypes
<1>7. QED BY <1>1, <1>2, <1>3, <1>4, <1>5, <1>6

LEMMA TakeIs ==
  ASSUME TwoEnds, TlsInv, NEW s \in Side, NEW items, Counts(items, Len(received[s])), items # <<>>, Take(s, items)
  PROVE  /\ received' \in [Side -> Seq(Nat)] /\ pending' \in [Side -> Seq(Nat)] /\ Delivered(s)'
         /\ \A x \in Side : x # s => received'[x] = received[x] /\ pending'[x] = pending[x]
         /\ Len(received'[s]) + Len(pending'[s]) = Len(received[s]) + Len(items)
<1>1. TlsTypes /\ Delivered(s) /\ received[s] \in Seq(Nat) /\ Len(received[s]) \in Nat
  BY ReaderFacts
<1> DEFINE n == Len(received[s])
<1>2. Head(items) = n + 1 /\ Counts(Tail(items), n + 1) /\ Len(Tail(items)) = Len(items) - 1 /\ Len(items) \in Nat \ {0}
  BY <1>1, CountsTaken
<1>3. Counts(Append(received[s], n + 1), 0) /\ Len(Append(received[s], n + 1)) = n + 1
  BY <1>1, CountsAppended DEF Delivered
<1>4. Append(received[s], n + 1) \in Seq(Nat) /\ Tail(items) \in Seq(Nat)
  BY <1>2, <1>3 DEF Counts
<1>5. received' = [received EXCEPT ![s] = Append(received[s], n + 1)] /\ pending' = [pending EXCEPT ![s] = Tail(items)]
  BY <1>1, <1>2 DEF Take, TlsTypes
<1>6. received'[s] = Append(received[s], n + 1) /\ pending'[s] = Tail(items)
  BY <1>1, <1>5 DEF TlsTypes
<1>7. received' \in [Side -> Seq(Nat)] /\ pending' \in [Side -> Seq(Nat)]
      /\ \A x \in Side : x # s => received'[x] = received[x] /\ pending'[x] = pending[x]
  BY <1>1, <1>4, <1>5 DEF TlsTypes
<1> HIDE DEF n
<1>8. Delivered(s)'
  BY <1>2, <1>3, <1>6 DEF Delivered
<1>9. Len(received'[s]) + Len(pending'[s]) = n + Len(items)
  BY <1>1, <1>2, <1>3, <1>6 DEF n
<1>10. QED BY <1>7, <1>8, <1>9 DEF n

LEMMA InputSet ==
  ASSUME TlsTypes, NEW s \in Side, NEW v \in Results, data' = [data EXCEPT ![s].input = v]
  PROVE  /\ data' \in [Side -> TlsStreams] /\ data'[s].input_closed = data[s].input_closed
         /\ \A x \in Side : data'[x].buffer = data[x].buffer /\ data'[x].closed = data[x].closed
         /\ \A x \in Side : x # s => data'[x] = data[x]
<1> DEFINE d == [data[s] EXCEPT !.input = v]
<1>1. d \in TlsStreams /\ d.buffer = data[s].buffer /\ d.closed = data[s].closed /\ d.input_closed = data[s].input_closed
  BY DEF TlsTypes, TlsStreams
<1>2. data' = [data EXCEPT ![s] = d]
  BY DEF TlsTypes
<1> HIDE DEF d
<1>3. QED BY <1>1, <1>2 DEF TlsTypes

\* An item that has arrived.
LEMMA ReadPending ==
  ASSUME TwoEnds, TlsInv, NEW s \in Side, ~data[s].closed, ~data[s].input_closed, reader[s] = "read",
         pending[s] # <<>>, Take(s, pending[s]), data' = [data EXCEPT ![s].input = "INPUT"],
         UNCHANGED <<flight, wire, fin, writer, reader, accepted>>
  PROVE  TlsInv'
<1> DEFINE p == Peer(s)
<1>1. /\ TlsTypes /\ Known(s) /\ Delivered(s) /\ p \in Side /\ From \in [Side -> Nat]
      /\ From[p] = Len(received[s]) + Len(pending[s])
  BY ReaderFacts
<1>2. /\ received' \in [Side -> Seq(Nat)] /\ pending' \in [Side -> Seq(Nat)] /\ Delivered(s)'
      /\ \A x \in Side : x # s => received'[x] = received[x] /\ pending'[x] = pending[x]
      /\ Len(received'[s]) + Len(pending'[s]) = Len(received[s]) + Len(pending[s])
  BY <1>1, TakeIs DEF Delivered
<1>3. From' = [From EXCEPT ![p] = Len(received'[s]) + Len(pending'[s])]
  BY <1>1, <1>2, FromIs
<1>4. From' = From
  BY <1>1, <1>2, <1>3
<1>5. /\ data' \in [Side -> TlsStreams] /\ data'[s].input_closed = data[s].input_closed
      /\ \A x \in Side : data'[x].buffer = data[x].buffer /\ data'[x].closed = data[x].closed
      /\ \A x \in Side : x # s => data'[x] = data[x]
  BY <1>1, InputSet DEF Results
<1>6. TlsTypes'
  BY <1>1, <1>2, <1>5 DEF TlsTypes
<1>7. PICK to \in [Side -> Nat] : Connected(flight, wire, From, to, Done) /\ \A x \in Side : Stored(x, to[x])
  BY DEF TlsInv, Carried
<1>8. First(s) \in Calls /\ Ahead(s, First(s), From', to, Done) /\ External(s, First(s))
  BY <1>1, <1>4, <1>7, FirstIs
<1>9. Takes(s, First(s))
  BY <1>7, <1>8 DEF Takes
<1>10. writer[s] = "done" => First(s).wire[s] = wire[s] /\ First(s).flight = Negotiated
  BY <1>1 DEF Known, First
<1>11. ~data'[s].input_closed /\ reader'[s] # "done"
  BY <1>5
<1>12. QED BY <1>2, <1>5, <1>6, <1>8, <1>9, <1>10, <1>11, ReaderStep

\* An item of the next record, or nothing.
Outcome(s, b, h) ==
    CASE h.result = "ok" -> /\ Take(s, Head(b.wire[Peer(s)]).items) /\ data' = [data EXCEPT ![s].input = "INPUT"]
                            /\ UNCHANGED <<reader, waits>>
      [] h.result \in {"INPUT", "OUTPUT"} ->
            data' = [data EXCEPT ![s].input = h.result] /\ Blocks(R(s), h.result) /\ UNCHANGED <<pending, received, reader>>
      [] h.result = "end" ->
            data' = [data EXCEPT ![s].input_closed = TRUE] /\ UNCHANGED <<pending, received, reader, waits>>
      [] h.result = "error" ->
            reader' = [reader EXCEPT ![s] = "failed"] /\ UNCHANGED <<pending, received, data, waits>>
LEMMA ReadRecord ==
  ASSUME TwoEnds, TlsInv, NEW s \in Side, ~data[s].closed, ~data[s].input_closed, reader[s] = "read",
         pending[s] = <<>>, NEW b, b = Begun(s), NEW h, h = IF b.result = "ok" THEN NextRecord(s, b) ELSE b,
         External(s, h), Outcome(s, b, h), UNCHANGED <<fin, writer, accepted>>
  PROVE  TlsInv'
<1> DEFINE p == Peer(s)
           got == b.wire[p]
<1>1. /\ TlsTypes /\ Known(s) /\ Delivered(s) /\ p \in Side /\ p # s /\ From \in [Side -> Nat]
      /\ received[s] \in Seq(Nat) /\ Len(received[s]) \in Nat
      /\ From[p] = Len(received[s])
  <2>1. /\ TlsTypes /\ Known(s) /\ Delivered(s) /\ p \in Side /\ p # s /\ From \in [Side -> Nat]
        /\ received[s] \in Seq(Nat) /\ Len(received[s]) \in Nat
        /\ From[p] = Len(received[s]) + Len(pending[s])
    BY ReaderFacts
  <2>2. Len(pending[s]) = 0
    OBVIOUS
  <2>3. QED BY <2>1, <2>2
<1>2. PICK to \in [Side -> Nat] : Connected(flight, wire, From, to, Done) /\ \A x \in Side : Stored(x, to[x])
  BY DEF TlsInv, Carried
<1>3. /\ b \in Calls /\ Ahead(s, b, From, to, Done)
      /\ b.result = "ok" => b.flight = Negotiated
      /\ flight[s] = Negotiated => b = First(s)
      /\ b.result # "end"
  BY <1>1, <1>2, BegunKeeps
<1>4. ASSUME b.result = "ok"
      PROVE  /\ h \in Calls /\ h.flight = Negotiated /\ h.wire[s] = b.wire[s]
             /\ got = <<>> => h.wire = b.wire /\ h.result \in {"error", "INPUT"}
             /\ got # <<>> => /\ h.result = IF Head(got).type = "close" THEN "end" ELSE "ok"
                              /\ Head(got) \in Records /\ Head(got).type # "hello"
                              /\ h.wire = [b.wire EXCEPT ![p] = Tail(@)]
                              /\ \E c \in Nat : Holds(Head(got), From[p], c) /\ Ahead(s, h, [From EXCEPT ![p] = c], to, Done)
                              /\ Head(got).type = "close" => Tail(got) = <<>> /\ p \in Done
  <2>1. h = NextRecord(s, b)
    BY <1>4
  <2>2. Follows(s, b, NextRecord(s, b), From, to, Done)
    BY <1>1, <1>3, <1>4, <1>2, NextRecordKeeps
  <2>3. QED BY <2>1, <2>2 DEF Follows
<1>5. h \in Calls
  BY <1>3, <1>4
<1>6. writer[s] = "done" => h.wire[s] = wire[s] /\ h.flight = Negotiated
  <2>1. writer[s] = "done" => b = First(s)
    BY <1>1, <1>3 DEF Known
  <2>2. First(s).wire = wire /\ First(s).result = "ok"
    BY DEF First
  <2>3. QED BY <1>4, <2>1, <2>2
<1>7. CASE h.result = "ok"
  <2>1. b.result = "ok" /\ got # <<>> /\ Head(got).type = "data"
    BY <1>3, <1>4, <1>7 DEF Records
  <2>2. PICK c \in Nat : Holds(Head(got), From[p], c) /\ Ahead(s, h, [From EXCEPT ![p] = c], to, Done)
    BY <1>4, <2>1
  <2> DEFINE items == Head(got).items
  <2>3. Counts(items, Len(received[s])) /\ Len(items) = c - From[p] /\ From[p] < c
    BY <1>1, <2>1, <2>2 DEF Holds
  <2>5. Take(s, items) /\ data' = [data EXCEPT ![s].input = "INPUT"] /\ UNCHANGED <<reader, waits>>
    BY <1>7 DEF Outcome
  <2> HIDE DEF items, got, p
  <2>4. items # <<>>
    <3>1. Len(items) # 0
      BY <1>1, <2>3
    <3>2. QED BY <3>1
  <2>6. /\ received' \in [Side -> Seq(Nat)] /\ pending' \in [Side -> Seq(Nat)] /\ Delivered(s)'
        /\ \A x \in Side : x # s => received'[x] = received[x] /\ pending'[x] = pending[x]
        /\ Len(received'[s]) + Len(pending'[s]) = Len(received[s]) + Len(items)
    BY <2>3, <2>4, <2>5, TakeIs
  <2>7. From' = [From EXCEPT ![p] = c]
    <3>1. Len(received'[s]) + Len(pending'[s]) = c
      BY <1>1, <2>3, <2>6
    <3>2. From' = [From EXCEPT ![p] = Len(received'[s]) + Len(pending'[s])]
      BY <1>1, <2>6, FromIs DEF p
    <3>3. QED BY <3>1, <3>2
  <2>8. /\ data' \in [Side -> TlsStreams] /\ data'[s].input_closed = data[s].input_closed
        /\ \A x \in Side : data'[x].buffer = data[x].buffer /\ data'[x].closed = data[x].closed
        /\ \A x \in Side : x # s => data'[x] = data[x]
    BY <1>1, <2>5, InputSet DEF Results
  <2>9. TlsTypes'
    BY <1>1, <1>5, <2>5, <2>6, <2>8 DEF TlsTypes, External, Calls
  <2>10. Takes(s, h)
    BY <1>2, <2>2, <2>7 DEF Takes
  <2>11. ~data'[s].input_closed /\ reader'[s] # "done" /\ reader' = reader
    BY <2>5, <2>8
  <2>12. QED BY <1>5, <1>6, <2>6, <2>8, <2>9, <2>10, <2>11, ReaderStep
<1>8. ASSUME UNCHANGED <<pending, received>>
      PROVE  From' = From /\ Delivered(s)'
  BY <1>1, <1>8 DEF From, Delivered
<1>9. ASSUME h.result \in {"INPUT", "OUTPUT", "error"}
      PROVE  Ahead(s, h, From, to, Done)
  <2>1. CASE b.result = "ok"
    <3>1. got = <<>> /\ h.wire = b.wire /\ h.flight = b.flight
      BY <1>3, <1>4, <1>9, <2>1
    <3>2. QED BY <1>3, <3>1 DEF Ahead
  <2>2. CASE b.result # "ok"
    BY <1>3, <2>2
  <2>3. QED BY <2>1, <2>2
<1>10. CASE h.result \in {"INPUT", "OUTPUT"}
  <2>1. data' = [data EXCEPT ![s].input = h.result] /\ UNCHANGED <<pending, received, reader>>
    BY <1>10 DEF Outcome
  <2>2. /\ data' \in [Side -> TlsStreams] /\ data'[s].input_closed = data[s].input_closed
        /\ \A x \in Side : data'[x].buffer = data[x].buffer /\ data'[x].closed = data[x].closed
        /\ \A x \in Side : x # s => data'[x] = data[x]
    <3>1. h.result \in Results
      BY <1>10 DEF Results
    <3>2. QED BY <1>1, <2>1, <3>1, InputSet
  <2>3. TlsTypes'
    BY <1>1, <1>5, <2>1, <2>2 DEF TlsTypes, External, Calls
  <2>4. Takes(s, h) /\ Delivered(s)'
    BY <1>2, <1>8, <1>9, <1>10, <2>1 DEF Takes
  <2>5. ~data'[s].input_closed /\ reader'[s] # "done"
    BY <2>1, <2>2
  <2>6. QED BY <1>5, <1>6, <2>1, <2>2, <2>3, <2>4, <2>5, ReaderStep
<1>11. CASE h.result = "error"
  <2>1. reader' = [reader EXCEPT ![s] = "failed"] /\ UNCHANGED <<pending, received, data>>
    BY <1>11 DEF Outcome
  <2>2. reader' \in [Side -> {"read", "done", "failed"}] /\ reader'[s] # "done" /\ \A x \in Side : x # s => reader'[x] = reader[x]
    BY <1>1, <2>1 DEF TlsTypes
  <2>3. TlsTypes'
    BY <1>1, <1>5, <2>1, <2>2 DEF TlsTypes, External, Calls
  <2>4. Takes(s, h) /\ Delivered(s)'
    BY <1>2, <1>8, <1>9, <1>11, <2>1 DEF Takes
  <2>5. QED BY <1>5, <1>6, <2>1, <2>2, <2>3, <2>4, ReaderStep
<1>12. CASE h.result = "end"
  <2>1. data' = [data EXCEPT ![s].input_closed = TRUE] /\ UNCHANGED <<pending, received, reader>>
    BY <1>12 DEF Outcome
  <2>2. b.result = "ok"
    BY <1>3, <1>12
  <2>3. got # <<>> /\ Head(got).type = "close" /\ Tail(got) = <<>> /\ writer[p] = "done"
    BY <1>4, <1>12, <2>2 DEF Done
  <2>4. PICK c \in Nat : Holds(Head(got), From[p], c) /\ Ahead(s, h, [From EXCEPT ![p] = c], to, Done)
    BY <1>4, <2>2, <2>3
  <2>5. [From EXCEPT ![p] = c] = From
    <3>1. c = From[p]
      BY <2>3, <2>4 DEF Holds
    <3>2. QED BY <1>1, <3>1
  <2>6. Takes(s, h) /\ Delivered(s)'
    BY <1>2, <1>8, <2>1, <2>4, <2>5 DEF Takes
  <2>7. /\ data' \in [Side -> TlsStreams]
        /\ \A x \in Side : data'[x].buffer = data[x].buffer /\ data'[x].closed = data[x].closed
        /\ \A x \in Side : x # s => data'[x] = data[x]
    <3> DEFINE d == [data[s] EXCEPT !.input_closed = TRUE]
    <3>1. d \in TlsStreams /\ d.buffer = data[s].buffer /\ d.closed = data[s].closed
      BY <1>1 DEF TlsTypes, TlsStreams
    <3>2. data' = [data EXCEPT ![s] = d]
      BY <1>1, <2>1 DEF TlsTypes
    <3> HIDE DEF d
    <3>3. QED BY <1>1, <3>1, <3>2 DEF TlsTypes
  <2>8. TlsTypes'
    BY <1>1, <1>5, <2>1, <2>7 DEF TlsTypes, External, Calls
  <2>9. TlsEnded(s)'
    <3>1. flight'[s] = Negotiated /\ wire' = h.wire
      BY <1>1, <1>4, <2>2 DEF External, TlsTypes
    <3>2. h.wire[p] = Tail(got)
      BY <1>1, <1>3, <1>4, <2>2, <2>3 DEF Calls
    <3>3. QED BY <1>1, <2>1, <2>3, <3>1, <3>2 DEF TlsEnded
  <2>10. reader'[s] # "done"
    BY <2>1
  <2>11. QED BY <1>5, <1>6, <2>1, <2>6, <2>7, <2>8, <2>9, <2>10, ReaderStep
<1>13. QED BY <1>5, <1>7, <1>10, <1>11, <1>12 DEF Calls, Results

LEMMA ReadKeeps ==
  ASSUME TwoEnds, TlsInv, NEW s \in Side, Read(s)
  PROVE  TlsInv'
<1>1. /\ reader[s] = "read" /\ ~data[s].closed /\ ~data[s].input_closed /\ UNCHANGED <<fin, writer, accepted>>
  BY DEF Read
<1>2. CASE /\ pending[s] # <<>> /\ Take(s, pending[s])
           /\ data' = [data EXCEPT ![s].input = "INPUT"]
           /\ UNCHANGED <<flight, wire, reader, waits>>
  BY <1>1, <1>2, ReadPending
<1>3. CASE /\ pending[s] = <<>>
           /\ \E b \in {Begun(s)} : \E h \in {IF b.result = "ok" THEN NextRecord(s, b) ELSE b} :
                 External(s, h) /\ Outcome(s, b, h)
  BY <1>1, <1>3, ReadRecord
<1>4. QED BY <1>2, <1>3 DEF Read, Outcome

\* Steps that leave the connection and the data alone.
LEMMA CarriedKept ==
  ASSUME Carried, UNCHANGED <<flight, wire, data, writer, accepted, received, pending>>
  PROVE  Carried'
BY DEF Carried, Connected, Shaken, Stored, From, Done

LEMMA WaitsKeep ==
  ASSUME TlsInv, UNCHANGED <<flight, pending, wire, fin, data, writer, reader, accepted, received>>
  PROVE  TlsInv'
<1>1. Carried'
  BY CarriedKept DEF TlsInv
<1>2. TlsTypes' /\ \A s \in Side : Delivered(s)' /\ Known(s)'
  BY DEF TlsInv, TlsTypes, Delivered, Known, TlsEnded
<1>3. QED BY <1>1, <1>2 DEF TlsInv

LEMMA AtEndKeeps ==
  ASSUME TwoEnds, TlsInv, NEW s \in Side, AtEnd(s)
  PROVE  TlsInv'
<1>1. /\ TlsTypes /\ (data[s].closed \/ data[s].input_closed)
      /\ reader' = [reader EXCEPT ![s] = "done"]
      /\ UNCHANGED <<flight, pending, wire, fin, data, writer, accepted, received>>
  BY DEF TlsInv, AtEnd
<1>2. Carried'
  BY <1>1, CarriedKept DEF TlsInv
<1>3. TlsTypes' /\ \A x \in Side : x # s => reader'[x] = reader[x]
  BY <1>1 DEF TlsTypes
<1>4. \A x \in Side : Delivered(x)'
  BY <1>1 DEF TlsInv, Delivered
<1>5. \A x \in Side : Known(x)'
  <2> SUFFICES ASSUME NEW x \in Side PROVE Known(x)'
    OBVIOUS
  <2>1. Known(x) /\ (reader'[x] = "done" => reader[x] = "done" \/ data[x].closed \/ data[x].input_closed)
    BY <1>1, <1>3 DEF TlsInv
  <2>2. QED BY <1>1, <2>1 DEF Known, TlsEnded
<1>6. QED BY <1>2, <1>3, <1>4, <1>5 DEF TlsInv

LEMMA LaterKeeps ==
  ASSUME TwoEnds, TlsInv, NEW s \in Side, Later(s)
  PROVE  TlsInv'
<1>1. /\ TlsTypes /\ Known(s) /\ writer[s] \in {"later", "asked"}
      /\ UNCHANGED <<flight, pending, wire, fin, data, reader, accepted, received>>
      /\ writer' = [writer EXCEPT ![s] = "write"] \/ writer' = [writer EXCEPT ![s] = "close"]
  BY DEF TlsInv, Later
<1>2. ~data[s].closed /\ writer[s] # "done"
  BY <1>1 DEF Known
<1>3. writer' \in [Side -> WriterPlaces] /\ writer'[s] # "done" /\ \A x \in Side : x # s => writer'[x] = writer[x]
  BY <1>1 DEF TlsTypes, WriterPlaces
<1>4. QED BY <1>1, <1>2, <1>3, WriterMoves

LEMMA AbandonKeeps ==
  ASSUME TwoEnds, TlsInv, NEW s \in Side, Abandon(s)
  PROVE  TlsInv'
<1> DEFINE d == [data[s] EXCEPT !.closed = TRUE, !.input_closed = TRUE, !.output_closed = TRUE, !.buffer = <<>>]
<1>1. /\ TlsTypes /\ writer[s] # "done" /\ fin' = [fin EXCEPT ![s] = TRUE] /\ writer' = [writer EXCEPT ![s] = "gone"]
      /\ UNCHANGED <<flight, pending, wire, reader, accepted, received>>
  BY DEF TlsInv, Abandon
<1>2. d \in TlsStreams /\ d.closed /\ d.buffer = <<>>
  <2>1. <<>> \in Seq(Nat)
    OBVIOUS
  <2>2. QED BY <1>1, <2>1 DEF TlsTypes, TlsStreams
<1>3. data' = [data EXCEPT ![s] = d]
  BY <1>1 DEF Abandon, TlsTypes
<1> HIDE DEF d
<1>4. TlsTypes'
  BY <1>1, <1>2, <1>3 DEF TlsTypes, WriterPlaces
<1>5. data'[s] = d /\ writer'[s] = "gone" /\ \A x \in Side : x # s => Untouched(x)
  BY <1>1, <1>3 DEF TlsTypes, Untouched
<1>6. Done' = Done
  BY <1>1, <1>4, <1>5, DoneIs DEF Untouched
<1>7. Carried'
  <2>1. PICK to \in [Side -> Nat] : Connected(flight, wire, From, to, Done) /\ \A x \in Side : Stored(x, to[x])
    BY DEF TlsInv, Carried
  <2>2. Connected(flight', wire', From', to, Done')
    BY <1>1, <1>6, <2>1 DEF From
  <2>3. Stored(s, to[s])'
    <3>1. Counts(accepted[s], 0) /\ Counts(<<>>, to[s]) /\ Len(<<>>) = 0 /\ to[s] \in Nat
      BY <2>1 DEF Stored, Counts
    <3>2. to[s] + Len(data[s].buffer) <= Len(accepted[s]) /\ Len(data[s].buffer) \in Nat /\ Len(accepted[s]) \in Nat
      BY <2>1 DEF Stored, Counts
    <3>3. to[s] + Len(<<>>) <= Len(accepted[s])
      BY <3>1, <3>2
    <3>4. data'[s].buffer = <<>> /\ data'[s].closed /\ accepted'[s] = accepted[s]
      BY <1>1, <1>2, <1>5
    <3>5. QED BY <3>1, <3>3, <3>4 DEF Stored
  <2>4. \A x \in Side : Stored(x, to[x])'
    BY <1>1, <1>5, <2>1, <2>3 DEF Stored, Untouched
  <2>5. QED BY <2>2, <2>4 DEF Carried
<1>8. \A x \in Side : Delivered(x)'
  BY <1>1 DEF TlsInv, Delivered
<1>9. Known(s)'
  BY <1>2, <1>5 DEF Known
<1>10. \A x \in Side : x # s => Known(x)'
  <2> SUFFICES ASSUME NEW x \in Side, x # s PROVE Known(x)'
    OBVIOUS
  <2>1. Known(x) /\ Untouched(x) /\ Peer(x) = s
    BY <1>5 DEF TlsInv, TwoEnds, Server
  <2>2. ~TlsEnded(x)
    BY <1>1, <2>1 DEF TlsEnded
  <2>3. QED BY <1>1, <2>1, <2>2 DEF Known, Untouched
<1>11. QED BY <1>4, <1>7, <1>8, <1>9, <1>10 DEF TlsInv

LEMMA TlsInitially ==
  ASSUME TwoEnds, Init
  PROVE  TlsInv
<1>1. TlsTypes
  <2>1. <<>> \in Seq(Nat) /\ <<>> \in Seq(Records)
    OBVIOUS
  <2>2. 1 \in 1..Negotiated
    BY DEF Negotiated, Flights
  <2>3. data \in [Side -> TlsStreams]
    BY <2>1 DEF Init, TlsStreams, Results
  <2>4. writer \in [Side -> WriterPlaces] /\ reader \in [Side -> {"read", "done", "failed"}]
    BY DEF Init, WriterPlaces
  <2>5. QED BY <2>1, <2>2, <2>3, <2>4 DEF Init, TlsTypes
<1>2. \A s \in Side : received[s] = <<>> /\ pending[s] = <<>> /\ accepted[s] = <<>> /\ wire[s] = <<>> /\ data[s].buffer = <<>>
      /\ ~data[s].closed /\ ~data[s].input_closed /\ reader[s] # "done" /\ writer[s] # "done" /\ flight[s] = 1
  BY DEF Init
<1>3. \A a \in Nat : Counts(<<>>, a)
  BY DEF Counts
<1>4. Carried
  <2> DEFINE to == [x \in Side |-> 0]
  <2>1. From = [x \in Side |-> 0]
    <3>1. ASSUME NEW x \in Side PROVE Len(received[Peer(x)]) + Len(pending[Peer(x)]) = 0
      <4>1. received[Peer(x)] = <<>> /\ pending[Peer(x)] = <<>>
        BY <1>2 DEF TwoEnds, Server
      <4>2. Len(<<>>) + Len(<<>>) = 0
        OBVIOUS
      <4>3. QED BY <4>1, <4>2
    <3>2. QED BY <3>1, Zenon DEF From
  <2>2. Shaken(flight, wire)
    BY <1>2 DEF Shaken, Shake, TwoEnds
  <2>3. Chain(<<>>, 0, 0)
    <3> DEFINE cut == [i \in 0..0 |-> 0]
    <3>1. cut \in [0..Len(<<>>) -> Nat] /\ cut[0] = 0 /\ cut[Len(<<>>)] = 0 /\ \A i \in 0..Len(<<>>) : cut[i] <= 0
      OBVIOUS
    <3>2. \A i \in 1..Len(<<>>) : FALSE
      OBVIOUS
    <3> HIDE DEF cut
    <3>3. Cuts(<<>>, 0, 0, cut)
      BY <3>1, <3>2 DEF Cuts
    <3>4. QED BY <3>1, <3>3 DEF Chain
  <2>4. \A x \in Side : Sound(wire[x], From[x], to[x], x, Done)
    BY <1>2, <2>1, <2>3 DEF Sound, ClosedLast, Closes
  <2>5. Connected(flight, wire, From, to, Done)
    BY <1>1, <2>2, <2>4 DEF Connected, TlsTypes
  <2>6. \A x \in Side : Stored(x, to[x])
    BY <1>2, <1>3 DEF Stored
  <2>7. to \in [Side -> Nat]
    OBVIOUS
  <2>8. QED BY <2>5, <2>6, <2>7 DEF Carried
<1>5. \A s \in Side : Delivered(s) /\ Known(s)
  BY <1>2, <1>3 DEF Delivered, Known
<1>6. QED BY <1>1, <1>4, <1>5 DEF TlsInv

\* For two ends, any amount of data, any size of the buffer and any room in the
\* connection: the records on the way and what the buffers hold are, without a
\* gap, what has been accepted and not read yet, no call takes a record of the
\* data for one of the handshake, and nothing follows a close_notify (TClient).
THEOREM TlsInvariant ==
  ASSUME TwoEnds
  PROVE  Spec => []TlsInv
<1>1. Init => TlsInv
  BY TlsInitially
<1>2. TlsInv /\ [Next]_vars => TlsInv'
  <2> SUFFICES ASSUME TlsInv, [Next]_vars PROVE TlsInv'
    OBVIOUS
  <2>1. CASE UNCHANGED vars
    BY <2>1, WaitsKeep DEF vars
  <2>2. ASSUME NEW s \in Side, Acts(s) \/ Reads(s) \/ WaitsFirst(s) \/ Abandon(s) \/ Poll(s)
        PROVE  TlsInv'
    <3>1. CASE Negotiate(s)
      BY <3>1, NegotiateKeeps
    <3>2. CASE Write(s)
      BY <3>2, WriteKeeps
    <3>3. CASE Flush(s)
      BY <3>3, FlushKeeps
    <3>4. CASE CloseOutput(s)
      BY <3>4, CloseOutputKeeps
    <3>5. CASE Read(s)
      BY <3>5, ReadKeeps
    <3>6. CASE AtEnd(s)
      BY <3>6, AtEndKeeps
    <3>7. CASE Later(s)
      BY <3>7, LaterKeeps
    <3>8. CASE WaitsFirst(s)
      BY <3>8, WaitsKeep DEF WaitsFirst
    <3>9. CASE Abandon(s)
      BY <3>9, AbandonKeeps
    <3>10. CASE Poll(s)
      BY <3>10, WaitsKeep DEF Poll
    <3>11. QED BY <2>2, <3>1, <3>2, <3>3, <3>4, <3>5, <3>6, <3>7, <3>8, <3>9, <3>10 DEF Acts, Reads
  <2>3. QED BY <2>1, <2>2 DEF Next
<1>3. QED BY <1>1, <1>2, PTL DEF Spec

\* For two ends, any amount of data, any size of the buffer and any room in the
\* connection: what is read is what was written, in order, and a stream that
\* ends, rather than fails, has been read to the end the other side gave it
\* (TClient::Read, Write, CloseOutput).
THEOREM StreamsAreKept ==
  ASSUME TwoEnds
  PROVE  Spec => []StreamKept
<1>1. TlsInv => StreamKept
  <2> SUFFICES ASSUME TlsInv, NEW s \in Side
               PROVE  /\ IsPrefix(received[s], accepted[Peer(s)])
                      /\ reader[s] = "done" /\ ~data[s].closed => received[s] = accepted[Peer(s)] /\ writer[Peer(s)] = "done"
    BY DEF StreamKept
  <2> DEFINE p == Peer(s)
             r == received[s]
             a == accepted[p]
             q == Len(pending[s])
             k == Len(data[p].buffer)
  <2>1. /\ TlsTypes /\ Known(s) /\ Delivered(s) /\ p \in Side /\ From[p] = Len(r) + Len(pending[s])
        /\ Len(r) \in Nat /\ Len(pending[s]) \in Nat /\ r \in Seq(Nat)
    BY ReaderFacts
  <2>2. PICK to \in [Side -> Nat] : Connected(flight, wire, From, to, Done) /\ \A x \in Side : Stored(x, to[x])
    BY DEF TlsInv, Carried
  <2>3. Chain(wire[p], From[p], to[p]) /\ wire[p] \in Seq(Records) /\ to[p] \in Nat
    BY <2>1, <2>2 DEF Connected, Sound
  <2>4. From[p] <= to[p]
    BY <2>3, ChainOrdered
  <2>5. Counts(a, 0) /\ Len(data[p].buffer) \in Nat /\ to[p] + Len(data[p].buffer) <= Len(a) /\ Len(a) \in Nat /\ a \in Seq(Nat)
    BY <2>1, <2>2 DEF Stored, Counts
  <2>6. Len(r) <= Len(a)
    <3>1. q \in Nat /\ k \in Nat /\ From[p] = Len(r) + q /\ to[p] + k <= Len(a) /\ Len(a) \in Nat /\ Len(r) \in Nat
      BY <2>1, <2>5
    <3> HIDE DEF q, k, r, a, p
    <3>2. QED BY <2>3, <2>4, <3>1
  <2>7. \A i \in 1..Len(r) : r[i] = a[i]
    <3>1. \A i \in 1..Len(r) : r[i] = 0 + i
      BY <2>1 DEF Delivered, Counts
    <3>2. \A i \in 1..Len(r) : i \in 1..Len(a)
      BY <2>1, <2>5, <2>6
    <3>3. \A i \in 1..Len(a) : a[i] = 0 + i
      BY <2>5 DEF Counts
    <3> HIDE DEF r, a
    <3>4. QED BY <3>1, <3>2, <3>3
  <2> HIDE DEF r, a
  <2>8. IsPrefix(r, a)
    <3>1. SubSeq(r, 1, Len(r)) = SubSeq(a, 1, Len(r))
      BY <2>1, <2>5, <2>6, <2>7
    <3>2. QED BY <2>6, <3>1 DEF IsPrefix
  <2>9. ASSUME reader[s] = "done", ~data[s].closed
        PROVE  r = a /\ writer[p] = "done"
    <3>1. TlsEnded(s) /\ Known(p)
      BY <2>1, <2>9 DEF Known, TlsInv
    <3>2. writer[p] = "done" /\ wire[p] = <<>> /\ pending[s] = <<>> /\ ~data[p].closed /\ data[p].buffer = <<>>
      BY <3>1 DEF TlsEnded, Known
    <3>3. From[p] = to[p]
      BY <2>3, <3>2, NothingHeld
    <3>4. to[p] + Len(data[p].buffer) = Len(a)
      BY <2>1, <2>2, <3>2 DEF Stored, a
    <3>5. Len(data[p].buffer) = 0 /\ Len(pending[s]) = 0
      BY <3>2
    <3>6. Len(r) = Len(a)
      BY <2>1, <2>3, <3>3, <3>4, <3>5
    <3>7. r = a
      BY <2>1, <2>5, <2>7, <3>6, SeqEqual
    <3>8. QED BY <3>2, <3>7
  <2>10. QED BY <2>8, <2>9 DEF r, a
<1>2. QED BY <1>1, TlsInvariant, PTL

-----------------------------------------------------------------------------
(* Sensors that share a bus                                                *)

SensorsAre == NoFiber \notin Sensors /\ Parasitic \subseteq Sensors /\ Conversion \in Nat

SensorPlaces == {"idle", "trigger", "command", "measure", "fetch", "answer"}
WireTypes ==
    /\ kind \in {"bit-banged", "chip"} /\ now \in Nat /\ pause_until \in Int
    /\ strong \in BOOLEAN /\ configuration \in BOOLEAN
    /\ owner \in Sensors \cup {NoFiber} /\ pc \in [Sensors -> SensorPlaces]
    /\ wake \in [Sensors -> Int] /\ measuring \in [Sensors -> Int]
    /\ read \in [Sensors -> {"none", "value", "garbage"}]
\* Only the owner of the chip is between the two halves of its transaction.
Between(s) == pc[s] \in {"command", "answer"}
Owned ==
    /\ kind = "bit-banged" => owner = NoFiber
    /\ \A s \in Sensors : Between(s) => owner = s
    /\ \A s \in Sensors : owner = s => Between(s) \/ pc[s] \in {"trigger", "fetch"}
\* A sensor that measures with the power of the bus keeps everybody else away
\* for as long: who owns the chip waits at least until then.
Measures(s) == pc[s] = "measure" /\ now < wake[s]
Powered ==
    \A s \in Parasitic :
        Measures(s) => /\ strong /\ pause_until = wake[s]
                       /\ owner # NoFiber => ~Between(owner) /\ wake[owner] >= wake[s]
\* A fiber wakes when its sensor has measured, and finds that.
Measured ==
    \A s \in Sensors : /\ pc[s] = "measure" => measuring[s] = wake[s] /\ wake[s] >= 0
                       /\ pc[s] \in {"fetch", "answer"} => measuring[s] >= 0 /\ measuring[s] <= now
                       /\ read[s] # "garbage"
WireInv == WireTypes /\ Owned /\ Powered /\ Measured

\* Time passes, and fibers wait.
LEMMA WaitingKeeps ==
  ASSUME SensorsAre, WireInv, Tick \/ \E s \in Sensors : PollSensor(s) \/ Slept(s)
  PROVE  WireInv'
<1> USE SensorsAre DEF SensorsAre
<1>1. CASE Tick
  <2>1. WireTypes'
    BY <1>1 DEF Tick, WireInv, WireTypes
  <2>2. Owned'
    BY <1>1 DEF Tick, WireInv, Owned, Between
  <2>3. Powered'
    <3> SUFFICES ASSUME NEW s \in Parasitic, Measures(s)'
                 PROVE  (strong /\ pause_until = wake[s] /\ (owner # NoFiber => ~Between(owner) /\ wake[owner] >= wake[s]))'
      BY DEF Powered
    <3>1. Measures(s)
      BY <1>1 DEF Tick, WireInv, WireTypes, Measures
    <3>2. QED BY <1>1, <3>1 DEF Tick, WireInv, Powered, Between
  <2>4. Measured'
    BY <1>1 DEF Tick, WireInv, WireTypes, Measured
  <2>5. QED BY <2>1, <2>2, <2>3, <2>4 DEF WireInv
<1>2. ASSUME NEW s \in Sensors, PollSensor(s) PROVE WireInv'
  <2>0. owner # s
    BY <1>2 DEF PollSensor, WireInv, Owned, Between
  <2>1. WireTypes'
    BY <1>2 DEF PollSensor, Go, WireInv, WireTypes, SensorPlaces
  <2>2. Owned'
    BY <1>2, <2>0 DEF PollSensor, Go, WireInv, WireTypes, Owned, Between
  <2>3. Powered'
    BY <1>2, <2>0 DEF PollSensor, Go, WireInv, WireTypes, Powered, Measures, Between
  <2>4. Measured'
    BY <1>2 DEF PollSensor, Go, WireInv, WireTypes, Measured
  <2>5. QED BY <2>1, <2>2, <2>3, <2>4 DEF WireInv
<1>3. ASSUME NEW s \in Sensors, Slept(s) PROVE WireInv'
  <2>0. owner # s
    BY <1>3 DEF Slept, WireInv, Owned, Between
  <2>1. WireTypes'
    BY <1>3 DEF Slept, Go, WireInv, WireTypes, SensorPlaces
  <2>2. Owned'
    BY <1>3, <2>0 DEF Slept, Go, WireInv, WireTypes, Owned, Between
  <2>3. Powered'
    BY <1>3, <2>0 DEF Slept, Go, WireInv, WireTypes, Powered, Measures, Between
  <2>4. Measured'
    BY <1>3 DEF Slept, Go, WireInv, WireTypes, Measured
  <2>5. QED BY <2>1, <2>2, <2>3, <2>4 DEF WireInv
<1>4. QED BY <1>1, <1>2, <1>3

\* A transaction of s, which nobody measures at: what it leaves on the bus.
NonePowered == \A s \in Parasitic : ~Measures(s)
LEMMA DisturbedIs ==
  ASSUME WireTypes, NonePowered
  PROVE  /\ Disturbed \in [Sensors -> Int]
         /\ \A s \in Sensors : Disturbed[s] # measuring[s] =>
                s \in Parasitic /\ measuring[s] > now /\ Disturbed[s] = Never
BY DEF WireTypes, Disturbed, Never

LEMMA TransactionKeeps ==
  ASSUME SensorsAre, WireInv, NonePowered, NEW s \in Sensors,
         \/ pc[s] \in {"trigger", "command"} /\ Triggered(s) /\ read' = read
         \/ pc[s] \in {"fetch", "answer"} /\ Fetched(s),
         UNCHANGED <<kind, now>>, owner' = NoFiber, owner \in {s, NoFiber}
  PROVE  WireInv'
<1> USE SensorsAre DEF SensorsAre
<1>1. WireTypes /\ Owned /\ Measured
  BY DEF WireInv
<1>2. /\ Disturbed \in [Sensors -> Int]
      /\ \A x \in Sensors : Disturbed[x] # measuring[x] => x \in Parasitic /\ measuring[x] > now /\ Disturbed[x] = Never
  BY <1>1, DisturbedIs
<1>3. \A x \in Sensors : x # s => ~Between(x)
  BY <1>1 DEF Owned
<1>4. \A x \in Sensors : pc[x] = "measure" => Disturbed[x] = wake[x] /\ wake[x] >= 0
  BY <1>1, <1>2 DEF Measured, NonePowered, Measures, WireTypes
<1>5. \A x \in Sensors : pc[x] \in {"fetch", "answer"} => Disturbed[x] = measuring[x] /\ measuring[x] >= 0 /\ measuring[x] <= now
  BY <1>1, <1>2 DEF Measured, WireTypes
<1> DEFINE D == Disturbed
<1>6. D \in [Sensors -> Int]
  BY <1>2
<1>7. CASE pc[s] \in {"trigger", "command"} /\ Triggered(s) /\ read' = read
  <2>1. /\ measuring' = [D EXCEPT ![s] = now + Conversion] /\ wake' = [wake EXCEPT ![s] = now + Conversion]
        /\ pc' = [pc EXCEPT ![s] = "measure"] /\ read' = read
        /\ s \in Parasitic => strong' = TRUE /\ pause_until' = now + Conversion
        /\ pause_until' \in {now + Conversion, Never}
        /\ strong' \in BOOLEAN /\ configuration' \in BOOLEAN
    BY <1>7 DEF Triggered, Go
  <2>2. now + Conversion \in Nat /\ now \in Nat /\ now' = now
    BY <1>1 DEF WireTypes
  <2>3. \A x \in Sensors : /\ measuring'[x] = (IF x = s THEN now + Conversion ELSE D[x])
                           /\ wake'[x] = (IF x = s THEN now + Conversion ELSE wake[x])
                           /\ pc'[x] = (IF x = s THEN "measure" ELSE pc[x])
    BY <1>1, <1>6, <2>1 DEF WireTypes
  <2>4. WireTypes'
    <3>1. measuring' \in [Sensors -> Int] /\ wake' \in [Sensors -> Int] /\ pc' \in [Sensors -> SensorPlaces]
      BY <1>1, <1>6, <2>1, <2>2 DEF WireTypes, SensorPlaces
    <3>2. pause_until' \in Int
      BY <2>1, <2>2 DEF Never
    <3>3. QED BY <1>1, <2>1, <3>1, <3>2 DEF WireTypes
  <2>5. Owned'
    BY <1>1, <1>3, <2>3 DEF Owned, Between
  <2>6. Powered'
    BY <2>1, <2>2, <2>3 DEF Powered, Measures, NonePowered
  <2>7. Measured'
    <3> SUFFICES ASSUME NEW x \in Sensors
                 PROVE  /\ pc'[x] = "measure" => measuring'[x] = wake'[x] /\ wake'[x] >= 0
                        /\ pc'[x] \in {"fetch", "answer"} => measuring'[x] >= 0 /\ measuring'[x] <= now'
                        /\ read'[x] # "garbage"
      BY DEF Measured
    <3> HIDE DEF D
    <3>1. read'[x] # "garbage"
      BY <1>1, <2>1 DEF Measured
    <3>2. CASE x = s
      BY <2>2, <2>3, <3>1, <3>2
    <3>3. CASE x # s
      BY <1>4, <1>5, <2>2, <2>3, <3>1, <3>3 DEF D
    <3>4. QED BY <3>2, <3>3
  <2>8. QED BY <2>4, <2>5, <2>6, <2>7 DEF WireInv
<1>8. CASE pc[s] \in {"fetch", "answer"} /\ Fetched(s)
  <2>0. measuring[s] >= 0 /\ measuring[s] <= now /\ measuring[s] # Never
    BY <1>5, <1>8, <1>1 DEF Never, WireTypes
  <2>1. /\ measuring' = [D EXCEPT ![s] = Never] /\ wake' = [wake EXCEPT ![s] = 0]
        /\ pc' = [pc EXCEPT ![s] = "idle"] /\ read' = [read EXCEPT ![s] = "value"]
        /\ pause_until' = Never /\ strong' \in BOOLEAN /\ configuration' \in BOOLEAN
    BY <1>8, <2>0 DEF Fetched, Go
  <2>2. now \in Nat /\ now' = now
    BY <1>1 DEF WireTypes
  <2>3. \A x \in Sensors : /\ measuring'[x] = (IF x = s THEN Never ELSE D[x])
                           /\ wake'[x] = (IF x = s THEN 0 ELSE wake[x])
                           /\ pc'[x] = (IF x = s THEN "idle" ELSE pc[x])
                           /\ read'[x] = (IF x = s THEN "value" ELSE read[x])
    BY <1>1, <1>6, <2>1 DEF WireTypes
  <2>4. WireTypes'
    <3>1. /\ measuring' \in [Sensors -> Int] /\ wake' \in [Sensors -> Int] /\ pc' \in [Sensors -> SensorPlaces]
          /\ read' \in [Sensors -> {"none", "value", "garbage"}]
      BY <1>1, <1>6, <2>1 DEF WireTypes, SensorPlaces, Never
    <3>2. QED BY <1>1, <2>1, <3>1 DEF WireTypes, Never
  <2>5. Owned'
    BY <1>1, <1>3, <2>3 DEF Owned, Between
  <2>6. Powered'
    BY <2>2, <2>3 DEF Powered, Measures, NonePowered
  <2>7. Measured'
    <3> SUFFICES ASSUME NEW x \in Sensors
                 PROVE  /\ pc'[x] = "measure" => measuring'[x] = wake'[x] /\ wake'[x] >= 0
                        /\ pc'[x] \in {"fetch", "answer"} => measuring'[x] >= 0 /\ measuring'[x] <= now'
                        /\ read'[x] # "garbage"
      BY DEF Measured
    <3> HIDE DEF D
    <3>1. read'[x] # "garbage"
      BY <1>1, <2>3 DEF Measured
    <3>2. CASE x = s
      BY <2>2, <2>3, <3>1, <3>2
    <3>3. CASE x # s
      BY <1>4, <1>5, <2>2, <2>3, <3>1, <3>3 DEF D
    <3>4. QED BY <3>2, <3>3
  <2>8. QED BY <2>4, <2>5, <2>6, <2>7 DEF WireInv
<1>9. QED BY <1>7, <1>8

LEMMA UseKeeps ==
  ASSUME SensorsAre, WireInv, NEW s \in Sensors, Exchange(s) \/ Transact(s)
  PROVE  WireInv'
<1> USE SensorsAre DEF SensorsAre
<1>1. CASE Exchange(s)
  <2>1. NonePowered
    BY <1>1 DEF Exchange, Paused, NonePowered, WireInv, WireTypes, Powered, Measures
  <2>2. owner = NoFiber /\ owner' = NoFiber /\ UNCHANGED <<kind, now>>
    BY <1>1 DEF Exchange, WireInv, Owned
  <2>3. \/ pc[s] \in {"trigger", "command"} /\ Triggered(s) /\ read' = read
        \/ pc[s] \in {"fetch", "answer"} /\ Fetched(s)
    BY <1>1 DEF Exchange
  <2>4. QED BY <2>1, <2>2, <2>3, TransactionKeeps
<1>2. CASE Transact(s)
  <2>1. \/ pc[s] \in {"trigger", "command"} /\ Triggered(s) /\ read' = read
        \/ pc[s] \in {"fetch", "answer"} /\ Fetched(s)
    BY <1>2 DEF Transact
  <2>2. owner = s /\ owner' = NoFiber /\ UNCHANGED <<kind, now>> /\ Between(s)
    BY <1>2 DEF Transact, Between
  <2>3. NonePowered
    BY <2>2 DEF WireInv, Powered, NonePowered
  <2>4. QED BY <2>1, <2>2, <2>3, TransactionKeeps
<1>3. QED BY <1>1, <1>2

\* The chip: waiting for it and for the pause, and failing.
LEMMA ChipKeeps ==
  ASSUME SensorsAre, WireInv, NEW s \in Sensors, Acquire(s) \/ Prepare(s) \/ Failed(s)
  PROVE  WireInv'
<1> USE SensorsAre DEF SensorsAre
<1>0. WireTypes /\ Owned /\ Powered /\ Measured
  BY DEF WireInv
<1>1. CASE Acquire(s)
  <2>1. /\ owner = NoFiber /\ owner' = s /\ pc[s] \in {"trigger", "fetch"} /\ wake' = [wake EXCEPT ![s] = pause_until]
        /\ kind = "chip" /\ UNCHANGED <<kind, now, pause_until, strong, configuration, pc, measuring, read>>
    BY <1>1 DEF Acquire
  <2>2. \A x \in Sensors : wake'[x] = IF x = s THEN pause_until ELSE wake[x]
    BY <1>0, <2>1 DEF WireTypes
  <2>3. WireTypes'
    BY <1>0, <2>1 DEF WireTypes
  <2>4. Owned'
    BY <1>0, <2>1 DEF Owned, Between
  <2>5. Powered'
    BY <1>0, <2>1, <2>2 DEF Powered, Measures, Between, WireTypes
  <2>6. Measured'
    BY <1>0, <2>1, <2>2 DEF Measured
  <2>7. QED BY <2>3, <2>4, <2>5, <2>6 DEF WireInv
<1>2. CASE Prepare(s)
  <2>1. /\ owner = s /\ pc[s] \in {"trigger", "fetch"} /\ wake[s] <= now
        /\ pc' = [pc EXCEPT ![s] = IF pc[s] = "trigger" THEN "command" ELSE "answer"]
        /\ measuring' = Disturbed /\ pause_until' = Never /\ configuration' = FALSE /\ strong' \in BOOLEAN
        /\ UNCHANGED <<kind, now, owner, wake, read>>
    BY <1>2, <1>0 DEF Prepare, Go, WireTypes
  <2>2. NonePowered
    <3> SUFFICES ASSUME NEW x \in Parasitic, Measures(x) PROVE FALSE
      BY DEF NonePowered
    <3>1. wake[s] >= wake[x]
      BY <1>0, <2>1 DEF Powered
    <3>2. now < wake[x] /\ now \in Nat /\ wake[x] \in Int /\ wake[s] \in Int
      BY <1>0 DEF Measures, WireTypes
    <3>3. QED BY <2>1, <3>1, <3>2
  <2>3. /\ Disturbed \in [Sensors -> Int]
        /\ \A x \in Sensors : Disturbed[x] # measuring[x] => x \in Parasitic /\ measuring[x] > now /\ Disturbed[x] = Never
    BY <1>0, <2>2, DisturbedIs
  <2>4. \A x \in Sensors : pc'[x] = IF x = s THEN IF pc[s] = "trigger" THEN "command" ELSE "answer" ELSE pc[x]
    BY <1>0, <2>1 DEF WireTypes
  <2>5. WireTypes'
    <3>1. pc' \in [Sensors -> SensorPlaces]
      BY <1>0, <2>1 DEF WireTypes, SensorPlaces
    <3>2. /\ wake' \in [Sensors -> Int] /\ measuring' \in [Sensors -> Int]
          /\ read' \in [Sensors -> {"none", "value", "garbage"}]
      BY <1>0, <2>1, <2>3 DEF WireTypes
    <3>3. now' \in Nat /\ pause_until' \in Int
      BY <1>0, <2>1 DEF WireTypes, Never
    <3>4. kind' \in {"bit-banged", "chip"} /\ owner' \in Sensors \cup {NoFiber}
      BY <1>0, <2>1 DEF WireTypes
    <3>5. strong' \in BOOLEAN /\ configuration' \in BOOLEAN
      BY <2>1
    <3>6. QED BY <3>1, <3>2, <3>3, <3>4, <3>5 DEF WireTypes
  <2>6. Owned'
    BY <1>0, <2>1, <2>4 DEF Owned, Between, WireTypes
  <2>7. Powered'
    BY <2>1, <2>2, <2>4 DEF Powered, NonePowered, Measures
  <2>8. Measured'
    <3> SUFFICES ASSUME NEW x \in Sensors
                 PROVE  /\ pc'[x] = "measure" => measuring'[x] = wake'[x] /\ wake'[x] >= 0
                        /\ pc'[x] \in {"fetch", "answer"} => measuring'[x] >= 0 /\ measuring'[x] <= now'
                        /\ read'[x] # "garbage"
      BY DEF Measured
    <3>1. pc[x] = "measure" => measuring[x] = wake[x] /\ wake[x] >= 0 /\ Disturbed[x] = measuring[x]
      BY <1>0, <2>2, <2>3 DEF Measured, NonePowered, Measures, WireTypes
    <3>2. pc[x] \in {"fetch", "answer"} => measuring[x] >= 0 /\ measuring[x] <= now /\ Disturbed[x] = measuring[x]
      BY <1>0, <2>3 DEF Measured, WireTypes
    <3>3. read[x] # "garbage"
      BY <1>0 DEF Measured
    <3>4. QED BY <2>1, <2>4, <3>1, <3>2, <3>3
  <2>9. QED BY <2>5, <2>6, <2>7, <2>8 DEF WireInv
<1>3. CASE Failed(s)
  <2>1. /\ owner = s /\ owner' = NoFiber /\ pc[s] \in {"command", "answer"} /\ pc' = [pc EXCEPT ![s] = "idle"]
        /\ wake' = [wake EXCEPT ![s] = 0] /\ UNCHANGED <<kind, now, pause_until, read>>
        /\ measuring' \in {measuring, [measuring EXCEPT ![s] = now + Conversion]}
        /\ strong' \in BOOLEAN /\ configuration' \in BOOLEAN
    BY <1>3, <1>0 DEF Failed, Go, WireTypes
  <2>2. NonePowered
    BY <1>0, <2>1 DEF Powered, NonePowered, Between
  <2>3. \A x \in Sensors : /\ pc'[x] = (IF x = s THEN "idle" ELSE pc[x]) /\ wake'[x] = (IF x = s THEN 0 ELSE wake[x])
                           /\ x # s => measuring'[x] = measuring[x]
    BY <1>0, <2>1 DEF WireTypes
  <2>4. WireTypes'
    <3>1. pc' \in [Sensors -> SensorPlaces] /\ wake' \in [Sensors -> Int]
      BY <1>0, <2>1 DEF WireTypes, SensorPlaces
    <3>2. measuring' \in [Sensors -> Int]
      BY <1>0, <2>1 DEF WireTypes
    <3>3. QED BY <1>0, <2>1, <3>1, <3>2 DEF WireTypes
  <2>5. Owned'
    BY <1>0, <2>1, <2>3 DEF Owned, Between
  <2>6. Powered'
    BY <2>1, <2>2, <2>3 DEF Powered, NonePowered, Measures
  <2>7. Measured'
    BY <1>0, <2>1, <2>3 DEF Measured
  <2>8. QED BY <2>4, <2>5, <2>6, <2>7 DEF WireInv
<1>4. QED BY <1>1, <1>2, <1>3

\* For any sensors and any time a measurement takes: who owns the bus, and what
\* a fiber may rely on while its sensor measures and afterwards.
THEOREM WireInvariant ==
  ASSUME SensorsAre
  PROVE  WireSpec => []WireInv
<1> USE SensorsAre
<1>1. WireInit => WireInv
  <2> SUFFICES ASSUME WireInit PROVE WireInv
    OBVIOUS
  <2>1. \A s \in Sensors : pc[s] = "idle" /\ read[s] = "none"
    BY DEF WireInit
  <2>2. WireTypes
    <3>1. pc \in [Sensors -> SensorPlaces] /\ read \in [Sensors -> {"none", "value", "garbage"}]
      BY DEF WireInit, SensorPlaces
    <3>2. now \in Nat /\ pause_until \in Int /\ wake \in [Sensors -> Int] /\ measuring \in [Sensors -> Int]
      BY DEF WireInit, Never
    <3>3. QED BY <3>1, <3>2 DEF WireInit, WireTypes
  <2>3. owner = NoFiber
    BY DEF WireInit
  <2>4. QED BY <2>1, <2>2, <2>3 DEF WireInv, Owned, Powered, Measured, Measures, Between, SensorsAre
<1>2. WireInv /\ [WireNext]_wireVars => WireInv'
  <2> SUFFICES ASSUME WireInv, [WireNext]_wireVars PROVE WireInv'
    OBVIOUS
  <2>1. CASE UNCHANGED wireVars
    BY <2>1 DEF wireVars, WireInv, WireTypes, Owned, Powered, Measured, Measures, Between
  <2>2. CASE WireNext
    BY <2>2, WaitingKeeps, UseKeeps, ChipKeeps DEF WireNext
  <2>3. QED BY <2>1, <2>2
<1>3. QED BY <1>1, <1>2, PTL DEF WireSpec

\* For any sensors and any time a measurement takes: a fiber that polls its
\* sensor reads what was measured, and nobody takes the power from a sensor that
\* measures (TW1BbBus, TDS2482Bus, TDS18X20::Poll).
THEOREM ReadingsAreTrue ==
  ASSUME SensorsAre
  PROVE  WireSpec => []ReadingsTrue
<1>1. WireInv => ReadingsTrue
  BY SensorsAre DEF WireInv, Powered, Measured, Measures, ReadingsTrue, SensorsAre
<1>2. QED BY <1>1, WireInvariant, PTL

-----------------------------------------------------------------------------
(* Induction                                                               *)

\* A set with 0 that is closed under the successor holds every natural number.
LEMMA SetInduction ==
  ASSUME NEW S, 0 \in S, \A n \in Nat : n \in S => n + 1 \in S
  PROVE  Nat \subseteq S
<1> SUFFICES ASSUME NEW n \in Nat, n \notin S
             PROVE  FALSE
  OBVIOUS
<1> DEFINE T == {k \in 0..n : k \notin S}
           f == [k \in T |-> k - 1]
<1>1. IsFiniteSet(T) /\ Cardinality(T) \in Nat /\ n \in T
  <2>1. IsFiniteSet(0..n) /\ T \in SUBSET (0..n)
    BY FS_Interval
  <2>2. IsFiniteSet(T)
    BY <2>1, FS_Subset
  <2>3. QED BY <2>2, FS_CardinalityType
<1>2. \A k \in T : k - 1 \in T \ {n}
  OBVIOUS
<1>3. f \in Injection(T, T \ {n})
  BY <1>2 DEF Injection, IsInjective
<1>4. IsFiniteSet(T \ {n}) /\ Cardinality(T \ {n}) = Cardinality(T) - 1
  BY <1>1, FS_RemoveElement
<1>5. Cardinality(T) <= Cardinality(T \ {n})
  BY <1>3, <1>4, FS_Injection
<1>6. QED BY <1>1, <1>4, <1>5

LEMMA LeastExists ==
  ASSUME NEW S \in SUBSET Nat, S # {}
  PROVE  \E m \in S : \A k \in S : m <= k
<1> SUFFICES ASSUME \A m \in S : \E k \in S : ~(m <= k)
             PROVE  FALSE
  OBVIOUS
<1> DEFINE T == {n \in Nat : \A k \in S : n <= k}
<1>1. 0 \in T
  OBVIOUS
<1>2. \A n \in Nat : n \in T => n + 1 \in T
  <2> SUFFICES ASSUME NEW n \in T, NEW k \in S, ~(n + 1 <= k)
               PROVE  FALSE
    OBVIOUS
  <2>1. n = k
    OBVIOUS
  <2>2. QED BY <2>1
<1>3. Nat \subseteq T
  <2> HIDE DEF T
  <2>1. QED BY <1>1, <1>2, SetInduction
<1>4. PICK k \in S : TRUE
  OBVIOUS
<1>5. k + 1 \in T
  BY <1>3
<1>6. QED BY <1>5

-----------------------------------------------------------------------------
(* The devices a search has selected                                       *)

BitsAre == Bits \in Nat \ {0}
\* d is u up to the bit before i.
Agrees(d, u, i) == \A j \in 1..(i - 1) : d[j] = u[j]

LEMMA UuidIs ==
  ASSUME BitsAre, NEW u \in UUIDs
  PROVE  /\ Len(u) = Bits /\ \A i \in 1..Bits : u[i] \in {0, 1}
         /\ \A v \in UUIDs : (\A i \in 1..Bits : u[i] = v[i]) => u = v
         /\ \A i \in 1..Bits : \A b \in {0, 1} :
              /\ [u EXCEPT ![i] = b] \in UUIDs
              /\ \A j \in 1..Bits : [u EXCEPT ![i] = b][j] = IF j = i THEN b ELSE u[j]
<1>1. u \in [1..Bits -> {0, 1}] /\ Bits \in Nat
  BY DEF UUIDs, BitsAre
<1>2. u \in Seq({0, 1}) /\ DOMAIN u = 1..Bits
  BY <1>1
<1>3. Len(u) \in Nat /\ DOMAIN u = 1..Len(u)
  BY <1>2
<1>4. Len(u) = Bits
  BY <1>1, <1>2, <1>3
<1>5. \A v \in UUIDs : (\A i \in 1..Bits : u[i] = v[i]) => u = v
  BY <1>1 DEF UUIDs
<1>6. ASSUME NEW i \in 1..Bits, NEW b \in {0, 1}
      PROVE  /\ [u EXCEPT ![i] = b] \in UUIDs
             /\ \A j \in 1..Bits : [u EXCEPT ![i] = b][j] = IF j = i THEN b ELSE u[j]
  BY <1>1 DEF UUIDs
<1>7. QED BY <1>1, <1>4, <1>5, <1>6

LEMMA SelectedIs ==
  ASSUME BitsAre, NEW P \in SUBSET UUIDs, NEW u \in UUIDs
  PROVE  /\ Selected(P, u, 1) = P
         /\ Selected(P, u, Bits + 1) = P \cap {u}
         /\ \A i \in 1..Bits : Selected(P, u, i + 1) = {d \in Selected(P, u, i) : d[i] = u[i]}
         /\ \A i \in 1..(Bits + 1) : Selected(P, u, i) = {d \in P : Agrees(d, u, i)}
<1>0. Bits \in Nat
  BY DEF BitsAre
<1>1. Selected(P, u, 1) = P
  BY DEF Selected
<1>2. Selected(P, u, Bits + 1) = P \cap {u}
  <2>1. (Bits + 1) - 1 = Bits
    BY <1>0
  <2>2. \A d \in P : (\A j \in 1..Bits : d[j] = u[j]) <=> d = u
    BY UuidIs
  <2>3. QED BY <2>1, <2>2 DEF Selected
<1>3. ASSUME NEW i \in 1..Bits PROVE Selected(P, u, i + 1) = {d \in Selected(P, u, i) : d[i] = u[i]}
  <2>1. (i + 1) - 1 = i
    BY <1>0
  <2>2. \A j \in 1..i : j \in 1..(i - 1) \/ j = i
    BY <1>0
  <2>3. \A j \in 1..(i - 1) : j \in 1..i
    BY <1>0
  <2>4. i \in 1..i
    BY <1>0
  <2>5. QED BY <2>1, <2>2, <2>3, <2>4 DEF Selected
<1>4. QED BY <1>1, <1>2, <1>3 DEF Selected, Agrees

\* What is selected does not depend on the bits that have not been sent.
LEMMA SameSelected ==
  ASSUME NEW P, NEW u, NEW v, NEW i, Agrees(u, v, i)
  PROVE  /\ Selected(P, u, i) = Selected(P, v, i)
         /\ HasZero(P, u, i) <=> HasZero(P, v, i)
         /\ HasOne(P, u, i) <=> HasOne(P, v, i)
<1>1. Selected(P, u, i) = Selected(P, v, i)
  BY DEF Selected, Agrees
<1>2. QED BY <1>1 DEF HasZero, HasOne

-----------------------------------------------------------------------------
(* Lists without duplicates                                                *)

Lists(s, D) == /\ s \in Seq(UUIDs) /\ \A i \in 1..Len(s) : s[i] \in D
               /\ \A d \in D : \E i \in 1..Len(s) : s[i] = d
               /\ \A i, j \in 1..Len(s) : s[i] = s[j] => i = j

LEMMA ListsNone == Lists(<<>>, {})
BY DEF Lists
LEMMA ListsOne ==
  ASSUME NEW u \in UUIDs
  PROVE  Lists(<<u>>, {u})
BY DEF Lists
LEMMA ListsBoth ==
  ASSUME NEW a, NEW b, NEW A, NEW B, Lists(a, A), Lists(b, B), A \cap B = {}
  PROVE  Lists(a \o b, A \cup B)
<1> DEFINE c == a \o b
           m == Len(a)
           n == Len(b)
<1>1. /\ a \in Seq(UUIDs) /\ b \in Seq(UUIDs) /\ m \in Nat /\ n \in Nat
  BY DEF Lists
<1>2. c \in Seq(UUIDs) /\ Len(c) = m + n
  BY <1>1
<1>3. \A i \in 1..(m + n) : c[i] = IF i <= m THEN a[i] ELSE b[i - m]
  BY <1>1
<1> HIDE DEF c, m, n
<1>4. /\ \A i \in 1..m : a[i] \in A
      /\ \A i \in 1..n : b[i] \in B
      /\ \A d \in A : \E i \in 1..m : a[i] = d
      /\ \A d \in B : \E i \in 1..n : b[i] = d
      /\ \A i, j \in 1..m : a[i] = a[j] => i = j
      /\ \A i, j \in 1..n : b[i] = b[j] => i = j
  BY DEF Lists, m, n
<1>5. \A i \in 1..m : i \in 1..(m + n) /\ c[i] = a[i] /\ c[i] \in A
  BY <1>1, <1>3, <1>4
<1>6. \A i \in 1..n : m + i \in 1..(m + n) /\ c[m + i] = b[i] /\ c[m + i] \in B
  BY <1>1, <1>3, <1>4
<1>7. \A i \in 1..(m + n) : i \in 1..m \/ \E k \in 1..n : i = m + k
  <2> SUFFICES ASSUME NEW i \in 1..(m + n), i \notin 1..m PROVE \E k \in 1..n : i = m + k
    OBVIOUS
  <2>1. i - m \in 1..n /\ i = m + (i - m)
    BY <1>1
  <2>2. QED BY <2>1
<1>8. \A i \in 1..(m + n) : c[i] \in A \cup B
  BY <1>5, <1>6, <1>7
<1>9. \A d \in A \cup B : \E i \in 1..(m + n) : c[i] = d
  BY <1>4, <1>5, <1>6
<1>10. ASSUME NEW i \in 1..(m + n), NEW j \in 1..(m + n), c[i] = c[j]
       PROVE  i = j
  <2>1. CASE i \in 1..m /\ j \in 1..m
    BY <1>4, <1>5, <1>10, <2>1
  <2>2. CASE i \in 1..m /\ j \notin 1..m
    BY <1>5, <1>6, <1>7, <1>10, <2>2
  <2>3. CASE i \notin 1..m /\ j \in 1..m
    BY <1>5, <1>6, <1>7, <1>10, <2>3
  <2>4. CASE i \notin 1..m /\ j \notin 1..m
    BY <1>4, <1>6, <1>7, <1>10, <2>4
  <2>5. QED BY <2>1, <2>2, <2>3, <2>4
<1>11. QED BY <1>2, <1>8, <1>9, <1>10 DEF Lists, c

LEMMA ListsFindAll ==
  ASSUME NEW s, NEW D, Lists(s, D)
  PROVE  FindsAll(D, s) /\ IsFiniteSet(D)
<1>1. s \in Seq(UUIDs) /\ Len(s) \in Nat /\ DOMAIN s = 1..Len(s)
  BY DEF Lists
<1>2. ToSet(s) = D
  BY <1>1 DEF ToSet, Lists
<1>3. s \in Bijection(1..Len(s), D)
  <2>1. s \in [1..Len(s) -> D]
    BY <1>1 DEF Lists
  <2>2. QED BY <2>1 DEF Lists, Bijection, Injection, Surjection, IsInjective
<1>4. IsFiniteSet(1..Len(s)) /\ Cardinality(1..Len(s)) = Len(s)
  <2>1. IsFiniteSet(1..Len(s)) /\ Cardinality(1..Len(s)) = IF 1 > Len(s) THEN 0 ELSE Len(s) - 1 + 1
    BY <1>1, FS_Interval
  <2>2. QED BY <1>1, <2>1
<1>5. IsFiniteSet(D) /\ Cardinality(D) = Len(s)
  <2>1. ExistsBijection(1..Len(s), D)
    BY <1>3 DEF ExistsBijection
  <2>2. QED BY <1>4, <2>1, FS_Bijection, FS_SameCardinalityBij
<1>6. QED BY <1>2, <1>5 DEF FindsAll

-----------------------------------------------------------------------------
(* TW1BbBus::Scan                                                          *)

Zeroed(u, i) == \A j \in i..Bits : u[j] = 0

LEMMA Stops ==
  ASSUME BitsAre, NEW P \in SUBSET UUIDs, NEW u \in UUIDs, NEW i \in 1..Bits
  PROVE  /\ MatchingBits(P, u, i + 1) \in (i + 1)..(Bits + 1)
         /\ Zeroed(u, i) =>
              \A j \in (i + 1)..(MatchingBits(P, u, i + 1) - 1) : HasZero(P, u, j) /\ ~HasOne(P, u, j)
<1> DEFINE stops == {k \in (i + 1)..Len(u) : \/ HasZero(P, u, k) /\ HasOne(P, u, k)
                                             \/ u[k] = 1 /\ ~HasOne(P, u, k)
                                             \/ u[k] = 0 /\ ~HasZero(P, u, k)}
           m == MatchingBits(P, u, i + 1)
<1>1. Len(u) = Bits /\ Bits \in Nat
  BY UuidIs DEF BitsAre
<1>2. m = IF stops = {} THEN Len(u) + 1 ELSE Min(stops)
  BY DEF MatchingBits
<1>3. stops \in SUBSET ((i + 1)..Bits) /\ stops \in SUBSET Nat
  BY <1>1
<1>4. CASE stops = {}
  <2>1. m = Bits + 1
    BY <1>1, <1>2, <1>4
  <2>2. \A j \in (i + 1)..Bits : u[j] = 0 => HasZero(P, u, j) /\ ~HasOne(P, u, j)
    BY <1>1, <1>4
  <2>3. \A j \in (i + 1)..(m - 1) : j \in (i + 1)..Bits /\ j \in i..Bits
    BY <1>1, <2>1
  <2>4. m \in (i + 1)..(Bits + 1)
    BY <1>1, <2>1
  <2> HIDE DEF m, stops
  <2>5. QED BY <2>2, <2>3, <2>4 DEF Zeroed, m
<1>5. CASE stops # {}
  <2>1. \E k \in stops : \A j \in stops : k <= j
    <3> HIDE DEF stops
    <3>1. QED BY <1>3, <1>5, LeastExists
  <2>2. m \in stops /\ \A j \in stops : m <= j
    <3> HIDE DEF stops, m
    <3>1. QED BY <1>2, <1>5, <2>1 DEF Min
  <2>3. m \in (i + 1)..Bits
    BY <1>3, <2>2
  <2>4. \A j \in (i + 1)..(m - 1) : j \in (i + 1)..Bits /\ j \in i..Bits /\ j \notin stops
    <3> HIDE DEF stops, m
    <3>1. QED BY <1>1, <2>2, <2>3
  <2>5. \A j \in (i + 1)..(m - 1) : u[j] = 0 => HasZero(P, u, j) /\ ~HasOne(P, u, j)
    <3> SUFFICES ASSUME NEW j \in (i + 1)..(m - 1), u[j] = 0 PROVE HasZero(P, u, j) /\ ~HasOne(P, u, j)
      OBVIOUS
    <3>1. j \in (i + 1)..Len(u) /\ j \notin stops
      BY <1>1, <2>4
    <3>2. QED BY <3>1
  <2>6. m \in (i + 1)..(Bits + 1)
    BY <1>1, <2>3
  <2> HIDE DEF m, stops
  <2>7. QED BY <2>4, <2>5, <2>6 DEF Zeroed, m
<1>6. QED BY <1>4, <1>5

\* Where no device differs from u, as many are selected after the bits as before.
LEMMA NoneLeaves ==
  ASSUME BitsAre, NEW P \in SUBSET UUIDs, NEW u \in UUIDs, NEW i \in 1..Bits, NEW m \in (i + 1)..(Bits + 1),
         Zeroed(u, i), \A j \in (i + 1)..(m - 1) : HasZero(P, u, j) /\ ~HasOne(P, u, j)
  PROVE  Selected(P, u, m) = Selected(P, u, i + 1)
<1> DEFINE S == {n \in Nat : i + 1 + n <= m => Selected(P, u, i + 1 + n) = Selected(P, u, i + 1)}
<1>0. Bits \in Nat /\ i \in Nat /\ m \in Nat /\ m <= Bits + 1
  BY DEF BitsAre
<1>1. 0 \in S
  <2>1. i + 1 + 0 = i + 1
    BY <1>0
  <2>2. QED BY <2>1
<1>2. ASSUME NEW n \in Nat, n \in S PROVE n + 1 \in S
  <2> SUFFICES ASSUME i + 1 + (n + 1) <= m PROVE Selected(P, u, i + 1 + (n + 1)) = Selected(P, u, i + 1)
    OBVIOUS
  <2> DEFINE j == i + 1 + n
  <2>1. j \in (i + 1)..(m - 1) /\ j \in 1..Bits /\ j \in i..Bits /\ i + 1 + (n + 1) = j + 1 /\ i + 1 + n <= m
    BY <1>0
  <2>2. Selected(P, u, j) = Selected(P, u, i + 1)
    BY <1>2, <2>1
  <2> HIDE DEF j
  <2>3. ~HasOne(P, u, j) /\ u[j] = 0
    BY <2>1 DEF Zeroed
  <2>4. \A d \in Selected(P, u, j) : d[j] = 0
    BY <2>1, <2>3, UuidIs DEF HasOne, Selected
  <2>5. Selected(P, u, j + 1) = Selected(P, u, j)
    BY <2>1, <2>3, <2>4, SelectedIs
  <2>6. QED BY <2>1, <2>2, <2>5
<1>3. m - (i + 1) \in Nat /\ i + 1 + (m - (i + 1)) = m
  BY <1>0
<1>4. m - (i + 1) \in S
  <2> HIDE DEF S
  <2>1. QED BY <1>1, <1>2, <1>3, SetInduction
<1>5. QED BY <1>3, <1>4

Tables == [1..Bits -> [UUIDs -> Seq(UUIDs)]]
FindsFrom(P, g, i) == \A u \in UUIDs : Zeroed(u, i) => Lists(g[i][u], Selected(P, u, i))

LEMMA FromBitFinds ==
  ASSUME BitsAre, NEW P \in SUBSET UUIDs, NEW g \in Tables, NEW i \in 1..Bits, NEW u \in UUIDs, Zeroed(u, i),
         \A k \in (i + 1)..Bits : FindsFrom(P, g, k)
  PROVE  Lists(FromBit(P, g, i, u), Selected(P, u, i))
<1> DEFINE match == MatchingBits(P, u, i + 1)
           one == [u EXCEPT ![i] = 1]
           zeros == IF ~HasZero(P, u, i) THEN <<>>
                    ELSE IF i = Bits \/ match = Bits + 1 THEN <<u>> ELSE g[match][u]
           ones == IF ~HasOne(P, u, i) THEN <<>> ELSE IF i = Bits THEN <<one>> ELSE g[i + 1][one]
           ZS == {d \in Selected(P, u, i) : d[i] = 0}
           OS == {d \in Selected(P, u, i) : d[i] = 1}
<1>0. Bits \in Nat /\ i \in i..Bits /\ u[i] = 0
  BY DEF BitsAre, Zeroed
<1>1. FromBit(P, g, i, u) = zeros \o ones
  BY DEF FromBit
<1>2. /\ Selected(P, u, i) \subseteq UUIDs /\ \A d \in Selected(P, u, i) : d[i] \in {0, 1}
  BY UuidIs DEF Selected
<1>3. ZS \cup OS = Selected(P, u, i) /\ ZS \cap OS = {}
  BY <1>2
<1>4. Lists(zeros, ZS)
  <2>1. CASE ~HasZero(P, u, i)
    <3>1. ZS = {} /\ zeros = <<>>
      BY <2>1 DEF HasZero
    <3>2. QED BY <3>1, ListsNone
  <2>2. CASE HasZero(P, u, i)
    <3>1. Selected(P, u, i + 1) = ZS
      <4>1. Selected(P, u, i + 1) = {d \in Selected(P, u, i) : d[i] = u[i]}
        BY SelectedIs
      <4>2. QED BY <1>0, <4>1
    <3>2. match \in (i + 1)..(Bits + 1) /\ \A j \in (i + 1)..(match - 1) : HasZero(P, u, j) /\ ~HasOne(P, u, j)
      BY Stops
    <3> HIDE DEF match
    <3>3. Selected(P, u, match) = ZS
      BY <3>1, <3>2, NoneLeaves
    <3>4. ZS # {}
      BY <2>2 DEF HasZero
    <3> HIDE DEF ZS
    <3>5. CASE match = Bits + 1
      <4>1. Selected(P, u, Bits + 1) = P \cap {u}
        BY SelectedIs
      <4>2. ZS = {u}
        BY <3>3, <3>4, <3>5, <4>1
      <4>3. zeros = <<u>>
        BY <2>2, <3>5
      <4>4. QED BY <4>2, <4>3, ListsOne
    <3>6. CASE match # Bits + 1
      <4>1. match \in (i + 1)..Bits /\ i # Bits
        BY <1>0, <3>2, <3>6
      <4>2. Zeroed(u, match)
        BY <1>0, <4>1 DEF Zeroed
      <4>3. zeros = g[match][u]
        BY <2>2, <3>6, <4>1
      <4>4. QED BY <3>3, <4>1, <4>2, <4>3 DEF FindsFrom
    <3>7. QED BY <3>5, <3>6
  <2>3. QED BY <2>1, <2>2
<1>5. Lists(ones, OS)
  <2>1. CASE ~HasOne(P, u, i)
    <3>1. OS = {} /\ ones = <<>>
      BY <2>1 DEF HasOne
    <3>2. QED BY <3>1, ListsNone
  <2>2. CASE HasOne(P, u, i)
    <3>1. one \in UUIDs /\ \A j \in 1..Bits : one[j] = IF j = i THEN 1 ELSE u[j]
      BY UuidIs
    <3> HIDE DEF one
    <3>2. Agrees(one, u, i)
      <4>1. \A j \in 1..(i - 1) : j \in 1..Bits /\ j # i
        BY <1>0
      <4>2. QED BY <3>1, <4>1 DEF Agrees
    <3>3. Selected(P, one, i) = Selected(P, u, i)
      BY <3>2, SameSelected
    <3>4. Selected(P, one, i + 1) = OS
      BY <3>1, <3>3, SelectedIs
    <3>5. OS # {}
      BY <2>2 DEF HasOne
    <3> HIDE DEF OS
    <3>6. CASE i = Bits
      <4>1. OS = {one} /\ ones = <<one>>
        BY <2>2, <3>1, <3>4, <3>5, <3>6, SelectedIs
      <4>2. QED BY <3>1, <4>1, ListsOne
    <3>7. CASE i # Bits
      <4>1. i + 1 \in (i + 1)..Bits
        BY <1>0, <3>7
      <4>2. Zeroed(one, i + 1)
        <5>1. \A j \in (i + 1)..Bits : j \in 1..Bits /\ j \in i..Bits /\ j # i
          BY <1>0
        <5>2. QED BY <3>1, <5>1 DEF Zeroed
      <4>3. ones = g[i + 1][one]
        BY <2>2, <3>7
      <4>4. QED BY <3>1, <3>4, <4>1, <4>2, <4>3 DEF FindsFrom
    <3>8. QED BY <3>6, <3>7
  <2>3. QED BY <2>1, <2>2
<1> HIDE DEF zeros, ones, ZS, OS
<1>6. QED BY <1>1, <1>3, <1>4, <1>5, ListsBoth

\* A bit needs what is found from later bits only.
LEMMA FromBitNeeds ==
  ASSUME BitsAre, NEW P \in SUBSET UUIDs, NEW g \in Tables, NEW i \in 1..Bits, NEW u \in UUIDs
  PROVE  /\ FromBit(P, g, i, u) \in Seq(UUIDs)
         /\ \A h : (\A k \in (i + 1)..Bits : h[k] = g[k]) => FromBit(P, h, i, u) = FromBit(P, g, i, u)
<1> DEFINE match == MatchingBits(P, u, i + 1)
           one == [u EXCEPT ![i] = 1]
           zeros(f) == IF ~HasZero(P, u, i) THEN <<>>
                       ELSE IF i = Bits \/ match = Bits + 1 THEN <<u>> ELSE f[match][u]
           ones(f) == IF ~HasOne(P, u, i) THEN <<>> ELSE IF i = Bits THEN <<one>> ELSE f[i + 1][one]
<1>0. Bits \in Nat
  BY DEF BitsAre
<1>1. \A f : FromBit(P, f, i, u) = zeros(f) \o ones(f)
  BY DEF FromBit
<1>2. one \in UUIDs
  BY UuidIs
<1>3. match \in (i + 1)..(Bits + 1)
  BY Stops
<1> HIDE DEF match, one
<1>4. ASSUME NEW f \in Tables PROVE zeros(f) \in Seq(UUIDs) /\ ones(f) \in Seq(UUIDs)
  <2>1. match # Bits + 1 => f[match][u] \in Seq(UUIDs)
    BY <1>0, <1>3 DEF Tables
  <2>2. i # Bits => f[i + 1][one] \in Seq(UUIDs)
    BY <1>0, <1>2 DEF Tables
  <2>3. <<>> \in Seq(UUIDs) /\ <<u>> \in Seq(UUIDs) /\ <<one>> \in Seq(UUIDs)
    BY <1>2
  <2>4. QED BY <2>1, <2>2, <2>3
<1>5. ASSUME NEW h, \A k \in (i + 1)..Bits : h[k] = g[k]
      PROVE  zeros(h) = zeros(g) /\ ones(h) = ones(g)
  <2>1. match # Bits + 1 => h[match] = g[match]
    BY <1>0, <1>3, <1>5
  <2>2. i # Bits => h[i + 1] = g[i + 1]
    BY <1>0, <1>5
  <2>3. QED BY <2>1, <2>2
<1> HIDE DEF zeros, ones
<1>6. FromBit(P, g, i, u) \in Seq(UUIDs)
  <2>1. FromBit(P, g, i, u) = zeros(g) \o ones(g)
    BY <1>1
  <2>2. zeros(g) \in Seq(UUIDs) /\ ones(g) \in Seq(UUIDs)
    BY <1>4
  <2>3. QED BY <2>1, <2>2
<1>7. QED BY <1>1, <1>5, <1>6

\* From the last bit back to the first: a table that holds what each bit finds.
Tabled(P, g, i) == g[i] = [u \in UUIDs |-> FromBit(P, g, i, u)]
LEMMA TableExists ==
  ASSUME BitsAre, NEW P \in SUBSET UUIDs
  PROVE  \E g \in Tables : \A i \in 1..Bits : Tabled(P, g, i)
<1> DEFINE Upto(n) == \E g \in Tables : \A i \in 1..Bits : i + n > Bits => Tabled(P, g, i)
           S == {n \in Nat : n <= Bits => Upto(n)}
<1>0. Bits \in Nat
  BY DEF BitsAre
<1>1. 0 \in S
  <2>1. [i \in 1..Bits |-> [u \in UUIDs |-> <<>>]] \in Tables
    BY DEF Tables
  <2>2. \A i \in 1..Bits : ~(i + 0 > Bits)
    BY <1>0
  <2>3. Upto(0)
    BY <2>1, <2>2
  <2>4. QED BY <2>3
<1>2. ASSUME NEW n \in Nat, n \in S PROVE n + 1 \in S
  <2> SUFFICES ASSUME n + 1 <= Bits PROVE Upto(n + 1)
    OBVIOUS
  <2>1. PICK g \in Tables : \A i \in 1..Bits : i + n > Bits => Tabled(P, g, i)
    BY <1>0, <1>2
  <2> DEFINE b == Bits - n
             row == [u \in UUIDs |-> FromBit(P, g, b, u)]
             h == [g EXCEPT ![b] = row]
  <2>2. b \in 1..Bits
    BY <1>0
  <2>3. row \in [UUIDs -> Seq(UUIDs)]
    <3> HIDE DEF b
    <3>1. QED BY <2>2, FromBitNeeds
  <2> HIDE DEF row, b
  <2>4. h \in Tables /\ h[b] = row /\ \A i \in 1..Bits : i # b => h[i] = g[i]
    BY <2>2, <2>3 DEF Tables
  <2> HIDE DEF h
  <2>5. ASSUME NEW i \in 1..Bits, i >= b
        PROVE  \A u \in UUIDs : FromBit(P, h, i, u) = FromBit(P, g, i, u)
    <3>1. \A k \in (i + 1)..Bits : k \in 1..Bits /\ k # b
      BY <1>0, <2>2, <2>5
    <3>2. \A k \in (i + 1)..Bits : h[k] = g[k]
      BY <2>4, <3>1
    <3>3. QED BY <2>4, <3>2, FromBitNeeds
  <2>6. ASSUME NEW i \in 1..Bits, i + (n + 1) > Bits PROVE Tabled(P, h, i)
    <3>1. i >= b /\ (i # b => i + n > Bits)
      BY <1>0, <2>6 DEF b
    <3>2. CASE i = b
      <4>1. h[i] = [u \in UUIDs |-> FromBit(P, g, i, u)]
        BY <2>4, <3>2 DEF row
      <4>2. QED BY <2>5, <3>1, <4>1 DEF Tabled
    <3>3. CASE i # b
      <4>1. h[i] = [u \in UUIDs |-> FromBit(P, g, i, u)]
        BY <2>1, <2>4, <3>1, <3>3 DEF Tabled
      <4>2. QED BY <2>5, <3>1, <4>1 DEF Tabled
    <3>4. QED BY <3>2, <3>3
  <2>7. QED BY <2>4, <2>6
<1>3. Bits \in S
  <2> HIDE DEF S
  <2>1. QED BY <1>0, <1>1, <1>2, SetInduction
<1>4. PICK g \in Tables : \A i \in 1..Bits : i + Bits > Bits => Tabled(P, g, i)
  BY <1>0, <1>3
<1>5. \A i \in 1..Bits : i + Bits > Bits
  BY <1>0
<1>6. QED BY <1>4, <1>5

\* For any number of bits and any devices: the bit-banged search finds each
\* device once (TW1BbBus::Scan).
LEMMA ScanLists ==
  ASSUME BitsAre, NEW P \in SUBSET UUIDs
  PROVE  Lists(Scan(P), P)
<1> DEFINE F(g) == [i \in 1..Bits |-> [u \in UUIDs |-> FromBit(P, g, i, u)]]
           found == CHOOSE g : g = F(g)
<1>0. Bits \in Nat /\ 1 \in 1..Bits
  BY DEF BitsAre
<1>1. ScanBit(P) = found
  BY DEF ScanBit
<1>2. PICK g \in Tables : \A i \in 1..Bits : Tabled(P, g, i)
  BY TableExists
<1>3. g = F(g)
  BY <1>2 DEF Tables, Tabled
<1>4. found = F(found)
  BY <1>3
<1> HIDE DEF found
<1>5. \A i \in 1..Bits : found[i] = [u \in UUIDs |-> FromBit(P, found, i, u)]
  BY <1>4
<1> DEFINE S == {n \in Nat : \A i \in 1..Bits : i + n > Bits => found[i] = g[i]}
           V == {n \in Nat : \A i \in 1..Bits : i + n > Bits => FindsFrom(P, g, i)}
<1>6. 0 \in S /\ 0 \in V
  BY <1>0
<1>7. ASSUME NEW n \in Nat, n \in S PROVE n + 1 \in S
  <2> SUFFICES ASSUME NEW i \in 1..Bits, i + (n + 1) > Bits PROVE found[i] = g[i]
    OBVIOUS
  <2>1. \A k \in (i + 1)..Bits : k \in 1..Bits /\ k + n > Bits
    BY <1>0
  <2>2. \A k \in (i + 1)..Bits : found[k] = g[k]
    BY <1>7, <2>1
  <2>3. \A u \in UUIDs : FromBit(P, found, i, u) = FromBit(P, g, i, u)
    BY <2>2, FromBitNeeds
  <2>4. QED BY <1>2, <1>5, <2>3 DEF Tabled
<1>8. ASSUME NEW n \in Nat, n \in V PROVE n + 1 \in V
  <2> SUFFICES ASSUME NEW i \in 1..Bits, i + (n + 1) > Bits, NEW u \in UUIDs, Zeroed(u, i)
               PROVE  Lists(g[i][u], Selected(P, u, i))
    BY DEF FindsFrom
  <2>1. \A k \in (i + 1)..Bits : k \in 1..Bits /\ k + n > Bits
    BY <1>0
  <2>2. \A k \in (i + 1)..Bits : FindsFrom(P, g, k)
    BY <1>8, <2>1
  <2>3. Lists(FromBit(P, g, i, u), Selected(P, u, i))
    BY <2>2, FromBitFinds
  <2>4. g[i][u] = FromBit(P, g, i, u)
    BY <1>2 DEF Tabled
  <2>5. QED BY <2>3, <2>4
<1>9. Bits \in S /\ Bits \in V
  <2> HIDE DEF S, V
  <2>1. QED BY <1>0, <1>6, <1>7, <1>8, SetInduction
<1>10. found[1] = g[1] /\ FindsFrom(P, g, 1)
  BY <1>0, <1>9
<1>11. NullValue \in UUIDs /\ Zeroed(NullValue, 1)
  BY DEF NullValue, UUIDs, Zeroed
<1>12. Lists(g[1][NullValue], P)
  BY <1>10, <1>11, SelectedIs DEF FindsFrom
<1>13. QED BY <1>1, <1>10, <1>12 DEF Scan

-----------------------------------------------------------------------------
(* Computing step by step                                                 *)

\* What is computed step by step is a function.
Computable(n, D, d, F) == \E g \in [0..n -> D] : g[0] = d /\ \A i \in 1..n : g[i] = F[<<g[i - 1], i>>]
LEMMA Recursion ==
  ASSUME NEW n \in Nat, NEW D, NEW d \in D, NEW F \in [D \X (1..n) -> D]
  PROVE  Computable(n, D, d, F)
<1> DEFINE Upto(k) == \E g \in [0..k -> D] : g[0] = d /\ \A i \in 1..k : g[i] = F[<<g[i - 1], i>>]
           S == {k \in Nat : k <= n => Upto(k)}
<1>1. 0 \in S
  <2> DEFINE h == [i \in 0..0 |-> d]
  <2>1. h \in [0..0 -> D] /\ h[0] = d /\ \A i \in 1..0 : FALSE
    OBVIOUS
  <2> HIDE DEF h
  <2>2. Upto(0)
    BY <2>1
  <2>3. QED BY <2>2
<1>2. ASSUME NEW k \in Nat, k \in S PROVE k + 1 \in S
  <2> SUFFICES ASSUME k + 1 <= n PROVE Upto(k + 1)
    OBVIOUS
  <2>1. PICK g \in [0..k -> D] : g[0] = d /\ \A i \in 1..k : g[i] = F[<<g[i - 1], i>>]
    BY <1>2
  <2> DEFINE h == [i \in 0..(k + 1) |-> IF i = k + 1 THEN F[<<g[k], k + 1>>] ELSE g[i]]
  <2>2. g[k] \in D /\ k + 1 \in 1..n
    OBVIOUS
  <2>3. F[<<g[k], k + 1>>] \in D
    BY <2>2
  <2>4. h \in [0..(k + 1) -> D] /\ h[0] = d
    BY <2>1, <2>3
  <2>5. \A i \in 1..(k + 1) : h[i] = F[<<h[i - 1], i>>]
    <3>1. \A i \in 0..k : h[i] = g[i]
      OBVIOUS
    <3>2. h[k + 1] = F[<<g[k], k + 1>>] /\ h[k] = g[k] /\ (k + 1) - 1 = k
      OBVIOUS
    <3>3. \A i \in 1..k : i - 1 \in 0..k /\ i \in 0..k
      OBVIOUS
    <3>4. \A i \in 1..(k + 1) : i \in 1..k \/ i = k + 1
      OBVIOUS
    <3> HIDE DEF h
    <3>5. QED BY <2>1, <3>1, <3>2, <3>3, <3>4
  <2>6. QED BY <2>4, <2>5
<1>3. n \in S
  <2> HIDE DEF S
  <2>1. QED BY <1>1, <1>2, SetInduction
<1>4. QED BY <1>3 DEF Computable

-----------------------------------------------------------------------------
(* TDS2482Bus::Scan                                                        *)

Steps == [rom : UUIDs, ok : BOOLEAN, zero : 0..Bits]
Start(r) == [rom |-> r, ok |-> TRUE, zero |-> 0]

LEMMA StepIs ==
  ASSUME BitsAre, NEW P, NEW z, NEW w \in Steps, NEW i \in 1..Bits
  PROVE  /\ NextBit(P, z, w, i) \in Steps
         /\ \E b \in {0, 1} :
              LET v == w.rom
                  fork == HasZero(P, v, i) /\ HasOne(P, v, i)
              IN /\ NextBit(P, z, w, i).rom = [v EXCEPT ![i] = b]
                 /\ NextBit(P, z, w, i).ok = (w.ok /\ (HasZero(P, v, i) \/ HasOne(P, v, i)))
                 /\ NextBit(P, z, w, i).zero = IF fork /\ b = 0 THEN i ELSE w.zero
                 /\ b = IF fork THEN IF i < z THEN v[i] ELSE IF i = z THEN 1 ELSE 0
                                ELSE IF HasOne(P, v, i) THEN 1 ELSE 0
<1> DEFINE v == w.rom
           fork == HasZero(P, v, i) /\ HasOne(P, v, i)
           wanted == IF i < z THEN v[i] ELSE IF i = z THEN 1 ELSE 0
           b == IF fork THEN wanted ELSE IF HasOne(P, v, i) THEN 1 ELSE 0
           t == Triplet(P, v, i, wanted)
           n == NextBit(P, z, w, i)
<1>1. v \in UUIDs /\ w.ok \in BOOLEAN /\ w.zero \in 0..Bits
  BY DEF Steps
<1>2. v[i] \in {0, 1}
  BY <1>1, UuidIs
<1>3. b \in {0, 1}
  BY <1>2
<1>4. t.direction = b /\ t.fork = fork /\ t.ok = (HasZero(P, v, i) \/ HasOne(P, v, i))
  BY DEF Triplet
<1>5. n = Went(w, i, t)
  BY DEF NextBit
<1> HIDE DEF t, b
<1>6. n = [rom |-> [v EXCEPT ![i] = b], ok |-> w.ok /\ (HasZero(P, v, i) \/ HasOne(P, v, i)),
           zero |-> IF fork /\ b = 0 THEN i ELSE w.zero]
  BY <1>4, <1>5 DEF Went
<1>7. [v EXCEPT ![i] = b] \in UUIDs
  BY <1>1, <1>3, UuidIs
<1>8. (HasZero(P, v, i) \/ HasOne(P, v, i)) \in BOOLEAN
  BY DEF HasZero, HasOne
<1>9. (IF fork /\ b = 0 THEN i ELSE w.zero) \in 0..Bits
  BY <1>1 DEF BitsAre
<1>10. n \in Steps
  <2> HIDE DEF v, fork, n
  <2>1. QED BY <1>1, <1>6, <1>7, <1>8, <1>9 DEF Steps
<1>11. b = IF fork THEN wanted ELSE IF HasOne(P, v, i) THEN 1 ELSE 0
  BY DEF b
<1> HIDE DEF n
<1>12. n.rom = [v EXCEPT ![i] = b] /\ n.ok = (w.ok /\ (HasZero(P, v, i) \/ HasOne(P, v, i)))
       /\ n.zero = (IF fork /\ b = 0 THEN i ELSE w.zero)
  BY <1>6
<1>13. QED BY <1>3, <1>10, <1>11, <1>12 DEF n

Walks(P, r, z, w) ==
    w \in [0..Bits -> Steps] /\ w[0] = Start(r) /\ \A i \in 1..Bits : w[i] = NextBit(P, z, w[i - 1], i)
LEMMA WalkIs ==
  ASSUME BitsAre, NEW P, NEW r \in UUIDs, NEW z
  PROVE  \E w : Walks(P, r, z, w) /\ Walk(P, r, z) = w[Bits]
<1> DEFINE F == [p \in Steps \X (1..Bits) |-> NextBit(P, z, p[1], p[2])]
           G(w) == [i \in 0..Bits |-> IF i = 0 THEN Start(r) ELSE NextBit(P, z, w[i - 1], i)]
           walk == CHOOSE w : w = G(w)
<1>0. Bits \in Nat
  BY DEF BitsAre
<1>1. Walk(P, r, z) = walk[Bits]
  BY DEF Walk, Start
<1>2. F \in [Steps \X (1..Bits) -> Steps]
  BY StepIs
<1>3. Start(r) \in Steps
  BY <1>0 DEF Start, Steps
<1>4. PICK g \in [0..Bits -> Steps] : g[0] = Start(r) /\ \A i \in 1..Bits : g[i] = F[<<g[i - 1], i>>]
  <2> HIDE DEF F
  <2>1. Computable(Bits, Steps, Start(r), F)
    BY <1>0, <1>2, <1>3, Recursion
  <2>2. QED BY <2>1 DEF Computable
<1>5. ASSUME NEW i \in 1..Bits PROVE g[i] = NextBit(P, z, g[i - 1], i)
  <2>1. i - 1 \in 0..Bits
    BY <1>0
  <2>2. g[i - 1] \in Steps
    BY <2>1
  <2>3. <<g[i - 1], i>> \in Steps \X (1..Bits)
    BY <2>2
  <2>4. F[<<g[i - 1], i>>] = NextBit(P, z, g[i - 1], i)
    BY <2>3
  <2>5. QED BY <1>4, <2>4
<1>6. g = G(g)
  <2>1. \A i \in 0..Bits : i = 0 \/ i \in 1..Bits
    BY <1>0
  <2>2. \A i \in 0..Bits : g[i] = IF i = 0 THEN Start(r) ELSE NextBit(P, z, g[i - 1], i)
    BY <1>4, <1>5, <2>1
  <2>3. QED BY <2>2
<1>7. walk = G(walk)
  BY <1>6
<1> HIDE DEF walk
<1>8. walk[0] = Start(r) /\ \A i \in 1..Bits : walk[i] = NextBit(P, z, walk[i - 1], i)
  <2>1. \A i \in 0..Bits : walk[i] = IF i = 0 THEN Start(r) ELSE NextBit(P, z, walk[i - 1], i)
    BY <1>7
  <2>2. 0 \in 0..Bits /\ \A i \in 1..Bits : i \in 0..Bits /\ i # 0
    BY <1>0
  <2>3. QED BY <2>1, <2>2
<1> DEFINE S == {n \in Nat : n <= Bits => walk[n] = g[n]}
<1>9. 0 \in S
  BY <1>4, <1>8
<1>10. ASSUME NEW n \in Nat, n \in S PROVE n + 1 \in S
  <2> SUFFICES ASSUME n + 1 <= Bits PROVE walk[n + 1] = g[n + 1]
    OBVIOUS
  <2>1. n + 1 \in 1..Bits /\ (n + 1) - 1 = n /\ walk[n] = g[n]
    BY <1>0, <1>10
  <2>2. QED BY <1>5, <1>8, <2>1
<1>11. Bits \in S
  <2> HIDE DEF S
  <2>1. QED BY <1>0, <1>9, <1>10, SetInduction
<1>12. Walks(P, r, z, g)
  BY <1>4, <1>5 DEF Walks
<1>13. QED BY <1>1, <1>11, <1>12

\* A walk begins at the last one's rom r, whose last fork not taken to the ones is
\* at z; the first begins anywhere.
Path(P, r, z) ==
    /\ P \in SUBSET UUIDs /\ r \in UUIDs /\ z \in 0..Bits
    /\ z # 0 => /\ r \in P /\ r[z] = 0 /\ HasOne(P, r, z)
                /\ \A j \in 1..Bits : r[j] = 0 /\ HasOne(P, r, j) => j <= z
\* After i bits it has followed r up to z, taken the ones there and the zeros
\* wherever it could since; x.zero is its last fork taken to the zeros.
FollowsPath(P, r, z, x, i) ==
    /\ \A j \in (i + 1)..Bits : x.rom[j] = r[j]
    /\ \A j \in 1..i : (j < z => x.rom[j] = r[j]) /\ (j = z => x.rom[j] = 1)
    /\ \A j \in 1..i : j > z /\ x.rom[j] = 1 => ~HasZero(P, x.rom, j)
Forks(P, x, i) ==
    /\ \A j \in 1..i : x.rom[j] = 0 /\ HasOne(P, x.rom, j) => j <= x.zero
    /\ x.zero # 0 => x.zero <= i /\ x.rom[x.zero] = 0 /\ HasOne(P, x.rom, x.zero)
Good(P, r, z, x, i) ==
    /\ x.ok /\ Selected(P, x.rom, i + 1) # {}
    /\ FollowsPath(P, r, z, x, i) /\ Forks(P, x, i)

LEMMA BitKeeps ==
  ASSUME BitsAre, NEW P, NEW r, NEW z, Path(P, r, z), NEW y \in Steps, NEW i \in 1..Bits, Good(P, r, z, y, i - 1),
         NEW x, x = NextBit(P, z, y, i)
  PROVE  Good(P, r, z, x, i)
<1> DEFINE u == y.rom
           v == x.rom
           fork == HasZero(P, u, i) /\ HasOne(P, u, i)
<1>0. Bits \in Nat /\ i - 1 \in Nat /\ (i - 1) + 1 = i /\ P \in SUBSET UUIDs /\ r \in UUIDs /\ z \in 0..Bits
  BY DEF BitsAre, Path
<1>1. u \in UUIDs /\ y.zero \in 0..Bits /\ x \in Steps
  BY StepIs DEF Steps
<1>2. PICK b \in {0, 1} :
        /\ v = [u EXCEPT ![i] = b]
        /\ x.ok = (y.ok /\ (HasZero(P, u, i) \/ HasOne(P, u, i)))
        /\ x.zero = (IF fork /\ b = 0 THEN i ELSE y.zero)
        /\ b = IF fork THEN IF i < z THEN u[i] ELSE IF i = z THEN 1 ELSE 0
                       ELSE IF HasOne(P, u, i) THEN 1 ELSE 0
  BY StepIs
<1>3. v \in UUIDs /\ \A j \in 1..Bits : v[j] = IF j = i THEN b ELSE u[j]
  <2> HIDE DEF u, v
  <2>1. v = [u EXCEPT ![i] = b]
    BY <1>2
  <2> DEFINE d == [u EXCEPT ![i] = b]
  <2>2. d \in UUIDs /\ \A j \in 1..Bits : d[j] = IF j = i THEN b ELSE u[j]
    <3>1. u \in UUIDs
      BY <1>1
    <3>2. \A k \in 1..Bits : \A c \in {0, 1} :
            /\ [u EXCEPT ![k] = c] \in UUIDs
            /\ \A j \in 1..Bits : [u EXCEPT ![k] = c][j] = IF j = k THEN c ELSE u[j]
      BY <3>1, UuidIs
    <3>3. QED BY <3>2
  <2> HIDE DEF d
  <2>3. v = d
    BY <2>1 DEF d
  <2>4. QED BY <2>2, <2>3
<1>4. Selected(P, u, i) # {} /\ FollowsPath(P, r, z, y, i - 1) /\ Forks(P, y, i - 1) /\ y.ok
  BY <1>0 DEF Good
<1> HIDE DEF u, v, fork
<1>5. \A d \in P : d \in UUIDs /\ d[i] \in {0, 1}
  BY <1>0, UuidIs
<1>6. HasZero(P, u, i) \/ HasOne(P, u, i)
  BY <1>4, <1>5 DEF HasZero, HasOne, Selected
<1>7. (b = 0 => HasZero(P, u, i)) /\ (b = 1 => HasOne(P, u, i))
  BY <1>2, <1>6 DEF fork
<1>8. ASSUME NEW j \in 1..i
      PROVE  /\ Selected(P, v, j) = Selected(P, u, j)
             /\ HasZero(P, v, j) <=> HasZero(P, u, j)
             /\ HasOne(P, v, j) <=> HasOne(P, u, j)
  <2>1. \A k \in 1..(j - 1) : k \in 1..Bits /\ k # i
    BY <1>0
  <2>2. Agrees(v, u, j)
    BY <1>3, <2>1 DEF Agrees
  <2>3. QED BY <2>2, SameSelected
<1>9. x.ok
  BY <1>2, <1>4, <1>6
<1>10. Selected(P, v, i + 1) # {}
  <2>1. Selected(P, v, i + 1) = {d \in Selected(P, v, i) : d[i] = v[i]}
    BY <1>0, <1>3, SelectedIs
  <2>2. v[i] = b /\ Selected(P, v, i) = Selected(P, u, i)
    BY <1>0, <1>3, <1>8
  <2>3. \E d \in Selected(P, u, i) : d[i] = b
    BY <1>7 DEF HasZero, HasOne
  <2>4. QED BY <2>1, <2>2, <2>3
<1>11. Forks(P, x, i)
  <2>1. /\ \A j \in 1..(i - 1) : u[j] = 0 /\ HasOne(P, u, j) => j <= y.zero
        /\ y.zero # 0 => y.zero <= i - 1 /\ u[y.zero] = 0 /\ HasOne(P, u, y.zero)
    BY <1>4 DEF Forks, u
  <2>2. \A j \in 1..(i - 1) : j \in 1..i /\ j \in 1..Bits /\ j # i
    BY <1>0
  <2>3. CASE fork /\ b = 0
    <3>1. x.zero = i /\ v[i] = 0 /\ HasOne(P, v, i)
      <4>1. x.zero = i /\ v[i] = 0
        BY <1>0, <1>2, <1>3, <2>3
      <4>2. HasOne(P, u, i) /\ i \in 1..i
        BY <1>0, <2>3 DEF fork
      <4>3. HasOne(P, v, i)
        BY <1>8, <4>2
      <4>4. QED BY <4>1, <4>3
    <3>2. \A j \in 1..i : j <= i
      BY <1>0
    <3>3. QED BY <1>0, <3>1, <3>2 DEF Forks, v
  <2>4. CASE ~(fork /\ b = 0)
    <3>1. x.zero = y.zero
      BY <1>2, <2>4
    <3>2. ~(v[i] = 0 /\ HasOne(P, v, i))
      BY <1>0, <1>3, <1>7, <1>8, <2>4 DEF fork
    <3>3. \A j \in 1..i : j \in 1..(i - 1) \/ j = i
      BY <1>0
    <3>4. \A j \in 1..i : v[j] = 0 /\ HasOne(P, v, j) => j <= y.zero
      BY <1>3, <1>8, <2>1, <2>2, <3>2, <3>3
    <3>5. y.zero # 0 => y.zero \in 1..(i - 1)
      BY <1>0, <1>1, <2>1
    <3>6. y.zero # 0 => y.zero <= i /\ v[y.zero] = 0 /\ HasOne(P, v, y.zero)
      BY <1>0, <1>3, <1>8, <2>1, <2>2, <3>5
    <3>7. QED BY <3>1, <3>4, <3>6 DEF Forks, v
  <2>5. QED BY <2>3, <2>4
<1>12. FollowsPath(P, r, z, x, i)
  <2>1. /\ \A j \in i..Bits : u[j] = r[j]
        /\ \A j \in 1..(i - 1) : (j < z => u[j] = r[j]) /\ (j = z => u[j] = 1)
        /\ \A j \in 1..(i - 1) : j > z /\ u[j] = 1 => ~HasZero(P, u, j)
    BY <1>0, <1>4 DEF FollowsPath, u
  <2>2. \A j \in 1..(i - 1) : j \in 1..i /\ j \in 1..Bits /\ j # i
    BY <1>0
  <2>3. \A j \in 1..i : j \in 1..(i - 1) \/ j = i
    BY <1>0
  <2>4. u[i] = r[i] /\ v[i] = b
    BY <1>0, <1>3, <2>1
  <2>5. i <= z => /\ r \in Selected(P, u, i) /\ Selected(P, u, i) = Selected(P, r, i)
                  /\ HasOne(P, u, i) <=> HasOne(P, r, i)
    <3> SUFFICES ASSUME i <= z
                 PROVE  /\ r \in Selected(P, u, i) /\ Selected(P, u, i) = Selected(P, r, i)
                        /\ HasOne(P, u, i) <=> HasOne(P, r, i)
      OBVIOUS
    <3>1. z # 0 /\ \A j \in 1..(i - 1) : j < z
      BY <1>0
    <3>2. Agrees(u, r, i)
      BY <2>1, <3>1 DEF Agrees
    <3>3. r \in P
      BY <3>1 DEF Path
    <3>4. r \in Selected(P, r, i)
      BY <3>3 DEF Selected
    <3>5. QED BY <3>2, <3>4, SameSelected
  <2>6. i < z => b = r[i]
    <3> SUFFICES ASSUME i < z PROVE b = r[i]
      OBVIOUS
    <3>1. i <= z
      BY <1>0
    <3>2. r[i] \in {0, 1} /\ (r[i] = 0 => HasZero(P, u, i)) /\ (r[i] = 1 => HasOne(P, u, i))
      BY <1>0, <2>5, <3>1, UuidIs DEF HasZero, HasOne
    <3>3. QED BY <1>2, <2>4, <3>2 DEF fork
  <2>7. i = z => b = 1
    <3> SUFFICES ASSUME i = z PROVE b = 1
      OBVIOUS
    <3>1. i <= z /\ z # 0 /\ ~(i < z)
      BY <1>0
    <3>2. r[i] = 0 /\ HasOne(P, r, i)
      BY <3>1 DEF Path
    <3>3. HasZero(P, u, i) /\ HasOne(P, u, i)
      BY <2>5, <3>1, <3>2 DEF HasZero
    <3>4. QED BY <1>2, <3>1, <3>3 DEF fork
  <2>8. i > z /\ b = 1 => ~HasZero(P, u, i)
    <3>1. i > z => ~(i < z) /\ i # z
      BY <1>0
    <3>2. QED BY <1>2, <1>7, <3>1 DEF fork
  <2>9. \A j \in (i + 1)..Bits : v[j] = r[j]
    <3>1. \A j \in (i + 1)..Bits : j \in i..Bits /\ j \in 1..Bits /\ j # i
      BY <1>0
    <3>2. QED BY <1>3, <2>1, <3>1
  <2>10. \A j \in 1..i : (j < z => v[j] = r[j]) /\ (j = z => v[j] = 1)
    BY <1>3, <2>1, <2>2, <2>3, <2>4, <2>6, <2>7
  <2>11. \A j \in 1..i : j > z /\ v[j] = 1 => ~HasZero(P, v, j)
    BY <1>3, <1>8, <2>1, <2>2, <2>3, <2>4, <2>8
  <2>12. QED BY <2>9, <2>10, <2>11 DEF FollowsPath, v
<1>13. QED BY <1>9, <1>10, <1>11, <1>12 DEF Good, v

LEMMA WalkGoes ==
  ASSUME BitsAre, NEW P, NEW r, NEW z, Path(P, r, z), P # {}, NEW x, x = Walk(P, r, z)
  PROVE  x \in Steps /\ Good(P, r, z, x, Bits) /\ x.rom \in P
<1>0. Bits \in Nat /\ P \in SUBSET UUIDs /\ r \in UUIDs
  BY DEF BitsAre, Path
<1>1. PICK w : Walks(P, r, z, w) /\ x = w[Bits]
  BY <1>0, WalkIs
<1>2. w \in [0..Bits -> Steps] /\ w[0] = Start(r) /\ \A i \in 1..Bits : w[i] = NextBit(P, z, w[i - 1], i)
  BY <1>1 DEF Walks
<1> DEFINE S == {n \in Nat : n <= Bits => Good(P, r, z, w[n], n)}
<1>3. 0 \in S
  <2>1. w[0].rom = r /\ w[0].ok /\ w[0].zero = 0
    BY <1>2 DEF Start
  <2>2. Selected(P, r, 0 + 1) # {}
    BY <1>0, SelectedIs
  <2>3. \A j \in 1..0 : FALSE
    OBVIOUS
  <2>4. Good(P, r, z, w[0], 0)
    BY <2>1, <2>2, <2>3 DEF Good, FollowsPath, Forks
  <2>5. QED BY <2>4
<1>4. ASSUME NEW n \in Nat, n \in S PROVE n + 1 \in S
  <2> SUFFICES ASSUME n + 1 <= Bits PROVE Good(P, r, z, w[n + 1], n + 1)
    OBVIOUS
  <2>1. n + 1 \in 1..Bits /\ (n + 1) - 1 = n /\ n \in 0..Bits
    BY <1>0
  <2>2. w[n] \in Steps /\ w[n + 1] = NextBit(P, z, w[n], n + 1)
    BY <1>2, <2>1
  <2>3. Good(P, r, z, w[n], (n + 1) - 1)
    BY <1>0, <1>4, <2>1
  <2> HIDE DEF S
  <2>4. QED BY <2>1, <2>2, <2>3, BitKeeps
<1>5. Bits \in S
  <2> HIDE DEF S
  <2>1. QED BY <1>0, <1>3, <1>4, SetInduction
<1>6. Good(P, r, z, x, Bits) /\ x \in Steps
  BY <1>0, <1>1, <1>2, <1>5
<1>7. x.rom \in UUIDs
  BY <1>6 DEF Steps
<1>8. x.rom \in P
  BY <1>0, <1>6, <1>7, SelectedIs DEF Good
<1>9. QED BY <1>6, <1>8

\* What comes after u: devices that go to the ones where u goes to the zeros.
Beyond(P, u) == {d \in P : \E j \in 1..Bits : Agrees(d, u, j) /\ u[j] = 0 /\ d[j] = 1}
Coming(P, r, z) == IF z = 0 THEN P ELSE Beyond(P, r)

LEMMA FirstDifference ==
  ASSUME BitsAre, NEW d \in UUIDs, NEW u \in UUIDs, d # u
  PROVE  \E q \in 1..Bits : Agrees(d, u, q) /\ d[q] # u[q]
<1> DEFINE D == {j \in 1..Bits : d[j] # u[j]}
<1>0. Bits \in Nat
  BY DEF BitsAre
<1>1. D # {} /\ D \in SUBSET Nat
  BY <1>0, UuidIs
<1>2. PICK q \in D : \A j \in D : q <= j
  <2> HIDE DEF D
  <2>1. QED BY <1>1, LeastExists
<1>3. \A j \in 1..(q - 1) : j \in 1..Bits /\ ~(q <= j)
  BY <1>0
<1>4. Agrees(d, u, q)
  BY <1>2, <1>3 DEF Agrees
<1>5. QED BY <1>4

\* A walk finds the first of those that come.
LEMMA WalkRests ==
  ASSUME BitsAre, NEW P, NEW r, NEW z, Path(P, r, z), P # {}, NEW x, x = Walk(P, r, z)
  PROVE  /\ x \in Steps /\ x.ok /\ x.rom \in Coming(P, r, z) /\ Path(P, x.rom, x.zero)
         /\ Beyond(P, x.rom) = Coming(P, r, z) \ {x.rom}
         /\ x.zero = 0 => Beyond(P, x.rom) = {}
<1> DEFINE v == x.rom
<1>0. Bits \in Nat /\ P \in SUBSET UUIDs /\ r \in UUIDs /\ z \in 0..Bits
  BY DEF BitsAre, Path
<1>1. x \in Steps /\ x.ok /\ v \in P /\ x.zero \in 0..Bits /\ FollowsPath(P, r, z, x, Bits) /\ Forks(P, x, Bits)
  BY WalkGoes DEF Good, Steps
<1> HIDE DEF v
<1>2. /\ \A j \in 1..Bits : (j < z => v[j] = r[j]) /\ (j = z => v[j] = 1)
      /\ \A j \in 1..Bits : j > z /\ v[j] = 1 => ~HasZero(P, v, j)
      /\ \A j \in 1..Bits : v[j] = 0 /\ HasOne(P, v, j) => j <= x.zero
      /\ x.zero # 0 => v[x.zero] = 0 /\ HasOne(P, v, x.zero)
  BY <1>1 DEF FollowsPath, Forks, v
<1>3. Path(P, v, x.zero)
  BY <1>0, <1>1, <1>2 DEF Path
<1>4. z # 0 => /\ z \in 1..Bits /\ r \in P /\ r[z] = 0 /\ HasOne(P, r, z)
               /\ \A j \in 1..Bits : r[j] = 0 /\ HasOne(P, r, j) => j <= z
  BY <1>0 DEF Path
<1>5. \A d \in P, u \in UUIDs, j \in 1..Bits : Agrees(d, u, j) => (d[j] = 1 => HasOne(P, u, j)) /\ (d[j] = 0 => HasZero(P, u, j))
  BY DEF Agrees, HasOne, HasZero, Selected
<1>6. v \in UUIDs
  BY <1>0, <1>1
<1>7. x.zero = 0 => Beyond(P, v) = {}
  <2> SUFFICES ASSUME x.zero = 0, NEW d \in P, NEW j \in 1..Bits, Agrees(d, v, j), v[j] = 0, d[j] = 1
               PROVE  FALSE
    BY DEF Beyond
  <2>1. j <= 0
    BY <1>2, <1>5, <1>6
  <2>2. QED BY <1>0, <2>1
\* Past z, who differs from v goes to the ones.
<1>8. ASSUME NEW d \in P, NEW q \in 1..Bits, q > z, Agrees(d, v, q), d[q] # v[q]
      PROVE  d \in Beyond(P, v)
  <2>1. d[q] \in {0, 1} /\ v[q] \in {0, 1}
    BY <1>0, <1>6, UuidIs
  <2>2. ~(v[q] = 1 /\ d[q] = 0)
    BY <1>2, <1>5, <1>6, <1>8
  <2>3. v[q] = 0 /\ d[q] = 1
    BY <1>8, <2>1, <2>2
  <2>4. QED BY <1>8, <2>3 DEF Beyond
<1>9. \A d \in Beyond(P, v) : d \in P /\ d # v
  BY DEF Beyond
<1>10. CASE z = 0
  <2>1. \A q \in 1..Bits : q > z
    BY <1>0, <1>10
  <2>2. ASSUME NEW d \in P, d # v PROVE d \in Beyond(P, v)
    <3>1. d \in UUIDs
      BY <1>0
    <3>2. PICK q \in 1..Bits : Agrees(d, v, q) /\ d[q] # v[q]
      BY <1>6, <2>2, <3>1, FirstDifference
    <3>3. QED BY <1>8, <2>1, <3>2
  <2>3. Coming(P, r, z) = P
    BY <1>10 DEF Coming
  <2>4. Beyond(P, v) = P \ {v}
    BY <1>9, <2>2
  <2>5. QED BY <1>1, <1>3, <1>7, <2>3, <2>4 DEF v
<1>11. CASE z # 0
  <2>0. z \in 1..Bits /\ r[z] = 0 /\ v[z] = 1 /\ Coming(P, r, z) = Beyond(P, r)
    BY <1>2, <1>4, <1>11 DEF Coming
  <2>1. \A j \in 1..(z - 1) : j \in 1..Bits /\ j < z
    BY <1>0
  <2>2. Agrees(v, r, z)
    BY <1>2, <2>1 DEF Agrees
  <2>3. v \in Beyond(P, r)
    BY <1>1, <2>0, <2>2 DEF Beyond
  <2>4. ASSUME NEW d \in Beyond(P, r), d # v PROVE d \in Beyond(P, v)
    <3>1. PICK p \in 1..Bits : Agrees(d, r, p) /\ r[p] = 0 /\ d[p] = 1
      BY DEF Beyond
    <3>2. d \in P /\ d \in UUIDs
      BY <1>0 DEF Beyond
    <3>3. p <= z
      BY <1>0, <1>4, <1>5, <1>11, <3>1, <3>2
    <3>4. CASE p < z
      <4>1. \A j \in 1..(p - 1) : j \in 1..Bits /\ j < z
        BY <1>0, <3>4
      <4>2. Agrees(d, v, p) /\ v[p] = 0
        BY <1>2, <3>1, <3>4, <4>1 DEF Agrees
      <4>3. QED BY <3>1, <3>2, <4>2 DEF Beyond
    <3>5. CASE p = z
      <4>1. PICK q \in 1..Bits : Agrees(d, v, q) /\ d[q] # v[q]
        BY <1>6, <2>4, <3>2, FirstDifference
      <4>2. ASSUME q <= z PROVE FALSE
        <5>1. q = z \/ q \in 1..(z - 1)
          BY <1>0, <4>2
        <5>2. d[z] = 1
          BY <3>1, <3>5
        <5>3. \A j \in 1..(z - 1) : d[j] = r[j] /\ v[j] = r[j]
          BY <2>2, <3>1, <3>5 DEF Agrees
        <5>4. QED BY <2>0, <4>1, <5>1, <5>2, <5>3
      <4>3. q > z
        BY <1>0, <4>2
      <4>4. QED BY <1>8, <3>2, <4>1, <4>3
    <3>6. QED BY <1>0, <3>3, <3>4, <3>5
  <2>5. ASSUME NEW d \in Beyond(P, v) PROVE d \in Beyond(P, r)
    <3>1. PICK q \in 1..Bits : Agrees(d, v, q) /\ v[q] = 0 /\ d[q] = 1
      BY DEF Beyond
    <3>2. d \in P
      BY DEF Beyond
    <3>3. q # z
      BY <2>0, <3>1
    <3>4. CASE q < z
      <4>1. \A j \in 1..(q - 1) : j \in 1..Bits /\ j < z
        BY <1>0, <3>4
      <4>2. Agrees(d, r, q) /\ r[q] = 0
        BY <1>2, <3>1, <3>4, <4>1 DEF Agrees
      <4>3. QED BY <3>1, <3>2, <4>2 DEF Beyond
    <3>5. CASE q > z
      <4>1. z \in 1..(q - 1) /\ \A j \in 1..(z - 1) : j \in 1..(q - 1)
        BY <1>0, <2>0, <3>5
      <4>2. Agrees(d, r, z) /\ d[z] = 1
        BY <2>0, <2>2, <3>1, <4>1 DEF Agrees
      <4>3. QED BY <2>0, <3>2, <4>2 DEF Beyond
    <3>6. QED BY <1>0, <3>3, <3>4, <3>5
  <2>6. Beyond(P, v) = Beyond(P, r) \ {v}
    BY <1>9, <2>4, <2>5
  <2>7. QED BY <1>1, <1>3, <1>7, <2>0, <2>3, <2>6 DEF v
<1>12. QED BY <1>10, <1>11

-----------------------------------------------------------------------------
(* The rounds of the search                                                *)

Rounds == [rom : UUIDs, zero : 0..Bits, last : BOOLEAN, result : Seq(UUIDs)]
FirstRound == [rom |-> NullValue, zero |-> 0, last |-> FALSE, result |-> <<>>]
\* After k rounds, unless the loop is over, k devices have been found, and the
\* others come.
Searched(P, s, F, k) ==
    /\ F \in SUBSET P /\ Lists(s.result, F)
    /\ s.last => F = P
    /\ ~s.last => Len(s.result) = k /\ F = P \ Coming(P, s.rom, s.zero) /\ Path(P, s.rom, s.zero)

GivesUp(s, next) == next.last /\ next.result = s.result
GoesOn(s, x, next) == /\ next.rom = x.rom /\ next.zero = x.zero /\ next.last = (x.zero = 0)
                      /\ next.result = Append(s.result, x.rom)
LEMMA RoundIs ==
  ASSUME BitsAre, NEW P \in SUBSET UUIDs, NEW s \in Rounds, NEW x, x = Walk(P, s.rom, s.zero)
  PROVE  /\ Round(P, s) \in Rounds
         /\ s.last \/ P = {} \/ ~x.ok => GivesUp(s, Round(P, s))
         /\ ~(s.last \/ P = {} \/ ~x.ok) => GoesOn(s, x, Round(P, s))
<1> DEFINE stop == [s EXCEPT !.last = TRUE]
           go == [rom |-> x.rom, zero |-> x.zero, last |-> x.zero = 0, result |-> Append(s.result, x.rom)]
           Q == Round(P, s)
<1>1. s.rom \in UUIDs /\ s.zero \in 0..Bits /\ s.result \in Seq(UUIDs)
  BY DEF Rounds
<1>2. PICK w : Walks(P, s.rom, s.zero, w) /\ x = w[Bits]
  BY <1>1, WalkIs
<1>3. x \in Steps
  <2>1. w \in [0..Bits -> Steps] /\ Bits \in 0..Bits
    BY <1>2 DEF Walks, BitsAre
  <2>2. QED BY <1>2, <2>1
<1>4. stop \in Rounds /\ stop.last /\ stop.result = s.result
  BY DEF Rounds
<1>5. x.rom \in UUIDs /\ x.zero \in 0..Bits
  BY <1>3 DEF Steps
<1>6. Append(s.result, x.rom) \in Seq(UUIDs) /\ (x.zero = 0) \in BOOLEAN
  BY <1>1, <1>5
<1>7. /\ go \in Rounds /\ go.rom = x.rom /\ go.zero = x.zero /\ go.last = (x.zero = 0)
      /\ go.result = Append(s.result, x.rom)
  BY <1>5, <1>6 DEF Rounds
<1>8. Q = IF s.last \/ P = {} \/ ~x.ok THEN stop ELSE go
  BY DEF Round
<1> HIDE DEF Q, stop, go
<1>9. Q \in Rounds
  BY <1>4, <1>7, <1>8
<1>10. CASE s.last \/ P = {} \/ ~x.ok
  <2>1. Q = stop
    BY <1>8, <1>10
  <2>2. GivesUp(s, Q)
    BY <1>4, <2>1 DEF GivesUp
  <2>3. QED BY <1>9, <1>10, <2>2 DEF Q
<1>11. CASE ~(s.last \/ P = {} \/ ~x.ok)
  <2>1. Q = go
    BY <1>8, <1>11
  <2>2. GoesOn(s, x, Q)
    BY <1>7, <2>1 DEF GoesOn
  <2>3. QED BY <1>9, <1>11, <2>2 DEF Q
<1>12. QED BY <1>10, <1>11

LEMMA RoundKeeps ==
  ASSUME BitsAre, NEW P \in SUBSET UUIDs, NEW s \in Rounds, NEW k \in Nat, NEW F, Searched(P, s, F, k)
  PROVE  \E G : Searched(P, Round(P, s), G, k + 1)
<1> DEFINE x == Walk(P, s.rom, s.zero)
           Q == Round(P, s)
<1>1. CASE s.last \/ P = {}
  <2>1. Q.last /\ Q.result = s.result
    <3>1. GivesUp(s, Q)
      BY <1>1, RoundIs
    <3>2. QED BY <3>1 DEF GivesUp
  <2>2. F = P
    BY <1>1 DEF Searched
  <2> HIDE DEF Q
  <2>3. Searched(P, Q, F, k + 1)
    BY <2>1, <2>2 DEF Searched
  <2>4. QED BY <2>3 DEF Q
<1>2. CASE ~s.last /\ P # {}
  <2>1. Len(s.result) = k /\ F = P \ Coming(P, s.rom, s.zero) /\ Path(P, s.rom, s.zero) /\ Lists(s.result, F)
    BY <1>2 DEF Searched
  <2>2. /\ x \in Steps /\ x.ok /\ x.rom \in Coming(P, s.rom, s.zero) /\ Path(P, x.rom, x.zero)
        /\ Beyond(P, x.rom) = Coming(P, s.rom, s.zero) \ {x.rom}
        /\ x.zero = 0 => Beyond(P, x.rom) = {}
    BY <1>2, <2>1, WalkRests
  <2>3. /\ Q.rom = x.rom /\ Q.zero = x.zero /\ Q.last = (x.zero = 0)
        /\ Q.result = Append(s.result, x.rom)
    <3>1. ~(s.last \/ P = {} \/ ~x.ok)
      BY <1>2, <2>2
    <3> HIDE DEF x, Q
    <3>2. GoesOn(s, x, Q)
      BY <3>1, RoundIs DEF x, Q
    <3>3. QED BY <3>2 DEF GoesOn
  <2> DEFINE G == F \cup {x.rom}
  <2>4. x.rom \in UUIDs /\ x.rom \in P
    BY <2>2 DEF Steps, Coming, Beyond
  <2> HIDE DEF x, Q
  <2>5. s.result \in Seq(UUIDs)
    BY DEF Rounds
  <2>6. Append(s.result, x.rom) = s.result \o <<x.rom>> /\ Len(Append(s.result, x.rom)) = k + 1
    BY <2>1, <2>4, <2>5
  <2>7. F \cap {x.rom} = {}
    BY <2>1, <2>2
  <2>15. Lists(<<x.rom>>, {x.rom})
    BY <2>4, ListsOne
  <2>16. Lists(s.result \o <<x.rom>>, F \cup {x.rom})
    BY <2>1, <2>7, <2>15, ListsBoth
  <2>17. Q.result = s.result \o <<x.rom>>
    BY <2>3, <2>6
  <2>8. Lists(Q.result, G)
    BY <2>16, <2>17
  <2>9. G = P \ Beyond(P, x.rom)
    BY <2>1, <2>2, <2>4
  <2>10. Q.last => G = P
    BY <2>2, <2>3, <2>9
  <2>11. ~Q.last => Len(Q.result) = k + 1 /\ G = P \ Coming(P, Q.rom, Q.zero) /\ Path(P, Q.rom, Q.zero)
    BY <2>2, <2>3, <2>6, <2>9 DEF Coming
  <2>12. G \in SUBSET P
    BY <2>9
  <2> HIDE DEF G
  <2>13. Searched(P, Q, G, k + 1)
    BY <2>8, <2>10, <2>11, <2>12 DEF Searched
  <2>14. QED BY <2>13 DEF Q
<1>3. QED BY <1>1, <1>2

LEMMA ChipScanLists ==
  ASSUME BitsAre, NEW P \in SUBSET UUIDs
  PROVE  Lists(ChipScan(P), P)
<1> DEFINE N == Cardinality(P) + 1
           F == [p \in Rounds \X (1..N) |-> Round(P, p[1])]
           T(s) == [k \in 0..N |-> IF k = 0 THEN FirstRound ELSE Round(P, s[k - 1])]
           s == CHOOSE f : f = T(f)
<1>1. IsFiniteSet(P) /\ Cardinality(P) \in Nat
  BY ScanLists, ListsFindAll, FS_CardinalityType
<1>2. ChipScan(P) = s[N].result
  BY DEF ChipScan, FirstRound
<1> HIDE DEF N
<1>3. N \in Nat /\ N = Cardinality(P) + 1
  BY <1>1 DEF N
<1>4. NullValue \in UUIDs /\ 0 \in 0..Bits
  BY DEF NullValue, UUIDs, BitsAre
<1>5. FirstRound \in Rounds
  BY <1>4 DEF FirstRound, Rounds
<1>6. F \in [Rounds \X (1..N) -> Rounds]
  BY RoundIs
<1>7. PICK g \in [0..N -> Rounds] : g[0] = FirstRound /\ \A k \in 1..N : g[k] = F[<<g[k - 1], k>>]
  <2> HIDE DEF F
  <2>1. Computable(N, Rounds, FirstRound, F)
    BY <1>3, <1>5, <1>6, Recursion
  <2>2. QED BY <2>1 DEF Computable
<1>8. ASSUME NEW k \in 1..N PROVE g[k] = Round(P, g[k - 1]) /\ g[k - 1] \in Rounds
  <2>1. k - 1 \in 0..N
    BY <1>3
  <2>2. <<g[k - 1], k>> \in Rounds \X (1..N)
    BY <2>1
  <2>3. F[<<g[k - 1], k>>] = Round(P, g[k - 1])
    BY <2>2
  <2>4. QED BY <1>7, <2>1, <2>3
<1>9. g = T(g)
  <2>1. \A k \in 0..N : k = 0 \/ k \in 1..N
    BY <1>3
  <2>2. \A k \in 0..N : g[k] = IF k = 0 THEN FirstRound ELSE Round(P, g[k - 1])
    BY <1>7, <1>8, <2>1
  <2>3. QED BY <2>2
<1>10. s = T(s)
  BY <1>9
<1> HIDE DEF s
<1>11. s[0] = FirstRound /\ \A k \in 1..N : s[k] = Round(P, s[k - 1])
  <2>1. \A k \in 0..N : s[k] = IF k = 0 THEN FirstRound ELSE Round(P, s[k - 1])
    BY <1>10
  <2>2. 0 \in 0..N /\ \A k \in 1..N : k \in 0..N /\ k # 0
    BY <1>3
  <2>3. QED BY <2>1, <2>2
<1> DEFINE S == {k \in Nat : k <= N => s[k] = g[k] /\ \E G : Searched(P, g[k], G, k)}
<1>12. 0 \in S
  <2>1. Path(P, NullValue, 0)
    BY <1>4 DEF Path
  <2>2. Searched(P, FirstRound, {}, 0)
    BY <2>1, ListsNone DEF Searched, FirstRound, Coming
  <2>3. QED BY <1>7, <1>11, <2>2
<1>13. ASSUME NEW k \in Nat, k \in S PROVE k + 1 \in S
  <2> SUFFICES ASSUME k + 1 <= N PROVE s[k + 1] = g[k + 1] /\ \E G : Searched(P, g[k + 1], G, k + 1)
    OBVIOUS
  <2>1. k + 1 \in 1..N /\ (k + 1) - 1 = k /\ k <= N
    BY <1>3
  <2>2. PICK G : s[k] = g[k] /\ Searched(P, g[k], G, k)
    BY <1>13, <2>1
  <2>3. s[k + 1] = Round(P, g[k]) /\ g[k + 1] = Round(P, g[k]) /\ g[k] \in Rounds
    BY <1>8, <1>11, <2>1, <2>2
  <2>4. QED BY <2>2, <2>3, RoundKeeps
<1>14. N \in S
  <2> HIDE DEF S
  <2>1. QED BY <1>3, <1>12, <1>13, SetInduction
<1>15. PICK G : s[N] = g[N] /\ Searched(P, g[N], G, N)
  BY <1>3, <1>14
\* There are not as many devices as rounds.
<1>16. g[N].last
  <2> SUFFICES ASSUME ~g[N].last PROVE FALSE
    OBVIOUS
  <2>1. G \in SUBSET P /\ Lists(g[N].result, G) /\ Len(g[N].result) = N
    BY <1>15 DEF Searched
  <2>2. Cardinality(G) = N
    BY <2>1, ListsFindAll DEF FindsAll
  <2>3. Cardinality(G) <= Cardinality(P)
    BY <1>1, <2>1, FS_Subset
  <2>4. QED BY <1>1, <1>3, <2>2, <2>3
<1>17. Lists(g[N].result, P)
  BY <1>15, <1>16 DEF Searched
<1>18. QED BY <1>2, <1>15, <1>17

\* For any number of bits and any devices on the bus: either search finds every
\* device, and each once (TW1BbBus::Scan, TDS2482Bus::Scan).
THEOREM SearchesFindAll ==
  ASSUME BitsAre
  PROVE  AllFound
<1> SUFFICES ASSUME NEW P \in SUBSET UUIDs
             PROVE  FindsAll(P, Scan(P)) /\ FindsAll(P, ChipScan(P))
  BY DEF AllFound
<1>1. Lists(Scan(P), P) /\ Lists(ChipScan(P), P)
  BY BitsAre, ScanLists, ChipScanLists
<1>2. QED BY <1>1, ListsFindAll

-----------------------------------------------------------------------------
(* CalculateCRC                                                            *)

Octets == [1..8 -> {0, 1}]

LEMMA XorIs ==
  ASSUME NEW a \in {0, 1}, NEW b \in {0, 1}
  PROVE  Xor(a, b) = IF a = b THEN 0 ELSE 1
BY DEF Xor

\* A bit takes a checksum to another, and reversibly so: what the lowest bit and
\* the bit that came make is the highest of the next.
LEMMA CrcBitIs ==
  ASSUME NEW c \in Octets, NEW a \in {0, 1}
  PROVE  /\ CrcBit(c, a) \in Octets
         /\ \A i \in 1..7 : CrcBit(c, a)[i] = IF i \in {3, 4} THEN Xor(c[i + 1], Xor(c[1], a)) ELSE c[i + 1]
         /\ CrcBit(c, a)[8] = Xor(c[1], a)
<1> DEFINE m == Xor(c[1], a)
<1>1. \A i \in 1..8 : c[i] \in {0, 1}
  BY DEF Octets
<1>2. c[1] \in {0, 1}
  BY <1>1
<1>3. m \in {0, 1}
  BY <1>2, XorIs
<1> HIDE DEF m
<1>4. \A i \in 1..8 : Xor(IF i = 8 THEN 0 ELSE c[i + 1], IF i \in {3, 4, 8} THEN m ELSE 0)
                        = IF i = 8 THEN m ELSE IF i \in {3, 4} THEN Xor(c[i + 1], m) ELSE c[i + 1]
  <2> SUFFICES ASSUME NEW i \in 1..8
               PROVE  Xor(IF i = 8 THEN 0 ELSE c[i + 1], IF i \in {3, 4, 8} THEN m ELSE 0)
                        = IF i = 8 THEN m ELSE IF i \in {3, 4} THEN Xor(c[i + 1], m) ELSE c[i + 1]
    OBVIOUS
  <2>1. CASE i = 8
    BY <1>3, <2>1, XorIs
  <2>2. CASE i # 8
    <3>1. c[i + 1] \in {0, 1}
      BY <1>1, <2>2
    <3>2. Xor(c[i + 1], 0) = c[i + 1]
      BY <3>1, XorIs
    <3>3. QED BY <2>2, <3>2
  <2>3. QED BY <2>1, <2>2
<1>5. \A i \in 1..8 : (IF i = 8 THEN m ELSE IF i \in {3, 4} THEN Xor(c[i + 1], m) ELSE c[i + 1]) \in {0, 1}
  <2> SUFFICES ASSUME NEW i \in 1..8, i # 8 PROVE c[i + 1] \in {0, 1} /\ Xor(c[i + 1], m) \in {0, 1}
    BY <1>3
  <2>1. c[i + 1] \in {0, 1}
    BY <1>1
  <2>2. QED BY <1>3, <2>1, XorIs
<1>6. CrcBit(c, a) = [i \in 1..8 |-> IF i = 8 THEN m ELSE IF i \in {3, 4} THEN Xor(c[i + 1], m) ELSE c[i + 1]]
  BY <1>4 DEF CrcBit, m
<1>7. QED BY <1>5, <1>6 DEF Octets, m

LEMMA CrcBitTells ==
  ASSUME NEW c \in Octets, NEW d \in Octets, NEW a \in {0, 1}, NEW b \in {0, 1},
         CrcBit(c, a) = CrcBit(d, b), a = b \/ c = d
  PROVE  a = b /\ c = d
<1> DEFINE m == Xor(c[1], a)
           n == Xor(d[1], b)
<1>1. (\A i \in 1..8 : c[i] \in {0, 1} /\ d[i] \in {0, 1}) /\ c[1] \in {0, 1} /\ d[1] \in {0, 1}
  BY DEF Octets
<1>2. m = n
  BY CrcBitIs
<1>3. m \in {0, 1} /\ a = b /\ c[1] = d[1]
  BY <1>1, <1>2, XorIs
<1> HIDE DEF m, n
<1>4. ASSUME NEW i \in 1..7 PROVE c[i + 1] = d[i + 1]
  <2>1. c[i + 1] \in {0, 1} /\ d[i + 1] \in {0, 1}
    BY <1>1
  <2>2. (IF i \in {3, 4} THEN Xor(c[i + 1], m) ELSE c[i + 1]) = IF i \in {3, 4} THEN Xor(d[i + 1], m) ELSE d[i + 1]
    BY <1>2, CrcBitIs DEF m, n
  <2>3. Xor(c[i + 1], m) = (IF c[i + 1] = m THEN 0 ELSE 1) /\ Xor(d[i + 1], m) = (IF d[i + 1] = m THEN 0 ELSE 1)
    BY <1>3, <2>1, XorIs
  <2>4. QED BY <1>3, <2>1, <2>2, <2>3
<1>5. \A i \in 1..8 : c[i] = d[i]
  <2> SUFFICES ASSUME NEW i \in 1..8, i # 1 PROVE c[i] = d[i]
    BY <1>3
  <2>1. i - 1 \in 1..7 /\ (i - 1) + 1 = i
    OBVIOUS
  <2>2. QED BY <1>4, <2>1
<1>6. c = d
  BY <1>5 DEF Octets
<1>7. QED BY <1>3, <1>6

\* The checksums of the beginnings of the data.
Sums(bits, g) == /\ g \in [0..Len(bits) -> Octets] /\ g[0] = NoneYet
                 /\ \A k \in 1..Len(bits) : g[k] = CrcBit(g[k - 1], bits[k])
LEMMA SumIs ==
  ASSUME NEW bits \in Seq({0, 1})
  PROVE  \E g : Sums(bits, g) /\ CalculateCRC(bits) = g[Len(bits)]
<1> DEFINE N == Len(bits)
           F == [p \in Octets \X (1..N) |-> CrcBit(p[1], bits[p[2]])]
           T(s) == [k \in 0..N |-> IF k = 0 THEN NoneYet ELSE CrcBit(s[k - 1], bits[k])]
           s == CHOOSE f : f = T(f)
<1>1. N \in Nat /\ \A k \in 1..N : bits[k] \in {0, 1}
  OBVIOUS
<1>2. CalculateCRC(bits) = s[N]
  BY DEF CalculateCRC
<1> HIDE DEF N
<1>3. NoneYet \in Octets
  BY DEF NoneYet, Octets
<1>4. F \in [Octets \X (1..N) -> Octets]
  BY <1>1, CrcBitIs
<1>5. PICK g \in [0..N -> Octets] : g[0] = NoneYet /\ \A k \in 1..N : g[k] = F[<<g[k - 1], k>>]
  <2> HIDE DEF F
  <2>1. Computable(N, Octets, NoneYet, F)
    BY <1>1, <1>3, <1>4, Recursion
  <2>2. QED BY <2>1 DEF Computable
<1>6. ASSUME NEW k \in 1..N PROVE g[k] = CrcBit(g[k - 1], bits[k])
  <2>1. k - 1 \in 0..N
    BY <1>1
  <2>2. <<g[k - 1], k>> \in Octets \X (1..N)
    BY <2>1
  <2>3. F[<<g[k - 1], k>>] = CrcBit(g[k - 1], bits[k])
    BY <2>2
  <2>4. QED BY <1>5, <2>3
<1>7. g = T(g)
  <2>1. \A k \in 0..N : k = 0 \/ k \in 1..N
    BY <1>1
  <2>2. \A k \in 0..N : g[k] = IF k = 0 THEN NoneYet ELSE CrcBit(g[k - 1], bits[k])
    BY <1>5, <1>6, <2>1
  <2>3. QED BY <2>2
<1>8. s = T(s)
  BY <1>7
<1> HIDE DEF s
<1>9. s[0] = NoneYet /\ \A k \in 1..N : s[k] = CrcBit(s[k - 1], bits[k])
  <2>1. \A k \in 0..N : s[k] = IF k = 0 THEN NoneYet ELSE CrcBit(s[k - 1], bits[k])
    BY <1>8
  <2>2. 0 \in 0..N /\ \A k \in 1..N : k \in 0..N /\ k # 0
    BY <1>1
  <2>3. QED BY <2>1, <2>2
<1> DEFINE S == {k \in Nat : k <= N => s[k] = g[k]}
<1>10. 0 \in S
  BY <1>5, <1>9
<1>11. ASSUME NEW k \in Nat, k \in S PROVE k + 1 \in S
  <2> SUFFICES ASSUME k + 1 <= N PROVE s[k + 1] = g[k + 1]
    OBVIOUS
  <2>1. k + 1 \in 1..N /\ (k + 1) - 1 = k /\ s[k] = g[k]
    BY <1>1, <1>11
  <2>2. QED BY <1>6, <1>9, <2>1
<1>12. N \in S
  <2> HIDE DEF S
  <2>1. QED BY <1>1, <1>10, <1>11, SetInduction
<1>13. Sums(bits, g)
  BY <1>5, <1>6 DEF Sums, N
<1>14. QED BY <1>2, <1>12, <1>13 DEF N

\* Up to the bit that has changed the checksums are the same, behind it they
\* never are again.
LEMMA ChangedSum ==
  ASSUME NEW n \in Nat, NEW a \in Seq({0, 1}), NEW b \in Seq({0, 1}), Len(a) = n, Len(b) = n,
         NEW i \in 1..n, a[i] # b[i], \A j \in 1..n : j # i => a[j] = b[j]
  PROVE  CalculateCRC(a) # CalculateCRC(b)
<1>1. PICK g : Sums(a, g) /\ CalculateCRC(a) = g[n]
  BY SumIs
<1>2. PICK h : Sums(b, h) /\ CalculateCRC(b) = h[n]
  BY SumIs
<1>3. /\ g \in [0..n -> Octets] /\ g[0] = NoneYet /\ \A k \in 1..n : g[k] = CrcBit(g[k - 1], a[k])
      /\ h \in [0..n -> Octets] /\ h[0] = NoneYet /\ \A k \in 1..n : h[k] = CrcBit(h[k - 1], b[k])
  BY <1>1, <1>2 DEF Sums
<1>4. \A k \in 1..n : a[k] \in {0, 1} /\ b[k] \in {0, 1}
  OBVIOUS
<1> DEFINE S == {k \in Nat : k <= n => IF k < i THEN g[k] = h[k] ELSE g[k] # h[k]}
<1>5. 0 \in S
  BY <1>3
<1>6. ASSUME NEW k \in Nat, k \in S PROVE k + 1 \in S
  <2> SUFFICES ASSUME k + 1 <= n PROVE IF k + 1 < i THEN g[k + 1] = h[k + 1] ELSE g[k + 1] # h[k + 1]
    OBVIOUS
  <2>1. k + 1 \in 1..n /\ (k + 1) - 1 = k /\ k \in 0..n /\ (IF k < i THEN g[k] = h[k] ELSE g[k] # h[k])
    BY <1>6
  <2>2. g[k + 1] = CrcBit(g[k], a[k + 1]) /\ h[k + 1] = CrcBit(h[k], b[k + 1])
    BY <1>3, <2>1
  <2>3. g[k] \in Octets /\ h[k] \in Octets /\ a[k + 1] \in {0, 1} /\ b[k + 1] \in {0, 1}
    BY <1>3, <1>4, <2>1
  <2>4. CASE k + 1 < i
    BY <2>1, <2>2, <2>4
  <2>5. CASE k + 1 = i
    <3>1. g[k] = h[k] /\ a[k + 1] # b[k + 1]
      BY <2>1, <2>5
    <3>2. QED BY <2>2, <2>3, <2>5, <3>1, CrcBitTells
  <2>6. CASE k + 1 > i
    <3>1. g[k] # h[k] /\ a[k + 1] = b[k + 1]
      BY <2>1, <2>6
    <3>2. QED BY <2>2, <2>3, <2>6, <3>1, CrcBitTells
  <2>7. QED BY <2>4, <2>5, <2>6
<1>7. n \in S
  <2> HIDE DEF S
  <2>1. QED BY <1>5, <1>6, SetInduction
<1>8. QED BY <1>1, <1>2, <1>7

LEMMA BitsOf ==
  ASSUME NEW n \in Nat, NEW u \in [1..n -> {0, 1}]
  PROVE  u \in Seq({0, 1}) /\ Len(u) = n
<1>1. u \in Seq({0, 1})
  OBVIOUS
<1>2. Len(u) \in Nat /\ DOMAIN u = 1..Len(u) /\ DOMAIN u = 1..n
  BY <1>1
<1>3. QED BY <1>1, <1>2

DataAre == CrcData \subseteq Seq({0, 1})

\* For any data: a checksum tells when one bit of what was sent, or of itself,
\* has changed (CalculateCRC, and the comparisons with it).
THEOREM ChecksumsTell ==
  ASSUME DataAre
  PROVE  CrcTells
<1> SUFFICES ASSUME NEW bits \in Seq({0, 1}), NEW i \in 1..(Len(bits) + 8)
             PROVE  LET sent == [(bits \o CalculateCRC(bits)) EXCEPT ![i] = 1 - @]
                    IN CalculateCRC(SubSeq(sent, 1, Len(bits))) # SubSeq(sent, Len(bits) + 1, Len(bits) + 8)
  BY DEF DataAre, CrcTells
<1> DEFINE n == Len(bits)
           crc == CalculateCRC(bits)
           all == bits \o crc
           sent == [all EXCEPT ![i] = 1 - @]
           first == SubSeq(sent, 1, n)
           rest == SubSeq(sent, n + 1, n + 8)
<1>1. n \in Nat /\ Len(bits) = n
  OBVIOUS
<1>2. crc \in Octets
  BY SumIs DEF Sums
<1> HIDE DEF crc, n
<1>3. crc \in Seq({0, 1}) /\ Len(crc) = 8
  <2> HIDE DEF all, sent, first, rest
  <2>1. crc \in [1..8 -> {0, 1}] /\ 8 \in Nat
    BY <1>2 DEF Octets
  <2>2. QED BY <2>1, BitsOf
<1>4. /\ all \in Seq({0, 1}) /\ Len(all) = n + 8
      /\ \A j \in 1..n : all[j] = bits[j]
      /\ \A j \in 1..8 : all[n + j] = crc[j]
  <2> HIDE DEF sent, first, rest
  <2>1. /\ all \in Seq({0, 1}) /\ Len(all) = n + 8
        /\ \A j \in 1..(n + 8) : all[j] = IF j <= n THEN bits[j] ELSE crc[j - n]
    <3>1. /\ bits \o crc \in Seq({0, 1}) /\ Len(bits \o crc) = Len(bits) + Len(crc)
          /\ \A j \in 1..(Len(bits) + Len(crc)) :
                (bits \o crc)[j] = IF j <= Len(bits) THEN bits[j] ELSE crc[j - Len(bits)]
      <4> HIDE DEF all
      <4>1. bits \in Seq({0, 1}) /\ crc \in Seq({0, 1})
        BY <1>3
      <4>2. QED BY <4>1, ConcatProperties
    <3>2. QED BY <1>1, <1>3, <3>1
  <2> HIDE DEF all
  <2>2. \A j \in 1..n : j \in 1..(n + 8) /\ j <= n
    BY <1>1
  <2>3. \A j \in 1..8 : n + j \in 1..(n + 8) /\ ~(n + j <= n) /\ (n + j) - n = j
    BY <1>1
  <2>4. QED BY <2>1, <2>2, <2>3
<1> HIDE DEF all
<1>5. i \in 1..(n + 8)
  BY DEF n
<1>6. all[i] \in {0, 1} /\ 1 - all[i] \in {0, 1} /\ 1 - all[i] # all[i]
  BY <1>1, <1>4, <1>5
<1>7. /\ sent \in Seq({0, 1}) /\ Len(sent) = n + 8 /\ sent[i] # all[i]
      /\ \A j \in 1..(n + 8) : j # i => sent[j] = all[j]
  BY <1>1, <1>4, <1>5, <1>6
<1> HIDE DEF sent
<1>8. /\ first \in Seq({0, 1}) /\ Len(first) = n
      /\ \A j \in 1..n : first[j] = sent[j]
  BY <1>1, <1>7
<1>9. Len(rest) = 8 /\ \A j \in 1..8 : rest[j] = sent[n + j]
  BY <1>1, <1>7
<1> HIDE DEF first, rest
<1>10. CASE i <= n
  <2>1. \A j \in 1..8 : n + j \in 1..(n + 8) /\ n + j # i
    BY <1>1, <1>10
  <2>2. \A j \in 1..8 : rest[j] = crc[j]
    BY <1>4, <1>7, <1>9, <2>1
  <2>3. rest # CalculateCRC(first)
    <3>1. i \in 1..n /\ \A j \in 1..n : j \in 1..(n + 8)
      BY <1>1, <1>5, <1>10
    <3>2. first[i] # bits[i] /\ \A j \in 1..n : j # i => first[j] = bits[j]
      BY <1>4, <1>7, <1>8, <3>1
    <3>3. CalculateCRC(first) # CalculateCRC(bits)
      BY <1>1, <1>8, <3>1, <3>2, ChangedSum
    <3>4. CalculateCRC(first) # crc
      BY <3>3 DEF crc
    <3>5. CalculateCRC(first) \in Octets
      BY <1>8, SumIs DEF Sums
    <3>6. ASSUME rest = CalculateCRC(first) PROVE FALSE
      BY <1>2, <2>2, <3>4, <3>5, <3>6 DEF Octets
    <3>7. QED BY <3>6
  <2>4. QED BY <2>3 DEF first, rest, sent, all, crc, n
<1>11. CASE i > n
  <2>1. first = bits
    <3>1. \A j \in 1..n : j \in 1..(n + 8) /\ j # i
      BY <1>1, <1>5, <1>11
    <3>2. \A j \in 1..n : first[j] = bits[j]
      BY <1>4, <1>7, <1>8, <3>1
    <3>3. QED BY <1>1, <1>8, <3>2, SeqEqual
  <2>2. i - n \in 1..8 /\ n + (i - n) = i
    BY <1>1, <1>5, <1>11
  <2>3. rest[i - n] # crc[i - n]
    BY <1>4, <1>7, <1>9, <2>2
  <2>4. CalculateCRC(first) # rest
    BY <2>1, <2>3 DEF crc
  <2>5. QED BY <2>4 DEF first, rest, sent, all, crc, n
<1>12. i <= n \/ i > n
  BY <1>1, <1>5
<1>13. QED BY <1>10, <1>11, <1>12

-----------------------------------------------------------------------------
(* Lines that are parsed *)

\* A parser state is a record with the fields it began with.
Fields == {"pos", "eof", "fr_cmd", "spindle_rpm", "spindle_on", "wcs", "plane", "unit", "idx_wcs", "coord_mode", "drill_return"}
FreshIs == /\ Fresh = [f \in DOMAIN Fresh |-> Fresh[f]] /\ Fields \subseteq DOMAIN Fresh
           /\ Fresh.eof = FALSE
Whole(s) == DOMAIN s = DOMAIN Fresh /\ s = [f \in DOMAIN Fresh |-> s[f]]
\* Whether the parser follows the moves of a command.
Tracked == {"G0", "G1", "G2"}
Untracked == {"G81", "M6", "G38.2", "G38.3"}
\* What parsing a line may do to the state, and its command to the machine.
Fits(s, cmd, r) ==
    /\ Whole(r.state) /\ r.state.eof = s.eof
    /\ r.ok => /\ r.cmd.kind # "comment"
               /\ cmd \in Tracked => \A from : Moved(from, r.cmd) = r.state.pos
               /\ cmd \notin Tracked => r.state.pos = s.pos
               /\ cmd \notin Tracked \cup Untracked => \A from : Moved(from, r.cmd) = from
    /\ ~r.ok => /\ cmd \notin {"G81", "M3"} => r.state = s
                /\ [r.state EXCEPT !.fr_cmd = 0, !.spindle_rpm = 0] = [s EXCEPT !.fr_cmd = 0, !.spindle_rpm = 0]

LEMMA RefusalFits ==
  ASSUME FreshIs, NEW s, Whole(s), NEW cmd
  PROVE  Fits(s, cmd, Refusal(s))
BY DEF Fits, Refusal

LEMMA QuietFits ==
  ASSUME FreshIs, NEW s, Whole(s), NEW cmd, cmd \notin Tracked, NEW t, Whole(t), t.eof = s.eof, t.pos = s.pos,
         NEW c, c.kind # "comment", \A from : Moved(from, c) = from
  PROVE  Fits(s, cmd, Parsed(t, c))
BY DEF Fits, Parsed

LEMMA LinearFits ==
  ASSUME FreshIs, NEW s, Whole(s), NEW cmd \in {"G0", "G1"}, NEW args
  PROVE  Fits(s, cmd, LinearMove(s, cmd = "G0", args))
<1> DEFINE v == Vector(s.unit, XYZ, args)
           fast == cmd = "G0"
           has_xy == ~IsZero(v[1]) \/ ~IsZero(v[2])
           rapid == IF has_xy /\ ~IsZero(v[3]) THEN Lower(s.fr_rapid_xy, s.fr_rapid_z)
                    ELSE IF has_xy THEN s.fr_rapid_xy ELSE s.fr_rapid_z
           feedrate == With(args, "F", IF fast THEN rapid ELSE s.fr_cmd)
           target == Target(s, v)
           fr == IF fast THEN s.fr_cmd ELSE feedrate
           t == [s EXCEPT !.pos = target, !.fr_cmd = fr]
           c == Move(target, feedrate)
<1>1. LinearMove(s, fast, args) = Parsed(t, c)
  BY DEF LinearMove
<1> HIDE DEF v, has_xy, rapid, feedrate, target, fr
<1>2. Whole(t) /\ t.eof = s.eof /\ t.pos = target
  BY DEF Whole, FreshIs, Fields
<1>3. c.kind # "comment" /\ \A from : Moved(from, c) = target
  BY DEF Move, Moved
<1> HIDE DEF t, c
<1>4. QED BY <1>1, <1>2, <1>3 DEF Fits, Parsed, Tracked

LEMMA ArcFits ==
  ASSUME FreshIs, NEW s, Whole(s), NEW args
  PROVE  Fits(s, "G2", ArcMove(s, args))
<1> DEFINE feedrate == With(args, "F", s.fr_cmd)
           target == Target(s, Vector(s.unit, XYZ, args))
           center == Plus(Vector(s.unit, IJK, args), s.pos)
           t == [s EXCEPT !.pos = target, !.fr_cmd = feedrate]
           c == [kind |-> "G03", target |-> target, center |-> center, start |-> s.pos, feedrate |-> feedrate]
<1>1. ArcMove(s, args) = Parsed(t, c)
  BY DEF ArcMove
<1> HIDE DEF feedrate, target, center
<1>2. Whole(t) /\ t.eof = s.eof /\ t.pos = target
  BY DEF Whole, FreshIs, Fields
<1>3. c.kind # "comment" /\ \A from : Moved(from, c) = target
  BY DEF Moved
<1> HIDE DEF t, c
<1>4. QED BY <1>1, <1>2, <1>3 DEF Fits, Parsed, Tracked

LEMMA OffsetFits ==
  ASSUME FreshIs, NEW s, Whole(s), NEW args
  PROVE  Fits(s, "G10", SetWorkCoordOffset(s, args))
<1> DEFINE v == Vector(s.unit, XYZ, args)
           origin == IF args["L"] = 20 THEN Plus(v, s.pos) ELSE [i \in Axes |-> Num(v[i])]
           t == [s EXCEPT !.wcs[args["P"] + 1] = origin]
           c == [kind |-> "G10"]
<1>1. SetWorkCoordOffset(s, args) = IF args["L"] \notin {2, 20} THEN Refusal(s) ELSE Parsed(t, c)
  BY DEF SetWorkCoordOffset
<1> HIDE DEF v, origin
<1>2. Whole(t) /\ t.eof = s.eof /\ t.pos = s.pos
  BY DEF Whole, FreshIs, Fields
<1>3. c.kind # "comment" /\ \A from : Moved(from, c) = from
  BY DEF Moved
<1> HIDE DEF t, c
<1>4. Fits(s, "G10", Parsed(t, c))
  BY <1>2, <1>3, QuietFits DEF Tracked
<1>5. QED BY <1>1, <1>4, RefusalFits

LEMMA DrillFits ==
  ASSUME FreshIs, NEW s, Whole(s), NEW args
  PROVE  Fits(s, "G81", Drill(s, args))
<1> DEFINE v == Vector(s.unit, XYZ, args)
           feedrate == With(args, "F", s.fr_cmd)
           retract == IF s.drill_return = "R_LEVEL" THEN args["R"] ELSE s.pos[3]
           up == <<Num(v[1]), Num(v[2]), Num(retract)>>
           t == [s EXCEPT !.fr_cmd = feedrate]
           moves == <<Move(up, s.fr_rapid_xy), Move(<<up[1], up[2], Num(v[3])>>, feedrate), Move(up, s.fr_rapid_z)>>
           c == Macro(moves)
<1>1. Drill(s, args) = IF s.drill_return = "R_LEVEL" /\ "R" \notin DOMAIN args THEN Refusal(t) ELSE Parsed(t, c)
  BY DEF Drill
<1> HIDE DEF v, feedrate, retract, up, moves
<1>2. Whole(t) /\ t.eof = s.eof /\ t.pos = s.pos
  BY DEF Whole, FreshIs, Fields
<1>3. [t EXCEPT !.fr_cmd = 0, !.spindle_rpm = 0] = [s EXCEPT !.fr_cmd = 0, !.spindle_rpm = 0]
  BY DEF Whole, FreshIs, Fields
<1>4. c.kind # "comment"
  BY DEF Macro
<1> HIDE DEF t, c
<1>5. Fits(s, "G81", Refusal(t))
  BY <1>2, <1>3 DEF Fits, Refusal
<1>6. Fits(s, "G81", Parsed(t, c))
  BY <1>2, <1>4 DEF Fits, Parsed, Tracked, Untracked
<1>7. QED BY <1>1, <1>5, <1>6

LEMMA SpindleFits ==
  ASSUME FreshIs, NEW s, Whole(s), NEW args
  PROVE  Fits(s, "M3", SpindleStart(s, args))
<1> DEFINE rpm == With(args, "S", s.spindle_rpm)
           t == [s EXCEPT !.spindle_rpm = rpm]
           u == [t EXCEPT !.spindle_on = TRUE]
           c == Spindle(TRUE)
<1>1. SpindleStart(s, args) = IF t.spindle_rpm < 0 THEN Refusal(t) ELSE Parsed(u, c)
  BY DEF SpindleStart
<1> HIDE DEF rpm
<1>2. Whole(t) /\ t.eof = s.eof /\ t.pos = s.pos
  BY DEF Whole, FreshIs, Fields
<1>3. [t EXCEPT !.fr_cmd = 0, !.spindle_rpm = 0] = [s EXCEPT !.fr_cmd = 0, !.spindle_rpm = 0]
  BY DEF Whole, FreshIs, Fields
<1> HIDE DEF t
<1>4. Whole(u) /\ u.eof = s.eof /\ u.pos = s.pos
  BY <1>2 DEF Whole, FreshIs, Fields
<1>5. c.kind # "comment" /\ \A from : Moved(from, c) = from
  BY DEF Moved, Spindle
<1> HIDE DEF u, c
<1>6. Fits(s, "M3", Refusal(t))
  BY <1>2, <1>3 DEF Fits, Refusal
<1>7. Fits(s, "M3", Parsed(u, c))
  BY <1>4, <1>5, QuietFits DEF Tracked
<1>8. QED BY <1>1, <1>6, <1>7

LEMMA ToolFits ==
  ASSUME FreshIs, NEW s, Whole(s)
  PROVE  Fits(s, "M6", ToolChange(s))
<1> DEFINE higher == s.tool_change_pos[3] > s.pos[3]
           raised == [s.pos EXCEPT ![3] = IF higher THEN s.tool_change_pos[3] ELSE @]
           moves == (IF higher THEN <<Move(raised, s.fr_rapid_z)>> ELSE <<>>)
                     \o <<Spindle(FALSE), Move(s.tool_change_pos, s.fr_rapid_xy), [kind |-> "M01"],
                          Spindle(TRUE), Move(raised, s.fr_rapid_xy)>>
           c == Macro(moves)
<1>1. ToolChange(s) = Parsed(s, c)
  BY DEF ToolChange
<1> HIDE DEF higher, raised, moves
<1>2. c.kind # "comment"
  BY DEF Macro
<1> HIDE DEF c
<1>3. QED BY <1>1, <1>2 DEF Fits, Parsed, Tracked, Untracked

LEMMA ProbeFits ==
  ASSUME FreshIs, NEW s, Whole(s), NEW cmd \in {"G38.2", "G38.3"}
  PROVE  Fits(s, cmd, Probe(s, cmd))
<1> DEFINE c == [kind |-> cmd, target |-> <<0, 0, 0>>, feedrate |-> 0]
<1>1. Probe(s, cmd) = Parsed(s, c)
  BY DEF Probe
<1>2. c.kind # "comment"
  OBVIOUS
<1> HIDE DEF c
<1>3. QED BY <1>1, <1>2 DEF Fits, Parsed, Tracked, Untracked

\* Commands that only set a mode, or say something that moves nothing.
Kinds == {"silent", "G04", "G17", "G18", "G19", "M05", "M00", "M02"}
LEMMA KindStays ==
  ASSUME NEW k \in Kinds
  PROVE  [kind |-> k].kind # "comment" /\ \A from : Moved(from, [kind |-> k]) = from
BY DEF Kinds, Moved
Modes == {"plane", "unit", "idx_wcs", "coord_mode", "drill_return", "spindle_on"}
LEMMA ModeFits ==
  ASSUME FreshIs, NEW s, Whole(s), NEW m \in Modes, NEW x, NEW cmd, cmd \notin Tracked, NEW k \in Kinds
  PROVE  /\ Fits(s, cmd, Parsed([s EXCEPT ![m] = x], [kind |-> k]))
         /\ Fits(s, cmd, Parsed(s, [kind |-> k]))
<1> DEFINE t == [s EXCEPT ![m] = x]
           c == [kind |-> k]
<1>1. Whole(t) /\ t.eof = s.eof /\ t.pos = s.pos
  BY DEF Whole, FreshIs, Fields, Modes
<1>2. c.kind # "comment" /\ \A from : Moved(from, c) = from
  BY KindStays
<1> HIDE DEF t, c
<1>3. Fits(s, cmd, Parsed(t, c)) /\ Fits(s, cmd, Parsed(s, c))
  BY <1>1, <1>2, QuietFits
<1>4. QED BY <1>3 DEF t, c

LEMMA ParseFits ==
  ASSUME FreshIs, NEW s, Whole(s), NEW line
  PROVE  Fits(s, line.cmd, ParseCommand(s, line))
<1> DEFINE cmd == line.cmd
           args == Args(line.args)
           bad == ~Accepted(line.args, Mandatory(cmd), Keys[cmd])
           r == ParseCommand(s, line)
           keyed == {"G0", "G1", "G2", "G4", "G10", "G81", "M3", "M5", "M6"}
<1>1. DOMAIN Keys = keyed
  BY DEF Keys
<1>2. CASE cmd \in keyed /\ bad
  <2>1. r = Refusal(s)
    BY <1>1, <1>2 DEF ParseCommand
  <2>2. QED BY <2>1, RefusalFits
<1>3. CASE cmd \in keyed /\ ~bad
  <2>1. r = CASE cmd \in {"G0", "G1"} -> LinearMove(s, cmd = "G0", args)
              [] cmd = "G2" -> ArcMove(s, args)
              [] cmd = "G4" -> Parsed(s, [kind |-> "G04"])
              [] cmd = "G10" -> SetWorkCoordOffset(s, args)
              [] cmd = "G81" -> Drill(s, args)
              [] cmd = "M3" -> SpindleStart(s, args)
              [] cmd = "M5" -> Parsed([s EXCEPT !.spindle_on = FALSE], Spindle(FALSE))
              [] cmd = "M6" -> ToolChange(s)
    BY <1>1, <1>3 DEF ParseCommand
  <2> HIDE DEF args, bad, r
  <2>2. CASE cmd \in {"G0", "G1"}
    <3>1. r = LinearMove(s, cmd = "G0", args)
      BY <2>1, <2>2
    <3>2. QED BY <2>2, <3>1, LinearFits DEF r
  <2>3. CASE cmd = "G2"
    <3>1. r = ArcMove(s, args)
      BY <2>1, <2>3
    <3>2. QED BY <2>3, <3>1, ArcFits DEF r
  <2>4. CASE cmd = "G4"
    <3>1. r = Parsed(s, [kind |-> "G04"])
      BY <2>1, <2>4
    <3>2. "G04" \in Kinds /\ "plane" \in Modes /\ cmd \notin Tracked
      BY <2>4 DEF Kinds, Modes, Tracked
    <3>3. QED BY <3>1, <3>2, ModeFits DEF r
  <2>5. CASE cmd = "G10"
    <3>1. r = SetWorkCoordOffset(s, args)
      BY <2>1, <2>5
    <3>2. QED BY <2>5, <3>1, OffsetFits DEF r
  <2>6. CASE cmd = "G81"
    <3>1. r = Drill(s, args)
      BY <2>1, <2>6
    <3>2. QED BY <2>6, <3>1, DrillFits DEF r
  <2>7. CASE cmd = "M3"
    <3>1. r = SpindleStart(s, args)
      BY <2>1, <2>7
    <3>2. QED BY <2>7, <3>1, SpindleFits DEF r
  <2>8. CASE cmd = "M5"
    <3>1. r = Parsed([s EXCEPT !.spindle_on = FALSE], [kind |-> "M05"])
      BY <2>1, <2>8 DEF Spindle
    <3>2. "M05" \in Kinds /\ "spindle_on" \in Modes /\ cmd \notin Tracked
      BY <2>8 DEF Kinds, Modes, Tracked
    <3>3. QED BY <3>1, <3>2, ModeFits DEF r
  <2>9. CASE cmd = "M6"
    <3>1. r = ToolChange(s)
      BY <2>1, <2>9
    <3>2. QED BY <2>9, <3>1, ToolFits DEF r
  <2>10. QED BY <1>3, <2>2, <2>3, <2>4, <2>5, <2>6, <2>7, <2>8, <2>9 DEF r
<1>4. CASE cmd \notin keyed
  <2>1. r = CASE cmd \in {"G17", "G18", "G19"} -> Parsed([s EXCEPT !.plane = cmd], [kind |-> cmd])
              [] cmd \in {"G20", "G21"} -> Parsed([s EXCEPT !.unit = IF cmd = "G20" THEN "IMPERIAL" ELSE "METRIC"], Silent)
              [] cmd \in {"G38.2", "G38.3"} -> Probe(s, cmd)
              [] cmd \in {"G54", "G55"} -> Parsed([s EXCEPT !.idx_wcs = IF cmd = "G54" THEN 0 ELSE 1], Silent)
              [] cmd = "G80" -> Parsed(s, Silent)
              [] cmd \in {"G90", "G91"} -> Parsed([s EXCEPT !.coord_mode = IF cmd = "G90" THEN "ABSOLUTE" ELSE "RELATIVE"], Silent)
              [] cmd \in {"G98", "G99"} -> Parsed([s EXCEPT !.drill_return = IF cmd = "G98" THEN "R_LEVEL" ELSE "PREVIOUS_Z"], Silent)
              [] cmd = "M0" -> Parsed(s, [kind |-> "M00"])
              [] cmd = "M2" -> Parsed(s, [kind |-> "M02"])
              [] OTHER -> Refusal(s)
    BY <1>1, <1>4 DEF ParseCommand
  <2> HIDE DEF r
  <2>2. CASE cmd \in {"G17", "G18", "G19"}
    <3>1. r = Parsed([s EXCEPT !.plane = cmd], [kind |-> cmd])
      BY <2>1, <2>2
    <3>2. cmd \in Kinds /\ "plane" \in Modes /\ cmd \notin Tracked
      BY <2>2 DEF Kinds, Modes, Tracked
    <3>3. QED BY <3>1, <3>2, ModeFits DEF r
  <2>3. CASE cmd \in {"G38.2", "G38.3"}
    <3>1. r = Probe(s, cmd)
      BY <2>1, <2>3
    <3>2. QED BY <2>3, <3>1, ProbeFits DEF r
  <2>4. CASE cmd \in {"G20", "G21", "G54", "G55", "G80", "G90", "G91", "G98", "G99"}
    <3>1. (\E m \in Modes : \E x : r = Parsed([s EXCEPT ![m] = x], [kind |-> "silent"])) \/ r = Parsed(s, [kind |-> "silent"])
      BY <2>1, <2>4 DEF Modes, Silent
    <3>2. "silent" \in Kinds /\ "plane" \in Modes /\ cmd \notin Tracked
      BY <2>4 DEF Kinds, Modes, Tracked
    <3>3. CASE r = Parsed(s, [kind |-> "silent"])
      BY <3>2, <3>3, ModeFits DEF r
    <3>4. ASSUME NEW m \in Modes, NEW x, r = Parsed([s EXCEPT ![m] = x], [kind |-> "silent"])
          PROVE  Fits(s, cmd, r)
      BY <3>2, <3>4, ModeFits
    <3>5. QED BY <3>1, <3>3, <3>4 DEF r
  <2>5. CASE cmd \in {"M0", "M2"}
    <3>1. r = Parsed(s, [kind |-> "M00"]) \/ r = Parsed(s, [kind |-> "M02"])
      BY <2>1, <2>5
    <3>2. "M00" \in Kinds /\ "M02" \in Kinds /\ "plane" \in Modes /\ cmd \notin Tracked
      BY <2>5 DEF Kinds, Modes, Tracked
    <3>3. QED BY <3>1, <3>2, ModeFits DEF r
  <2>6. CASE cmd \notin {"G17", "G18", "G19", "G38.2", "G38.3", "G20", "G21", "G54", "G55", "G80", "G90", "G91", "G98", "G99", "M0", "M2"}
    <3>1. r = Refusal(s)
      BY <2>1, <2>6
    <3>2. QED BY <3>1, RefusalFits DEF r
  <2>7. QED BY <2>2, <2>3, <2>4, <2>5, <2>6
<1>5. QED BY <1>2, <1>3, <1>4

-----------------------------------------------------------------------------
(* The order of what is given                                              *)

Words == {"comment"} \cup {l.cmd : l \in Lines}
LEMMA MeantIs ==
  ASSUME NEW l \in Lines
  PROVE  /\ Meant(l) \in Seq(Words)
         /\ l.cmd = "(" => Len(Meant(l)) = 1 /\ Meant(l)[1] = "comment"
         /\ l.cmd = "" => Len(Meant(l)) = 0
         /\ l.cmd \notin {"(", ""} /\ l.comment => Len(Meant(l)) = 2 /\ Meant(l)[1] = "comment" /\ Meant(l)[2] = l.cmd
         /\ l.cmd \notin {"(", ""} /\ ~l.comment => Len(Meant(l)) = 1 /\ Meant(l)[1] = l.cmd
<1>1. l.cmd \in Words /\ "comment" \in Words
  BY DEF Words
<1>2. CASE l.cmd = "("
  <2>1. Meant(l) = <<"comment">> /\ l.cmd # ""
    BY <1>2 DEF Meant
  <2>2. QED BY <1>1, <1>2, <2>1
<1>3. CASE l.cmd = ""
  <2>1. Meant(l) = <<>> /\ l.cmd # "("
    BY <1>3 DEF Meant
  <2>2. <<>> \in Seq(Words) /\ Len(<<>>) = 0
    OBVIOUS
  <2>3. Meant(l) \in Seq(Words) /\ Len(Meant(l)) = 0
    BY <2>1, <2>2
  <2>4. QED BY <1>3, <2>1, <2>3, Zenon
<1>4. CASE l.cmd \notin {"(", ""} /\ l.comment
  <2> DEFINE w == l.cmd
             m == <<"comment", w>>
  <2>1. Meant(l) = m /\ w \notin {"(", ""}
    BY <1>4 DEF Meant
  <2>2. w \in Words /\ "comment" \in Words
    BY <1>1
  <2> HIDE DEF w
  <2>3. m \in Seq(Words) /\ Len(m) = 2 /\ m[1] = "comment" /\ m[2] = w
    BY <2>2
  <2> HIDE DEF m
  <2>4. Meant(l) \in Seq(Words) /\ Len(Meant(l)) = 2 /\ Meant(l)[1] = "comment" /\ Meant(l)[2] = w
    BY <2>1, <2>3, Zenon
  <2>5. QED BY <1>4, <2>4, Zenon DEF w
<1>5. CASE l.cmd \notin {"(", ""} /\ ~l.comment
  <2> DEFINE w == l.cmd
             m == <<w>>
  <2>1. Meant(l) = m /\ w \notin {"(", ""}
    BY <1>5 DEF Meant
  <2>2. w \in Words
    BY <1>1
  <2> HIDE DEF w
  <2>3. m \in Seq(Words) /\ Len(m) = 1 /\ m[1] = w
    BY <2>2
  <2> HIDE DEF m
  <2>4. Meant(l) \in Seq(Words) /\ Len(Meant(l)) = 1 /\ Meant(l)[1] = w
    BY <2>1, <2>3, Zenon
  <2>5. QED BY <1>5, <2>4, Zenon DEF w
<1>6. QED BY <1>2, <1>3, <1>4, <1>5

\* What the beginnings of a program mean.
Means(p, g) == /\ g \in [0..Len(p) -> Seq(Words)] /\ g[0] = <<>>
               /\ \A k \in 1..Len(p) : g[k] = g[k - 1] \o Meant(p[k])
LEMMA MeaningIs ==
  ASSUME NEW p \in Seq(Lines)
  PROVE  \E g : Means(p, g) /\ Meaning(p) = g[Len(p)]
<1> DEFINE N == Len(p)
           F == [x \in Seq(Words) \X (1..N) |-> x[1] \o Meant(p[x[2]])]
           T(s) == [n \in 0..N |-> IF n = 0 THEN <<>> ELSE s[n - 1] \o Meant(p[n])]
           s == CHOOSE f : f = T(f)
<1>1. N \in Nat /\ \A k \in 1..N : p[k] \in Lines
  OBVIOUS
<1>2. Meaning(p) = s[N]
  BY DEF Meaning
<1> HIDE DEF N
<1>3. <<>> \in Seq(Words)
  OBVIOUS
<1>4. F \in [Seq(Words) \X (1..N) -> Seq(Words)]
  <2>1. \A x \in Seq(Words) \X (1..N) : x[1] \o Meant(p[x[2]]) \in Seq(Words)
    <3> SUFFICES ASSUME NEW a \in Seq(Words), NEW k \in 1..N PROVE a \o Meant(p[k]) \in Seq(Words)
      OBVIOUS
    <3>1. Meant(p[k]) \in Seq(Words)
      BY <1>1, MeantIs
    <3>2. QED BY <3>1
  <2>2. QED BY <2>1
<1>5. PICK g \in [0..N -> Seq(Words)] : g[0] = <<>> /\ \A k \in 1..N : g[k] = F[<<g[k - 1], k>>]
  <2> HIDE DEF F
  <2>1. Computable(N, Seq(Words), <<>>, F)
    BY <1>1, <1>3, <1>4, Recursion
  <2>2. QED BY <2>1 DEF Computable
<1>6. ASSUME NEW k \in 1..N PROVE g[k] = g[k - 1] \o Meant(p[k])
  <2>1. k - 1 \in 0..N
    BY <1>1
  <2>2. <<g[k - 1], k>> \in Seq(Words) \X (1..N)
    BY <2>1
  <2>3. F[<<g[k - 1], k>>] = g[k - 1] \o Meant(p[k])
    BY <2>2
  <2>4. QED BY <1>5, <2>3
<1>7. g = T(g)
  <2>1. \A k \in 0..N : k = 0 \/ k \in 1..N
    BY <1>1
  <2>2. \A k \in 0..N : g[k] = IF k = 0 THEN <<>> ELSE g[k - 1] \o Meant(p[k])
    BY <1>5, <1>6, <2>1
  <2>3. QED BY <2>2
<1>8. s = T(s)
  BY <1>7
<1> HIDE DEF s
<1>9. s[0] = <<>> /\ \A k \in 1..N : s[k] = s[k - 1] \o Meant(p[k])
  <2>1. \A k \in 0..N : s[k] = IF k = 0 THEN <<>> ELSE s[k - 1] \o Meant(p[k])
    BY <1>8
  <2>2. 0 \in 0..N /\ \A k \in 1..N : k \in 0..N /\ k # 0
    BY <1>1
  <2>3. QED BY <2>1, <2>2
<1> DEFINE S == {k \in Nat : k <= N => s[k] = g[k]}
<1>10. 0 \in S
  BY <1>5, <1>9
<1>11. ASSUME NEW k \in Nat, k \in S PROVE k + 1 \in S
  <2> SUFFICES ASSUME k + 1 <= N PROVE s[k + 1] = g[k + 1]
    OBVIOUS
  <2>1. k + 1 \in 1..N /\ (k + 1) - 1 = k /\ s[k] = g[k]
    BY <1>1, <1>11
  <2>2. QED BY <1>6, <1>9, <2>1
<1>12. N \in S
  <2> HIDE DEF S
  <2>1. QED BY <1>1, <1>10, <1>11, SetInduction
<1>13. Means(p, g)
  BY <1>5, <1>6 DEF Means, N
<1>14. QED BY <1>2, <1>12, <1>13 DEF N

LEMMA MeaningGrows ==
  ASSUME NEW p \in Seq(Lines), NEW l \in Lines
  PROVE  Meaning(Append(p, l)) = Meaning(p) \o Meant(l) /\ Meaning(p) \in Seq(Words) /\ Meaning(<<>>) = <<>>
<1> DEFINE q == Append(p, l)
           n == Len(p)
<1>1. n \in Nat /\ q \in Seq(Lines) /\ Len(q) = n + 1 /\ q[n + 1] = l /\ \A k \in 1..n : q[k] = p[k]
  OBVIOUS
<1>2. PICK g : Means(p, g) /\ Meaning(p) = g[n]
  BY MeaningIs
<1> HIDE DEF q, n
<1>3. PICK h : Means(q, h) /\ Meaning(q) = h[n + 1]
  BY <1>1, MeaningIs
<1>4. /\ g \in [0..n -> Seq(Words)] /\ g[0] = <<>> /\ \A k \in 1..n : g[k] = g[k - 1] \o Meant(p[k])
      /\ h[0] = <<>> /\ \A k \in 1..(n + 1) : h[k] = h[k - 1] \o Meant(q[k])
  BY <1>1, <1>2, <1>3 DEF Means, n
<1> DEFINE S == {k \in Nat : k <= n => g[k] = h[k]}
<1>5. 0 \in S
  BY <1>4
<1>6. ASSUME NEW k \in Nat, k \in S PROVE k + 1 \in S
  <2> SUFFICES ASSUME k + 1 <= n PROVE g[k + 1] = h[k + 1]
    OBVIOUS
  <2>1. k + 1 \in 1..n /\ k + 1 \in 1..(n + 1) /\ (k + 1) - 1 = k /\ g[k] = h[k]
    BY <1>1, <1>6
  <2>2. QED BY <1>1, <1>4, <2>1
<1>7. n \in S
  <2> HIDE DEF S
  <2>1. QED BY <1>1, <1>5, <1>6, SetInduction
<1>8. Meaning(q) = Meaning(p) \o Meant(l)
  <2>1. n + 1 \in 1..(n + 1) /\ (n + 1) - 1 = n
    BY <1>1
  <2>2. h[n + 1] = h[n] \o Meant(q[n + 1])
    BY <1>4, <2>1
  <2>3. g[n] = h[n]
    BY <1>1, <1>7
  <2>4. QED BY <1>1, <1>2, <1>3, <2>2, <2>3
<1>9. Meaning(p) \in Seq(Words)
  BY <1>1, <1>2, <1>4
<1>10. Meaning(<<>>) = <<>>
  <2>1. <<>> \in Seq(Lines) /\ Len(<<>>) = 0
    OBVIOUS
  <2>2. QED BY <2>1, MeaningIs DEF Means
<1>11. QED BY <1>8, <1>9, <1>10 DEF q

-----------------------------------------------------------------------------
(* The parser, line after line                                             *)

IsSeq(q) == \E S : q \in Seq(S)

LEMMA SeqIs ==
  ASSUME NEW q, IsSeq(q)
  PROVE  Len(q) \in Nat /\ DOMAIN q = 1..Len(q) /\ (q = <<>> <=> Len(q) = 0) /\ (Len(q) > 0 \/ q = <<>>)
<1>1. PICK S : q \in Seq(S)
  BY DEF IsSeq
<1>2. Len(q) \in Nat /\ DOMAIN q = 1..Len(q)
  BY <1>1
<1>3. q = <<>> <=> Len(q) = 0
  BY <1>1, EmptySeq
<1>4. QED BY <1>2, <1>3

LEMMA Singles ==
  ASSUME NEW c
  PROVE  IsSeq(<<c>>) /\ IsSeq(<<>>)
<1>1. <<c>> \in Seq({c}) /\ <<>> \in Seq({c})
  OBVIOUS
<1>2. QED BY <1>1, Zenon DEF IsSeq

Regroups(a, b, c) == (a \o b) \o c = a \o (b \o c)
LEMMA ThreeJoined ==
  ASSUME NEW a, NEW b, NEW c, IsSeq(a), IsSeq(b), IsSeq(c)
  PROVE  Regroups(a, b, c)
<1>1. PICK S : a \in Seq(S)
  BY DEF IsSeq
<1>2. PICK T : b \in Seq(T)
  BY DEF IsSeq
<1>3. PICK U : c \in Seq(U)
  BY DEF IsSeq
<1> DEFINE V == S \cup T \cup U
<1>4. a \in Seq(V) /\ b \in Seq(V) /\ c \in Seq(V)
  BY <1>1, <1>2, <1>3
<1> HIDE DEF V
<1>5. QED BY <1>4, ConcatAssociative DEF Regroups

LEMMA Joined ==
  ASSUME NEW a, NEW b, IsSeq(a), IsSeq(b)
  PROVE  /\ IsSeq(a \o b) /\ Len(a \o b) = Len(a) + Len(b)
         /\ \A i \in 1..Len(a) : (a \o b)[i] = a[i]
         /\ \A i \in 1..Len(b) : (a \o b)[Len(a) + i] = b[i]
<1>1. PICK S : a \in Seq(S)
  BY DEF IsSeq
<1>2. PICK T : b \in Seq(T)
  BY DEF IsSeq
<1>3. a \in Seq(S \cup T) /\ b \in Seq(S \cup T)
  BY <1>1, <1>2
<1>4. a \o b \in Seq(S \cup T)
  BY <1>3
<1>5. IsSeq(a \o b)
  BY <1>4 DEF IsSeq
<1>6. /\ Len(a \o b) = Len(a) + Len(b)
      /\ \A i \in 1..Len(a) : (a \o b)[i] = a[i]
      /\ \A i \in 1..Len(b) : (a \o b)[Len(a) + i] = b[i]
  BY <1>3
<1>7. QED BY <1>5, <1>6

LEMMA Grown ==
  ASSUME NEW q, IsSeq(q), NEW x
  PROVE  /\ IsSeq(Append(q, x)) /\ Append(q, x) = q \o <<x>>
         /\ Len(Append(q, x)) = Len(q) + 1 /\ Append(q, x)[Len(q) + 1] = x
         /\ \A i \in 1..Len(q) : Append(q, x)[i] = q[i]
<1>1. PICK S : q \in Seq(S)
  BY DEF IsSeq
<1>2. q \in Seq(S \cup {x}) /\ x \in S \cup {x}
  BY <1>1
<1>3. Append(q, x) \in Seq(S \cup {x})
  BY <1>2
<1>4. IsSeq(Append(q, x))
  BY <1>3 DEF IsSeq
<1>5. Append(q, x) = q \o <<x>>
  BY <1>2, AppendIsConcat
<1>6. /\ Len(Append(q, x)) = Len(q) + 1 /\ Append(q, x)[Len(q) + 1] = x
      /\ \A i \in 1..Len(q) : Append(q, x)[i] = q[i]
  BY <1>2
<1>7. QED BY <1>4, <1>5, <1>6

LEMMA Shrunk ==
  ASSUME NEW q, IsSeq(q), Len(q) > 0
  PROVE  /\ IsSeq(Tail(q)) /\ Len(Tail(q)) = Len(q) - 1 /\ Head(q) = q[1]
         /\ \A i \in 1..(Len(q) - 1) : Tail(q)[i] = q[i + 1]
<1>1. PICK S : q \in Seq(S)
  BY DEF IsSeq
<1>2. q # <<>>
  BY <1>1
<1>3. Tail(q) \in Seq(S)
  BY <1>1, <1>2
<1>4. IsSeq(Tail(q))
  BY <1>3 DEF IsSeq
<1>5. Len(Tail(q)) = Len(q) - 1 /\ Head(q) = q[1] /\ \A i \in 1..(Len(q) - 1) : Tail(q)[i] = q[i + 1]
  BY <1>1, <1>2
<1>6. QED BY <1>4, <1>5

\* What is given and what waits have comments where the program has them.
Matches(g, q, m) ==
    /\ Len(g) + Len(q) <= Len(m)
    /\ \A i \in 1..Len(g) : g[i] = "comment" <=> m[i] = "comment"
    /\ \A i \in 1..Len(q) : q[i].kind = "comment" <=> m[Len(g) + i] = "comment"
LEMMA MatchesMore ==
  ASSUME NEW g, NEW q, NEW m, IsSeq(g), IsSeq(q), IsSeq(m), Matches(g, q, m), Len(g) + Len(q) = Len(m),
         NEW a, NEW b, IsSeq(a), IsSeq(b), Matches(<<>>, a, b)
  PROVE  Matches(g, q \o a, m \o b)
<1> DEFINE p == q \o a
           n == m \o b
<1>1. /\ Len(p) = Len(q) + Len(a) /\ Len(n) = Len(m) + Len(b)
      /\ \A i \in 1..Len(q) : p[i] = q[i]
      /\ \A i \in 1..Len(a) : p[Len(q) + i] = a[i]
      /\ \A i \in 1..Len(m) : n[i] = m[i]
      /\ \A i \in 1..Len(b) : n[Len(m) + i] = b[i]
  BY Joined
<1>2. Len(g) \in Nat /\ Len(q) \in Nat /\ Len(m) \in Nat /\ Len(a) \in Nat /\ Len(b) \in Nat
  BY SeqIs
<1>3. Len(a) <= Len(b) /\ \A i \in 1..Len(a) : a[i].kind = "comment" <=> b[i] = "comment"
  <2>1. Len(<<>>) = 0
    OBVIOUS
  <2>2. QED BY <1>2, <2>1 DEF Matches
<1> HIDE DEF p, n
<1>4. Len(g) + Len(p) <= Len(n)
  BY <1>1, <1>2, <1>3
<1>5. ASSUME NEW i \in 1..Len(g) PROVE g[i] = "comment" <=> n[i] = "comment"
  <2>1. i \in 1..Len(m)
    BY <1>2
  <2>2. n[i] = m[i]
    BY <1>1, <2>1
  <2>3. QED BY <2>2 DEF Matches
<1>6. ASSUME NEW i \in 1..Len(p) PROVE p[i].kind = "comment" <=> n[Len(g) + i] = "comment"
  <2>1. CASE i <= Len(q)
    <3>1. i \in 1..Len(q) /\ Len(g) + i \in 1..Len(m)
      BY <1>1, <1>2, <2>1
    <3>2. p[i] = q[i] /\ n[Len(g) + i] = m[Len(g) + i]
      BY <1>1, <3>1
    <3>3. QED BY <3>1, <3>2 DEF Matches
  <2>2. CASE i > Len(q)
    <3> DEFINE j == i - Len(q)
    <3>0. Len(a) <= Len(b) /\ Len(p) = Len(q) + Len(a)
      BY <1>1, <1>3
    <3>1. j \in 1..Len(a) /\ j \in 1..Len(b) /\ i = Len(q) + j /\ Len(g) + i = Len(m) + j
      BY <1>2, <2>2, <3>0
    <3> HIDE DEF j
    <3>2. p[Len(q) + j] = a[j] /\ n[Len(m) + j] = b[j]
      BY <1>1, <3>1
    <3>3. QED BY <1>3, <3>1, <3>2
  <2>3. QED BY <1>1, <1>2, <2>1, <2>2
<1>7. QED BY <1>4, <1>5, <1>6 DEF Matches, p, n

\* What a line that is parsed adds to the queue.
Added(l, r) == InFront(l) \o (IF r.ok THEN <<r.cmd>> ELSE <<>>)
LEMMA CommentIsRefused ==
  ASSUME NEW s, NEW l, l.cmd = "comment"
  PROVE  ParseCommand(s, l) = Refusal(s)
<1>1. "comment" \notin DOMAIN Keys
  BY DEF Keys
<1>2. QED BY <1>1 DEF ParseCommand

\* The ways a line can add to the queue: m is what it means.
Adds(a, m) == IsSeq(a) /\ Matches(<<>>, a, m) /\ \A i \in 1..Len(a) : a[i] # Comment => i = Len(a)
LEMMA AddsBoth ==
  ASSUME NEW c, NEW m, Len(m) = 2, m[1] = "comment", m[2] # "comment", c.kind # "comment"
  PROVE  Adds(<<Comment, c>>, m)
<1> DEFINE a == <<Comment, c>>
<1>1. a \in Seq({Comment, c}) /\ Len(a) = 2 /\ a[1] = Comment /\ a[2] = c /\ Len(<<>>) = 0
  OBVIOUS
<1>2. Comment.kind = "comment"
  BY DEF Comment
<1> HIDE DEF a
<1>3. IsSeq(a)
  BY <1>1 DEF IsSeq
<1>4. Matches(<<>>, a, m)
  BY <1>1, <1>2 DEF Matches
<1>5. \A i \in 1..Len(a) : a[i] # Comment => i = Len(a)
  BY <1>1
<1>6. QED BY <1>3, <1>4, <1>5 DEF Adds, a

LEMMA AddsFirst ==
  ASSUME NEW m, Len(m) = 2, m[1] = "comment"
  PROVE  Adds(<<Comment>>, m)
<1> DEFINE a == <<Comment>>
<1>1. a \in Seq({Comment}) /\ Len(a) = 1 /\ a[1] = Comment /\ Len(<<>>) = 0
  OBVIOUS
<1>2. Comment.kind = "comment"
  BY DEF Comment
<1> HIDE DEF a
<1>3. IsSeq(a)
  BY <1>1 DEF IsSeq
<1>4. Matches(<<>>, a, m)
  BY <1>1, <1>2 DEF Matches
<1>5. \A i \in 1..Len(a) : a[i] # Comment => i = Len(a)
  BY <1>1
<1>6. QED BY <1>3, <1>4, <1>5 DEF Adds, a

LEMMA AddsOne ==
  ASSUME NEW c, NEW m, Len(m) = 1, (c.kind = "comment") <=> (m[1] = "comment")
  PROVE  Adds(<<c>>, m) /\ Adds(<<>>, m)
<1> DEFINE a == <<c>>
           e == <<>>
<1>1. a \in Seq({c}) /\ Len(a) = 1 /\ a[1] = c
  OBVIOUS
<1>2. e \in Seq({c}) /\ Len(e) = 0
  OBVIOUS
<1> HIDE DEF a, e
<1>3. IsSeq(a) /\ IsSeq(e)
  BY <1>1, <1>2 DEF IsSeq
<1>4. Matches(e, a, m)
  BY <1>1, <1>2 DEF Matches
<1>5. Matches(e, e, m)
  BY <1>2 DEF Matches
<1>6. (\A i \in 1..Len(a) : a[i] # Comment => i = Len(a)) /\ (\A i \in 1..Len(e) : e[i] # Comment => i = Len(e))
  BY <1>1, <1>2
<1>7. QED BY <1>3, <1>4, <1>5, <1>6 DEF Adds, a, e

LEMMA AddsNone ==
  ASSUME NEW m, Len(m) = 0
  PROVE  Adds(<<>>, m) /\ Len(<<>>) = 0 /\ ~(0 > 0)
<1> DEFINE e == <<>>
<1>1. e \in Seq({m}) /\ Len(e) = 0 /\ ~(0 > 0)
  OBVIOUS
<1> HIDE DEF e
<1>2. IsSeq(e)
  BY <1>1 DEF IsSeq
<1>3. Matches(e, e, m) /\ \A i \in 1..Len(e) : e[i] # Comment => i = Len(e)
  BY <1>1 DEF Matches
<1>4. QED BY <1>1, <1>2, <1>3 DEF Adds, e

LEMMA Pairs ==
  ASSUME NEW c
  PROVE  /\ <<Comment>> \o <<c>> = <<Comment, c>> /\ <<Comment>> \o <<>> = <<Comment>>
         /\ <<>> \o <<c>> = <<c>> /\ <<>> \o <<>> = <<>>
         /\ Len(<<Comment, c>>) = 2 /\ <<Comment, c>>[2] = c /\ Len(<<c>>) = 1 /\ <<c>>[1] = c
         /\ 1 > 0 /\ 2 > 0
<1> DEFINE S == {Comment, c}
<1>1. <<Comment>> \in Seq(S) /\ <<c>> \in Seq(S) /\ <<>> \in Seq(S)
  OBVIOUS
<1>2. <<Comment>> \o <<c>> = <<Comment, c>>
  <2> DEFINE t == <<Comment>> \o <<c>>
             u == <<Comment, c>>
  <2>1. t \in Seq(S) /\ Len(t) = 2
    OBVIOUS
  <2>2. t[1] = Comment /\ t[2] = c
    OBVIOUS
  <2>3. u \in Seq(S) /\ Len(u) = 2 /\ u[1] = Comment /\ u[2] = c
    OBVIOUS
  <2> HIDE DEF t, u, S
  <2>4. \A i \in 1..2 : t[i] = u[i]
    <3>1. \A i \in 1..2 : i = 1 \/ i = 2
      OBVIOUS
    <3>2. QED BY <2>2, <2>3, <3>1
  <2>5. QED BY <2>1, <2>3, <2>4, SeqEqual DEF t, u
<1>3. <<Comment>> \o <<>> = <<Comment>> /\ <<>> \o <<c>> = <<c>> /\ <<>> \o <<>> = <<>>
  <2> HIDE DEF S
  <2>1. QED BY <1>1, ConcatEmptySeq, Zenon
<1>4. Len(<<Comment, c>>) = 2 /\ <<Comment, c>>[2] = c
  OBVIOUS
<1>5. Len(<<c>>) = 1 /\ <<c>>[1] = c
  OBVIOUS
<1>6. 1 > 0 /\ 2 > 0
  OBVIOUS
<1>7. QED BY <1>2, <1>3, <1>4, <1>5, <1>6, Zenon

AddedFits(a, m, c) == Len(a) = Len(m) /\ Len(a) > 0 /\ a[Len(a)] = c
LEMMA AddedIs ==
  ASSUME FreshIs, NEW s, Whole(s), NEW l \in Lines, l.cmd \notin {"(", ""}, NEW r, r = ParseCommand(s, l)
  PROVE  Adds(Added(l, r), Meant(l)) /\ (r.ok => AddedFits(Added(l, r), Meant(l), r.cmd))
<1> DEFINE w == l.cmd
           c == r.cmd
           m == Meant(l)
           a == Added(l, r)
<1>1. r.ok => c.kind # "comment" /\ w # "comment"
  <2>1. r.ok => c.kind # "comment"
    BY ParseFits DEF Fits
  <2>2. w = "comment" => r = Refusal(s)
    BY CommentIsRefused
  <2>3. ~Refusal(s).ok
    BY DEF Refusal
  <2>4. QED BY <2>1, <2>2, <2>3, Zenon
<1>2. /\ l.comment => Len(m) = 2 /\ m[1] = "comment" /\ m[2] = w
      /\ ~l.comment => Len(m) = 1 /\ m[1] = w
  BY MeantIs, Zenon
<1>3. /\ l.comment /\ r.ok => a = <<Comment>> \o <<c>>
      /\ l.comment /\ ~r.ok => a = <<Comment>> \o <<>>
      /\ ~l.comment /\ r.ok => a = <<>> \o <<c>>
      /\ ~l.comment /\ ~r.ok => a = <<>> \o <<>>
  BY Zenon DEF Added, InFront
<1> HIDE DEF w, c, m, a
<1>4. /\ l.comment /\ r.ok => a = <<Comment, c>>
      /\ l.comment /\ ~r.ok => a = <<Comment>>
      /\ ~l.comment /\ r.ok => a = <<c>>
      /\ ~l.comment /\ ~r.ok => a = <<>>
  BY <1>3, Pairs, Zenon
<1>5. CASE l.comment /\ r.ok
  <2>1. a = <<Comment, c>> /\ Len(m) = 2 /\ m[1] = "comment" /\ m[2] # "comment" /\ c.kind # "comment"
    BY <1>1, <1>2, <1>4, <1>5, Zenon
  <2>2. Adds(a, m)
    BY <2>1, AddsBoth, Zenon
  <2>3. AddedFits(<<Comment, c>>, m, c)
    <3>1. Len(m) = 2
      BY <2>1, Zenon
    <3>2. Len(<<Comment, c>>) = 2 /\ <<Comment, c>>[2] = c /\ 2 > 0
      BY Pairs, Zenon
    <3>3. QED BY <3>1, <3>2, Zenon DEF AddedFits
  <2>4. QED BY <2>1, <2>2, <2>3, Zenon DEF a, m, c
<1>6. CASE l.comment /\ ~r.ok
  <2>1. a = <<Comment>> /\ Len(m) = 2 /\ m[1] = "comment"
    BY <1>2, <1>4, <1>6, Zenon
  <2>2. Adds(a, m)
    BY <2>1, AddsFirst, Zenon
  <2>3. QED BY <1>6, <2>2, Zenon DEF a, m
<1>7. CASE ~l.comment /\ r.ok
  <2>1. a = <<c>> /\ Len(m) = 1 /\ m[1] # "comment" /\ c.kind # "comment"
    BY <1>1, <1>2, <1>4, <1>7, Zenon
  <2>2. Adds(a, m)
    BY <2>1, AddsOne, Zenon
  <2>3. AddedFits(<<c>>, m, c)
    <3>1. Len(m) = 1
      BY <2>1, Zenon
    <3>2. Len(<<c>>) = 1 /\ <<c>>[1] = c /\ 1 > 0
      BY Pairs, Zenon
    <3>3. QED BY <3>1, <3>2, Zenon DEF AddedFits
  <2>4. QED BY <2>1, <2>2, <2>3, Zenon DEF a, m, c
<1>8. CASE ~l.comment /\ ~r.ok
  <2>1. a = <<>> /\ Len(m) = 1
    BY <1>2, <1>4, <1>8, Zenon
  <2>2. Adds(a, m)
    <3> DEFINE d == [kind |-> m[1]]
    <3>1. (d.kind = "comment") <=> (m[1] = "comment")
      OBVIOUS
    <3> HIDE DEF d
    <3>2. QED BY <2>1, <3>1, AddsOne, Zenon
  <2>3. QED BY <1>8, <2>2, Zenon DEF a, m
<1>9. QED BY <1>5, <1>6, <1>7, <1>8, Zenon

\* The parser's state, and where what waits shall lead the machine.
Reached(q, from) == IF q = <<>> THEN from ELSE Moved(from, q[Len(q)])
ProgramTypes == /\ Whole(state) /\ state.eof \in BOOLEAN /\ phase \in {"reading", "end", "failed"}
                /\ lines \in Seq(Lines) /\ IsSeq(queue) /\ IsSeq(given)
OneCommand == \A i \in 1..Len(queue) : queue[i] # Comment => i = Len(queue)
Arrives == phase # "failed" /\ Followed => Reached(queue, machine) = state.pos
Ordered == /\ Matches(given, queue, Meaning(lines))
           /\ phase # "failed" => Len(given) + Len(queue) = Len(Meaning(lines))
           /\ \A i \in 1..(Len(lines) - 1) : lines[i].cmd # "M2"
           /\ phase # "failed" /\ ~state.eof => \A i \in 1..Len(lines) : lines[i].cmd # "M2"
           /\ phase = "end" => \A i \in 1..Len(queue) : queue[i] = Comment
ProgramInv == ProgramTypes /\ OneCommand /\ Arrives /\ Ordered /\ RefusedChangesNothing

LEMMA CommentStays ==
  ASSUME NEW from
  PROVE  Moved(from, Comment) = from
BY DEF Moved, Comment

LEMMA CommentsStay ==
  ASSUME NEW q, IsSeq(q), \A i \in DOMAIN q : q[i] = Comment, NEW from
  PROVE  Reached(q, from) = from
<1>1. Len(q) \in Nat /\ DOMAIN q = 1..Len(q) /\ (q = <<>> <=> Len(q) = 0)
  BY SeqIs
<1>2. q # <<>> => q[Len(q)] = Comment
  BY <1>1
<1>3. QED BY <1>2, CommentStays DEF Reached

LEMMA EndUnset ==
  ASSUME FreshIs, NEW t, Whole(t), t.eof = FALSE
  PROVE  [t EXCEPT !.eof = FALSE] = t
BY DEF Whole, FreshIs, Fields

LEMMA FollowedBefore ==
  ASSUME lines \in Seq(Lines), NEW l, lines' = Append(lines, l), l.cmd \notin Tracked, Followed'
  PROVE  Followed /\ l.cmd \notin Untracked
<1> DEFINE n == Len(lines)
           p == lines'
<1>1. n \in Nat /\ DOMAIN lines = 1..n /\ DOMAIN p = 1..(n + 1) /\ p[n + 1] = l /\ \A i \in 1..n : p[i] = lines[i]
  OBVIOUS
<1>2. \A i \in DOMAIN p : p[i].cmd \in Untracked => \E j \in DOMAIN p : j > i /\ p[j].cmd \in Tracked
  BY DEF Followed, Tracked, Untracked
<1> HIDE DEF n, p
<1>3. ASSUME NEW i \in 1..n, lines[i].cmd \in Untracked PROVE \E j \in 1..n : j > i /\ lines[j].cmd \in Tracked
  <2>1. i \in DOMAIN p /\ p[i].cmd \in Untracked
    BY <1>1, <1>3
  <2>2. PICK j \in DOMAIN p : j > i /\ p[j].cmd \in Tracked
    BY <1>2, <2>1
  <2>3. j # n + 1
    BY <1>1, <2>2
  <2>4. j \in 1..n
    BY <1>1, <2>3
  <2>5. QED BY <1>1, <2>2, <2>4
<1>4. l.cmd \notin Untracked
  <2> SUFFICES ASSUME l.cmd \in Untracked PROVE FALSE
    OBVIOUS
  <2>1. n + 1 \in DOMAIN p /\ p[n + 1].cmd \in Untracked
    BY <1>1
  <2>2. PICK j \in DOMAIN p : j > n + 1 /\ p[j].cmd \in Tracked
    BY <1>2, <2>1
  <2>3. QED BY <1>1, <2>2
<1>5. Followed
  BY <1>1, <1>3 DEF Followed, Tracked, Untracked
<1>6. QED BY <1>4, <1>5

\* A longer program has its end where it was.
LEMMA EndStays ==
  ASSUME lines \in Seq(Lines), NEW l \in Lines, lines' = Append(lines, l), \A i \in 1..Len(lines) : lines[i].cmd # "M2"
  PROVE  /\ lines' \in Seq(Lines) /\ Len(lines') = Len(lines) + 1 /\ lines'[Len(lines')] = l
         /\ \A i \in 1..(Len(lines') - 1) : lines'[i].cmd # "M2"
         /\ l.cmd # "M2" => \A i \in 1..Len(lines') : lines'[i].cmd # "M2"
<1> DEFINE n == Len(lines)
           p == lines'
<1>1. n \in Nat /\ p \in Seq(Lines) /\ Len(p) = n + 1 /\ p[n + 1] = l /\ \A i \in 1..n : p[i] = lines[i]
  OBVIOUS
<1> HIDE DEF p, n
<1>2. \A i \in 1..n : p[i].cmd # "M2"
  BY <1>1 DEF n
<1>3. \A i \in 1..(n + 1) : i \in 1..n \/ i = n + 1
  BY <1>1
<1>4. l.cmd # "M2" => \A i \in 1..(n + 1) : p[i].cmd # "M2"
  BY <1>1, <1>2, <1>3
<1>5. (n + 1) - 1 = n
  BY <1>1
<1>6. QED BY <1>1, <1>2, <1>4, <1>5 DEF p, n

LEMMA GiveKeeps ==
  ASSUME ProgramInv, Give
  PROVE  ProgramInv'
<1> USE DEF ProgramTypes
<1> DEFINE n == Len(queue)
           h == queue[1]
<1>1. /\ phase = "reading" /\ machine' = Moved(machine, Head(queue)) /\ given' = Append(given, Head(queue).kind)
      /\ queue' = Tail(queue) /\ UNCHANGED <<state, phase, lines, before>>
      /\ \E i \in DOMAIN queue : queue[i] # Comment
  BY DEF Give
<1>2. IsSeq(queue) /\ IsSeq(given) /\ n \in Nat /\ DOMAIN queue = 1..n /\ n > 0
  <2>1. IsSeq(queue) /\ IsSeq(given)
    BY DEF ProgramInv
  <2>2. n \in Nat /\ DOMAIN queue = 1..n
    BY <2>1, SeqIs
  <2>3. QED BY <1>1, <2>1, <2>2
<1>3. IsSeq(queue') /\ Len(queue') = n - 1 /\ Head(queue) = h /\ \A i \in 1..(n - 1) : queue'[i] = queue[i + 1]
  BY <1>1, <1>2, Shrunk
<1>4. /\ IsSeq(given') /\ Len(given') = Len(given) + 1 /\ given'[Len(given) + 1] = h.kind
      /\ \A i \in 1..Len(given) : given'[i] = given[i]
  <2> DEFINE k == h.kind
  <2>1. given' = Append(given, k)
    BY <1>1, <1>3
  <2> HIDE DEF k
  <2>2. IsSeq(given)
    BY <1>2
  <2>3. /\ IsSeq(Append(given, k)) /\ Len(Append(given, k)) = Len(given) + 1 /\ Append(given, k)[Len(given) + 1] = k
        /\ \A i \in 1..Len(given) : Append(given, k)[i] = given[i]
    BY <2>2, Grown
  <2>4. QED BY <2>1, <2>3 DEF k
<1>5. Len(given) \in Nat /\ (queue = <<>> <=> n = 0) /\ (queue' = <<>> <=> Len(queue') = 0)
  BY <1>2, <1>3, SeqIs
<1> HIDE DEF h, n
<1>6. ProgramTypes'
  BY <1>1, <1>3, <1>4 DEF ProgramInv
<1>7. OneCommand'
  <2>1. \A i \in 1..n : queue[i] # Comment => i = n
    BY DEF ProgramInv, OneCommand, n
  <2>2. \A i \in 1..(n - 1) : queue'[i] # Comment => i = n - 1
    BY <1>2, <1>3, <2>1
  <2>3. QED BY <1>3, <2>2 DEF OneCommand
<1>8. Reached(queue', machine') = Reached(queue, machine)
  <2>1. Reached(queue, machine) = Moved(machine, queue[n]) /\ machine' = Moved(machine, h)
    BY <1>1, <1>2, <1>3, <1>5 DEF Reached, n
  <2>2. CASE n = 1
    <3>1. queue' = <<>> /\ queue[n] = h
      BY <1>3, <1>5, <2>2 DEF h
    <3>2. QED BY <2>1, <3>1 DEF Reached
  <2>3. CASE n # 1
    <3>1. 1 \in 1..n /\ n - 1 \in 1..(n - 1) /\ (n - 1) + 1 = n
      BY <1>2, <2>3
    <3>2. h = Comment
      BY <2>3, <3>1 DEF ProgramInv, OneCommand, n, h
    <3>3. machine' = machine
      BY <2>1, <3>2, CommentStays
    <3>4. queue'[Len(queue')] = queue[n] /\ queue' # <<>>
      BY <1>2, <1>3, <1>5, <2>3, <3>1
    <3>5. QED BY <2>1, <3>3, <3>4 DEF Reached
  <2>4. QED BY <2>2, <2>3
<1>9. Arrives'
  <2>1. Followed' => Followed
    BY <1>1 DEF Followed
  <2>2. QED BY <1>1, <1>8, <2>1 DEF ProgramInv, Arrives
<1>10. Ordered'
  <2> DEFINE m == Meaning(lines)
             g == Len(given)
             q == queue'
             p == given'
  <2>1. m = Meaning(lines') /\ phase' = phase /\ state' = state /\ lines' = lines
    BY <1>1
  <2>2. /\ g + n <= Len(m) /\ (phase # "failed" => g + n = Len(m))
        /\ \A i \in 1..g : given[i] = "comment" <=> m[i] = "comment"
        /\ \A i \in 1..n : queue[i].kind = "comment" <=> m[g + i] = "comment"
    BY DEF ProgramInv, Ordered, Matches, n
  <2> HIDE DEF m, q, p
  <2>3. /\ g \in Nat /\ n \in Nat /\ n > 0 /\ Len(q) = n - 1 /\ Len(p) = g + 1 /\ p[g + 1] = h.kind
        /\ \A i \in 1..(n - 1) : q[i] = queue[i + 1]
        /\ \A i \in 1..g : p[i] = given[i]
    BY <1>2, <1>3, <1>4, <1>5 DEF p, q
  <2> HIDE DEF g
  <2>4. ASSUME NEW i \in 1..(g + 1) PROVE p[i] = "comment" <=> m[i] = "comment"
    <3>1. CASE i = g + 1
      <4>1. 1 \in 1..n
        BY <2>3
      <4>2. h.kind = "comment" <=> m[g + 1] = "comment"
        BY <2>2, <4>1 DEF h
      <4>3. QED BY <2>3, <3>1, <4>2
    <3>2. CASE i # g + 1
      <4>1. i \in 1..g
        BY <2>3, <3>2
      <4>2. QED BY <2>2, <2>3, <4>1
    <3>3. QED BY <3>1, <3>2
  <2>5. ASSUME NEW i \in 1..(n - 1) PROVE q[i].kind = "comment" <=> m[(g + 1) + i] = "comment"
    <3>1. i + 1 \in 1..n /\ (g + 1) + i = g + (i + 1)
      BY <2>3
    <3>2. queue[i + 1].kind = "comment" <=> m[g + (i + 1)] = "comment"
      BY <2>2, <3>1
    <3>3. q[i] = queue[i + 1]
      BY <2>3
    <3>4. QED BY <3>1, <3>2, <3>3
  <2>6. (g + 1) + (n - 1) <= Len(m) /\ (phase # "failed" => (g + 1) + (n - 1) = Len(m))
    <3>1. (g + 1) + (n - 1) = g + n
      BY <2>3
    <3>2. QED BY <2>2, <3>1
  <2>7. Matches(p, q, m)
    BY <2>3, <2>4, <2>5, <2>6 DEF Matches
  <2>8. phase # "end"
    BY <1>1
  <2>9. QED BY <2>1, <2>3, <2>6, <2>7, <2>8 DEF ProgramInv, Ordered, p, q, m
<1>11. RefusedChangesNothing'
  BY <1>1 DEF RefusedChangesNothing
<1>12. QED BY <1>6, <1>7, <1>9, <1>10, <1>11 DEF ProgramInv

LEMMA EndKeeps ==
  ASSUME ProgramInv, End
  PROVE  ProgramInv'
<1>1. /\ phase = "reading" /\ phase' = "end" /\ UNCHANGED <<state, queue, machine, lines, given, before>>
      /\ \A i \in DOMAIN queue : queue[i] = Comment
  BY DEF End
<1>2. DOMAIN queue = 1..Len(queue)
  BY SeqIs DEF ProgramInv, ProgramTypes
<1>3. ProgramTypes'
  BY <1>1 DEF ProgramInv, ProgramTypes
<1>4. OneCommand'
  BY <1>1 DEF ProgramInv, OneCommand
<1>5. Arrives'
  <2>1. Followed' => Followed
    BY <1>1 DEF Followed
  <2>2. QED BY <1>1, <2>1 DEF ProgramInv, Arrives
<1>6. Ordered'
  <2>1. Matches(given, queue, Meaning(lines))' /\ Len(given') + Len(queue') = Len(Meaning(lines'))
    BY <1>1 DEF ProgramInv, Ordered
  <2>2. /\ \A i \in 1..(Len(lines) - 1) : lines[i].cmd # "M2"
        /\ ~state.eof => \A i \in 1..Len(lines) : lines[i].cmd # "M2"
    BY <1>1 DEF ProgramInv, Ordered
  <2>3. QED BY <1>1, <1>2, <2>1, <2>2 DEF Ordered
<1>7. RefusedChangesNothing'
  BY <1>1 DEF RefusedChangesNothing
<1>8. QED BY <1>3, <1>4, <1>5, <1>6, <1>7 DEF ProgramInv

\* What reading a line does to the queue and the program's meaning.
LEMMA QueueGrows ==
  ASSUME ProgramInv, phase = "reading", \A i \in DOMAIN queue : queue[i] = Comment,
         NEW l \in Lines, lines' = Append(lines, l), given' = given,
         NEW a, Adds(a, Meant(l)), queue' = queue \o a
  PROVE  /\ IsSeq(queue') /\ OneCommand' /\ Matches(given', queue', Meaning(lines'))
         /\ Len(a) = Len(Meant(l)) => Len(given') + Len(queue') = Len(Meaning(lines'))
         /\ Len(a) > 0 => Reached(queue', machine) = Moved(machine, a[Len(a)])
<1> DEFINE m == Meaning(lines)
           b == Meant(l)
           q == queue'
           n == Len(queue)
           k == Len(a)
<1>1. IsSeq(queue) /\ IsSeq(given) /\ lines \in Seq(Lines) /\ Matches(given, queue, m) /\ Len(given) + n = Len(m)
  BY DEF ProgramInv, ProgramTypes, Ordered
<1>2. Meaning(lines') = m \o b /\ m \in Seq(Words)
  BY <1>1, MeaningGrows
<1>3. IsSeq(m)
  BY <1>2 DEF IsSeq
<1>4. IsSeq(b)
  BY MeantIs DEF IsSeq
<1>5. IsSeq(a) /\ Matches(<<>>, a, b) /\ \A i \in 1..k : a[i] # Comment => i = k
  BY DEF Adds
<1> HIDE DEF m, b
<1>6. Matches(given, queue \o a, m \o b)
  <2> HIDE DEF q, n, k
  <2>1. QED BY <1>1, <1>3, <1>4, <1>5, MatchesMore DEF n
<1>7. /\ IsSeq(q) /\ Len(q) = n + k /\ \A i \in 1..n : q[i] = queue[i]
      /\ \A i \in 1..k : q[n + i] = a[i]
  BY <1>1, <1>5, Joined
<1>8. n \in Nat /\ k \in Nat /\ DOMAIN queue = 1..n /\ (q = <<>> <=> Len(q) = 0) /\ Len(given) \in Nat /\ Len(m) \in Nat
  BY <1>1, <1>3, <1>5, <1>7, SeqIs
<1>9. Len(m \o b) = Len(m) + Len(b)
  BY <1>3, <1>4, Joined
<1> HIDE DEF q, n, k
<1>10. \A i \in 1..Len(q) : q[i] # Comment => i = Len(q)
  <2> SUFFICES ASSUME NEW i \in 1..Len(q), q[i] # Comment PROVE i = Len(q)
    OBVIOUS
  <2>1. i > n
    <3> SUFFICES ASSUME i <= n PROVE FALSE
      BY <1>8
    <3>1. i \in 1..n
      BY <1>7, <1>8
    <3>2. q[i] = Comment
      BY <1>7, <1>8, <3>1
    <3>3. QED BY <3>2
  <2> DEFINE j == i - n
  <2>2. j \in 1..k /\ i = n + j
    <3>1. Len(q) = n + k
      BY <1>7
    <3>2. QED BY <1>8, <2>1, <3>1
  <2> HIDE DEF j
  <2>3. q[n + j] = a[j]
    BY <1>7, <2>2
  <2>4. j = k
    BY <1>5, <2>2, <2>3
  <2>5. QED BY <1>7, <2>2, <2>4
<1>11. Len(a) = Len(Meant(l)) => Len(given') + Len(queue') = Len(Meaning(lines'))
  <2> SUFFICES ASSUME k = Len(b) PROVE Len(given) + Len(q) = Len(m \o b)
    BY <1>2 DEF k, b, q
  <2> DEFINE g == Len(given)
             u == Len(m \o b)
             v == Len(q)
             w == Len(m)
  <2>1. v = n + k /\ u = w + k /\ g + n = w
    BY <1>1, <1>7, <1>9
  <2>2. n \in Nat /\ k \in Nat /\ g \in Nat /\ w \in Nat
    BY <1>8
  <2> HIDE DEF g, u, v, w
  <2>3. g + v = u
    BY <2>1, <2>2
  <2>4. QED BY <2>3 DEF g, u, v
<1>12. k > 0 => Reached(q, machine) = Moved(machine, a[k])
  <2> SUFFICES ASSUME k > 0 PROVE Reached(q, machine) = Moved(machine, a[k])
    OBVIOUS
  <2>1. k \in 1..k /\ Len(q) = n + k
    BY <1>7, <1>8
  <2>2. q[Len(q)] = a[k] /\ q # <<>>
    BY <1>7, <1>8, <2>1
  <2>3. QED BY <2>2 DEF Reached
<1>13. IsSeq(queue') /\ OneCommand' /\ Matches(given', queue', Meaning(lines'))
  BY <1>2, <1>6, <1>7, <1>10 DEF OneCommand, q
<1>14. QED BY <1>11, <1>12, <1>13 DEF q, k

\* A comment or an empty line goes on to the next line.
LEMMA SkipKeeps ==
  ASSUME ProgramInv, NEW l \in Lines, ReadLine(l), l.cmd \in {"(", ""}
  PROVE  ProgramInv'
<1> DEFINE a == IF l.cmd = "(" THEN <<Comment>> ELSE <<>>
<1>1. /\ phase = "reading" /\ ~state.eof /\ \A i \in DOMAIN queue : queue[i] = Comment
      /\ lines' = Append(lines, l) /\ UNCHANGED <<machine, given, state, phase>>
      /\ l.cmd = "(" => queue' = Append(queue, Comment)
      /\ l.cmd = "" => queue' = queue
  BY DEF ReadLine
<1>2. ProgramTypes /\ IsSeq(queue) /\ lines \in Seq(Lines) /\ l.cmd \notin Tracked /\ l.cmd # "M2"
  BY DEF ProgramInv, ProgramTypes, Tracked
<1>3. queue' = queue \o a
  <2>1. Append(queue, Comment) = queue \o <<Comment>>
    BY <1>2, Grown
  <2>2. queue \o <<>> = queue
    BY <1>2, ConcatEmptySeq DEF IsSeq
  <2>3. QED BY <1>1, <2>1, <2>2
<1>4. Adds(a, Meant(l)) /\ Len(a) = Len(Meant(l)) /\ (Len(a) > 0 => a[Len(a)] = Comment)
  <2> DEFINE m == Meant(l)
  <2>1. /\ l.cmd = "(" => Len(m) = 1 /\ m[1] = "comment"
        /\ l.cmd = "" => Len(m) = 0
    BY MeantIs
  <2> HIDE DEF m
  <2>2. CASE l.cmd = "("
    <3>1. Len(m) = 1 /\ m[1] = "comment" /\ Comment.kind = "comment"
      BY <2>1, <2>2 DEF Comment
    <3>2. Adds(<<Comment>>, m)
      BY <3>1, AddsOne
    <3>3. Len(<<Comment>>) = 1 /\ <<Comment>>[1] = Comment
      BY Pairs
    <3>4. QED BY <2>2, <3>1, <3>2, <3>3 DEF m
  <2>3. CASE l.cmd = ""
    <3>1. a = <<>> /\ Len(m) = 0
      BY <2>1, <2>3
    <3>2. QED BY <3>1, AddsNone, Zenon DEF m
  <2>4. QED BY <2>2, <2>3
<1> HIDE DEF a
<1>5. /\ IsSeq(queue') /\ OneCommand' /\ Matches(given', queue', Meaning(lines'))
      /\ Len(given') + Len(queue') = Len(Meaning(lines'))
      /\ Len(a) > 0 => Reached(queue', machine) = Moved(machine, Comment)
  BY <1>1, <1>3, <1>4, QueueGrows
<1>6. /\ \A i \in 1..Len(lines) : lines[i].cmd # "M2"
      /\ lines' \in Seq(Lines) /\ (\A i \in 1..(Len(lines') - 1) : lines'[i].cmd # "M2")
      /\ \A i \in 1..Len(lines') : lines'[i].cmd # "M2"
  <2>1. \A i \in 1..Len(lines) : lines[i].cmd # "M2"
    BY <1>1 DEF ProgramInv, Ordered
  <2>2. QED BY <1>1, <1>2, <2>1, EndStays
<1>7. ProgramTypes'
  BY <1>1, <1>2, <1>5, <1>6 DEF ProgramTypes
<1>8. Arrives'
  <2> SUFFICES ASSUME Followed' PROVE Reached(queue', machine') = state.pos
    BY <1>1 DEF Arrives
  <2>1. Followed
    BY <1>1, <1>2, FollowedBefore
  <2>2. Reached(queue, machine) = state.pos
    BY <1>1, <2>1 DEF ProgramInv, Arrives
  <2>3. Reached(queue, machine) = machine
    BY <1>1, <1>2, CommentsStay, Zenon
  <2>4. CASE Len(a) > 0
    BY <1>1, <1>5, <2>2, <2>3, <2>4, CommentStays
  <2>5. CASE ~(Len(a) > 0)
    <3>1. a = <<>>
      <4>1. IsSeq(a)
        BY <1>4 DEF Adds
      <4>2. QED BY <2>5, <4>1, SeqIs, Zenon
    <3>2. queue' = queue
      BY <1>2, <1>3, <3>1, ConcatEmptySeq DEF IsSeq
    <3>3. QED BY <1>1, <2>2, <3>2
  <2>6. QED BY <2>4, <2>5
<1>9. Ordered'
  BY <1>1, <1>5, <1>6 DEF Ordered
<1>10. RefusedChangesNothing'
  BY <1>1 DEF RefusedChangesNothing
<1>11. QED BY <1>5, <1>7, <1>8, <1>9, <1>10 DEF ProgramInv

\* A line is parsed, or refused.
LEMMA ParseKeeps ==
  ASSUME FreshIs, ProgramInv, NEW l \in Lines, ReadLine(l), l.cmd \notin {"(", ""}
  PROVE  ProgramInv'
<1> DEFINE r == ParseCommand(state, l)
           a == Added(l, r)
           Refuses == ~r.ok
<1>1. /\ phase = "reading" /\ ~state.eof /\ \A i \in DOMAIN queue : queue[i] = Comment
      /\ lines' = Append(lines, l) /\ before' = state /\ UNCHANGED <<machine, given>>
      /\ state' = [r.state EXCEPT !.eof = l.cmd = "M2" /\ r.ok]
      /\ queue' = queue \o InFront(l) \o (IF r.ok THEN <<r.cmd>> ELSE <<>>)
      /\ phase' = IF r.ok THEN phase ELSE "failed"
  BY DEF ReadLine
<1>2. ProgramTypes /\ IsSeq(queue) /\ lines \in Seq(Lines) /\ Whole(state) /\ state.eof = FALSE
  BY <1>1 DEF ProgramInv, ProgramTypes
<1>3. Fits(state, l.cmd, r)
  BY <1>2, ParseFits
<1>4. Adds(a, Meant(l)) /\ (r.ok => AddedFits(a, Meant(l), r.cmd))
  BY <1>2, AddedIs
<1>5. queue' = queue \o a
  <2> DEFINE x == InFront(l)
             y == IF r.ok THEN <<r.cmd>> ELSE <<>>
  <2>1. IsSeq(x)
    BY Singles, Zenon DEF InFront
  <2>2. IsSeq(y)
    BY Singles, Zenon
  <2>3. queue' = (queue \o x) \o y /\ a = x \o y
    BY <1>1, Zenon DEF Added
  <2> HIDE DEF x, y, a
  <2>4. (queue \o x) \o y = queue \o (x \o y)
    <3>1. IsSeq(queue) /\ IsSeq(x) /\ IsSeq(y)
      BY <1>2, <2>1, <2>2, Zenon
    <3>2. Regroups(queue, x, y)
      BY <3>1, ThreeJoined, Zenon
    <3>3. QED BY <3>2, Zenon DEF Regroups
  <2>5. QED BY <2>3, <2>4, Zenon
<1> HIDE DEF a, r
<1>6. /\ IsSeq(queue') /\ OneCommand' /\ Matches(given', queue', Meaning(lines'))
      /\ Len(a) = Len(Meant(l)) => Len(given') + Len(queue') = Len(Meaning(lines'))
      /\ Len(a) > 0 => Reached(queue', machine) = Moved(machine, a[Len(a)])
  <2>1. given' = given
    BY <1>1
  <2>2. QED BY <1>1, <1>4, <1>5, <2>1, QueueGrows, Zenon
<1>7. \A i \in 1..Len(lines) : lines[i].cmd # "M2"
  BY <1>1, <1>2 DEF ProgramInv, Ordered
<1>8. /\ lines' \in Seq(Lines) /\ Len(lines') = Len(lines) + 1 /\ lines'[Len(lines')] = l
      /\ \A i \in 1..(Len(lines') - 1) : lines'[i].cmd # "M2"
      /\ l.cmd # "M2" => \A i \in 1..Len(lines') : lines'[i].cmd # "M2"
  <2>1. lines' = Append(lines, l)
    BY <1>1
  <2>2. QED BY <1>2, <1>7, <2>1, EndStays, Zenon
<1>9. Whole(state') /\ state'.eof = (l.cmd = "M2" /\ r.ok) /\ state'.pos = r.state.pos /\ state'.eof \in BOOLEAN
  <2> DEFINE e == l.cmd = "M2" /\ r.ok
             t == r.state
  <2>1. Whole(t)
    BY <1>3 DEF Fits
  <2>2. state' = [t EXCEPT !.eof = e] /\ e \in BOOLEAN
    BY <1>1, Zenon
  <2> HIDE DEF e, t
  <2>3. Whole(state') /\ state'.eof = e /\ state'.pos = t.pos
    BY <2>1, <2>2 DEF Whole, FreshIs, Fields
  <2>4. QED BY <2>2, <2>3, Zenon DEF e, t
<1>10. CASE r.ok
  <2>1. phase' = "reading" /\ AddedFits(a, Meant(l), r.cmd) /\ state'.eof = (l.cmd = "M2")
    BY <1>1, <1>4, <1>9, <1>10
  <2>2. Len(a) = Len(Meant(l)) /\ Len(a) > 0 /\ a[Len(a)] = r.cmd
    BY <2>1, Zenon DEF AddedFits
  <2>3. ProgramTypes'
    <3>1. Whole(state') /\ state'.eof \in BOOLEAN /\ IsSeq(queue') /\ lines' \in Seq(Lines)
      BY <1>6, <1>8, <1>9, Zenon
    <3>2. given' = given /\ IsSeq(given)
      BY <1>1, <1>2, Zenon DEF ProgramTypes
    <3>3. QED BY <2>1, <3>1, <3>2 DEF ProgramTypes
  <2>4. Arrives'
    <3> DEFINE w == l.cmd
               c == r.cmd
               p == r.state.pos
    <3> SUFFICES ASSUME Followed' PROVE Reached(queue', machine') = state'.pos
      BY DEF Arrives
    <3>1. Reached(queue', machine') = Moved(machine, c) /\ state'.pos = p
      BY <1>1, <1>6, <1>9, <2>2
    <3>2. /\ w \in Tracked => Moved(machine, c) = p
          /\ w \notin Tracked => p = state.pos
          /\ w \notin Tracked \cup Untracked => Moved(machine, c) = machine
      BY <1>3, <1>10, Zenon DEF Fits
    <3> HIDE DEF c, p
    <3>3. CASE w \in Tracked
      BY <3>1, <3>2, <3>3
    <3>4. CASE w \notin Tracked
      <4>1. Followed /\ w \notin Untracked
        BY <1>1, <1>2, <3>4, FollowedBefore
      <4>2. Reached(queue, machine) = state.pos
        BY <1>1, <4>1 DEF ProgramInv, Arrives
      <4>3. Reached(queue, machine) = machine
        BY <1>1, <1>2, CommentsStay, Zenon
      <4>4. QED BY <3>1, <3>2, <3>4, <4>1, <4>2, <4>3
    <3>5. QED BY <3>3, <3>4
  <2>5. Ordered'
    <3>1. /\ Matches(given', queue', Meaning(lines')) /\ Len(given') + Len(queue') = Len(Meaning(lines'))
          /\ \A i \in 1..(Len(lines') - 1) : lines'[i].cmd # "M2"
      BY <1>6, <1>8, <2>2, Zenon
    <3>2. ~state'.eof => \A i \in 1..Len(lines') : lines'[i].cmd # "M2"
      BY <1>8, <2>1, Zenon
    <3>3. phase' # "end"
      BY <2>1
    <3>4. QED BY <3>1, <3>2, <3>3 DEF Ordered
  <2>6. RefusedChangesNothing'
    BY <2>1 DEF RefusedChangesNothing
  <2>7. QED BY <1>6, <2>3, <2>4, <2>5, <2>6 DEF ProgramInv
<1>11. CASE ~r.ok
  <2>1. phase' = "failed" /\ state'.eof = FALSE
    BY <1>1, <1>9, <1>11, Zenon
  <2>2. ProgramTypes'
    <3>1. Whole(state') /\ state'.eof \in BOOLEAN /\ IsSeq(queue') /\ lines' \in Seq(Lines)
      BY <1>6, <1>8, <1>9, Zenon
    <3>2. given' = given /\ IsSeq(given)
      BY <1>1, <1>2, Zenon DEF ProgramTypes
    <3>3. QED BY <2>1, <3>1, <3>2 DEF ProgramTypes
  <2>3. Arrives'
    BY <2>1 DEF Arrives
  <2>4. Ordered'
    BY <1>6, <1>8, <2>1 DEF Ordered
  <2>5. RefusedChangesNothing'
    <3> DEFINE t == r.state
               w == l.cmd
    <3>1. /\ w \notin {"G81", "M3"} => t = state
          /\ [t EXCEPT !.fr_cmd = 0, !.spindle_rpm = 0] = [state EXCEPT !.fr_cmd = 0, !.spindle_rpm = 0]
          /\ Whole(t) /\ t.eof = state.eof
      BY <1>3, <1>11, Zenon DEF Fits
    <3>2. state' = [t EXCEPT !.eof = FALSE]
      <4>1. (l.cmd = "M2" /\ r.ok) = FALSE
        BY <1>11, Zenon
      <4>2. QED BY <1>1, <4>1, Zenon
    <3> HIDE DEF t, w
    <3>3. state' = t
      BY <1>2, <3>1, <3>2, EndUnset, Zenon
    <3>4. lines'[Len(lines')].cmd = w /\ before' = state
      BY <1>1, <1>8, Zenon DEF w
    <3>5. QED BY <3>1, <3>3, <3>4, Zenon DEF RefusedChangesNothing
  <2>6. QED BY <1>6, <2>2, <2>3, <2>4, <2>5 DEF ProgramInv
<1>12. QED BY <1>10, <1>11

LEMMA InitialProgram ==
  ASSUME FreshIs, ProgramInit
  PROVE  ProgramInv
<1>1. /\ state = Fresh /\ machine = Fresh.pos /\ queue = <<>> /\ phase = "reading" /\ lines = <<>> /\ given = <<>>
  BY DEF ProgramInit
<1>2. <<>> \in Seq(Lines) /\ Len(<<>>) = 0
  OBVIOUS
<1>3. IsSeq(<<>>) /\ Whole(state) /\ state.eof = FALSE
  BY <1>1, <1>2 DEF IsSeq, Whole, FreshIs
<1>4. ProgramTypes
  BY <1>1, <1>2, <1>3 DEF ProgramTypes
<1>5. OneCommand /\ Arrives /\ RefusedChangesNothing
  BY <1>1, <1>2 DEF OneCommand, Arrives, Reached, RefusedChangesNothing
<1>6. Ordered
  <2>1. Meaning(<<>>) = <<>>
    BY <1>2, MeaningIs DEF Means
  <2>2. QED BY <1>1, <1>2, <2>1 DEF Ordered, Matches
<1>7. QED BY <1>4, <1>5, <1>6 DEF ProgramInv

\* The parser's state is whole, what waits are comments and at most one command
\* behind them, and it leads the machine to where the parser believes it is; a
\* refused line changed nothing, and the order is kept.
THEOREM ProgramInvariant == ASSUME FreshIs PROVE ProgramSpec => []ProgramInv
<1>1. ProgramInit => ProgramInv
  BY InitialProgram
<1>2. ProgramInv /\ [ProgramNext]_programVars => ProgramInv'
  <2> SUFFICES ASSUME ProgramInv, [ProgramNext]_programVars PROVE ProgramInv'
    OBVIOUS
  <2>1. CASE Give
    BY <2>1, GiveKeeps
  <2>2. CASE End
    BY <2>2, EndKeeps
  <2>3. ASSUME NEW l \in Lines, ReadLine(l) PROVE ProgramInv'
    <3>1. CASE l.cmd \in {"(", ""}
      BY <2>3, <3>1, SkipKeeps
    <3>2. CASE l.cmd \notin {"(", ""}
      BY <2>3, <3>2, ParseKeeps
    <3>3. QED BY <3>1, <3>2
  <2>4. CASE UNCHANGED programVars
    <3>1. /\ state' = state /\ queue' = queue /\ phase' = phase /\ machine' = machine
          /\ lines' = lines /\ given' = given /\ before' = before
      BY <2>4 DEF programVars
    <3>2. ProgramTypes' /\ OneCommand' /\ RefusedChangesNothing'
      BY <3>1 DEF ProgramInv, ProgramTypes, OneCommand, RefusedChangesNothing
    <3>3. Arrives'
      <4>1. Followed' => Followed
        BY <3>1 DEF Followed
      <4>2. QED BY <3>1, <4>1 DEF ProgramInv, Arrives
    <3>4. Ordered'
      BY <3>1 DEF ProgramInv, Ordered
    <3>5. QED BY <3>2, <3>3, <3>4 DEF ProgramInv
  <2>5. QED BY <2>1, <2>2, <2>3, <2>4 DEF ProgramNext
<1>3. QED BY <1>1, <1>2, PTL DEF ProgramSpec

\* Whatever the program, the parser's position is where its commands led the
\* machine.
THEOREM PositionIsFollowed == ASSUME FreshIs PROVE ProgramSpec => []PositionFollowed
<1>1. ProgramInv => PositionFollowed
  BY DEF ProgramInv, Arrives, Reached, PositionFollowed
<1>2. QED BY <1>1, ProgramInvariant, PTL

\* A line that is refused leaves the modes and the position as they were.
THEOREM RefusalsChangeNothing == ASSUME FreshIs PROVE ProgramSpec => []RefusedChangesNothing
<1>1. ProgramInv => RefusedChangesNothing
  BY DEF ProgramInv
<1>2. QED BY <1>1, ProgramInvariant, PTL

\* Whatever the program, commands and comments come in its order, each once.
THEOREM OrderIsKept == ASSUME FreshIs PROVE ProgramSpec => []InOrder
<1>1. ASSUME ProgramInv PROVE InOrder
  <2> DEFINE m == Meaning(lines)
             said == [i \in DOMAIN queue |-> queue[i].kind]
             got == given \o said
             g == Len(given)
             n == Len(queue)
  <2>1. IsSeq(given) /\ IsSeq(queue) /\ Matches(given, queue, m)
    BY <1>1 DEF ProgramInv, ProgramTypes, Ordered
  <2>2. g \in Nat /\ n \in Nat /\ DOMAIN queue = 1..n
    BY <2>1, SeqIs
  <2>3. IsSeq(said) /\ Len(said) = n /\ \A i \in 1..n : said[i] = queue[i].kind
    <3> DEFINE K == {queue[i].kind : i \in 1..n}
    <3>1. said \in [1..n -> K] /\ \A i \in 1..n : said[i] = queue[i].kind
      BY <2>2
    <3> HIDE DEF said, K, n
    <3>2. said \in Seq(K) /\ Len(said) = n
      BY <2>2, <3>1
    <3>3. QED BY <3>1, <3>2 DEF IsSeq
  <2> HIDE DEF said
  <2>4. /\ IsSeq(got) /\ Len(got) = g + n /\ \A i \in 1..g : got[i] = given[i]
        /\ \A i \in 1..n : got[g + i] = said[i]
    BY <2>1, <2>3, Joined
  <2>5. DOMAIN got = 1..Len(got)
    BY <2>4, SeqIs
  <2>6. /\ \A i \in 1..g : given[i] = "comment" <=> m[i] = "comment"
        /\ \A i \in 1..n : queue[i].kind = "comment" <=> m[g + i] = "comment"
    BY <2>1 DEF Matches
  <2>7. /\ phase # "failed" => g + n = Len(m)
        /\ \A i \in 1..(Len(lines) - 1) : lines[i].cmd # "M2"
        /\ phase = "end" => \A i \in 1..n : queue[i] = Comment
    BY <1>1 DEF ProgramInv, Ordered
  <2> HIDE DEF m, got, g, n
  <2>8. ASSUME NEW i \in DOMAIN got PROVE (got[i] = "comment") = (m[i] = "comment")
    <3>1. i \in 1..(g + n)
      BY <2>4, <2>5
    <3>2. CASE i <= g
      <4>1. i \in 1..g
        BY <2>2, <3>1, <3>2
      <4>2. QED BY <2>4, <2>6, <4>1
    <3>3. CASE i > g
      <4> DEFINE j == i - g
      <4>1. j \in 1..n /\ i = g + j
        BY <2>2, <3>1, <3>3
      <4> HIDE DEF j
      <4>2. got[g + j] = queue[j].kind
        BY <2>3, <2>4, <4>1
      <4>3. QED BY <2>6, <4>1, <4>2
    <3>4. QED BY <2>2, <3>1, <3>2, <3>3
  <2>9. phase = "end" => \A i \in (g + 1)..Len(m) : m[i] = "comment"
    <3> SUFFICES ASSUME phase = "end", NEW i \in (g + 1)..Len(m) PROVE m[i] = "comment"
      OBVIOUS
    <3> DEFINE j == i - g
    <3>1. Len(m) = g + n
      BY <2>7
    <3>2. j \in 1..n /\ i = g + j
      BY <2>2, <3>1
    <3> HIDE DEF j
    <3>3. queue[j].kind = "comment"
      BY <2>7, <3>2 DEF Comment
    <3>4. QED BY <2>6, <3>2, <3>3
  <2>10. phase # "failed" => Len(got) = Len(m)
    BY <2>4, <2>7
  <2>11. QED BY <2>7, <2>8, <2>9, <2>10, Zenon DEF InOrder, m, got, g, said
<1>2. ProgramInv => InOrder
  BY <1>1
<1>3. QED BY <1>2, ProgramInvariant, PTL
===============================================================================
