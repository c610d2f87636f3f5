------------------------------- MODULE Process -------------------------------
(***************************************************************************)
(* system_task: TProcess::ExecuteWithStatus(), which runs a program, feeds *)
(* its input and collects what it prints, by one fiber for each pipe, and  *)
(* has a time-out.  The calling fiber may be shut down while it waits.     *)
(*                                                                         *)
(* External: the child, which reads and prints an item at a time, may be   *)
(* stopped by anyone, and may not heed SIGTERM; the kernel's pipes.  SIGPIPE*)
(* is blocked in every thread, so a write nobody can read throws.          *)
(***************************************************************************)
EXTENDS Integers, Sequences

CONSTANTS Programs,  \* what a child does: [does, code, heeds]
          Input,     \* how many items it is fed
          PipeRoom   \* of a pipe, in items

VARIABLES call,      \* the program, whether each stream is a pipe, and whether there is a time-out
          proc,      \* external: "runs", "stopped", "zombie" or "reaped"
          at, status,\* external: how far it is, and how it ended
          signalled, \* external: SIGTERM waits for it to go on
          pipe, open,\* external: items in each pipe, and whether the parent has its end of it
          fiber,     \* of each stream
          moved,     \* items each fiber has written or read
          printed,   \* external: items the child printed
          late,      \* the time is over
          main       \* where the calling fiber is

processVars == <<call, proc, at, status, signalled, pipe, open, fiber, moved, printed, late, main>>

Stdin == "in"
Outputs == {"out", "err"}
Streams == {Stdin} \cup Outputs
Alive == proc \in {"runs", "stopped"}
Op == call.program.does[at]

-----------------------------------------------------------------------------
(* External: the child *)

Ends(s) == proc' = "zombie" /\ status' = s
Moves == at' = at + 1
ChildReads ==
    /\ proc = "runs" /\ at <= Len(call.program.does) /\ Op \in {"in", "eof"}
    /\ \/ call.pipes[Stdin] /\ pipe[Stdin] > 0
          /\ pipe' = [pipe EXCEPT ![Stdin] = @ - 1] /\ at' = IF Op = "in" THEN at + 1 ELSE at
       \/ (call.pipes[Stdin] => pipe[Stdin] = 0 /\ ~open[Stdin]) /\ Moves /\ pipe' = pipe
    /\ UNCHANGED <<call, proc, status, signalled, open, fiber, moved, printed, late, main>>
ChildPrints(s) ==
    /\ proc = "runs" /\ at <= Len(call.program.does) /\ Op = s
    /\ \/ ~call.pipes[s] /\ Moves /\ UNCHANGED <<proc, status, pipe, printed>>
       \/ /\ call.pipes[s] /\ open[s] /\ pipe[s] < PipeRoom
          /\ pipe' = [pipe EXCEPT ![s] = @ + 1] /\ printed' = [printed EXCEPT ![s] = @ + 1]
          /\ Moves /\ UNCHANGED <<proc, status>>
       \/ call.pipes[s] /\ ~open[s] /\ Ends("killed") /\ UNCHANGED <<at, pipe, printed>>
    /\ UNCHANGED <<call, signalled, open, fiber, moved, late, main>>
ChildExits == /\ proc = "runs" /\ at = Len(call.program.does) + 1
              /\ Ends(call.program.code)
              /\ UNCHANGED <<call, at, signalled, pipe, open, fiber, moved, printed, late, main>>
\* By anyone, where a time-out will deal with it.
ChildStops == /\ proc = "runs" /\ call.timed /\ ~late /\ proc' = "stopped"
              /\ UNCHANGED <<call, at, status, signalled, pipe, open, fiber, moved, printed, late, main>>
Time == /\ call.timed /\ ~late /\ late' = TRUE
        /\ UNCHANGED <<call, proc, at, status, signalled, pipe, open, fiber, moved, printed, main>>

-----------------------------------------------------------------------------
(* The fibers of the pipes *)

\* TPipe::Write() by STREAM_FEEDER_FUNC, which closes the pipe at the end; the
\* parent has no other end of it, so it breaks with the child.
Feed ==
    /\ fiber[Stdin] = "runs"
    /\ \/ moved[Stdin] = Input /\ open' = [open EXCEPT ![Stdin] = FALSE]
          /\ fiber' = [fiber EXCEPT ![Stdin] = "done"] /\ UNCHANGED <<pipe, moved>>
       \/ moved[Stdin] < Input /\ Alive /\ pipe[Stdin] < PipeRoom
          /\ pipe' = [pipe EXCEPT ![Stdin] = @ + 1] /\ moved' = [moved EXCEPT ![Stdin] = @ + 1]
          /\ UNCHANGED <<fiber, open>>
       \/ moved[Stdin] < Input /\ ~Alive /\ fiber' = [fiber EXCEPT ![Stdin] = "threw"] /\ UNCHANGED <<pipe, open, moved>>
    /\ UNCHANGED <<call, proc, at, status, signalled, printed, late, main>>
\* TPipe::Read() by STREAM_READER_FUNC, to the end of the stream: Start() keeps
\* no end of the child's.
Ended_Kept(s) == FALSE
Ended(s) == ~Alive
Drain(s) ==
    /\ fiber[s] = "runs"
    /\ \/ pipe[s] > 0 /\ pipe' = [pipe EXCEPT ![s] = @ - 1] /\ moved' = [moved EXCEPT ![s] = @ + 1]
          /\ UNCHANGED <<fiber, open>>
       \/ pipe[s] = 0 /\ Ended(s) /\ fiber' = [fiber EXCEPT ![s] = "done"]
          /\ open' = [open EXCEPT ![s] = FALSE] /\ UNCHANGED <<pipe, moved>>
    /\ UNCHANGED <<call, proc, at, status, signalled, printed, late, main>>

-----------------------------------------------------------------------------
(* The calling fiber *)

GoesTo(to) == main' = to
Rest == UNCHANGED <<call, at, pipe, open, fiber, moved, printed, late>>
Finished(s) == fiber[s] # "runs"

\* The loop: until the child is a zombie, or the time is over.
Watch ==
    /\ main = "watch"
    /\ \/ proc = "zombie" /\ GoesTo("join")
       \/ proc # "zombie" /\ late /\ GoesTo("timeout")
    /\ UNCHANGED <<proc, status, signalled>> /\ Rest

\* Shutdown(): SIGTERM, which a stopped child gets when it goes on.
ShutdownProcess(to) ==
    /\ GoesTo(to)
    /\ IF proc = "runs" /\ call.program.heeds THEN Ends("killed") /\ signalled' = signalled
       ELSE signalled' = (proc = "stopped") /\ UNCHANGED <<proc, status>>
\* Resume(), and what was waiting for the child.
Resume == IF signalled /\ call.program.heeds THEN Ends("killed") ELSE proc' = "runs" /\ status' = status
\* Join(): a child that has not ended goes on, and is waited for.
Join(from, to) ==
    /\ main = from
    /\ \/ proc = "zombie" /\ proc' = "reaped" /\ GoesTo(to) /\ UNCHANGED <<status, signalled>>
       \/ proc = "stopped" /\ Resume /\ signalled' = FALSE /\ main' = main
    /\ Rest

\* The fibers are joined, the feeder first, and its exception is passed on.
Collect_Readers(from) ==
    /\ main = from /\ Finished(Stdin)
    /\ GoesTo(IF fiber[Stdin] = "threw" THEN "cleanup" ELSE "returned")
    /\ UNCHANGED <<proc, status, signalled>> /\ Rest
Collect(from) ==
    /\ main = from
    /\ \/ Finished(Stdin) /\ fiber[Stdin] = "threw" /\ GoesTo("cleanup")
       \/ Finished(Stdin) /\ fiber[Stdin] # "threw" /\ \A s \in Outputs : Finished(s) /\ GoesTo("returned")
    /\ UNCHANGED <<proc, status, signalled>> /\ Rest
\* The exception's handler; the child has been joined by then, or is now.
TimedOut == main = "timeout" /\ ShutdownProcess("reap") /\ Rest
Cleanup == /\ main = "cleanup" /\ (\A s \in Streams : Finished(s)) /\ GoesTo("threw")
           /\ UNCHANGED <<proc, status, signalled>> /\ Rest

\* The fiber is shut down where it waits: its destructors shut down the fibers
\* of the pipes, and then the child.
Unwind ==
    /\ main \in {"watch", "reap", "collect", "cleanup"} /\ GoesTo("unwind")
    /\ fiber' = [s \in Streams |-> IF fiber[s] = "runs" THEN "shut down" ELSE fiber[s]]
    /\ UNCHANGED <<call, proc, at, status, signalled, pipe, open, moved, printed, late>>
Destroy == /\ main = "unwind" /\ Rest
           /\ IF proc = "reaped" THEN GoesTo("gone") /\ UNCHANGED <<proc, status, signalled>> ELSE ShutdownProcess("destroy")

-----------------------------------------------------------------------------
\* Start(): a pipe and a fiber for each stream the call asks for; always for what
\* the child prints, as in Execute().
ProcessInit ==
    /\ call \in [program : Programs, pipes : {f \in [Streams -> BOOLEAN] : f["out"]}, timed : BOOLEAN]
    /\ proc = "runs" /\ at = 1 /\ status = "none" /\ signalled = FALSE
    /\ pipe = [s \in Streams |-> 0] /\ open = call.pipes
    /\ fiber = [s \in Streams |-> IF call.pipes[s] THEN "runs" ELSE "none"]
    /\ moved = [s \in Streams |-> 0] /\ printed = [s \in Streams |-> 0]
    /\ late = FALSE /\ main = "watch"
Child == ChildReads \/ (\E s \in Outputs : ChildPrints(s)) \/ ChildExits
Main == \/ Watch \/ TimedOut \/ Cleanup \/ Destroy
        \/ Join("join", "collect") \/ Join("reap", "cleanup") \/ Join("destroy", "gone")
        \/ Collect("collect")
ProcessNext == Child \/ ChildStops \/ Time \/ Feed \/ (\E s \in Outputs : Drain(s)) \/ Main \/ Unwind
ProcessSpec == /\ ProcessInit /\ [][ProcessNext]_processVars
               /\ WF_processVars(Child) /\ WF_processVars(Time) /\ WF_processVars(Feed) /\ WF_processVars(Main)
               /\ \A s \in Outputs : WF_processVars(Drain(s))

-----------------------------------------------------------------------------
(* Properties *)

\* A call that returns has everything its child printed, has written all of its
\* input, and returns how that child ended.  However it ends, nothing of it is
\* left: no zombie, and no fiber that uses what is on its stack.
CommandDone ==
    /\ main = "returned" => /\ \A s \in Outputs : call.pipes[s] => moved[s] = printed[s]
                            /\ call.pipes[Stdin] => moved[Stdin] = Input
                            /\ status \in {call.program.code, "killed"}
    /\ main \in {"returned", "threw", "gone"} => proc = "reaped" /\ \A s \in Streams : Finished(s)
\* The call ends, however the pipes fill, and whoever stopped the child: unless
\* the child neither ends nor heeds what it is sent, nobody set a time, or, once
\* the fibers of the pipes are gone, it waits for someone to read its last words.
Terminates == call.program.code # "never" \/ (call.timed /\ call.program.heeds)
Unread == main = "destroy" /\ ~call.program.heeds
CommandOver == main \in {"returned", "threw", "gone"} \/ Unread
=============================================================================
