----------------------------- MODULE MC_Actors -----------------------------
(***************************************************************************)
(* The parts of the library in which several act: fibers, threads, and     *)
(* what is at the other end of a line.  One part at a time, the others     *)
(* stay as they are.                                                       *)
(***************************************************************************)
EXTENDS Fifo, RingBuffer, Thread, Modbus, Servo42D

CONSTANT Parts  \* which of the parts

VARIABLES part,
          \* FiberScheduler
          mode, active_fiber, fibers, f_state, shutdown, block_shutdown,
          blocked_by, fresh, joining, cond, fd, is_ready,
          \* OneWire
          kind, now, pause_until, strong, configuration, w_owner, w_pc, wake,
          measuring, read,
          \* Tls
          flight, tls_pending, wire, fin, data, writer, reader, waits, accepted,
          received,
          \* Process
          p_call, p_proc, p_at, status, signalled, pipe, open, p_fiber, moved,
          printed, late, main

\* Requests that differ in the device, in the address, in the size and in the
\* value only.
MC_Request(d, function, a, n, values) ==
    [device |-> d, function |-> function, address |-> a, count |-> n, values |-> values]
MC_Requests == {MC_Request("d1", "READ_HOLDING_REGISTERS", 0, 1, <<>>),
                MC_Request("d1", "READ_INPUT_REGISTERS", 0, 2, <<>>),
                MC_Request("d1", "READ_COILS", 1, 1, <<>>),
                MC_Request("d1", "WRITE_SINGLE_REGISTER", 0, 1, <<1>>),
                MC_Request("d1", "WRITE_SINGLE_COIL", 0, 1, <<0>>),
                MC_Request("d1", "WRITE_SINGLE_COIL", 1, 1, <<1>>),
                MC_Request("d1", "WRITE_MULTIPLE_REGISTERS", 0, 2, <<0, 1>>),
                MC_Request("d2", "WRITE_MULTIPLE_COILS", 0, 1, <<1>>),
                MC_Request("d2", "READ_DISCRETE_INPUTS", 0, 1, <<>>)}
MC_FewRequests == {r \in MC_Requests : r.count = 2}

\* Fibers that wait for one of two handles each, and drain it.
F == INSTANCE FiberScheduler WITH Fibers <- {"main", "f", "g"}, Main <- "main", Mems <- {"c"}, Handles <- {"h", "h2"},
         OnShutdown <- "OnShutdown", Null <- "null", WaitSets <- {{"h"}, {"h2"}},
         Uses <- {"WaitForMany", "Start", "Finish", "Drain"}, MaxBlock <- 0, state <- f_state

MC_Byte(n) == [i \in 1..8 |-> (n \div 2^(i - 1)) % 2]
W == INSTANCE OneWire WITH Sensors <- {"a", "b", "c"}, Parasitic <- {"a", "b"}, Conversion <- 2, MaxTime <- 5, Bits <- 3,
         CrcData <- {MC_Byte(a) \o MC_Byte(b) : a, b \in {0, 1, 40, 90, 255}}, owner <- w_owner, pc <- w_pc

MC_Peer(s) == IF s = "c" THEN "s" ELSE "c"
L == INSTANCE Tls WITH Side <- {"c", "s"}, Peer <- MC_Peer, Client <- "c", Items <- 4, BufferSize <- 2, Room <- 1,
         pending <- tls_pending

MC_Program(does, code, heeds) == [does |-> does, code |-> code, heeds |-> heeds]
MC_Programs == {MC_Program(<<"in", "out", "in", "out", "eof", "err">>, "ok", TRUE),
                MC_Program(<<"err", "err", "out", "out">>, "failed", TRUE), MC_Program(<<"in">>, "ok", TRUE),
                MC_Program(<<"out", "never">>, "never", TRUE), MC_Program(<<"never">>, "never", FALSE),
                MC_Program(<<"out", "out", "out">>, "ok", FALSE)}
P == INSTANCE Process WITH Programs <- MC_Programs, Input <- 3, PipeRoom <- 1, call <- p_call, proc <- p_proc,
         at <- p_at, fiber <- p_fiber

-----------------------------------------------------------------------------
scheduler == <<mode, active_fiber, fibers, f_state, shutdown, block_shutdown, blocked_by,
               fresh, joining, cond, fd, is_ready>>
one_wire == <<kind, now, pause_until, strong, configuration, w_owner, w_pc, wake,
              measuring, read>>
tls == <<flight, tls_pending, wire, fin, data, writer, reader, waits, accepted, received>>
process == <<p_call, p_proc, p_at, status, signalled, pipe, open, p_fiber, moved, printed,
             late, main>>
all == <<part, vars, ringVars, threadVars, scheduler, busVars, servoVars, one_wire, tls, process>>

\* A step of one part.
InFifo(A) == part = "fifo" /\ A /\ UNCHANGED <<part, ringVars, threadVars, scheduler, busVars, servoVars, one_wire, tls, process>>
InRing(A) == part = "ring" /\ A /\ UNCHANGED <<part, vars, threadVars, scheduler, busVars, servoVars, one_wire, tls, process>>
InThread(A) == part = "thread" /\ A /\ UNCHANGED <<part, vars, ringVars, scheduler, busVars, servoVars, one_wire, tls, process>>
InFibers(A) == part = "fibers" /\ A /\ UNCHANGED <<part, vars, ringVars, threadVars, busVars, servoVars, one_wire, tls, process>>
InBus(A) == part = "bus" /\ A /\ UNCHANGED <<part, vars, ringVars, threadVars, scheduler, servoVars, one_wire, tls, process>>
InServo(A) == part = "servo" /\ A /\ UNCHANGED <<part, vars, ringVars, threadVars, scheduler, busVars, one_wire, tls, process>>
InWire(A) == part = "wire" /\ A /\ UNCHANGED <<part, vars, ringVars, threadVars, scheduler, busVars, servoVars, tls, process>>
InTls(A) == part = "tls" /\ A /\ UNCHANGED <<part, vars, ringVars, threadVars, scheduler, busVars, servoVars, one_wire, process>>
InProcess(A) == part = "process" /\ A /\ UNCHANGED <<part, vars, ringVars, threadVars, scheduler, busVars, servoVars, one_wire, tls>>

\* Parts that may begin in several ways begin in one while they are idle.
MC_Init ==
    /\ part \in Parts
    /\ Init /\ RingInit /\ ThreadInit /\ F!Init /\ BusInit /\ ServoInit
    /\ W!WireInit /\ L!Init /\ P!ProcessInit
    /\ part # "bus" => ~tx_echo /\ ~lax_response
    /\ part # "servo" => ~mc_enabled /\ servo_target = 1 /\ ~bus_fails
    /\ part # "wire" => kind = "chip"
    /\ part # "tls" => writer = [s \in {"c", "s"} |-> "later"]
    /\ part # "process" => /\ p_call.program = MC_Program(<<"in">>, "ok", TRUE) /\ ~p_call.timed
                           /\ p_call.pipes = [s \in P!Streams |-> TRUE]

MC_Next ==
    \/ InFifo(Next)
    \/ InRing(RingNext)
    \/ InThread(ThreadNext)
    \/ InFibers(F!Next)
    \/ InBus(BusNext)
    \/ InServo(ServoNext)
    \/ InWire(W!WireNext)
    \/ InTls(L!Next)
    \/ InProcess(P!ProcessNext)

MC_Safe == MC_Init /\ [][MC_Next]_all

\* The fairness of the parts: what stands in one line are steps of different parts.
MC_Spec ==
    /\ MC_Safe
    /\ WF_all(InFibers(F!Schedule) \/ InServo(ControlStep) \/ InTls(L!Acts("c")) \/ InProcess(P!Child) \/ InBus(FiberStep("f1")))
    /\ WF_all(InFibers(F!KernelReturns) \/ InServo(\E b \in BOOLEAN : UserReturns(b)) \/ InTls(L!Acts("s")) \/ InProcess(P!Time))
    /\ WF_all(InFibers(F!JoinLoop) \/ InTls(L!Reads("c")) \/ InProcess(P!Feed))
    /\ WF_all(InFibers(F!WaitForMany \/ F!Yield \/ F!Finish) \/ InTls(L!Reads("s")) \/ InProcess(P!Main))
    /\ WF_all(InTls(L!Poll("c")) \/ InProcess(P!Drain("out")))
    /\ WF_all(InTls(L!Poll("s")) \/ InProcess(P!Drain("err")))

-----------------------------------------------------------------------------
(* Properties of more than one module *)

\* Fibers that share a 1-wire bus read what their sensors measured; the search
\* finds every device; a checksum tells a changed bit (dev_w1).
WireExact == part = "wire" => W!ReadingsTrue /\ (W!BusUnused => W!AllFound /\ W!CrcTells)

\* What is read from a TLS stream is what was written (TClient); a command that
\* returns has all its output, and leaves no child and no fiber
\* (TProcess::ExecuteWithStatus).
ConversationsKept == L!StreamKept /\ P!CommandDone

\* Who waits for something, in each part, and when he has got it.  Of the fibers,
\* each for the processor, and each for the handle it sleeps on (1 to 6).
MC_Fiber(k) == <<"main", "f", "g">>[(k + 1) \div 2]
Asks(k) ==
    \/ part = "fibers" /\ k % 2 = 1 /\ f_state[MC_Fiber(k)] = "READY"
    \/ part = "fibers" /\ k % 2 = 0 /\ F!HandleReady(MC_Fiber(k))
    \/ part = "servo" /\ k \in {1, 2} /\ Woken(k)
    \/ part = "bus" /\ k = 1 /\ Busy("f1")
    \/ part = "tls" /\ k = 1
    \/ part = "process" /\ k = 1 /\ P!Terminates
Gets(k) ==
    \/ part = "fibers" /\ k % 2 = 1 /\ f_state[MC_Fiber(k)] = "ACTIVE"
    \/ part = "fibers" /\ k % 2 = 0 /\ ~F!HandleReady(MC_Fiber(k))
    \/ part = "servo" /\ k \in {1, 2} /\ Sent(k)
    \/ part = "bus" /\ k = 1 /\ ~Busy("f1")
    \/ part = "tls" /\ k = 1 /\ L!BothEnded
    \/ part = "process" /\ k = 1 /\ P!CommandOver

\* Fibers that only wait for handles all get to run, and a wait ends while its
\* handle is ready (TFiber::Schedule); a target set while the control fiber rests
\* is sent (WakeServoControlLoop); a call on the bus, both ends of a TLS stream and
\* a command come to their end (TModBus, TClient, TProcess::ExecuteWithStatus).
EveryoneServed == \A k \in 1..6 : Asks(k) ~> Gets(k)
=============================================================================
