------------------------------- MODULE Modbus -------------------------------
(***************************************************************************)
(* dev_modbus: the master of a Modbus RTU line (TModBus, TFrameBuffer) on  *)
(* a teletypewriter, used by fibers of one thread.  A call sends a request *)
(* and takes what arrives, up to a pause on the line, for its answer.      *)
(*                                                                         *)
(* A frame is one element of the line and of the input buffer; its CRC is  *)
(* whether it is intact.  Bytes are not modelled: a buffer that holds more *)
(* than one frame has a wrong CRC.  The devices are external; their tables *)
(* of coils and registers overlay one another, which the master cannot     *)
(* tell.  Counts outside the limits of a method throw before anything is   *)
(* sent and are left out.                                                  *)
(***************************************************************************)
EXTENDS Integers, Sequences, SequencesExt

CONSTANTS BusFibers,        \* the fibers that use the bus
          Devices, Registers, Values,
          Requests,      \* the calls fibers make
          BufferFrames,  \* bound: frames that fill TFrameBuffer::buffer
          MaxLine,       \* bound: frames under way when a call begins
          MaxInput       \* bound: frames in the input buffer when a call begins, and
                       \* noise in it

Reads  == {"READ_COILS", "READ_DISCRETE_INPUTS",
           "READ_HOLDING_REGISTERS", "READ_INPUT_REGISTERS"}
Writes == {"WRITE_SINGLE_COIL", "WRITE_SINGLE_REGISTER",
           "WRITE_MULTIPLE_COILS", "WRITE_MULTIPLE_REGISTERS"}
Singles == {"WRITE_SINGLE_COIL", "WRITE_SINGLE_REGISTER"}
Bits == {"READ_COILS", "READ_DISCRETE_INPUTS",
         "WRITE_SINGLE_COIL", "WRITE_MULTIPLE_COILS"}

ASSUME RequestsAssumption ==
    \A r \in Requests :
        /\ r.device \in Devices /\ r.function \in Reads \cup Writes
        /\ r.count \in Nat \ {0} /\ r.address \in Nat
        /\ r.address .. r.address + r.count - 1 \subseteq Registers
        /\ r.values \in Seq(Values)
        /\ Len(r.values) = IF r.function \in Reads THEN 0 ELSE r.count
        /\ r.function \in Singles => r.count = 1
ASSUME ValuesAssumption == Values \subseteq Nat /\ 0 \in Values
ASSUME BufferAssumption == BufferFrames \in Nat \ {0}

VARIABLES
    tx_echo,       \* TModBus::tx_echo
    lax_response,  \* TModBus::lax_response
    input,         \* frames in the input buffer of the teletypewriter
    line,          \* frames under way, requests and answers
    pc,            \* where in its call each fiber is
    call,          \* its request
    buffer,        \* TFrameBuffer of its response
    returned,      \* what its last call returned, or Exception
    bank,          \* external: registers of the devices
    done,          \* history: what the device did with the call
    disturbed      \* history: overlap, late answer, noise or false echo so far

busVars == <<tx_echo, lax_response, input, line, pc, call, buffer, returned,
          bank, done, disturbed>>
\* What a step of a fiber leaves alone.
outside == <<tx_echo, lax_response, bank>>

RB == INSTANCE RegisterBank WITH Fibers <- BusFibers
NoCall    == RB!NoCall
Exception == RB!Exception

Busy(f) == pc[f] # "idle"

-----------------------------------------------------------------------------
(* Frames *)

\* Words behind the function code of a write request and of its confirmation:
\* address, then value or count.  A coil's value is the word FF00 or 0.
CoilWord(v) == IF v = 0 THEN 0 ELSE 65280
Fields(r) ==
    <<r.address,
      CASE r.function = "WRITE_SINGLE_COIL"     -> CoilWord(r.values[1])
        [] r.function = "WRITE_SINGLE_REGISTER" -> r.values[1]
        [] OTHER                                -> r.count>>

\* The size byte of an array of n items.
ArraySize(function, n) == IF function \in Bits THEN (n + 7) \div 8 ELSE 2 * n

\* A request r of the fiber f, an answer to it with some words, or a refusal.
Frame(kind, r, f, words) ==
    [kind |-> kind, request |-> r, of |-> f, words |-> words]

Request(f) == Frame("request", call[f], f, Fields(call[f]))
Garbage    == [kind |-> "garbage"]

\* The frame has the bytes of the request r, as the confirmation of a single
\* write has.
Repeats(frame, r) ==
    /\ frame.kind \in {"request"} \cup (IF r.function \in Singles THEN {"answer"} ELSE {})
    /\ frame.request = r

-----------------------------------------------------------------------------
(* Accepting a response *)

\* ReceiveResponse: one intact frame from the device, for the function, that
\* does not report an exception.
Plausible(r, received) ==
    /\ Len(received) = 1
    /\ received[1].kind \in {"request", "answer"}
    /\ received[1].request.device = r.device
    /\ received[1].request.function = r.function

\* The array of a read has the expected size.
ArrayFits(r, frame) ==
    /\ frame.kind = "answer"
    /\ ArraySize(r.function, Len(frame.words)) = ArraySize(r.function, r.count)


\* The confirmation of a write repeats what was asked.  For a single coil the
\* code compares the value with the word that holds the address.
Confirmation(r, frame) ==
    IF r.function = "WRITE_SINGLE_COIL"
    THEN frame.words[1] = CoilWord(r.values[1])
    ELSE frame.words = Fields(r)

Accepts(r, received) ==
    /\ Plausible(r, received)
    /\ IF r.function \in Reads THEN ArrayFits(r, received[1])
       ELSE lax_response \/ Confirmation(r, received[1])

ReadArray_LastFirst(r, frame) ==
    [i \in 1..r.count |-> frame.words[r.count + 1 - i]]

\* ReadArray: the first items of the array; bits behind the end are 0.
ReadArray(r, frame) ==
    [i \in 1..r.count |-> IF i <= Len(frame.words) THEN frame.words[i] ELSE 0]

-----------------------------------------------------------------------------
(* A call.  It ends with a return or by throwing. *)

Return(f, result) == /\ pc' = [pc EXCEPT ![f] = "idle"]
                     /\ call' = [call EXCEPT ![f] = NoCall]
                     /\ buffer' = [buffer EXCEPT ![f] = <<>>]
                     /\ returned' = [returned EXCEPT ![f] = result]
                     /\ done' = [done EXCEPT ![f] = RB!NotDone]
Throw(f) == Return(f, Exception)

Begin(f, r) ==
    /\ ~Busy(f)
    /\ Len(line) < MaxLine /\ Len(input) <= MaxInput
    /\ call' = [call EXCEPT ![f] = r]
    /\ pc' = [pc EXCEPT ![f] = "gap"]
    /\ returned' = [returned EXCEPT ![f] = <<>>]
    /\ disturbed' = (disturbed \/ \E g \in BusFibers : Busy(g))
    /\ UNCHANGED <<outside, input, line, buffer, done>>

BeginFunction(f, function) ==
    \E r \in Requests : r.function = function /\ Begin(f, r)

ReadCoils(f)             == BeginFunction(f, "READ_COILS")
WriteCoil(f)             == BeginFunction(f, "WRITE_SINGLE_COIL")
WriteCoils(f)            == BeginFunction(f, "WRITE_MULTIPLE_COILS")
ReadDiscreteInputs(f)    == BeginFunction(f, "READ_DISCRETE_INPUTS")
ReadHoldingRegisters(f)  == BeginFunction(f, "READ_HOLDING_REGISTERS")
WriteHoldingRegister(f)  == BeginFunction(f, "WRITE_SINGLE_REGISTER")
WriteHoldingRegisters(f) == BeginFunction(f, "WRITE_MULTIPLE_REGISTERS")
ReadInputRegisters(f)    == BeginFunction(f, "READ_INPUT_REGISTERS")

\* The frame gap is over.  With tx_echo the request comes back first, perhaps
\* mutilated or not at all.
Send(f) ==
    /\ pc[f] = "gap"
    /\ line' = Append(line, Request(f))
    /\ IF tx_echo
       THEN /\ \E echo \in {<<Request(f)>>, <<Garbage>>, <<>>} : input' = input \o echo
            /\ pc' = [pc EXCEPT ![f] = "echo"]
       ELSE /\ input' = input
            /\ pc' = [pc EXCEPT ![f] = "wait"]
    /\ UNCHANGED <<outside, call, buffer, returned, done, disturbed>>

ReadEcho_Peek(f) ==
    /\ pc[f] = "echo"
    /\ input # <<>>
    /\ Repeats(Head(input), call[f])
    /\ pc' = [pc EXCEPT ![f] = "wait"]
    /\ UNCHANGED <<outside, line, input, call, buffer, returned, done, disturbed>>

\* ReceiveExcact takes as many bytes as were sent.  If the frame in front is
\* not the request, bytes of it remain, or bytes of the next are gone too.
ReadEcho(f) ==
    /\ pc[f] = "echo"
    /\ input # <<>>
    /\ IF Repeats(Head(input), call[f])
       THEN /\ input' = Tail(input)
            /\ pc' = [pc EXCEPT ![f] = "wait"]
            /\ UNCHANGED <<call, buffer, returned, done, disturbed>>
       ELSE /\ input' \in {Tail(input), <<Garbage>> \o Tail(input)}
                          \cup (IF Len(input) > 1
                                THEN {<<Garbage>> \o Tail(Tail(input))} ELSE {})
            /\ disturbed' = TRUE
            /\ Throw(f)
    /\ UNCHANGED <<outside, line>>

EchoTimeout(f) == /\ pc[f] = "echo"
                  /\ input = <<>>
                  /\ Throw(f)
                  /\ disturbed' = TRUE
                  /\ UNCHANGED <<outside, input, line>>


\* The first byte of the response and all that came with it, or more bytes
\* before the pause.  A full buffer is an error.
Receive(f) ==
    /\ pc[f] \in {"wait", "collect"}
    /\ input # <<>>
    /\ LET room == BufferFrames - Len(buffer[f]) IN
       IF Len(input) < room
       THEN /\ buffer' = [buffer EXCEPT ![f] = @ \o input]
            /\ input' = <<>>
            /\ pc' = [pc EXCEPT ![f] = "collect"]
            /\ UNCHANGED <<call, returned, done>>
       ELSE /\ input' = SubSeq(input, room + 1, Len(input))
            /\ Throw(f)
    /\ UNCHANGED <<outside, line, disturbed>>

ResponseTimeout_Never(f) == FALSE /\ UNCHANGED busVars

\* response_timeout is over.  If something is still under way, it is late.
ResponseTimeout(f) == /\ pc[f] = "wait"
                      /\ input = <<>>
                      /\ Throw(f)
                      /\ disturbed' = (disturbed \/ line # <<>>)
                      /\ UNCHANGED <<outside, input, line>>

\* The pause on the line ends the response.
Finish(f) ==
    /\ pc[f] = "collect"
    /\ input = <<>>
    /\ LET r == call[f] IN
       IF Accepts(r, buffer[f])
       THEN Return(f, IF r.function \in Reads THEN ReadArray(r, buffer[f][1]) ELSE <<>>)
       ELSE Throw(f)
    /\ UNCHANGED <<outside, input, line, disturbed>>

FiberStep(f) == \/ Send(f) \/ ReadEcho(f) \/ EchoTimeout(f)
                \/ Receive(f) \/ ResponseTimeout(f) \/ Finish(f)

-----------------------------------------------------------------------------
(* The line and the devices *)

fiberState == <<tx_echo, lax_response, pc, call, buffer, returned>>

\* What the device does with the request r of fiber f.  If f has given up on
\* it, nobody takes notice.
CarryOut(r, f) ==
    /\ bank' = IF r.function \in Writes THEN RB!Written(bank, r) ELSE bank
    /\ done' = IF call[f] = r /\ done[f] = RB!NotDone
               THEN [done EXCEPT ![f] = IF r.function \in Writes THEN <<>>
                                        ELSE RB!Found(bank, r)]
               ELSE done

\* A device answers a request, with an exception if it refuses it.
Answer(i) ==
    LET q == line[i]
        r == q.request
    IN  /\ q.kind = "request"
        /\ \/ /\ CarryOut(r, q.of)
              /\ line' = [line EXCEPT ![i] =
                    Frame("answer", r, q.of,
                          IF r.function \in Writes THEN Fields(r) ELSE RB!Found(bank, r))]
           \/ /\ line' = [line EXCEPT ![i] = Frame("refusal", r, q.of, <<>>)]
              /\ UNCHANGED <<bank, done>>
        /\ UNCHANGED <<fiberState, input, disturbed>>

\* A frame is lost, or arrives as garbage: a device ignores it, the master
\* receives it.
Lose(i) == /\ line' = RemoveAt(line, i)
           /\ UNCHANGED <<fiberState, input, bank, done, disturbed>>

Deliver(i) ==
    /\ line[i].kind # "request"
    /\ line' = RemoveAt(line, i)
    /\ \E frame \in {line[i], Garbage} : input' = Append(input, frame)
    /\ UNCHANGED <<fiberState, bank, done, disturbed>>

\* Bytes nobody sent.
Noise == /\ Len(input) < MaxInput
         /\ input' = Append(input, Garbage)
         /\ disturbed' = TRUE
         /\ UNCHANGED <<fiberState, line, bank, done>>

-----------------------------------------------------------------------------
BusInit ==
    /\ tx_echo \in BOOLEAN
    /\ lax_response \in BOOLEAN
    /\ input = <<>>
    /\ line = <<>>
    /\ pc = [f \in BusFibers |-> "idle"]
    /\ call = [f \in BusFibers |-> NoCall]
    /\ buffer = [f \in BusFibers |-> <<>>]
    /\ returned = [f \in BusFibers |-> <<>>]
    /\ bank = [d \in Devices |-> [a \in Registers |-> 0]]
    /\ done = [f \in BusFibers |-> RB!NotDone]
    /\ disturbed = FALSE

BusNext ==
    \/ \E f \in BusFibers :
        \/ ReadCoils(f) \/ WriteCoil(f) \/ WriteCoils(f) \/ ReadDiscreteInputs(f)
        \/ ReadHoldingRegisters(f) \/ WriteHoldingRegister(f)
        \/ WriteHoldingRegisters(f) \/ ReadInputRegisters(f)
        \/ FiberStep(f)
    \/ \E i \in DOMAIN line : Answer(i) \/ Lose(i) \/ Deliver(i)
    \/ Noise

BusSpec == BusInit /\ [][BusNext]_busVars

-----------------------------------------------------------------------------
(* Properties *)

Frames == [kind : {"request", "answer", "refusal"}, request : Requests,
           of : BusFibers, words : Seq(Values \cup Nat)] \cup {Garbage}
Results == Seq(Values) \cup {Exception, RB!NotDone}

\* Every variable is in its range; the response buffer never overflows.
BusTypeOK ==
    /\ input \in Seq(Frames) /\ line \in Seq(Frames \ {Garbage})
    /\ pc \in [BusFibers -> {"idle", "gap", "echo", "wait", "collect"}]
    /\ \A f \in BusFibers : /\ call[f] \in Requests \cup {NoCall}
                          /\ (call[f] = NoCall) = (pc[f] = "idle")
                          /\ buffer[f] \in Seq(Frames) /\ Len(buffer[f]) < BufferFrames
    /\ returned \in [BusFibers -> Results] /\ done \in [BusFibers -> Results]
    /\ bank \in [Devices -> [Registers -> Values]]

\* As long as calls do not overlap, devices answer in time and nothing else is
\* on the line, a call leaves nothing behind for the next one, whatever was
\* lost or garbled (ReceiveResponse empties the input up to a pause).
NothingLeftBehind ==
    ~disturbed /\ (\A f \in BusFibers : ~Busy(f)) => input = <<>> /\ line = <<>>

\* Under the same conditions the bus is a bank of registers: reads return what
\* is in the registers, writes that return were carried out, and none twice.
BankWhileUndisturbed == RB!Init /\ [][~disturbed' => [RB!Next]_(RB!vars)]_busVars

Answered(f) == /\ Finish(f)
               /\ Len(buffer[f]) = 1
               /\ buffer[f][1].kind = "answer"
               /\ buffer[f][1].request = call[f]

\* WriteCoil returns when the device confirms it ("new_state").
CoilConfirmationAccepted ==
    [][\A f \in BusFibers : Answered(f) /\ call[f].function = "WRITE_SINGLE_COIL"
                            => returned'[f] # Exception]_busVars
=============================================================================
