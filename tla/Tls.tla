--------------------------------- MODULE Tls ---------------------------------
(***************************************************************************)
(* io_net_tls: TClient, the plain stream of a TLS connection, at both ends *)
(* of it, each with a fiber that writes and one that reads.  Any call may  *)
(* drive the handshake, and a call may have to wait for the other          *)
(* direction than its own.                                                 *)
(*                                                                         *)
(* External: OpenSSL, as far as these calls show it: flights of the        *)
(* handshake, one record for what is written at once, close_notify; TCP    *)
(* with room for a few records; the thread's scheduler, which asks the     *)
(* kernel when no fiber can go on, and wakes all that wait for what it has.*)
(***************************************************************************)
EXTENDS Integers, SequencesExt

CONSTANTS Side, Peer(_),  \* the two ends; the first sends the first flight
          Client,
          Items,          \* what each writes, in number
          BufferSize,     \* WRITE_BUFFER_SIZE
          Room            \* records in a TCP connection, one way

VARIABLES flight,   \* external: the next flight of the handshake, at each end
          pending,  \* external: items of a record that have not been read
          wire,     \* external: records on the way from each end
          fin,      \* external: TCP closed by that end
          data,     \* TClient::data_t
          writer, reader,            \* where the fibers are
          waits,                     \* what each of the four waits for
          accepted, received         \* history: items taken by Write, and read

vars == <<flight, pending, wire, fin, data, writer, reader, waits, accepted, received>>

Flights == 3
Negotiated == Flights + 1
Record(type, items) == [type |-> type, items |-> items]
Hello == Record("hello", <<>>)
Close == Record("close", <<>>)
Data(items) == Record("data", items)
Sends(s, k) == (k % 2 = 1) = (s = Client)

-----------------------------------------------------------------------------
(* External: the calls of OpenSSL *)

\* SSL_do_handshake(), as far as it gets, by one flight after the other; every
\* other call begins with it.
Advance(s, h) ==
    LET got == h.wire[Peer(s)] IN
    IF h.result # "ok" \/ h.flight = Negotiated THEN h
    ELSE IF Sends(s, h.flight) THEN
        (IF fin[Peer(s)] /\ data[Peer(s)].closed THEN [h EXCEPT !.result = "error"]
         ELSE IF Len(h.wire[s]) = Room THEN [h EXCEPT !.result = "OUTPUT"]
         ELSE [h EXCEPT !.flight = @ + 1, !.wire[s] = Append(@, Hello)])
    ELSE IF got # <<>> THEN [h EXCEPT !.flight = @ + 1, !.wire[Peer(s)] = Tail(@)]
    ELSE [h EXCEPT !.result = IF fin[Peer(s)] THEN "error" ELSE "INPUT"]
Begun(s) ==
    LET first == Advance(s, [result |-> "ok", flight |-> flight[s], wire |-> wire])
        second == Advance(s, first)
    IN  Advance(s, second)
\* A record goes out: SSL_write_ex(), SSL_shutdown().
Sent(s, record) ==
    LET h == Begun(s) IN
    IF h.result # "ok" THEN h
    ELSE IF data[Peer(s)].closed THEN [h EXCEPT !.result = "error"]
    ELSE IF Len(h.wire[s]) = Room THEN [h EXCEPT !.result = "OUTPUT"]
    ELSE [h EXCEPT !.wire[s] = Append(@, record)]
External(s, h) == flight' = [flight EXCEPT ![s] = h.flight] /\ wire' = h.wire

-----------------------------------------------------------------------------
(* TClient *)

\* Waitable(): whether what it stands for is ready; the input is, too, when a
\* record has not been read to its end.
InputReady_TcpOnly(s) == wire[Peer(s)] # <<>> \/ fin[Peer(s)]
InputReady(s) == pending[s] # <<>> \/ wire[Peer(s)] # <<>> \/ fin[Peer(s)]
Ready(s, direction) == CASE direction = "INPUT" -> InputReady(s)
                         [] direction = "OUTPUT" -> Len(wire[s]) < Room \/ data[Peer(s)].closed
                         [] direction = "" -> TRUE
Going(f) == waits[f] = ""
W(s) == <<s, "writer">>
R(s) == <<s, "reader">>
Blocks(f, direction) == waits' = [waits EXCEPT ![f] = direction]
Goes(f) == Blocks(f, "")

\* DrivePendingWrite(): what SSL_write_ex says to the buffer b of s.
Driven(d, h) ==
    CASE h.result = "ok" -> [d EXCEPT !.buffer = <<>>, !.output = "OUTPUT"]
      [] h.result \in {"INPUT", "OUTPUT"} -> [d EXCEPT !.output = h.result]
      [] h.result = "error" -> d

\* Negotiate()
Negotiate(s) ==
    /\ writer[s] = "negotiate" /\ Going(W(s))
    /\ \E h \in {Begun(s)} :
          /\ External(s, h)
          /\ CASE h.result = "ok" -> writer' = [writer EXCEPT ![s] = "write"] /\ Goes(W(s))
               [] h.result \in {"INPUT", "OUTPUT"} -> writer' = writer /\ Blocks(W(s), h.result)
               [] h.result = "error" -> writer' = [writer EXCEPT ![s] = "failed"] /\ Goes(W(s))
    /\ UNCHANGED <<pending, fin, data, reader, accepted, received>>

\* Write(), by a fiber that waits and tries again when nothing was taken: first
\* what an earlier call left, then as much as the buffer takes.  A client closes
\* when it has its answer.
Heard(s) == Len(received[s]) = Items
Write(s) ==
    LET left == Items - Len(accepted[s])
        chunk == [i \in 1..(IF left < BufferSize THEN left ELSE BufferSize) |-> Len(accepted[s]) + i]
    IN
    /\ writer[s] = "write" /\ Going(W(s)) /\ ~data[s].closed
    /\ \/ left = 0 /\ writer' = [writer EXCEPT ![s] = IF s = Client THEN "flush" ELSE "close"]
          /\ UNCHANGED <<flight, wire, data, waits, accepted>>
       \/ /\ left > 0
          /\ \E b \in {IF data[s].buffer = <<>> THEN chunk ELSE data[s].buffer} :
             \E h \in {Sent(s, Data(b))} :
                /\ External(s, h)
                /\ data' = [data EXCEPT ![s] = Driven([@ EXCEPT !.buffer = b], h)]
                /\ accepted' = [accepted EXCEPT ![s] = IF data[s].buffer = <<>> THEN @ \o chunk ELSE @]
                /\ writer' = IF h.result = "error" THEN [writer EXCEPT ![s] = "failed"] ELSE writer
                /\ IF data[s].buffer # <<>> /\ h.result \in {"INPUT", "OUTPUT"} THEN Blocks(W(s), h.result) ELSE Goes(W(s))
    /\ UNCHANGED <<pending, fin, reader, received>>

\* CloseOutput(): after Flush(), close_notify, whose answer is not waited for.
\* SSL_shutdown() refuses before the handshake.
Notified(s, d) ==
    \/ /\ flight[s] # Negotiated
       /\ writer' = [writer EXCEPT ![s] = "failed"] /\ Goes(W(s)) /\ UNCHANGED <<flight, wire, fin, data>>
    \/ /\ flight[s] = Negotiated
       /\ \E h \in {Sent(s, Close)} :
             /\ External(s, h)
             /\ CASE h.result = "ok" -> /\ data' = [data EXCEPT ![s] = [d EXCEPT !.output_closed = TRUE]]
                                        /\ fin' = [fin EXCEPT ![s] = TRUE]
                                        /\ writer' = [writer EXCEPT ![s] = "done"] /\ Goes(W(s))
                  [] h.result = "OUTPUT" -> Blocks(W(s), "OUTPUT") /\ UNCHANGED <<data, fin, writer>>
                  [] h.result = "error" -> writer' = [writer EXCEPT ![s] = "failed"] /\ Goes(W(s)) /\ UNCHANGED <<data, fin>>
CloseOutput_NoFlush(s) ==
    /\ writer[s] = "close" /\ Going(W(s)) /\ ~data[s].closed
    /\ Notified(s, [data[s] EXCEPT !.buffer = <<>>])
    /\ UNCHANGED <<pending, reader, accepted, received>>
CloseOutput(s) ==
    /\ writer[s] = "close" /\ Going(W(s)) /\ ~data[s].closed
    /\ data[s].buffer = <<>> /\ Notified(s, data[s])
    /\ UNCHANGED <<pending, reader, accepted, received>>
\* Flush(), which CloseOutput() calls, and who waits for an answer must call.
Flush(s) ==
    /\ writer[s] \in {"flush", "close"} /\ Going(W(s)) /\ ~data[s].closed
    /\ \/ /\ data[s].buffer = <<>> /\ writer[s] = "flush"
          /\ writer' = [writer EXCEPT ![s] = "asked"] /\ UNCHANGED <<flight, wire, data, waits>>
       \/ /\ data[s].buffer # <<>>
          /\ \E h \in {Sent(s, Data(data[s].buffer))} :
                /\ External(s, h) /\ data' = [data EXCEPT ![s] = Driven(@, h)]
                /\ writer' = IF h.result = "error" THEN [writer EXCEPT ![s] = "failed"] ELSE writer
                /\ IF h.result \in {"INPUT", "OUTPUT"} THEN Blocks(W(s), h.result) ELSE Goes(W(s))
    /\ UNCHANGED <<pending, fin, reader, accepted, received>>

\* Read() of one item, by a fiber that waits for OnInputReady() when it got
\* nothing, and is at the end when there is nothing to wait for.
NextRecord(s, h) ==
    LET got == h.wire[Peer(s)] IN
    IF got # <<>> THEN [h EXCEPT !.wire[Peer(s)] = Tail(@), !.result = IF Head(got).type = "close" THEN "end" ELSE "ok"]
    ELSE [h EXCEPT !.result = IF fin[Peer(s)] THEN "error" ELSE "INPUT"]
Take(s, items) == /\ received' = [received EXCEPT ![s] = Append(@, Head(items))]
                  /\ pending' = [pending EXCEPT ![s] = Tail(items)]
\* One fiber at a time has a part in the handshake: two would take the records
\* from each other, and the one that did not get its own waits for ever.
Alone(s) == flight[s] = Negotiated \/ writer[s] = "later"
\* The program: a server that answers a question, a client that reads first, or
\* that waits for its answer.
Later(s) == /\ \/ writer[s] = "later" /\ (IF s = Client THEN flight[s] = Negotiated ELSE Heard(s))
                  /\ writer' = [writer EXCEPT ![s] = "write"]
               \/ writer[s] = "asked" /\ Heard(s) /\ writer' = [writer EXCEPT ![s] = "close"]
            /\ UNCHANGED <<flight, pending, wire, fin, data, reader, waits, accepted, received>>
Read(s) ==
    /\ Alone(s)
    /\ reader[s] = "read" /\ Going(R(s)) /\ ~data[s].closed /\ ~data[s].input_closed
    /\ \/ /\ pending[s] # <<>> /\ Take(s, pending[s])
          /\ data' = [data EXCEPT ![s].input = "INPUT"]
          /\ UNCHANGED <<flight, wire, reader, waits>>
       \/ /\ pending[s] = <<>>
          /\ \E b \in {Begun(s)} : \E h \in {IF b.result = "ok" THEN NextRecord(s, b) ELSE b} :
                /\ External(s, h)
                /\ CASE h.result = "ok" -> /\ Take(s, Head(b.wire[Peer(s)]).items) /\ data' = [data EXCEPT ![s].input = "INPUT"]
                                           /\ UNCHANGED <<reader, waits>>
                     [] h.result \in {"INPUT", "OUTPUT"} ->
                           data' = [data EXCEPT ![s].input = h.result] /\ Blocks(R(s), h.result) /\ UNCHANGED <<pending, received, reader>>
                     [] h.result = "end" ->
                           data' = [data EXCEPT ![s].input_closed = TRUE] /\ UNCHANGED <<pending, received, reader, waits>>
                     [] h.result = "error" ->
                           reader' = [reader EXCEPT ![s] = "failed"] /\ UNCHANGED <<pending, received, data, waits>>
    /\ UNCHANGED <<fin, writer, accepted>>
\* A program that waits before it reads on.
WaitsFirst(s) == /\ reader[s] = "read" /\ Going(R(s)) /\ ~data[s].closed /\ ~data[s].input_closed /\ received[s] # <<>>
                 /\ ~Ready(s, data[s].input) /\ Blocks(R(s), data[s].input)
                 /\ UNCHANGED <<flight, pending, wire, fin, data, writer, reader, accepted, received>>
AtEnd(s) == /\ reader[s] = "read" /\ Going(R(s)) /\ (data[s].closed \/ data[s].input_closed)
            /\ reader' = [reader EXCEPT ![s] = "done"]
            /\ UNCHANGED <<flight, pending, wire, fin, data, writer, waits, accepted, received>>

\* Close(), where a program gives up: what is in the buffer is lost.
Abandon(s) ==
    /\ writer[s] \in {"write", "flush", "close"} /\ Going(W(s)) /\ Going(R(s)) /\ ~data[s].closed
    /\ data' = [data EXCEPT ![s] = [@ EXCEPT !.closed = TRUE, !.input_closed = TRUE, !.output_closed = TRUE, !.buffer = <<>>]]
    /\ fin' = [fin EXCEPT ![s] = TRUE] /\ writer' = [writer EXCEPT ![s] = "gone"]
    /\ UNCHANGED <<flight, pending, wire, reader, waits, accepted, received>>

\* External: no fiber of the thread goes on; all for which something is ready do.
Live(f) == IF f[2] = "writer" THEN writer[f[1]] \in {"negotiate", "write", "flush", "close"}
           ELSE reader[f[1]] = "read" /\ Alone(f[1])
Poll(s) ==
    /\ \A f \in {W(s), R(s)} : Live(f) => ~Going(f)
    /\ \E f \in {W(s), R(s)} : Live(f) /\ Ready(s, waits[f])
    /\ waits' = [f \in DOMAIN waits |-> IF f[1] = s /\ Live(f) /\ Ready(s, waits[f]) THEN "" ELSE waits[f]]
    /\ UNCHANGED <<flight, pending, wire, fin, data, writer, reader, accepted, received>>

Init ==
    /\ flight = [s \in Side |-> 1] /\ pending = [s \in Side |-> <<>>]
    /\ wire = [s \in Side |-> <<>>] /\ fin = [s \in Side |-> FALSE]
    /\ data = [s \in Side |-> [buffer |-> <<>>, input |-> "INPUT", output |-> "OUTPUT",
                               input_closed |-> FALSE, output_closed |-> FALSE, closed |-> FALSE]]
    /\ writer \in [Side -> {"negotiate", "write", "later"}] /\ reader = [s \in Side |-> "read"]
    /\ waits = [f \in Side \X {"writer", "reader"} |-> ""]
    /\ accepted = [s \in Side |-> <<>>] /\ received = [s \in Side |-> <<>>]

Acts(s) == Negotiate(s) \/ Write(s) \/ Flush(s) \/ CloseOutput(s)
Reads(s) == Read(s) \/ AtEnd(s) \/ Later(s)
Next == \E s \in Side : Acts(s) \/ Reads(s) \/ WaitsFirst(s) \/ Abandon(s) \/ Poll(s)
Spec == /\ Init /\ [][Next]_vars
        /\ \A s \in Side : WF_vars(Acts(s)) /\ WF_vars(Reads(s)) /\ WF_vars(Poll(s))

-----------------------------------------------------------------------------
(* Properties *)

\* What is read is what was written, in order; a stream that ends, rather than
\* fails, has been read to the end the other side gave it.
StreamKept ==
    \A s \in Side :
        /\ IsPrefix(received[s], accepted[Peer(s)])
        /\ reader[s] = "done" /\ ~data[s].closed => received[s] = accepted[Peer(s)] /\ writer[Peer(s)] = "done"
\* Unless one end gives up, or closes its output before the handshake, both get
\* to the end, whatever the handshake made either fiber wait for.
BothEnded == \/ \E s \in Side : data[s].closed \/ writer[s] = "failed"
             \/ \A s \in Side : writer[s] = "done" /\ reader[s] = "done"
=============================================================================
