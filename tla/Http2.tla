------------------------------- MODULE Http2 -------------------------------
(***************************************************************************)
(* io_net_http2: the requests of one connection of HTTP/2, each in a       *)
(* stream with a fiber of its own for the handler, and the loop            *)
(* THttp2Connection::Run that moves frames between them and the socket.    *)
(*                                                                         *)
(* nghttp2, the socket and the client are external.  A request is its      *)
(* kind, a body a number of bytes; names and values of fields are left     *)
(* out.  A pass of the loop does not wait, and is one action.              *)
(***************************************************************************)
EXTENDS Integers, Sequences, FiniteSets, SequencesExt

CONSTANTS N,           \* bound: streams the client opens
          MaxBody,     \* bound: bytes of a body
          Window,      \* bytes a client may send ahead on the connection
          Room,        \* frames the socket takes before it would block
          ReadsBodies  \* whether handlers read the bodies they are given to the end

ASSUME Http2Assumption == {N, MaxBody, Window, Room} \subseteq Nat \ {0} /\ ReadsBodies \in BOOLEAN

Ids == 1..N
Kinds == {"GET", "HEAD", "unknown", "oversized"}

VARIABLES
    streams,    \* the THttp2Streams
    session,    \* nghttp2_session: whether it exists, bytes consumed but not announced
    run,        \* Run: run, wait or over
    output,     \* what nghttp2_session_mem_send has given and the socket has not taken
    wakeup,
    up,         \* frames of the client the server has not read; eof when it has closed
    eof,
    down,       \* frames the client has not read
    client,     \* the client's side of each stream
    credit,     \* bytes the client may send
    read,       \* history: what the handler has read of each body
    reply,      \* history: what it answered
    got,        \* history: what the client got
    undefined   \* history: a handler has used a session that is gone

server == <<streams, session, run, output, wakeup>>
socket == <<up, eof, down>>
history == <<read, reply, got, undefined>>
vars == <<server, socket, client, credit, history>>

NoBody == -1    \* response_body == nullptr
NoStream == [there |-> FALSE, head |-> FALSE, buffer |-> <<>>, complete |-> FALSE, handler |-> "none",
             submitted |-> FALSE, pending |-> "no", deferred |-> FALSE, left |-> NoBody, ready |-> 0,
             closed |-> FALSE]

Init == /\ streams = [s \in Ids |-> NoStream]
        /\ session = [alive |-> TRUE, consumed |-> 0]
        /\ run = "run" /\ output = <<>> /\ wakeup = FALSE
        /\ up = <<>> /\ eof = FALSE /\ down = <<>>
        /\ client = [s \in Ids |-> [state |-> "idle", sent |-> 0]]
        /\ credit = Window
        /\ read = [s \in Ids |-> 0]
        /\ reply = [s \in Ids |-> NoBody]
        /\ got = [s \in Ids |-> <<>>]
        /\ undefined = FALSE

-----------------------------------------------------------------------------
(* The callbacks of nghttp2: what a frame does to a connection             *)

\* A connection in the middle of a pass.
Now == [streams |-> streams, session |-> session, output |-> output, up |-> up, down |-> down,
        progress |-> FALSE, failed |-> FALSE]

Consume(c, n) == [c EXCEPT !.session.consumed = @ + n]
SetStream(c, s, x) == [c EXCEPT !.streams[s] = x]

OnStreamClose(x) == [x EXCEPT !.closed = TRUE, !.complete = TRUE, !.pending = "no"]

\* OnBeginHeaders, OnHeader and, with the whole header, OnFrameRecv.
OnHeaders(c, f) ==
    LET x == [NoStream EXCEPT !.there = TRUE, !.head = f.kind = "HEAD", !.complete = f.end] IN
    CASE f.kind = "unknown"   -> [c EXCEPT !.failed = TRUE]
      [] f.kind = "oversized" -> SetStream(c, f.s, OnStreamClose(x))
      [] OTHER                -> SetStream(c, f.s, [x EXCEPT !.handler = "ready"])

\* The library answers for bytes of streams it has closed.
OnDataChunk(c, f) ==
    LET x == c.streams[f.s] IN
    IF x.there /\ ~x.closed THEN SetStream(c, f.s, [x EXCEPT !.buffer = Append(@, f.n)])
    ELSE Consume(c, 1)

\* The stream is closed when both sides have ended it.
Ended(x) == IF x.submitted /\ x.pending = "no" THEN OnStreamClose(x) ELSE x
OnEnd(c, f) ==
    LET x == c.streams[f.s] IN
    IF x.there THEN SetStream(c, f.s, Ended([x EXCEPT !.complete = TRUE])) ELSE c

OnReset(c, f) ==
    LET x == c.streams[f.s] IN IF x.there THEN SetStream(c, f.s, OnStreamClose(x)) ELSE c

OnFrame(c, f) ==
    IF c.failed THEN c
    ELSE CASE f.t = "headers" -> OnHeaders(c, f)
           [] f.t = "data"    -> OnDataChunk(c, f)
           [] f.t = "end"     -> OnEnd(c, f)
           [] f.t = "reset"   -> OnReset(c, f)

-----------------------------------------------------------------------------
(* Run *)

\* SubmitResponse: the body of an answer to HEAD is dropped.
Submitted(x, n) ==
    IF x.submitted \/ x.closed THEN x
    ELSE [x EXCEPT !.submitted = TRUE, !.pending = "head", !.left = IF x.head THEN NoBody ELSE n]

ResumeDeferredBodies(c) ==
    [c EXCEPT !.streams = [s \in Ids |->
        LET x == c.streams[s] IN
        IF x.deferred /\ x.left # NoBody /\ (x.ready > 0 \/ x.left = 0)
        THEN [x EXCEPT !.deferred = FALSE, !.pending = "body"] ELSE x]]

\* For the runs that check the properties: a source that has nothing yet has ended.
Deferred_Ended(c) ==
    [c EXCEPT !.streams = [s \in Ids |->
        LET x == c.streams[s] IN
        IF x.pending = "body" /\ x.left > 0 /\ x.ready = 0 THEN [x EXCEPT !.left = 0] ELSE x]]
\* ReadResponseData: a body that has nothing yet is deferred.
Deferred(c) ==
    [c EXCEPT !.streams = [s \in Ids |->
        LET x == c.streams[s] IN
        IF x.pending = "body" /\ x.left > 0 /\ x.ready = 0
        THEN [x EXCEPT !.deferred = TRUE, !.pending = "deferred"] ELSE x]]

Frame(s, t, n) == [s |-> s, t |-> t, n |-> n]

\* The next frame of a stream, and the stream after it.
Sends(x, s) ==
    CASE x.pending = "head" /\ x.left = NoBody -> Frame(s, "head_end", 0)
      [] x.pending = "head" /\ x.left # NoBody -> Frame(s, "head", 0)
      [] x.pending = "body" /\ x.left = 0      -> Frame(s, "end", 0)
      [] OTHER                                -> Frame(s, "data", x.left)
AfterSending(x) ==
    CASE x.pending = "head" /\ x.left # NoBody -> [x EXCEPT !.pending = "body"]
      [] x.pending = "body" /\ x.left > 0      -> [x EXCEPT !.left = @ - 1, !.ready = @ - 1]
      [] OTHER -> IF x.complete THEN OnStreamClose(x) ELSE [x EXCEPT !.pending = "no"]

\* nghttp2_session_mem_send: a frame of a stream that has one, or a
\* WINDOW_UPDATE, or nothing.
MemSend(c) ==
    LET d == Deferred(c)
        can == {s \in Ids : d.streams[s].pending \in {"head", "body"}}
        frames == {[SetStream(d, s, AfterSending(d.streams[s])) EXCEPT
                       !.output = <<Sends(d.streams[s], s)>>] : s \in can}
        update == IF c.session.consumed = 0 THEN {}
                  ELSE {[d EXCEPT !.session.consumed = 0,
                                  !.output = <<Frame(0, "window", d.session.consumed)>>]}
    IN IF frames \cup update = {} THEN {d} ELSE frames \cup update

FlushOutput(c) ==
    {IF d.output # <<>> /\ Len(d.down) < Room
     THEN [d EXCEPT !.down = @ \o d.output, !.output = <<>>, !.progress = TRUE] ELSE d
     : d \in IF c.output = <<>> THEN MemSend(c) ELSE {c}}

\* nghttp2_session_mem_recv of all there is, frame by frame.
Received(c) == LET after[i \in 0..Len(c.up)] == IF i = 0 THEN c ELSE OnFrame(after[i - 1], c.up[i])
               IN after[Len(c.up)]
Receive(c) == IF c.up = <<>> THEN c ELSE [Received(c) EXCEPT !.up = <<>>, !.progress = TRUE]

\* For the runs that check the properties: handlers that still run.
CleanupStreams_Running(c) ==
    [c EXCEPT !.streams = [s \in Ids |-> IF c.streams[s].closed THEN NoStream ELSE c.streams[s]]]
CleanupStreams(c) ==
    [c EXCEPT !.streams = [s \in Ids |->
        IF c.streams[s].closed /\ c.streams[s].handler \in {"none", "over"} THEN NoStream ELSE c.streams[s]]]

Store(c) == /\ streams' = c.streams /\ session' = c.session /\ output' = c.output
            /\ up' = c.up /\ down' = c.down

\* The end of Run and ~THttp2Connection: the session is deleted, then every
\* stream, whose fiber is told to end and joined.  One that waits ends where it
\* waits; one that has not run yet runs until it waits, or to the end.
TearDown(c) ==
    /\ Store([c EXCEPT !.session.alive = FALSE, !.output = <<>>, !.streams = [s \in Ids |-> NoStream]])
    /\ run' = "over" /\ wakeup' = FALSE
    /\ undefined' \in {FALSE, \E s \in Ids : c.streams[s].handler = "ready" /\ ~c.streams[s].closed}

\* What the loop waits for.
Awake == \/ run = "run" \/ wakeup \/ up # <<>> \/ eof
         \/ output # <<>> /\ Len(down) < Room
         \/ \E s \in Ids : streams[s].deferred /\ (streams[s].ready > 0 \/ streams[s].left = 0)

\* One pass: Run until it ends, waits or begins anew.
CanPass == run # "over" /\ ~undefined /\ Awake
Pass ==
    /\ CanPass
    /\ \E c \in FlushOutput(ResumeDeferredBodies(Now)) :
         IF c.up = <<>> /\ eof THEN TearDown(c)
         ELSE LET r == Receive(c) IN
              IF r.failed THEN TearDown(r)
              ELSE \E d \in FlushOutput(r) :
                     /\ Store(CleanupStreams(d))
                     /\ IF d.progress THEN run' = "run" /\ UNCHANGED wakeup
                                      ELSE run' = "wait" /\ wakeup' = FALSE
                     /\ UNCHANGED undefined
    /\ UNCHANGED <<eof, client, credit, read, reply, got>>

-----------------------------------------------------------------------------
(* The fibers of the handlers: StartHandler, THttp2RequestBody *)

Runs(s) == ~undefined /\ run = "wait" /\ streams[s].handler \in {"ready", "reading"}

\* For the runs that check the properties: the loop is not woken to return the credit.
Read_Asleep(s) ==
    /\ streams' = [streams EXCEPT ![s].buffer = Tail(@), ![s].handler = "reading"]
    /\ session' = [session EXCEPT !.consumed = @ + 1]
    /\ UNCHANGED wakeup
Read(s) ==
    /\ streams' = [streams EXCEPT ![s].buffer = Tail(@), ![s].handler = "reading"]
    /\ session' = [session EXCEPT !.consumed = @ + 1]
    /\ wakeup' = TRUE

HandlerReads(s) ==
    /\ Runs(s) /\ streams[s].buffer # <<>>
    /\ Read(s)
    /\ read' = [read EXCEPT ![s] = IF Head(streams[s].buffer) = @ + 1 THEN @ + 1 ELSE 0 - 2]
    /\ UNCHANGED <<run, output, socket, client, credit, reply, got, undefined>>

\* The body has nothing yet and is not complete: the fiber waits for it.
HandlerWaits(s) ==
    /\ Runs(s) /\ streams[s].handler = "ready" /\ streams[s].buffer = <<>> /\ ~streams[s].complete
    /\ streams' = [streams EXCEPT ![s].handler = "reading"]
    /\ UNCHANGED <<session, run, output, wakeup, socket, client, credit, history>>

\* It returns a response, or throws, which is a response without a body.
HandlerReturns(s) ==
    /\ Runs(s)
    /\ ReadsBodies => streams[s].buffer = <<>> /\ streams[s].complete
    /\ \E n \in {NoBody, MaxBody} :
         /\ streams' = [streams EXCEPT ![s] = [Submitted(@, n) EXCEPT !.handler = "over"]]
         /\ wakeup' = (wakeup \/ streams'[s].submitted)
         /\ reply' = [reply EXCEPT ![s] = IF streams[s].head THEN NoBody ELSE n]
    /\ UNCHANGED <<session, run, output, socket, client, credit, read, got, undefined>>

\* A response body that comes from elsewhere gets more.
BodyReady(s) ==
    /\ ~undefined /\ run = "wait" /\ streams[s].ready < streams[s].left
    /\ streams' = [streams EXCEPT ![s].ready = streams[s].left]
    /\ UNCHANGED <<session, run, output, wakeup, socket, client, credit, history>>

-----------------------------------------------------------------------------
(* The client *)

\* What is sent to a server that is over is lost.
Send(frames) == up' = IF run = "over" THEN up ELSE up \o frames
CanSend == ~undefined /\ ~eof /\ run # "run"

Request(s, kind, end) ==
    /\ CanSend /\ client[s].state = "idle" /\ \A t \in 1..s-1 : client[t].state # "idle"
    /\ Send(<<[s |-> s, t |-> "headers", kind |-> kind, end |-> end, n |-> 0]>>)
    /\ client' = [client EXCEPT ![s].state = IF end THEN "ended" ELSE "open"]
    /\ UNCHANGED <<server, eof, down, credit, history>>

SendData(s) ==
    /\ CanSend /\ client[s].state = "open" /\ client[s].sent < MaxBody /\ credit > 0
    /\ Send(<<Frame(s, "data", client[s].sent + 1)>>)
    /\ client' = [client EXCEPT ![s].sent = @ + 1]
    /\ credit' = credit - 1
    /\ UNCHANGED <<server, eof, down, history>>

SendEnd(s) ==
    /\ CanSend /\ client[s].state = "open"
    /\ Send(<<Frame(s, "end", 0)>>)
    /\ client' = [client EXCEPT ![s].state = "ended"]
    /\ UNCHANGED <<server, eof, down, credit, history>>

\* The client has the whole answer.
Answered(s) == got[s] # <<>> /\ Last(got[s]).t \in {"end", "head_end"}

Reset(s) ==
    /\ CanSend /\ ~Answered(s) /\ client[s].state \in {"open", "ended"}
    /\ Send(<<Frame(s, "reset", 0)>>)
    /\ client' = [client EXCEPT ![s].state = "reset"]
    /\ UNCHANGED <<server, eof, down, credit, history>>

Close ==
    /\ CanSend
    /\ eof' = TRUE
    /\ UNCHANGED <<server, up, down, client, credit, history>>

ClientReads ==
    /\ ~undefined /\ run # "run" /\ down # <<>>
    /\ LET f == Head(down) IN
         IF f.t = "window" THEN credit' = credit + f.n /\ UNCHANGED got
         ELSE got' = [got EXCEPT ![f.s] = Append(@, f)] /\ UNCHANGED credit
    /\ down' = Tail(down)
    /\ UNCHANGED <<server, up, eof, client, read, reply, undefined>>

-----------------------------------------------------------------------------

Handler(s) == HandlerReads(s) \/ HandlerWaits(s) \/ HandlerReturns(s)
Next ==
    \/ Pass \/ ClientReads \/ Close
    \/ \E s \in Ids :
         \/ Handler(s) \/ BodyReady(s) \/ SendData(s) \/ SendEnd(s) \/ Reset(s)
         \/ \E kind \in Kinds : Request(s, kind, TRUE)
         \/ Request(s, "GET", FALSE)

Spec == Init /\ [][Next]_vars
FairSpec ==
    /\ Spec /\ WF_vars(ClientReads)
    /\ []<>~CanPass \/ []<><<Pass>>_vars    \* WF_vars(Pass)
    /\ \A s \in Ids : WF_vars(Handler(s)) /\ WF_vars(BodyReady(s)) /\ WF_vars(SendData(s))
                      /\ WF_vars(SendEnd(s) /\ client[s].sent = MaxBody)

-----------------------------------------------------------------------------
(* Properties *)

\* What a handler reads is the body its own client sent, from the start and
\* without a gap; what a client gets is what its own handler answered, and it is
\* told the end only after all of it.
Answer(n) == IF n = NoBody THEN <<"head_end">>
             ELSE <<"head">> \o [i \in 1..n |-> "data"] \o <<"end">>
ExchangesKept ==
    \A s \in Ids :
        /\ read[s] \in 0..client[s].sent
        /\ got[s] # <<>> =>
             LET a == Answer(reply[s]) IN
             /\ Len(got[s]) <= Len(a)
             /\ \A i \in DOMAIN got[s] :
                  /\ got[s][i].t = a[i]
                  /\ got[s][i].t = "data" => got[s][i].n = reply[s] - i + 2

\* A stream is not removed while its handler has it, and a request that was not
\* refused keeps its stream until it is answered, reset or cut off.
StreamsOutliveHandlers ==
    [][\A s \in Ids : streams[s].handler \in {"ready", "reading"} =>
           streams'[s].there \/ run' = "over"]_vars

\* With handlers that read what they are sent, every request is answered unless
\* it is refused, reset or cut off, and all of its body can be sent.
AnswersCome ==
    \A s \in Ids :
        streams[s].handler = "ready" ~> Answered(s) \/ client[s].state = "reset" \/ run = "over"

=============================================================================
