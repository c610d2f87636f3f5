------------------------------ MODULE Postgres ------------------------------
(***************************************************************************)
(* db_postgres: queries pipelined over one connection by several fibers,   *)
(* the fibers fib_reader and fib_flusher of TPostgresConnection, the       *)
(* TResultStreams that share what the reader receives, and the channels of *)
(* notifications.                                                          *)
(*                                                                         *)
(* All fibers belong to one thread: an action is what one of them does     *)
(* from one wait to the next.  libpq, the network and the server are       *)
(* external: what they do is taken from how the code calls them.  Every    *)
(* query is followed by a sync of its own, so PGRES_PIPELINE_ABORTED never *)
(* comes.  A row is its query and its number; names of statements and the  *)
(* values in the columns are left out (PgTypes has those).                 *)
(***************************************************************************)
EXTENDS Integers, Sequences, FiniteSets, SequencesExt

CONSTANTS Clients,      \* fibers of the user
          Channels,     \* names of notification channels
          FifoRows,     \* N_FIFO_ROWS
          Watched,      \* the clients whose waits WaitsEnd follows
          Careful,      \* whether the users keep to the discipline below
          MaxRows,      \* bound: rows of a query
          MaxQueries,   \* bound: calls of Execute
          MaxConnects,  \* bound: calls of Connect
          MaxEvents     \* bound: notifications

ASSUME PostgresAssumption ==
    /\ Careful \in BOOLEAN /\ Watched \subseteq Clients /\ {MaxRows, MaxEvents} \subseteq Nat
    /\ {FifoRows, MaxQueries, MaxConnects} \subseteq Nat \ {0}

Queries == 1..MaxQueries
Objects == 1..MaxQueries      \* TNotifyChannels: each one made costs a query

VARIABLES
    client,      \* what each user fiber is in: its call, its stream, its channel
    n_queries,   \* calls of Execute so far
    n_connects,  \* calls of Connect so far
    n_events,    \* notifications so far
    stream,      \* the TResultStreams
    active,      \* active_queries; 0 stands for nullptr
    fib_reader,  \* new, wait, loop, write, closing or over
    fib_flusher, \* new, ready, stopped, blocked, closing or over
    held,        \* the result the reader is writing to a full FIFO
    shutdown,    \* fibers that a Disconnect has told to end
    pg,          \* the connection: none, up or broken
    outbuf,      \* commands libpq has not sent yet
    server,      \* commands the server has not answered yet
    wire,        \* results the server has sent
    input,       \* results libpq has consumed
    events,      \* notifications the server has sent
    notifies,    \* notifications libpq has consumed
    chan,        \* the TNotifyChannels
    map,         \* notify_channels: those that can be found by name
    listener,    \* the channel each user fiber listens to, or 0
    pending,     \* pending_events of its listener, their number
    listening,   \* names the server sends events of
    made,        \* history: results the server has made for each query
    taken,       \* history: results each stream has handed out
    undefined    \* history: what went wrong beyond repair, after which nothing is claimed

notifications == <<events, notifies>>
pq == <<pg, outbuf, server, wire, input, notifications>>
channels == <<chan, map, listener, pending, listening>>
fibers == <<fib_reader, fib_flusher, held, shutdown>>
history == <<made, taken, undefined>>
counts == <<n_queries, n_connects, n_events>>
vars == <<client, counts, stream, active, fibers, pq, channels, history>>

Idle == [op |-> "idle", q |-> 0, o |-> 0, stale |-> FALSE, ended |-> FALSE]
Result(q, k, n) == [q |-> q, k |-> k, n |-> n]
None == Result(0, "none", 0)
NoStream == [open |-> FALSE, fifo |-> <<>>, out |-> FALSE, conn |-> FALSE, columns |-> FALSE, cut |-> FALSE]

Init ==
    /\ client = [c \in Clients |-> Idle]
    /\ n_queries = 0 /\ n_connects = 0 /\ n_events = 0
    /\ stream = [q \in Queries |-> NoStream]
    /\ active = <<>> /\ held = None /\ shutdown = {}
    /\ fib_reader = "new" /\ fib_flusher = "new"
    /\ pg = "none" /\ outbuf = <<>> /\ server = <<>> /\ wire = <<>> /\ input = <<>>
    /\ events = <<>> /\ notifies = <<>>
    /\ chan = [o \in Objects |-> [name |-> "", conn |-> FALSE]]
    /\ map = {} /\ listener = [c \in Clients |-> 0] /\ listening = {}
    /\ pending = [c \in Clients |-> 0]
    /\ made = [q \in Queries |-> <<>>] /\ taken = [q \in Queries |-> <<>>]
    /\ undefined = ""

\* The reader's loop does not wait: no other fiber runs in between, and what the
\* server does meanwhile is seen after it.
Free == fib_reader # "loop" /\ undefined = ""
Joined == fib_reader = "new" /\ fib_flusher = "new"
Closing == \/ "closing" \in {fib_reader, fib_flusher}
           \/ \E c \in Clients : client[c].op = "disconnect"
\* A call that changes notify_channels waits for the server.
ChannelBusy == \E c \in Clients : client[c].op \in {"listen", "unlisten"}

-----------------------------------------------------------------------------
(* TPostgresConnection: Connect, Disconnect, Execute *)

\* Start() of a fiber that has ended and was not joined throws.
Connect(c) ==
    /\ Free /\ client[c].op = "idle" /\ pg = "none" /\ n_connects < MaxConnects
    /\ Careful => Joined /\ ~Closing
    /\ n_connects' = n_connects + 1
    /\ pg' = "up" /\ outbuf' = <<>> /\ server' = <<>> /\ wire' = <<>> /\ input' = <<>>
    /\ events' = <<>> /\ notifies' = <<>>
    /\ listening' = {}
    /\ fib_flusher' = IF fib_flusher = "new" THEN "ready" ELSE fib_flusher
    /\ fib_reader' = IF fib_flusher = "new" /\ fib_reader = "new" THEN "wait" ELSE fib_reader
    /\ UNCHANGED <<client, n_queries, n_events, stream, active, held, shutdown, chan, map, listener, pending, history>>

Running == (IF fib_reader \in {"wait", "write"} THEN {"reader"} ELSE {}) \cup
           (IF fib_flusher \in {"ready", "stopped", "blocked"} THEN {"flusher"} ELSE {})
\* For the runs that check the properties: streams, then channels, stay open.
CloseAll_KeepsStreams ==
    /\ chan' = [o \in Objects |-> IF o \in map THEN [chan[o] EXCEPT !.conn = FALSE] ELSE chan[o]]
    /\ stream' = stream /\ active' = <<>> /\ map' = {}
CloseAll_KeepsChannels ==
    /\ chan' = chan
    /\ stream' = [q \in Queries |->
         IF q \in ToSet(active)
         THEN [stream[q] EXCEPT !.out = FALSE, !.conn = FALSE, !.cut = TRUE]
         ELSE stream[q]]
    /\ active' = <<>> /\ map' = {}
\* The first half of Disconnect: everything is closed and forgotten, and the
\* fibers that still run are told to end.
CloseAll ==
    /\ chan' = [o \in Objects |-> IF o \in map THEN [chan[o] EXCEPT !.conn = FALSE] ELSE chan[o]]
    /\ stream' = [q \in Queries |->
         IF q \in ToSet(active)
         THEN [stream[q] EXCEPT !.out = FALSE, !.conn = FALSE, !.cut = TRUE]
         ELSE stream[q]]
    /\ active' = <<>> /\ map' = {}

\* Whoever waits in SubscribeNotifyChannel keeps a reference into the map.
Staled == [c \in Clients |-> IF client[c].op = "listen" THEN [client[c] EXCEPT !.stale = TRUE] ELSE client[c]]

Disconnect(c) ==
    /\ Free /\ client[c].op = "idle" /\ n_connects > 0
    /\ Careful => ~Closing
    /\ CloseAll
    /\ client' = [Staled EXCEPT ![c].op = "disconnect"]
    /\ shutdown' = shutdown \cup Running
    /\ UNCHANGED <<counts, fib_reader, fib_flusher, held, pq, listener, pending, listening, history>>

\* Both fibers are joined; PQfinish().
Finish == /\ pg' = "none" /\ outbuf' = <<>> /\ server' = <<>> /\ wire' = <<>> /\ input' = <<>>
          /\ events' = <<>> /\ notifies' = <<>> /\ listening' = {}

Over == {"new", "over"}
Disconnected(c) ==
    /\ Free /\ client[c].op = "disconnect"
    /\ fib_reader \in Over /\ fib_flusher \in Over
    /\ Finish
    /\ fib_reader' = "new" /\ fib_flusher' = "new"
    /\ client' = [client EXCEPT ![c] = Idle]
    /\ UNCHANGED <<counts, stream, active, held, shutdown, chan, map, listener, pending, history>>

\* PQsendQueryParams and PQpipelineSync, then Resume() of the flusher, which
\* throws if it has ended.  What the call is for is op.
CanSend == pg # "none" /\ fib_flusher \notin Over \cup {"closing"}
Execute(c, op, name) ==
    LET q == n_queries + 1 IN
    /\ n_queries < MaxQueries /\ CanSend
    /\ Careful => ~Closing
    /\ n_queries' = q
    /\ outbuf' = Append(outbuf, [q |-> q, op |-> op, name |-> name, rows |-> 0])
    /\ fib_flusher' = IF fib_flusher = "stopped" THEN "ready" ELSE fib_flusher
    /\ stream' = [stream EXCEPT ![q] = [NoStream EXCEPT !.open = TRUE, !.out = TRUE, !.conn = TRUE]]
    /\ active' = Append(active, q)
    /\ UNCHANGED <<n_connects, n_events, pg, server, wire, input, notifications, fib_reader, held, shutdown>>

Query(c) ==
    /\ Free /\ client[c].op = "idle"
    /\ Execute(c, "query", "")
    /\ client' = [client EXCEPT ![c] = [Idle EXCEPT !.op = "hold", !.q = n_queries + 1]]
    /\ UNCHANGED <<channels, history>>

\* TStatement's constructor and destructor: Execute()->DiscardAllRows().
Prepare(c) ==
    /\ Free /\ client[c].op = "idle"
    /\ Execute(c, "prepare", "")
    /\ client' = [client EXCEPT ![c] = [Idle EXCEPT !.op = "prepare", !.q = n_queries + 1]]
    /\ UNCHANGED <<channels, history>>

-----------------------------------------------------------------------------
(* TResultStream *)

\* CountColumns, Column, Cell and End call MoveFirst while there are no columns.
MoveFirst(c) ==
    /\ Free /\ client[c].op = "hold" /\ ~client[c].ended
    /\ ~stream[client[c].q].columns
    /\ client' = [client EXCEPT ![c].op = "first"]
    /\ UNCHANGED <<counts, stream, active, fibers, pq, channels, history>>

MoveNext(c) ==
    /\ Free /\ client[c].op = "hold" /\ ~client[c].ended
    /\ client' = [client EXCEPT ![c].op = "next"]
    /\ UNCHANGED <<counts, stream, active, fibers, pq, channels, history>>

DiscardAllRows(c) ==
    /\ Free /\ client[c].op = "hold" /\ ~client[c].ended
    /\ client' = [client EXCEPT ![c].op = "discard"]
    /\ UNCHANGED <<counts, stream, active, fibers, pq, channels, history>>

\* ~TResultStream: the place in active_queries is kept and the FIFO emptied.
Destroyed(q) == [stream EXCEPT ![q] = NoStream]
Unrecorded(q) == taken' = [taken EXCEPT ![q] = <<>>] /\ made' = [made EXCEPT ![q] = <<>>]
\* For the runs that check the properties: its place goes too.
Forgotten_Removes(q) == IF stream[q].conn THEN SelectSeq(active, LAMBDA x : x # q) ELSE active
Forgotten(q) == IF stream[q].conn THEN [i \in DOMAIN active |-> IF active[i] = q THEN 0 ELSE active[i]]
                ELSE active
ReaderInside(q) == fib_reader = "write" /\ active # <<>> /\ Head(active) = q

Destroy(c) ==
    LET q == client[c].q IN
    /\ Free /\ client[c].op = "hold"
    /\ Careful => ~ReaderInside(q)
    /\ stream' = Destroyed(q)
    /\ active' = Forgotten(q)
    /\ Unrecorded(q)
    /\ client' = [client EXCEPT ![c] = Idle]
    /\ UNCHANGED <<counts, fibers, pq, channels, undefined>>

\* InternalMoveNext in its loops, up to the next wait: in the FIFO of q, the
\* first result that ends the call is taken with all before it.
Stops(op, r) == r.k = "error" \/ (r.k = "row" /\ op \in {"first", "next"})
Fetched(q, op) ==
    LET ends == {i \in DOMAIN stream[q].fifo : Stops(op, stream[q].fifo[i])} IN
    IF ends = {} THEN 0 ELSE CHOOSE i \in ends : \A j \in ends : i <= j

Take(q, n) == [taken EXCEPT ![q] = @ \o SubSeq(stream[q].fifo, 1, n)]
Rest(q, n) == SubSeq(stream[q].fifo, n + 1, Len(stream[q].fifo))

FetchOps == {"first", "next", "discard", "prepare", "listen", "unlisten"}
Fetching(c, ops) == /\ Free /\ client[c].op \in ops
                    /\ stream[client[c].q].fifo # <<>> \/ ~stream[client[c].q].out

\* A row: MoveFirst has loaded the columns too.  A row that MoveNext takes
\* before there are columns is nowhere.
FetchRow(c) ==
    LET q == client[c].q
        op == client[c].op
        i == Fetched(q, op)
    IN /\ Fetching(c, {"first", "next"}) /\ i > 0 /\ stream[q].fifo[i].k = "row"
       /\ stream' = [stream EXCEPT ![q].fifo = Rest(q, i), ![q].columns = @ \/ op = "first"]
       /\ taken' = Take(q, i)
       /\ client' = [client EXCEPT ![c].op = "hold"]
       /\ UNCHANGED <<counts, active, fibers, pq, channels, made, undefined>>

\* Nothing that ends the call: all is consumed, and the call waits on.
FetchAll(c) ==
    LET q == client[c].q IN
    /\ Fetching(c, FetchOps) /\ Fetched(q, client[c].op) = 0 /\ stream[q].out
    /\ stream' = [stream EXCEPT ![q].fifo = <<>>]
    /\ taken' = Take(q, Len(stream[q].fifo))
    /\ UNCHANGED <<client, counts, active, fibers, pq, channels, made, undefined>>

\* EOF or an error of the user's own stream.
FetchEnd(c) ==
    LET q == client[c].q
        i == Fetched(q, client[c].op)
        n == IF i = 0 THEN Len(stream[q].fifo) ELSE i
    IN /\ Fetching(c, {"first", "next", "discard"})
       /\ IF i = 0 THEN ~stream[q].out ELSE stream[q].fifo[i].k = "error"
       /\ stream' = [stream EXCEPT ![q].fifo = Rest(q, n)]
       /\ taken' = Take(q, n)
       /\ client' = [client EXCEPT ![c].op = "hold", ![c].ended = i = 0]
       /\ UNCHANGED <<counts, active, fibers, pq, channels, made, undefined>>

\* Execute()->DiscardAllRows() is over: the stream is a temporary.
CallOver(c, failed) ==
    LET q == client[c].q
        i == Fetched(q, client[c].op)
    IN /\ Fetching(c, {"prepare", "listen", "unlisten"})
       /\ IF failed THEN i > 0 ELSE i = 0 /\ ~stream[q].out
       /\ stream' = Destroyed(q)
       /\ active' = Forgotten(q)
       /\ Unrecorded(q)

Prepared(c) ==
    /\ client[c].op = "prepare"
    /\ \E failed \in BOOLEAN : CallOver(c, failed)
    /\ client' = [client EXCEPT ![c] = Idle]
    /\ UNCHANGED <<counts, fibers, pq, channels, undefined>>

-----------------------------------------------------------------------------
(* SubscribeNotifyChannel, ~TChannelListener *)

\* A channel that is there is shared; for a new one the server is asked.
SubscribeShared(c, name) ==
    /\ Free /\ client[c].op = "idle" /\ listener[c] = 0 /\ pg = "up"
    /\ Careful => ~ChannelBusy
    /\ \E o \in map : chan[o].name = name /\ listener' = [listener EXCEPT ![c] = o]
    /\ pending' = [pending EXCEPT ![c] = 0]
    /\ UNCHANGED <<client, counts, stream, active, fibers, pq, chan, map, listening, history>>

\* Adding to the map moves what is in it.
Subscribe(c, name) ==
    LET o == n_queries + 1 IN
    /\ Free /\ client[c].op = "idle" /\ listener[c] = 0
    /\ Careful => ~ChannelBusy
    /\ \A p \in map : chan[p].name # name
    /\ Execute(c, "listen", name)
    /\ chan' = [chan EXCEPT ![o] = [name |-> name, conn |-> TRUE]]
    /\ map' = map \cup {o}
    /\ client' = [Staled EXCEPT ![c] = [Idle EXCEPT !.op = "listen", !.q = o, !.o = o]]
    /\ UNCHANGED <<listener, pending, listening, history>>

\* The listener is made of the reference taken before the wait.
Subscribed(c) ==
    /\ client[c].op = "listen" /\ CallOver(c, FALSE)
    /\ undefined' = IF client[c].stale THEN "moved channel" ELSE ""
    /\ listener' = IF client[c].stale THEN listener ELSE [listener EXCEPT ![c] = client[c].o]
    /\ pending' = [pending EXCEPT ![c] = 0]
    /\ client' = [client EXCEPT ![c] = Idle]
    /\ UNCHANGED <<counts, fibers, pq, chan, map, listening>>

Named(name) == {o \in map : chan[o].name = name}
SubscribeFailed(c) ==
    /\ client[c].op = "listen" /\ CallOver(c, TRUE)
    /\ map' = map \ Named(chan[client[c].o].name)
    /\ client' = [Staled EXCEPT ![c] = Idle]
    /\ UNCHANGED <<counts, fibers, pq, chan, listener, pending, listening, undefined>>

\* The last listener of a channel takes it off the server; Name() throws out
\* of the destructor if the channel is not in the map.
LastListener(c) == \A d \in Clients \ {c} : listener[d] # listener[c]
Unsubscribe(c) ==
    /\ Free /\ client[c].op = "idle" /\ listener[c] # 0
    /\ Careful => ~ChannelBusy
    /\ listener' = [listener EXCEPT ![c] = 0]
    /\ IF LastListener(c) /\ chan[listener[c]].conn /\ listener[c] \in map
       THEN /\ Execute(c, "unlisten", chan[listener[c]].name)
            /\ client' = [client EXCEPT ![c] = [Idle EXCEPT !.op = "unlisten", !.q = n_queries + 1,
                                                            !.o = listener[c]]]
            /\ UNCHANGED undefined
       ELSE /\ undefined' = IF LastListener(c) /\ chan[listener[c]].conn THEN "throwing destructor" ELSE ""
            /\ UNCHANGED <<client, counts, stream, active, fibers, pq>>
    /\ UNCHANGED <<chan, map, pending, listening, made, taken>>

ShutdownNotifyChannel(c) ==
    /\ client[c].op = "unlisten"
    /\ CallOver(c, FALSE)
    /\ map' = map \ Named(chan[client[c].o].name)
    /\ client' = [Staled EXCEPT ![c] = Idle]
    /\ UNCHANGED <<counts, fibers, pq, chan, listener, pending, listening, undefined>>

\* TChannelListener::Read
Read(c) ==
    /\ Free /\ client[c].op = "idle" /\ listener[c] # 0 /\ pending[c] > 0
    /\ pending' = [pending EXCEPT ![c] = @ - 1]
    /\ UNCHANGED <<client, counts, stream, active, fibers, pq, chan, map, listener, listening, history>>

-----------------------------------------------------------------------------
(* FlusherMain, ReaderMain *)

\* PQflush() sends all that is in the buffer or a part of it.
FlusherMain ==
    /\ Free /\ fib_flusher \in {"ready", "blocked"} /\ "flusher" \notin shutdown /\ pg = "up"
    /\ \E n \in 0..Len(outbuf) :
         /\ n > 0 \/ outbuf = <<>>
         /\ server' = server \o SubSeq(outbuf, 1, n)
         /\ outbuf' = SubSeq(outbuf, n + 1, Len(outbuf))
         /\ fib_flusher' = IF n = Len(outbuf) THEN "stopped" ELSE "blocked"
    /\ UNCHANGED <<client, counts, stream, active, fib_reader, held, shutdown, pg, wire, input,
                   notifications, channels, history>>

\* A fiber that fails disconnects before it ends.
FlusherFails ==
    /\ Free /\ fib_flusher \in {"ready", "blocked"} /\ "flusher" \notin shutdown /\ pg = "broken"
    /\ CloseAll
    /\ client' = Staled
    /\ fib_flusher' = "closing" /\ shutdown' = Running \cap {"reader"}
    /\ UNCHANGED <<counts, fib_reader, held, pq, listener, pending, listening, history>>

ReaderFails ==
    /\ Free /\ fib_reader = "wait" /\ "reader" \notin shutdown /\ pg = "broken"
    /\ CloseAll
    /\ client' = Staled
    /\ fib_reader' = "closing" /\ shutdown' = Running \cap {"flusher"}
    /\ UNCHANGED <<counts, fib_flusher, held, pq, listener, pending, listening, history>>

\* shutdown_t ends a fiber where it waits.
FiberEnds ==
    /\ Free
    /\ \/ /\ "reader" \in shutdown /\ fib_reader \in {"wait", "write"}
          /\ fib_reader' = "over" /\ held' = None /\ shutdown' = shutdown \ {"reader"}
          /\ UNCHANGED fib_flusher
       \/ /\ "flusher" \in shutdown /\ fib_flusher \in {"ready", "blocked", "stopped"}
          /\ fib_flusher' = "over" /\ shutdown' = shutdown \ {"flusher"}
          /\ UNCHANGED <<fib_reader, held>>
    /\ UNCHANGED <<client, counts, stream, active, pq, channels, history>>

\* The one that failed joins the other.
FiberDisconnected ==
    /\ Free
    /\ \/ fib_reader = "closing" /\ fib_flusher \in Over
          /\ fib_reader' = "over" /\ fib_flusher' = "new"
       \/ fib_flusher = "closing" /\ fib_reader \in Over
          /\ fib_flusher' = "over" /\ fib_reader' = "new"
    /\ Finish
    /\ UNCHANGED <<client, counts, stream, active, held, shutdown, chan, map, listener, pending, history>>

\* on_rx_ready, then PQconsumeInput().
ReaderWakes ==
    /\ Free /\ fib_reader = "wait" /\ "reader" \notin shutdown
    /\ wire # <<>> \/ events # <<>>
    /\ input' = input \o wire /\ wire' = <<>>
    /\ notifies' = notifies \o events /\ events' = <<>>
    /\ fib_reader' = "loop"
    /\ UNCHANGED <<client, counts, stream, active, fib_flusher, held, shutdown, pg, outbuf, server,
                   channels, history>>

InLoop == fib_reader = "loop" /\ undefined = "" /\ active # <<>> /\ input # <<>>

\* PQgetResult() and what is done with the result.  The head of active_queries
\* is the stream of it.
ReaderTakes ==
    LET r == Head(input)
        rs == Head(active)
    IN /\ InLoop
       /\ input' = Tail(input)
       /\ CASE r.k = "end" ->
                 /\ active' = Tail(active)
                 /\ stream' = IF rs = 0 THEN stream
                              ELSE [stream EXCEPT ![rs].out = FALSE, ![rs].conn = FALSE]
                 /\ UNCHANGED <<fib_reader, held>>
            [] r.k = "sync" \/ (r.k # "end" /\ rs = 0) ->
                 UNCHANGED <<active, stream, fib_reader, held>>
            [] OTHER ->
                 IF Len(stream[rs].fifo) < FifoRows
                 THEN /\ stream' = [stream EXCEPT ![rs].fifo = Append(@, r)]
                      /\ UNCHANGED <<active, fib_reader, held>>
                 ELSE /\ fib_reader' = "write" /\ held' = r
                      /\ UNCHANGED <<active, stream>>
       /\ UNCHANGED <<client, counts, fib_flusher, shutdown, pg, outbuf, server, wire, notifications, channels,
                      history>>

\* WriteAll() goes on in the FIFO that was full, which may be gone.
ReaderWrites ==
    LET rs == Head(active) IN
    /\ Free /\ fib_reader = "write" /\ "reader" \notin shutdown
    /\ \/ /\ rs # 0 /\ Len(stream[rs].fifo) < FifoRows
          /\ stream' = [stream EXCEPT ![rs].fifo = Append(@, held)]
          /\ fib_reader' = "loop" /\ held' = None
          /\ UNCHANGED undefined
       \/ /\ rs = 0 /\ undefined' = "freed stream"
          /\ UNCHANGED <<stream, fib_reader, held>>
    /\ UNCHANGED <<client, counts, active, fib_flusher, shutdown, pq, channels, made, taken>>

\* Nothing more for a stream: the notifications, then back to the wait.
ReaderWaits ==
    /\ fib_reader = "loop" /\ ~InLoop /\ undefined = ""
    /\ pending' = [c \in Clients |-> pending[c] +
         IF listener[c] # 0 /\ listener[c] \in map
         THEN Cardinality({i \in DOMAIN notifies : notifies[i] = chan[listener[c]].name})
         ELSE 0]
    /\ notifies' = <<>>
    /\ fib_reader' = "wait"
    /\ UNCHANGED <<client, counts, stream, active, fib_flusher, held, shutdown, pg, outbuf, server, wire,
                   input, events, chan, map, listener, listening, history>>

-----------------------------------------------------------------------------
(* The server and the network *)

Answer(results) == /\ wire' = wire \o results
                   /\ UNCHANGED <<client, counts, stream, active, fibers, pg, outbuf, input, notifications,
                                  chan, map, listener, pending, taken, undefined>>
Makes(r) == made' = IF stream[r.q].open THEN [made EXCEPT ![r.q] = Append(@, r)] ELSE made

ServerRow ==
    /\ Free /\ pg = "up" /\ server # <<>>
    /\ LET x == Head(server)
           r == Result(x.q, "row", x.rows + 1)
       IN /\ x.op = "query" /\ x.rows < MaxRows
          /\ Makes(r) /\ Answer(<<r>>)
          /\ server' = [server EXCEPT ![1].rows = @ + 1]
    /\ UNCHANGED listening

\* What ends a query, with the sync that follows it.
ServerEnd ==
    /\ Free /\ pg = "up" /\ server # <<>>
    /\ LET x == Head(server) IN
         \E k \in {"done"} \cup (IF x.op = "unlisten" THEN {} ELSE {"error"}) :
            /\ Makes(Result(x.q, k, 0))
            /\ Answer(<<Result(x.q, k, 0), Result(x.q, "end", 0), Result(0, "sync", 0)>>)
            /\ listening' = CASE x.op = "listen" /\ k = "done" -> listening \cup {x.name}
                              [] x.op = "unlisten" -> listening \ {x.name}
                              [] OTHER -> listening
    /\ server' = Tail(server)

Notify(name) ==
    /\ Free /\ pg = "up" /\ name \in listening /\ n_events < MaxEvents
    /\ n_events' = n_events + 1
    /\ events' = Append(events, name)
    /\ UNCHANGED <<client, n_queries, n_connects, stream, active, fibers, pg, outbuf, server, wire, input,
                   notifies, channels, history>>

\* The connection is lost; what was under way is lost with it.
Break ==
    /\ Free /\ pg = "up"
    /\ pg' = "broken" /\ server' = <<>> /\ wire' = <<>> /\ events' = <<>>
    /\ UNCHANGED <<client, counts, stream, active, fibers, outbuf, input, notifies, channels, history>>

-----------------------------------------------------------------------------

Reader == ReaderWakes \/ ReaderTakes \/ ReaderWrites \/ ReaderWaits
Failure == FlusherFails \/ ReaderFails \/ FiberEnds \/ FiberDisconnected
Server == ServerRow \/ ServerEnd

\* What a user does with a stream it has, and a call it is in.
Uses(c) == MoveNext(c) \/ Destroy(c)
Continues(c) ==
    \/ FetchRow(c) \/ FetchAll(c) \/ FetchEnd(c) \/ Prepared(c) \/ Subscribed(c)
    \/ SubscribeFailed(c) \/ ShutdownNotifyChannel(c) \/ Disconnected(c)

Next ==
    \/ \E c \in Clients :
         \/ Connect(c) \/ Disconnect(c) \/ Query(c) \/ Prepare(c)
         \/ MoveFirst(c) \/ DiscardAllRows(c) \/ Uses(c) \/ Continues(c)
         \/ \E name \in Channels : SubscribeShared(c, name) \/ Subscribe(c, name)
         \/ Unsubscribe(c) \/ Read(c)
    \/ FlusherMain \/ Reader \/ Failure \/ Server \/ Break
    \/ \E name \in Channels : Notify(name)

Spec == Init /\ [][Next]_vars

\* The scheduler runs the fibers of the connection and those of the users
\* (FiberScheduler has that), the server answers, and who has a stream reads on
\* or destroys it.
FairSpec ==
    /\ Spec
    /\ WF_vars(FlusherMain \/ Reader \/ Failure) /\ WF_vars(ServerEnd)
    /\ \A c \in Clients : WF_vars(Continues(c) \/ Uses(c))

-----------------------------------------------------------------------------
(* Properties *)

\* Every result a stream hands out, holds or is still to get is one of its own
\* query, in order and without a gap, unless the connection was closed under it:
\* the place in active_queries stays right whatever the other streams do.
Concerns(q, r) == r.q = q /\ r.k \in {"row", "error", "done"}
OfQuery(q, s) ==
    LET upto[i \in 0..Len(s)] ==
            IF i = 0 THEN <<>> ELSE IF Concerns(q, s[i]) THEN Append(upto[i - 1], s[i]) ELSE upto[i - 1]
    IN upto[Len(s)]
StreamItems(q) ==
    taken[q] \o stream[q].fifo \o (IF held.q = q THEN <<held>> ELSE <<>>)
             \o OfQuery(q, input) \o OfQuery(q, wire)
StreamsGetTheirOwn ==
    undefined = "" => \A q \in Queries :
        IF stream[q].open /\ ~stream[q].cut /\ pg = "up" THEN StreamItems(q) = made[q]
        ELSE \A i \in DOMAIN taken[q] : taken[q][i] = made[q][i]

\* A listener of a connection that is up can be found by the reader: events go
\* to it as long as it exists.
ListenersAreFound ==
    undefined = "" => \A c \in Clients :
        listener[c] # 0 /\ chan[listener[c]].conn => listener[c] \in map

\* What comes from the server finds its way: results to the stream of their
\* query, events to the listeners of their channel.
AnswersFindTheirWay == StreamsGetTheirOwn /\ ListenersAreFound

\* Every call that waits for results returns or throws, also when another fiber
\* disconnects or the connection is lost.  (Clients are interchangeable: to watch
\* one of them is enough.)
Waits == FetchOps \cup {"disconnect"}
WaitsEnd ==
    \A c \in Watched :
        client[c].op \in Waits ~> client[c].op \notin Waits \/ undefined # ""
=============================================================================
