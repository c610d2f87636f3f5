-------------------------------- MODULE Http --------------------------------
(***************************************************************************)
(* io_net_http over TCP: THttpClient::Request on one side, the accept loop *)
(* THttpServer::FiberMain with one fiber of HandleSingleRequest calls per  *)
(* connection on the other, and io_net_ip's TTcpClient between them.       *)
(*                                                                         *)
(* A request is the tokens of its request line, of its header fields and   *)
(* of its body; a response is its header and the pieces of its body.  The  *)
(* text of lines, names and values is left out but for what decides how a  *)
(* body is delimited and whether the connection is kept.  What clients     *)
(* write is never held up; responses wait for room in the socket.          *)
(***************************************************************************)
EXTENDS Integers, Sequences, FiniteSets, SequencesExt

CONSTANTS Clients,
          Requests,    \* the requests clients make
          Responses,   \* what the handler of the user answers
          Tls,         \* whether the server is one of TLS, which negotiates first
          Room,        \* tokens a socket takes before it would block
          MaxCalls,    \* bound: calls of all clients
          MaxConns     \* bound: connections of all clients

ASSUME HttpAssumption ==
    /\ Tls \in BOOLEAN /\ {Room, MaxCalls, MaxConns} \subseteq Nat \ {0}
    /\ Requests \subseteq
         [method : {"GET", "HEAD", "TRACE"}, version : {10, 11}, token : {"none", "close", "keep-alive"},
          body : {"none", "length", "chunked", "both"}]
    /\ Responses \subseteq
         [status : {"OK", "NO_CONTENT"}, body : {"none", "list", "file", "stream"},
          n : Nat, fails : BOOLEAN]
\* No body has no length, and only a source of which the length is not known fails.
ASSUME ResponsesAssumption ==
    \A r \in Responses :
        /\ r.body = "none" => r.n = 0
        /\ r.fails => r.body = "stream"

Calls == 1..MaxCalls
Conns == 1..MaxConns

VARIABLES
    asked,     \* requests made so far; a call is its place
    call,      \* the call each client is in, or 0
    link,      \* its connection, or 0
    read,      \* the response it has read so far
    conn,      \* the connections: both sockets and the fiber of the server
    n_conns,   \* connections opened so far
    server,    \* THttpServer::FiberMain: accept, wait or dead
    cleanup,   \* FiberMain's cleanup_handlers
    reply,     \* history: what the handler answered to each call
    answer,    \* history: what each call returned
    stray      \* history: a handler has read what is not the body of its request

vars == <<asked, call, link, read, conn, n_conns, server, cleanup, reply, answer, stray>>
client == <<asked, call, link, read, answer, n_conns>>
history == <<reply, stray>>

Nothing == [status |-> "none", n |-> 0]
Failure == [status |-> "exception", n |-> 0]
Refused == [status |-> "refused", n |-> 0]

-----------------------------------------------------------------------------
(* What is sent *)

Token(t, i) == [t |-> t, id |-> i]

\* Request line, header and body of call i: one byte, or one chunk of one.
RequestTokens(i, r) ==
    <<Token("line", i), Token("fields", i)>> \o
    CASE r.body = "none"    -> <<>>
      [] r.body = "chunked" -> <<Token("size", i), Token("data", i),
                                 Token("crlf", i), Token("last", i)>>
      [] OTHER              -> <<Token("data", i)>>

\* The body a decoder finds behind the header.
NoBody == [encoding |-> "NONE", state |-> "DONE", remaining |-> 0]
Body(r) ==
    CASE r.body = "length"  -> [encoding |-> "CONTENT_LENGTH", state |-> "DONE", remaining |-> 1]
      [] r.body = "chunked" -> [encoding |-> "CHUNKED", state |-> "SIZE", remaining |-> 0]
      [] OTHER              -> NoBody

Complete(b) ==
    CASE b.encoding = "NONE"           -> TRUE
      [] b.encoding = "CONTENT_LENGTH" -> b.remaining = 0
      [] b.encoding = "CHUNKED"        -> b.state = "DONE"

KeepAlive(r) == IF r.version = 11 THEN r.token # "close" ELSE r.token = "keep-alive"

\* The header of a response of length n: n is known for files and for lists,
\* whose handler sets it.
Header(i, status, version, body, n, close) ==
    LET known == body \in {"list", "file"} IN
    [t |-> "header", id |-> i, status |-> status, version |-> version,
     length |-> IF body = "none" THEN 0 ELSE IF known THEN n ELSE -1,
     chunked |-> body = "stream" /\ version = 11,
     close |-> close \/ (body = "stream" /\ version = 10)]

-----------------------------------------------------------------------------
(* The sockets *)

NoResponse == [status |-> "OK", body |-> "none", n |-> 0, fails |-> FALSE]
Fresh == [up |-> <<>>, down |-> <<>>, client_open |-> FALSE, server_open |-> FALSE,
          pc |-> "none", id |-> 0, kept |-> FALSE, body |-> NoBody, response |-> NoResponse, owed |-> 0]

Init == /\ asked = <<>> /\ n_conns = 0
        /\ call = [c \in Clients |-> 0]
        /\ link = [c \in Clients |-> 0]
        /\ read = [c \in Clients |-> <<>>]
        /\ conn = [k \in Conns |-> Fresh]
        /\ server = "accept" /\ cleanup = FALSE
        /\ reply = [i \in Calls |-> Nothing]
        /\ answer = [i \in Calls |-> Nothing]
        /\ stray = FALSE

\* Both directions end: the peer reads what is under way, then EOF.
ClientCloses(k) == [conn EXCEPT ![k].client_open = FALSE, ![k].down = <<>>]

\* The server closes a socket.  The kernel resets a connection whose input was
\* not read, and the client may lose what it has not read yet.
ServerCloses(k, s) ==
    LET shut == [Fresh EXCEPT !.client_open = s.client_open, !.down = s.down, !.pc = "line"] IN
    {[conn EXCEPT ![k] = shut]} \cup
    (IF s.up # <<>> THEN {[conn EXCEPT ![k] = [shut EXCEPT !.down = <<>>]]} ELSE {})

-----------------------------------------------------------------------------
(* THttpClient::Request *)

\* Connect unless there is a connection, and write the request.
Request(c) ==
    /\ call[c] = 0 /\ Len(asked) < MaxCalls
    /\ link[c] = 0 => n_conns < MaxConns
    /\ \E r \in Requests :
         LET i == Len(asked) + 1
             k == IF link[c] = 0 THEN n_conns + 1 ELSE link[c]
             s == IF link[c] = 0 THEN [Fresh EXCEPT !.client_open = TRUE, !.server_open = TRUE,
                                                    !.pc = "backlog"]
                                 ELSE conn[k]
         IN /\ asked' = Append(asked, r)
            /\ link' = [link EXCEPT ![c] = k]
            /\ n_conns' = IF link[c] = 0 THEN k ELSE n_conns
            /\ conn' = [conn EXCEPT ![k] =
                 IF s.server_open THEN [s EXCEPT !.up = @ \o RequestTokens(i, r)] ELSE s]
            /\ call' = [call EXCEPT ![c] = i]
            /\ read' = [read EXCEPT ![c] = <<>>]
    /\ UNCHANGED <<server, cleanup, answer, history>>

\* The call ends: it returns a, and keeps the connection if it may be used again.
Return(c, a, reusable) ==
    /\ answer' = [answer EXCEPT ![call[c]] = a]
    /\ call' = [call EXCEPT ![c] = 0]
    /\ read' = [read EXCEPT ![c] = <<>>]
    /\ link' = [link EXCEPT ![c] = IF reusable THEN @ ELSE 0]

Arrived(c) == conn[link[c]].down
Eof(c) == Arrived(c) = <<>> /\ ~conn[link[c]].server_open

Bodyless(i, h) == asked[i].method = "HEAD" \/ h.status = "NO_CONTENT"
Reusable(h) == ~h.close /\ h.version = 11

\* The response is complete: its header and the pieces of its body in r.
Whole(i, r) ==
    LET h == r[1] IN
    \/ Bodyless(i, h)
    \/ h.chunked /\ r[Len(r)].t = "last"
    \/ ~h.chunked /\ h.length >= 0 /\ Len(r) = 1 + h.length

UntilEof(i, h) == ~Bodyless(i, h) /\ ~h.chunked /\ h.length < 0

\* What a whole response says; a body made of other pieces than data is noise.
Outcome(r) ==
    [status |-> IF r[1].id = 0 THEN "refused" ELSE r[1].status,
     n |-> Cardinality({j \in 2..Len(r) : r[j].t = "data"})]

\* One token of the response arrives and is taken.
ReadResponse(c) ==
    /\ call[c] # 0 /\ Arrived(c) # <<>>
    /\ LET k == link[c]
           token == Head(conn[k].down)
           r == Append(read[c], token)
           taken == [conn EXCEPT ![k].down = Tail(@)]
           shut == [taken EXCEPT ![k].down = <<>>, ![k].client_open = FALSE]
           sense == IF Len(r) = 1 THEN token.t = "header"
                    ELSE r[1].chunked => token.t \in {"data", "last"}
       IN CASE ~sense ->                                 \* not a status line, not a chunk
                 conn' = shut /\ Return(c, Failure, FALSE)
            [] sense /\ Whole(call[c], r) ->
                 /\ conn' = IF Reusable(r[1]) THEN taken ELSE shut
                 /\ Return(c, Outcome(r), Reusable(r[1]))
            [] OTHER ->
                 /\ conn' = taken
                 /\ read' = [read EXCEPT ![c] = r]
                 /\ UNCHANGED <<call, link, answer>>
    /\ UNCHANGED <<asked, n_conns, server, cleanup, history>>

\* The server has closed: the end of a body that is delimited so, or TStreamDryException.
ReadEof(c) ==
    /\ call[c] # 0 /\ Eof(c)
    /\ conn' = ClientCloses(link[c])
    /\ Return(c, IF read[c] # <<>> /\ UntilEof(call[c], read[c][1])
                 THEN Outcome(read[c]) ELSE Failure, FALSE)
    /\ UNCHANGED <<asked, n_conns, server, cleanup, history>>

\* For the runs that check the properties: the response is abandoned, the
\* connection is not.
BreakOff_KeepsLink(c) ==
    /\ call[c] # 0
    /\ Return(c, Failure, TRUE)
    /\ UNCHANGED <<asked, conn, n_conns, server, cleanup, history>>
\* The user's sink throws, the body exceeds body_limit, or the client is cut
\* off, in the middle of its request too.
BreakOff(c) ==
    /\ call[c] # 0
    /\ \E m \in 0..Len(conn[link[c]].up) :
         conn' = [ClientCloses(link[c]) EXCEPT ![link[c]].up = SubSeq(@, 1, m)]
    /\ Return(c, Failure, FALSE)
    /\ UNCHANGED <<asked, n_conns, server, cleanup, history>>

-----------------------------------------------------------------------------
(* THttpServer::FiberMain *)

Backlog == {k \in Conns : conn[k].pc = "backlog"}
Over(k) == conn[k].pc \in {"ended", "threw"}
\* The fiber is joined; its function, which owns the socket, goes with it.
Joined(k) == [Fresh EXCEPT !.pc = "joined", !.client_open = conn[k].client_open,
                           !.down = conn[k].down]

Accept(k) ==
    /\ server = "accept" /\ k \in Backlog
    /\ conn' = [conn EXCEPT ![k].pc = IF Tls THEN "negotiate" ELSE "line"]
    /\ UNCHANGED <<client, server, cleanup, history>>

\* Nobody is waiting: join what has ended, last one first, and wait.  The
\* exception of a handler fiber ends the server, which takes the others along.
Sweep ==
    /\ server = "accept" /\ Backlog = {}
    /\ IF \E k \in Conns : conn[k].pc = "threw"
       THEN /\ server' = "dead"
            /\ conn' = [k \in Conns |-> IF conn[k].pc \in {"none", "joined"} THEN conn[k] ELSE
                           Joined(k)]
       ELSE /\ server' = "wait"
            /\ conn' = [k \in Conns |-> IF Over(k) THEN
                 Joined(k) ELSE conn[k]]
    /\ cleanup' = FALSE
    /\ UNCHANGED <<client, history>>

Wake ==
    /\ server = "wait" /\ (Backlog # {} \/ cleanup)
    /\ server' = "accept"
    /\ UNCHANGED <<client, conn, cleanup, history>>

\* TClient::Negotiate throws, in a fiber that nothing in it catches.
Negotiate(k) ==
    /\ conn[k].pc = "negotiate"
    /\ \/ conn' = [conn EXCEPT ![k].pc = "line"]
       \/ conn' = [conn EXCEPT ![k].pc = "threw"]
    /\ UNCHANGED <<client, server, cleanup, history>>

-----------------------------------------------------------------------------
(* THttpServer::HandleSingleRequest, once and again *)

UpEof(k) == conn[k].up = <<>> /\ (~conn[k].client_open \/ ~conn[k].server_open)
Take(k) == [conn[k] EXCEPT !.up = Tail(@)]

\* The exception of HandleSingleRequest before the response was begun: it is
\* answered on a socket the client may have left, and the connection closed.
Refuse(k, s) ==
    conn' \in ServerCloses(k,
        IF s.server_open /\ s.client_open
        THEN [s EXCEPT !.down = Append(@, Header(0, "ERROR", 11, "none", 0, TRUE))]
        ELSE s)

\* THttpRequestDecoder::Read: the request line, then the header.
DecodeLine(k) ==
    /\ conn[k].pc = "line" /\ conn[k].up # <<>>
    /\ IF Head(conn[k].up).t = "line"
       THEN conn' = [conn EXCEPT ![k] =
              [Take(k) EXCEPT !.pc = "fields", !.id = Head(conn[k].up).id]]
       ELSE Refuse(k, Take(k))
    /\ UNCHANGED <<client, server, cleanup, history>>

DecodeFields(k) ==
    /\ conn[k].pc = "fields" /\ conn[k].up # <<>>
    /\ LET r == asked[conn[k].id] IN
       IF r.body = "both" \/ r.method = "TRACE"
       THEN Refuse(k, Take(k))
       ELSE conn' = [conn EXCEPT ![k] = [Take(k) EXCEPT !.pc = "handler", !.body = Body(r)]]
    /\ UNCHANGED <<client, server, cleanup, history>>

\* For the runs that check the properties: the accept loop is not told.
DecodeEof_Silent(k) ==
    /\ conn[k].pc \in {"line", "fields"} /\ UpEof(k)
    /\ IF conn[k].pc = "line"
       THEN conn' = [conn EXCEPT ![k].pc = "ended"]
       ELSE Refuse(k, conn[k])
    /\ UNCHANGED <<client, server, cleanup, history>>
\* EOF between two requests ends the fiber, EOF within a header is an error.
DecodeEof(k) ==
    /\ conn[k].pc \in {"line", "fields"} /\ UpEof(k)
    /\ IF conn[k].pc = "line"
       THEN /\ conn' = [conn EXCEPT ![k].pc = "ended"]
            /\ cleanup' = TRUE
       ELSE Refuse(k, conn[k]) /\ UNCHANGED cleanup
    /\ UNCHANGED <<client, server, history>>

\* THttpRequestBody::Read: a byte, or the framing in front of it.
BodyAfter(b, token) ==
    CASE b.encoding = "CONTENT_LENGTH"             -> [b EXCEPT !.remaining = @ - 1]
      [] b.state = "SIZE" /\ token.t = "size"      -> [b EXCEPT !.state = "DATA"]
      [] b.state = "SIZE" /\ token.t = "last"      -> [b EXCEPT !.state = "DONE"]
      [] b.state = "DATA"                          -> [b EXCEPT !.state = "CRLF"]
      [] OTHER                                     -> [b EXCEPT !.state = "SIZE"]

ReadBody(k) ==
    /\ conn[k].pc = "handler" /\ ~Complete(conn[k].body)
    /\ IF UpEof(k)
       THEN Refuse(k, conn[k]) /\ UNCHANGED stray
       ELSE /\ conn[k].up # <<>>
            /\ LET token == Head(conn[k].up) IN
               /\ conn' = [conn EXCEPT ![k] = [Take(k) EXCEPT !.body = BodyAfter(@, token)]]
               /\ stray' = \/ stray
                            \/ /\ conn[k].body.state \notin {"SIZE", "CRLF"}
                               /\ token # Token("data", conn[k].id)
    /\ UNCHANGED <<client, server, cleanup, reply>>

\* The handler throws, whatever it has read.
HandlerThrows(k) ==
    /\ conn[k].pc = "handler"
    /\ Refuse(k, conn[k])
    /\ UNCHANGED <<client, server, cleanup, history>>

\* For the runs that check the properties: whatever the handler has left unread.
Kept_Unread(s) == KeepAlive(asked[s.id])
Kept(s) == KeepAlive(asked[s.id]) /\ Complete(s.body)

\* The handler returns, whatever it has read, and the header is written.
HandlerReturns(k) ==
    /\ conn[k].pc = "handler" /\ Len(conn[k].down) < Room
    /\ \E response \in Responses :
         LET s == conn[k]
             version == asked[s.id].version
             h == Header(s.id, response.status, version, response.body, response.n, ~Kept(s))
         IN /\ reply' = [reply EXCEPT ![s.id] =
                 [status |-> response.status,
                  n |-> IF asked[s.id].method = "HEAD" \/ response.status = "NO_CONTENT" THEN 0
                        ELSE response.n + (IF response.fails THEN 1 ELSE 0)]]
            /\ conn' = [conn EXCEPT ![k] = [s EXCEPT
                 !.response = response, !.body = NoBody, !.pc = "body",
                 !.kept = Kept(s) /\ ~(response.body = "stream" /\ version = 10),
                 !.owed = IF response.body = "none" \/ asked[s.id].method = "HEAD" THEN 0
                          ELSE response.n,
                 !.down = IF s.client_open THEN Append(@, h) ELSE @]]
    /\ UNCHANGED <<client, server, cleanup, stray>>

\* For the runs that check the properties: "Connection: close", and it stays open.
Finish_StaysOpen(k, s) ==
    conn' = [conn EXCEPT ![k] = [s EXCEPT !.pc = "line", !.id = 0, !.kept = FALSE,
                                          !.response = NoResponse]]
\* The rest of HandleSingleRequest: the connection is kept for the next
\* request, or closed, which the next call of it takes for EOF.
Finish(k, s) ==
    IF s.kept
    THEN conn' = [conn EXCEPT ![k] = [s EXCEPT !.pc = "line", !.id = 0, !.kept = FALSE,
                                               !.response = NoResponse]]
    ELSE conn' \in ServerCloses(k, s)

Suppressed(s) == asked[s.id].method = "HEAD"
Exhausted(s) == s.owed = 0

\* SendResponse writes the next piece of the body and its last chunk.  A write
\* to a client that is gone throws, and so may the source of the body; the
\* header is out by then, and nothing is left to do but to close.
SendBody(k) ==
    /\ conn[k].pc = "body" /\ conn[k].response.body # "file"
    /\ LET s == conn[k]
           put(t) == IF s.client_open THEN Append(s.down, Token(t, s.id)) ELSE s.down
           chunked == s.response.body = "stream" /\ asked[s.id].version = 11
       IN CASE s.response.body = "none" \/ Suppressed(s) -> Finish(k, s)
            [] OTHER ->
                 \/ /\ ~Exhausted(s) /\ Len(s.down) < Room
                    /\ conn' = [conn EXCEPT ![k] = [s EXCEPT !.down = put("data"), !.owed = @ - 1]]
                 \/ /\ Exhausted(s) /\ ~s.response.fails /\ Len(s.down) < Room
                    /\ Finish(k, IF chunked THEN [s EXCEPT !.down = put("last")] ELSE s)
                 \/ /\ (Exhausted(s) /\ s.response.fails) \/ ~s.client_open
                    /\ conn' \in ServerCloses(k, s)
    /\ UNCHANGED <<client, server, cleanup, history>>

\* Pump from a file to a socket: sendfile() until all is sent; when it would
\* block, both waitables are asked for, and a TFile has none: the loop ends.
SendFile(k) ==
    /\ conn[k].pc = "body" /\ conn[k].response.body = "file"
    /\ LET s == conn[k]
           data == [s EXCEPT !.down = Append(@, Token("data", s.id)), !.owed = @ - 1]
           done == Suppressed(s) \/ Exhausted(s)
       IN CASE done                           -> Finish(k, s)
            [] ~done /\ ~s.client_open        -> conn' \in ServerCloses(k, s)
            [] ~done /\ s.client_open /\ Len(s.down) < Room ->
                                                 conn' = [conn EXCEPT ![k] = data]
            [] OTHER                          -> Finish(k, s)
    /\ UNCHANGED <<client, server, cleanup, history>>

-----------------------------------------------------------------------------
Fiber(k) == \/ Negotiate(k) \/ DecodeLine(k) \/ DecodeFields(k) \/ DecodeEof(k)
            \/ ReadBody(k) \/ HandlerThrows(k) \/ HandlerReturns(k)
            \/ SendBody(k) \/ SendFile(k)
Serve == Sweep \/ Wake \/ \E k \in Conns : Accept(k)
Client(c) == ReadResponse(c) \/ ReadEof(c)

Next == \/ \E c \in Clients : Request(c) \/ Client(c) \/ BreakOff(c)
        \/ Serve
        \/ \E k \in Conns : Fiber(k)

Spec == Init /\ [][Next]_vars
\* Fibers and clients run on; a handler ends, for the body it reads does.
FairSpec == /\ Spec /\ WF_vars(Serve)
            /\ \A c \in Clients : WF_vars(Client(c))
            /\ \A k \in Conns : WF_vars(Fiber(k))

-----------------------------------------------------------------------------
(* Properties *)

\* Every request is read from where the last one ended, the handler reads the
\* body of its own request only, and a connection that is kept for another
\* request has been sent what the header announced (HandleSingleRequest).
RequestBoundaries ==
    /\ \A k \in Conns : conn[k].pc = "line" /\ conn[k].up # <<>> => Head(conn[k].up).t = "line"
    /\ ~stray
AnnouncedLengthSent ==
    \A k \in Conns : conn[k].pc = "line" /\ conn[k].server_open => conn[k].owed = 0
\* The accept loop does not wait while the fiber of a connection that has ended
\* is still to be joined: no setting of cleanup_handlers is lost between its last
\* look at the fibers and its wait (FiberMain).
HandlersJoined == server = "wait" /\ (\E k \in Conns : conn[k].pc = "ended") => cleanup
BoundariesKept == RequestBoundaries /\ AnnouncedLengthSent /\ HandlersJoined

\* THttpClient::Request and HandleSingleRequest together call the handler at
\* most once per call and return its answer, whole, to this very call; only the
\* end of a body that ends with the connection cannot be told from its loss.
RR == INSTANCE RequestReply WITH
        made <- 1..Len(asked),
        marked <- {i \in 1..Len(asked) : asked[i].version = 11},
        Replies <- [status : {"OK", "NO_CONTENT"},
                    n : {0} \cup UNION {0..(r.n + 1) : r \in Responses}]
KeepsCalls == RR!Spec

\* A call of THttpClient ends, with a response or an exception, unless the
\* accept loop has ended or the fiber of its connection by an exception: that
\* fiber sets no cleanup_handlers, and its socket stays open until it is joined.
CallsEnd ==
    \A c \in Clients :
        call[c] # 0 ~> \/ call[c] = 0 \/ server = "dead"
                       \/ conn[link[c]].pc = "threw"
=============================================================================
