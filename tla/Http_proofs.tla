----------------------------- MODULE Http_proofs -----------------------------
(***************************************************************************)
(* Proofs about Http for any number of clients, calls and connections, any *)
(* requests and responses, with TLS and without.                           *)
(***************************************************************************)
EXTENDS Http, SequenceTheorems, FiniteSetTheorems, TLAPS

-----------------------------------------------------------------------------
(* What is on its way to the server                                        *)

(* The tokens of the requests a, the states of a body under way.           *)
Tokens(a) == [t : {"line", "fields", "size", "data", "crlf", "last"}, id : 1..Len(a)]
Bodies == [encoding : {"NONE", "CONTENT_LENGTH", "CHUNKED"},
           state : {"SIZE", "DATA", "CRLF", "DONE"}, remaining : {0, 1}]

(* A request ends with x; what follows x within it.                        *)
Final(a, x) == \/ x.t = "last"
               \/ x.t = "data" /\ a[x.id].body # "chunked"
               \/ x.t = "fields" /\ a[x.id].body = "none"
After(a, x) ==
  [t |-> CASE x.t = "line"   -> "fields"
           [] x.t = "fields" -> IF a[x.id].body = "chunked" THEN "size" ELSE "data"
           [] x.t = "size"   -> "data"
           [] x.t = "data"   -> "crlf"
           [] OTHER          -> "last",
   id |-> x.id]
Legal(a, x, y) == IF Final(a, x) THEN y.t = "line" ELSE y = After(a, x)

(* Requests one behind the other, the first and the last perhaps in part.  *)
Chain(a, q) == /\ q \in Seq(Tokens(a))
               /\ \A j \in 1..(Len(q) - 1) : Legal(a, q[j], q[j + 1])

(* Taking the first token.                                                 *)
LEMMA ChainTail ==
  ASSUME NEW a, NEW q, Chain(a, q), q # <<>>
  PROVE  /\ Chain(a, Tail(q)) /\ Head(q) \in Tokens(a)
         /\ Tail(q) # <<>> => /\ Legal(a, Head(q), Head(Tail(q)))
                              /\ Tail(q)[Len(Tail(q))] = q[Len(q)]
         /\ Tail(q) = <<>> => q[Len(q)] = Head(q)
<1>1. q \in Seq(Tokens(a)) /\ Len(q) \in Nat \ {0} /\ DOMAIN q = 1..Len(q)
  BY EmptySeq DEF Chain
<1>2. /\ Tail(q) \in Seq(Tokens(a)) /\ Len(Tail(q)) = Len(q) - 1
      /\ \A j \in 1..(Len(q) - 1) : Tail(q)[j] = q[j + 1]
      /\ Head(q) = q[1]
  BY <1>1, HeadTailProperties
<1>3. Head(q) \in Tokens(a)
  BY <1>1, <1>2
<1>4. ASSUME NEW j \in 1..(Len(Tail(q)) - 1) PROVE Legal(a, Tail(q)[j], Tail(q)[j + 1])
  <2>1. j + 1 \in 1..(Len(q) - 1) /\ j \in 1..(Len(q) - 1)
    BY <1>1, <1>2
  <2>2. Tail(q)[j] = q[j + 1] /\ Tail(q)[j + 1] = q[(j + 1) + 1]
    BY <1>2, <2>1
  <2>3. QED BY <2>1, <2>2 DEF Chain
<1>5. ASSUME Tail(q) # <<>>
      PROVE  Legal(a, Head(q), Head(Tail(q))) /\ Tail(q)[Len(Tail(q))] = q[Len(q)]
  <2>1. Len(Tail(q)) # 0 /\ 1 \in 1..(Len(q) - 1) /\ Len(q) - 1 \in 1..(Len(q) - 1)
    BY <1>1, <1>2, <1>5, EmptySeq
  <2>2. Head(Tail(q)) = q[1 + 1] /\ Tail(q)[Len(Tail(q))] = q[(Len(q) - 1) + 1]
    BY <1>2, <1>5, <2>1
  <2>3. QED BY <1>1, <1>2, <2>1, <2>2 DEF Chain
<1>6. ASSUME Tail(q) = <<>> PROVE q[Len(q)] = Head(q)
  <2>1. \A t : t = <<>> => Len(t) = 0
    OBVIOUS
  <2>2. Len(Tail(q)) = 0
    BY <1>6, <2>1, Zenon
  <2>3. \A n \in Nat : n - 1 = 0 => n = 1
    OBVIOUS
  <2>4. Len(q) = 1
    BY <1>1, <1>2, <2>2, <2>3, Zenon
  <2>5. QED BY <1>2, <2>4, Zenon
<1>7. QED BY <1>2, <1>3, <1>4, <1>5, <1>6 DEF Chain

(* Losing what is behind the first m tokens.                               *)
LEMMA ChainCut ==
  ASSUME NEW a, NEW q, Chain(a, q), NEW m \in 0..Len(q)
  PROVE  /\ Chain(a, SubSeq(q, 1, m))
         /\ SubSeq(q, 1, m) # <<>> => q # <<>> /\ Head(SubSeq(q, 1, m)) = Head(q)
<1>1. q \in Seq(Tokens(a)) /\ Len(q) \in Nat /\ DOMAIN q = 1..Len(q) /\ m \in Nat /\ m <= Len(q)
  BY DEF Chain
<1>2. /\ SubSeq(q, 1, m) \in Seq(Tokens(a)) /\ Len(SubSeq(q, 1, m)) = m
      /\ \A j \in 1..m : SubSeq(q, 1, m)[j] = q[j]
  BY <1>1
<1> DEFINE p == SubSeq(q, 1, m)
<1> HIDE DEF p
<1>3. p \in Seq(Tokens(a)) /\ Len(p) = m /\ \A j \in 1..m : p[j] = q[j]
  BY <1>2 DEF p
<1>4. \A j \in 1..(Len(p) - 1) : Legal(a, p[j], p[j + 1])
  <2> SUFFICES ASSUME NEW j \in 1..(Len(p) - 1) PROVE Legal(a, p[j], p[j + 1])
    OBVIOUS
  <2>1. j \in 1..m /\ j + 1 \in 1..m /\ j \in 1..(Len(q) - 1)
    BY <1>1, <1>3
  <2>2. QED BY <1>3, <2>1 DEF Chain
<1>5. p # <<>> => q # <<>> /\ Head(p) = Head(q)
  BY <1>1, <1>3, EmptySeq
<1>6. QED BY <1>3, <1>4, <1>5 DEF Chain, p

(* Writing another request behind what is there.                           *)
LEMMA ChainJoin ==
  ASSUME NEW a, NEW q, NEW r, Chain(a, q), Chain(a, r), r # <<>>, Head(r).t = "line",
         q # <<>> => Final(a, q[Len(q)])
  PROVE  /\ Chain(a, q \o r) /\ q \o r # <<>>
         /\ (q \o r)[Len(q \o r)] = r[Len(r)]
         /\ Head(q \o r) = IF q = <<>> THEN Head(r) ELSE Head(q)
<1>1. /\ q \in Seq(Tokens(a)) /\ Len(q) \in Nat /\ r \in Seq(Tokens(a)) /\ Len(r) \in Nat \ {0}
      /\ q # <<>> <=> Len(q) # 0
  BY EmptySeq DEF Chain
<1> DEFINE p == q \o r
<1>2. /\ p \in Seq(Tokens(a)) /\ Len(p) = Len(q) + Len(r)
      /\ \A i \in 1..(Len(q) + Len(r)) : p[i] = IF i <= Len(q) THEN q[i] ELSE r[i - Len(q)]
  BY <1>1, ConcatProperties
<1> HIDE DEF p
<1>3. ASSUME NEW j \in 1..(Len(p) - 1) PROVE Legal(a, p[j], p[j + 1])
  <2>1. CASE j < Len(q)
    BY <1>1, <1>2, <2>1 DEF Chain
  <2>2. CASE j = Len(q)
    <3>1. p[j] = q[Len(q)] /\ p[j + 1] = r[1] /\ q # <<>>
      BY <1>1, <1>2, <2>2
    <3>2. QED BY <1>1, <3>1 DEF Legal
  <2>3. CASE j > Len(q)
    <3>1. j - Len(q) \in 1..(Len(r) - 1) /\ (j + 1) - Len(q) = (j - Len(q)) + 1
      BY <1>1, <1>2, <2>3
    <3>2. p[j] = r[j - Len(q)] /\ p[j + 1] = r[(j - Len(q)) + 1]
      BY <1>1, <1>2, <2>3, <3>1
    <3>3. QED BY <3>1, <3>2 DEF Chain
  <2>4. QED BY <1>1, <1>2, <2>1, <2>2, <2>3
<1>4. p # <<>> /\ p[Len(p)] = r[Len(r)] /\ Head(p) = IF q = <<>> THEN Head(r) ELSE Head(q)
  BY <1>1, <1>2, EmptySeq
<1>5. QED BY <1>2, <1>3, <1>4 DEF Chain, p

(* What a client writes is such a chain.                                   *)
LEMMA RequestChain ==
  ASSUME NEW a \in Seq(Requests), NEW i \in 1..Len(a)
  PROVE  LET q == RequestTokens(i, a[i])
         IN  Chain(a, q) /\ q # <<>> /\ Head(q).t = "line" /\ Final(a, q[Len(q)])
<1> DEFINE q == RequestTokens(i, a[i])
<1> SUFFICES Chain(a, q) /\ q # <<>> /\ Head(q).t = "line" /\ Final(a, q[Len(q)])
  BY Zenon
<1>1. a[i].body \in {"none", "length", "chunked", "both"}
  BY HttpAssumption
<1>2. CASE a[i].body = "none"
  <2>1. q = <<Token("line", i), Token("fields", i)>>
    BY <1>2 DEF RequestTokens
  <2>2. QED BY <1>2, <2>1 DEF Chain, Legal, Final, After, Tokens, Token
<1>3. CASE a[i].body = "chunked"
  <2> DEFINE h == <<Token("line", i), Token("fields", i)>>
             b == <<Token("size", i), Token("data", i), Token("crlf", i), Token("last", i)>>
  <2>1. q = h \o b
    BY <1>3 DEF RequestTokens
  <2>2. /\ h \in Seq(Tokens(a)) /\ Len(h) = 2
        /\ b \in Seq(Tokens(a)) /\ Len(b) = 4
    <3>1. \A t \in {"line", "fields", "size", "data", "crlf", "last"} : Token(t, i) \in Tokens(a)
      BY DEF Token, Tokens
    <3> HIDE DEF Tokens
    <3>2. QED BY <3>1
  <2>3. /\ h[1] = Token("line", i) /\ h[2] = Token("fields", i) /\ b[1] = Token("size", i)
        /\ b[2] = Token("data", i) /\ b[3] = Token("crlf", i) /\ b[4] = Token("last", i)
    OBVIOUS
  <2> HIDE DEF h, b
  <2>4. /\ h \o b \in Seq(Tokens(a)) /\ Len(h \o b) = Len(h) + Len(b)
        /\ \A j \in 1..(Len(h) + Len(b)) : (h \o b)[j] = IF j <= Len(h) THEN h[j] ELSE b[j - Len(h)]
    BY <2>2, ConcatProperties, Zenon
  <2> HIDE DEF q
  <2>5. /\ q \in Seq(Tokens(a)) /\ Len(q) = 6
        /\ q[1] = Token("line", i) /\ q[2] = Token("fields", i) /\ q[3] = Token("size", i)
        /\ q[4] = Token("data", i) /\ q[5] = Token("crlf", i) /\ q[6] = Token("last", i)
    BY <2>1, <2>2, <2>3, <2>4
  <2>6. /\ Legal(a, q[1], q[2]) /\ Legal(a, q[2], q[3]) /\ Legal(a, q[3], q[4])
        /\ Legal(a, q[4], q[5]) /\ Legal(a, q[5], q[6])
    BY <1>3, <2>5 DEF Legal, Final, After, Token
  <2>7. \A j \in 1..5 : Legal(a, q[j], q[j + 1])
    <3>1. \A j \in 1..5 : j \in {1, 2, 3, 4, 5}
      OBVIOUS
    <3>2. 1 + 1 = 2 /\ 2 + 1 = 3 /\ 3 + 1 = 4 /\ 4 + 1 = 5 /\ 5 + 1 = 6
      OBVIOUS
    <3>3. QED BY <2>6, <3>1, <3>2, Zenon
  <2>8. q # <<>> /\ Head(q) = q[1]
    <3>1. \A t : t = <<>> => Len(t) # 6
      OBVIOUS
    <3>2. q # <<>>
      BY <2>5, <3>1, Zenon
    <3>3. QED BY <2>5, <3>2, HeadTailProperties
  <2>9. Head(q).t = "line" /\ Final(a, q[6])
    BY <2>5, <2>8 DEF Final, Token
  <2>10. Chain(a, q)
    BY <2>5, <2>7 DEF Chain
  <2>11. Final(a, q[Len(q)])
    BY <2>5, <2>9, Zenon
  <2>12. QED BY <2>8, <2>9, <2>10, <2>11
<1>4. CASE a[i].body \in {"length", "both"}
  <2> DEFINE h == <<Token("line", i), Token("fields", i)>>
             b == <<Token("data", i)>>
  <2>1. q = h \o b
    BY <1>4 DEF RequestTokens
  <2>2. /\ h \in Seq(Tokens(a)) /\ Len(h) = 2
        /\ b \in Seq(Tokens(a)) /\ Len(b) = 1
    <3>1. \A t \in {"line", "fields", "data"} : Token(t, i) \in Tokens(a)
      BY DEF Token, Tokens
    <3> HIDE DEF Tokens
    <3>2. QED BY <3>1
  <2>3. h[1] = Token("line", i) /\ h[2] = Token("fields", i) /\ b[1] = Token("data", i)
    OBVIOUS
  <2> HIDE DEF h, b
  <2>4. /\ h \o b \in Seq(Tokens(a)) /\ Len(h \o b) = Len(h) + Len(b)
        /\ \A j \in 1..(Len(h) + Len(b)) : (h \o b)[j] = IF j <= Len(h) THEN h[j] ELSE b[j - Len(h)]
    BY <2>2, ConcatProperties, Zenon
  <2> HIDE DEF q
  <2>5. /\ q \in Seq(Tokens(a)) /\ Len(q) = 3
        /\ q[1] = Token("line", i) /\ q[2] = Token("fields", i) /\ q[3] = Token("data", i)
    BY <2>1, <2>2, <2>3, <2>4
  <2>6. \A j \in 1..2 : Legal(a, q[j], q[j + 1])
    BY <1>4, <2>5 DEF Legal, Final, After, Token
  <2>7. q # <<>> /\ Head(q) = q[1]
    <3>1. \A t : t = <<>> => Len(t) # 3
      OBVIOUS
    <3>2. q # <<>>
      BY <2>5, <3>1, Zenon
    <3>3. QED BY <2>5, <3>2, HeadTailProperties
  <2>8. Head(q).t = "line" /\ Final(a, q[3])
    BY <1>4, <2>5, <2>7 DEF Final, Token
  <2>9. QED BY <2>5, <2>6, <2>7, <2>8 DEF Chain
<1>5. QED BY <1>1, <1>2, <1>3, <1>4

(* A chain stays one when more requests are made.                          *)
LEMMA ChainGrows ==
  ASSUME NEW a \in Seq(Requests), NEW r \in Requests, NEW q, Chain(a, q)
  PROVE  /\ Chain(Append(a, r), q)
         /\ \A x \in Tokens(a) : Final(a, x) <=> Final(Append(a, r), x)
<1>1. /\ Len(a) \in Nat /\ Len(Append(a, r)) = Len(a) + 1
      /\ \A i \in 1..Len(a) : Append(a, r)[i] = a[i]
  OBVIOUS
<1>2. \A x \in Tokens(a) : /\ x \in Tokens(Append(a, r))
                           /\ Final(a, x) <=> Final(Append(a, r), x)
                           /\ After(a, x) = After(Append(a, r), x)
  BY <1>1 DEF Tokens, Final, After
<1>3. q \in Seq(Tokens(a)) /\ \A j \in 1..Len(q) : q[j] \in Tokens(a)
  BY DEF Chain
<1>4. q \in Seq(Tokens(Append(a, r)))
  <2> HIDE DEF Tokens
  <2>1. Tokens(a) \subseteq Tokens(Append(a, r))
    BY <1>2
  <2>2. QED BY <1>3, <2>1
<1>5. ASSUME NEW j \in 1..(Len(q) - 1) PROVE Legal(Append(a, r), q[j], q[j + 1])
  <2>1. q[j] \in Tokens(a) /\ Legal(a, q[j], q[j + 1])
    BY <1>3 DEF Chain
  <2>2. QED BY <1>2, <2>1 DEF Legal
<1>6. QED BY <1>2, <1>4, <1>5 DEF Chain

-----------------------------------------------------------------------------
(* The invariant                                                           *)

(* What is on its way to a client.                                         *)
Pieces == [t : {"data", "last"}, id : Nat] \cup
          [t : {"header"}, id : Nat, status : {"OK", "NO_CONTENT", "ERROR"}, version : {10, 11},
           length : Int, chunked : BOOLEAN, close : BOOLEAN]
Places == {"none", "backlog", "negotiate", "line", "fields", "handler", "body",
           "ended", "threw", "joined"}
Connections(a) ==
  [up : Seq(Tokens(a)), down : Seq(Pieces), client_open : BOOLEAN, server_open : BOOLEAN,
   pc : Places, id : 0..Len(a), kept : BOOLEAN, body : Bodies,
   response : Responses \cup {NoResponse}, owed : Nat]

(* What the fiber of s reads next: the place its decoders are at.          *)
BodyTypes(b) == CASE b.encoding = "CONTENT_LENGTH" -> {"data"}
                  [] b.encoding # "CONTENT_LENGTH" /\ b.state = "SIZE" -> {"size", "last"}
                  [] b.encoding # "CONTENT_LENGTH" /\ b.state = "DATA" -> {"data"}
                  [] OTHER -> {"crlf"}
Wanted(s, y) ==
  /\ s.pc \in {"backlog", "negotiate", "line"} => y.t = "line"
  /\ s.pc = "fields" => y = Token("fields", s.id)
  /\ s.pc = "handler" => IF Complete(s.body) THEN y.t = "line"
                                             ELSE y.t \in BodyTypes(s.body) /\ y.id = s.id
  /\ s.pc = "body" /\ s.kept => y.t = "line"
AtRightToken(s) == s.up # <<>> => Wanted(s, Head(s.up))

(* The fiber of s is at a request that was made, and at the body of it.    *)
AtRightCall(a, s) ==
  /\ s.pc \in {"fields", "handler", "body"} => s.id \in 1..Len(a)
  /\ s.pc = "handler" => /\ a[s.id].body \in {"none", "length", "chunked"}
                         /\ s.body.encoding = Body(a[s.id]).encoding
                         /\ s.body.encoding = "CONTENT_LENGTH" => s.body.state = "DONE"
  /\ s.pc = "body" => s.response \in Responses

(* Nothing announced is left to be sent, unless a file was cut off.        *)
NoFiles == \A r \in Responses : r.body # "file"
Paid(a, s) ==
  NoFiles =>
    /\ s.pc \in {"backlog", "negotiate", "line", "fields", "handler"} /\ s.server_open => s.owed = 0
    /\ s.pc = "body" /\ (s.response.body = "none" \/ a[s.id].method = "HEAD") => s.owed = 0

Good(a, s) == /\ s \in Connections(a) /\ Chain(a, s.up)
              /\ AtRightToken(s) /\ AtRightCall(a, s) /\ Paid(a, s)

(* A client that holds s has written whole requests: when all is read, the *)
(* fiber is at the end of one.                                             *)
Between(s) == s.pc # "fields" /\ (s.pc = "handler" => Complete(s.body))
WholeRequests(a, s) ==
  s.server_open => IF s.up = <<>> THEN Between(s) ELSE Final(a, s.up[Len(s.up)])

Counts == /\ asked \in Seq(Requests)
          /\ n_conns \in 0..MaxConns
          /\ call \in [Clients -> Nat]
          /\ link \in [Clients -> 0..n_conns]
          /\ DOMAIN conn = Conns /\ conn = [k \in Conns |-> conn[k]]
          /\ server \in {"accept", "wait", "dead"} /\ cleanup \in BOOLEAN
Links == \A c \in Clients :
           /\ link[c] # 0 => WholeRequests(asked, conn[link[c]])
           /\ call[c] # 0 => link[c] # 0
           /\ \A d \in Clients : link[c] = link[d] /\ link[c] # 0 => c = d
HttpInv == /\ Counts /\ Links
           /\ \A k \in Conns : Good(asked, conn[k])
           /\ ~stray /\ HandlersJoined

LEMMA FreshIsGood ==
  ASSUME NEW a \in Seq(Requests)
  PROVE  Good(a, Fresh)
<1>1. <<>> \in Seq(Tokens(a)) /\ <<>> \in Seq(Pieces) /\ Len(a) \in Nat
  OBVIOUS
<1> HIDE DEF Tokens
<1>2. Fresh \in Connections(a)
  BY <1>1 DEF Fresh, Connections, Places, NoBody, Bodies
<1>3. Chain(a, <<>>)
  BY <1>1 DEF Chain
<1>4. QED BY <1>2, <1>3 DEF Good, Fresh, AtRightToken, AtRightCall, Paid

(* More requests do not disturb a connection.                              *)
LEMMA GoodGrows ==
  ASSUME NEW a \in Seq(Requests), NEW r \in Requests, NEW s, Good(a, s)
  PROVE  Good(Append(a, r), s) /\ (WholeRequests(a, s) => WholeRequests(Append(a, r), s))
<1> DEFINE b == Append(a, r)
<1>1. /\ b \in Seq(Requests) /\ Len(a) \in Nat /\ Len(b) = Len(a) + 1
      /\ \A i \in 1..Len(a) : b[i] = a[i]
  OBVIOUS
<1>2. Chain(b, s.up) /\ \A x \in Tokens(a) : Final(a, x) <=> Final(b, x)
  BY ChainGrows DEF Good
<1> HIDE DEF b
<1>3. s \in Connections(b)
  BY <1>1, <1>2 DEF Good, Connections, Chain
<1>4. AtRightCall(b, s)
  BY <1>1 DEF Good, AtRightCall
<1>5. Paid(b, s)
  BY <1>1 DEF Good, Paid, AtRightCall
<1>6. WholeRequests(a, s) => WholeRequests(b, s)
  <2>1. s.up \in Seq(Tokens(a))
    BY DEF Good, Chain
  <2>2. s.up # <<>> => s.up[Len(s.up)] \in Tokens(a)
    BY <2>1, EmptySeq
  <2>3. QED BY <1>2, <2>2 DEF WholeRequests
<1>7. QED BY <1>2, <1>3, <1>4, <1>5, <1>6 DEF Good, b

(* The fiber of k does a step that nobody else takes part in.              *)
LEMMA FiberStep ==
  ASSUME HttpInv, NEW k \in Conns, NEW t, Good(asked, t),
         WholeRequests(asked, conn[k]) => WholeRequests(asked, t),
         conn' = [conn EXCEPT ![k] = t], UNCHANGED client, server' = server, ~stray',
         (cleanup' = cleanup /\ t.pc # "ended") \/ cleanup' = TRUE
  PROVE  HttpInv'
<1>1. Counts'
  BY DEF HttpInv, Counts, client, Conns
<1>2. \A j \in Conns : conn'[j] = IF j = k THEN t ELSE conn[j]
  BY DEF HttpInv, Counts
<1>3. \A j \in Conns : Good(asked, conn[j])'
  BY <1>2 DEF HttpInv, client
<1>4. Links'
  <2>1. \A c \in Clients : link[c] # 0 => link[c] \in Conns
    BY HttpAssumption DEF HttpInv, Counts, Conns
  <2>2. QED BY <1>2, <2>1 DEF HttpInv, Links, client
<1>5. HandlersJoined'
  BY <1>2 DEF HttpInv, HandlersJoined, Counts
<1>6. QED BY <1>1, <1>3, <1>4, <1>5 DEF HttpInv

(* The server closes a connection.                                         *)
LEMMA Closing ==
  ASSUME HttpInv, NEW k \in Conns, NEW s, s.down \in Seq(Pieces), s.client_open \in BOOLEAN,
         conn' \in ServerCloses(k, s)
  PROVE  \E t : /\ conn' = [conn EXCEPT ![k] = t] /\ Good(asked, t) /\ WholeRequests(asked, t)
                /\ t.pc = "line"
<1> DEFINE shut(d) == [Fresh EXCEPT !.client_open = s.client_open, !.down = d, !.pc = "line"]
<1>1. ASSUME NEW d \in Seq(Pieces)
      PROVE  Good(asked, shut(d)) /\ WholeRequests(asked, shut(d)) /\ shut(d).pc = "line"
  <2>1. Good(asked, Fresh)
    BY FreshIsGood DEF HttpInv, Counts
  <2>2. /\ shut(d) \in Connections(asked) /\ shut(d).up = <<>> /\ shut(d).pc = "line"
        /\ shut(d).server_open = FALSE
    BY <2>1 DEF Good, Connections, Fresh, Places
  <2>3. Chain(asked, shut(d).up)
    BY <2>1, <2>2 DEF Good, Fresh
  <2> HIDE DEF shut
  <2>4. QED BY <2>2, <2>3 DEF Good, WholeRequests, AtRightToken, AtRightCall, Paid
<1>2. <<>> \in Seq(Pieces)
  OBVIOUS
<1>3. CASE conn' = [conn EXCEPT ![k] = shut(s.down)]
  <2> HIDE DEF shut
  <2>1. QED BY <1>1, <1>3
<1>4. CASE conn' = [conn EXCEPT ![k] = shut(<<>>)]
  <2> HIDE DEF shut
  <2>1. QED BY <1>1, <1>2, <1>4
<1>5. conn' = [conn EXCEPT ![k] = shut(s.down)] \/ conn' = [conn EXCEPT ![k] = shut(<<>>)]
  BY DEF ServerCloses, Fresh
<1>6. QED BY <1>3, <1>4, <1>5

-----------------------------------------------------------------------------
(* The steps of the fiber of a connection                                  *)

LEMMA HeaderType ==
  ASSUME NEW i \in Nat, NEW status \in {"OK", "NO_CONTENT", "ERROR"}, NEW version \in {10, 11},
         NEW body, NEW n \in Nat, NEW close \in BOOLEAN
  PROVE  Header(i, status, version, body, n, close) \in Pieces
BY DEF Header, Pieces

(* What is read next, once the first token is taken.                       *)
LEMMA Taking ==
  ASSUME HttpInv, NEW k \in Conns, conn[k].up # <<>>
  PROVE  LET s == conn[k]  x == Head(s.up)  q == Tail(s.up) IN
         /\ Chain(asked, q) /\ x \in Tokens(asked) /\ Wanted(s, x)
         /\ q # <<>> => Legal(asked, x, Head(q))
         /\ WholeRequests(asked, s) /\ s.server_open =>
              IF q = <<>> THEN Final(asked, x) ELSE Final(asked, q[Len(q)])
BY ChainTail DEF HttpInv, Good, AtRightToken, WholeRequests

LEMMA Taken ==
  ASSUME HttpInv, NEW k \in Conns, conn[k].up # <<>>
  PROVE  LET s == conn[k]  u == Take(k) IN
         /\ u \in Connections(asked) /\ u.up = Tail(s.up)
         /\ u.server_open = s.server_open /\ u.owed = s.owed /\ u.id = s.id
         /\ u.pc = s.pc /\ u.body = s.body
<1>1. Good(asked, conn[k]) /\ Chain(asked, conn[k].up)
  BY DEF HttpInv, Good
<1>2. Tail(conn[k].up) \in Seq(Tokens(asked))
  BY <1>1, ChainTail DEF Chain
<1>3. QED BY <1>1, <1>2 DEF Take, Good, Connections

(* When the body of a request has been read.                               *)
LEMMA Completed ==
  ASSUME NEW b \in Bodies
  PROVE  Complete(b) <=> \/ b.encoding = "NONE"
                         \/ b.encoding = "CONTENT_LENGTH" /\ b.remaining = 0
                         \/ b.encoding = "CHUNKED" /\ b.state = "DONE"
<1>1. CASE b.encoding = "NONE"
  BY <1>1 DEF Complete
<1>2. CASE b.encoding = "CONTENT_LENGTH"
  BY <1>2 DEF Complete
<1>3. CASE b.encoding = "CHUNKED"
  BY <1>3 DEF Complete
<1>4. b.encoding \in {"NONE", "CONTENT_LENGTH", "CHUNKED"}
  BY DEF Bodies
<1>5. QED BY <1>1, <1>2, <1>3, <1>4

LEMMA Refusal ==
  ASSUME HttpInv, NEW k \in Conns, NEW s \in Connections(asked), Refuse(k, s),
         UNCHANGED client, server' = server, ~stray', cleanup' = cleanup
  PROVE  HttpInv'
<1> DEFINE h == Header(0, "ERROR", 11, "none", 0, TRUE)
           u == [s EXCEPT !.down = Append(@, h)]
<1>1. h \in Pieces
  BY HeaderType
<1>2. u.down \in Seq(Pieces) /\ u.client_open = s.client_open
  <2> HIDE DEF h
  <2>1. QED BY <1>1 DEF Connections
<1> HIDE DEF u
<1>3. conn' \in ServerCloses(k, s) \/ conn' \in ServerCloses(k, u)
  BY DEF Refuse, u
<1>4. PICK t : /\ conn' = [conn EXCEPT ![k] = t] /\ Good(asked, t) /\ WholeRequests(asked, t)
               /\ t.pc = "line"
  BY <1>2, <1>3, Closing DEF Connections
<1>5. QED BY <1>4, FiberStep DEF HttpInv, Counts

LEMMA NegotiateStep ==
  ASSUME HttpInv, NEW k \in Conns, Negotiate(k)
  PROVE  HttpInv'
<1>1. ASSUME NEW p \in {"line", "threw"}, conn' = [conn EXCEPT ![k].pc = p]
      PROVE  HttpInv'
  <2> DEFINE t == [conn[k] EXCEPT !.pc = p]
  <2>1. conn[k] \in Connections(asked) /\ conn[k].pc = "negotiate"
    BY DEF HttpInv, Good, Negotiate
  <2>2. /\ t \in Connections(asked) /\ t.up = conn[k].up /\ t.pc = p
        /\ t.server_open = conn[k].server_open /\ t.owed = conn[k].owed
    BY <2>1 DEF Connections, Places
  <2>3. conn' = [conn EXCEPT ![k] = t]
    BY <1>1
  <2> HIDE DEF t
  <2>4. Good(asked, t)
    BY <2>1, <2>2 DEF HttpInv, Good, AtRightToken, Wanted, AtRightCall, Paid
  <2>5. WholeRequests(asked, conn[k]) => WholeRequests(asked, t)
    BY <2>2 DEF WholeRequests, Between
  <2>6. QED BY <2>2, <2>3, <2>4, <2>5, FiberStep DEF Negotiate, history, HttpInv, Counts
<1>2. QED BY <1>1 DEF Negotiate

LEMMA DecodeLineStep ==
  ASSUME HttpInv, NEW k \in Conns, DecodeLine(k)
  PROVE  HttpInv'
<1> DEFINE s == conn[k]
           x == Head(s.up)
           t == [Take(k) EXCEPT !.pc = "fields", !.id = x.id]
<1>1. s \in Connections(asked) /\ s.pc = "line" /\ s.up # <<>> /\ Good(asked, s)
  BY DEF HttpInv, Good, DecodeLine
<1>2. /\ Chain(asked, Tail(s.up)) /\ x \in Tokens(asked) /\ Wanted(s, x)
      /\ Tail(s.up) # <<>> => Legal(asked, x, Head(Tail(s.up)))
      /\ WholeRequests(asked, s) /\ s.server_open =>
           IF Tail(s.up) = <<>> THEN Final(asked, x) ELSE Final(asked, Tail(s.up)[Len(Tail(s.up))])
  BY <1>1, Taking
<1>3. x.t = "line" /\ x.id \in 1..Len(asked) /\ Len(asked) \in Nat /\ ~Final(asked, x)
  BY <1>1, <1>2 DEF Wanted, Tokens, Final, HttpInv, Counts
<1>4. /\ t \in Connections(asked) /\ t.up = Tail(s.up) /\ t.pc = "fields" /\ t.id = x.id
      /\ t.server_open = s.server_open /\ t.owed = s.owed
  <2>1. x.id \in 0..Len(asked)
    BY <1>3
  <2> HIDE DEF x
  <2>2. Take(k) \in Connections(asked) /\ Take(k).up = Tail(s.up)
        /\ Take(k).server_open = s.server_open /\ Take(k).owed = s.owed
    BY <1>1, Taken
  <2>3. QED BY <2>1, <2>2 DEF Connections, Places
<1>5. conn' = [conn EXCEPT ![k] = t]
  BY <1>3 DEF DecodeLine
<1> HIDE DEF t, x
<1>6. Good(asked, t)
  <2>1. AtRightToken(t)
    BY <1>2, <1>3, <1>4 DEF AtRightToken, Wanted, Legal, After, Token
  <2>2. QED BY <1>1, <1>2, <1>3, <1>4, <2>1 DEF Good, AtRightCall, Paid
<1>7. WholeRequests(asked, s) => WholeRequests(asked, t)
  BY <1>2, <1>3, <1>4 DEF WholeRequests
<1>8. QED BY <1>4, <1>5, <1>6, <1>7, FiberStep DEF DecodeLine, history, HttpInv, Counts

LEMMA DecodeFieldsStep ==
  ASSUME HttpInv, NEW k \in Conns, DecodeFields(k)
  PROVE  HttpInv'
<1> DEFINE s == conn[k]
           x == Head(s.up)
           r == asked[s.id]
           t == [Take(k) EXCEPT !.pc = "handler", !.body = Body(r)]
<1>1. s \in Connections(asked) /\ s.pc = "fields" /\ s.up # <<>> /\ Good(asked, s)
  BY DEF HttpInv, Good, DecodeFields
<1>2. /\ Chain(asked, Tail(s.up)) /\ x \in Tokens(asked) /\ Wanted(s, x)
      /\ Tail(s.up) # <<>> => Legal(asked, x, Head(Tail(s.up)))
      /\ WholeRequests(asked, s) /\ s.server_open =>
           IF Tail(s.up) = <<>> THEN Final(asked, x) ELSE Final(asked, Tail(s.up)[Len(Tail(s.up))])
  BY <1>1, Taking
<1>3. x.t = "fields" /\ x.id = s.id /\ s.id \in 1..Len(asked) /\ r \in Requests
  BY <1>1, <1>2 DEF Wanted, Token, HttpInv, Counts, Good, AtRightCall
<1>4. CASE r.body = "both" \/ r.method = "TRACE"
  <2>1. Refuse(k, Take(k))
    BY <1>4 DEF DecodeFields
  <2>2. QED BY <1>1, <2>1, Taken, Refusal DEF DecodeFields, history, HttpInv
<1>5. CASE ~(r.body = "both" \/ r.method = "TRACE")
  <2>1. /\ r.body \in {"none", "length", "chunked"} /\ Body(r) \in Bodies
        /\ r.body = "none" => Body(r) = NoBody
        /\ r.body = "length" => /\ Body(r).encoding = "CONTENT_LENGTH" /\ Body(r).state = "DONE"
                                /\ Body(r).remaining = 1
        /\ r.body = "chunked" => Body(r).encoding = "CHUNKED" /\ Body(r).state = "SIZE"
    BY <1>3, <1>5, HttpAssumption DEF Body, NoBody, Bodies
  <2>2. /\ t \in Connections(asked) /\ t.up = Tail(s.up) /\ t.pc = "handler" /\ t.id = s.id
        /\ t.server_open = s.server_open /\ t.owed = s.owed /\ t.body = Body(r)
    BY <1>1, <2>1, Taken DEF Connections, Places
  <2>3. conn' = [conn EXCEPT ![k] = t]
    BY <1>5 DEF DecodeFields
  <2> HIDE DEF t, x
  <2>4. Complete(t.body) <=> r.body = "none"
    <3>1. t.body \in Bodies
      BY <2>1, <2>2
    <3>2. QED BY <2>1, <2>2, <3>1, Completed DEF NoBody
  <2>5. AtRightToken(t)
    <3> SUFFICES ASSUME t.up # <<>> PROVE Wanted(t, Head(t.up))
      BY DEF AtRightToken
    <3>1. Legal(asked, x, Head(t.up))
      BY <1>2, <2>2
    <3>2. CASE r.body = "none"
      BY <1>3, <2>2, <2>4, <3>1, <3>2 DEF Wanted, Legal, Final
    <3>3. CASE r.body # "none"
      <4>1. Head(t.up) = After(asked, x) /\ ~Complete(t.body)
        BY <1>3, <2>4, <3>1, <3>3 DEF Legal, Final
      <4>2. Head(t.up).id = t.id /\ Head(t.up).t = IF r.body = "chunked" THEN "size" ELSE "data"
        BY <1>3, <2>2, <4>1 DEF After
      <4>3. Head(t.up).t \in BodyTypes(t.body)
        BY <2>1, <2>2, <3>3, <4>2 DEF BodyTypes
      <4>4. QED BY <2>2, <4>1, <4>2, <4>3 DEF Wanted
    <3>4. QED BY <3>2, <3>3
  <2>6. AtRightCall(asked, t)
    <3>1. t.id \in 1..Len(asked) /\ asked[t.id] = r /\ t.pc = "handler"
      BY <1>3, <2>2
    <3>2. r.body \in {"none", "length", "chunked"} /\ t.body.encoding = Body(r).encoding
      BY <2>1, <2>2
    <3>3. t.body.encoding = "CONTENT_LENGTH" => t.body.state = "DONE"
      BY <2>1, <2>2 DEF NoBody
    <3> HIDE DEF r
    <3>4. QED BY <3>1, <3>2, <3>3 DEF AtRightCall
  <2>7. Paid(asked, t)
    BY <1>1, <2>2 DEF Good, Paid
  <2>8. Good(asked, t)
    BY <1>2, <2>2, <2>5, <2>6, <2>7 DEF Good
  <2>9. WholeRequests(asked, s) => WholeRequests(asked, t)
    BY <1>2, <1>3, <2>2, <2>4 DEF WholeRequests, Between, Final
  <2>10. QED BY <2>2, <2>3, <2>8, <2>9, FiberStep DEF DecodeFields, history, HttpInv, Counts
<1>6. QED BY <1>4, <1>5

LEMMA DecodeEofStep ==
  ASSUME HttpInv, NEW k \in Conns, DecodeEof(k)
  PROVE  HttpInv'
<1> DEFINE s == conn[k]
           t == [s EXCEPT !.pc = "ended"]
<1>1. s \in Connections(asked) /\ s.up = <<>> /\ Good(asked, s)
  BY DEF HttpInv, Good, DecodeEof, UpEof
<1>2. CASE s.pc = "line"
  <2>1. /\ t \in Connections(asked) /\ t.up = s.up /\ t.pc = "ended"
        /\ t.server_open = s.server_open /\ t.owed = s.owed
    BY <1>1 DEF Connections, Places
  <2>2. conn' = [conn EXCEPT ![k] = t] /\ cleanup' = TRUE
    BY <1>2 DEF DecodeEof
  <2> HIDE DEF t
  <2>3. Good(asked, t)
    BY <1>1, <2>1 DEF Good, AtRightToken, AtRightCall, Paid
  <2>4. WholeRequests(asked, t)
    BY <1>1, <2>1 DEF WholeRequests, Between
  <2>5. QED BY <2>2, <2>3, <2>4, FiberStep DEF DecodeEof, history, HttpInv, Counts
<1>3. CASE s.pc # "line"
  <2>1. Refuse(k, s) /\ cleanup' = cleanup
    BY <1>3 DEF DecodeEof
  <2>2. QED BY <1>1, <2>1, Refusal DEF DecodeEof, history, HttpInv
<1>4. QED BY <1>2, <1>3

LEMMA HandlerThrowsStep ==
  ASSUME HttpInv, NEW k \in Conns, HandlerThrows(k)
  PROVE  HttpInv'
<1>1. conn[k] \in Connections(asked)
  BY DEF HttpInv, Good
<1>2. QED BY <1>1, Refusal DEF HandlerThrows, history, HttpInv

(* A decoder that is at the right token stays there: within a body, or at  *)
(* its end with the next request.                                          *)
LEMMA NextPiece ==
  ASSUME NEW b \in Bodies, ~Complete(b), b.encoding = "CONTENT_LENGTH" => b.state = "DONE",
         NEW a, NEW x, x.t \in BodyTypes(b),
         a[x.id].body = IF b.encoding = "CONTENT_LENGTH" THEN "length" ELSE "chunked"
  PROVE  LET d == BodyAfter(b, x) IN
         /\ d \in Bodies /\ d.encoding = b.encoding
         /\ d.encoding = "CONTENT_LENGTH" => d.state = "DONE"
         /\ Final(a, x) => Complete(d)
         /\ ~Final(a, x) => ~Complete(d) /\ After(a, x).t \in BodyTypes(d)
         /\ b.state \notin {"SIZE", "CRLF"} => x.t = "data"
<1> DEFINE d == BodyAfter(b, x)
<1>1. CASE b.encoding = "CONTENT_LENGTH"
  <2>1. b.remaining = 1 /\ b.state = "DONE" /\ x.t = "data"
    BY <1>1, Completed DEF Bodies, BodyTypes
  <2>2. d = [b EXCEPT !.remaining = 0]
    BY <1>1, <2>1 DEF BodyAfter
  <2> HIDE DEF d
  <2>3. d \in Bodies /\ d.encoding = b.encoding /\ d.state = "DONE" /\ d.remaining = 0
    BY <2>1, <2>2 DEF Bodies
  <2>4. Complete(d) /\ Final(a, x)
    BY <1>1, <2>1, <2>3, Completed DEF Final
  <2>5. QED BY <2>1, <2>3, <2>4 DEF d
<1>2. CASE b.encoding # "CONTENT_LENGTH"
  <2>1. b.encoding = "CHUNKED" /\ b.state \in {"SIZE", "DATA", "CRLF"} /\ a[x.id].body = "chunked"
    BY <1>2, Completed DEF Bodies
  <2>2. ASSUME NEW p \in {"SIZE", "DATA", "CRLF", "DONE"}, d = [b EXCEPT !.state = p]
        PROVE  /\ d \in Bodies /\ d.encoding = "CHUNKED" /\ d.state = p
               /\ Complete(d) <=> p = "DONE"
    <3> HIDE DEF d
    <3>1. d \in Bodies /\ d.encoding = "CHUNKED" /\ d.state = p
      BY <2>1, <2>2 DEF Bodies
    <3>2. QED BY <3>1, Completed
  <2>3. CASE b.state = "SIZE" /\ x.t = "size"
    <3>1. d = [b EXCEPT !.state = "DATA"]
      BY <1>2, <2>3 DEF BodyAfter
    <3>2. /\ d \in Bodies /\ d.encoding = "CHUNKED" /\ d.state = "DATA" /\ ~Complete(d)
      BY <2>2, <3>1
    <3> HIDE DEF d
    <3>3. ~Final(a, x) /\ After(a, x).t = "data" /\ "data" \in BodyTypes(d)
      BY <2>1, <2>3, <3>2 DEF Final, After, BodyTypes
    <3>4. QED BY <2>1, <2>3, <3>2, <3>3 DEF d
  <2>4. CASE b.state = "SIZE" /\ x.t = "last"
    <3>1. d = [b EXCEPT !.state = "DONE"]
      BY <1>2, <2>4 DEF BodyAfter
    <3>2. /\ d \in Bodies /\ d.encoding = "CHUNKED" /\ d.state = "DONE" /\ Complete(d)
      BY <2>2, <3>1
    <3> HIDE DEF d
    <3>3. Final(a, x)
      BY <2>4 DEF Final
    <3>4. QED BY <2>1, <2>4, <3>2, <3>3 DEF d
  <2>5. CASE b.state = "DATA"
    <3>1. d = [b EXCEPT !.state = "CRLF"] /\ x.t = "data"
      BY <1>2, <2>5 DEF BodyAfter, BodyTypes
    <3>2. /\ d \in Bodies /\ d.encoding = "CHUNKED" /\ d.state = "CRLF" /\ ~Complete(d)
      BY <2>2, <3>1
    <3>3. x.t = "data"
      BY <3>1
    <3> HIDE DEF d
    <3>4. ~Final(a, x) /\ After(a, x).t = "crlf" /\ "crlf" \in BodyTypes(d)
      BY <2>1, <2>5, <3>2, <3>3 DEF Final, After, BodyTypes
    <3>5. QED BY <2>1, <2>5, <3>2, <3>3, <3>4 DEF d
  <2>6. CASE b.state = "CRLF"
    <3>1. d = [b EXCEPT !.state = "SIZE"]
      BY <1>2, <2>6 DEF BodyAfter
    <3>2. /\ d \in Bodies /\ d.encoding = "CHUNKED" /\ d.state = "SIZE" /\ ~Complete(d)
      BY <2>2, <3>1
    <3>3. x.t = "crlf"
      BY <1>2, <2>6 DEF BodyTypes
    <3> HIDE DEF d
    <3>4. ~Final(a, x) /\ After(a, x).t = "last" /\ "last" \in BodyTypes(d)
      BY <2>1, <2>6, <3>2, <3>3 DEF Final, After, BodyTypes
    <3>5. QED BY <2>1, <2>6, <3>2, <3>3, <3>4 DEF d
  <2>7. b.state = "SIZE" => x.t \in {"size", "last"}
    BY <1>2 DEF BodyTypes
  <2>8. QED BY <2>1, <2>3, <2>4, <2>5, <2>6, <2>7
<1>3. QED BY <1>1, <1>2

LEMMA ReadBodyStep ==
  ASSUME HttpInv, NEW k \in Conns, ReadBody(k)
  PROVE  HttpInv'
<1> DEFINE s == conn[k]
           x == Head(s.up)
           d == BodyAfter(s.body, x)
           t == [Take(k) EXCEPT !.body = d]
<1>1. /\ s \in Connections(asked) /\ s.pc = "handler" /\ ~Complete(s.body) /\ Good(asked, s)
      /\ s.body \in Bodies
  BY DEF HttpInv, Good, ReadBody, Connections
<1>2. CASE UpEof(k)
  BY <1>1, <1>2, Refusal DEF ReadBody, HttpInv
<1>3. CASE ~UpEof(k)
  <2>1. s.up # <<>>
    BY <1>3 DEF ReadBody
  <2>2. /\ Chain(asked, Tail(s.up)) /\ x \in Tokens(asked) /\ Wanted(s, x)
        /\ Tail(s.up) # <<>> => Legal(asked, x, Head(Tail(s.up)))
        /\ WholeRequests(asked, s) /\ s.server_open =>
             IF Tail(s.up) = <<>> THEN Final(asked, x) ELSE Final(asked, Tail(s.up)[Len(Tail(s.up))])
    BY <2>1, Taking
  <2>3. x.t \in BodyTypes(s.body) /\ x.id = s.id /\ s.id \in 1..Len(asked)
    BY <1>1, <2>2 DEF Wanted, Good, AtRightCall
  <2>4. /\ s.body.encoding = "CONTENT_LENGTH" => s.body.state = "DONE"
        /\ asked[x.id].body = IF s.body.encoding = "CONTENT_LENGTH" THEN "length" ELSE "chunked"
    BY <1>1, <2>3, Completed DEF Good, AtRightCall, Body, NoBody
  <2>5. /\ d \in Bodies /\ d.encoding = s.body.encoding
        /\ d.encoding = "CONTENT_LENGTH" => d.state = "DONE"
        /\ Final(asked, x) => Complete(d)
        /\ ~Final(asked, x) => ~Complete(d) /\ After(asked, x).t \in BodyTypes(d)
        /\ s.body.state \notin {"SIZE", "CRLF"} => x.t = "data"
    <3> HIDE DEF x
    <3>1. QED BY <1>1, <2>3, <2>4, NextPiece
  <2>6. /\ Take(k) \in Connections(asked) /\ Take(k).up = Tail(s.up)
        /\ Take(k).server_open = s.server_open /\ Take(k).owed = s.owed
        /\ Take(k).id = s.id /\ Take(k).pc = s.pc /\ Take(k).body = s.body
    BY <2>1, Taken
  <2>7. conn' = [conn EXCEPT ![k] = t] /\ (stray' => s.body.state \notin {"SIZE", "CRLF"} /\ x # Token("data", s.id))
    BY <1>3, <2>6 DEF ReadBody, HttpInv
  <2> HIDE DEF d, x
  <2>8. /\ t \in Connections(asked) /\ t.up = Tail(s.up) /\ t.pc = "handler" /\ t.id = s.id
        /\ t.server_open = s.server_open /\ t.owed = s.owed /\ t.body = d
    BY <1>1, <2>5, <2>6 DEF Connections
  <2> HIDE DEF t
  <2>9. ~stray'
    BY <2>2, <2>3, <2>5, <2>7 DEF Tokens, Token
  <2>10. AtRightToken(t)
    <3> SUFFICES ASSUME t.up # <<>> PROVE Wanted(t, Head(t.up))
      BY DEF AtRightToken
    <3>1. Legal(asked, x, Head(t.up))
      BY <2>2, <2>8
    <3>2. CASE Final(asked, x)
      BY <2>5, <2>8, <3>1, <3>2 DEF Wanted, Legal
    <3>3. CASE ~Final(asked, x)
      <4>1. Head(t.up) = After(asked, x) /\ After(asked, x).id = s.id
        BY <2>3, <3>1, <3>3 DEF Legal, After
      <4>2. QED BY <2>5, <2>8, <3>3, <4>1 DEF Wanted
    <3>4. QED BY <3>2, <3>3
  <2>11. AtRightCall(asked, t)
    BY <1>1, <2>5, <2>8 DEF Good, AtRightCall
  <2>12. Good(asked, t)
    BY <1>1, <2>2, <2>8, <2>10, <2>11 DEF Good, Paid
  <2>13. WholeRequests(asked, s) => WholeRequests(asked, t)
    BY <2>2, <2>5, <2>8 DEF WholeRequests, Between
  <2>14. server' = server /\ cleanup' = cleanup /\ UNCHANGED client
    BY DEF ReadBody
  <2>15. QED BY <2>7, <2>8, <2>9, <2>12, <2>13, <2>14, FiberStep DEF HttpInv, Counts
<1>4. QED BY <1>2, <1>3

LEMMA HandlerReturnsStep ==
  ASSUME HttpInv, NEW k \in Conns, HandlerReturns(k)
  PROVE  HttpInv'
<1> DEFINE s == conn[k]
           version == asked[s.id].version
           h(r) == Header(s.id, r.status, version, r.body, r.n, ~Kept(s))
           kept(r) == Kept(s) /\ ~(r.body = "stream" /\ version = 10)
           owed(r) == IF r.body = "none" \/ asked[s.id].method = "HEAD" THEN 0 ELSE r.n
           down(r) == IF s.client_open THEN Append(s.down, h(r)) ELSE s.down
           t(r) == [s EXCEPT !.response = r, !.body = NoBody, !.pc = "body",
                             !.kept = kept(r), !.owed = owed(r), !.down = down(r)]
<1>1. s \in Connections(asked) /\ s.pc = "handler" /\ Good(asked, s)
  BY DEF HttpInv, Good, HandlerReturns
<1>2. PICK r \in Responses : conn' = [conn EXCEPT ![k] = t(r)]
  BY DEF HandlerReturns
<1>3. /\ s.id \in 1..Len(asked) /\ s.id \in Nat /\ version \in {10, 11}
      /\ r.status \in {"OK", "NO_CONTENT"} /\ r.n \in Nat
  BY <1>1, HttpAssumption DEF Good, AtRightCall, HttpInv, Counts
<1>4. Kept(s) \in BOOLEAN /\ kept(r) \in BOOLEAN /\ owed(r) \in Nat /\ NoBody \in Bodies
  BY <1>3 DEF Kept, NoBody, Bodies
<1>5. h(r) \in Pieces
  BY <1>3, <1>4, HeaderType
<1>6. down(r) \in Seq(Pieces)
  <2> HIDE DEF h
  <2>1. QED BY <1>1, <1>5 DEF Connections
<1>7. kept(r) => Complete(s.body)
  BY DEF Kept
<1>8. NoFiles => (r.body = "none" \/ asked[s.id].method = "HEAD" => owed(r) = 0)
  OBVIOUS
<1> HIDE DEF kept, owed, down, h
<1>9. /\ t(r) \in Connections(asked) /\ t(r).up = s.up /\ t(r).pc = "body" /\ t(r).id = s.id
      /\ t(r).kept = kept(r) /\ t(r).response = r /\ t(r).owed = owed(r)
  BY <1>1, <1>4, <1>6 DEF Connections, Places
<1> HIDE DEF t
<1>10. AtRightToken(t(r))
  BY <1>1, <1>7, <1>9 DEF Good, AtRightToken, Wanted
<1>11. Good(asked, t(r))
  BY <1>1, <1>3, <1>8, <1>9, <1>10 DEF Good, AtRightCall, Paid
<1>12. WholeRequests(asked, s) => WholeRequests(asked, t(r))
  <2>1. t(r).server_open = s.server_open
    BY <1>1 DEF t, Connections
  <2>2. QED BY <1>9, <2>1 DEF WholeRequests, Between
<1>13. QED BY <1>2, <1>9, <1>11, <1>12, FiberStep DEF HandlerReturns, HttpInv, Counts

(* The end of HandleSingleRequest, all being sent that was announced.      *)
LEMMA Finishing ==
  ASSUME HttpInv, NEW k \in Conns, NEW s, Good(asked, s), s.pc = "body", NoFiles => s.owed = 0,
         WholeRequests(asked, conn[k]) => WholeRequests(asked, s),
         Finish(k, s), UNCHANGED client, server' = server, ~stray', cleanup' = cleanup
  PROVE  HttpInv'
<1>1. s \in Connections(asked)
  BY DEF Good
<1>2. CASE s.kept
  <2> DEFINE t == [s EXCEPT !.pc = "line", !.id = 0, !.kept = FALSE, !.response = NoResponse]
  <2>1. 0 \in 0..Len(asked)
    BY DEF HttpInv, Counts
  <2>2. /\ t \in Connections(asked) /\ t.up = s.up /\ t.pc = "line"
        /\ t.server_open = s.server_open /\ t.owed = s.owed
    BY <1>1, <2>1 DEF Connections, Places
  <2>3. conn' = [conn EXCEPT ![k] = t]
    BY <1>2 DEF Finish
  <2> HIDE DEF t
  <2>4. Good(asked, t)
    BY <1>2, <2>2 DEF Good, AtRightToken, Wanted, AtRightCall, Paid
  <2>5. WholeRequests(asked, s) => WholeRequests(asked, t)
    BY <2>2 DEF WholeRequests, Between
  <2>6. QED BY <2>2, <2>3, <2>4, <2>5, FiberStep DEF HttpInv, Counts
<1>3. CASE ~s.kept
  <2>1. conn' \in ServerCloses(k, s)
    BY <1>3 DEF Finish
  <2>2. PICK t : /\ conn' = [conn EXCEPT ![k] = t] /\ Good(asked, t) /\ WholeRequests(asked, t)
                 /\ t.pc = "line"
    BY <1>1, <2>1, Closing DEF Connections
  <2>3. QED BY <2>2, FiberStep DEF HttpInv, Counts
<1>4. QED BY <1>2, <1>3

(* Another piece of a body on its way.                                     *)
LEMMA Putting ==
  ASSUME NEW a, NEW s \in Connections(a), NEW p \in {"data", "last"}
  PROVE  (IF s.client_open THEN Append(s.down, Token(p, s.id)) ELSE s.down) \in Seq(Pieces)
<1> DEFINE x == Token(p, s.id)
<1>1. s.id \in Nat /\ s.down \in Seq(Pieces)
  BY DEF Connections
<1>2. x \in Pieces
  BY <1>1 DEF Token, Pieces
<1> HIDE DEF x
<1>3. Append(s.down, x) \in Seq(Pieces)
  BY <1>1, <1>2
<1>4. QED BY <1>1, <1>3 DEF x

LEMMA Sending ==
  ASSUME NEW a, NEW s, Good(a, s), s.pc = "body", NEW d \in Seq(Pieces), NEW n \in Nat,
         NoFiles /\ (s.response.body = "none" \/ a[s.id].method = "HEAD") => n = 0
  PROVE  LET t == [s EXCEPT !.down = d, !.owed = n]
         IN  /\ Good(a, t) /\ t.pc = "body" /\ t.owed = n
             /\ WholeRequests(a, s) => WholeRequests(a, t)
<1> DEFINE t == [s EXCEPT !.down = d, !.owed = n]
<1>1. s \in Connections(a)
  BY DEF Good
<1>2. /\ t \in Connections(a) /\ t.up = s.up /\ t.pc = "body" /\ t.id = s.id /\ t.kept = s.kept
      /\ t.server_open = s.server_open /\ t.owed = n /\ t.response = s.response
  BY <1>1 DEF Connections
<1> HIDE DEF t
<1>3. Good(a, t)
  BY <1>2 DEF Good, AtRightToken, Wanted, AtRightCall, Paid
<1>4. WholeRequests(a, s) => WholeRequests(a, t)
  BY <1>2 DEF WholeRequests, Between
<1>5. QED BY <1>2, <1>3, <1>4 DEF t

LEMMA SendBodyStep ==
  ASSUME HttpInv, NEW k \in Conns, SendBody(k)
  PROVE  HttpInv'
<1> DEFINE s == conn[k]
           put(p) == IF s.client_open THEN Append(s.down, Token(p, s.id)) ELSE s.down
           chunked == s.response.body = "stream" /\ asked[s.id].version = 11
<1>1. /\ s \in Connections(asked) /\ s.pc = "body" /\ Good(asked, s)
      /\ asked \in Seq(Requests) /\ s.owed \in Nat
  BY DEF HttpInv, Counts, Good, Connections, SendBody
<1>2. UNCHANGED client /\ server' = server /\ ~stray' /\ cleanup' = cleanup
  BY DEF SendBody, history, HttpInv
<1>3. CASE s.response.body = "none" \/ Suppressed(s)
  <2>1. Finish(k, s)
    BY <1>3 DEF SendBody
  <2>2. NoFiles => s.owed = 0
    BY <1>1, <1>3 DEF Good, Paid, Suppressed
  <2>3. QED BY <1>1, <1>2, <2>1, <2>2, Finishing
<1>4. CASE ~(s.response.body = "none" \/ Suppressed(s))
  <2>1. \/ /\ ~Exhausted(s)
           /\ conn' = [conn EXCEPT ![k] = [s EXCEPT !.down = put("data"), !.owed = s.owed - 1]]
        \/ /\ Exhausted(s)
           /\ Finish(k, IF chunked THEN [s EXCEPT !.down = put("last")] ELSE s)
        \/ conn' \in ServerCloses(k, s)
    BY <1>4 DEF SendBody
  <2>2. CASE ~Exhausted(s) /\ conn' = [conn EXCEPT ![k] = [s EXCEPT !.down = put("data"), !.owed = s.owed - 1]]
    <3> DEFINE t == [s EXCEPT !.down = put("data"), !.owed = s.owed - 1]
    <3>1. s.owed - 1 \in Nat
      BY <1>1, <2>2 DEF Exhausted
    <3>2. ~(s.response.body = "none" \/ asked[s.id].method = "HEAD")
      BY <1>4 DEF Suppressed
    <3>3. /\ Good(asked, t) /\ t.pc = "body"
          /\ WholeRequests(asked, s) => WholeRequests(asked, t)
      <4> DEFINE n == s.owed - 1
                 d == put("data")
      <4>1. n \in Nat /\ d \in Seq(Pieces)
        BY <1>1, <3>1, Putting
      <4> HIDE DEF n, d
      <4>2. NoFiles /\ (s.response.body = "none" \/ asked[s.id].method = "HEAD") => n = 0
        BY <3>2
      <4>3. LET u == [s EXCEPT !.down = d, !.owed = n]
            IN  Good(asked, u) /\ u.pc = "body" /\ u.owed = n /\ (WholeRequests(asked, s) => WholeRequests(asked, u))
        BY <1>1, <4>1, <4>2, Sending
      <4>4. QED BY <4>3, Zenon DEF n, d
    <3>4. conn' = [conn EXCEPT ![k] = t]
      BY <2>2
    <3> HIDE DEF t
    <3>5. QED BY <1>2, <3>3, <3>4, FiberStep DEF HttpInv, Counts
  <2>3. CASE Exhausted(s) /\ Finish(k, IF chunked THEN [s EXCEPT !.down = put("last")] ELSE s)
    <3>1. s.owed = 0
      BY <2>3 DEF Exhausted
    <3>2. CASE chunked
      <4> DEFINE t == [s EXCEPT !.down = put("last"), !.owed = 0]
      <4>1. /\ Good(asked, t) /\ t.pc = "body" /\ t.owed = 0
            /\ WholeRequests(asked, s) => WholeRequests(asked, t)
        <5> DEFINE d == put("last")
        <5>1. d \in Seq(Pieces) /\ 0 \in Nat
          BY <1>1, Putting
        <5> HIDE DEF d
        <5>2. LET u == [s EXCEPT !.down = d, !.owed = 0]
              IN  /\ Good(asked, u) /\ u.pc = "body" /\ u.owed = 0
                  /\ WholeRequests(asked, s) => WholeRequests(asked, u)
          BY <1>1, <5>1, Sending
        <5>3. QED BY <5>2, Zenon DEF d
      <4>2. t = [s EXCEPT !.down = put("last")]
        <5> HIDE DEF put
        <5>1. QED BY <1>1, <3>1 DEF Connections
      <4>3. Finish(k, t)
        BY <2>3, <3>2, <4>2, Zenon
      <4> HIDE DEF t
      <4>4. QED BY <1>2, <4>1, <4>3, Finishing
    <3>3. CASE ~chunked
      <4>1. Finish(k, s)
        BY <2>3, <3>3, Zenon
      <4>2. QED BY <1>1, <1>2, <3>1, <4>1, Finishing
    <3>4. QED BY <3>2, <3>3
  <2>4. CASE conn' \in ServerCloses(k, s)
    <3>1. PICK t : /\ conn' = [conn EXCEPT ![k] = t] /\ Good(asked, t) /\ WholeRequests(asked, t)
                   /\ t.pc = "line"
      BY <1>1, <2>4, Closing DEF Connections
    <3>2. QED BY <1>2, <3>1, FiberStep DEF HttpInv, Counts
  <2>5. QED BY <2>1, <2>2, <2>3, <2>4
<1>5. QED BY <1>3, <1>4

LEMMA SendFileStep ==
  ASSUME HttpInv, NEW k \in Conns, SendFile(k)
  PROVE  HttpInv'
<1> DEFINE s == conn[k]
           data == [s EXCEPT !.down = Append(s.down, Token("data", s.id)), !.owed = s.owed - 1]
<1>1. /\ s \in Connections(asked) /\ s.pc = "body" /\ Good(asked, s)
      /\ asked \in Seq(Requests) /\ s.owed \in Nat /\ s.client_open \in BOOLEAN
  BY DEF HttpInv, Counts, Good, Connections, SendFile
<1>2. UNCHANGED client /\ server' = server /\ ~stray' /\ cleanup' = cleanup
  BY DEF SendFile, history, HttpInv
<1>3. ~NoFiles
  BY <1>1 DEF NoFiles, Good, AtRightCall, SendFile
<1>4. \/ Finish(k, s)
      \/ conn' \in ServerCloses(k, s)
      \/ ~Exhausted(s) /\ s.client_open /\ conn' = [conn EXCEPT ![k] = data]
  BY DEF SendFile
<1>5. CASE Finish(k, s)
  BY <1>1, <1>2, <1>3, <1>5, Finishing
<1>6. CASE conn' \in ServerCloses(k, s)
  <2>1. PICK t : /\ conn' = [conn EXCEPT ![k] = t] /\ Good(asked, t) /\ WholeRequests(asked, t)
                 /\ t.pc = "line"
    BY <1>1, <1>6, Closing DEF Connections
  <2>2. QED BY <1>2, <2>1, FiberStep DEF HttpInv, Counts
<1>7. CASE ~Exhausted(s) /\ s.client_open /\ conn' = [conn EXCEPT ![k] = data]
  <2> DEFINE d == IF s.client_open THEN Append(s.down, Token("data", s.id)) ELSE s.down
             t == [s EXCEPT !.down = d, !.owed = s.owed - 1]
  <2>1. s.owed - 1 \in Nat
    BY <1>1, <1>7 DEF Exhausted
  <2>2. Good(asked, t) /\ t.pc = "body" /\ (WholeRequests(asked, s) => WholeRequests(asked, t))
    <3> DEFINE n == s.owed - 1
    <3>1. n \in Nat /\ d \in Seq(Pieces)
      BY <1>1, <2>1, Putting
    <3> HIDE DEF n, d
    <3>2. NoFiles /\ (s.response.body = "none" \/ asked[s.id].method = "HEAD") => n = 0
      BY <1>3
    <3>3. LET u == [s EXCEPT !.down = d, !.owed = n]
          IN  Good(asked, u) /\ u.pc = "body" /\ u.owed = n /\ (WholeRequests(asked, s) => WholeRequests(asked, u))
      BY <1>1, <3>1, <3>2, Sending
    <3>4. QED BY <3>3, Zenon DEF n
  <2>3. conn' = [conn EXCEPT ![k] = t]
    BY <1>7, Zenon
  <2> HIDE DEF t
  <2>4. QED BY <1>2, <2>2, <2>3, FiberStep DEF HttpInv, Counts
<1>8. QED BY <1>4, <1>5, <1>6, <1>7

LEMMA FiberSteps ==
  ASSUME HttpInv, NEW k \in Conns, Fiber(k)
  PROVE  HttpInv'
BY NegotiateStep, DecodeLineStep, DecodeFieldsStep, DecodeEofStep, ReadBodyStep, HandlerThrowsStep,
   HandlerReturnsStep, SendBodyStep, SendFileStep DEF Fiber

-----------------------------------------------------------------------------
(* The steps of the accept loop                                            *)

LEMMA AcceptStep ==
  ASSUME HttpInv, NEW k \in Conns, Accept(k)
  PROVE  HttpInv'
<1> DEFINE p == IF Tls THEN "negotiate" ELSE "line"
           t == [conn[k] EXCEPT !.pc = p]
<1>1. conn[k] \in Connections(asked) /\ conn[k].pc = "backlog" /\ Good(asked, conn[k])
  BY DEF HttpInv, Good, Accept, Backlog
<1>2. /\ t \in Connections(asked) /\ t.up = conn[k].up /\ t.pc = p
      /\ t.server_open = conn[k].server_open /\ t.owed = conn[k].owed
  BY <1>1 DEF Connections, Places
<1>3. conn' = [conn EXCEPT ![k] = t]
  BY DEF Accept
<1>4. p \in {"negotiate", "line"}
  OBVIOUS
<1> HIDE DEF t, p
<1>5. Good(asked, t)
  BY <1>1, <1>2, <1>4 DEF Good, AtRightToken, Wanted, AtRightCall, Paid
<1>6. WholeRequests(asked, conn[k]) => WholeRequests(asked, t)
  BY <1>2, <1>4 DEF WholeRequests, Between
<1>7. QED BY <1>2, <1>3, <1>4, <1>5, <1>6, FiberStep DEF Accept, history, HttpInv, Counts

LEMMA SweepStep ==
  ASSUME HttpInv, Sweep
  PROVE  HttpInv'
<1>1. /\ UNCHANGED client /\ ~stray' /\ cleanup' = FALSE /\ server' \in {"dead", "wait"}
      /\ DOMAIN conn' = Conns /\ conn' = [k \in Conns |-> conn'[k]]
      /\ \A k \in Conns : conn'[k] \in {conn[k], Joined(k)}
      /\ server' = "wait" => \A k \in Conns : Over(k) => conn'[k] = Joined(k)
  <2>1. CASE \E k \in Conns : conn[k].pc = "threw"
    BY <2>1 DEF Sweep, history, HttpInv
  <2>2. CASE ~\E k \in Conns : conn[k].pc = "threw"
    BY <2>2 DEF Sweep, history, HttpInv
  <2>3. QED BY <2>1, <2>2
<1>2. ASSUME NEW k \in Conns
      PROVE  Good(asked, Joined(k)) /\ WholeRequests(asked, Joined(k)) /\ Joined(k).pc = "joined"
  <2>1. Good(asked, Fresh) /\ conn[k] \in Connections(asked)
    BY FreshIsGood DEF HttpInv, Counts, Good
  <2>2. /\ Joined(k) \in Connections(asked) /\ Joined(k).up = <<>> /\ Joined(k).pc = "joined"
        /\ Joined(k).server_open = FALSE
    BY <2>1 DEF Good, Connections, Fresh, Joined, Places
  <2>3. Chain(asked, Joined(k).up)
    BY <2>1, <2>2 DEF Good, Fresh
  <2>4. QED BY <2>2, <2>3 DEF Good, WholeRequests, AtRightToken, AtRightCall, Paid
<1>3. Counts'
  BY <1>1 DEF HttpInv, Counts, client
<1>4. \A k \in Conns : Good(asked, conn[k])'
  BY <1>1, <1>2 DEF HttpInv, client
<1>5. Links'
  <2>1. \A c \in Clients : link[c] # 0 => link[c] \in Conns
    BY HttpAssumption DEF HttpInv, Counts, Conns
  <2>2. QED BY <1>1, <1>2, <2>1 DEF HttpInv, Links, client
<1>6. HandlersJoined'
  <2>1. server' = "wait" => \A k \in Conns : conn'[k].pc # "ended"
    BY <1>1, <1>2 DEF Over
  <2>2. QED BY <2>1 DEF HandlersJoined
<1>7. QED BY <1>1, <1>3, <1>4, <1>5, <1>6 DEF HttpInv

LEMMA WakeStep ==
  ASSUME HttpInv, Wake
  PROVE  HttpInv'
BY DEF HttpInv, Wake, client, history, Counts, Links, HandlersJoined

-----------------------------------------------------------------------------
(* The steps of clients                                                    *)

(* A request is written behind what is under way.                          *)
LEMMA Writing ==
  ASSUME NEW a \in Seq(Requests), NEW r \in Requests, NEW s, Good(a, s), WholeRequests(a, s),
         s.server_open
  PROVE  LET b == Append(a, r)
             t == [s EXCEPT !.up = s.up \o RequestTokens(Len(a) + 1, r)]
         IN  Good(b, t) /\ WholeRequests(b, t) /\ t.pc = s.pc
<1> DEFINE b == Append(a, r)
           i == Len(a) + 1
           q == RequestTokens(i, r)
           t == [s EXCEPT !.up = s.up \o q]
<1>1. b \in Seq(Requests) /\ i \in 1..Len(b) /\ b[i] = r
  OBVIOUS
<1>2. Chain(b, q) /\ q # <<>> /\ Head(q).t = "line" /\ Final(b, q[Len(q)])
  <2> HIDE DEF b, i
  <2>1. RequestTokens(i, b[i]) = q
    BY <1>1
  <2>2. LET p == RequestTokens(i, b[i])
        IN  Chain(b, p) /\ p # <<>> /\ Head(p).t = "line" /\ Final(b, p[Len(p)])
    BY <1>1, RequestChain, Zenon
  <2> HIDE DEF q
  <2>3. QED BY <2>1, <2>2
<1>3. Good(b, s) /\ WholeRequests(b, s)
  BY GoodGrows
<1> HIDE DEF b, i, q
<1>4. Chain(b, s.up) /\ (s.up # <<>> => Final(b, s.up[Len(s.up)]))
  BY <1>3 DEF Good, WholeRequests
<1> DEFINE p == s.up \o q
<1>5. /\ Chain(b, p) /\ p # <<>> /\ p[Len(p)] = q[Len(q)]
      /\ Head(p) = IF s.up = <<>> THEN Head(q) ELSE Head(s.up)
  BY <1>2, <1>4, ChainJoin
<1> HIDE DEF p
<1>6. /\ t \in Connections(b) /\ t.up = p /\ t.pc = s.pc /\ t.id = s.id /\ t.kept = s.kept
      /\ t.body = s.body /\ t.server_open = s.server_open /\ t.owed = s.owed /\ t.response = s.response
  <2>1. p \in Seq(Tokens(b)) /\ t = [s EXCEPT !.up = p] /\ s \in Connections(b)
    BY <1>3, <1>5 DEF Chain, Good, p
  <2> HIDE DEF t
  <2>2. QED BY <2>1 DEF Connections
<1> HIDE DEF t
<1>7. AtRightToken(t)
  <2>1. CASE s.up = <<>>
    <3>1. Between(s) /\ Head(p).t = "line"
      BY <1>2, <1>3, <1>5, <2>1 DEF WholeRequests
    <3>2. QED BY <1>6, <3>1 DEF AtRightToken, Wanted, Between
  <2>2. CASE s.up # <<>>
    BY <1>3, <1>5, <1>6, <2>2 DEF Good, AtRightToken, Wanted
  <2>3. QED BY <2>1, <2>2
<1>8. Good(b, t)
  BY <1>3, <1>5, <1>6, <1>7 DEF Good, AtRightCall, Paid
<1>9. WholeRequests(b, t)
  BY <1>2, <1>5, <1>6 DEF WholeRequests
<1>10. QED BY <1>6, <1>8, <1>9 DEF b, t, q, i

LEMMA RequestStep ==
  ASSUME HttpInv, NEW c \in Clients, Request(c)
  PROVE  HttpInv'
<1> DEFINE i == Len(asked) + 1
           k == IF link[c] = 0 THEN n_conns + 1 ELSE link[c]
           opened == [Fresh EXCEPT !.client_open = TRUE, !.server_open = TRUE, !.pc = "backlog"]
           s == IF link[c] = 0 THEN opened ELSE conn[k]
           t(r) == IF s.server_open THEN [s EXCEPT !.up = s.up \o RequestTokens(i, r)] ELSE s
<1>1. PICK r \in Requests :
        /\ asked' = Append(asked, r) /\ link' = [link EXCEPT ![c] = k]
        /\ n_conns' = IF link[c] = 0 THEN k ELSE n_conns
        /\ conn' = [conn EXCEPT ![k] = t(r)]
        /\ call' = [call EXCEPT ![c] = i]
  BY DEF Request
<1>2. /\ asked \in Seq(Requests) /\ asked' \in Seq(Requests) /\ i \in Nat \ {0}
      /\ link[c] \in 0..n_conns /\ n_conns \in 0..MaxConns /\ MaxConns \in Nat
      /\ link[c] = 0 => n_conns < MaxConns
  BY <1>1, HttpAssumption DEF HttpInv, Counts, Request
<1>3. /\ k \in Conns /\ n_conns' \in 0..MaxConns /\ k \in 1..n_conns' /\ n_conns \in 0..n_conns'
  BY <1>1, <1>2 DEF Conns
<1>4. Good(asked, opened) /\ WholeRequests(asked, opened) /\ opened.pc = "backlog"
  <2>1. Good(asked, Fresh)
    BY <1>2, FreshIsGood
  <2>2. /\ opened \in Connections(asked) /\ opened.up = <<>> /\ opened.pc = "backlog"
        /\ opened.owed = 0
    BY <2>1 DEF Good, Connections, Fresh, Places
  <2>3. Chain(asked, opened.up)
    BY <2>1, <2>2 DEF Good, Fresh
  <2> HIDE DEF opened
  <2>4. QED BY <2>2, <2>3 DEF Good, WholeRequests, Between, AtRightToken, AtRightCall, Paid
<1> HIDE DEF opened
<1>5. Good(asked, s) /\ WholeRequests(asked, s) /\ (s.pc = "ended" => s = conn[k])
  BY <1>3, <1>4 DEF HttpInv, Links
<1>6. Good(asked', t(r)) /\ WholeRequests(asked', t(r)) /\ t(r).pc = s.pc
  <2> HIDE DEF s, k
  <2>1. CASE s.server_open
    <3>1. LET b == Append(asked, r)
              u == [s EXCEPT !.up = s.up \o RequestTokens(Len(asked) + 1, r)]
          IN  Good(b, u) /\ WholeRequests(b, u) /\ u.pc = s.pc
      <4> HIDE DEF t, i
      <4>1. asked \in Seq(Requests) /\ Good(asked, s) /\ WholeRequests(asked, s) /\ s.server_open
        BY <1>2, <1>5, <2>1
      <4>2. QED BY <4>1, Writing, Zenon
    <3>2. t(r) = [s EXCEPT !.up = s.up \o RequestTokens(Len(asked) + 1, r)]
      BY <2>1
    <3> HIDE DEF t
    <3>3. QED BY <1>1, <3>1, <3>2
  <2>2. CASE ~s.server_open
    BY <1>1, <1>2, <1>5, <2>2, GoodGrows
  <2>3. QED BY <2>1, <2>2
<1> HIDE DEF t, s
<1>7. /\ server' = server /\ cleanup' = cleanup /\ stray' = stray
  BY DEF Request, history
<1>8. \A j \in Conns : conn'[j] = IF j = k THEN t(r) ELSE conn[j]
  BY <1>1, <1>3 DEF HttpInv, Counts
<1>9. \A j \in Conns : Good(asked', conn[j]) /\ (WholeRequests(asked, conn[j]) => WholeRequests(asked', conn[j]))
  BY <1>1, <1>2, GoodGrows DEF HttpInv
<1>10. \A d \in Clients : /\ link[d] \in 0..n_conns
                          /\ link'[d] = IF d = c THEN k ELSE link[d]
                          /\ d # c /\ link[d] # 0 => link[d] # k /\ link[d] \in Conns
                          /\ call'[d] = IF d = c THEN i ELSE call[d]
  <2> TAKE d \in Clients
  <2>1. link[d] \in 0..n_conns /\ link \in [Clients -> 0..n_conns] /\ call \in [Clients -> Nat]
    BY DEF HttpInv, Counts
  <2>2. link'[d] = IF d = c THEN k ELSE link[d]
    <3> HIDE DEF k
    <3>1. QED BY <1>1, <2>1
  <2>3. call'[d] = IF d = c THEN i ELSE call[d]
    <3> HIDE DEF i
    <3>1. QED BY <1>1, <2>1
  <2>4. d # c /\ link[d] # 0 => link[d] # k /\ link[d] \in Conns
    BY <1>2, <2>1 DEF HttpInv, Links, Conns
  <2>5. QED BY <2>1, <2>2, <2>3, <2>4
<1>11. Counts'
  <2>1. link' \in [Clients -> 0..n_conns']
    BY <1>1, <1>3, <1>10 DEF HttpInv, Counts
  <2>2. call' \in [Clients -> Nat]
    BY <1>1, <1>2 DEF HttpInv, Counts
  <2>3. DOMAIN conn' = Conns /\ conn' = [j \in Conns |-> conn'[j]]
    BY <1>1 DEF HttpInv, Counts
  <2>4. QED BY <1>2, <1>3, <1>7, <2>1, <2>2, <2>3 DEF HttpInv, Counts
<1> HIDE DEF k, i
<1>12. \A j \in Conns : Good(asked, conn[j])'
  BY <1>6, <1>8, <1>9
<1>13. Links'
  <2>1. ASSUME NEW d \in Clients, link'[d] # 0
        PROVE  WholeRequests(asked', conn'[link'[d]])
    <3>1. CASE d = c
      BY <1>3, <1>6, <1>8, <1>10, <3>1
    <3>2. CASE d # c
      BY <1>8, <1>9, <1>10, <2>1, <3>2 DEF HttpInv, Links
    <3>3. QED BY <3>1, <3>2
  <2>2. \A d \in Clients : call'[d] # 0 => link'[d] # 0
    BY <1>3, <1>10 DEF HttpInv, Links
  <2>3. \A d, e \in Clients : link'[d] = link'[e] /\ link'[d] # 0 => d = e
    BY <1>10 DEF HttpInv, Links
  <2>4. QED BY <2>1, <2>2, <2>3 DEF Links
<1>14. HandlersJoined'
  BY <1>3, <1>5, <1>6, <1>7, <1>8 DEF HttpInv, HandlersJoined
<1>15. QED BY <1>7, <1>11, <1>12, <1>13, <1>14 DEF HttpInv

(* A client takes what has arrived on its connection, or leaves it.        *)
LEMMA ClientStep ==
  ASSUME HttpInv, NEW c \in Clients, call[c] # 0, NEW t, Good(asked, t), t.pc = conn[link[c]].pc,
         conn' = [conn EXCEPT ![link[c]] = t],
         \/ /\ call' \in {call, [call EXCEPT ![c] = 0]} /\ link' = link
            /\ WholeRequests(asked, conn[link[c]]) => WholeRequests(asked, t)
         \/ call' = [call EXCEPT ![c] = 0] /\ link' = [link EXCEPT ![c] = 0],
         UNCHANGED <<asked, n_conns, server, cleanup, history>>
  PROVE  HttpInv'
<1> DEFINE k == link[c]
<1>1. \A d \in Clients : link[d] \in 0..n_conns /\ (link[d] # 0 => link[d] \in Conns)
  BY HttpAssumption DEF HttpInv, Counts, Conns
<1>2. k # 0 /\ k \in Conns
  BY <1>1 DEF HttpInv, Links
<1>3. \A j \in Conns : conn'[j] = IF j = k THEN t ELSE conn[j]
  BY DEF HttpInv, Counts
<1>4. UNCHANGED <<asked, n_conns, server, cleanup, stray>>
  BY DEF history
<1>5. Counts'
  <2>1. n_conns \in Nat
    BY HttpAssumption DEF HttpInv, Counts
  <2>2. call \in [Clients -> Nat] /\ link \in [Clients -> 0..n_conns]
    BY DEF HttpInv, Counts
  <2>3. [call EXCEPT ![c] = 0] \in [Clients -> Nat] /\ [link EXCEPT ![c] = 0] \in [Clients -> 0..n_conns]
    BY <2>1, <2>2
  <2>4. call' \in [Clients -> Nat] /\ link' \in [Clients -> 0..n_conns]
    BY <2>2, <2>3
  <2>5. DOMAIN conn' = Conns /\ conn' = [j \in Conns |-> conn'[j]]
    BY DEF HttpInv, Counts
  <2>6. QED BY <1>4, <2>4, <2>5 DEF HttpInv, Counts
<1>6. \A j \in Conns : Good(asked, conn[j])'
  BY <1>3, <1>4 DEF HttpInv
<1>7. HandlersJoined'
  BY <1>3, <1>4 DEF HttpInv, HandlersJoined
<1>8. Links'
  <2>1. \A d \in Clients : d # c /\ link[d] # 0 => link[d] # k
    BY <1>2 DEF HttpInv, Links
  <2>2. CASE /\ call' \in {call, [call EXCEPT ![c] = 0]} /\ link' = link
             /\ WholeRequests(asked, conn[link[c]]) => WholeRequests(asked, t)
    <3>1. \A d \in Clients : call'[d] # 0 => call[d] # 0
      BY <2>2 DEF HttpInv, Counts
    <3>2. QED BY <1>1, <1>3, <1>4, <2>1, <2>2, <3>1 DEF HttpInv, Links
  <2>3. CASE call' = [call EXCEPT ![c] = 0] /\ link' = [link EXCEPT ![c] = 0]
    <3>1. call \in [Clients -> Nat] /\ link \in [Clients -> 0..n_conns]
      BY DEF HttpInv, Counts
    <3>2. ASSUME NEW d \in Clients
          PROVE  /\ link'[d] = IF d = c THEN 0 ELSE link[d]
                 /\ call'[d] = IF d = c THEN 0 ELSE call[d]
      BY <2>3, <3>1
    <3>3. \A d \in Clients : d # c /\ link[d] # 0 => conn'[link[d]] = conn[link[d]]
      BY <1>1, <1>3, <2>1
    <3>4. \A d \in Clients : link'[d] # 0 => WholeRequests(asked', conn'[link'[d]])
      BY <1>4, <3>2, <3>3 DEF HttpInv, Links
    <3>5. \A d \in Clients : call'[d] # 0 => link'[d] # 0
      BY <3>2 DEF HttpInv, Links
    <3>6. \A d, e \in Clients : link'[d] = link'[e] /\ link'[d] # 0 => d = e
      BY <3>2 DEF HttpInv, Links
    <3>7. QED BY <3>4, <3>5, <3>6 DEF Links
  <2>4. QED BY <2>2, <2>3
<1>9. QED BY <1>4, <1>5, <1>6, <1>7, <1>8 DEF HttpInv

(* What a client reads, and that it closes, is nothing to the fiber.       *)
LEMMA Reading ==
  ASSUME NEW a, NEW s, Good(a, s), NEW d \in Seq(Pieces), NEW open \in BOOLEAN
  PROVE  LET t == [s EXCEPT !.down = d, !.client_open = open]
         IN  Good(a, t) /\ t.pc = s.pc /\ (WholeRequests(a, s) => WholeRequests(a, t))
<1> DEFINE t == [s EXCEPT !.down = d, !.client_open = open]
<1>1. /\ t \in Connections(a) /\ t.up = s.up /\ t.pc = s.pc /\ t.id = s.id /\ t.kept = s.kept
      /\ t.body = s.body /\ t.server_open = s.server_open /\ t.owed = s.owed
      /\ t.response = s.response
  BY DEF Good, Connections
<1> HIDE DEF t
<1>2. Good(a, t)
  BY <1>1 DEF Good, AtRightToken, Wanted, AtRightCall, Paid
<1>3. WholeRequests(a, s) => WholeRequests(a, t)
  BY <1>1 DEF WholeRequests, Between
<1>4. QED BY <1>1, <1>2, <1>3 DEF t

LEMMA ReturnsTo ==
  ASSUME HttpInv, NEW c \in Clients, NEW a, NEW reusable \in BOOLEAN, Return(c, a, reusable)
  PROVE  /\ call' = [call EXCEPT ![c] = 0]
         /\ reusable => link' = link
         /\ ~reusable => link' = [link EXCEPT ![c] = 0]
BY DEF HttpInv, Counts, Return

(* The connection of a client in a call.                                   *)
LEMMA Connected ==
  ASSUME HttpInv, NEW c \in Clients, call[c] # 0
  PROVE  /\ link[c] \in Conns /\ Good(asked, conn[link[c]])
         /\ conn[link[c]] \in Connections(asked)
<1>1. link[c] \in Conns
  <2>1. link[c] # 0
    BY DEF HttpInv, Links
  <2>2. link[c] \in 0..n_conns /\ n_conns \in 0..MaxConns /\ MaxConns \in Nat
    BY HttpAssumption DEF HttpInv, Counts
  <2>3. QED BY <2>1, <2>2 DEF Conns
<1>2. Good(asked, conn[link[c]])
  BY <1>1 DEF HttpInv
<1>3. QED BY <1>1, <1>2 DEF Good

LEMMA ReadResponseStep ==
  ASSUME HttpInv, NEW c \in Clients, ReadResponse(c)
  PROVE  HttpInv'
<1> DEFINE k == link[c]
           s == conn[k]
           q == Tail(s.down)
           taken == [s EXCEPT !.down = q]
           shut == [s EXCEPT !.down = <<>>, !.client_open = FALSE]
<1>1. /\ call[c] # 0 /\ s.down # <<>> /\ k \in Conns /\ Good(asked, s) /\ s \in Connections(asked)
      /\ s.down \in Seq(Pieces) /\ s.client_open \in BOOLEAN
  BY Connected DEF ReadResponse, Arrived, Connections
<1>2. q \in Seq(Pieces) /\ <<>> \in Seq(Pieces)
  <2> DEFINE d == s.down
  <2>1. d \in Seq(Pieces) /\ d # <<>>
    BY <1>1
  <2> HIDE DEF d
  <2>2. Tail(d) \in Seq(Pieces)
    BY <2>1, HeadTailProperties
  <2>3. QED BY <2>2 DEF d
<1>3. /\ Good(asked, taken) /\ taken.pc = s.pc
      /\ WholeRequests(asked, s) => WholeRequests(asked, taken)
  <2> DEFINE open == s.client_open
             t == [s EXCEPT !.down = q, !.client_open = open]
  <2> HIDE DEF q
  <2>1. t = taken
    BY <1>1 DEF Connections
  <2>2. open \in BOOLEAN
    BY <1>1
  <2> HIDE DEF open, s
  <2>3. Good(asked, t) /\ t.pc = s.pc /\ (WholeRequests(asked, s) => WholeRequests(asked, t))
    BY <1>1, <1>2, <2>2, Reading
  <2> HIDE DEF t, taken
  <2>4. QED BY <2>1, <2>3
<1>4. Good(asked, shut) /\ shut.pc = s.pc
  BY <1>1, <1>2, Reading, Zenon
<1>5. UNCHANGED <<asked, n_conns, server, cleanup, history>>
  BY DEF ReadResponse
<1>6. \/ conn' = [conn EXCEPT ![k] = shut] /\ Return(c, Failure, FALSE)
      \/ \E r : \E reusable \in BOOLEAN :
           /\ conn' = IF reusable THEN [conn EXCEPT ![k] = taken] ELSE [conn EXCEPT ![k] = shut]
           /\ Return(c, r, reusable)
      \/ conn' = [conn EXCEPT ![k] = taken] /\ UNCHANGED <<call, link>>
  <2> DEFINE ok == [conn EXCEPT ![k].down = Tail(@)]
             no == [ok EXCEPT ![k].down = <<>>, ![k].client_open = FALSE]
             r == Append(read[c], Head(conn[k].down))
             sense == IF Len(r) = 1 THEN Head(conn[k].down).t = "header"
                      ELSE r[1].chunked => Head(conn[k].down).t \in {"data", "last"}
  <2>1. ok = [conn EXCEPT ![k] = taken] /\ no = [conn EXCEPT ![k] = shut]
    BY <1>1 DEF HttpInv, Counts, Connections
  <2>2. CASE ~sense
    <3>1. conn' = no /\ Return(c, Failure, FALSE)
      BY <2>2, Zenon DEF ReadResponse
    <3>2. QED BY <2>1, <3>1
  <2>3. CASE sense /\ Whole(call[c], r)
    <3>1. conn' = (IF Reusable(r[1]) THEN ok ELSE no) /\ Return(c, Outcome(r), Reusable(r[1]))
      BY <2>3, Zenon DEF ReadResponse
    <3>2. Reusable(r[1]) \in BOOLEAN
      BY DEF Reusable
    <3> HIDE DEF ok, no, r, taken, shut
    <3>3. QED BY <2>1, <3>1, <3>2
  <2>4. CASE sense /\ ~Whole(call[c], r)
    <3>1. conn' = ok /\ UNCHANGED <<call, link>>
      BY <2>4, Zenon DEF ReadResponse
    <3>2. QED BY <2>1, <3>1
  <2>5. QED BY <2>2, <2>3, <2>4
<1> HIDE DEF taken, shut
<1>7. CASE conn' = [conn EXCEPT ![k] = shut] /\ Return(c, Failure, FALSE)
  <2>1. call' = [call EXCEPT ![c] = 0] /\ link' = [link EXCEPT ![c] = 0]
    BY <1>7, ReturnsTo
  <2>2. QED BY <1>1, <1>4, <1>5, <1>7, <2>1, ClientStep
<1>8. CASE \E r : \E reusable \in BOOLEAN :
             /\ conn' = IF reusable THEN [conn EXCEPT ![k] = taken] ELSE [conn EXCEPT ![k] = shut]
             /\ Return(c, r, reusable)
  <2>1. PICK r : \E reusable \in BOOLEAN :
          /\ conn' = IF reusable THEN [conn EXCEPT ![k] = taken] ELSE [conn EXCEPT ![k] = shut]
          /\ Return(c, r, reusable)
    BY <1>8, Zenon
  <2>2. PICK reusable \in BOOLEAN :
          /\ conn' = IF reusable THEN [conn EXCEPT ![k] = taken] ELSE [conn EXCEPT ![k] = shut]
          /\ Return(c, r, reusable)
    BY <2>1, Zenon
  <2>3. /\ call' = [call EXCEPT ![c] = 0]
        /\ reusable => link' = link
        /\ ~reusable => link' = [link EXCEPT ![c] = 0]
    BY <2>2, ReturnsTo
  <2>4. CASE reusable
    <3>1. conn' = [conn EXCEPT ![k] = taken] /\ link' = link
      BY <2>2, <2>3, <2>4, Zenon
    <3>2. QED BY <1>1, <1>3, <1>5, <2>3, <3>1, ClientStep
  <2>5. CASE ~reusable
    <3>1. conn' = [conn EXCEPT ![k] = shut] /\ link' = [link EXCEPT ![c] = 0]
      BY <2>2, <2>3, <2>5, Zenon
    <3>2. QED BY <1>1, <1>4, <1>5, <2>3, <3>1, ClientStep
  <2>6. QED BY <2>4, <2>5
<1>9. CASE conn' = [conn EXCEPT ![k] = taken] /\ UNCHANGED <<call, link>>
  BY <1>1, <1>3, <1>5, <1>9, ClientStep
<1>10. QED BY <1>6, <1>7, <1>8, <1>9

LEMMA ReadEofStep ==
  ASSUME HttpInv, NEW c \in Clients, ReadEof(c)
  PROVE  HttpInv'
<1> DEFINE k == link[c]
           s == conn[k]
           shut == [s EXCEPT !.down = <<>>, !.client_open = FALSE]
<1>1. /\ call[c] # 0 /\ k \in Conns /\ Good(asked, s) /\ s \in Connections(asked)
      /\ <<>> \in Seq(Pieces)
  BY Connected DEF ReadEof
<1>2. Good(asked, shut) /\ shut.pc = s.pc
  BY <1>1, Reading, Zenon
<1>3. conn' = [conn EXCEPT ![k] = shut]
  BY <1>1 DEF ReadEof, ClientCloses, HttpInv, Counts, Connections
<1>4. call' = [call EXCEPT ![c] = 0] /\ link' = [link EXCEPT ![c] = 0]
  BY ReturnsTo DEF ReadEof
<1>5. UNCHANGED <<asked, n_conns, server, cleanup, history>>
  BY DEF ReadEof
<1> HIDE DEF shut
<1>6. QED BY <1>1, <1>2, <1>3, <1>4, <1>5, ClientStep

LEMMA BreakOffStep ==
  ASSUME HttpInv, NEW c \in Clients, BreakOff(c)
  PROVE  HttpInv'
<1> DEFINE k == link[c]
           s == conn[k]
           shut == [s EXCEPT !.down = <<>>, !.client_open = FALSE]
<1>1. /\ call[c] # 0 /\ k \in Conns /\ Good(asked, s) /\ s \in Connections(asked)
      /\ <<>> \in Seq(Pieces)
  BY Connected DEF BreakOff
<1>2. PICK m \in 0..Len(s.up) :
        conn' = [ClientCloses(k) EXCEPT ![k].up = SubSeq(@, 1, m)]
  BY DEF BreakOff
<1> DEFINE q == SubSeq(s.up, 1, m)
           t == [shut EXCEPT !.up = q]
<1>3. Good(asked, shut) /\ shut.pc = s.pc /\ shut.up = s.up
  <2>1. Good(asked, shut) /\ shut.pc = s.pc
    BY <1>1, Reading, Zenon
  <2>2. shut.up = s.up
    BY <1>1 DEF Connections
  <2>3. QED BY <2>1, <2>2
<1>4. Chain(asked, q) /\ (q # <<>> => s.up # <<>> /\ Head(q) = Head(s.up))
  BY <1>1, ChainCut DEF Good
<1>5. conn' = [conn EXCEPT ![k] = t]
  <2>1. ClientCloses(k) = [conn EXCEPT ![k] = shut]
    BY <1>1 DEF ClientCloses, HttpInv, Counts, Connections
  <2>2. ClientCloses(k)[k].up = s.up
    BY <1>1, <1>3, <2>1 DEF HttpInv, Counts
  <2> HIDE DEF shut
  <2>3. conn' = [ClientCloses(k) EXCEPT ![k] = t]
    BY <1>1, <1>2, <2>1, <2>2 DEF HttpInv, Counts
  <2> HIDE DEF t
  <2>4. QED BY <1>1, <2>1, <2>3 DEF HttpInv, Counts
<1> HIDE DEF shut, q
<1>6. /\ t \in Connections(asked) /\ t.up = q /\ t.pc = s.pc /\ t.id = shut.id /\ t.kept = shut.kept
      /\ t.body = shut.body /\ t.server_open = shut.server_open /\ t.owed = shut.owed
      /\ t.response = shut.response
  BY <1>3, <1>4 DEF Good, Chain, Connections
<1> HIDE DEF t
<1>7. Good(asked, t)
  BY <1>3, <1>4, <1>6 DEF Good, AtRightToken, Wanted, AtRightCall, Paid
<1>8. call' = [call EXCEPT ![c] = 0] /\ link' = [link EXCEPT ![c] = 0]
  BY ReturnsTo DEF BreakOff
<1>9. UNCHANGED <<asked, n_conns, server, cleanup, history>>
  BY DEF BreakOff
<1>10. QED BY <1>1, <1>5, <1>6, <1>7, <1>8, <1>9, ClientStep

-----------------------------------------------------------------------------
(* The theorems                                                            *)

LEMMA HttpInvHolds == Spec => []HttpInv
<1>1. Init => HttpInv
  <2> SUFFICES ASSUME Init PROVE HttpInv
    OBVIOUS
  <2>1. asked \in Seq(Requests)
    BY DEF Init
  <2>2. Counts
    <3>1. n_conns \in 0..MaxConns /\ 0 \in 0..n_conns
      BY HttpAssumption DEF Init
    <3>2. DOMAIN conn = Conns /\ conn = [k \in Conns |-> conn[k]]
      BY DEF Init
    <3>3. QED BY <2>1, <3>1, <3>2 DEF Init, Counts
  <2>3. \A k \in Conns : Good(asked, conn[k])
    BY <2>1, FreshIsGood DEF Init
  <2>4. Links /\ ~stray /\ HandlersJoined
    BY DEF Init, Links, HandlersJoined
  <2>5. QED BY <2>2, <2>3, <2>4 DEF HttpInv
<1>2. HttpInv /\ [Next]_vars => HttpInv'
  <2> SUFFICES ASSUME HttpInv, [Next]_vars PROVE HttpInv'
    OBVIOUS
  <2>1. CASE Next
    <3>1. ASSUME NEW c \in Clients, Request(c) \/ Client(c) \/ BreakOff(c) PROVE HttpInv'
      BY <3>1, RequestStep, ReadResponseStep, ReadEofStep, BreakOffStep DEF Client
    <3>2. ASSUME Serve PROVE HttpInv'
      BY <3>2, SweepStep, WakeStep, AcceptStep DEF Serve
    <3>3. QED BY <2>1, <3>1, <3>2, FiberSteps DEF Next
  <2>2. CASE UNCHANGED vars
    BY <2>2 DEF vars, HttpInv, Counts, Links, HandlersJoined
  <2>3. QED BY <2>1, <2>2
<1>3. QED BY <1>1, <1>2, PTL DEF Spec

(* Whatever clients send and wherever they break off: a connection's fiber  *)
(* reads each request from where the last one ended, a handler reads the    *)
(* body of its own request only, and the accept loop never waits while a    *)
(* fiber that ended is to be joined (HandleSingleRequest, FiberMain).       *)
THEOREM BoundariesHold == Spec => [](RequestBoundaries /\ HandlersJoined)
<1>1. HttpInv => RequestBoundaries /\ HandlersJoined
  BY DEF HttpInv, Good, AtRightToken, Wanted, RequestBoundaries
<1>2. QED BY <1>1, HttpInvHolds, PTL

(* And a connection that is kept for another request has been sent what the *)
(* header announced, for responses that are made in memory: of a file Pump  *)
(* may send a part only (io_stream.linux.cpp).                              *)
THEOREM BoundariesAreKept ==
  ASSUME \A r \in Responses : r.body # "file"
  PROVE  Spec => []BoundariesKept
<1>1. HttpInv => BoundariesKept
  BY DEF HttpInv, Good, AtRightToken, Wanted, Paid, NoFiles,
         RequestBoundaries, AnnouncedLengthSent, BoundariesKept
<1>2. QED BY <1>1, HttpInvHolds, PTL

-----------------------------------------------------------------------------
(* The calls                                                               *)

Replies == [status : {"OK", "NO_CONTENT"}, n : {0} \cup UNION {0..(r.n + 1) : r \in Responses}]

(* The call that the fiber of s has not answered yet, or 0.                *)
Due(s) == IF s.pc \in {"fields", "handler"} THEN s.id
          ELSE IF s.up # <<>> /\ s.up[1].t = "line" THEN s.up[1].id ELSE 0

(* Of one request at a time there is something on the way; a socket that   *)
(* is closed gets nothing any more.                                        *)
Single(s) ==
  /\ \A j \in 2..Len(s.up) : s.up[j].t # "line"
  /\ s.pc \in {"fields", "handler"} => \A j \in 1..Len(s.up) : s.up[j].t # "line"
  /\ ~s.server_open => s.up = <<>> /\ s.pc \notin {"fields", "handler", "body"}

(* The answer to a request q is a header only; the length of r.            *)
HeaderOnly(q, h) == q.method = "HEAD" \/ h.status = "NO_CONTENT"

(* What the client of call i has of the answer p to its request q, in T:   *)
(* a header, and behind it no more than was answered.                      *)
Begins(q, i, p, T) ==
  /\ T[1].id = i /\ p \in Replies /\ T[1].status = p.status
  /\ HeaderOnly(q, T[1]) => p.n = 0
  /\ \A j \in 2..Len(T) : T[j].t \in (IF j = Len(T) /\ T[1].chunked THEN {"data", "last"} ELSE {"data"})
  /\ ~HeaderOnly(q, T[1]) =>
       /\ T[Len(T)].t = "last" => p.n = Len(T) - 2
       /\ T[Len(T)].t # "last" => Len(T) - 1 <= p.n
       /\ T[1].length >= 0 => ~T[1].chunked /\ T[1].length = p.n
       /\ T[1].length < 0 /\ q.version = 11 => T[1].chunked

(* The fiber of s goes on with that answer.                                *)
GoesOn(q, i, p, T, s) ==
  /\ ~T[1].close => s.up = <<>>
  /\ s.pc = "body" =>
       /\ s.id = i /\ T[Len(T)].t # "last"
       /\ T[1].chunked <=> s.response.body = "stream" /\ q.version = 11
       /\ ~HeaderOnly(q, T[1]) =>
            /\ Len(T) - 1 + s.owed = s.response.n
            /\ p.n = s.response.n + (IF s.response.fails THEN 1 ELSE 0)

ErrorHeader == Header(0, "ERROR", 11, "none", 0, TRUE)

(* What a client sees of s: it has read rd.                                *)
View(q, i, p, rd, s) ==
  LET T == rd \o s.down IN
  /\ s.client_open /\ Due(s) \in {0, i}
  /\ rd # <<>> => rd[1].t = "header" /\ ~HeaderOnly(q, rd[1])
  /\ T # <<>> /\ T[1].t = "header" =>
       \/ Len(T) = 1 /\ T[1] = ErrorHeader /\ p = Nothing /\ ~s.server_open
       \/ Begins(q, i, p, T) /\ GoesOn(q, i, p, T, s)

(* A connection that is kept for another call.                             *)
Idle(s) == /\ s.client_open /\ s.up = <<>> /\ s.pc \notin {"fields", "handler"}
           /\ \A j \in 1..Len(s.down) : s.down[j].t # "header"

Ledger == /\ reply \in [Calls -> Replies \cup {Nothing}] /\ DOMAIN answer = Calls
          /\ Len(asked) <= MaxCalls
          /\ \A i \in Calls : i > Len(asked) => reply[i] = Nothing /\ answer[i] = Nothing
          /\ read \in [Clients -> Seq(Pieces)]
Dues == \A k \in Conns :
          /\ Single(conn[k])
          /\ Due(conn[k]) # 0 =>
               /\ Due(conn[k]) \in 1..Len(asked) /\ reply[Due(conn[k])] = Nothing
               /\ \A m \in Conns : Due(conn[m]) = Due(conn[k]) => m = k
Views == \A c \in Clients :
           /\ link[c] # 0 /\ call[c] = 0 => Idle(conn[link[c]])
           /\ call[c] # 0 =>
                /\ call[c] \in 1..Len(asked) /\ answer[call[c]] = Nothing
                /\ View(asked[call[c]], call[c], reply[call[c]], read[c], conn[link[c]])
                /\ \A k \in Conns : Due(conn[k]) = call[c] => k = link[c]
                /\ \A d \in Clients : call[d] = call[c] => d = c
CallInv == Ledger /\ Dues /\ Views

LEMMA Longer ==
  ASSUME NEW rd \in Seq(Pieces), NEW d \in Seq(Pieces)
  PROVE  /\ rd \o d \in Seq(Pieces) /\ Len(rd \o d) = Len(rd) + Len(d)
         /\ rd \o <<>> = rd
         /\ \A j \in 1..Len(rd) : (rd \o d)[j] = rd[j]
         /\ \A j \in 1..Len(d) : (rd \o d)[Len(rd) + j] = d[j]
         /\ rd = <<>> => rd \o d = d
         /\ \A x \in Pieces : rd \o Append(d, x) = Append(rd \o d, x)
<1> HIDE DEF Pieces
<1>1. \A x \in Pieces : rd \o Append(d, x) = Append(rd \o d, x)
  OBVIOUS
<1>2. QED BY <1>1

LEMMA Appended ==
  ASSUME NEW T \in Seq(Pieces), NEW x \in Pieces
  PROVE  /\ Append(T, x) \in Seq(Pieces) /\ Len(Append(T, x)) = Len(T) + 1
         /\ \A j \in 1..Len(T) : Append(T, x)[j] = T[j]
         /\ Append(T, x)[Len(T) + 1] = x
         /\ T = <<>> <=> Len(T) = 0
<1> HIDE DEF Pieces
<1>1. QED BY EmptySeq

(* No answer is taken for none.                                            *)
LEMMA NothingIsNoReply == Nothing \notin Replies
BY DEF Nothing, Replies

(* The socket is closed; what was under way arrives or is lost.            *)
LEMMA ClosedView ==
  ASSUME NEW q, NEW i, NEW p, NEW rd \in Seq(Pieces), NEW s, NEW t, s.down \in Seq(Pieces),
         View(q, i, p, rd, s),
         t.down \in {s.down, <<>>}, t.client_open = s.client_open, t.up = <<>>,
         t.pc \notin {"fields", "handler", "body"}, ~t.server_open
  PROVE  View(q, i, p, rd, t)
<1> DEFINE T == rd \o s.down
           U == rd \o t.down
<1>1. t.client_open /\ Due(t) = 0 /\ (rd # <<>> => rd[1].t = "header" /\ ~HeaderOnly(q, rd[1]))
  BY DEF View, Due
<1>2. ASSUME U # <<>>, U[1].t = "header"
      PROVE  \/ Len(U) = 1 /\ U[1] = ErrorHeader /\ p = Nothing
             \/ Begins(q, i, p, U)
  <2>1. CASE t.down = s.down
    BY <1>2, <2>1 DEF View
  <2>2. CASE t.down = <<>>
    <3>1. /\ U = rd /\ rd # <<>> /\ Len(rd) \in Nat \ {0} /\ Len(T) \in Nat /\ Len(rd) <= Len(T)
          /\ \A j \in 1..Len(rd) : T[j] = U[j]
      BY <1>2, <2>2, Longer, EmptySeq
    <3>2. T # <<>> /\ T[1] = U[1]
      BY <3>1
    <3>3. \/ Len(T) = 1 /\ T[1] = ErrorHeader /\ p = Nothing
          \/ Begins(q, i, p, T)
      BY <1>2, <3>2 DEF View
    <3>4. CASE Len(T) = 1 /\ T[1] = ErrorHeader /\ p = Nothing
      BY <3>1, <3>2, <3>4
    <3>5. CASE Begins(q, i, p, T)
      <4> HIDE DEF T, U
      <4>1. CASE Len(U) = Len(T)
        BY <3>1, <3>2, <3>5, <4>1 DEF Begins
      <4>2. CASE Len(U) < Len(T)
        <5>1. \A j \in 2..Len(U) : U[j].t = "data"
          BY <3>1, <3>5, <4>2 DEF Begins
        <5>2. U[Len(U)].t # "last"
          BY <1>2, <3>1, <5>1
        <5>3. ~HeaderOnly(q, T[1]) => Len(U) - 1 <= p.n
          <6>1. p.n \in Int
            BY <3>5, ResponsesAssumption, HttpAssumption DEF Begins, Replies
          <6>2. QED BY <3>1, <3>5, <4>2, <6>1 DEF Begins
        <5>4. QED BY <3>1, <3>2, <3>5, <5>1, <5>2, <5>3 DEF Begins
      <4>3. QED BY <3>1, <4>1, <4>2
    <3>6. QED BY <3>3, <3>4, <3>5
  <2>3. QED BY <2>1, <2>2
<1>3. \A T1 : GoesOn(q, i, p, T1, t)
  BY DEF GoesOn
<1>4. QED BY <1>1, <1>2, <1>3 DEF View

(* While a request is due, no header of its response has come.             *)
LEMMA Unheard ==
  ASSUME NEW q, NEW i, NEW p, NEW rd \in Seq(Pieces), NEW s, s.down \in Seq(Pieces),
         View(q, i, p, rd, s), s.server_open, Due(s) # 0, Due(s) = i => p = Nothing
  PROVE  /\ Due(s) = i /\ p = Nothing /\ rd = <<>>
         /\ s.down # <<>> => s.down[1].t # "header"
<1>1. Due(s) = i /\ p = Nothing
  BY DEF View
<1>2. ~(rd \o s.down # <<>> /\ (rd \o s.down)[1].t = "header")
  BY <1>1, NothingIsNoReply DEF View, Begins
<1>3. rd = <<>>
  <2>1. rd # <<>> => /\ Len(rd) \in Nat \ {0} /\ rd \o s.down # <<>> /\ (rd \o s.down)[1] = rd[1]
    BY Longer, EmptySeq
  <2>2. QED BY <1>2, <2>1 DEF View
<1>4. rd \o s.down = s.down
  BY <1>3, Longer
<1>5. QED BY <1>1, <1>2, <1>3, <1>4

(* What a step of the fiber of s to t keeps: of all calls, reply r.        *)
Owing(r, s) == Due(s) # 0 => r[Due(s)] = Nothing
Follows(a, r, s, t) ==
  /\ Single(t) /\ Due(t) \in {0, Due(s)} /\ (Idle(s) => Idle(t))
  /\ \A i \in 1..Len(a) : \A rd \in Seq(Pieces) :
       View(a[i], i, r[i], rd, s) => View(a[i], i, r[i], rd, t)

(* The fiber moves on outside of a request.                                *)
LEMMA PlaceFollows ==
  ASSUME NEW a \in Seq(Requests), NEW r, NEW s \in Connections(a), NEW t, Single(s),
         s.pc \notin {"fields", "handler"}, t.pc \notin {"fields", "handler", "body"},
         t.up = s.up, t.down = s.down, t.client_open = s.client_open, t.server_open = s.server_open
  PROVE  Follows(a, r, s, t)
<1>1. Single(t)
  BY DEF Single
<1>2. Due(t) = Due(s)
  BY DEF Due
<1>3. Idle(s) => Idle(t)
  BY DEF Idle
<1>4. ASSUME NEW q, NEW i, NEW p, NEW rd, View(q, i, p, rd, s)
      PROVE  View(q, i, p, rd, t)
  <2>1. \A T : GoesOn(q, i, p, T, s) => GoesOn(q, i, p, T, t)
    BY DEF GoesOn
  <2>2. QED BY <1>2, <1>4, <2>1 DEF View
<1>5. QED BY <1>1, <1>2, <1>3, <1>4 DEF Follows

(* The socket is closed.                                                   *)
LEMMA ClosedFollows ==
  ASSUME NEW a \in Seq(Requests), NEW r, NEW s \in Connections(a), NEW t,
         t.down \in {s.down, <<>>}, t.client_open = s.client_open, t.up = <<>>,
         t.pc \notin {"fields", "handler", "body"}, ~t.server_open
  PROVE  Follows(a, r, s, t)
<1>1. s.down \in Seq(Pieces)
  BY DEF Connections
<1>2. Single(t) /\ Due(t) = 0
  BY DEF Single, Due
<1>3. Idle(s) => Idle(t)
  BY DEF Idle
<1>4. QED BY <1>1, <1>2, <1>3, ClosedView DEF Follows

(* Steps may be put together.                                              *)
LEMMA FollowsOn ==
  ASSUME NEW a, NEW r, NEW s, NEW t, NEW u, Follows(a, r, s, t), Follows(a, r, t, u)
  PROVE  Follows(a, r, s, u)
BY DEF Follows

(* A piece of a request is taken.                                          *)
LEMMA TakenFollows ==
  ASSUME NEW a \in Seq(Requests), NEW r, NEW s \in Connections(a), NEW t, Single(s), Owing(r, s),
         s.up # <<>>, Due(s) # 0, Due(t) = Due(s), t.pc \in {"fields", "handler"},
         t.up = Tail(s.up), t.down = s.down, t.client_open = s.client_open, t.server_open = s.server_open
  PROVE  Follows(a, r, s, t)
<1>0. s.down \in Seq(Pieces) /\ s.up \in Seq(Tokens(a)) /\ s.server_open
  BY DEF Connections, Single
<1>1. Single(t)
  <2>1. /\ Len(s.up) \in Nat \ {0} /\ Len(t.up) = Len(s.up) - 1
        /\ \A j \in 1..Len(t.up) : t.up[j] = s.up[j + 1]
    BY <1>0, HeadTailProperties, EmptySeq
  <2>2. QED BY <1>0, <2>1 DEF Single
<1>2. ~Idle(s)
  BY DEF Idle
<1>3. ASSUME NEW i \in 1..Len(a), NEW rd \in Seq(Pieces), View(a[i], i, r[i], rd, s)
      PROVE  View(a[i], i, r[i], rd, t)
  <2>1. rd = <<>> /\ (s.down # <<>> => s.down[1].t # "header")
    BY <1>0, <1>3, Unheard DEF Owing
  <2>2. rd \o t.down = s.down
    BY <1>0, <2>1, Longer
  <2>3. QED BY <1>3, <2>1, <2>2 DEF View
<1>4. QED BY <1>1, <1>2, <1>3 DEF Follows

(* A request is refused: an answer of its own, and the socket is closed.   *)
LEMMA RefusalFollows ==
  ASSUME NEW a \in Seq(Requests), NEW r, NEW s \in Connections(a), NEW t, Single(s), Owing(r, s),
         Due(s) # 0, s.pc \in {"fields", "handler"} \/ s.up # <<>>,
         t.down = Append(s.down, ErrorHeader), t.client_open = s.client_open, t.up = <<>>,
         t.pc \notin {"fields", "handler", "body"}, ~t.server_open
  PROVE  Follows(a, r, s, t)
<1>0. s.down \in Seq(Pieces) /\ s.server_open /\ ErrorHeader \in Pieces /\ ErrorHeader.t = "header"
  BY DEF Connections, Single, ErrorHeader, Header, Pieces
<1>1. Single(t) /\ Due(t) = 0
  BY DEF Single, Due
<1>2. ~Idle(s)
  BY DEF Idle
<1>3. ASSUME NEW i \in 1..Len(a), NEW rd \in Seq(Pieces), View(a[i], i, r[i], rd, s)
      PROVE  View(a[i], i, r[i], rd, t)
  <2>1. rd = <<>> /\ r[i] = Nothing /\ (s.down # <<>> => s.down[1].t # "header")
    BY <1>0, <1>3, Unheard DEF Owing
  <2>2. t.down \in Seq(Pieces) /\ rd \o t.down = t.down
    BY <1>0, <2>1, Appended, Longer
  <2>3. /\ Len(s.down) \in Nat /\ Len(t.down) = Len(s.down) + 1
        /\ t.down[1] = IF s.down = <<>> THEN ErrorHeader ELSE s.down[1]
    BY <1>0, Appended, EmptySeq
  <2>4. t.down[1].t = "header" => Len(t.down) = 1 /\ t.down[1] = ErrorHeader
    <3>1. s.down = <<>> => Len(s.down) = 0
      OBVIOUS
    <3>2. QED BY <2>1, <2>3, <3>1
  <2>5. QED BY <1>1, <1>3, <2>1, <2>2, <2>4 DEF View
<1>4. QED BY <1>1, <1>2, <1>3 DEF Follows

(* A place in a sequence that one piece was added to.                      *)
LEMMA OldPlace ==
  ASSUME NEW n \in Nat, NEW m, m = n + 1, NEW j \in 2..m
  PROVE  j = n + 1 \/ (j # m /\ j \in 1..n /\ j \in 2..n)
OBVIOUS

(* A piece of the body is sent.                                            *)
LEMMA DataFollows ==
  ASSUME NEW a \in Seq(Requests), NEW r, NEW s \in Connections(a), NEW t, Single(s),
         s.pc = "body", s.owed # 0,
         t.pc = "body", t.id = s.id, t.response = s.response, t.owed = s.owed - 1,
         t.down = Append(s.down, Token("data", s.id)),
         t.up = s.up, t.client_open = s.client_open, t.server_open = s.server_open
  PROVE  Follows(a, r, s, t)
<1> DEFINE x == Token("data", s.id)
<1>0. /\ s.down \in Seq(Pieces) /\ s.server_open /\ s.owed \in Nat \ {0}
      /\ x \in Pieces /\ x.t = "data"
  BY DEF Connections, Single, Token, Pieces
<1> HIDE DEF x
<1>1. Single(t) /\ Due(t) = Due(s)
  BY DEF Single, Due
<1>2. Idle(s) => Idle(t)
  BY <1>0, Appended DEF Idle, x
<1>3. ASSUME NEW i \in 1..Len(a), NEW rd \in Seq(Pieces), View(a[i], i, r[i], rd, s)
      PROVE  View(a[i], i, r[i], rd, t)
  <2> DEFINE q == a[i]
             p == r[i]
             T == rd \o s.down
             U == rd \o t.down
  <2>1. /\ T \in Seq(Pieces) /\ Len(T) \in Nat /\ U \in Seq(Pieces) /\ Len(U) = Len(T) + 1
        /\ \A j \in 1..Len(T) : U[j] = T[j]
        /\ U[Len(T) + 1] = x /\ (T = <<>> <=> Len(T) = 0)
    <3>1. t.down = Append(s.down, x)
      BY DEF x
    <3>2. T \in Seq(Pieces) /\ rd \o Append(s.down, x) = Append(T, x)
      BY <1>0, Longer
    <3>3. U = Append(T, x)
      BY <3>1, <3>2
    <3> HIDE DEF T, U
    <3>4. QED BY <1>0, <3>2, <3>3, Appended
  <2>2. ASSUME U[1].t = "header"
        PROVE  Begins(q, i, p, U) /\ GoesOn(q, i, p, U, t)
    <3>1. T # <<>> /\ U[1] = T[1] /\ Len(T) \in Nat \ {0}
      BY <1>0, <2>1, <2>2
    <3>2. Begins(q, i, p, T) /\ GoesOn(q, i, p, T, s)
      BY <1>0, <1>3, <2>2, <3>1 DEF View
    <3> HIDE DEF T, U, q, p
    <3>3. ASSUME NEW j \in 2..Len(U) PROVE U[j].t = "data"
      <4>1. \A m \in 2..Len(T) : T[m].t = "data"
        BY <3>1, <3>2 DEF Begins, GoesOn
      <4>0. Len(T) \in Nat /\ Len(U) = Len(T) + 1
        BY <2>1
      <4>2. j = Len(T) + 1 \/ (j # Len(U) /\ j \in 1..Len(T) /\ j \in 2..Len(T))
        BY <4>0, OldPlace
      <4>3. CASE j = Len(T) + 1
        <5>1. U[j] = x
          BY <2>1, <4>3
        <5>2. QED BY <1>0, <5>1
      <4>4. CASE j # Len(U) /\ j \in 1..Len(T) /\ j \in 2..Len(T)
        <5>1. U[j] = T[j] /\ T[j].t = "data"
          BY <2>1, <4>1, <4>4
        <5>2. QED BY <5>1
      <4>5. QED BY <4>2, <4>3, <4>4
    <3>4. U[Len(U)].t = "data"
      BY <1>0, <2>1
    <3>5. ASSUME ~HeaderOnly(q, U[1])
          PROVE  /\ Len(U) - 1 <= p.n /\ Len(U) - 1 + t.owed = t.response.n
                 /\ p.n = t.response.n + (IF t.response.fails THEN 1 ELSE 0)
      <4>1. /\ Len(T) - 1 + s.owed = s.response.n
            /\ p.n = s.response.n + (IF s.response.fails THEN 1 ELSE 0)
        BY <3>1, <3>2, <3>5 DEF GoesOn
      <4>2. /\ t.response.n = s.response.n /\ t.response.fails = s.response.fails
            /\ t.owed = s.owed - 1 /\ Len(U) = Len(T) + 1 /\ s.owed \in Nat \ {0} /\ Len(T) \in Nat
        BY <1>0, <2>1
      <4>3. QED BY <4>1, <4>2
    <3>6. Begins(q, i, p, U)
      BY <3>1, <3>2, <3>3, <3>4, <3>5 DEF Begins
    <3>7. GoesOn(q, i, p, U, t)
      BY <3>1, <3>2, <3>4, <3>5 DEF GoesOn
    <3>8. QED BY <3>6, <3>7
  <2>3. QED BY <1>1, <1>3, <2>2 DEF View
<1>4. QED BY <1>1, <1>2, <1>3 DEF Follows

(* The last chunk is sent.                                                 *)
LEMMA LastFollows ==
  ASSUME NEW a \in Seq(Requests), NEW r, NEW s \in Connections(a), NEW t, Single(s),
         s.pc = "body", s.owed = 0, ~s.response.fails, s.response.body = "stream",
         a[s.id].version = 11,
         t.pc = "line", t.down = Append(s.down, Token("last", s.id)),
         t.up = s.up, t.client_open = s.client_open, t.server_open = s.server_open
  PROVE  Follows(a, r, s, t)
<1> DEFINE x == Token("last", s.id)
<1>0. /\ s.down \in Seq(Pieces) /\ s.server_open
      /\ x \in Pieces /\ x.t = "last"
  BY DEF Connections, Single, Token, Pieces
<1> HIDE DEF x
<1>1. Single(t) /\ Due(t) = Due(s)
  BY DEF Single, Due
<1>2. Idle(s) => Idle(t)
  BY <1>0, Appended DEF Idle, x
<1>3. ASSUME NEW i \in 1..Len(a), NEW rd \in Seq(Pieces), View(a[i], i, r[i], rd, s)
      PROVE  View(a[i], i, r[i], rd, t)
  <2> DEFINE q == a[i]
             p == r[i]
             T == rd \o s.down
             U == rd \o t.down
  <2>1. /\ T \in Seq(Pieces) /\ Len(T) \in Nat /\ U \in Seq(Pieces) /\ Len(U) = Len(T) + 1
        /\ \A j \in 1..Len(T) : U[j] = T[j]
        /\ U[Len(T) + 1] = x /\ (T = <<>> <=> Len(T) = 0)
    <3>1. t.down = Append(s.down, x)
      BY DEF x
    <3>2. T \in Seq(Pieces) /\ rd \o Append(s.down, x) = Append(T, x)
      BY <1>0, Longer
    <3>3. U = Append(T, x)
      BY <3>1, <3>2
    <3> HIDE DEF T, U
    <3>4. QED BY <1>0, <3>2, <3>3, Appended
  <2>2. ASSUME U[1].t = "header"
        PROVE  Begins(q, i, p, U) /\ GoesOn(q, i, p, U, t)
    <3>1. T # <<>> /\ U[1] = T[1] /\ Len(T) \in Nat \ {0}
      BY <1>0, <2>1, <2>2
    <3>2. Begins(q, i, p, T) /\ GoesOn(q, i, p, T, s)
      BY <1>0, <1>3, <2>2, <3>1 DEF View
    <3>3. s.id = i
      BY <3>2 DEF GoesOn
    <3>4. U[1].chunked
      BY <3>1, <3>2, <3>3 DEF GoesOn
    <3> HIDE DEF T, U, q, p
    <3>5. \A j \in 2..Len(U) : U[j].t \in (IF j = Len(U) THEN {"data", "last"} ELSE {"data"})
      <4> SUFFICES ASSUME NEW j \in 2..Len(U)
                   PROVE  U[j].t \in (IF j = Len(U) THEN {"data", "last"} ELSE {"data"})
        OBVIOUS
      <4>1. \A m \in 2..Len(T) : T[m].t = "data"
        BY <3>1, <3>2 DEF Begins, GoesOn
      <4>0. Len(T) \in Nat /\ Len(U) = Len(T) + 1
        BY <2>1
      <4>2. j = Len(T) + 1 \/ (j # Len(U) /\ j \in 1..Len(T) /\ j \in 2..Len(T))
        BY <4>0, OldPlace
      <4>3. CASE j = Len(T) + 1
        <5>1. U[j] = x
          BY <2>1, <4>3
        <5>2. j = Len(U)
          BY <2>1, <4>3
        <5>3. QED BY <1>0, <5>1, <5>2
      <4>4. CASE j # Len(U) /\ j \in 1..Len(T) /\ j \in 2..Len(T)
        <5>1. U[j] = T[j] /\ T[j].t = "data"
          BY <2>1, <4>1, <4>4
        <5>2. QED BY <5>1
      <4>5. QED BY <4>2, <4>3, <4>4
    <3>6. ASSUME ~HeaderOnly(q, U[1]) PROVE p.n = Len(U) - 2
      BY <2>1, <3>1, <3>2, <3>6 DEF GoesOn
    <3>7. Begins(q, i, p, U)
      BY <1>0, <2>1, <3>1, <3>2, <3>4, <3>5, <3>6 DEF Begins
    <3>8. GoesOn(q, i, p, U, t)
      BY <3>1, <3>2 DEF GoesOn
    <3>9. QED BY <3>7, <3>8
  <2>3. QED BY <1>1, <1>3, <2>2 DEF View
<1>4. QED BY <1>1, <1>2, <1>3 DEF Follows

(* The header of a response is sent to the call that is due.               *)
LEMMA HeaderView ==
  ASSUME NEW a \in Seq(Requests), NEW i \in 1..Len(a), NEW rd \in Seq(Pieces),
         NEW s \in Connections(a), NEW t, NEW response \in Responses, NEW close \in BOOLEAN,
         NEW p, Single(s), s.pc = "handler", s.id = i, View(a[i], i, Nothing, rd, s),
         p = [status |-> response.status,
              n |-> IF a[i].method = "HEAD" \/ response.status = "NO_CONTENT" THEN 0
                    ELSE response.n + (IF response.fails THEN 1 ELSE 0)],
         ~close => s.up = <<>>,
         t.pc = "body", t.id = i, t.response = response,
         t.owed = (IF response.body = "none" \/ a[i].method = "HEAD" THEN 0 ELSE response.n),
         t.down = Append(s.down, Header(i, response.status, a[i].version, response.body,
                                        response.n, close)),
         t.up = s.up, t.client_open = s.client_open, t.server_open = s.server_open
  PROVE  View(a[i], i, p, rd, t) /\ p \in Replies
<1> DEFINE q == a[i]
           h == Header(i, response.status, q.version, response.body, response.n, close)
<1>0. /\ s.down \in Seq(Pieces) /\ s.server_open /\ i \in Nat /\ i # 0 /\ Due(s) = i
      /\ q.version \in {10, 11} /\ q \in Requests
  BY HttpAssumption DEF Connections, Single, Due
<1>1. /\ response.status \in {"OK", "NO_CONTENT"} /\ response.n \in Nat /\ response.fails \in BOOLEAN
      /\ response.body \in {"none", "list", "file", "stream"}
      /\ response.body = "none" => response.n = 0
      /\ response.fails => response.body = "stream"
  BY HttpAssumption, ResponsesAssumption
<1>2. /\ h \in Pieces /\ h.t = "header" /\ h.id = i /\ h.status = response.status
      /\ h.chunked <=> response.body = "stream" /\ q.version = 11
      /\ h.length = IF response.body = "none" THEN 0
                    ELSE IF response.body = "stream" THEN -1 ELSE response.n
      /\ ~h.close => ~close
  <2>1. /\ h.t = "header" /\ h.id = i /\ h.status = response.status /\ h.version = q.version
        /\ h.chunked = (response.body = "stream" /\ q.version = 11)
        /\ h.close = (close \/ (response.body = "stream" /\ q.version = 10))
        /\ h.length = IF response.body = "none" THEN 0
                      ELSE IF response.body \in {"list", "file"} THEN response.n ELSE -1
        /\ h = [t |-> h.t, id |-> h.id, status |-> h.status, version |-> h.version,
                length |-> h.length, chunked |-> h.chunked, close |-> h.close]
    BY DEF Header
  <2> HIDE DEF h
  <2>2. h.length \in Int /\ h.chunked \in BOOLEAN /\ h.close \in BOOLEAN
    BY <1>1, <2>1
  <2>3. h \in Pieces
    BY <1>0, <1>1, <2>1, <2>2 DEF Pieces
  <2>4. QED BY <1>1, <2>1, <2>3
<1>3. rd = <<>> /\ (s.down # <<>> => s.down[1].t # "header")
  BY <1>0, Unheard
<1>4. p \in Replies
  <2>1. response.n + 1 \in Nat /\ 0..(response.n + 1) \in {0..(x.n + 1) : x \in Responses}
    BY <1>1
  <2>2. p.n \in 0..(response.n + 1)
    BY <1>1
  <2>3. QED BY <1>1, <2>1, <2>2 DEF Replies
<1> HIDE DEF h
<1>5. /\ t.down = Append(s.down, h) /\ t.down \in Seq(Pieces) /\ rd \o t.down = t.down
      /\ Len(s.down) \in Nat /\ Len(t.down) = Len(s.down) + 1
      /\ t.down[1] = IF s.down = <<>> THEN h ELSE s.down[1]
  <2>1. t.down = Append(s.down, h)
    BY DEF h
  <2>2. s.down = <<>> <=> Len(s.down) = 0
    BY <1>0, EmptySeq
  <2>3. t.down \in Seq(Pieces)
    BY <1>0, <1>2, <2>1, Appended
  <2>4. QED BY <1>0, <1>2, <1>3, <2>1, <2>2, <2>3, Appended, Longer
<1>6. ASSUME t.down[1].t = "header"
      PROVE  Begins(q, i, p, t.down) /\ GoesOn(q, i, p, t.down, t)
  <2>1. t.down[1] = h /\ Len(t.down) = 1
    <3>1. s.down = <<>> => Len(s.down) = 0
      OBVIOUS
    <3>2. QED BY <1>3, <1>5, <1>6, <3>1
  <2>2. p.status = response.status
    OBVIOUS
  <2>3. HeaderOnly(q, h) => p.n = 0
    BY <1>2 DEF HeaderOnly
  <2>4. ~HeaderOnly(q, h) => /\ p.n = response.n + (IF response.fails THEN 1 ELSE 0)
                             /\ t.owed = response.n
    BY <1>1, <1>2 DEF HeaderOnly
  <2>5. Begins(q, i, p, t.down)
    BY <1>0, <1>1, <1>2, <1>4, <2>1, <2>2, <2>3, <2>4 DEF Begins
  <2>6. GoesOn(q, i, p, t.down, t)
    BY <1>1, <1>2, <2>1, <2>4 DEF GoesOn
  <2>7. QED BY <2>5, <2>6
<1>7. Due(t) \in {0, i}
  BY <1>0 DEF Due, Single
<1>8. t.client_open
  BY DEF View
<1>9. QED BY <1>3, <1>4, <1>5, <1>6, <1>7, <1>8 DEF View

(* Fibers that follow keep every call.                                     *)
LEMMA FollowingKeeps ==
  ASSUME HttpInv, CallInv, UNCHANGED client, reply' = reply,
         \A j \in Conns : conn'[j] = conn[j] \/ Follows(asked, reply, conn[j], conn'[j])
  PROVE  CallInv'
<1>1. /\ asked' = asked /\ call' = call /\ link' = link /\ read' = read /\ answer' = answer
      /\ read \in [Clients -> Seq(Pieces)]
  BY DEF client, CallInv, Ledger
<1>2. Ledger'
  BY <1>1 DEF CallInv, Ledger
<1>3. ASSUME NEW j \in Conns
      PROVE  /\ Single(conn'[j]) /\ Due(conn'[j]) \in {0, Due(conn[j])}
             /\ Idle(conn[j]) => Idle(conn'[j])
             /\ \A i \in 1..Len(asked) : \A rd \in Seq(Pieces) :
                  View(asked[i], i, reply[i], rd, conn[j]) => View(asked[i], i, reply[i], rd, conn'[j])
  BY DEF Follows, CallInv, Dues
<1>4. Dues'
  BY <1>1, <1>3 DEF CallInv, Dues
<1>5. Views'
  <2> SUFFICES ASSUME NEW c \in Clients
               PROVE  /\ link[c] # 0 /\ call[c] = 0 => Idle(conn'[link[c]])
                      /\ call[c] # 0 =>
                           /\ call[c] \in 1..Len(asked) /\ answer[call[c]] = Nothing
                           /\ View(asked[call[c]], call[c], reply[call[c]], read[c], conn'[link[c]])
                           /\ \A k \in Conns : Due(conn'[k]) = call[c] => k = link[c]
                           /\ \A d \in Clients : call[d] = call[c] => d = c
    BY <1>1 DEF Views
  <2>1. link[c] # 0 => link[c] \in Conns
    BY HttpAssumption DEF HttpInv, Counts, Conns
  <2>2. call[c] # 0 => link[c] # 0
    BY DEF HttpInv, Links
  <2>3. read[c] \in Seq(Pieces)
    BY <1>1
  <2>4. QED BY <1>3, <2>1, <2>2, <2>3 DEF CallInv, Views
<1>6. QED BY <1>2, <1>4, <1>5 DEF CallInv

LEMMA OneFollows ==
  ASSUME HttpInv, CallInv, UNCHANGED client, reply' = reply, NEW k \in Conns, NEW t,
         conn' = [conn EXCEPT ![k] = t], Follows(asked, reply, conn[k], t)
  PROVE  CallInv'
<1>1. \A j \in Conns : conn'[j] = IF j = k THEN t ELSE conn[j]
  BY DEF HttpInv, Counts
<1>2. QED BY <1>1, FollowingKeeps

(* What is known of a connection.                                          *)
LEMMA KnownOf ==
  ASSUME HttpInv, CallInv, NEW k \in Conns
  PROVE  /\ asked \in Seq(Requests) /\ conn[k] \in Connections(asked) /\ Good(asked, conn[k])
         /\ Single(conn[k]) /\ Owing(reply, conn[k])
BY DEF HttpInv, Counts, Good, CallInv, Dues, Owing

(* What a socket is once the server has closed it.                         *)
LEMMA ShutDown ==
  ASSUME HttpInv, NEW k \in Conns, NEW s, s.client_open \in BOOLEAN, conn' \in ServerCloses(k, s)
  PROVE  \E t : /\ conn' = [conn EXCEPT ![k] = t]
                /\ t.down \in {s.down, <<>>} /\ t.client_open = s.client_open /\ t.up = <<>>
                /\ t.pc = "line" /\ ~t.server_open
<1> DEFINE shut(d) == [Fresh EXCEPT !.client_open = s.client_open, !.down = d, !.pc = "line"]
<1>1. ASSUME NEW d
      PROVE  /\ shut(d).down = d /\ shut(d).client_open = s.client_open /\ shut(d).up = <<>>
             /\ shut(d).pc = "line" /\ ~shut(d).server_open
  BY DEF Fresh
<1>2. conn' = [conn EXCEPT ![k] = shut(s.down)] \/ conn' = [conn EXCEPT ![k] = shut(<<>>)]
  BY DEF ServerCloses, Fresh
<1> HIDE DEF shut
<1>3. CASE conn' = [conn EXCEPT ![k] = shut(s.down)]
  BY <1>1, <1>3
<1>4. CASE conn' = [conn EXCEPT ![k] = shut(<<>>)]
  BY <1>1, <1>4
<1>5. QED BY <1>2, <1>3, <1>4

(* The server closes a connection and says nothing.                        *)
LEMMA ClosingKeeps ==
  ASSUME HttpInv, CallInv, UNCHANGED client, reply' = reply, NEW k \in Conns,
         conn' \in ServerCloses(k, conn[k])
  PROVE  CallInv'
<1>1. asked \in Seq(Requests) /\ conn[k] \in Connections(asked)
  BY KnownOf
<1>2. PICK t : /\ conn' = [conn EXCEPT ![k] = t]
               /\ t.down \in {conn[k].down, <<>>} /\ t.client_open = conn[k].client_open
               /\ t.up = <<>> /\ t.pc = "line" /\ ~t.server_open
  BY <1>1, ShutDown DEF Connections
<1>3. Follows(asked, reply, conn[k], t)
  BY <1>1, <1>2, ClosedFollows
<1>4. QED BY <1>2, <1>3, OneFollows

(* The server refuses what it reads.                                       *)
LEMMA RefusingKeeps ==
  ASSUME HttpInv, CallInv, UNCHANGED client, reply' = reply, NEW k \in Conns,
         NEW s \in Connections(asked), conn[k].pc \in {"fields", "handler"},
         s.down = conn[k].down, s.client_open = conn[k].client_open, Refuse(k, s)
  PROVE  CallInv'
<1> DEFINE u == [s EXCEPT !.down = Append(@, ErrorHeader)]
<1>1. /\ asked \in Seq(Requests) /\ conn[k] \in Connections(asked) /\ Good(asked, conn[k])
      /\ Single(conn[k]) /\ Owing(reply, conn[k])
  BY KnownOf
<1>2. Due(conn[k]) # 0
  BY <1>1 DEF Due, Good, AtRightCall
<1>3. u.down = Append(conn[k].down, ErrorHeader) /\ u.client_open = conn[k].client_open
  <2> HIDE DEF Pieces
  <2>1. QED BY DEF Connections
<1>4. conn' \in ServerCloses(k, s) \/ conn' \in ServerCloses(k, u)
  BY DEF Refuse, ErrorHeader
<1> HIDE DEF u
<1>5. PICK t : /\ conn' = [conn EXCEPT ![k] = t]
               /\ t.down \in {conn[k].down, Append(conn[k].down, ErrorHeader), <<>>}
               /\ t.client_open = conn[k].client_open
               /\ t.up = <<>> /\ t.pc = "line" /\ ~t.server_open
  <2>1. conn[k].client_open \in BOOLEAN
    BY <1>1 DEF Connections
  <2>2. CASE conn' \in ServerCloses(k, s)
    <3>1. PICK t : /\ conn' = [conn EXCEPT ![k] = t]
                   /\ t.down \in {s.down, <<>>} /\ t.client_open = s.client_open /\ t.up = <<>>
                   /\ t.pc = "line" /\ ~t.server_open
      BY <2>1, <2>2, ShutDown
    <3>2. QED BY <3>1
  <2>3. CASE conn' \in ServerCloses(k, u)
    <3>1. PICK t : /\ conn' = [conn EXCEPT ![k] = t]
                   /\ t.down \in {u.down, <<>>} /\ t.client_open = u.client_open /\ t.up = <<>>
                   /\ t.pc = "line" /\ ~t.server_open
      BY <1>3, <2>1, <2>3, ShutDown
    <3>2. QED BY <1>3, <3>1
  <2>4. QED BY <1>4, <2>2, <2>3
<1>6. Follows(asked, reply, conn[k], t)
  <2>1. CASE t.down = Append(conn[k].down, ErrorHeader)
    BY <1>1, <1>2, <1>5, <2>1, RefusalFollows
  <2>2. CASE t.down \in {conn[k].down, <<>>}
    BY <1>1, <1>5, <2>2, ClosedFollows
  <2>3. QED BY <1>5, <2>1, <2>2
<1>7. QED BY <1>5, <1>6, OneFollows

-----------------------------------------------------------------------------
(* The steps of the server keep the calls                                  *)

LEMMA NegotiateKeeps ==
  ASSUME HttpInv, CallInv, NEW k \in Conns, Negotiate(k)
  PROVE  CallInv'
<1>1. /\ asked \in Seq(Requests) /\ conn[k] \in Connections(asked) /\ Single(conn[k])
      /\ conn[k].pc = "negotiate" /\ UNCHANGED client /\ reply' = reply
  BY KnownOf DEF Negotiate, history
<1>2. ASSUME NEW p \in {"line", "threw"}, conn' = [conn EXCEPT ![k].pc = p]
      PROVE  CallInv'
  <2> DEFINE t == [conn[k] EXCEPT !.pc = p]
  <2>1. /\ t.pc = p /\ t.up = conn[k].up /\ t.down = conn[k].down
        /\ t.client_open = conn[k].client_open /\ t.server_open = conn[k].server_open
    BY <1>1 DEF Connections
  <2>2. conn' = [conn EXCEPT ![k] = t]
    BY <1>2
  <2> HIDE DEF t
  <2>3. Follows(asked, reply, conn[k], t)
    BY <1>1, <2>1, PlaceFollows
  <2>4. QED BY <1>1, <2>2, <2>3, OneFollows
<1>3. QED BY <1>2 DEF Negotiate

LEMMA AcceptKeeps ==
  ASSUME HttpInv, CallInv, NEW k \in Conns, Accept(k)
  PROVE  CallInv'
<1> DEFINE p == IF Tls THEN "negotiate" ELSE "line"
           t == [conn[k] EXCEPT !.pc = p]
<1>1. /\ asked \in Seq(Requests) /\ conn[k] \in Connections(asked) /\ Single(conn[k])
      /\ conn[k].pc = "backlog" /\ UNCHANGED client /\ reply' = reply
  BY KnownOf DEF Accept, Backlog, history
<1>2. /\ t.pc = p /\ t.up = conn[k].up /\ t.down = conn[k].down
      /\ t.client_open = conn[k].client_open /\ t.server_open = conn[k].server_open
  BY <1>1 DEF Connections
<1>3. conn' = [conn EXCEPT ![k] = t] /\ p \in {"negotiate", "line"}
  BY DEF Accept
<1> HIDE DEF t, p
<1>4. Follows(asked, reply, conn[k], t)
  BY <1>1, <1>2, <1>3, PlaceFollows
<1>5. QED BY <1>1, <1>3, <1>4, OneFollows

LEMMA SweepKeeps ==
  ASSUME HttpInv, CallInv, Sweep
  PROVE  CallInv'
<1>1. /\ UNCHANGED client /\ reply' = reply
      /\ \A k \in Conns : conn'[k] \in {conn[k], Joined(k)}
  <2>1. CASE \E k \in Conns : conn[k].pc = "threw"
    BY <2>1 DEF Sweep, history
  <2>2. CASE ~\E k \in Conns : conn[k].pc = "threw"
    BY <2>2 DEF Sweep, history
  <2>3. QED BY <2>1, <2>2
<1>2. ASSUME NEW k \in Conns PROVE Follows(asked, reply, conn[k], Joined(k))
  <2>1. /\ Joined(k).down = conn[k].down /\ Joined(k).client_open = conn[k].client_open
        /\ Joined(k).up = <<>> /\ Joined(k).pc = "joined" /\ ~Joined(k).server_open
    BY DEF Joined, Fresh
  <2>2. asked \in Seq(Requests) /\ conn[k] \in Connections(asked)
    BY KnownOf
  <2>3. QED BY <2>1, <2>2, ClosedFollows
<1>3. QED BY <1>1, <1>2, FollowingKeeps

LEMMA WakeKeeps ==
  ASSUME HttpInv, CallInv, Wake
  PROVE  CallInv'
<1>1. UNCHANGED client /\ reply' = reply /\ conn' = conn
  BY DEF Wake, history
<1>2. QED BY <1>1, FollowingKeeps

LEMMA DecodeLineKeeps ==
  ASSUME HttpInv, CallInv, NEW k \in Conns, DecodeLine(k)
  PROVE  CallInv'
<1> DEFINE s == conn[k]
           x == Head(s.up)
           t == [Take(k) EXCEPT !.pc = "fields", !.id = x.id]
<1>1. /\ asked \in Seq(Requests) /\ s \in Connections(asked) /\ Good(asked, s) /\ Single(s)
      /\ Owing(reply, s) /\ s.pc = "line" /\ s.up # <<>> /\ UNCHANGED client /\ reply' = reply
  BY KnownOf DEF DecodeLine, history
<1>2. x \in Tokens(asked) /\ x.t = "line" /\ x.id \in 1..Len(asked) /\ x = s.up[1]
  <2>1. x \in Tokens(asked) /\ Wanted(s, x)
    BY <1>1, Taking
  <2>2. x = s.up[1]
    BY <1>1, HeadTailProperties DEF Connections
  <2>3. QED BY <1>1, <2>1, <2>2 DEF Wanted, Tokens
<1>3. Due(s) = x.id /\ Due(s) # 0
  BY <1>1, <1>2 DEF Due
<1>4. conn' = [conn EXCEPT ![k] = t]
  BY <1>2 DEF DecodeLine
<1>5. /\ t.pc = "fields" /\ t.id = x.id /\ t.up = Tail(s.up) /\ t.down = s.down
      /\ t.client_open = s.client_open /\ t.server_open = s.server_open
  BY <1>1 DEF Take, Connections
<1> HIDE DEF t, x
<1>6. Due(t) = Due(s)
  BY <1>3, <1>5 DEF Due
<1>7. Follows(asked, reply, s, t)
  BY <1>1, <1>3, <1>5, <1>6, TakenFollows
<1>8. QED BY <1>1, <1>4, <1>7, OneFollows

LEMMA DecodeFieldsKeeps ==
  ASSUME HttpInv, CallInv, NEW k \in Conns, DecodeFields(k)
  PROVE  CallInv'
<1> DEFINE s == conn[k]
           r == asked[s.id]
           t == [Take(k) EXCEPT !.pc = "handler", !.body = Body(r)]
<1>1. /\ asked \in Seq(Requests) /\ s \in Connections(asked) /\ Good(asked, s) /\ Single(s)
      /\ Owing(reply, s) /\ s.pc = "fields" /\ s.up # <<>> /\ UNCHANGED client /\ reply' = reply
  BY KnownOf DEF DecodeFields, history
<1>2. s.id \in 1..Len(asked) /\ Due(s) = s.id /\ Due(s) # 0
  BY <1>1 DEF Good, AtRightCall, Due
<1>3. CASE r.body = "both" \/ r.method = "TRACE"
  <2>1. Refuse(k, Take(k))
    BY <1>3 DEF DecodeFields
  <2>2. /\ Take(k) \in Connections(asked) /\ Take(k).down = s.down
        /\ Take(k).client_open = s.client_open
    BY <1>1, Taken DEF Take, Connections
  <2>3. QED BY <1>1, <2>1, <2>2, RefusingKeeps
<1>4. CASE ~(r.body = "both" \/ r.method = "TRACE")
  <2>1. conn' = [conn EXCEPT ![k] = t]
    BY <1>4 DEF DecodeFields
  <2>2. /\ t.pc = "handler" /\ t.id = s.id /\ t.up = Tail(s.up) /\ t.down = s.down
        /\ t.client_open = s.client_open /\ t.server_open = s.server_open
    BY <1>1 DEF Take, Connections
  <2> HIDE DEF t
  <2>3. Due(t) = Due(s)
    BY <1>2, <2>2 DEF Due
  <2>4. Follows(asked, reply, s, t)
    BY <1>1, <1>2, <2>2, <2>3, TakenFollows
  <2>5. QED BY <1>1, <2>1, <2>4, OneFollows
<1>5. QED BY <1>3, <1>4

LEMMA DecodeEofKeeps ==
  ASSUME HttpInv, CallInv, NEW k \in Conns, DecodeEof(k)
  PROVE  CallInv'
<1> DEFINE s == conn[k]
           t == [s EXCEPT !.pc = "ended"]
<1>1. /\ asked \in Seq(Requests) /\ s \in Connections(asked) /\ Single(s)
      /\ s.pc \in {"line", "fields"} /\ UNCHANGED client /\ reply' = reply
  BY KnownOf DEF DecodeEof, history
<1>2. CASE s.pc = "line"
  <2>1. conn' = [conn EXCEPT ![k] = t]
    BY <1>2 DEF DecodeEof
  <2>2. /\ t.pc = "ended" /\ t.up = s.up /\ t.down = s.down
        /\ t.client_open = s.client_open /\ t.server_open = s.server_open
    BY <1>1 DEF Connections
  <2> HIDE DEF t
  <2>3. Follows(asked, reply, s, t)
    BY <1>1, <1>2, <2>2, PlaceFollows
  <2>4. QED BY <1>1, <2>1, <2>3, OneFollows
<1>3. CASE s.pc # "line"
  <2>1. Refuse(k, s)
    BY <1>3 DEF DecodeEof
  <2>2. QED BY <1>1, <1>3, <2>1, RefusingKeeps
<1>4. QED BY <1>2, <1>3

LEMMA ReadBodyKeeps ==
  ASSUME HttpInv, CallInv, NEW k \in Conns, ReadBody(k)
  PROVE  CallInv'
<1> DEFINE s == conn[k]
           t == [Take(k) EXCEPT !.body = BodyAfter(@, Head(s.up))]
<1>1. /\ asked \in Seq(Requests) /\ s \in Connections(asked) /\ Good(asked, s) /\ Single(s)
      /\ Owing(reply, s) /\ s.pc = "handler" /\ UNCHANGED client /\ reply' = reply
  BY KnownOf DEF ReadBody
<1>2. s.id \in 1..Len(asked) /\ Due(s) = s.id /\ Due(s) # 0
  BY <1>1 DEF Good, AtRightCall, Due
<1>3. CASE UpEof(k)
  <2>1. Refuse(k, s)
    BY <1>3 DEF ReadBody
  <2>2. QED BY <1>1, <2>1, RefusingKeeps
<1>4. CASE ~UpEof(k)
  <2>1. s.up # <<>> /\ conn' = [conn EXCEPT ![k] = t]
    BY <1>4 DEF ReadBody
  <2>2. /\ t.pc = "handler" /\ t.id = s.id /\ t.up = Tail(s.up) /\ t.down = s.down
        /\ t.client_open = s.client_open /\ t.server_open = s.server_open
    BY <1>1 DEF Take, Connections
  <2> HIDE DEF t
  <2>3. Due(t) = Due(s)
    BY <1>2, <2>2 DEF Due
  <2>4. Follows(asked, reply, s, t)
    BY <1>1, <1>2, <2>1, <2>2, <2>3, TakenFollows
  <2>5. QED BY <1>1, <2>1, <2>4, OneFollows
<1>5. QED BY <1>3, <1>4

LEMMA HandlerThrowsKeeps ==
  ASSUME HttpInv, CallInv, NEW k \in Conns, HandlerThrows(k)
  PROVE  CallInv'
<1>1. conn[k] \in Connections(asked) /\ UNCHANGED client /\ reply' = reply
  BY KnownOf DEF HandlerThrows, history
<1>2. QED BY <1>1, RefusingKeeps DEF HandlerThrows

(* The end of HandleSingleRequest, with nothing more to send.              *)
LEMMA FinishingKeeps ==
  ASSUME HttpInv, CallInv, UNCHANGED client, reply' = reply, NEW k \in Conns,
         conn[k].pc = "body", Finish(k, conn[k])
  PROVE  CallInv'
<1> DEFINE s == conn[k]
           t == [s EXCEPT !.pc = "line", !.id = 0, !.kept = FALSE, !.response = NoResponse]
<1>1. asked \in Seq(Requests) /\ s \in Connections(asked) /\ Single(s)
  BY KnownOf
<1>2. CASE s.kept
  <2>1. conn' = [conn EXCEPT ![k] = t]
    BY <1>2 DEF Finish
  <2>2. /\ t.pc = "line" /\ t.up = s.up /\ t.down = s.down
        /\ t.client_open = s.client_open /\ t.server_open = s.server_open
    BY <1>1 DEF Connections
  <2> HIDE DEF t
  <2>3. Follows(asked, reply, s, t)
    BY <1>1, <2>2, PlaceFollows
  <2>4. QED BY <2>1, <2>3, OneFollows
<1>3. CASE ~s.kept
  BY <1>3, ClosingKeeps DEF Finish
<1>4. QED BY <1>2, <1>3

(* And with the last chunk to send.                                        *)
LEMMA LastKeeps ==
  ASSUME HttpInv, CallInv, UNCHANGED client, reply' = reply, NEW k \in Conns,
         conn[k].pc = "body", conn[k].owed = 0, ~conn[k].response.fails,
         conn[k].response.body = "stream", asked[conn[k].id].version = 11, conn[k].client_open,
         Finish(k, [conn[k] EXCEPT !.down = Append(@, Token("last", conn[k].id))])
  PROVE  CallInv'
<1> DEFINE s == conn[k]
           d == Append(s.down, Token("last", s.id))
           v == [s EXCEPT !.down = d]
           u == [v EXCEPT !.pc = "line", !.id = 0, !.kept = FALSE, !.response = NoResponse]
<1>1. asked \in Seq(Requests) /\ s \in Connections(asked) /\ Single(s)
  BY KnownOf
<1>2. d \in Seq(Pieces)
  BY <1>1, Putting
<1>3. d = Append(s.down, Token("last", s.id)) /\ Finish(k, v)
  BY <1>1 DEF Connections
<1> HIDE DEF d
<1>4. /\ u.pc = "line" /\ u.up = s.up /\ u.down = d /\ v.down = d
      /\ u.client_open = s.client_open /\ u.server_open = s.server_open
      /\ v.client_open = s.client_open /\ v.kept = s.kept
  BY <1>1 DEF Connections
<1>5. u \in Connections(asked)
  <2>1. 0 \in 0..Len(asked)
    BY <1>1
  <2>2. QED BY <1>1, <1>2, <2>1 DEF Connections, Places
<1> HIDE DEF v
<1>6. CASE v.kept
  <2>1. conn' = [conn EXCEPT ![k] = u]
    BY <1>3, <1>6 DEF Finish
  <2> HIDE DEF u
  <2>2. Follows(asked, reply, s, u)
    BY <1>1, <1>3, <1>4, LastFollows
  <2>3. QED BY <2>1, <2>2, OneFollows
<1>7. CASE ~v.kept
  <2> HIDE DEF u
  <2>1. conn' \in ServerCloses(k, v) /\ v.client_open \in BOOLEAN
    BY <1>1, <1>3, <1>4, <1>7 DEF Finish, Connections
  <2>2. PICK t : /\ conn' = [conn EXCEPT ![k] = t]
                 /\ t.down \in {v.down, <<>>} /\ t.client_open = v.client_open
                 /\ t.up = <<>> /\ t.pc = "line" /\ ~t.server_open
    BY <2>1, ShutDown
  <2>3. Follows(asked, reply, s, u)
    BY <1>1, <1>3, <1>4, LastFollows
  <2>4. Follows(asked, reply, u, t)
    <3>1. /\ t.down \in {u.down, <<>>} /\ t.client_open = u.client_open
          /\ t.pc \notin {"fields", "handler", "body"}
      BY <1>4, <2>2
    <3>2. asked \in Seq(Requests)
      BY <1>1
    <3>3. QED BY <1>5, <2>2, <3>1, <3>2, ClosedFollows
  <2>5. Follows(asked, reply, s, t)
    BY <2>3, <2>4, FollowsOn
  <2>6. QED BY <2>2, <2>5, OneFollows
<1>8. QED BY <1>6, <1>7

LEMMA SendBodyKeeps ==
  ASSUME HttpInv, CallInv, NEW k \in Conns, SendBody(k)
  PROVE  CallInv'
<1> DEFINE s == conn[k]
           put(p) == IF s.client_open THEN Append(s.down, Token(p, s.id)) ELSE s.down
           chunked == s.response.body = "stream" /\ asked[s.id].version = 11
<1>1. /\ asked \in Seq(Requests) /\ s \in Connections(asked) /\ Good(asked, s) /\ Single(s)
      /\ s.pc = "body" /\ UNCHANGED client /\ reply' = reply
  BY KnownOf DEF SendBody, history
<1>2. CASE s.response.body = "none" \/ Suppressed(s)
  <2>1. Finish(k, s)
    BY <1>2 DEF SendBody
  <2>2. QED BY <1>1, <2>1, FinishingKeeps
<1>3. CASE ~(s.response.body = "none" \/ Suppressed(s))
  <2>1. \/ /\ ~Exhausted(s)
           /\ conn' = [conn EXCEPT ![k] = [s EXCEPT !.down = put("data"), !.owed = @ - 1]]
        \/ /\ Exhausted(s) /\ ~s.response.fails
           /\ Finish(k, IF chunked THEN [s EXCEPT !.down = put("last")] ELSE s)
        \/ conn' \in ServerCloses(k, s)
    BY <1>3 DEF SendBody
  <2>2. CASE ~Exhausted(s) /\ conn' = [conn EXCEPT ![k] = [s EXCEPT !.down = put("data"), !.owed = @ - 1]]
    <3> DEFINE d == put("data")
               t == [s EXCEPT !.down = d, !.owed = @ - 1]
    <3>1. conn' = [conn EXCEPT ![k] = t] /\ s.owed # 0
      BY <2>2 DEF Exhausted
    <3> HIDE DEF d
    <3>2. /\ t.pc = "body" /\ t.id = s.id /\ t.response = s.response /\ t.owed = s.owed - 1
          /\ t.down = d /\ t.up = s.up /\ t.client_open = s.client_open /\ t.server_open = s.server_open
      BY <1>1 DEF Connections
    <3> HIDE DEF t
    <3>3. Follows(asked, reply, s, t)
      <4>1. CASE s.client_open
        <5>1. t.down = Append(s.down, Token("data", s.id))
          BY <3>2, <4>1 DEF d
        <5>2. QED BY <1>1, <3>1, <3>2, <5>1, DataFollows
      <4>2. CASE ~s.client_open
        <5>1. Single(t) /\ Due(t) = Due(s)
          BY <1>1, <3>2 DEF Single, Due
        <5>2. ~Idle(s) /\ \A q, i, p, rd : ~View(q, i, p, rd, s)
          BY <4>2 DEF Idle, View
        <5>3. QED BY <5>1, <5>2 DEF Follows
      <4>3. QED BY <4>1, <4>2
    <3>4. QED BY <1>1, <3>1, <3>3, OneFollows
  <2>3. CASE /\ Exhausted(s) /\ ~s.response.fails
             /\ Finish(k, IF chunked THEN [s EXCEPT !.down = put("last")] ELSE s)
    <3>1. CASE chunked /\ s.client_open
      <4>1. Finish(k, [s EXCEPT !.down = Append(@, Token("last", s.id))])
        BY <2>3, <3>1
      <4>2. QED BY <1>1, <2>3, <3>1, <4>1, LastKeeps DEF Exhausted
    <3>2. CASE ~(chunked /\ s.client_open)
      <4>1. Finish(k, s)
        <5>1. CASE chunked /\ ~s.client_open
          <6>1. [s EXCEPT !.down = put("last")] = s
            BY <1>1, <5>1 DEF Connections
          <6>2. QED BY <2>3, <5>1, <6>1, Zenon
        <5>2. CASE ~chunked
          BY <2>3, <5>2, Zenon
        <5>3. QED BY <3>2, <5>1, <5>2
      <4>2. QED BY <1>1, <4>1, FinishingKeeps
    <3>3. QED BY <3>1, <3>2
  <2>4. CASE conn' \in ServerCloses(k, s)
    BY <1>1, <2>4, ClosingKeeps
  <2>5. QED BY <2>1, <2>2, <2>3, <2>4
<1>4. QED BY <1>2, <1>3

LEMMA SendFileNever ==
  ASSUME HttpInv, NoFiles, NEW k \in Conns
  PROVE  ~SendFile(k)
BY DEF SendFile, HttpInv, Good, AtRightCall, NoFiles

(* What the handler answers to a request q of call i.                      *)
Answered(q, response) ==
  [status |-> response.status,
   n |-> IF q.method = "HEAD" \/ response.status = "NO_CONTENT" THEN 0
         ELSE response.n + (IF response.fails THEN 1 ELSE 0)]

LEMMA AnsweredType ==
  ASSUME NEW q, NEW response \in Responses
  PROVE  Answered(q, response) \in Replies
<1>1. /\ response.status \in {"OK", "NO_CONTENT"} /\ response.n \in Nat /\ response.fails \in BOOLEAN
  BY HttpAssumption
<1>2. response.n + 1 \in Nat /\ 0..(response.n + 1) \in {0..(x.n + 1) : x \in Responses}
  BY <1>1
<1>3. Answered(q, response).n \in 0..(response.n + 1)
  BY <1>1 DEF Answered
<1>4. Answered(q, response).status = response.status
  BY DEF Answered
<1>5. Answered(q, response) = [status |-> Answered(q, response).status, n |-> Answered(q, response).n]
  BY DEF Answered
<1>6. QED BY <1>1, <1>2, <1>3, <1>4, <1>5 DEF Replies

LEMMA HandlerReturnsKeeps ==
  ASSUME HttpInv, CallInv, NEW k \in Conns, HandlerReturns(k)
  PROVE  /\ CallInv'
         /\ conn[k].id \in 1..Len(asked) /\ reply[conn[k].id] = Nothing
         /\ \E p \in Replies : reply' = [reply EXCEPT ![conn[k].id] = p]
<1> DEFINE s == conn[k]
           i == s.id
           q == asked[i]
           close == ~Kept(s)
           h(r) == Header(i, r.status, q.version, r.body, r.n, close)
           owed(r) == IF r.body = "none" \/ q.method = "HEAD" THEN 0 ELSE r.n
           down(r) == IF s.client_open THEN Append(s.down, h(r)) ELSE s.down
           kept(r) == Kept(s) /\ ~(r.body = "stream" /\ q.version = 10)
           t(r) == [s EXCEPT !.response = r, !.body = NoBody, !.pc = "body",
                             !.kept = kept(r), !.owed = owed(r), !.down = down(r)]
<1>1. /\ asked \in Seq(Requests) /\ s \in Connections(asked) /\ Good(asked, s) /\ Single(s)
      /\ s.pc = "handler" /\ UNCHANGED client
  BY KnownOf DEF HandlerReturns
<1>2. PICK r \in Responses : /\ conn' = [conn EXCEPT ![k] = t(r)]
                             /\ reply' = [reply EXCEPT ![i] = Answered(q, r)]
  BY DEF HandlerReturns, Answered
<1> DEFINE p == Answered(q, r)
           u == t(r)
<1>3. i \in 1..Len(asked) /\ i \in Calls /\ Due(s) = i /\ i # 0 /\ reply[i] = Nothing
  <2>1. i \in 1..Len(asked) /\ Due(s) = i
    BY <1>1 DEF Good, AtRightCall, Due
  <2>2. i # 0 /\ reply[i] = Nothing
    BY <2>1 DEF CallInv, Dues
  <2>3. i \in Calls
    <3>1. Len(asked) \in Nat /\ Len(asked) <= MaxCalls /\ MaxCalls \in Nat
      BY <1>1, HttpAssumption DEF CallInv, Ledger
    <3>2. QED BY <2>1, <3>1 DEF Calls
  <2>4. QED BY <2>1, <2>2, <2>3
<1>4. p \in Replies
  BY AnsweredType
<1>5. close \in BOOLEAN /\ (~close => s.up = <<>>)
  <2>1. close \in BOOLEAN
    OBVIOUS
  <2>2. ASSUME Kept(s) PROVE s.up = <<>>
    <3>1. Complete(s.body)
      BY <2>2 DEF Kept
    <3>2. s.up # <<>> => Head(s.up).t = "line"
      BY <1>1, <3>1 DEF Good, AtRightToken, Wanted
    <3>3. s.up # <<>> => Head(s.up) = s.up[1] /\ 1 \in 1..Len(s.up)
      BY <1>1, HeadTailProperties, EmptySeq DEF Connections
    <3>4. QED BY <1>1, <3>2, <3>3 DEF Single
  <2>3. QED BY <2>1, <2>2
<1> HIDE DEF close
<1>6. /\ u.pc = "body" /\ u.id = i /\ u.response = r /\ u.owed = owed(r) /\ u.down = down(r)
      /\ u.up = s.up /\ u.client_open = s.client_open /\ u.server_open = s.server_open
  <2> HIDE DEF owed, down, kept, i, q
  <2>1. QED BY <1>1 DEF Connections, i
<1>7. \A j \in Conns : conn'[j] = IF j = k THEN u ELSE conn[j]
  <2> HIDE DEF t
  <2>1. QED BY <1>2 DEF HttpInv, Counts
<1> HIDE DEF t, u
<1>8. Single(u) /\ Due(u) = 0
  <2>1. \A j \in 1..Len(s.up) : s.up[j].t # "line"
    BY <1>1 DEF Single
  <2>2. s.up # <<>> => 1 \in 1..Len(s.up)
    BY <1>1, EmptySeq DEF Connections
  <2>3. Due(u) = 0
    BY <1>6, <2>1, <2>2 DEF Due
  <2>4. QED BY <1>1, <1>6, <2>3 DEF Single
<1>9. /\ asked' = asked /\ call' = call /\ link' = link /\ read' = read /\ answer' = answer
      /\ reply \in [Calls -> Replies \cup {Nothing}] /\ read \in [Clients -> Seq(Pieces)]
  BY <1>1 DEF client, CallInv, Ledger
<1> HIDE DEF p
<1>10. \A m \in Calls : reply'[m] = IF m = i THEN p ELSE reply[m]
  BY <1>2, <1>9 DEF p
<1>11. Ledger'
  <2>1. reply' \in [Calls -> Replies \cup {Nothing}]
    BY <1>2, <1>4, <1>9 DEF p
  <2>2. \A m \in Calls : m > Len(asked) => reply'[m] = Nothing
    BY <1>1, <1>3, <1>10 DEF CallInv, Ledger, Calls
  <2>3. QED BY <1>9, <2>1, <2>2 DEF CallInv, Ledger
<1>12. Dues'
  <2> SUFFICES ASSUME NEW j \in Conns
               PROVE  /\ Single(conn'[j])
                      /\ Due(conn'[j]) # 0 =>
                           /\ Due(conn'[j]) \in 1..Len(asked) /\ reply'[Due(conn'[j])] = Nothing
                           /\ \A m \in Conns : Due(conn'[m]) = Due(conn'[j]) => m = j
    BY <1>9 DEF Dues
  <2>1. CASE j = k
    BY <1>7, <1>8, <2>1
  <2>2. CASE j # k
    <3>1. conn'[j] = conn[j]
      BY <1>7, <2>2
    <3>2. Single(conn[j])
      BY DEF CallInv, Dues
    <3>3. ASSUME Due(conn[j]) # 0
          PROVE  /\ Due(conn[j]) \in 1..Len(asked) /\ reply'[Due(conn[j])] = Nothing
                 /\ \A m \in Conns : Due(conn'[m]) = Due(conn[j]) => m = j
      <4>1. /\ Due(conn[j]) \in 1..Len(asked) /\ reply[Due(conn[j])] = Nothing
            /\ \A m \in Conns : Due(conn[m]) = Due(conn[j]) => m = j
        BY <3>3 DEF CallInv, Dues
      <4>2. Due(conn[j]) # i
        BY <1>3, <2>2, <4>1
      <4>3. reply'[Due(conn[j])] = reply[Due(conn[j])]
        <5>1. Len(asked) \in Nat /\ Len(asked) <= MaxCalls /\ MaxCalls \in Nat
          BY <1>1, HttpAssumption DEF CallInv, Ledger
        <5>2. Due(conn[j]) \in Calls
          BY <4>1, <5>1 DEF Calls
        <5>3. QED BY <1>10, <4>2, <5>2
      <4>4. QED BY <1>7, <1>8, <3>3, <4>1, <4>3
    <3>4. QED BY <3>1, <3>2, <3>3
  <2>3. QED BY <2>1, <2>2
<1>13. Views'
  <2> SUFFICES ASSUME NEW c \in Clients
               PROVE  /\ link[c] # 0 /\ call[c] = 0 => Idle(conn'[link[c]])
                      /\ call[c] # 0 =>
                           /\ call[c] \in 1..Len(asked) /\ answer[call[c]] = Nothing
                           /\ View(asked[call[c]], call[c], reply'[call[c]], read[c], conn'[link[c]])
                           /\ \A m \in Conns : Due(conn'[m]) = call[c] => m = link[c]
                           /\ \A d \in Clients : call[d] = call[c] => d = c
    BY <1>9 DEF Views
  <2>1. link[c] # 0 => link[c] \in Conns
    BY HttpAssumption DEF HttpInv, Counts, Conns
  <2>2. ASSUME link[c] # 0, call[c] = 0 PROVE Idle(conn'[link[c]])
    <3>1. Idle(conn[link[c]])
      BY <2>2 DEF CallInv, Views
    <3>2. link[c] # k
      BY <1>1, <3>1 DEF Idle
    <3>3. QED BY <1>7, <2>1, <2>2, <3>1, <3>2
  <2>3. ASSUME call[c] # 0
        PROVE  /\ call[c] \in 1..Len(asked) /\ answer[call[c]] = Nothing
               /\ View(asked[call[c]], call[c], reply'[call[c]], read[c], conn'[link[c]])
               /\ \A m \in Conns : Due(conn'[m]) = call[c] => m = link[c]
               /\ \A d \in Clients : call[d] = call[c] => d = c
    <3>1. /\ call[c] \in 1..Len(asked) /\ answer[call[c]] = Nothing
          /\ View(asked[call[c]], call[c], reply[call[c]], read[c], conn[link[c]])
          /\ \A m \in Conns : Due(conn[m]) = call[c] => m = link[c]
          /\ \A d \in Clients : call[d] = call[c] => d = c
      BY <2>3 DEF CallInv, Views
    <3>2. link[c] \in Conns /\ read[c] \in Seq(Pieces)
      BY <1>9, <2>1, <2>3 DEF HttpInv, Links
    <3>3. \A m \in Conns : Due(conn'[m]) = call[c] => m = link[c]
      BY <1>7, <1>8, <2>3, <3>1
    <3>4. View(asked[call[c]], call[c], reply'[call[c]], read[c], conn'[link[c]])
      <4>1. CASE call[c] = i
        <5>1. link[c] = k /\ conn'[link[c]] = u /\ reply'[call[c]] = p
          BY <1>3, <1>7, <1>10, <3>1, <4>1
        <5>2. View(q, i, Nothing, read[c], s)
          BY <1>3, <3>1, <4>1, <5>1
        <5>3. u.down = Append(s.down, h(r))
          BY <1>6, <5>2 DEF View
        <5>4. View(q, i, p, read[c], u)
          <6>1. p = [status |-> r.status,
                     n |-> IF asked[i].method = "HEAD" \/ r.status = "NO_CONTENT" THEN 0
                           ELSE r.n + (IF r.fails THEN 1 ELSE 0)]
            BY DEF p, Answered
          <6>2. /\ u.pc = "body" /\ u.id = i /\ u.response = r
                /\ u.owed = (IF r.body = "none" \/ asked[i].method = "HEAD" THEN 0 ELSE r.n)
                /\ u.down = Append(s.down, Header(i, r.status, asked[i].version, r.body, r.n, close))
                /\ u.up = s.up /\ u.client_open = s.client_open /\ u.server_open = s.server_open
            BY <1>6, <5>3
          <6>3. /\ asked \in Seq(Requests) /\ i \in 1..Len(asked) /\ s \in Connections(asked)
                /\ Single(s) /\ s.pc = "handler" /\ s.id = i /\ read[c] \in Seq(Pieces)
                /\ close \in BOOLEAN /\ (~close => s.up = <<>>)
                /\ View(asked[i], i, Nothing, read[c], s)
            BY <1>1, <1>3, <1>5, <3>2, <5>2
          <6> HIDE DEF i, h, owed, down, kept, q
          <6>4. View(asked[i], i, p, read[c], u)
            BY <6>1, <6>2, <6>3, HeaderView
          <6>5. QED BY <6>4 DEF q
        <5>5. QED BY <4>1, <5>1, <5>4
      <4>2. CASE call[c] # i
        <5>1. link[c] # k
          BY <1>3, <3>1, <4>2 DEF View
        <5>2. conn'[link[c]] = conn[link[c]]
          BY <1>7, <3>2, <5>1
        <5>3. reply'[call[c]] = reply[call[c]]
          <6>1. Len(asked) \in Nat /\ Len(asked) <= MaxCalls /\ MaxCalls \in Nat
            BY <1>1, HttpAssumption DEF CallInv, Ledger
          <6>2. call[c] \in Calls
            BY <3>1, <6>1 DEF Calls
          <6>3. QED BY <1>10, <4>2, <6>2
        <5>4. QED BY <3>1, <5>2, <5>3
      <4>3. QED BY <4>1, <4>2
    <3>5. QED BY <3>1, <3>3, <3>4
  <2>4. QED BY <2>2, <2>3
<1>14. QED BY <1>2, <1>3, <1>4, <1>11, <1>12, <1>13 DEF CallInv, p

-----------------------------------------------------------------------------
(* The steps of the clients keep the calls                                 *)

(* A request has one request line, in front.                               *)
LEMMA OneLine ==
  ASSUME NEW i, NEW r \in Requests
  PROVE  LET q == RequestTokens(i, r)
         IN  /\ q # <<>> /\ Len(q) \in Nat \ {0} /\ q[1] = Token("line", i)
             /\ \A j \in 2..Len(q) : q[j].t # "line"
<1> DEFINE x == Token("line", i)
           y == Token("fields", i)
           z == Token("size", i)
           v == Token("data", i)
           w == Token("crlf", i)
           l == Token("last", i)
           q == RequestTokens(i, r)
<1>1. r.body \in {"none", "length", "chunked", "both"}
  BY HttpAssumption
<1>2. y.t # "line" /\ z.t # "line" /\ v.t # "line" /\ w.t # "line" /\ l.t # "line"
  BY DEF Token
<1> DEFINE S == {x, y, z, v, w, l}
           h == <<x, y>>
<1>3. \E b \in Seq({z, v, w, l}) : q = h \o b
  <2>1. q = h \o (CASE r.body = "none"    -> <<>>
                    [] r.body = "chunked" -> <<z, v, w, l>>
                    [] OTHER              -> <<v>>)
    BY DEF RequestTokens
  <2> HIDE DEF x, y, z, v, w, l, q, h
  <2>2. /\ <<>> \in Seq({z, v, w, l}) /\ <<z, v, w, l>> \in Seq({z, v, w, l})
        /\ <<v>> \in Seq({z, v, w, l})
    OBVIOUS
  <2>3. CASE r.body = "none"
    BY <2>1, <2>2, <2>3, Zenon
  <2>4. CASE r.body = "chunked"
    <3>1. q = h \o <<z, v, w, l>>
      BY <2>1, <2>4
    <3>2. QED BY <2>2, <3>1, Zenon
  <2>5. CASE r.body \in {"length", "both"}
    <3>1. q = h \o <<v>>
      BY <2>1, <2>5
    <3>2. QED BY <2>2, <3>1, Zenon
  <2>6. QED BY <1>1, <2>3, <2>4, <2>5
<1> HIDE DEF x, y, z, v, w, l, q
<1>4. /\ q # <<>> /\ Len(q) \in Nat \ {0} /\ q[1] = x
      /\ \A j \in 2..Len(q) : q[j].t # "line"
  <2>1. PICK b \in Seq({z, v, w, l}) : q = h \o b
    BY <1>3
  <2>2. h \in Seq(S) /\ Len(h) = 2 /\ h[1] = x /\ h[2] = y /\ b \in Seq(S) /\ Len(b) \in Nat
    OBVIOUS
  <2>3. \A j \in 1..Len(b) : b[j] \in {z, v, w, l}
    OBVIOUS
  <2> HIDE DEF h, S
  <2>4. /\ q \in Seq(S) /\ Len(q) = Len(h) + Len(b)
        /\ \A j \in 1..(Len(h) + Len(b)) : q[j] = IF j <= Len(h) THEN h[j] ELSE b[j - Len(h)]
    BY <2>1, <2>2, ConcatProperties
  <2>5. q # <<>> /\ Len(q) \in Nat \ {0} /\ q[1] = x
    BY <2>2, <2>4, EmptySeq
  <2>6. ASSUME NEW j \in 2..Len(q) PROVE q[j] \in {y, z, v, w, l}
    <3>1. CASE j = 2
      BY <2>2, <2>4, <3>1
    <3>2. CASE j # 2
      <4>1. j - 2 \in 1..Len(b) /\ ~(j <= 2) /\ j \in 1..(2 + Len(b))
        BY <2>2, <2>4, <3>2
      <4>2. q[j] = b[j - 2]
        BY <2>2, <2>4, <4>1
      <4>3. QED BY <2>3, <4>1, <4>2
    <3>3. QED BY <3>1, <3>2
  <2>7. QED BY <1>2, <2>5, <2>6
<1>5. QED BY <1>4, Zenon DEF q, x

(* The connection that the next request, r, is written to.                 *)
LEMMA Written ==
  ASSUME NEW a \in Seq(Requests), NEW r \in Requests, NEW i, i # 0, NEW s \in Connections(a),
         Single(s), Idle(s), NEW t,
         t = IF s.server_open THEN [s EXCEPT !.up = @ \o RequestTokens(i, r)] ELSE s
  PROVE  Single(t) /\ Due(t) \in {0, i} /\ View(r, i, Nothing, <<>>, t)
<1> DEFINE q == RequestTokens(i, r)
<1>1. /\ q # <<>> /\ Len(q) \in Nat \ {0} /\ q[1] = Token("line", i)
      /\ \A j \in 2..Len(q) : q[j].t # "line"
  BY OneLine, Zenon
<1>2. s.up = <<>> /\ s.client_open /\ s.pc \notin {"fields", "handler"} /\ s.down \in Seq(Pieces)
  BY DEF Idle, Connections
<1>3. s.up \o q = q
  BY <1>2 DEF RequestTokens
<1> HIDE DEF q
<1>4. /\ t.up \in {<<>>, q} /\ (~s.server_open => t.up = <<>>) /\ t.down = s.down
      /\ t.client_open = s.client_open /\ t.server_open = s.server_open /\ t.pc = s.pc
  BY <1>2, <1>3 DEF Connections, q
<1>5. Single(t)
  BY <1>1, <1>2, <1>4 DEF Single
<1>6. Due(t) \in {0, i}
  BY <1>1, <1>2, <1>4 DEF Due, Token
<1>7. ~(t.down # <<>> /\ t.down[1].t = "header")
  BY <1>2, <1>4, EmptySeq DEF Idle
<1>8. <<>> \o t.down = t.down
  <2> HIDE DEF Pieces
  <2>1. QED BY <1>2, <1>4
<1>9. QED BY <1>2, <1>4, <1>5, <1>6, <1>7, <1>8 DEF View

LEMMA RequestKeeps ==
  ASSUME HttpInv, CallInv, NEW c \in Clients, Request(c)
  PROVE  CallInv'
<1> DEFINE i == Len(asked) + 1
           k == IF link[c] = 0 THEN n_conns + 1 ELSE link[c]
           opened == [Fresh EXCEPT !.client_open = TRUE, !.server_open = TRUE, !.pc = "backlog"]
           s == IF link[c] = 0 THEN opened ELSE conn[k]
           t(r) == IF s.server_open THEN [s EXCEPT !.up = @ \o RequestTokens(i, r)] ELSE s
<1>1. PICK r \in Requests :
        /\ asked' = Append(asked, r) /\ link' = [link EXCEPT ![c] = k]
        /\ conn' = [conn EXCEPT ![k] = t(r)]
        /\ call' = [call EXCEPT ![c] = i] /\ read' = [read EXCEPT ![c] = <<>>]
  BY DEF Request
<1> DEFINE u == t(r)
<1>2. /\ asked \in Seq(Requests) /\ Len(asked) \in Nat /\ i \in Nat \ {0} /\ i \in Calls
      /\ Len(asked) < MaxCalls /\ MaxCalls \in Nat
      /\ call[c] = 0 /\ reply' = reply /\ answer' = answer
  <2>1. asked \in Seq(Requests) /\ Len(asked) < MaxCalls /\ MaxCalls \in Nat
    BY HttpAssumption DEF HttpInv, Counts, Request
  <2>2. call[c] = 0 /\ reply' = reply /\ answer' = answer
    BY DEF Request, history
  <2>3. QED BY <2>1, <2>2 DEF Calls
<1>3. /\ Len(asked') = i /\ asked'[i] = r /\ \A m \in 1..Len(asked) : asked'[m] = asked[m]
  BY <1>1, <1>2
<1>4. k \in Conns
  <2>1. link[c] \in 0..n_conns /\ n_conns \in 0..MaxConns /\ MaxConns \in Nat
        /\ (link[c] = 0 => n_conns < MaxConns)
    BY HttpAssumption DEF HttpInv, Counts, Request
  <2>2. QED BY <2>1 DEF Conns
<1>5. s \in Connections(asked) /\ Single(s) /\ Idle(s)
  <2>1. CASE link[c] = 0
    <3>1. Fresh \in Connections(asked)
      BY <1>2, FreshIsGood DEF Good
    <3>2. /\ opened \in Connections(asked) /\ opened.up = <<>> /\ opened.down = <<>>
          /\ opened.client_open /\ opened.server_open /\ opened.pc = "backlog"
      BY <3>1 DEF Fresh, Connections, Places
    <3> HIDE DEF opened
    <3>3. Len(opened.up) = 0 /\ Len(opened.down) = 0
      BY <3>2
    <3>4. QED BY <2>1, <3>2, <3>3 DEF Single, Idle
  <2>2. CASE link[c] # 0
    <3>1. Idle(conn[link[c]])
      BY <1>2, <2>2 DEF CallInv, Views
    <3>2. conn[k] \in Connections(asked) /\ Single(conn[k])
      BY <1>4, KnownOf
    <3>3. QED BY <2>2, <3>1, <3>2
  <2>3. QED BY <2>1, <2>2
<1>6. Single(u) /\ Due(u) \in {0, i} /\ View(r, i, Nothing, <<>>, u)
  <2> HIDE DEF s, i
  <2>1. u = IF s.server_open THEN [s EXCEPT !.up = @ \o RequestTokens(i, r)] ELSE s
    OBVIOUS
  <2>2. i # 0
    BY <1>2
  <2> HIDE DEF t
  <2>3. QED BY <1>2, <1>5, <2>1, <2>2, Written
<1> HIDE DEF t, s, u
<1>7. \A j \in Conns : conn'[j] = IF j = k THEN u ELSE conn[j]
  BY <1>1, <1>4 DEF HttpInv, Counts, u
<1>8. \A d \in Clients : /\ link'[d] = IF d = c THEN k ELSE link[d]
                         /\ call'[d] = IF d = c THEN i ELSE call[d]
                         /\ read'[d] = IF d = c THEN <<>> ELSE read[d]
                         /\ d # c /\ link[d] # 0 => link[d] # k /\ link[d] \in Conns
  <2> TAKE d \in Clients
  <2>1. /\ link[d] \in 0..n_conns /\ link \in [Clients -> 0..n_conns] /\ call \in [Clients -> Nat]
        /\ read \in [Clients -> Seq(Pieces)]
        /\ n_conns \in 0..MaxConns /\ MaxConns \in Nat
    BY HttpAssumption DEF HttpInv, Counts, CallInv, Ledger
  <2>2. link'[d] = IF d = c THEN k ELSE link[d]
    <3> HIDE DEF k
    <3>1. QED BY <1>1, <2>1
  <2>3. call'[d] = IF d = c THEN i ELSE call[d]
    <3> HIDE DEF i
    <3>1. QED BY <1>1, <2>1
  <2>4. read'[d] = IF d = c THEN <<>> ELSE read[d]
    BY <1>1, <2>1
  <2>5. d # c /\ link[d] # 0 => link[d] # k /\ link[d] \in Conns
    BY <2>1 DEF HttpInv, Links, Conns
  <2>6. QED BY <2>2, <2>3, <2>4, <2>5
<1>9. reply[i] = Nothing /\ answer[i] = Nothing
  BY <1>2 DEF CallInv, Ledger
<1>10. Ledger'
  <2>1. \A m \in Calls : m > Len(asked') => m > Len(asked)
    BY <1>2, <1>3 DEF Calls
  <2>2. Len(asked') <= MaxCalls
    BY <1>2, <1>3
  <2>3. read' \in [Clients -> Seq(Pieces)]
    BY <1>1 DEF CallInv, Ledger
  <2>4. QED BY <1>2, <2>1, <2>2, <2>3 DEF CallInv, Ledger
<1>11. \A j \in Conns : j # k /\ Due(conn[j]) # 0 => Due(conn[j]) \in 1..Len(asked) /\ Due(conn[j]) # i
  BY <1>2 DEF CallInv, Dues
<1> HIDE DEF k
<1>12. Dues'
  <2> SUFFICES ASSUME NEW j \in Conns
               PROVE  /\ Single(conn'[j])
                      /\ Due(conn'[j]) # 0 =>
                           /\ Due(conn'[j]) \in 1..Len(asked') /\ reply[Due(conn'[j])] = Nothing
                           /\ \A m \in Conns : Due(conn'[m]) = Due(conn'[j]) => m = j
    BY <1>2 DEF Dues
  <2>1. CASE j = k
    <3>1. conn'[j] = u /\ i \in 1..Len(asked')
      BY <1>2, <1>3, <1>7, <2>1
    <3> HIDE DEF i
    <3>2. QED BY <1>6, <1>7, <1>9, <1>11, <2>1, <3>1
  <2>2. CASE j # k
    <3>1. conn'[j] = conn[j] /\ Single(conn[j])
      BY <1>7, <2>2 DEF CallInv, Dues
    <3>2. ASSUME Due(conn[j]) # 0
          PROVE  /\ Due(conn[j]) \in 1..Len(asked') /\ reply[Due(conn[j])] = Nothing
                 /\ \A m \in Conns : Due(conn'[m]) = Due(conn[j]) => m = j
      <4>1. /\ Due(conn[j]) \in 1..Len(asked) /\ reply[Due(conn[j])] = Nothing
            /\ \A m \in Conns : Due(conn[m]) = Due(conn[j]) => m = j
        BY <3>2 DEF CallInv, Dues
      <4>2. Due(conn[j]) \in 1..Len(asked') /\ Due(conn[j]) # i
        BY <1>2, <1>3, <4>1
      <4>3. \A m \in Conns : Due(conn'[m]) = Due(conn[j]) => m = j
        BY <1>6, <1>7, <3>2, <4>1, <4>2
      <4>4. QED BY <4>1, <4>2, <4>3
    <3>3. QED BY <3>1, <3>2
  <2>3. QED BY <2>1, <2>2
<1>13. Views'
  <2>1. ASSUME NEW d \in Clients, d # c
        PROVE  call[d] # 0 => /\ call[d] \in 1..Len(asked) /\ call[d] # i /\ answer[call[d]] = Nothing
                              /\ View(asked[call[d]], call[d], reply[call[d]], read[d], conn[link[d]])
                              /\ \A m \in Conns : Due(conn[m]) = call[d] => m = link[d]
                              /\ \A e \in Clients : call[e] = call[d] => e = d
    BY <1>2 DEF CallInv, Views
  <2> SUFFICES ASSUME NEW d \in Clients
               PROVE  /\ link'[d] # 0 /\ call'[d] = 0 => Idle(conn'[link'[d]])
                      /\ call'[d] # 0 =>
                           /\ call'[d] \in 1..Len(asked') /\ answer[call'[d]] = Nothing
                           /\ View(asked'[call'[d]], call'[d], reply[call'[d]], read'[d], conn'[link'[d]])
                           /\ \A m \in Conns : Due(conn'[m]) = call'[d] => m = link'[d]
                           /\ \A e \in Clients : call'[e] = call'[d] => e = d
    BY <1>2 DEF Views
  <2>2. CASE d = c
    <3>1. call'[d] = i /\ link'[d] = k /\ read'[d] = <<>> /\ conn'[k] = u
      BY <1>4, <1>7, <1>8, <2>2
    <3>2. i \in 1..Len(asked') /\ i # 0
      BY <1>2, <1>3
    <3>3. \A e \in Clients : call'[e] = i => e = d
      BY <1>8, <2>1, <2>2, <3>2
    <3> HIDE DEF i
    <3>4. \A m \in Conns : Due(conn'[m]) = i => m = k
      BY <1>7, <1>11, <3>2
    <3>5. View(asked'[i], i, reply[i], <<>>, u)
      BY <1>3, <1>6, <1>9
    <3>6. QED BY <1>9, <3>1, <3>2, <3>3, <3>4, <3>5
  <2>3. CASE d # c
    <3>1. /\ call'[d] = call[d] /\ link'[d] = link[d] /\ read'[d] = read[d]
          /\ link[d] # 0 => conn'[link[d]] = conn[link[d]]
      BY <1>7, <1>8, <2>3
    <3>2. link[d] # 0 /\ call[d] = 0 => Idle(conn[link[d]])
      BY DEF CallInv, Views
    <3>3. ASSUME call[d] # 0
          PROVE  /\ call[d] \in 1..Len(asked') /\ answer[call[d]] = Nothing
                 /\ View(asked'[call[d]], call[d], reply[call[d]], read[d], conn'[link[d]])
                 /\ \A m \in Conns : Due(conn'[m]) = call[d] => m = link[d]
                 /\ \A e \in Clients : call'[e] = call[d] => e = d
      <4>1. link[d] # 0
        BY <3>3 DEF HttpInv, Links
      <4>2. call[d] \in 1..Len(asked') /\ asked'[call[d]] = asked[call[d]] /\ call[d] # i
        BY <1>2, <1>3, <2>1, <2>3, <3>3
      <4>3. \A m \in Conns : Due(conn'[m]) = call[d] => m = link[d]
        BY <1>6, <1>7, <2>1, <2>3, <3>3, <4>2
      <4>4. \A e \in Clients : call'[e] = call[d] => e = d
        BY <1>8, <2>1, <2>3, <3>3, <4>2
      <4>5. QED BY <2>1, <2>3, <3>1, <3>3, <4>1, <4>2, <4>3, <4>4
    <3>4. QED BY <3>1, <3>2, <3>3
  <2>4. QED BY <2>2, <2>3
<1>14. QED BY <1>10, <1>12, <1>13 DEF CallInv

(* What every caller may get: of call i for q, which was answered p.       *)
Given(q, p, a) ==
  \/ /\ p # Nothing /\ a \in Replies /\ a.status = p.status /\ a.n <= p.n
     /\ q.version = 11 => a = p
  \/ p = Nothing /\ a = Refused
  \/ a = Failure

(* A call ends, and leaves the connection t.                               *)
LEMMA EndingKeeps ==
  ASSUME HttpInv, CallInv, NEW c \in Clients, call[c] # 0, NEW t, NEW a, NEW reusable \in BOOLEAN,
         conn' = [conn EXCEPT ![link[c]] = t], Return(c, a, reusable),
         asked' = asked, reply' = reply,
         Single(t), Due(t) \in {0, Due(conn[link[c]])}, reusable => Idle(t)
  PROVE  CallInv'
<1> DEFINE k == link[c]
           i == call[c]
<1>1. /\ k \in Conns /\ k # 0 /\ i \in 1..Len(asked) /\ Len(asked) \in Nat
      /\ \A d \in Clients : call[d] = i => d = c
  <2>1. k \in Conns /\ k # 0
    BY Connected DEF HttpInv, Links
  <2>2. asked \in Seq(Requests)
    BY DEF HttpInv, Counts
  <2>3. Len(asked) \in Nat
    BY <2>2
  <2>4. i \in 1..Len(asked) /\ \A d \in Clients : call[d] = i => d = c
    BY DEF CallInv, Views
  <2>5. QED BY <2>1, <2>3, <2>4
<1>2. \A j \in Conns : conn'[j] = IF j = k THEN t ELSE conn[j]
  BY <1>1 DEF HttpInv, Counts
<1>3. \A d \in Clients : /\ call'[d] = IF d = c THEN 0 ELSE call[d]
                         /\ read'[d] = IF d = c THEN <<>> ELSE read[d]
                         /\ link'[d] = IF d = c THEN (IF reusable THEN k ELSE 0) ELSE link[d]
                         /\ d # c /\ link[d] # 0 => link[d] # k /\ link[d] \in Conns
  <2> TAKE d \in Clients
  <2>1. /\ link[d] \in 0..n_conns /\ link \in [Clients -> 0..n_conns] /\ call \in [Clients -> Nat]
        /\ read \in [Clients -> Seq(Pieces)]
        /\ n_conns \in 0..MaxConns /\ MaxConns \in Nat
    BY HttpAssumption DEF HttpInv, Counts, CallInv, Ledger
  <2>2. /\ call'[d] = IF d = c THEN 0 ELSE call[d]
        /\ read'[d] = IF d = c THEN <<>> ELSE read[d]
        /\ link'[d] = IF d = c THEN (IF reusable THEN k ELSE 0) ELSE link[d]
    BY <2>1 DEF Return
  <2>3. d # c /\ link[d] # 0 => link[d] # k /\ link[d] \in Conns
    BY <1>1, <2>1 DEF HttpInv, Links, Conns
  <2>4. QED BY <2>2, <2>3
<1>4. DOMAIN answer' = Calls /\ \A m \in Calls : m # i => answer'[m] = answer[m]
  BY DEF Return, CallInv, Ledger
<1>5. Ledger'
  <2>1. \A m \in Calls : m > Len(asked) => m # i
    BY <1>1 DEF Calls
  <2>2. read' \in [Clients -> Seq(Pieces)]
    BY DEF Return, CallInv, Ledger
  <2> HIDE DEF i, k
  <2>3. QED BY <1>4, <2>1, <2>2 DEF CallInv, Ledger
<1>6. Dues'
  BY <1>2 DEF CallInv, Dues
<1>7. Views'
  <2> SUFFICES ASSUME NEW d \in Clients
               PROVE  /\ link'[d] # 0 /\ call'[d] = 0 => Idle(conn'[link'[d]])
                      /\ call'[d] # 0 =>
                           /\ call'[d] \in 1..Len(asked) /\ answer'[call'[d]] = Nothing
                           /\ View(asked[call'[d]], call'[d], reply[call'[d]], read'[d], conn'[link'[d]])
                           /\ \A m \in Conns : Due(conn'[m]) = call'[d] => m = link'[d]
                           /\ \A e \in Clients : call'[e] = call'[d] => e = d
    BY DEF Views
  <2>1. CASE d = c
    BY <1>1, <1>2, <1>3, <2>1
  <2>2. CASE d # c
    <3>1. /\ call'[d] = call[d] /\ link'[d] = link[d] /\ read'[d] = read[d]
          /\ link[d] # 0 => conn'[link[d]] = conn[link[d]]
      BY <1>2, <1>3, <2>2
    <3>2. link[d] # 0 /\ call[d] = 0 => Idle(conn[link[d]])
      BY DEF CallInv, Views
    <3>3. ASSUME call[d] # 0
          PROVE  /\ call[d] \in 1..Len(asked) /\ answer'[call[d]] = Nothing
                 /\ View(asked[call[d]], call[d], reply[call[d]], read[d], conn'[link[d]])
                 /\ \A m \in Conns : Due(conn'[m]) = call[d] => m = link[d]
                 /\ \A e \in Clients : call'[e] = call[d] => e = d
      <4>1. /\ call[d] \in 1..Len(asked) /\ answer[call[d]] = Nothing
            /\ View(asked[call[d]], call[d], reply[call[d]], read[d], conn[link[d]])
            /\ \A m \in Conns : Due(conn[m]) = call[d] => m = link[d]
            /\ \A e \in Clients : call[e] = call[d] => e = d
        BY <3>3 DEF CallInv, Views
      <4>2. link[d] # 0
        BY <3>3 DEF HttpInv, Links
      <4>3. answer'[call[d]] = Nothing
        <5>1. Len(asked) <= MaxCalls /\ MaxCalls \in Nat
          BY HttpAssumption DEF CallInv, Ledger
        <5>2. call[d] \in Calls
          BY <1>1, <4>1, <5>1 DEF Calls
        <5>3. QED BY <1>1, <1>4, <2>2, <4>1, <5>2
      <4>4. \A m \in Conns : Due(conn'[m]) = call[d] => m = link[d]
        BY <1>1, <1>2, <3>3, <4>1
      <4>5. \A e \in Clients : call'[e] = call[d] => e = d
        BY <1>3, <3>3, <4>1
      <4>6. QED BY <3>1, <4>1, <4>2, <4>3, <4>4, <4>5
    <3>4. QED BY <3>1, <3>2, <3>3
  <2>3. QED BY <2>1, <2>2
<1>8. QED BY <1>5, <1>6, <1>7 DEF CallInv

(* A client reads on.                                                      *)
LEMMA ReadingKeeps ==
  ASSUME HttpInv, CallInv, NEW c \in Clients, call[c] # 0, NEW t, NEW rd \in Seq(Pieces),
         conn' = [conn EXCEPT ![link[c]] = t], read' = [read EXCEPT ![c] = rd],
         UNCHANGED <<asked, call, link, answer, reply>>,
         Single(t), Due(t) = Due(conn[link[c]]),
         View(asked[call[c]], call[c], reply[call[c]], rd, t)
  PROVE  CallInv'
<1> DEFINE k == link[c]
<1>1. k \in Conns /\ k # 0
  BY Connected DEF HttpInv, Links
<1>2. \A j \in Conns : conn'[j] = IF j = k THEN t ELSE conn[j]
  BY <1>1 DEF HttpInv, Counts
<1>3. \A d \in Clients : /\ read'[d] = IF d = c THEN rd ELSE read[d]
                         /\ d # c /\ link[d] # 0 => link[d] # k /\ link[d] \in Conns
  <2> TAKE d \in Clients
  <2>1. /\ link[d] \in 0..n_conns /\ n_conns \in 0..MaxConns /\ MaxConns \in Nat
        /\ read \in [Clients -> Seq(Pieces)]
    BY HttpAssumption DEF HttpInv, Counts, CallInv, Ledger
  <2>2. QED BY <1>1, <2>1 DEF HttpInv, Links, Conns
<1>4. Ledger'
  BY DEF CallInv, Ledger
<1>5. Dues'
  BY <1>2 DEF CallInv, Dues
<1>6. Views'
  <2> SUFFICES ASSUME NEW d \in Clients
               PROVE  /\ link[d] # 0 /\ call[d] = 0 => Idle(conn'[link[d]])
                      /\ call[d] # 0 =>
                           /\ call[d] \in 1..Len(asked) /\ answer[call[d]] = Nothing
                           /\ View(asked[call[d]], call[d], reply[call[d]], read'[d], conn'[link[d]])
                           /\ \A m \in Conns : Due(conn'[m]) = call[d] => m = link[d]
                           /\ \A e \in Clients : call[e] = call[d] => e = d
    BY DEF Views
  <2>1. CASE d = c
    BY <1>1, <1>2, <1>3, <2>1 DEF CallInv, Views
  <2>2. CASE d # c
    <3>1. read'[d] = read[d] /\ (link[d] # 0 => conn'[link[d]] = conn[link[d]])
      BY <1>2, <1>3, <2>2
    <3>2. call[d] # 0 => link[d] # 0
      BY DEF HttpInv, Links
    <3>3. QED BY <1>1, <1>2, <3>1, <3>2 DEF CallInv, Views
  <2>3. QED BY <2>1, <2>2
<1>7. QED BY <1>4, <1>5, <1>6 DEF CallInv

(* A header and m pieces of data, and what follows is none.                *)
LEMMA Counted ==
  ASSUME NEW r \in Seq(Pieces), r # <<>>, r[1].id # 0, NEW m \in Nat, m + 1 <= Len(r),
         \A j \in 2..(m + 1) : r[j].t = "data",
         \A j \in (m + 2)..Len(r) : r[j].t # "data"
  PROVE  Outcome(r) = [status |-> r[1].status, n |-> m]
<1>1. {j \in 2..Len(r) : r[j].t = "data"} = 2..(m + 1)
  <2>1. Len(r) \in Nat
    OBVIOUS
  <2>2. ASSUME NEW j \in 2..Len(r), r[j].t = "data" PROVE j \in 2..(m + 1)
    <3>1. j \notin (m + 2)..Len(r)
      BY <2>2
    <3>2. QED BY <2>1, <3>1
  <2>3. ASSUME NEW j \in 2..(m + 1) PROVE j \in 2..Len(r) /\ r[j].t = "data"
    BY <2>1
  <2>4. QED BY <2>2, <2>3
<1>2. Cardinality(2..(m + 1)) = m
  BY FS_Interval
<1>3. QED BY <1>1, <1>2 DEF Outcome

(* One token moves from the socket to the client.                          *)
LEMMA OneTaken ==
  ASSUME NEW rd \in Seq(Pieces), NEW d \in Seq(Pieces), d # <<>>
  PROVE  LET r == Append(rd, Head(d)) IN
         /\ r \in Seq(Pieces) /\ r # <<>> /\ Len(r) = Len(rd) + 1
         /\ r \o Tail(d) = rd \o d /\ Tail(d) \in Seq(Pieces)
         /\ r[1] = IF rd = <<>> THEN Head(d) ELSE rd[1]
         /\ r[Len(r)] = Head(d)
         /\ Head(d) \in Pieces
<1> HIDE DEF Pieces
<1> DEFINE x == Head(d)
           r == Append(rd, x)
<1>1. x \in Pieces /\ Tail(d) \in Seq(Pieces) /\ d = <<x>> \o Tail(d)
  OBVIOUS
<1> HIDE DEF x
<1>2. /\ r \in Seq(Pieces) /\ r # <<>> /\ Len(r) = Len(rd) + 1
      /\ r[1] = (IF rd = <<>> THEN x ELSE rd[1]) /\ r[Len(r)] = x
  <2>1. /\ r \in Seq(Pieces) /\ Len(r) = Len(rd) + 1 /\ r[Len(rd) + 1] = x
        /\ \A j \in 1..Len(rd) : r[j] = rd[j]
    BY <1>1, Appended
  <2>2. Len(rd) \in Nat /\ (rd = <<>> <=> Len(rd) = 0)
    BY EmptySeq
  <2> HIDE DEF r
  <2>3. r # <<>> /\ r[Len(r)] = x
    BY <2>1, <2>2, EmptySeq
  <2>4. r[1] = IF rd = <<>> THEN x ELSE rd[1]
    BY <2>1, <2>2
  <2>5. QED BY <2>1, <2>3, <2>4
<1>3. r \o Tail(d) = rd \o d
  <2>1. r = rd \o <<x>> /\ <<x>> \in Seq(Pieces)
    BY <1>1
  <2>2. (rd \o <<x>>) \o Tail(d) = rd \o (<<x>> \o Tail(d))
    BY <1>1, <2>1, ConcatAssociative
  <2>3. QED BY <1>1, <2>1, <2>2
<1>4. QED BY <1>1, <1>2, <1>3, Zenon DEF x

LEMMA LastPlace ==
  ASSUME NEW n \in Nat \ {0}, NEW m, NEW k \in Nat, m = n + k
  PROVE  n \in 1..n /\ (~(n > 1) => n = 1) /\ (n # 1 => n \in 2..m)
OBVIOUS

(* What a response says that is whole, r, of what is on the way, T.        *)
LEMMA WholeIsGiven ==
  ASSUME NEW i, i # 0, NEW q, q = asked[i], NEW p, NEW r \in Seq(Pieces), NEW d \in Seq(Pieces), NEW s,
         r # <<>>, r[1].t = "header", Len(r) > 1 => ~HeaderOnly(q, r[1]),
         \/ Len(r \o d) = 1 /\ (r \o d)[1] = ErrorHeader /\ p = Nothing
         \/ Begins(q, i, p, r \o d),
         Whole(i, r)
  PROVE  Given(q, p, Outcome(r))
<1> DEFINE T == r \o d
           h == r[1]
<1>1. /\ T \in Seq(Pieces) /\ Len(r) \in Nat \ {0} /\ Len(T) = Len(r) + Len(d) /\ Len(d) \in Nat
      /\ T[1] = h /\ \A j \in 1..Len(r) : T[j] = r[j]
  BY Longer, EmptySeq
<1> HIDE DEF T
<1>2. CASE Len(T) = 1 /\ T[1] = ErrorHeader /\ p = Nothing
  <2>1. Len(r) = 1 /\ h.id = 0
    BY <1>1, <1>2 DEF ErrorHeader, Header
  <2>2. {j \in 2..Len(r) : r[j].t = "data"} = 2..1
    BY <2>1
  <2>3. Cardinality(2..1) = 0
    BY FS_Interval
  <2>4. Outcome(r) = Refused
    BY <2>1, <2>2, <2>3 DEF Outcome, Refused
  <2>5. QED BY <1>2, <2>4 DEF Given
<1>3. CASE Begins(q, i, p, T)
  <2>1. h.id = i /\ p \in Replies /\ h.status = p.status /\ p = [status |-> p.status, n |-> p.n]
    BY <1>1, <1>3 DEF Begins, Replies
  <2>2. p.n \in Nat
    BY <2>1, HttpAssumption DEF Replies
  <2>3. p # Nothing
    BY <2>1, NothingIsNoReply
  <2>4. ASSUME NEW m \in Nat, m + 1 <= Len(r),
               \A j \in 2..(m + 1) : r[j].t = "data",
               \A j \in (m + 2)..Len(r) : r[j].t # "data",
               p.n = m
        PROVE  Given(q, p, Outcome(r))
    <3>1. Outcome(r) = p
      BY <2>1, <2>4, Counted
    <3>2. QED BY <2>1, <2>2, <2>3, <3>1 DEF Given
  <2>5. CASE HeaderOnly(q, h)
    <3>1. ~(Len(r) > 1)
      BY <2>5
    <3>2. Len(r) = 1
      BY <1>1, <3>1, LastPlace, Zenon
    <3>3. p.n = 0
      BY <1>1, <1>3, <2>5 DEF Begins
    <3>4. /\ 0 + 1 <= Len(r) /\ \A j \in 2..(0 + 1) : r[j].t = "data"
          /\ \A j \in (0 + 2)..Len(r) : r[j].t # "data"
      BY <3>2
    <3>5. QED BY <2>4, <3>3, <3>4
  <2>6. CASE ~HeaderOnly(q, h) /\ h.chunked /\ r[Len(r)].t = "last"
    <3>1. Len(r) # 1
      BY <2>6
    <3>2. Len(r) = Len(T)
      <4>0. Len(r) \in 1..Len(r) /\ Len(r) \in 2..Len(T)
        BY <1>1, <3>1, LastPlace, Zenon
      <4>1. Len(r) \in 2..Len(T) /\ T[Len(r)] = r[Len(r)]
        BY <1>1, <4>0
      <4>2. QED BY <1>1, <1>3, <2>6, <4>1 DEF Begins
    <3>3. p.n = Len(T) - 2
      BY <1>1, <1>3, <2>6, <3>2 DEF Begins
    <3>4. \A j \in 2..Len(r) : j # Len(r) => r[j].t = "data"
      <4>1. \A j \in 2..Len(T) : T[j].t \in (IF j = Len(T) /\ T[1].chunked THEN {"data", "last"} ELSE {"data"})
        BY <1>3 DEF Begins
      <4> SUFFICES ASSUME NEW j \in 2..Len(r), j # Len(r) PROVE r[j].t = "data"
        OBVIOUS
      <4>2. j \in 2..Len(T) /\ j # Len(T) /\ j \in 1..Len(r)
        BY <1>1, <3>2
      <4>3. QED BY <1>1, <4>1, <4>2
    <3> DEFINE m == Len(r) - 2
    <3>5. m \in Nat /\ m + 1 = Len(r) - 1 /\ m + 2 = Len(r) /\ p.n = m
      BY <1>1, <3>1, <3>2, <3>3
    <3> HIDE DEF m
    <3>6. \A j \in 2..(m + 1) : r[j].t = "data"
      BY <1>1, <3>4, <3>5
    <3>7. \A j \in (m + 2)..Len(r) : r[j].t # "data"
      BY <1>1, <2>6, <3>5
    <3>8. QED BY <1>1, <2>4, <3>5, <3>6, <3>7
  <2>7. CASE ~HeaderOnly(q, h) /\ ~h.chunked /\ h.length >= 0 /\ Len(r) = 1 + h.length
    <3>1. p.n = h.length
      BY <1>1, <1>3, <2>7 DEF Begins
    <3>2. \A j \in 2..Len(T) : T[j].t = "data"
      BY <1>1, <1>3, <2>7 DEF Begins
    <3>3. \A j \in 2..Len(r) : r[j].t = "data"
      BY <1>1, <3>2
    <3> DEFINE m == h.length
    <3>4. m \in Nat /\ m + 1 = Len(r) /\ p.n = m
      BY <1>1, <2>2, <2>7, <3>1
    <3> HIDE DEF m
    <3>5. \A j \in 2..(m + 1) : r[j].t = "data"
      BY <3>3, <3>4
    <3>6. \A j \in (m + 2)..Len(r) : r[j].t # "data"
      BY <1>1, <3>4
    <3>7. m + 1 <= Len(r)
      BY <1>1, <3>4
    <3>8. QED BY <2>4, <3>4, <3>5, <3>6, <3>7
  <2>8. Bodyless(i, h) <=> HeaderOnly(q, h)
    BY DEF Bodyless, HeaderOnly
  <2>9. QED BY <2>5, <2>6, <2>7, <2>8 DEF Whole
<1>4. QED BY <1>2, <1>3 DEF T

(* What is known of the connection of a client in a call.                  *)
LEMMA Viewed ==
  ASSUME HttpInv, CallInv, NEW c \in Clients, call[c] # 0
  PROVE  /\ link[c] \in Conns /\ asked \in Seq(Requests) /\ call[c] \in 1..Len(asked)
         /\ call[c] \in Calls /\ call[c] # 0 /\ answer[call[c]] = Nothing
         /\ conn[link[c]] \in Connections(asked) /\ Good(asked, conn[link[c]])
         /\ Single(conn[link[c]]) /\ Owing(reply, conn[link[c]])
         /\ conn[link[c]].down \in Seq(Pieces) /\ read[c] \in Seq(Pieces)
         /\ View(asked[call[c]], call[c], reply[call[c]], read[c], conn[link[c]])
<1>1. link[c] \in Conns
  BY Connected
<1>2. /\ asked \in Seq(Requests) /\ conn[link[c]] \in Connections(asked) /\ Good(asked, conn[link[c]])
      /\ Single(conn[link[c]]) /\ Owing(reply, conn[link[c]])
  BY <1>1, KnownOf
<1>3. /\ call[c] \in 1..Len(asked) /\ answer[call[c]] = Nothing
      /\ View(asked[call[c]], call[c], reply[call[c]], read[c], conn[link[c]])
  BY DEF CallInv, Views
<1>4. read[c] \in Seq(Pieces)
  BY DEF CallInv, Ledger
<1>5. call[c] \in Calls
  <2>1. Len(asked) \in Nat /\ Len(asked) <= MaxCalls /\ MaxCalls \in Nat
    BY <1>2, HttpAssumption DEF CallInv, Ledger
  <2>2. QED BY <1>3, <2>1 DEF Calls
<1>6. conn[link[c]].down \in Seq(Pieces)
  BY <1>2 DEF Connections
<1>7. QED BY <1>1, <1>2, <1>3, <1>4, <1>5, <1>6

LEMMA StartsSo ==
  ASSUME NEW r \in Seq(Pieces), NEW d \in Seq(Pieces), r # <<>>
  PROVE  /\ Len(r) \in Nat \ {0} /\ Len(d) \in Nat
         /\ r \o d # <<>> /\ (r \o d)[1] = r[1]
<1>1. Len(r) \in Nat \ {0} /\ Len(d) \in Nat
  BY EmptySeq
<1>2. 1 \in 1..Len(r)
  BY <1>1
<1>3. (r \o d)[1] = r[1] /\ Len(r \o d) = Len(r) + Len(d)
  BY <1>2, Longer
<1>4. r \o d # <<>>
  <2>1. \A v : v = <<>> => Len(v) = 0
    OBVIOUS
  <2>2. Len(r) + Len(d) # 0
    BY <1>1
  <2>3. QED BY <1>3, <2>1, <2>2
<1>5. QED BY <1>1, <1>3, <1>4

(* A connection that may be used again is left as the next call needs it.  *)
LEMMA KeptIsIdle ==
  ASSUME NEW a \in Seq(Requests), NEW i, NEW q, NEW p, NEW rd \in Seq(Pieces), NEW s, Good(a, s),
         NEW d \in Seq(Pieces), NEW r \in Seq(Pieces), r # <<>>, r \o d = rd \o s.down,
         r[1].t = "header", View(q, i, p, rd, s), Due(s) = i => p = Nothing, Reusable(r[1]),
         NEW t, t.down = d, t.up = s.up, t.pc = s.pc, t.client_open = s.client_open
  PROVE  Idle(t)
<1> DEFINE T == r \o d
<1>1. /\ T \in Seq(Pieces) /\ Len(r) \in Nat \ {0} /\ Len(T) = Len(r) + Len(d) /\ Len(d) \in Nat
      /\ T[1] = r[1] /\ \A j \in 1..Len(d) : T[Len(r) + j] = d[j]
  BY Longer, StartsSo
<1>2. T # <<>>
  BY StartsSo
<1>3. T[1] # ErrorHeader
  <2>1. ErrorHeader.close /\ ~r[1].close
    BY DEF Reusable, ErrorHeader, Header
  <2>2. T[1].close = r[1].close
    BY <1>1
  <2> HIDE DEF T
  <2>3. QED BY <2>1, <2>2
<1>4. Begins(q, i, p, T) /\ GoesOn(q, i, p, T, s)
  BY <1>1, <1>2, <1>3 DEF View
<1> HIDE DEF T
<1>5. s.up = <<>>
  BY <1>1, <1>4 DEF GoesOn, Reusable
<1>6. s.pc \notin {"fields", "handler"}
  <2>1. p # Nothing
    BY <1>4, NothingIsNoReply DEF Begins
  <2>2. Due(s) = 0
    BY <2>1 DEF View
  <2>3. QED BY <2>2 DEF Due, Good, AtRightCall
<1>7. ASSUME NEW j \in 1..Len(d) PROVE d[j].t # "header"
  <2>1. Len(r) + j \in 2..Len(T)
    BY <1>1
  <2>2. T[Len(r) + j].t \in {"data", "last"}
    BY <1>4, <2>1 DEF Begins
  <2>3. QED BY <1>1, <2>2
<1>8. QED BY <1>5, <1>6, <1>7 DEF Idle, View

LEMMA ReadResponseKeeps ==
  ASSUME HttpInv, CallInv, NEW c \in Clients, ReadResponse(c)
  PROVE  /\ CallInv'
         /\ \/ answer' = answer
            \/ \E a : /\ Given(asked[call[c]], reply[call[c]], a)
                      /\ answer' = [answer EXCEPT ![call[c]] = a]
<1> DEFINE k == link[c]
           i == call[c]
           s == conn[k]
           rd == read[c]
           q == asked[i]
           p == reply[i]
           x == Head(s.down)
           d == Tail(s.down)
           r == Append(rd, x)
           taken == [s EXCEPT !.down = d]
           shut == [s EXCEPT !.down = <<>>, !.client_open = FALSE]
           sense == IF Len(r) = 1 THEN x.t = "header"
                    ELSE r[1].chunked => x.t \in {"data", "last"}
<1>0. i # 0 /\ s.down # <<>> /\ asked' = asked /\ reply' = reply
  BY DEF ReadResponse, Arrived, history
<1>1. /\ k \in Conns /\ asked \in Seq(Requests) /\ s \in Connections(asked) /\ Good(asked, s)
      /\ Single(s) /\ Owing(reply, s) /\ s.down \in Seq(Pieces) /\ rd \in Seq(Pieces)
      /\ View(q, i, p, rd, s)
  BY <1>0, Viewed
<1>2. /\ r \in Seq(Pieces) /\ r # <<>> /\ Len(r) = Len(rd) + 1
      /\ r \o d = rd \o s.down /\ d \in Seq(Pieces)
      /\ r[1] = (IF rd = <<>> THEN x ELSE rd[1])
  <2> HIDE DEF s, rd
  <2>1. QED BY <1>0, <1>1, OneTaken
<1>3. /\ taken.down = d /\ taken.up = s.up /\ taken.pc = s.pc /\ taken.client_open = s.client_open
      /\ taken.server_open = s.server_open /\ taken.id = s.id /\ taken.response = s.response
      /\ taken.owed = s.owed
      /\ shut.up = s.up /\ shut.pc = s.pc /\ shut.server_open = s.server_open /\ shut.id = s.id
  <2> HIDE DEF d
  <2>1. QED BY <1>1 DEF Connections
<1>4. \/ ~sense /\ conn' = [conn EXCEPT ![k] = shut] /\ Return(c, Failure, FALSE)
      \/ /\ sense /\ Whole(i, r) /\ Return(c, Outcome(r), Reusable(r[1]))
         /\ conn' = IF Reusable(r[1]) THEN [conn EXCEPT ![k] = taken] ELSE [conn EXCEPT ![k] = shut]
      \/ /\ sense /\ ~Whole(i, r) /\ conn' = [conn EXCEPT ![k] = taken]
         /\ read' = [read EXCEPT ![c] = r] /\ UNCHANGED <<call, link, answer>>
  <2> DEFINE ok == [conn EXCEPT ![k].down = Tail(@)]
             no == [ok EXCEPT ![k].down = <<>>, ![k].client_open = FALSE]
  <2>1. ok = [conn EXCEPT ![k] = taken] /\ no = [conn EXCEPT ![k] = shut]
    BY <1>1 DEF HttpInv, Counts, Connections
  <2>2. CASE ~sense
    <3>1. conn' = no /\ Return(c, Failure, FALSE)
      BY <2>2, Zenon DEF ReadResponse
    <3>2. QED BY <2>1, <2>2, <3>1
  <2>3. CASE sense /\ Whole(i, r)
    <3>1. conn' = (IF Reusable(r[1]) THEN ok ELSE no) /\ Return(c, Outcome(r), Reusable(r[1]))
      BY <2>3, Zenon DEF ReadResponse
    <3> HIDE DEF ok, no, r, taken, shut, sense
    <3>2. QED BY <2>1, <2>3, <3>1
  <2>4. CASE sense /\ ~Whole(i, r)
    <3>1. conn' = ok /\ read' = [read EXCEPT ![c] = r] /\ UNCHANGED <<call, link, answer>>
      BY <2>4, Zenon DEF ReadResponse
    <3> HIDE DEF ok, no, r, taken, shut, sense
    <3>2. QED BY <2>1, <2>4, <3>1
  <2>5. QED BY <2>2, <2>3, <2>4
<1> HIDE DEF taken, shut, r, d
<1>5. /\ Single(taken) /\ Due(taken) = Due(s) /\ Single(shut) /\ Due(shut) = Due(s)
  BY <1>1, <1>3 DEF Single, Due
<1>6. /\ sense => r[1].t = "header"
      /\ Len(r) > 1 => ~HeaderOnly(q, r[1])
  <2>1. rd = <<>> <=> Len(rd) = 0
    BY <1>1, EmptySeq
  <2>2. rd # <<>> => rd[1].t = "header" /\ ~HeaderOnly(q, rd[1])
    BY <1>1 DEF View
  <2> HIDE DEF rd, x, q
  <2>3. Len(rd) \in Nat
    BY <1>1
  <2>4. QED BY <1>2, <2>1, <2>2, <2>3
<1>7. CASE ~sense /\ conn' = [conn EXCEPT ![k] = shut] /\ Return(c, Failure, FALSE)
  <2>1. CallInv'
    BY <1>0, <1>5, <1>7, EndingKeeps
  <2>2. answer' = [answer EXCEPT ![i] = Failure] /\ Given(q, p, Failure)
    BY <1>7 DEF Return, Given
  <2>3. QED BY <2>1, <2>2
<1>8. CASE /\ sense /\ Whole(i, r) /\ Return(c, Outcome(r), Reusable(r[1]))
           /\ conn' = IF Reusable(r[1]) THEN [conn EXCEPT ![k] = taken] ELSE [conn EXCEPT ![k] = shut]
  <2>1. r[1].t = "header"
    BY <1>6, <1>8
  <2>2. r \o d # <<>> /\ (r \o d)[1] = r[1]
    BY <1>2, StartsSo
  <2>3. Given(q, p, Outcome(r))
    <3>1. \/ Len(r \o d) = 1 /\ (r \o d)[1] = ErrorHeader /\ p = Nothing
          \/ Begins(q, i, p, r \o d)
      BY <1>1, <1>2, <2>1, <2>2 DEF View
    <3> HIDE DEF rd, s, p
    <3>2. QED BY <1>0, <1>2, <1>6, <1>8, <2>1, <3>1, WholeIsGiven
  <2>4. Reusable(r[1]) => Idle(taken)
    <3>1. Due(s) = i => p = Nothing
      BY <1>0, <1>1 DEF Owing
    <3> HIDE DEF rd, s, p, q, i
    <3>2. QED BY <1>1, <1>2, <1>3, <2>1, <3>1, KeptIsIdle
  <2>5. CallInv'
    <3>1. CASE Reusable(r[1])
      BY <1>0, <1>5, <1>8, <2>4, <3>1, EndingKeeps
    <3>2. CASE ~Reusable(r[1])
      <4>1. Return(c, Outcome(r), FALSE) /\ conn' = [conn EXCEPT ![k] = shut]
        <5>1. Reusable(r[1]) = FALSE
          BY <3>2 DEF Reusable
        <5>2. QED BY <1>8, <5>1
      <4>2. QED BY <1>0, <1>5, <4>1, EndingKeeps
    <3>3. QED BY <3>1, <3>2
  <2>6. answer' = [answer EXCEPT ![i] = Outcome(r)]
    BY <1>8 DEF Return
  <2>7. QED BY <2>3, <2>5, <2>6
<1>9. CASE /\ sense /\ ~Whole(i, r) /\ conn' = [conn EXCEPT ![k] = taken]
           /\ read' = [read EXCEPT ![c] = r] /\ UNCHANGED <<call, link, answer>>
  <2>1. r[1].t = "header" /\ ~HeaderOnly(q, r[1])
    BY <1>6, <1>9 DEF Whole, Bodyless, HeaderOnly
  <2>2. View(q, i, p, r, taken)
    <3>1. \A T : GoesOn(q, i, p, T, s) => GoesOn(q, i, p, T, taken)
      BY <1>3 DEF GoesOn
    <3>2. r \o taken.down = rd \o s.down
      BY <1>2, <1>3
    <3> HIDE DEF rd, s, p, q, i
    <3>3. QED BY <1>1, <1>3, <1>5, <2>1, <3>1, <3>2 DEF View
  <2>3. CallInv'
    BY <1>0, <1>2, <1>5, <1>9, <2>2, ReadingKeeps
  <2>4. QED BY <1>9, <2>3
<1>10. QED BY <1>4, <1>7, <1>8, <1>9

(* A body that ends with the connection may be short of what was answered. *)
LEMMA EofIsGiven ==
  ASSUME NEW i, i # 0, NEW q, q = asked[i], q.version \in {10, 11}, NEW p, NEW rd \in Seq(Pieces), NEW s,
         s.down = <<>>, View(q, i, p, rd, s), rd # <<>>, UntilEof(i, rd[1])
  PROVE  Given(q, p, Outcome(rd))
<1> DEFINE h == rd[1]
<1>1. rd \o s.down = rd /\ Len(rd) \in Nat \ {0} /\ h.t = "header"
  BY Longer, EmptySeq DEF View
<1>2. ~HeaderOnly(q, h) /\ ~h.chunked /\ h.length < 0
  BY DEF UntilEof, Bodyless, HeaderOnly
<1>3. h # ErrorHeader
  <2>1. ErrorHeader.length = 0
    BY DEF ErrorHeader, Header
  <2>2. h.length # 0
    BY <1>2
  <2>3. QED BY <2>1, <2>2
<1>4. Begins(q, i, p, rd)
  BY <1>1, <1>3 DEF View
<1> HIDE DEF h
<1>5. /\ h.id = i /\ p \in Replies /\ h.status = p.status
      /\ \A j \in 2..Len(rd) : rd[j].t = "data"
      /\ q.version # 11
  BY <1>2, <1>4 DEF Begins, h
<1>6. rd[Len(rd)].t # "last"
  <2>1. CASE Len(rd) = 1
    BY <1>1, <2>1 DEF h
  <2>2. CASE Len(rd) # 1
    <3>1. Len(rd) = Len(rd) + 0 /\ 0 \in Nat
      BY <1>1
    <3>2. Len(rd) \in 2..Len(rd)
      BY <1>1, <2>2, <3>1, LastPlace, Zenon
    <3>3. QED BY <1>5, <3>2
  <2>3. QED BY <2>1, <2>2
<1>7. Len(rd) - 1 <= p.n
  BY <1>2, <1>4, <1>6 DEF Begins, h
<1> DEFINE m == Len(rd) - 1
<1>8. m \in Nat /\ m + 1 = Len(rd) /\ m <= p.n
  BY <1>1, <1>7
<1> HIDE DEF m
<1>9. Outcome(rd) = [status |-> h.status, n |-> m]
  <2>1. \A j \in 2..(m + 1) : rd[j].t = "data"
    BY <1>5, <1>8
  <2>2. \A j \in (m + 2)..Len(rd) : rd[j].t # "data"
    BY <1>1, <1>8
  <2>3. m + 1 <= Len(rd) /\ rd[1].id # 0
    BY <1>1, <1>5, <1>8 DEF h
  <2>4. QED BY <1>8, <2>1, <2>2, <2>3, Counted DEF h
<1>10. p \in [status : {"OK", "NO_CONTENT"}, n : Nat]
  BY <1>5, HttpAssumption DEF Replies
<1>11. Outcome(rd) \in Replies
  <2>1. CASE p.n = 0
    <3>1. m = 0
      BY <1>8, <2>1
    <3>2. QED BY <1>5, <1>9, <1>10, <3>1 DEF Replies
  <2>2. CASE p.n # 0
    <3>1. PICK x \in Responses : p.n \in 0..(x.n + 1)
      BY <1>5, <1>10, <2>2 DEF Replies
    <3>2. x.n \in Nat
      BY HttpAssumption
    <3>3. m \in 0..(x.n + 1)
      BY <1>8, <1>10, <3>1, <3>2
    <3>4. QED BY <1>5, <1>9, <1>10, <3>3 DEF Replies
  <2>3. QED BY <2>1, <2>2
<1>12. p # Nothing
  BY <1>5, NothingIsNoReply
<1>13. QED BY <1>5, <1>8, <1>9, <1>11, <1>12 DEF Given

LEMMA ReadEofKeeps ==
  ASSUME HttpInv, CallInv, NEW c \in Clients, ReadEof(c)
  PROVE  /\ CallInv'
         /\ \E a : /\ Given(asked[call[c]], reply[call[c]], a)
                   /\ answer' = [answer EXCEPT ![call[c]] = a]
<1> DEFINE k == link[c]
           i == call[c]
           s == conn[k]
           rd == read[c]
           q == asked[i]
           p == reply[i]
           shut == [s EXCEPT !.down = <<>>, !.client_open = FALSE]
           a == IF rd # <<>> /\ UntilEof(i, rd[1]) THEN Outcome(rd) ELSE Failure
<1>0. i # 0 /\ s.down = <<>> /\ asked' = asked /\ reply' = reply /\ Return(c, a, FALSE)
  BY DEF ReadEof, Eof, Arrived, history
<1>1. /\ k \in Conns /\ asked \in Seq(Requests) /\ i \in 1..Len(asked) /\ s \in Connections(asked)
      /\ Single(s) /\ rd \in Seq(Pieces) /\ View(q, i, p, rd, s)
  BY <1>0, Viewed
<1>2. conn' = [conn EXCEPT ![k] = shut]
  BY <1>1 DEF ReadEof, ClientCloses, HttpInv, Counts, Connections
<1>3. shut.up = s.up /\ shut.pc = s.pc /\ shut.server_open = s.server_open /\ shut.id = s.id
  BY <1>1 DEF Connections
<1> HIDE DEF shut
<1>4. Single(shut) /\ Due(shut) = Due(s)
  BY <1>1, <1>3 DEF Single, Due
<1>5. Given(q, p, a)
  <2>1. CASE rd # <<>> /\ UntilEof(i, rd[1])
    <3>1. q.version \in {10, 11}
      BY <1>1, HttpAssumption
    <3> HIDE DEF rd, s, p, i
    <3>2. q = asked[i]
      OBVIOUS
    <3> HIDE DEF q
    <3>3. Given(q, p, Outcome(rd))
      BY <1>0, <1>1, <2>1, <3>1, <3>2, EofIsGiven
    <3>4. QED BY <2>1, <3>3
  <2>2. CASE ~(rd # <<>> /\ UntilEof(i, rd[1]))
    BY <2>2 DEF Given
  <2>3. QED BY <2>1, <2>2
<1> HIDE DEF a
<1>6. CallInv'
  BY <1>0, <1>2, <1>4, EndingKeeps
<1>7. answer' = [answer EXCEPT ![i] = a]
  BY <1>0 DEF Return
<1>8. QED BY <1>5, <1>6, <1>7

LEMMA BreakOffKeeps ==
  ASSUME HttpInv, CallInv, NEW c \in Clients, BreakOff(c)
  PROVE  /\ CallInv'
         /\ \E a : /\ Given(asked[call[c]], reply[call[c]], a)
                   /\ answer' = [answer EXCEPT ![call[c]] = a]
<1> DEFINE k == link[c]
           s == conn[k]
           shut == [s EXCEPT !.down = <<>>, !.client_open = FALSE]
<1>0. call[c] # 0 /\ asked' = asked /\ reply' = reply /\ Return(c, Failure, FALSE)
  BY DEF BreakOff, history
<1>1. /\ k \in Conns /\ s \in Connections(asked) /\ Single(s) /\ s.up \in Seq(Tokens(asked))
  BY <1>0, Viewed DEF Connections
<1>2. PICK m \in 0..Len(s.up) :
        conn' = [ClientCloses(k) EXCEPT ![k].up = SubSeq(@, 1, m)]
  BY DEF BreakOff
<1> DEFINE v == SubSeq(s.up, 1, m)
           t == [shut EXCEPT !.up = v]
<1>3. conn' = [conn EXCEPT ![k] = t]
  <2>1. ClientCloses(k) = [conn EXCEPT ![k] = shut] /\ shut.up = s.up
    BY <1>1 DEF ClientCloses, HttpInv, Counts, Connections
  <2>2. ClientCloses(k)[k].up = s.up
    BY <1>1, <2>1 DEF HttpInv, Counts
  <2> HIDE DEF shut
  <2>3. conn' = [ClientCloses(k) EXCEPT ![k] = t]
    BY <1>1, <1>2, <2>1, <2>2 DEF HttpInv, Counts
  <2> HIDE DEF t
  <2>4. QED BY <1>1, <2>1, <2>3 DEF HttpInv, Counts
<1>4. /\ Len(v) = m /\ m \in 0..Len(s.up) /\ Len(s.up) \in Nat
      /\ \A j \in 1..m : v[j] = s.up[j]
      /\ v = <<>> <=> m = 0
  <2>1. Len(v) = m /\ (\A j \in 1..m : v[j] = s.up[j]) /\ v \in Seq(Tokens(asked)) /\ Len(s.up) \in Nat
    BY <1>1
  <2> HIDE DEF v
  <2>2. v = <<>> <=> Len(v) = 0
    BY <2>1, EmptySeq
  <2>3. QED BY <2>1, <2>2
<1> HIDE DEF v
<1>5. t.up = v /\ t.pc = s.pc /\ t.server_open = s.server_open /\ t.id = s.id
  BY <1>1 DEF Connections
<1> HIDE DEF t
<1>6. Single(t)
  <2>1. ~s.server_open => v = <<>>
    <3>1. s.up = <<>> => Len(s.up) = 0
      OBVIOUS
    <3>2. QED BY <1>1, <1>4, <3>1 DEF Single
  <2>2. QED BY <1>1, <1>4, <1>5, <2>1 DEF Single
<1>7. Due(t) \in {0, Due(s)}
  <2>1. v # <<>> => v[1] = s.up[1] /\ s.up # <<>>
    <3>1. s.up = <<>> => Len(s.up) = 0
      OBVIOUS
    <3>2. QED BY <1>4, <3>1
  <2>2. QED BY <1>5, <2>1 DEF Due
<1>8. CallInv'
  BY <1>0, <1>3, <1>6, <1>7, EndingKeeps
<1>9. answer' = [answer EXCEPT ![call[c]] = Failure] /\ Given(asked[call[c]], reply[call[c]], Failure)
  BY <1>0 DEF Return, Given
<1>10. QED BY <1>8, <1>9

-----------------------------------------------------------------------------
(* What is promised                                                        *)

LEMMA CallInvStarts ==
  ASSUME Init
  PROVE  CallInv
<1>1. /\ Len(asked) = 0 /\ MaxCalls \in Nat
      /\ \A k \in Conns : conn[k] = Fresh
      /\ \A c \in Clients : call[c] = 0 /\ link[c] = 0
      /\ \A i \in Calls : reply[i] = Nothing /\ answer[i] = Nothing
      /\ DOMAIN answer = Calls /\ reply \in [Calls -> Replies \cup {Nothing}]
      /\ read \in [Clients -> Seq(Pieces)]
  <2>1. <<>> \in Seq(Pieces)
    OBVIOUS
  <2>2. QED BY <2>1, HttpAssumption DEF Init
<1>2. Ledger
  BY <1>1 DEF Ledger
<1>3. Single(Fresh) /\ Due(Fresh) = 0
  <2>1. Fresh.up = <<>> /\ Len(Fresh.up) = 0 /\ Fresh.pc = "none"
    BY DEF Fresh
  <2>2. QED BY <2>1 DEF Single, Due
<1>4. Dues
  BY <1>1, <1>3 DEF Dues
<1>5. Views
  BY <1>1 DEF Views
<1>6. QED BY <1>2, <1>4, <1>5 DEF CallInv

(* Every step of a fiber answers the call it is due to, or none.           *)
LEMMA FiberKeeps ==
  ASSUME HttpInv, CallInv, NoFiles, NEW k \in Conns, Fiber(k)
  PROVE  /\ CallInv' /\ asked' = asked /\ answer' = answer
         /\ \/ reply' = reply
            \/ \E i \in 1..Len(asked) : /\ reply[i] = Nothing
                                        /\ \E p \in Replies : reply' = [reply EXCEPT ![i] = p]
<1>1. CASE Negotiate(k)
  BY <1>1, NegotiateKeeps DEF Negotiate, client, history
<1>2. CASE DecodeLine(k)
  BY <1>2, DecodeLineKeeps DEF DecodeLine, client, history
<1>3. CASE DecodeFields(k)
  BY <1>3, DecodeFieldsKeeps DEF DecodeFields, client, history
<1>4. CASE DecodeEof(k)
  BY <1>4, DecodeEofKeeps DEF DecodeEof, client, history
<1>5. CASE ReadBody(k)
  BY <1>5, ReadBodyKeeps DEF ReadBody, client
<1>6. CASE HandlerThrows(k)
  BY <1>6, HandlerThrowsKeeps DEF HandlerThrows, client, history
<1>7. CASE HandlerReturns(k)
  <2>1. asked' = asked /\ answer' = answer
    BY <1>7 DEF HandlerReturns, client
  <2>2. QED BY <1>7, <2>1, HandlerReturnsKeeps
<1>8. CASE SendBody(k)
  BY <1>8, SendBodyKeeps DEF SendBody, client, history
<1>9. QED BY <1>1, <1>2, <1>3, <1>4, <1>5, <1>6, <1>7, <1>8, SendFileNever DEF Fiber

(* The promise, step by step.                                              *)
LEMMA MakesCall ==
  ASSUME asked \in Seq(Requests), NEW r \in Requests, asked' = Append(asked, r),
         NEW i \in Calls, i = Len(asked) + 1, reply' = reply, answer' = answer
  PROVE  RR!Make(i)
<1> DEFINE marked == {j \in 1..Len(asked) : asked[j].version = 11}
<1>1. /\ Len(asked) \in Nat /\ Len(asked') = i /\ asked'[i] = r
      /\ \A j \in 1..Len(asked) : asked'[j] = asked[j]
  OBVIOUS
<1>2. 1..Len(asked') = 1..Len(asked) \cup {i} /\ i \notin 1..Len(asked)
  BY <1>1
<1>3. {j \in 1..Len(asked') : asked'[j].version = 11} \in {marked, marked \cup {i}}
  <2>1. CASE r.version = 11
    BY <1>1, <1>2, <2>1
  <2>2. CASE r.version # 11
    BY <1>1, <1>2, <2>2
  <2>3. QED BY <2>1, <2>2
<1>4. QED BY <1>2, <1>3 DEF RR!Make

LEMMA ServesCall ==
  ASSUME asked' = asked, answer' = answer, NEW i \in 1..Len(asked), i \in Calls, reply[i] = Nothing,
         NEW p \in Replies, reply' = [reply EXCEPT ![i] = p]
  PROVE  RR!Serve(i)
BY DEF RR!Serve, RR!Nothing, Nothing, Replies

LEMMA ReturnsCall ==
  ASSUME asked' = asked, reply' = reply, NEW i \in 1..Len(asked), i \in Calls, answer[i] = Nothing,
         NEW a, Given(asked[i], reply[i], a), answer' = [answer EXCEPT ![i] = a]
  PROVE  RR!Return(i)
BY DEF Given, RR!Return, RR!Nothing, RR!Refused, RR!Failure, Nothing, Refused, Failure, Replies

LEMMA CallStep ==
  ASSUME HttpInv, CallInv, NoFiles, [Next]_vars
  PROVE  CallInv' /\ [RR!Next]_(RR!vars)
<1>0. asked \in Seq(Requests) /\ \A i \in 1..Len(asked) : i \in Calls
  <2>1. asked \in Seq(Requests)
    BY DEF HttpInv, Counts
  <2>2. Len(asked) \in Nat /\ Len(asked) <= MaxCalls /\ MaxCalls \in Nat
    BY <2>1, HttpAssumption DEF CallInv, Ledger
  <2>3. QED BY <2>1, <2>2 DEF Calls
<1>1. ASSUME CallInv', asked' = asked, reply' = reply, answer' = answer
      PROVE  CallInv' /\ [RR!Next]_(RR!vars)
  BY <1>1 DEF RR!vars
<1>2. ASSUME NEW c \in Clients, Request(c) PROVE CallInv' /\ [RR!Next]_(RR!vars)
  <2>1. CallInv'
    BY <1>2, RequestKeeps
  <2>2. PICK r \in Requests : asked' = Append(asked, r)
    BY <1>2 DEF Request
  <2>3. Len(asked) + 1 \in Calls /\ reply' = reply /\ answer' = answer
    <3>1. Len(asked) < MaxCalls /\ MaxCalls \in Nat /\ Len(asked) \in Nat
      BY <1>0, <1>2, HttpAssumption DEF Request
    <3>2. QED BY <1>2, <3>1 DEF Request, history, Calls
  <2>4. PICK i \in Calls : i = Len(asked) + 1
    BY <2>3
  <2>5. RR!Make(i)
    BY <1>0, <2>2, <2>3, <2>4, MakesCall
  <2>6. QED BY <2>1, <2>5 DEF RR!Next
<1>3. ASSUME NEW c \in Clients, call[c] # 0, asked' = asked, reply' = reply, CallInv',
             NEW a, Given(asked[call[c]], reply[call[c]], a), answer' = [answer EXCEPT ![call[c]] = a]
      PROVE  CallInv' /\ [RR!Next]_(RR!vars)
  <2>1. call[c] \in 1..Len(asked) /\ call[c] \in Calls /\ answer[call[c]] = Nothing
    BY <1>3, Viewed
  <2>2. PICK i \in Calls : i = call[c]
    BY <2>1
  <2>3. RR!Return(i)
    BY <1>3, <2>1, <2>2, ReturnsCall
  <2>4. QED BY <1>3, <2>3 DEF RR!Next
<1>4. ASSUME NEW c \in Clients, ReadResponse(c) PROVE CallInv' /\ [RR!Next]_(RR!vars)
  <2>1. call[c] # 0 /\ asked' = asked /\ reply' = reply
    BY <1>4 DEF ReadResponse, history
  <2>2. QED BY <1>1, <1>3, <1>4, <2>1, ReadResponseKeeps
<1>5. ASSUME NEW c \in Clients, ReadEof(c) PROVE CallInv' /\ [RR!Next]_(RR!vars)
  <2>1. call[c] # 0 /\ asked' = asked /\ reply' = reply
    BY <1>5 DEF ReadEof, history
  <2>2. QED BY <1>3, <1>5, <2>1, ReadEofKeeps
<1>6. ASSUME NEW c \in Clients, BreakOff(c) PROVE CallInv' /\ [RR!Next]_(RR!vars)
  <2>1. call[c] # 0 /\ asked' = asked /\ reply' = reply
    BY <1>6 DEF BreakOff, history
  <2>2. QED BY <1>3, <1>6, <2>1, BreakOffKeeps
<1>7. ASSUME Serve PROVE CallInv' /\ [RR!Next]_(RR!vars)
  <2>1. CASE Sweep
    BY <1>1, <2>1, SweepKeeps DEF Sweep, client, history
  <2>2. CASE Wake
    BY <1>1, <2>2, WakeKeeps DEF Wake, client, history
  <2>3. ASSUME NEW k \in Conns, Accept(k) PROVE CallInv' /\ [RR!Next]_(RR!vars)
    BY <1>1, <2>3, AcceptKeeps DEF Accept, client, history
  <2>4. QED BY <1>7, <2>1, <2>2, <2>3 DEF Serve
<1>8. ASSUME NEW k \in Conns, Fiber(k) PROVE CallInv' /\ [RR!Next]_(RR!vars)
  <2>1. /\ CallInv' /\ asked' = asked /\ answer' = answer
        /\ \/ reply' = reply
           \/ \E i \in 1..Len(asked) : /\ reply[i] = Nothing
                                       /\ \E p \in Replies : reply' = [reply EXCEPT ![i] = p]
    BY <1>8, FiberKeeps
  <2>2. CASE reply' = reply
    BY <1>1, <2>1, <2>2
  <2>3. CASE \E i \in 1..Len(asked) : /\ reply[i] = Nothing
                                      /\ \E p \in Replies : reply' = [reply EXCEPT ![i] = p]
    <3>1. PICK i \in 1..Len(asked) : /\ reply[i] = Nothing
                                     /\ \E p \in Replies : reply' = [reply EXCEPT ![i] = p]
      BY <2>3
    <3>2. i \in Calls /\ RR!Serve(i)
      BY <1>0, <2>1, <3>1, ServesCall
    <3>3. QED BY <2>1, <3>2 DEF RR!Next
  <2>4. QED BY <2>1, <2>2, <2>3
<1>9. CASE UNCHANGED vars
  <2>1. CallInv' /\ asked' = asked /\ reply' = reply /\ answer' = answer
    BY <1>9 DEF vars, CallInv, Ledger, Dues, Views
  <2>2. QED BY <1>1, <2>1
<1>10. QED BY <1>2, <1>4, <1>5, <1>6, <1>7, <1>8, <1>9 DEF Next, Client

(* Whatever clients send, wherever they break off and whatever handlers do  *)
(* but for sending files: a call is handled at most once, and its caller    *)
(* gets the whole of what was answered to this very call, a refusal of what *)
(* no handler answered, or an exception; only the end of a body that ends   *)
(* with the connection may be a loss (THttpClient::Request,                 *)
(* HandleSingleRequest).                                                    *)
THEOREM ServiceIsRequestReply ==
  ASSUME \A r \in Responses : r.body # "file"
  PROVE  Spec => KeepsCalls
<1>0. NoFiles
  BY DEF NoFiles
<1>1. Init => CallInv /\ RR!Init
  <2> SUFFICES ASSUME Init PROVE CallInv /\ RR!Init
    OBVIOUS
  <2>1. Len(asked) = 0
    BY DEF Init
  <2>2. 1..0 = {}
    OBVIOUS
  <2>3. RR!Init
    BY <2>1, <2>2 DEF Init, RR!Init, Nothing, RR!Nothing
  <2>4. QED BY <2>3, CallInvStarts
<1>2. HttpInv /\ CallInv /\ [Next]_vars => CallInv' /\ [RR!Next]_(RR!vars)
  BY <1>0, CallStep
<1>3. QED BY <1>1, <1>2, HttpInvHolds, PTL DEF Spec, KeepsCalls, RR!Spec
=============================================================================
