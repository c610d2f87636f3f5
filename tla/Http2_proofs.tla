---------------------------- MODULE Http2_proofs ----------------------------
(***************************************************************************)
(* Proofs about Http2 for any number of streams, bodies of any length and  *)
(* any window.                                                             *)
(***************************************************************************)
EXTENDS Http2, FiniteSetTheorems, SequenceTheorems, TLAPS

-----------------------------------------------------------------------------
(* Induction and recursion                                                 *)

(* A set that is closed under the successor has every number: without its  *)
(* numbers up to n, k |-> k - 1 would take a finite set into a smaller one.*)
LEMMA SetInduction ==
  ASSUME NEW S, 0 \in S, \A n \in Nat : n \in S => n + 1 \in S
  PROVE  Nat \subseteq S
<1> SUFFICES ASSUME NEW n \in Nat, n \notin S
             PROVE  FALSE
  OBVIOUS
<1> DEFINE T == {k \in 0..n : k \notin S}
           f == [k \in T |-> k - 1]
<1>1. IsFiniteSet(T) /\ Cardinality(T) \in Nat /\ n \in T
  <2>1. IsFiniteSet(0..n) /\ T \in SUBSET (0..n)
    BY FS_Interval
  <2>2. IsFiniteSet(T)
    BY <2>1, FS_Subset
  <2>3. QED BY <2>2, FS_CardinalityType
<1>2. \A k \in T : k - 1 \in T \ {n}
  OBVIOUS
<1>3. f \in Injection(T, T \ {n})
  BY <1>2 DEF Injection, IsInjective
<1>4. IsFiniteSet(T \ {n}) /\ Cardinality(T \ {n}) = Cardinality(T) - 1
  BY <1>1, FS_RemoveElement
<1>5. Cardinality(T) <= Cardinality(T \ {n})
  BY <1>3, <1>4, FS_Injection
<1>6. QED BY <1>1, <1>4, <1>5

(* What is computed step by step is a function.                            *)
Computable(n, D, d, F) == \E g \in [0..n -> D] : g[0] = d /\ \A i \in 1..n : g[i] = F[<<g[i - 1], i>>]
LEMMA Recursion ==
  ASSUME NEW n \in Nat, NEW D, NEW d \in D, NEW F \in [D \X (1..n) -> D]
  PROVE  Computable(n, D, d, F)
<1> DEFINE Upto(k) == \E g \in [0..k -> D] : g[0] = d /\ \A i \in 1..k : g[i] = F[<<g[i - 1], i>>]
           S == {k \in Nat : k <= n => Upto(k)}
<1>1. 0 \in S
  <2> DEFINE h == [i \in 0..0 |-> d]
  <2>1. h \in [0..0 -> D] /\ h[0] = d /\ \A i \in 1..0 : FALSE
    OBVIOUS
  <2> HIDE DEF h
  <2>2. Upto(0)
    BY <2>1
  <2>3. QED BY <2>2
<1>2. ASSUME NEW k \in Nat, k \in S PROVE k + 1 \in S
  <2> SUFFICES ASSUME k + 1 <= n PROVE Upto(k + 1)
    OBVIOUS
  <2>1. PICK g \in [0..k -> D] : g[0] = d /\ \A i \in 1..k : g[i] = F[<<g[i - 1], i>>]
    BY <1>2
  <2> DEFINE h == [i \in 0..(k + 1) |-> IF i = k + 1 THEN F[<<g[k], k + 1>>] ELSE g[i]]
  <2>2. g[k] \in D /\ k + 1 \in 1..n
    OBVIOUS
  <2>3. F[<<g[k], k + 1>>] \in D
    BY <2>2
  <2>4. h \in [0..(k + 1) -> D] /\ h[0] = d
    BY <2>1, <2>3
  <2>5. \A i \in 1..(k + 1) : h[i] = F[<<h[i - 1], i>>]
    <3>1. \A i \in 0..k : h[i] = g[i]
      OBVIOUS
    <3>2. h[k + 1] = F[<<g[k], k + 1>>] /\ h[k] = g[k] /\ (k + 1) - 1 = k
      OBVIOUS
    <3>3. \A i \in 1..k : i - 1 \in 0..k /\ i \in 0..k
      OBVIOUS
    <3>4. \A i \in 1..(k + 1) : i \in 1..k \/ i = k + 1
      OBVIOUS
    <3> HIDE DEF h
    <3>5. QED BY <2>1, <3>1, <3>2, <3>3, <3>4
  <2>6. QED BY <2>4, <2>5
<1>3. n \in S
  BY <1>1, <1>2, SetInduction
<1>4. QED BY <1>3 DEF Computable

-----------------------------------------------------------------------------
(* The invariant                                                           *)

Frames == [s : Ids, t : {"headers"}, kind : Kinds, end : BOOLEAN, n : {0}] \cup
          [s : Ids, t : {"data", "end", "reset"}, n : Nat]
Answers == [s : Ids, t : {"head", "head_end", "data", "end"}, n : Nat] \cup
           [s : {0}, t : {"window"}, n : Nat]
Bodies == Nat \cup {NoBody}
Streams == [there : BOOLEAN, head : BOOLEAN, buffer : Seq(Nat), complete : BOOLEAN,
            handler : {"none", "ready", "reading", "over"}, submitted : BOOLEAN,
            pending : {"no", "head", "body", "deferred"}, deferred : BOOLEAN, left : Bodies,
            ready : Int, closed : BOOLEAN]
Outputs == {<<>>} \cup {<<f>> : f \in Answers}
Connections ==
  [streams : [Ids -> Streams], session : [alive : BOOLEAN, consumed : Nat], output : Outputs,
   up : Seq(Frames), down : Seq(Answers), progress : BOOLEAN, failed : BOOLEAN]
Sides == [state : {"idle", "open", "ended", "reset"}, sent : Nat]

(* The frames U on their way to the server: of each stream first the       *)
(* header, then the bytes of the body in their order.                      *)
InOrder(U, C) ==
  /\ \A i \in 1..Len(U) : C[U[i].s].state # "idle"
  /\ \A i, j \in 1..Len(U) : i < j /\ U[i].s = U[j].s =>
       U[j].t # "headers" /\ (U[i].t = "data" /\ U[j].t = "data" => U[i].n < U[j].n)
Announced(U, s) == \E i \in 1..Len(U) : U[i].s = s /\ U[i].t = "headers"
Numbered(U, s) == {U[i].n : i \in {k \in 1..Len(U) : U[k].s = s /\ U[k].t = "data"}}

(* The body of s that the client, at y, sends: the handler has read rd     *)
(* bytes of it, x buffers those that follow, and unless the stream is      *)
(* closed the rest is on its way.                                          *)
Taken(x, rd) == rd + Len(x.buffer)
Receiving(x, U, s, y, rd) ==
  /\ Taken(x, rd) <= y.sent
  /\ \A j \in 1..Len(x.buffer) : x.buffer[j] = rd + j
  /\ y.state = "idle" => y.sent = 0 /\ ~x.there
  /\ ~x.there => x = NoStream
  /\ Announced(U, s) => ~x.there /\ rd = 0
  /\ \A m \in Numbered(U, s) : m <= y.sent
  /\ Announced(U, s) \/ (x.there /\ ~x.closed) => Numbered(U, s) = Taken(x, rd) + 1 .. y.sent

(* The place of a frame in an answer of n bytes, and whether it is of one. *)
Rank(n, f) == IF f.t = "data" THEN n - f.n + 2 ELSE IF f.t = "end" THEN n + 2 ELSE 1
Fits(n, f) == IF n = NoBody THEN f.t = "head_end"
              ELSE f.t \in {"head", "data", "end"} /\ (f.t = "data" => f.n \in 1..n)
(* The frames W on their way to the client: those of s go on where what it *)
(* has of the answer, g, stops; the next one would be at place r.          *)
Places(W, s, n) == {Rank(n, W[i]) : i \in {k \in 1..Len(W) : W[k].s = s}}
Sequel(W, s, n, g) ==
  /\ \A i \in 1..Len(W) : W[i].s = s => Fits(n, W[i])
  /\ \A i, j \in 1..Len(W) : i < j /\ W[i].s = s /\ W[j].s = s => Rank(n, W[i]) < Rank(n, W[j])
  /\ \E r \in Nat : Places(W, s, n) = Len(g) + 1 .. r
Had(n, g) == \A i \in 1..Len(g) : Fits(n, g[i]) /\ Rank(n, g[i]) = i
Unsent(W, s, g) == g = <<>> /\ \A i \in 1..Len(W) : W[i].s # s
NextIs(W, s, n, g, r) == Len(g) < r /\ Places(W, s, n) = Len(g) + 1 .. r - 1

(* The answer to s, of n bytes: what x says of it.                         *)
Sending(x, U, W, s, y, n, g) ==
  /\ x.handler # "over" => ~x.submitted
  /\ ~x.submitted => x.pending = "no" /\ ~x.deferred
  /\ x.deferred => x.pending = "deferred" \/ x.closed
  /\ y.state = "idle" \/ Announced(U, s) \/ (x.there /\ ~x.submitted) => Unsent(W, s, g)
  /\ x.pending = "head" => Unsent(W, s, g) /\ x.left = n
  /\ x.pending \in {"body", "deferred"} => x.left \in 0..n /\ NextIs(W, s, n, g, n - x.left + 2)

OnWay(c) == c.down \o c.output
(* All streams S, with clients at C: R of their bodies was read, the        *)
(* handlers answered H, and of that the clients have had G.                 *)
Connected(S, U, W, C, R, H, G) ==
  /\ InOrder(U, C)
  /\ \A s \in Ids : Receiving(S[s], U, s, C[s], R[s]) /\ Sending(S[s], U, W, s, C[s], H[s], G[s])
Answering(W, H, G) == \A s \in Ids : Sequel(W, s, H[s], G[s])
Histories(C, R, H, G) ==
  /\ C \in [Ids -> Sides] /\ R \in [Ids -> Nat] /\ H \in [Ids -> Bodies] /\ G \in [Ids -> Seq(Answers)]
  /\ \A s \in Ids : R[s] <= C[s].sent /\ Had(H[s], G[s])

(* Between two passes a stream that is closed has not been answered.       *)
Http2Inv ==
  /\ Histories(client, read, reply, got) /\ run \in {"run", "wait", "over"}
  /\ Now \in Connections /\ Answering(OnWay(Now), reply, got)
  /\ run # "over" => /\ Connected(streams, up, OnWay(Now), client, read, reply, got)
                     /\ \A s \in Ids : streams[s].closed => ~streams[s].submitted

-----------------------------------------------------------------------------
(* Frames on their way                                                     *)

LEMMA Appended ==
  ASSUME NEW E, NEW U \in Seq(E), NEW f \in E
  PROVE  /\ Append(U, f) \in Seq(E) /\ Len(Append(U, f)) = Len(U) + 1 /\ Len(U) \in Nat
         /\ \A i \in 1..Len(U) : Append(U, f)[i] = U[i]
         /\ Append(U, f)[Len(U) + 1] = f
         /\ 1..(Len(U) + 1) = 1..Len(U) \cup {Len(U) + 1}
OBVIOUS

LEMMA Rest ==
  ASSUME NEW E, NEW U \in Seq(E), U # <<>>
  PROVE  /\ Tail(U) \in Seq(E) /\ Len(Tail(U)) = Len(U) - 1 /\ Len(U) \in Nat \ {0}
         /\ \A i \in 1..Len(Tail(U)) : Tail(U)[i] = U[i + 1] /\ i + 1 \in 1..Len(U)
         /\ \A i \in 2..Len(U) : i - 1 \in 1..Len(Tail(U)) /\ Tail(U)[i - 1] = U[i]
         /\ Head(U) = U[1] /\ U[1] \in E /\ 1..Len(U) = {1} \cup 2..Len(U)
<1>1. Len(U) \in Nat \ {0} /\ Tail(U) \in Seq(E) /\ Len(Tail(U)) = Len(U) - 1
  BY EmptySeq
<1>2. \A i \in 1..Len(Tail(U)) : Tail(U)[i] = U[i + 1]
  BY <1>1
<1>3. Head(U) = U[1] /\ U[1] \in E
  BY <1>1
<1>4. QED BY <1>1, <1>2, <1>3

LEMMA OneMoreSent ==
  ASSUME NEW U \in Seq(Frames), NEW f \in Frames, NEW s
  PROVE  /\ Announced(Append(U, f), s) <=> Announced(U, s) \/ (f.s = s /\ f.t = "headers")
         /\ Numbered(Append(U, f), s) = Numbered(U, s) \cup (IF f.s = s /\ f.t = "data" THEN {f.n} ELSE {})
<1> DEFINE V == Append(U, f)
<1>0. /\ Len(V) = Len(U) + 1 /\ Len(U) \in Nat /\ (\A i \in 1..Len(U) : V[i] = U[i]) /\ V[Len(U) + 1] = f
      /\ 1..(Len(U) + 1) = 1..Len(U) \cup {Len(U) + 1}
  BY Appended
<1> HIDE DEF V, Frames
<1>1. Announced(V, s) <=> Announced(U, s) \/ (f.s = s /\ f.t = "headers")
  BY <1>0 DEF Announced
<1>2. \A n : n \in Numbered(V, s) <=> n \in Numbered(U, s) \/ (f.s = s /\ f.t = "data" /\ n = f.n)
  <2>1. \A Q : \A n : n \in Numbered(Q, s) <=> \E i \in 1..Len(Q) : Q[i].s = s /\ Q[i].t = "data" /\ n = Q[i].n
    BY DEF Numbered
  <2>2. QED BY <1>0, <2>1
<1>3. QED BY <1>1, <1>2 DEF V

LEMMA OneLessSent ==
  ASSUME NEW U \in Seq(Frames), U # <<>>, NEW s
  PROVE  /\ Announced(U, s) <=> Announced(Tail(U), s) \/ (U[1].s = s /\ U[1].t = "headers")
         /\ Numbered(U, s) = Numbered(Tail(U), s) \cup (IF U[1].s = s /\ U[1].t = "data" THEN {U[1].n} ELSE {})
<1> DEFINE V == Tail(U)
<1>0. /\ \A i \in 1..Len(V) : V[i] = U[i + 1] /\ i + 1 \in 1..Len(U)
      /\ \A i \in 2..Len(U) : i - 1 \in 1..Len(V) /\ V[i - 1] = U[i]
      /\ 1..Len(U) = {1} \cup 2..Len(U)
  BY Rest
<1> HIDE DEF V, Frames
<1>1. Announced(U, s) <=> Announced(V, s) \/ (U[1].s = s /\ U[1].t = "headers")
  BY <1>0 DEF Announced
<1>2. \A n : n \in Numbered(U, s) <=> n \in Numbered(V, s) \/ (U[1].s = s /\ U[1].t = "data" /\ n = U[1].n)
  <2>1. \A Q : \A n : n \in Numbered(Q, s) <=> \E i \in 1..Len(Q) : Q[i].s = s /\ Q[i].t = "data" /\ n = Q[i].n
    BY DEF Numbered
  <2>2. ASSUME NEW n \in Numbered(U, s)
        PROVE  n \in Numbered(V, s) \/ (U[1].s = s /\ U[1].t = "data" /\ n = U[1].n)
    <3>1. PICK i \in 1..Len(U) : U[i].s = s /\ U[i].t = "data" /\ n = U[i].n
      BY <2>1
    <3>2. i = 1 \/ (i - 1 \in 1..Len(V) /\ V[i - 1] = U[i])
      BY <1>0
    <3>3. QED BY <2>1, <3>1, <3>2
  <2>3. ASSUME NEW n, n \in Numbered(V, s) \/ (U[1].s = s /\ U[1].t = "data" /\ n = U[1].n)
        PROVE  n \in Numbered(U, s)
    <3>1. 1 \in 1..Len(U)
      BY <1>0
    <3>2. CASE n \in Numbered(V, s)
      <4>1. PICK i \in 1..Len(V) : V[i].s = s /\ V[i].t = "data" /\ n = V[i].n
        BY <2>1, <3>2
      <4>2. i + 1 \in 1..Len(U) /\ U[i + 1] = V[i]
        BY <1>0
      <4>3. QED BY <2>1, <4>1, <4>2
    <3>3. QED BY <2>1, <2>3, <3>1, <3>2
  <2>4. QED BY <2>2, <2>3
<1>3. QED BY <1>1, <1>2 DEF V

(* The first frame of a stream, and the numbers of the others.             *)
LEMMA FirstSent ==
  ASSUME NEW U \in Seq(Frames), U # <<>>, NEW C, InOrder(U, C)
  PROVE  /\ InOrder(Tail(U), C) /\ C[U[1].s].state # "idle"
         /\ ~Announced(Tail(U), U[1].s)
         /\ U[1].t = "data" => \A n \in Numbered(Tail(U), U[1].s) : U[1].n < n
<1> DEFINE V == Tail(U)
<1>0. /\ \A i \in 1..Len(V) : V[i] = U[i + 1] /\ i + 1 \in 1..Len(U)
      /\ 1 \in 1..Len(U) /\ Len(V) \in Nat
  BY Rest
<1> HIDE DEF V, Frames
<1>1. \A i \in 1..Len(V) : C[V[i].s].state # "idle"
  BY <1>0 DEF InOrder
<1>2. ASSUME NEW i \in 1..Len(V), NEW j \in 1..Len(V), i < j, V[i].s = V[j].s
      PROVE  V[j].t # "headers" /\ (V[i].t = "data" /\ V[j].t = "data" => V[i].n < V[j].n)
  <2>1. i + 1 < j + 1
    BY <1>0, <1>2
  <2>2. QED BY <1>0, <1>2, <2>1 DEF InOrder
<1>3. InOrder(V, C)
  BY <1>1, <1>2 DEF InOrder
<1>4. \A i \in 1..Len(V) : V[i].s = U[1].s =>
        V[i].t # "headers" /\ (U[1].t = "data" /\ V[i].t = "data" => U[1].n < V[i].n)
  <2>1. \A i \in 1..Len(V) : 1 < i + 1
    BY <1>0
  <2>2. QED BY <1>0, <2>1 DEF InOrder
<1>5. QED BY <1>0, <1>3, <1>4 DEF InOrder, V, Announced, Numbered

LEMMA OneMoreAnswer ==
  ASSUME NEW W \in Seq(Answers), NEW f \in Answers, NEW s, NEW n
  PROVE  Places(Append(W, f), s, n) = Places(W, s, n) \cup (IF f.s = s THEN {Rank(n, f)} ELSE {})
<1> DEFINE V == Append(W, f)
<1>0. /\ Len(V) = Len(W) + 1 /\ Len(W) \in Nat /\ (\A i \in 1..Len(W) : V[i] = W[i]) /\ V[Len(W) + 1] = f
      /\ 1..(Len(W) + 1) = 1..Len(W) \cup {Len(W) + 1}
  BY Appended
<1> HIDE DEF V, Answers
<1>1. \A Q : \A p : p \in Places(Q, s, n) <=> \E i \in 1..Len(Q) : Q[i].s = s /\ p = Rank(n, Q[i])
  BY DEF Places
<1>2. \A p : p \in Places(V, s, n) <=> p \in Places(W, s, n) \/ (f.s = s /\ p = Rank(n, f))
  BY <1>0, <1>1
<1>3. QED BY <1>2 DEF V

LEMMA OneLessAnswer ==
  ASSUME NEW W \in Seq(Answers), W # <<>>, NEW s, NEW n
  PROVE  Places(W, s, n) = Places(Tail(W), s, n) \cup (IF W[1].s = s THEN {Rank(n, W[1])} ELSE {})
<1> DEFINE V == Tail(W)
<1>0. /\ \A i \in 1..Len(V) : V[i] = W[i + 1] /\ i + 1 \in 1..Len(W)
      /\ \A i \in 2..Len(W) : i - 1 \in 1..Len(V) /\ V[i - 1] = W[i]
      /\ 1..Len(W) = {1} \cup 2..Len(W)
  BY Rest
<1> HIDE DEF V, Answers
<1>1. \A Q : \A p : p \in Places(Q, s, n) <=> \E i \in 1..Len(Q) : Q[i].s = s /\ p = Rank(n, Q[i])
  BY DEF Places
<1>2. \A p : p \in Places(W, s, n) <=> p \in Places(V, s, n) \/ (W[1].s = s /\ p = Rank(n, W[1]))
  <2>1. ASSUME NEW p \in Places(W, s, n)
        PROVE  p \in Places(V, s, n) \/ (W[1].s = s /\ p = Rank(n, W[1]))
    <3>1. PICK i \in 1..Len(W) : W[i].s = s /\ p = Rank(n, W[i])
      BY <1>1
    <3>2. i = 1 \/ (i - 1 \in 1..Len(V) /\ V[i - 1] = W[i])
      BY <1>0
    <3>3. QED BY <1>1, <3>1, <3>2
  <2>2. ASSUME NEW p, p \in Places(V, s, n) \/ (W[1].s = s /\ p = Rank(n, W[1]))
        PROVE  p \in Places(W, s, n)
    <3>1. 1 \in 1..Len(W)
      BY <1>0
    <3>2. QED BY <1>0, <1>1, <2>2, <3>1
  <2>3. QED BY <2>1, <2>2
<1>3. QED BY <1>2 DEF V

LEMMA RankType ==
  ASSUME NEW n \in Bodies, NEW f \in Answers
  PROVE  Rank(n, f) \in Int /\ (Fits(n, f) => Rank(n, f) >= 1)
BY DEF Rank, Fits, Bodies, NoBody, Answers

(* A frame of another stream is put behind W.                              *)
LEMMA OtherAnswer ==
  ASSUME NEW W \in Seq(Answers), NEW f \in Answers, NEW s, f.s # s, NEW n, NEW g
  PROVE  /\ Sequel(W, s, n, g) => Sequel(Append(W, f), s, n, g)
         /\ Unsent(W, s, g) => Unsent(Append(W, f), s, g)
         /\ \A r : NextIs(W, s, n, g, r) => NextIs(Append(W, f), s, n, g, r)
<1> DEFINE V == Append(W, f)
<1>1. /\ Len(V) = Len(W) + 1 /\ Len(W) \in Nat /\ (\A i \in 1..Len(W) : V[i] = W[i]) /\ V[Len(W) + 1] = f
      /\ 1..(Len(W) + 1) = 1..Len(W) \cup {Len(W) + 1}
  BY Appended
<1>2. Places(V, s, n) = Places(W, s, n)
  <2>1. Places(V, s, n) = Places(W, s, n) \cup (IF f.s = s THEN {Rank(n, f)} ELSE {})
    BY OneMoreAnswer
  <2>2. QED BY <2>1
<1> HIDE DEF V, Answers
<1>3. \A i \in 1..Len(V) : V[i].s = s => i \in 1..Len(W) /\ V[i] = W[i]
  BY <1>1
<1>4. Sequel(W, s, n, g) => Sequel(V, s, n, g)
  BY <1>2, <1>3 DEF Sequel
<1>5. Unsent(W, s, g) => Unsent(V, s, g)
  BY <1>3 DEF Unsent
<1>6. QED BY <1>2, <1>4, <1>5 DEF NextIs, V

(* The next frame of s is put behind W.                                    *)
LEMMA NextAnswer ==
  ASSUME NEW W \in Seq(Answers), NEW s, NEW f \in Answers, f.s = s, NEW n \in Bodies,
         NEW g \in Seq(Answers), Sequel(W, s, n, g), Fits(n, f), NextIs(W, s, n, g, Rank(n, f))
  PROVE  Sequel(Append(W, f), s, n, g) /\ NextIs(Append(W, f), s, n, g, Rank(n, f) + 1)
<1> DEFINE V == Append(W, f)
           r == Rank(n, f)
<1>1. /\ Len(V) = Len(W) + 1 /\ Len(W) \in Nat /\ (\A i \in 1..Len(W) : V[i] = W[i]) /\ V[Len(W) + 1] = f
      /\ 1..(Len(W) + 1) = 1..Len(W) \cup {Len(W) + 1}
  BY Appended
<1>2. Places(V, s, n) = Places(W, s, n) \cup {r}
  BY OneMoreAnswer
<1>3. r \in Int /\ Len(g) \in Nat
  BY RankType
<1>4. Places(W, s, n) = Len(g) + 1 .. r - 1 /\ Len(g) < r
  BY DEF NextIs
<1>5. \A i \in 1..Len(W) : W[i].s = s => Rank(n, W[i]) < r
  <2>1. \A i \in 1..Len(W) : W[i].s = s => Rank(n, W[i]) \in Places(W, s, n)
    BY DEF Places
  <2>2. \A p \in Places(W, s, n) : p < r
    BY <1>3, <1>4
  <2>3. QED BY <2>1, <2>2
<1> HIDE DEF V, r, Answers
<1>6. Places(V, s, n) = Len(g) + 1 .. r /\ Len(g) < r + 1 /\ (r + 1) - 1 = r
  BY <1>2, <1>3, <1>4
<1>7. ASSUME NEW i \in 1..Len(V), NEW j \in 1..Len(V), i < j, V[i].s = s, V[j].s = s
      PROVE  Rank(n, V[i]) < Rank(n, V[j])
  <2>1. i \in 1..Len(W) /\ V[i] = W[i]
    BY <1>1, <1>7
  <2>2. CASE j \in 1..Len(W)
    BY <1>1, <1>7, <2>1, <2>2 DEF Sequel
  <2>3. CASE j = Len(W) + 1
    BY <1>1, <1>5, <1>7, <2>1, <2>3 DEF r
  <2>4. QED BY <1>1, <2>2, <2>3
<1>8. \A i \in 1..Len(V) : V[i].s = s => Fits(n, V[i])
  BY <1>1 DEF Sequel
<1>9. r \in Nat
  BY <1>3, <1>4
<1>10. QED BY <1>6, <1>7, <1>8, <1>9 DEF Sequel, NextIs, V, r

LEMMA UnsentIsNext ==
  ASSUME NEW W, NEW s, NEW n, NEW g, Unsent(W, s, g)
  PROVE  NextIs(W, s, n, g, 1) /\ Sequel(W, s, n, g)
<1>1. Places(W, s, n) = {} /\ Len(g) = 0
  BY DEF Unsent, Places
<1>2. 0 + 1 .. 0 = {} /\ 0 + 1 .. 1 - 1 = {} /\ 0 \in Nat
  OBVIOUS
<1>3. QED BY <1>1, <1>2 DEF NextIs, Sequel, Unsent

(* The client reads a frame of another stream.                             *)
LEMMA OtherRead ==
  ASSUME NEW W \in Seq(Answers), W # <<>>, NEW s, W[1].s # s, NEW n, NEW g
  PROVE  /\ Sequel(W, s, n, g) => Sequel(Tail(W), s, n, g)
         /\ Unsent(W, s, g) => Unsent(Tail(W), s, g)
         /\ \A r : NextIs(W, s, n, g, r) => NextIs(Tail(W), s, n, g, r)
<1> DEFINE V == Tail(W)
<1>1. /\ \A i \in 1..Len(V) : V[i] = W[i + 1] /\ i + 1 \in 1..Len(W)
      /\ Len(V) \in Nat
  BY Rest
<1>2. Places(V, s, n) = Places(W, s, n)
  <2>1. Places(W, s, n) = Places(V, s, n) \cup (IF W[1].s = s THEN {Rank(n, W[1])} ELSE {})
    BY OneLessAnswer
  <2>2. QED BY <2>1
<1> HIDE DEF V, Answers
<1>3. \A i, j \in 1..Len(V) : i < j => i + 1 < j + 1
  BY <1>1
<1>4. Sequel(W, s, n, g) => Sequel(V, s, n, g)
  BY <1>1, <1>2, <1>3 DEF Sequel
<1>5. Unsent(W, s, g) => Unsent(V, s, g)
  BY <1>1 DEF Unsent
<1>6. QED BY <1>2, <1>4, <1>5 DEF NextIs, V

(* The client reads the next frame of s.                                   *)
LEMMA NextRead ==
  ASSUME NEW W \in Seq(Answers), W # <<>>, NEW s, W[1].s = s, NEW n \in Bodies,
         NEW g \in Seq(Answers), Sequel(W, s, n, g), Had(n, g)
  PROVE  /\ ~Unsent(W, s, g)
         /\ Sequel(Tail(W), s, n, Append(g, W[1])) /\ Had(n, Append(g, W[1]))
         /\ \A r \in Int : NextIs(W, s, n, g, r) => NextIs(Tail(W), s, n, Append(g, W[1]), r)
<1> DEFINE V == Tail(W)
           f == W[1]
           h == Append(g, f)
           p == Rank(n, f)
<1>1. /\ V \in Seq(Answers) /\ \A i \in 1..Len(V) : V[i] = W[i + 1] /\ i + 1 \in 1..Len(W)
      /\ Len(V) \in Nat /\ 1 \in 1..Len(W) /\ f \in Answers
  BY Rest
<1>2. Places(W, s, n) = Places(V, s, n) \cup {p}
  BY OneLessAnswer
<1>3. /\ Len(h) = Len(g) + 1 /\ Len(g) \in Nat /\ (\A i \in 1..Len(g) : h[i] = g[i]) /\ h[Len(g) + 1] = f
      /\ 1..(Len(g) + 1) = 1..Len(g) \cup {Len(g) + 1}
  BY <1>1, Appended
<1>4. p \in Int /\ Fits(n, f)
  BY <1>1, RankType DEF Sequel
<1> HIDE DEF V, Answers, h, p, f
<1>5. \A i \in 1..Len(V) : V[i].s = s => p < Rank(n, V[i]) /\ Rank(n, V[i]) \in Int
  <2>1. \A i \in 1..Len(V) : 1 < i + 1 /\ V[i] \in Answers
    BY <1>1
  <2>2. \A i \in 1..Len(V) : Rank(n, V[i]) \in Int
    BY <2>1, RankType
  <2>3. QED BY <1>1, <2>1, <2>2 DEF Sequel, p, f
<1>6. \A q \in Places(V, s, n) : p < q /\ q \in Int
  BY <1>5 DEF Places
<1>7. ASSUME NEW r \in Int, Places(W, s, n) = Len(g) + 1 .. r
      PROVE  p = Len(g) + 1 /\ p <= r /\ Places(V, s, n) = Len(h) + 1 .. r
  <2>1. p \in Len(g) + 1 .. r
    BY <1>2, <1>7
  <2>2. Len(g) + 1 \in Places(V, s, n) \/ Len(g) + 1 = p
    BY <1>2, <1>3, <1>7, <2>1
  <2>3. p = Len(g) + 1
    BY <1>3, <1>4, <1>6, <2>1, <2>2
  <2>4. \A q : q \in Places(V, s, n) <=> q \in Places(W, s, n) /\ q # p
    BY <1>2, <1>6
  <2>5. \A q : q \in Len(g) + 1 .. r /\ q # Len(g) + 1 <=> q \in Len(h) + 1 .. r
    BY <1>3
  <2>6. Places(V, s, n) = Len(h) + 1 .. r
    BY <1>7, <2>3, <2>4, <2>5
  <2>7. p <= r
    BY <1>4, <2>1
  <2>8. QED BY <2>3, <2>6, <2>7
<1>8. PICK r \in Nat : Places(W, s, n) = Len(g) + 1 .. r
  BY DEF Sequel
<1>9. p = Len(g) + 1 /\ Places(V, s, n) = Len(h) + 1 .. r
  BY <1>7, <1>8
<1>10. Had(n, h)
  BY <1>3, <1>4, <1>9 DEF Had, p
<1>11. Sequel(V, s, n, h)
  <2>1. \A i, j \in 1..Len(V) : i < j => i + 1 < j + 1
    BY <1>1
  <2>2. QED BY <1>1, <1>8, <1>9, <2>1 DEF Sequel
<1>12. ASSUME NEW q \in Int, NextIs(W, s, n, g, q)
       PROVE  NextIs(V, s, n, h, q)
  <2>1. q - 1 \in Int
    OBVIOUS
  <2>2. p <= q - 1 /\ p = Len(g) + 1 /\ Places(V, s, n) = Len(h) + 1 .. q - 1
    BY <1>7, <1>12, <2>1 DEF NextIs
  <2>3. Len(h) < q
    BY <1>3, <1>4, <2>2
  <2>4. QED BY <2>2, <2>3 DEF NextIs
<1>13. ~Unsent(W, s, g)
  BY <1>1 DEF Unsent, f
<1>14. QED BY <1>10, <1>11, <1>12, <1>13 DEF V, h, f

-----------------------------------------------------------------------------
(* Frames that are received                                                *)

LEMMA NoStreamType ==
  /\ NoStream \in Streams /\ NoStream.there = FALSE /\ NoStream.buffer = <<>> /\ NoStream.closed = FALSE
  /\ NoStream.submitted = FALSE /\ NoStream.pending = "no" /\ NoStream.deferred = FALSE
  /\ NoStream.handler = "none"
BY DEF NoStream, Streams, Bodies

(* A stream is closed: nothing more is asked of it.                        *)
LEMMA ClosedStream ==
  ASSUME NEW x \in Streams, x.there, NEW U, NEW W, NEW s, NEW y, NEW rd, NEW n, NEW g,
         Receiving(x, U, s, y, rd), Sending(x, U, W, s, y, n, g)
  PROVE  /\ OnStreamClose(x) \in Streams
         /\ Receiving(OnStreamClose(x), U, s, y, rd)
         /\ Sending(OnStreamClose(x), U, W, s, y, n, g)
<1> DEFINE z == OnStreamClose(x)
<1>1. /\ z \in Streams /\ z.closed /\ z.pending = "no" /\ z.there = x.there /\ z.buffer = x.buffer
      /\ z.handler = x.handler /\ z.submitted = x.submitted /\ z.deferred = x.deferred
  BY DEF OnStreamClose, Streams
<1> HIDE DEF z
<1>2. Receiving(z, U, s, y, rd)
  BY <1>1 DEF Receiving, Taken
<1>3. Sending(z, U, W, s, y, n, g)
  BY <1>1 DEF Sending
<1>4. QED BY <1>1, <1>2, <1>3 DEF z

(* The next frame is of another stream.                                    *)
LEMMA OtherFrame ==
  ASSUME NEW x \in Streams, NEW U \in Seq(Frames), U # <<>>, NEW W, NEW s, U[1].s # s,
         NEW y, NEW rd, NEW n, NEW g,
         Receiving(x, U, s, y, rd), Sending(x, U, W, s, y, n, g)
  PROVE  Receiving(x, Tail(U), s, y, rd) /\ Sending(x, Tail(U), W, s, y, n, g)
<1> DEFINE V == Tail(U)
<1>1. Announced(V, s) <=> Announced(U, s)
  BY OneLessSent
<1>2. Numbered(U, s) = Numbered(V, s) \cup (IF U[1].s = s /\ U[1].t = "data" THEN {U[1].n} ELSE {})
  BY OneLessSent
<1>3. Numbered(V, s) = Numbered(U, s)
  BY <1>2
<1> HIDE DEF V
<1>4. QED BY <1>1, <1>3 DEF Receiving, Sending, V

(* The next frame is the header of s, and opens z.                         *)
Fresh(z) == z.there /\ z.buffer = <<>> /\ ~z.submitted /\ z.pending = "no" /\ ~z.deferred
LEMMA HeaderFrame ==
  ASSUME NEW x \in Streams, NEW U \in Seq(Frames), U # <<>>, NEW W, NEW s, U[1].s = s, U[1].t = "headers",
         NEW C, InOrder(U, C), C[s] \in Sides, NEW rd \in Nat, NEW n, NEW g,
         Receiving(x, U, s, C[s], rd), Sending(x, U, W, s, C[s], n, g),
         NEW z \in Streams, Fresh(z)
  PROVE  Receiving(z, Tail(U), s, C[s], rd) /\ Sending(z, Tail(U), W, s, C[s], n, g)
<1> DEFINE V == Tail(U)
<1>1. /\ Announced(U, s)
      /\ Numbered(U, s) = Numbered(V, s) \cup (IF U[1].s = s /\ U[1].t = "data" THEN {U[1].n} ELSE {})
  BY OneLessSent
<1>2. ~Announced(V, s) /\ C[s].state # "idle"
  BY FirstSent
<1>3. Numbered(V, s) = Numbered(U, s)
  BY <1>1
<1>4. x = NoStream /\ ~x.there /\ rd = 0
  BY <1>1 DEF Receiving
<1>5. Taken(x, rd) = 0 /\ Taken(z, rd) = 0 /\ Len(z.buffer) = 0
  BY <1>4, NoStreamType DEF Taken, Fresh
<1>6. Unsent(W, s, g)
  BY <1>1 DEF Sending
<1> HIDE DEF V
<1>7. Numbered(V, s) = Taken(z, rd) + 1 .. C[s].sent /\ Taken(z, rd) <= C[s].sent
  BY <1>1, <1>3, <1>5 DEF Receiving
<1>8. \A j \in 1..Len(z.buffer) : FALSE
  BY <1>5
<1>9. Receiving(z, V, s, C[s], rd)
  BY <1>2, <1>7, <1>8 DEF Receiving, Fresh
<1>10. Sending(z, V, W, s, C[s], n, g)
  BY <1>6 DEF Sending, Fresh
<1>11. QED BY <1>4, <1>9, <1>10 DEF V

(* The next frame is one of s that changes nothing about its body.         *)
LEMMA PlainFrame ==
  ASSUME NEW x \in Streams, NEW U \in Seq(Frames), U # <<>>, NEW W, NEW s, U[1].s = s, U[1].t # "headers",
         NEW C, InOrder(U, C), NEW rd, NEW n, NEW g,
         U[1].t = "data" => ~x.there \/ x.closed,
         Receiving(x, U, s, C[s], rd), Sending(x, U, W, s, C[s], n, g)
  PROVE  Receiving(x, Tail(U), s, C[s], rd) /\ Sending(x, Tail(U), W, s, C[s], n, g)
<1> DEFINE V == Tail(U)
<1>1. /\ Announced(U, s) <=> Announced(V, s)
      /\ Numbered(U, s) = Numbered(V, s) \cup (IF U[1].s = s /\ U[1].t = "data" THEN {U[1].n} ELSE {})
  BY OneLessSent
<1>2. ~Announced(V, s)
  BY FirstSent
<1>3. U[1].t # "data" => Numbered(V, s) = Numbered(U, s)
  BY <1>1
<1> HIDE DEF V
<1>4. Receiving(x, V, s, C[s], rd)
  BY <1>1, <1>2, <1>3 DEF Receiving
<1>5. Sending(x, V, W, s, C[s], n, g)
  BY <1>1 DEF Sending
<1>6. QED BY <1>4, <1>5 DEF V

(* The next frame brings a byte of the body of s.                          *)
LEMMA DataFrame ==
  ASSUME NEW x \in Streams, NEW U \in Seq(Frames), U # <<>>, NEW W, NEW s, U[1].s = s, U[1].t = "data",
         NEW C, InOrder(U, C), C[s] \in Sides, NEW rd \in Nat, NEW n, NEW g, x.there, ~x.closed,
         Receiving(x, U, s, C[s], rd), Sending(x, U, W, s, C[s], n, g),
         NEW z, z = [x EXCEPT !.buffer = Append(@, U[1].n)]
  PROVE  /\ z \in Streams
         /\ Receiving(z, Tail(U), s, C[s], rd) /\ Sending(z, Tail(U), W, s, C[s], n, g)
<1> DEFINE V == Tail(U)
           m == U[1].n
           k == Taken(x, rd)
           e == C[s].sent
<1>1. /\ Announced(U, s) <=> Announced(V, s)
      /\ Numbered(U, s) = Numbered(V, s) \cup (IF U[1].s = s /\ U[1].t = "data" THEN {U[1].n} ELSE {})
  BY OneLessSent
<1>2. /\ ~Announced(V, s) /\ C[s].state # "idle"
      /\ \A q \in Numbered(V, s) : m < q
  BY FirstSent
<1>3. m \in Nat /\ k \in Nat /\ e \in Nat
  <2>1. U[1] \in Frames
    BY Rest
  <2>2. U[1].n \in Nat
    BY <2>1 DEF Frames
  <2>3. Len(x.buffer) \in Nat
    BY DEF Streams
  <2>4. QED BY <2>2, <2>3 DEF Taken, Sides
<1>4. Numbered(U, s) = Numbered(V, s) \cup {m} /\ Numbered(U, s) = k + 1 .. e
  BY <1>1 DEF Receiving
<1>5. /\ z \in Streams /\ z.there /\ Len(z.buffer) = Len(x.buffer) + 1 /\ Len(x.buffer) \in Nat
      /\ \A j \in 1..Len(x.buffer) : z.buffer[j] = x.buffer[j]
      /\ z.buffer[Len(x.buffer) + 1] = m
      /\ z.handler = x.handler /\ z.submitted = x.submitted /\ z.deferred = x.deferred
      /\ z.pending = x.pending /\ z.left = x.left /\ z.closed = x.closed
  <2> DEFINE b == Append(x.buffer, m)
  <2>1. x.buffer \in Seq(Nat)
    BY DEF Streams
  <2>2. /\ b \in Seq(Nat) /\ Len(b) = Len(x.buffer) + 1 /\ Len(x.buffer) \in Nat
        /\ \A j \in 1..Len(x.buffer) : b[j] = x.buffer[j]
        /\ b[Len(x.buffer) + 1] = m
    BY <1>3, <2>1, Appended
  <2> HIDE DEF b
  <2>3. z = [x EXCEPT !.buffer = b]
    BY DEF b
  <2>4. z \in Streams /\ z.buffer = b
    BY <2>2, <2>3 DEF Streams
  <2>5. /\ z.there /\ z.handler = x.handler /\ z.submitted = x.submitted /\ z.deferred = x.deferred
        /\ z.pending = x.pending /\ z.left = x.left /\ z.closed = x.closed
    BY <2>3 DEF Streams
  <2>6. QED BY <2>2, <2>4, <2>5
<1> HIDE DEF V, m, e
<1>6. m = k + 1 /\ m <= e
  <2>1. m \in k + 1 .. e
    BY <1>4
  <2>2. k + 1 \in Numbered(V, s) \/ k + 1 = m
    BY <1>3, <1>4, <2>1
  <2>3. QED BY <1>2, <1>3, <2>1, <2>2
<1>7. Taken(z, rd) = k + 1
  <2>1. Len(z.buffer) = Len(x.buffer) + 1 /\ Len(x.buffer) \in Nat
    BY <1>5
  <2>2. QED BY <2>1 DEF Taken
<1> HIDE DEF k
<1>8. Numbered(V, s) = Taken(z, rd) + 1 .. e
  <2>1. \A q : q \in Numbered(V, s) <=> q \in k + 1 .. e /\ q # k + 1
    BY <1>2, <1>3, <1>4, <1>6
  <2>2. \A q : q \in k + 1 .. e /\ q # k + 1 <=> q \in (k + 1) + 1 .. e
    BY <1>3
  <2>3. QED BY <1>7, <2>1, <2>2
<1>9. \A j \in 1..Len(z.buffer) : z.buffer[j] = rd + j
  <2>1. \A j \in 1..Len(x.buffer) : z.buffer[j] = rd + j
    BY <1>5 DEF Receiving
  <2>2. z.buffer[Len(x.buffer) + 1] = rd + (Len(x.buffer) + 1)
    BY <1>5, <1>6 DEF Taken, k
  <2>3. \A j \in 1..Len(z.buffer) : j \in 1..Len(x.buffer) \/ j = Len(x.buffer) + 1
    BY <1>5
  <2>4. QED BY <2>1, <2>2, <2>3
<1>10. Receiving(z, V, s, C[s], rd)
  BY <1>2, <1>5, <1>6, <1>7, <1>8, <1>9 DEF Receiving, e
<1>11. Sending(z, V, W, s, C[s], n, g)
  BY <1>1, <1>5 DEF Sending
<1>12. QED BY <1>5, <1>10, <1>11 DEF V

(* One frame is taken, and all that changes is its stream, to z.           *)
LEMMA OneStream ==
  ASSUME NEW C, NEW R, NEW H, NEW G, NEW W, NEW S \in [Ids -> Streams],
         NEW U \in Seq(Frames), U # <<>>, Connected(S, U, W, C, R, H, G),
         NEW s \in Ids, U[1].s = s, NEW z \in Streams,
         Receiving(z, Tail(U), s, C[s], R[s]), Sending(z, Tail(U), W, s, C[s], H[s], G[s])
  PROVE  /\ [S EXCEPT ![s] = z] \in [Ids -> Streams]
         /\ Connected([S EXCEPT ![s] = z], Tail(U), W, C, R, H, G)
<1> DEFINE T == [S EXCEPT ![s] = z]
<1>1. T \in [Ids -> Streams] /\ T[s] = z /\ \A r \in Ids : r # s => T[r] = S[r]
  OBVIOUS
<1> HIDE DEF T
<1>2. InOrder(Tail(U), C)
  BY FirstSent DEF Connected
<1>3. ASSUME NEW r \in Ids, r # s
      PROVE  Receiving(T[r], Tail(U), r, C[r], R[r]) /\ Sending(T[r], Tail(U), W, r, C[r], H[r], G[r])
  <2>1. S[r] \in Streams /\ Receiving(S[r], U, r, C[r], R[r]) /\ Sending(S[r], U, W, r, C[r], H[r], G[r])
    BY DEF Connected
  <2>2. U[1].s # r
    BY <1>3
  <2>3. QED BY <1>1, <1>3, <2>1, <2>2, OtherFrame
<1>4. QED BY <1>1, <1>2, <1>3 DEF Connected, T

(* What a frame keeps of c.                                                *)
Keeps(c, d) == /\ d.up = c.up /\ d.down = c.down /\ d.output = c.output
               /\ \A s \in Ids : c.streams[s].there =>
                    d.streams[s].there /\ d.streams[s].handler = c.streams[s].handler

LEMMA HeaderReceived ==
  ASSUME NEW C, NEW R, NEW H, NEW G, Histories(C, R, H, G), NEW W, NEW c \in Connections,
         NEW U \in Seq(Frames), U # <<>>, Connected(c.streams, U, W, C, R, H, G),
         U[1].t = "headers", NEW d, d = OnHeaders(c, U[1])
  PROVE  d \in Connections /\ Keeps(c, d) /\ (d.failed \/ Connected(d.streams, Tail(U), W, C, R, H, G))
<1> DEFINE f == U[1]
           s == f.s
           x == [NoStream EXCEPT !.there = TRUE, !.head = f.kind = "HEAD", !.complete = f.end]
<1>1. f \in Frames
  BY Rest
<1>2. s \in Ids /\ f.end \in BOOLEAN
  BY <1>1 DEF Frames
<1>3. x \in Streams /\ x.there /\ x.buffer = <<>> /\ ~x.submitted /\ x.pending = "no" /\ ~x.deferred
  <2> DEFINE h == f.kind = "HEAD"
             e == f.end
  <2>1. h \in BOOLEAN /\ e \in BOOLEAN
    BY <1>2
  <2> HIDE DEF h, e
  <2>2. x = [NoStream EXCEPT !.there = TRUE, !.head = h, !.complete = e]
    BY DEF h, e
  <2> HIDE DEF x
  <2>3. QED BY <2>1, <2>2, NoStreamType DEF Streams
<1>4. c.streams \in [Ids -> Streams] /\ c.streams[s] \in Streams
  BY <1>2 DEF Connections
<1>5. /\ Receiving(c.streams[s], U, s, C[s], R[s]) /\ Sending(c.streams[s], U, W, s, C[s], H[s], G[s])
      /\ InOrder(U, C) /\ C[s] \in Sides /\ R[s] \in Nat
  BY <1>2 DEF Connected, Histories
<1> HIDE DEF f, s, x
<1>6. ASSUME NEW z \in Streams, Fresh(z), d = SetStream(c, s, z)
      PROVE  d \in Connections /\ Keeps(c, d) /\ Connected(d.streams, Tail(U), W, C, R, H, G)
  <2>1. /\ c.streams[s] = NoStream /\ Receiving(z, Tail(U), s, C[s], R[s])
        /\ Sending(z, Tail(U), W, s, C[s], H[s], G[s])
    <3>1. U[1].s = s /\ U[1].t = "headers"
      BY DEF f, s
    <3>2. Receiving(z, Tail(U), s, C[s], R[s]) /\ Sending(z, Tail(U), W, s, C[s], H[s], G[s])
      BY <1>4, <1>5, <1>6, <3>1, HeaderFrame
    <3>3. Announced(U, s) <=> Announced(Tail(U), s) \/ (U[1].s = s /\ U[1].t = "headers")
      BY OneLessSent
    <3>4. QED BY <1>5, <3>1, <3>2, <3>3 DEF Receiving
  <2>2. d.streams = [c.streams EXCEPT ![s] = z] /\ d = [c EXCEPT !.streams = d.streams]
    BY <1>6 DEF SetStream, Connections
  <2>3. d.streams \in [Ids -> Streams] /\ Connected(d.streams, Tail(U), W, C, R, H, G)
    BY <1>2, <1>4, <1>6, <2>1, <2>2, OneStream DEF f, s
  <2>4. d \in Connections /\ d.up = c.up /\ d.down = c.down /\ d.output = c.output
    BY <2>2, <2>3 DEF Connections
  <2>5. QED BY <1>2, <1>4, <1>6, <2>1, <2>2, <2>3, <2>4, NoStreamType DEF Keeps
<1>7. CASE f.kind = "unknown"
  <2>1. d = [c EXCEPT !.failed = TRUE]
    BY <1>7 DEF OnHeaders, f
  <2>2. d \in Connections /\ d.failed /\ d.streams = c.streams /\ d.up = c.up /\ d.down = c.down /\ d.output = c.output
    BY <2>1 DEF Connections
  <2>3. QED BY <2>2 DEF Keeps
<1>8. CASE f.kind = "oversized"
  <2>1. d = SetStream(c, s, OnStreamClose(x))
    BY <1>8 DEF OnHeaders, f, s, x
  <2>2. /\ OnStreamClose(x) \in Streams /\ OnStreamClose(x).there /\ OnStreamClose(x).buffer = <<>>
        /\ ~OnStreamClose(x).submitted /\ OnStreamClose(x).pending = "no" /\ ~OnStreamClose(x).deferred
    BY <1>3 DEF OnStreamClose, Streams
  <2>3. QED BY <1>6, <2>1, <2>2 DEF Fresh
<1>9. CASE f.kind \notin {"unknown", "oversized"}
  <2> DEFINE z == [x EXCEPT !.handler = "ready"]
  <2>1. d = SetStream(c, s, z)
    BY <1>9 DEF OnHeaders, f, s, x
  <2>2. z \in Streams /\ Fresh(z)
    BY <1>3 DEF Streams, Fresh
  <2> HIDE DEF z
  <2>3. QED BY <1>6, <2>1, <2>2
<1>10. QED BY <1>7, <1>8, <1>9

(* Any other frame.                                                        *)
LEMMA OtherReceived ==
  ASSUME NEW C, NEW R, NEW H, NEW G, Histories(C, R, H, G), NEW W, NEW c \in Connections,
         NEW U \in Seq(Frames), U # <<>>, Connected(c.streams, U, W, C, R, H, G),
         U[1].t # "headers", ~c.failed, NEW d, d = OnFrame(c, U[1])
  PROVE  d \in Connections /\ Keeps(c, d) /\ Connected(d.streams, Tail(U), W, C, R, H, G)
<1> DEFINE f == U[1]
           s == f.s
           x == c.streams[s]
<1>1. f \in Frames
  BY Rest
<1>2. s \in Ids /\ f.t \in {"data", "end", "reset"}
  BY <1>1 DEF Frames
<1>3. c.streams \in [Ids -> Streams] /\ x \in Streams
  BY <1>2 DEF Connections
<1>4. /\ Receiving(x, U, s, C[s], R[s]) /\ Sending(x, U, W, s, C[s], H[s], G[s])
      /\ InOrder(U, C) /\ C[s] \in Sides /\ R[s] \in Nat
  BY <1>2 DEF Connected, Histories
<1>5. d = IF f.t = "data" THEN OnDataChunk(c, f) ELSE IF f.t = "end" THEN OnEnd(c, f) ELSE OnReset(c, f)
  BY <1>2 DEF OnFrame
<1> HIDE DEF f, s, x
<1>6. ASSUME NEW z \in Streams, x.there => z.there /\ z.handler = x.handler, d = SetStream(c, s, z),
             Receiving(z, Tail(U), s, C[s], R[s]), Sending(z, Tail(U), W, s, C[s], H[s], G[s])
      PROVE  d \in Connections /\ Keeps(c, d) /\ Connected(d.streams, Tail(U), W, C, R, H, G)
  <2>1. d.streams = [c.streams EXCEPT ![s] = z] /\ d = [c EXCEPT !.streams = d.streams]
    BY <1>6 DEF SetStream, Connections
  <2>2. d.streams \in [Ids -> Streams] /\ Connected(d.streams, Tail(U), W, C, R, H, G)
    BY <1>2, <1>3, <1>6, <2>1, OneStream DEF f, s
  <2>3. d \in Connections /\ d.up = c.up /\ d.down = c.down /\ d.output = c.output
    BY <2>1, <2>2 DEF Connections
  <2>4. QED BY <1>2, <1>3, <1>6, <2>1, <2>2, <2>3 DEF Keeps, x
<1>7. ASSUME ~x.there \/ x.closed \/ f.t # "data",
             d \in Connections, d.streams = c.streams, d.up = c.up, d.down = c.down, d.output = c.output
      PROVE  d \in Connections /\ Keeps(c, d) /\ Connected(d.streams, Tail(U), W, C, R, H, G)
  <2>1. Receiving(x, Tail(U), s, C[s], R[s]) /\ Sending(x, Tail(U), W, s, C[s], H[s], G[s])
    BY <1>3, <1>4, <1>7, PlainFrame DEF f, s
  <2>2. Connected([c.streams EXCEPT ![s] = x], Tail(U), W, C, R, H, G)
    BY <1>2, <1>3, <2>1, OneStream DEF f, s
  <2>3. [c.streams EXCEPT ![s] = x] = c.streams
    BY <1>2, <1>3 DEF x
  <2>4. QED BY <1>7, <2>2, <2>3 DEF Keeps
<1>8. CASE f.t = "data" /\ x.there /\ ~x.closed
  <2> DEFINE z == [x EXCEPT !.buffer = Append(@, f.n)]
  <2>1. d = SetStream(c, s, z)
    BY <1>5, <1>8 DEF OnDataChunk, x, s
  <2>2. z \in Streams /\ Receiving(z, Tail(U), s, C[s], R[s]) /\ Sending(z, Tail(U), W, s, C[s], H[s], G[s])
    BY <1>3, <1>4, <1>8, DataFrame DEF f, s
  <2>3. z.there /\ z.handler = x.handler
    BY <1>3, <1>8 DEF Streams
  <2> HIDE DEF z
  <2>4. QED BY <1>6, <2>1, <2>2, <2>3
<1>9. CASE f.t = "data" /\ ~(x.there /\ ~x.closed)
  <2>1. d = Consume(c, 1)
    BY <1>5, <1>9 DEF OnDataChunk, x, s
  <2> DEFINE e == [c.session EXCEPT !.consumed = @ + 1]
  <2>2. e \in [alive : BOOLEAN, consumed : Nat]
    <3>1. c.session \in [alive : BOOLEAN, consumed : Nat]
      BY DEF Connections
    <3>2. QED BY <3>1
  <2>3. d = [c EXCEPT !.session = e]
    BY <2>1 DEF Consume, Connections
  <2> HIDE DEF e
  <2>4. d \in Connections /\ d.streams = c.streams /\ d.up = c.up /\ d.down = c.down /\ d.output = c.output
    BY <2>2, <2>3 DEF Connections
  <2>5. QED BY <1>7, <1>9, <2>4
<1>10. CASE f.t # "data" /\ ~x.there
  <2>1. d = c
    BY <1>2, <1>5, <1>10 DEF OnEnd, OnReset, x, s
  <2>2. QED BY <1>7, <1>10, <2>1
<1>11. CASE f.t # "data" /\ x.there
  <2> DEFINE w == [x EXCEPT !.complete = TRUE]
  <2>1. w \in Streams /\ w.there /\ w.buffer = x.buffer /\ w.handler = x.handler /\ w.submitted = x.submitted
        /\ w.pending = x.pending /\ w.deferred = x.deferred /\ w.left = x.left /\ w.closed = x.closed
    BY <1>3, <1>11 DEF Streams
  <2>2. Receiving(x, Tail(U), s, C[s], R[s]) /\ Sending(x, Tail(U), W, s, C[s], H[s], G[s])
    BY <1>3, <1>4, <1>11, PlainFrame DEF f, s
  <2>3. Receiving(w, Tail(U), s, C[s], R[s]) /\ Sending(w, Tail(U), W, s, C[s], H[s], G[s])
    BY <1>11, <2>1, <2>2 DEF Receiving, Sending, Taken
  <2>4. \A v \in Streams : OnStreamClose(v).there = v.there /\ OnStreamClose(v).handler = v.handler
    BY DEF OnStreamClose, Streams
  <2>5. CASE f.t = "end"
    <3>1. d = SetStream(c, s, w) \/ d = SetStream(c, s, OnStreamClose(w))
      BY <1>5, <1>11, <2>5 DEF OnEnd, Ended, x, s
    <3> HIDE DEF w
    <3>2. OnStreamClose(w) \in Streams /\ Receiving(OnStreamClose(w), Tail(U), s, C[s], R[s])
          /\ Sending(OnStreamClose(w), Tail(U), W, s, C[s], H[s], G[s])
      BY <2>1, <2>3, ClosedStream
    <3>3. QED BY <1>6, <2>1, <2>3, <2>4, <3>1, <3>2
  <2>6. CASE f.t = "reset"
    <3>1. d = SetStream(c, s, OnStreamClose(x))
      BY <1>5, <1>11, <2>6 DEF OnReset, x, s
    <3>2. OnStreamClose(x) \in Streams /\ Receiving(OnStreamClose(x), Tail(U), s, C[s], R[s])
          /\ Sending(OnStreamClose(x), Tail(U), W, s, C[s], H[s], G[s])
      BY <1>3, <1>11, <2>2, ClosedStream
    <3>3. QED BY <1>3, <1>6, <2>4, <3>1, <3>2
  <2>7. QED BY <1>2, <1>11, <2>5, <2>6
<1>12. QED BY <1>8, <1>9, <1>10, <1>11

LEMMA FrameStep ==
  ASSUME NEW C, NEW R, NEW H, NEW G, Histories(C, R, H, G), NEW W, NEW c \in Connections,
         NEW U \in Seq(Frames), U # <<>>, c.failed \/ Connected(c.streams, U, W, C, R, H, G),
         NEW d, d = OnFrame(c, U[1])
  PROVE  d \in Connections /\ Keeps(c, d) /\ (d.failed \/ Connected(d.streams, Tail(U), W, C, R, H, G))
<1>1. CASE c.failed
  <2>1. d = c
    BY <1>1 DEF OnFrame
  <2>2. QED BY <1>1, <2>1 DEF Keeps
<1>2. CASE ~c.failed /\ U[1].t = "headers"
  <2>1. d = OnHeaders(c, U[1])
    BY <1>2 DEF OnFrame
  <2>2. QED BY <1>2, <2>1, HeaderReceived
<1>3. CASE ~c.failed /\ U[1].t # "headers"
  BY <1>3, OtherReceived
<1>4. QED BY <1>1, <1>2, <1>3

(* What is left of U after i frames.                                       *)
LEMMA FramesLeft ==
  ASSUME NEW E, NEW U \in Seq(E), NEW i \in Nat, i < Len(U)
  PROVE  /\ SubSeq(U, i + 1, Len(U)) \in Seq(E) /\ SubSeq(U, i + 1, Len(U)) # <<>>
         /\ SubSeq(U, i + 1, Len(U))[1] = U[i + 1]
         /\ Tail(SubSeq(U, i + 1, Len(U))) = SubSeq(U, (i + 1) + 1, Len(U))
<1> DEFINE n == Len(U)
           V == SubSeq(U, i + 1, n)
           T == SubSeq(U, (i + 1) + 1, n)
<1>1. n \in Nat /\ \A k \in 1..n : U[k] \in E
  OBVIOUS
<1>2. V \in Seq(E) /\ Len(V) = n - i /\ \A k \in 1..(n - i) : V[k] = U[k + i]
  <2>1. \A k \in (i + 1)..n : U[k] \in E
    BY <1>1
  <2>2. V \in Seq(E) /\ Len(V) = (IF i + 1 <= n THEN n - (i + 1) + 1 ELSE 0)
        /\ \A k \in 1..(n - (i + 1) + 1) : V[k] = U[(i + 1) + k - 1]
    BY <1>1, <2>1, SubSeqProperties
  <2>3. \A k \in 1..(n - i) : (i + 1) + k - 1 = k + i /\ n - (i + 1) + 1 = n - i
    BY <1>1
  <2>4. n - (i + 1) + 1 = n - i /\ i + 1 <= n
    BY <1>1
  <2>5. QED BY <2>2, <2>3, <2>4
<1>3. T \in Seq(E) /\ Len(T) = n - i - 1 /\ \A k \in 1..(n - i - 1) : T[k] = U[(k + 1) + i]
  <2>1. \A k \in ((i + 1) + 1)..n : U[k] \in E
    BY <1>1
  <2>2. T \in Seq(E) /\ Len(T) = (IF (i + 1) + 1 <= n THEN n - ((i + 1) + 1) + 1 ELSE 0)
        /\ \A k \in 1..(n - ((i + 1) + 1) + 1) : T[k] = U[((i + 1) + 1) + k - 1]
    BY <1>1, <2>1, SubSeqProperties
  <2>3. \A k \in 1..(n - i - 1) : ((i + 1) + 1) + k - 1 = (k + 1) + i
    BY <1>1
  <2>4. n - ((i + 1) + 1) + 1 = n - i - 1 /\ i + 1 <= n
        /\ (~((i + 1) + 1 <= n) => n - i - 1 = 0)
    BY <1>1
  <2> HIDE DEF T
  <2>5. \A k \in 1..(n - i - 1) : T[k] = U[((i + 1) + 1) + k - 1]
    BY <2>2, <2>4
  <2>6. Len(T) = n - i - 1
    BY <2>2, <2>4
  <2>7. QED BY <2>2, <2>3, <2>5, <2>6
<1> HIDE DEF V, T
<1>4. V # <<>> /\ V[1] = U[i + 1]
  <2>1. 1 \in 1..(n - i) /\ 1 + i = i + 1 /\ Len(V) > 0
    BY <1>1, <1>2
  <2>2. QED BY <1>2, <2>1
<1>5. Tail(V) \in Seq(E) /\ Len(Tail(V)) = n - i - 1 /\ \A k \in 1..(n - i - 1) : Tail(V)[k] = T[k]
  <2>1. Len(Tail(V)) = n - i - 1 /\ Tail(V) \in Seq(E)
    BY <1>1, <1>2, <1>4
  <2>2. \A k \in 1..(n - i - 1) : Tail(V)[k] = V[k + 1] /\ k + 1 \in 1..(n - i)
    BY <1>1, <1>2, <1>4
  <2>3. QED BY <1>2, <1>3, <2>1, <2>2
<1>6. Tail(V) = T
  BY <1>3, <1>5, SeqEqual
<1>7. QED BY <1>2, <1>4, <1>6 DEF V, T

(* All that there is is received.                                          *)
Follows(g, c) ==
  /\ g[0] = c
  /\ \A i \in 1..Len(c.up) : OnFrame(g[i - 1], c.up[i]) \in Connections => g[i] = OnFrame(g[i - 1], c.up[i])
Followed(g, c, W, C, R, H, G) ==
  \A i \in 0..Len(c.up) :
    /\ g[i] \in Connections /\ Keeps(c, g[i])
    /\ g[i].failed \/ Connected(g[i].streams, SubSeq(c.up, i + 1, Len(c.up)), W, C, R, H, G)
    /\ i < Len(c.up) => g[i + 1] = OnFrame(g[i], c.up[i + 1])
LEMMA ManyFrames ==
  ASSUME NEW C, NEW R, NEW H, NEW G, Histories(C, R, H, G), NEW W, NEW c \in Connections,
         Connected(c.streams, c.up, W, C, R, H, G),
         NEW g, Follows(g, c)
  PROVE  Followed(g, c, W, C, R, H, G)
<1> DEFINE U == c.up
           n == Len(U)
           Left(i) == SubSeq(U, i + 1, n)
           Good(i) == /\ g[i] \in Connections /\ Keeps(c, g[i])
                      /\ g[i].failed \/ Connected(g[i].streams, Left(i), W, C, R, H, G)
           S == {i \in Nat : i <= n => Good(i)}
<1>1. U \in Seq(Frames) /\ n \in Nat
  BY DEF Connections
<1>2. 0 \in S
  <2>1. Left(0) = U
    BY <1>1
  <2>2. QED BY <2>1 DEF Keeps, Follows
<1>3. ASSUME NEW i \in Nat, i < n, Good(i)
      PROVE  Good(i + 1) /\ g[i + 1] = OnFrame(g[i], U[i + 1])
  <2> DEFINE d == OnFrame(g[i], U[i + 1])
  <2>1. /\ Left(i) \in Seq(Frames) /\ Left(i) # <<>> /\ Left(i)[1] = U[i + 1]
        /\ Tail(Left(i)) = Left(i + 1)
    BY <1>1, <1>3, FramesLeft
  <2>2. g[i] \in Connections /\ (g[i].failed \/ Connected(g[i].streams, Left(i), W, C, R, H, G))
    BY <1>3
  <2>3. d = OnFrame(g[i], Left(i)[1])
    BY <2>1
  <2> HIDE DEF d, Left
  <2>4. d \in Connections /\ Keeps(g[i], d) /\ (d.failed \/ Connected(d.streams, Tail(Left(i)), W, C, R, H, G))
    BY <2>1, <2>2, <2>3, FrameStep
  <2>5. i + 1 \in 1..n /\ (i + 1) - 1 = i
    BY <1>1, <1>3
  <2>6. g[i + 1] = d
    BY <2>4, <2>5 DEF d, Follows
  <2>7. Keeps(c, d)
    BY <1>3, <2>4 DEF Keeps
  <2>8. QED BY <2>1, <2>4, <2>6, <2>7 DEF d
<1> HIDE DEF Good
<1>4. ASSUME NEW i \in Nat, i \in S PROVE i + 1 \in S
  BY <1>1, <1>3, <1>4
<1> HIDE DEF S
<1>5. Nat \subseteq S
  BY <1>2, <1>4, SetInduction
<1>6. \A i \in 0..n : Good(i)
  BY <1>1, <1>5 DEF S
<1>7. QED BY <1>1, <1>3, <1>6 DEF Good, Followed

LEMMA AllReceived ==
  ASSUME NEW C, NEW R, NEW H, NEW G, Histories(C, R, H, G), NEW W, NEW c \in Connections,
         Connected(c.streams, c.up, W, C, R, H, G), NEW d, d = Received(c)
  PROVE  /\ d \in Connections /\ Keeps(c, d)
         /\ d.failed \/ Connected(d.streams, <<>>, W, C, R, H, G)
<1> DEFINE U == c.up
           n == Len(U)
           Next1(p) == OnFrame(p[1], U[p[2]])
           F == [p \in Connections \X (1..n) |-> IF Next1(p) \in Connections THEN Next1(p) ELSE c]
           Step(f) == [i \in 0..n |-> IF i = 0 THEN c ELSE OnFrame(f[i - 1], U[i])]
           after == CHOOSE f : f = Step(f)
<1>0. ASSUME NEW f, Follows(f, c)
      PROVE  Followed(f, c, W, C, R, H, G)
  BY <1>0, ManyFrames
<1>1. U \in Seq(Frames) /\ n \in Nat
  BY DEF Connections
<1>2. d = after[n]
  BY DEF Received
<1>3. F \in [Connections \X (1..n) -> Connections]
  OBVIOUS
<1>4. PICK g \in [0..n -> Connections] : g[0] = c /\ \A i \in 1..n : g[i] = F[<<g[i - 1], i>>]
  <2> HIDE DEF F
  <2>1. Computable(n, Connections, c, F)
    BY <1>1, <1>3, Recursion
  <2>2. QED BY <2>1 DEF Computable
<1>5. \A i \in 1..n : OnFrame(g[i - 1], U[i]) \in Connections => g[i] = OnFrame(g[i - 1], U[i])
  <2> SUFFICES ASSUME NEW i \in 1..n, OnFrame(g[i - 1], U[i]) \in Connections
               PROVE  g[i] = OnFrame(g[i - 1], U[i])
    OBVIOUS
  <2>1. g[i - 1] \in Connections
    BY <1>1
  <2>2. F[<<g[i - 1], i>>] = OnFrame(g[i - 1], U[i])
    BY <2>1
  <2>3. QED BY <1>4, <2>2
<1>6. \A i \in 0..n : i < n => g[i + 1] = OnFrame(g[i], U[i + 1])
  <2>1. Follows(g, c)
    BY <1>4, <1>5 DEF Follows
  <2>2. QED BY <1>0, <2>1 DEF Followed
<1>7. g = Step(g)
  <2>1. \A i \in 0..n : i # 0 => i - 1 \in 0..n /\ i - 1 < n /\ (i - 1) + 1 = i
    BY <1>1
  <2>2. \A i \in 0..n : i # 0 => g[i] = OnFrame(g[i - 1], U[i])
    BY <1>6, <2>1
  <2>3. DOMAIN g = 0..n /\ g = [i \in 0..n |-> g[i]]
    OBVIOUS
  <2>4. QED BY <1>4, <2>2, <2>3
<1>8. after = Step(after)
  BY <1>7
<1> HIDE DEF after
<1>9. after[0] = c /\ \A i \in 1..n : after[i] = OnFrame(after[i - 1], U[i])
  <2>1. 0 \in 0..n /\ \A i \in 1..n : i \in 0..n /\ i # 0
    BY <1>1
  <2>2. \A i \in 0..n : after[i] = IF i = 0 THEN c ELSE OnFrame(after[i - 1], U[i])
    BY <1>8
  <2>3. QED BY <2>1, <2>2
<1>10. /\ after[n] \in Connections /\ Keeps(c, after[n])
       /\ after[n].failed \/ Connected(after[n].streams, SubSeq(U, n + 1, n), W, C, R, H, G)
  <2>1. n \in 0..n
    BY <1>1
  <2>2. Follows(after, c)
    BY <1>9 DEF Follows
  <2>3. QED BY <1>0, <2>1, <2>2 DEF Followed
<1>11. SubSeq(U, n + 1, n) = <<>>
  BY <1>1, SubSeqEmpty
<1>12. QED BY <1>2, <1>10, <1>11

LEMMA ReceiveKeeps ==
  ASSUME NEW C, NEW R, NEW H, NEW G, Histories(C, R, H, G), NEW W, NEW c \in Connections,
         Connected(c.streams, c.up, W, C, R, H, G), NEW d, d = Receive(c)
  PROVE  /\ d \in Connections /\ d.down = c.down /\ d.output = c.output
         /\ \A s \in Ids : c.streams[s].there =>
                d.streams[s].there /\ d.streams[s].handler = c.streams[s].handler
         /\ d.failed \/ Connected(d.streams, d.up, W, C, R, H, G)
<1>1. CASE c.up = <<>>
  BY <1>1 DEF Receive
<1>2. CASE c.up # <<>>
  <2> DEFINE e == Received(c)
  <2>1. e \in Connections /\ Keeps(c, e) /\ (e.failed \/ Connected(e.streams, <<>>, W, C, R, H, G))
    BY AllReceived
  <2>2. d = [e EXCEPT !.up = <<>>, !.progress = TRUE]
    BY <1>2 DEF Receive
  <2> HIDE DEF e
  <2>3. <<>> \in Seq(Frames)
    OBVIOUS
  <2>4. d \in Connections /\ d.down = e.down /\ d.output = e.output /\ d.streams = e.streams
        /\ d.up = <<>> /\ d.failed = e.failed
    BY <2>1, <2>2, <2>3 DEF Connections
  <2>5. QED BY <2>1, <2>4 DEF Keeps
<1>3. QED BY <1>1, <1>2

-----------------------------------------------------------------------------
(* Frames that are sent                                                    *)

LEMMA OtherSending ==
  ASSUME NEW x \in Streams, NEW U, NEW W \in Seq(Answers), NEW f \in Answers, NEW s, f.s # s,
         NEW y, NEW n, NEW g, Sending(x, U, W, s, y, n, g)
  PROVE  Sending(x, U, Append(W, f), s, y, n, g)
<1> DEFINE V == Append(W, f)
<1>1. (Unsent(W, s, g) => Unsent(V, s, g)) /\ \A r : NextIs(W, s, n, g, r) => NextIs(V, s, n, g, r)
  BY OtherAnswer
<1> HIDE DEF V
<1>2. QED BY <1>1 DEF Sending, V

(* The next frame of a stream that can send.                               *)
LEMMA NextSending ==
  ASSUME NEW x \in Streams, x.pending \in {"head", "body"}, NEW U, NEW W \in Seq(Answers), NEW s \in Ids,
         NEW y, NEW rd, NEW n \in Bodies, NEW g \in Seq(Answers),
         Receiving(x, U, s, y, rd), Sending(x, U, W, s, y, n, g), Sequel(W, s, n, g),
         NEW f, f = Sends(x, s), NEW z, z = AfterSending(x)
  PROVE  /\ f \in Answers /\ f.s = s
         /\ z \in Streams /\ z.there = x.there /\ z.handler = x.handler
         /\ Receiving(z, U, s, y, rd) /\ Sending(z, U, Append(W, f), s, y, n, g)
         /\ Sequel(Append(W, f), s, n, g)
<1> DEFINE V == Append(W, f)
           Keep(w) == /\ w \in Streams /\ w.there = x.there /\ w.buffer = x.buffer /\ w.handler = x.handler
                      /\ w.submitted = x.submitted /\ w.deferred = x.deferred /\ (x.closed => w.closed)
<1>1. x.there /\ x.submitted /\ ~Announced(U, s) /\ y.state # "idle" /\ x.left \in Bodies
  <2>1. x.there
    BY NoStreamType DEF Receiving
  <2>2. x.submitted
    BY DEF Sending
  <2>3. QED BY <2>1, <2>2 DEF Receiving, Streams
<1>2. ASSUME NEW w, Keep(w)
      PROVE  Receiving(w, U, s, y, rd)
  BY <1>1, <1>2 DEF Receiving, Taken
<1>3. ASSUME NEW w, Keep(w), w.pending = "no" \/ (w.pending = "body" /\ w.left \in 0..n /\ NextIs(V, s, n, g, n - w.left + 2)),
             x.deferred => w.closed
      PROVE  Sending(w, U, V, s, y, n, g)
  BY <1>1, <1>3 DEF Sending
<1>4. x.deferred => x.closed
  BY DEF Sending
<1> DEFINE shut == OnStreamClose(x)
           mute == [x EXCEPT !.pending = "no"]
<1>5. Keep(shut) /\ shut.pending = "no" /\ shut.closed /\ Keep(mute) /\ mute.pending = "no" /\ mute.closed = x.closed
  BY DEF OnStreamClose, Streams
<1> HIDE DEF shut, mute
<1>6. ASSUME f \in Answers, f.s = s, Fits(n, f), NextIs(W, s, n, g, Rank(n, f))
      PROVE  Sequel(V, s, n, g) /\ NextIs(V, s, n, g, Rank(n, f) + 1)
  BY <1>6, NextAnswer
<1>7. \A t \in {"head", "head_end", "data", "end"}, m \in Nat :
        Frame(s, t, m) \in Answers /\ Frame(s, t, m).s = s /\ Frame(s, t, m).t = t /\ Frame(s, t, m).n = m
  BY DEF Frame, Answers
<1> HIDE DEF V, Keep
<1>8. CASE x.pending = "head"
  <2>1. NextIs(W, s, n, g, 1) /\ x.left = n
    BY <1>8, UnsentIsNext DEF Sending
  <2>2. CASE n = NoBody
    <3>1. f = Frame(s, "head_end", 0)
      BY <1>8, <2>1, <2>2 DEF Sends
    <3>2. f \in Answers /\ f.s = s /\ Fits(n, f) /\ Rank(n, f) = 1
      BY <1>7, <2>2, <3>1 DEF Fits, Rank
    <3>3. z = shut \/ z = mute
      BY <1>8, <2>1, <2>2 DEF AfterSending, shut, mute
    <3>4. Sequel(V, s, n, g)
      BY <1>6, <2>1, <3>2
    <3>5. QED BY <1>2, <1>3, <1>4, <1>5, <3>2, <3>3, <3>4 DEF Keep, V
  <2>3. CASE n # NoBody
    <3>1. f = Frame(s, "head", 0) /\ z = [x EXCEPT !.pending = "body"]
      BY <1>8, <2>1, <2>3 DEF Sends, AfterSending
    <3>2. f \in Answers /\ f.s = s /\ Fits(n, f) /\ Rank(n, f) = 1
      BY <1>7, <2>3, <3>1 DEF Fits, Rank
    <3>3. Sequel(V, s, n, g) /\ NextIs(V, s, n, g, 2)
      BY <1>6, <2>1, <3>2
    <3>4. Keep(z) /\ z.pending = "body" /\ z.left = n /\ z.closed = x.closed
      BY <2>1, <3>1 DEF Keep, Streams
    <3>5. n \in 0..n /\ n - n + 2 = 2
      BY <2>3 DEF Bodies, NoBody
    <3>6. QED BY <1>2, <1>3, <1>4, <3>2, <3>3, <3>4, <3>5 DEF Keep, V
  <2>4. QED BY <2>2, <2>3
<1>9. CASE x.pending = "body"
  <2>1. x.left \in 0..n /\ NextIs(W, s, n, g, n - x.left + 2)
    BY <1>9 DEF Sending
  <2>2. n \in Nat /\ n # NoBody
    BY <2>1 DEF Bodies, NoBody
  <2>3. CASE x.left = 0
    <3>1. f = Frame(s, "end", 0)
      BY <1>9, <2>3 DEF Sends
    <3>2. f \in Answers /\ f.s = s /\ Fits(n, f) /\ Rank(n, f) = n - x.left + 2
      BY <1>7, <2>2, <2>3, <3>1 DEF Fits, Rank
    <3>3. z = shut \/ z = mute
      BY <1>9, <2>3 DEF AfterSending, shut, mute
    <3>4. Sequel(V, s, n, g)
      BY <1>6, <2>1, <3>2
    <3>5. QED BY <1>2, <1>3, <1>4, <1>5, <3>2, <3>3, <3>4 DEF Keep, V
  <2>4. CASE x.left > 0
    <3>0. x.left \in Nat
      BY <2>1
    <3>1. f = Frame(s, "data", x.left) /\ z = [x EXCEPT !.left = x.left - 1, !.ready = x.ready - 1]
      BY <1>9, <2>4, <3>0 DEF Sends, AfterSending
    <3>2. f \in Answers /\ f.s = s /\ f.t = "data" /\ f.n = x.left
      BY <1>7, <3>0, <3>1
    <3>3. Fits(n, f) /\ Rank(n, f) = n - x.left + 2
      BY <2>1, <2>2, <2>4, <3>2 DEF Fits, Rank
    <3>4. Sequel(V, s, n, g) /\ NextIs(V, s, n, g, (n - x.left + 2) + 1)
      BY <1>6, <2>1, <3>2, <3>3
    <3>5. x.left - 1 \in 0..n /\ (n - x.left + 2) + 1 = n - (x.left - 1) + 2 /\ x.left - 1 \in Bodies
      BY <2>1, <2>2, <2>4 DEF Bodies
    <3>6. Keep(z) /\ z.pending = "body" /\ z.left = x.left - 1 /\ z.closed = x.closed
      <4>1. x.ready - 1 \in Int
        BY DEF Streams
      <4>2. QED BY <1>9, <3>1, <3>5, <4>1 DEF Keep, Streams
    <3>7. NextIs(V, s, n, g, n - z.left + 2) /\ z.left \in 0..n
      BY <3>4, <3>5, <3>6
    <3>8. QED BY <1>2, <1>3, <1>4, <3>2, <3>4, <3>6, <3>7 DEF Keep, V
  <2>5. QED BY <2>1, <2>3, <2>4
<1>10. QED BY <1>8, <1>9

(* A connection in the middle of a pass.                                   *)
Sound(c, C, R, H, G) ==
  /\ c \in Connections /\ Answering(OnWay(c), H, G)
  /\ Connected(c.streams, c.up, OnWay(c), C, R, H, G)
(* What the handlers have of its streams.                                  *)
SameHandlers(S, T) == \A s \in Ids : T[s].there = S[s].there /\ T[s].handler = S[s].handler

LEMMA OnWayType ==
  ASSUME NEW c \in Connections
  PROVE  OnWay(c) \in Seq(Answers) /\ (c.output = <<>> => OnWay(c) = c.down)
<1>1. c.down \in Seq(Answers) /\ c.output \in Seq(Answers)
  <2>1. \A f \in Answers : <<f>> \in Seq(Answers)
    OBVIOUS
  <2>2. \A o \in Outputs : o = <<>> \/ \E f \in Answers : o = <<f>>
    BY DEF Outputs
  <2>3. \A o \in Outputs : o \in Seq(Answers)
    <3> SUFFICES ASSUME NEW o \in Outputs PROVE o \in Seq(Answers)
      OBVIOUS
    <3>1. CASE o = <<>>
      BY <3>1
    <3>2. CASE \E f \in Answers : o = <<f>>
      BY <2>1, <3>2
    <3>3. QED BY <2>2, <3>1, <3>2
  <2>4. QED BY <2>3 DEF Connections
<1>2. QED BY <1>1, ConcatProperties, ConcatEmptySeq DEF OnWay

(* Streams change one by one and nothing else does.                        *)
LEMMA StreamsChanged ==
  ASSUME NEW C, NEW R, NEW H, NEW G, NEW c, Sound(c, C, R, H, G),
         NEW T \in [Ids -> Streams], NEW d, d = [c EXCEPT !.streams = T],
         \A s \in Ids : Receiving(T[s], c.up, s, C[s], R[s]) /\ Sending(T[s], c.up, OnWay(c), s, C[s], H[s], G[s])
  PROVE  /\ Sound(d, C, R, H, G) /\ d.streams = T /\ d.up = c.up /\ d.down = c.down /\ d.output = c.output
         /\ d.failed = c.failed /\ d.session = c.session /\ d.progress = c.progress /\ OnWay(d) = OnWay(c)
<1>1. /\ d \in Connections /\ d.streams = T /\ d.up = c.up /\ d.down = c.down /\ d.output = c.output
      /\ d.failed = c.failed /\ d.session = c.session /\ d.progress = c.progress
  BY DEF Sound, Connections
<1>2. OnWay(d) = OnWay(c)
  BY <1>1 DEF OnWay
<1>3. QED BY <1>1, <1>2 DEF Sound, Connected

LEMMA DeferredKeeps ==
  ASSUME NEW C, NEW R, NEW H, NEW G, NEW c, Sound(c, C, R, H, G), NEW d, d = Deferred(c)
  PROVE  /\ Sound(d, C, R, H, G) /\ SameHandlers(c.streams, d.streams) /\ d.up = c.up /\ d.down = c.down
         /\ d.output = c.output /\ d.failed = c.failed /\ d.session = c.session
<1> DEFINE After(x) == IF x.pending = "body" /\ x.left > 0 /\ x.ready = 0
                       THEN [x EXCEPT !.deferred = TRUE, !.pending = "deferred"] ELSE x
           T == [s \in Ids |-> After(c.streams[s])]
<1>1. ASSUME NEW x \in Streams, NEW U, NEW W, NEW s, NEW y, NEW rd, NEW n, NEW g,
             Receiving(x, U, s, y, rd), Sending(x, U, W, s, y, n, g)
      PROVE  /\ After(x) \in Streams /\ After(x).there = x.there /\ After(x).handler = x.handler
             /\ Receiving(After(x), U, s, y, rd) /\ Sending(After(x), U, W, s, y, n, g)
  <2>1. CASE x.pending = "body" /\ x.left > 0 /\ x.ready = 0
    <3> DEFINE z == [x EXCEPT !.deferred = TRUE, !.pending = "deferred"]
    <3>1. /\ z \in Streams /\ z.there = x.there /\ z.handler = x.handler /\ z.buffer = x.buffer
          /\ z.submitted = x.submitted /\ z.left = x.left /\ z.closed = x.closed /\ z.deferred
          /\ z.pending = "deferred"
      BY DEF Streams
    <3>2. After(x) = z
      BY <2>1
    <3> HIDE DEF z, After
    <3>3. x.there /\ x.submitted
      BY <1>1, <2>1, NoStreamType DEF Receiving, Sending
    <3>4. Receiving(z, U, s, y, rd)
      BY <1>1, <3>1, <3>3 DEF Receiving, Taken
    <3>5. Sending(z, U, W, s, y, n, g)
      BY <1>1, <2>1, <3>1, <3>3 DEF Sending
    <3>6. QED BY <3>1, <3>2, <3>4, <3>5
  <2>2. CASE ~(x.pending = "body" /\ x.left > 0 /\ x.ready = 0)
    <3>1. After(x) = x
      BY <2>2
    <3>2. QED BY <1>1, <3>1
  <2>3. QED BY <2>1, <2>2
<1>2. d = [c EXCEPT !.streams = T]
  BY DEF Deferred
<1> HIDE DEF After
<1>3. \A s \in Ids : /\ c.streams[s] \in Streams /\ Receiving(c.streams[s], c.up, s, C[s], R[s])
                     /\ Sending(c.streams[s], c.up, OnWay(c), s, C[s], H[s], G[s])
  BY DEF Sound, Connections, Connected
<1>4. \A s \in Ids : /\ T[s] \in Streams /\ T[s].there = c.streams[s].there /\ T[s].handler = c.streams[s].handler
                     /\ Receiving(T[s], c.up, s, C[s], R[s]) /\ Sending(T[s], c.up, OnWay(c), s, C[s], H[s], G[s])
  BY <1>1, <1>3
<1>5. T \in [Ids -> Streams]
  BY <1>4
<1> HIDE DEF T
<1>6. QED BY <1>2, <1>4, <1>5, StreamsChanged DEF SameHandlers

LEMMA ResumeKeeps ==
  ASSUME NEW C, NEW R, NEW H, NEW G, NEW c, Sound(c, C, R, H, G),
         \A s \in Ids : c.streams[s].closed => ~c.streams[s].submitted,
         NEW d, d = ResumeDeferredBodies(c)
  PROVE  /\ Sound(d, C, R, H, G) /\ SameHandlers(c.streams, d.streams) /\ d.up = c.up
         /\ d.failed = c.failed
<1> DEFINE Ready(x) == x.deferred /\ x.left # NoBody /\ (x.ready > 0 \/ x.left = 0)
           After(x) == IF Ready(x) THEN [x EXCEPT !.deferred = FALSE, !.pending = "body"] ELSE x
           T == [s \in Ids |-> After(c.streams[s])]
<1>1. ASSUME NEW x \in Streams, NEW U, NEW W, NEW s, NEW y, NEW rd, NEW n, NEW g, x.closed => ~x.submitted,
             Receiving(x, U, s, y, rd), Sending(x, U, W, s, y, n, g)
      PROVE  /\ After(x) \in Streams /\ After(x).there = x.there /\ After(x).handler = x.handler
             /\ Receiving(After(x), U, s, y, rd) /\ Sending(After(x), U, W, s, y, n, g)
  <2>1. CASE Ready(x)
    <3> DEFINE z == [x EXCEPT !.deferred = FALSE, !.pending = "body"]
    <3>1. /\ z \in Streams /\ z.there = x.there /\ z.handler = x.handler /\ z.buffer = x.buffer
          /\ z.submitted = x.submitted /\ z.left = x.left /\ z.closed = x.closed /\ ~z.deferred
          /\ z.pending = "body"
      BY DEF Streams
    <3>2. After(x) = z /\ x.deferred
      BY <2>1
    <3> HIDE DEF z, After, Ready
    <3>3. x.submitted /\ ~x.closed /\ x.pending = "deferred"
      BY <1>1, <3>2 DEF Sending
    <3>4. x.there
      BY <1>1, <3>3, NoStreamType DEF Receiving
    <3>5. Receiving(z, U, s, y, rd)
      BY <1>1, <3>1, <3>4 DEF Receiving, Taken
    <3>6. Sending(z, U, W, s, y, n, g)
      BY <1>1, <3>1, <3>3 DEF Sending
    <3>7. QED BY <3>1, <3>2, <3>5, <3>6
  <2>2. CASE ~Ready(x)
    <3>1. After(x) = x
      BY <2>2
    <3>2. QED BY <1>1, <3>1
  <2>3. QED BY <2>1, <2>2
<1>2. d = [c EXCEPT !.streams = T]
  BY DEF ResumeDeferredBodies
<1> HIDE DEF After, Ready
<1>3. \A s \in Ids : /\ c.streams[s] \in Streams /\ Receiving(c.streams[s], c.up, s, C[s], R[s])
                     /\ Sending(c.streams[s], c.up, OnWay(c), s, C[s], H[s], G[s])
  BY DEF Sound, Connections, Connected
<1>4. \A s \in Ids : /\ T[s] \in Streams /\ T[s].there = c.streams[s].there /\ T[s].handler = c.streams[s].handler
                     /\ Receiving(T[s], c.up, s, C[s], R[s]) /\ Sending(T[s], c.up, OnWay(c), s, C[s], H[s], G[s])
  BY <1>1, <1>3
<1>5. T \in [Ids -> Streams]
  BY <1>4
<1> HIDE DEF T
<1>6. QED BY <1>2, <1>4, <1>5, StreamsChanged DEF SameHandlers

(* What nghttp2 gives is behind what is on its way already.                *)
LEMMA Flushed ==
  ASSUME NEW C, NEW R, NEW H, NEW G, Histories(C, R, H, G), NEW d, Sound(d, C, R, H, G), d.output = <<>>,
         NEW f \in Answers, NEW T \in [Ids -> Streams], NEW e \in Connections,
         e.streams = T, e.up = d.up, e.down = d.down, e.output = <<f>>,
         \A s \in Ids : /\ Receiving(T[s], d.up, s, C[s], R[s])
                        /\ Sending(T[s], d.up, Append(d.down, f), s, C[s], H[s], G[s])
                        /\ Sequel(Append(d.down, f), s, H[s], G[s])
  PROVE  Sound(e, C, R, H, G)
<1>1. d.down \in Seq(Answers)
  BY DEF Sound, Connections
<1>2. OnWay(e) = Append(d.down, f)
  BY <1>1 DEF OnWay
<1>3. QED BY <1>2 DEF Sound, Answering, Connected

LEMMA MemSendKeeps ==
  ASSUME NEW C, NEW R, NEW H, NEW G, Histories(C, R, H, G), NEW c, Sound(c, C, R, H, G), c.output = <<>>,
         NEW e \in MemSend(c)
  PROVE  /\ Sound(e, C, R, H, G) /\ SameHandlers(c.streams, e.streams) /\ e.up = c.up
         /\ e.failed = c.failed
<1> DEFINE d == Deferred(c)
           W == d.down
           S == d.streams
<1>1. /\ Sound(d, C, R, H, G) /\ SameHandlers(c.streams, S) /\ d.up = c.up
      /\ d.output = <<>> /\ d.failed = c.failed /\ d.session = c.session
  BY DeferredKeeps
<1>2. /\ d \in Connections /\ S \in [Ids -> Streams] /\ W \in Seq(Answers) /\ OnWay(d) = W
      /\ c.session \in [alive : BOOLEAN, consumed : Nat]
  BY <1>1, OnWayType DEF Sound, Connections
<1>3. /\ InOrder(d.up, C)
      /\ \A s \in Ids : /\ S[s] \in Streams /\ Receiving(S[s], d.up, s, C[s], R[s])
                         /\ Sending(S[s], d.up, W, s, C[s], H[s], G[s]) /\ Sequel(W, s, H[s], G[s])
                         /\ H[s] \in Bodies /\ G[s] \in Seq(Answers)
  BY <1>1, <1>2 DEF Sound, Connected, Answering, Histories
<1>4. \/ e = d
      \/ \E s \in Ids : /\ S[s].pending \in {"head", "body"}
                        /\ e = [SetStream(d, s, AfterSending(S[s])) EXCEPT !.output = <<Sends(S[s], s)>>]
      \/ e = [d EXCEPT !.session.consumed = 0, !.output = <<Frame(0, "window", c.session.consumed)>>]
  BY <1>1 DEF MemSend
<1> HIDE DEF d, W, S
<1>5. CASE e = d
  BY <1>1, <1>5 DEF S
<1>6. ASSUME NEW s \in Ids, S[s].pending \in {"head", "body"},
             e = [SetStream(d, s, AfterSending(S[s])) EXCEPT !.output = <<Sends(S[s], s)>>]
      PROVE  /\ Sound(e, C, R, H, G) /\ SameHandlers(c.streams, e.streams) /\ e.up = c.up
             /\ e.failed = c.failed
  <2> DEFINE f == Sends(S[s], s)
             z == AfterSending(S[s])
             T == [S EXCEPT ![s] = z]
  <2>1. /\ f \in Answers /\ f.s = s /\ z \in Streams /\ z.there = S[s].there /\ z.handler = S[s].handler
        /\ Receiving(z, d.up, s, C[s], R[s]) /\ Sending(z, d.up, Append(W, f), s, C[s], H[s], G[s])
        /\ Sequel(Append(W, f), s, H[s], G[s])
    BY <1>2, <1>3, <1>6, NextSending
  <2>2. e = [d EXCEPT !.streams = T, !.output = <<f>>]
    BY <1>2, <1>6 DEF SetStream, S, Connections
  <2> HIDE DEF f, z
  <2>3. T \in [Ids -> Streams] /\ T[s] = z /\ \A r \in Ids : r # s => T[r] = S[r]
    BY <1>2, <2>1
  <2> HIDE DEF T
  <2>4. <<f>> \in Outputs
    BY <2>1 DEF Outputs
  <2>5. /\ e \in Connections /\ e.streams = T /\ e.up = d.up /\ e.down = W /\ e.output = <<f>>
        /\ e.failed = d.failed
    BY <1>2, <2>2, <2>3, <2>4 DEF Connections, W
  <2>6. ASSUME NEW r \in Ids
        PROVE  /\ Receiving(T[r], d.up, r, C[r], R[r])
               /\ Sending(T[r], d.up, Append(W, f), r, C[r], H[r], G[r])
               /\ Sequel(Append(W, f), r, H[r], G[r])
    <3>1. CASE r = s
      BY <2>1, <2>3, <3>1
    <3>2. CASE r # s
      <4>1. T[r] = S[r] /\ f.s # r
        BY <2>1, <2>3, <3>2
      <4>2. Sending(S[r], d.up, Append(W, f), r, C[r], H[r], G[r])
        BY <1>2, <1>3, <2>1, <4>1, OtherSending
      <4>3. Sequel(Append(W, f), r, H[r], G[r])
        BY <1>2, <1>3, <2>1, <4>1, OtherAnswer
      <4>4. QED BY <1>3, <4>1, <4>2, <4>3
    <3>3. QED BY <3>1, <3>2
  <2>7. Sound(e, C, R, H, G)
    BY <1>1, <2>1, <2>3, <2>5, <2>6, Flushed DEF W
  <2>8. SameHandlers(c.streams, T)
    BY <1>1, <2>1, <2>3 DEF SameHandlers
  <2>9. QED BY <1>1, <2>5, <2>7, <2>8
<1>7. CASE e = [d EXCEPT !.session.consumed = 0, !.output = <<Frame(0, "window", c.session.consumed)>>]
  <2> DEFINE f == Frame(0, "window", c.session.consumed)
             v == [d.session EXCEPT !.consumed = 0]
  <2>1. f \in Answers /\ f.s = 0
    BY <1>2 DEF Frame, Answers
  <2>2. v \in [alive : BOOLEAN, consumed : Nat]
    BY <1>1, <1>2
  <2>3. e = [d EXCEPT !.session = v, !.output = <<f>>]
    BY <1>2, <1>7 DEF Connections
  <2> HIDE DEF f, v
  <2>4. <<f>> \in Outputs
    BY <2>1 DEF Outputs
  <2>5. /\ e \in Connections /\ e.streams = S /\ e.up = d.up /\ e.down = W /\ e.output = <<f>>
        /\ e.failed = d.failed
    BY <1>2, <2>2, <2>3, <2>4 DEF Connections, S, W
  <2>6. ASSUME NEW r \in Ids
        PROVE  /\ Receiving(S[r], d.up, r, C[r], R[r])
               /\ Sending(S[r], d.up, Append(W, f), r, C[r], H[r], G[r])
               /\ Sequel(Append(W, f), r, H[r], G[r])
    <3>1. f.s # r
      BY <2>1 DEF Ids
    <3>2. Sending(S[r], d.up, Append(W, f), r, C[r], H[r], G[r])
      BY <1>2, <1>3, <2>1, <3>1, OtherSending
    <3>3. Sequel(Append(W, f), r, H[r], G[r])
      BY <1>2, <1>3, <2>1, <3>1, OtherAnswer
    <3>4. QED BY <1>3, <3>2, <3>3
  <2>7. Sound(e, C, R, H, G)
    BY <1>1, <1>2, <2>1, <2>5, <2>6, Flushed DEF W
  <2>8. QED BY <1>1, <2>5, <2>7
<1>8. QED BY <1>4, <1>5, <1>6, <1>7

LEMMA FlushKeeps ==
  ASSUME NEW C, NEW R, NEW H, NEW G, Histories(C, R, H, G), NEW c, Sound(c, C, R, H, G),
         NEW e \in FlushOutput(c)
  PROVE  /\ Sound(e, C, R, H, G) /\ SameHandlers(c.streams, e.streams) /\ e.up = c.up
         /\ e.failed = c.failed
<1>1. PICK d \in IF c.output = <<>> THEN MemSend(c) ELSE {c} :
        e = IF d.output # <<>> /\ Len(d.down) < Room
            THEN [d EXCEPT !.down = @ \o d.output, !.output = <<>>, !.progress = TRUE] ELSE d
  BY DEF FlushOutput
<1>2. Sound(d, C, R, H, G) /\ SameHandlers(c.streams, d.streams) /\ d.up = c.up /\ d.failed = c.failed
  <2>1. CASE c.output = <<>>
    BY <2>1, MemSendKeeps
  <2>2. CASE c.output # <<>>
    BY <2>2 DEF SameHandlers
  <2>3. QED BY <2>1, <2>2
<1>3. CASE e = d
  BY <1>2, <1>3
<1>4. CASE e = [d EXCEPT !.down = @ \o d.output, !.output = <<>>, !.progress = TRUE]
  <2>1. d \in Connections /\ OnWay(d) \in Seq(Answers)
    BY <1>2, OnWayType DEF Sound
  <2>2. e = [d EXCEPT !.down = OnWay(d), !.output = <<>>, !.progress = TRUE]
    BY <1>4, <2>1 DEF OnWay, Connections
  <2>3. <<>> \in Outputs
    BY DEF Outputs
  <2>4. /\ e \in Connections /\ e.streams = d.streams /\ e.up = d.up /\ e.down = OnWay(d) /\ e.output = <<>>
        /\ e.failed = d.failed
    BY <2>1, <2>2, <2>3 DEF Connections
  <2>5. OnWay(e) = OnWay(d)
    BY <2>4, OnWayType
  <2>6. QED BY <1>2, <2>4, <2>5 DEF Sound
<1>5. QED BY <1>1, <1>3, <1>4

(* What was given and not taken is dropped.                                *)
LEMMA Shorter ==
  ASSUME NEW W \in Seq(Answers), NEW f \in Answers, NEW s, NEW n \in Bodies, NEW g \in Seq(Answers),
         Sequel(Append(W, f), s, n, g)
  PROVE  Sequel(W, s, n, g)
<1> DEFINE V == Append(W, f)
           p == Rank(n, f)
<1>1. /\ Len(V) = Len(W) + 1 /\ Len(W) \in Nat /\ (\A i \in 1..Len(W) : V[i] = W[i]) /\ V[Len(W) + 1] = f
      /\ 1..(Len(W) + 1) = 1..Len(W) \cup {Len(W) + 1} /\ \A i \in 1..Len(W) : W[i] \in Answers
  BY Appended
<1>2. Places(V, s, n) = Places(W, s, n) \cup (IF f.s = s THEN {p} ELSE {})
  BY OneMoreAnswer
<1> HIDE DEF V, p, Answers
<1>3. PICK r \in Nat : Places(V, s, n) = Len(g) + 1 .. r
  BY DEF Sequel, V
<1>4. \A i \in 1..Len(W) : i \in 1..Len(V) /\ i < Len(W) + 1
  BY <1>1
<1>5. \E q \in Nat : Places(W, s, n) = Len(g) + 1 .. q
  <2>1. CASE f.s # s
    BY <1>2, <1>3, <2>1
  <2>2. CASE f.s = s
    <3>1. \A i \in 1..Len(W) : W[i].s = s => Rank(n, W[i]) < p
      BY <1>1, <1>4, <2>2 DEF Sequel, V, p
    <3>2. \A i \in 1..Len(W) : W[i].s = s => Rank(n, W[i]) \in Int
      BY <1>1, RankType
    <3>3. \A q \in Places(W, s, n) : q < p /\ q \in Int
      BY <3>1, <3>2 DEF Places
    <3>4. p \in Int /\ p \in Len(g) + 1 .. r /\ Len(g) \in Nat
      BY <1>2, <1>3, <2>2, RankType DEF p
    <3>5. \A q : q \in Places(W, s, n) => q \in Len(g) + 1 .. p - 1
      BY <1>2, <1>3, <3>3, <3>4
    <3>6. \A q : q \in Len(g) + 1 .. p - 1 => q \in Places(W, s, n)
      <4>1. \A q : q \in Len(g) + 1 .. p - 1 => q \in Len(g) + 1 .. r /\ q # p
        BY <3>4
      <4>2. QED BY <1>2, <1>3, <4>1
    <3>7. Places(W, s, n) = Len(g) + 1 .. p - 1
      BY <3>5, <3>6
    <3>8. p - 1 \in Nat
      BY <3>4
    <3>9. QED BY <3>7, <3>8
  <2>3. QED BY <2>1, <2>2
<1>6. QED BY <1>1, <1>4, <1>5 DEF Sequel, V

LEMMA Dropped ==
  ASSUME NEW C, NEW R, NEW H, NEW G, Histories(C, R, H, G), NEW c \in Connections, Answering(OnWay(c), H, G)
  PROVE  Answering(c.down, H, G)
<1>1. c.down \in Seq(Answers) /\ c.output \in Outputs
  BY DEF Connections
<1>2. CASE c.output = <<>>
  BY <1>2, OnWayType
<1>3. CASE c.output # <<>>
  <2>1. PICK f \in Answers : c.output = <<f>>
    BY <1>1, <1>3 DEF Outputs
  <2>2. OnWay(c) = Append(c.down, f)
    BY <1>1, <2>1 DEF OnWay
  <2>3. \A s \in Ids : H[s] \in Bodies /\ G[s] \in Seq(Answers) /\ Sequel(Append(c.down, f), s, H[s], G[s])
    BY <2>2 DEF Histories, Answering
  <2>4. \A s \in Ids : Sequel(c.down, s, H[s], G[s])
    BY <1>1, <2>3, Shorter
  <2>5. QED BY <2>4 DEF Answering
<1>4. QED BY <1>2, <1>3

(* The streams that are over are removed; of those that stay a closed one  *)
(* still has its handler.                                                  *)
LEMMA CleanupKeeps ==
  ASSUME NEW C, NEW R, NEW H, NEW G, Histories(C, R, H, G), NEW c, Sound(c, C, R, H, G),
         NEW d, d = CleanupStreams(c)
  PROVE  /\ Sound(d, C, R, H, G)
         /\ \A s \in Ids : d.streams[s].closed => ~d.streams[s].submitted
         /\ \A s \in Ids : c.streams[s].handler \in {"ready", "reading"} /\ c.streams[s].there => d.streams[s].there
<1> DEFINE Over(x) == x.closed /\ x.handler \in {"none", "over"}
           After(x) == IF Over(x) THEN NoStream ELSE x
           T == [s \in Ids |-> After(c.streams[s])]
<1>1. ASSUME NEW x \in Streams, NEW U, NEW W, NEW s, NEW y, NEW rd \in Nat, rd <= y.sent, NEW n, NEW g,
             Receiving(x, U, s, y, rd), Sending(x, U, W, s, y, n, g)
      PROVE  /\ After(x) \in Streams /\ (After(x).closed => ~After(x).submitted)
             /\ x.handler \in {"ready", "reading"} /\ x.there => After(x).there
             /\ Receiving(After(x), U, s, y, rd) /\ Sending(After(x), U, W, s, y, n, g)
  <2>1. CASE Over(x)
    <3>1. After(x) = NoStream /\ x.closed /\ x.handler \notin {"ready", "reading"}
      BY <2>1
    <3>2. x.there /\ ~Announced(U, s) /\ y.state # "idle"
      BY <1>1, <3>1, NoStreamType DEF Receiving
    <3>3. Taken(NoStream, rd) = rd
      BY NoStreamType DEF Taken
    <3>4. NoStream.buffer = <<>> /\ Len(<<>>) = 0 /\ \A j \in 1..0 : FALSE
      BY NoStreamType
    <3>5. \A m \in Numbered(U, s) : m <= y.sent
      BY <1>1 DEF Receiving
    <3>6. Receiving(NoStream, U, s, y, rd)
      BY <1>1, <3>2, <3>3, <3>4, <3>5, NoStreamType DEF Receiving
    <3>7. Sending(NoStream, U, W, s, y, n, g)
      BY <3>2, NoStreamType DEF Sending
    <3>8. QED BY <3>1, <3>6, <3>7, NoStreamType
  <2>2. CASE ~Over(x)
    <3>1. After(x) = x /\ (x.closed => x.handler \in {"ready", "reading"})
      BY <2>2 DEF Streams
    <3>2. x.closed => ~x.submitted
      BY <1>1, <3>1 DEF Sending
    <3> HIDE DEF After
    <3>3. QED BY <1>1, <3>1, <3>2
  <2>3. QED BY <2>1, <2>2
<1>2. d = [c EXCEPT !.streams = T]
  BY DEF CleanupStreams
<1> HIDE DEF After, Over
<1>3. \A s \in Ids : /\ c.streams[s] \in Streams /\ Receiving(c.streams[s], c.up, s, C[s], R[s])
                     /\ Sending(c.streams[s], c.up, OnWay(c), s, C[s], H[s], G[s])
                     /\ R[s] \in Nat /\ R[s] <= C[s].sent
  BY DEF Sound, Connections, Connected, Histories
<1>4. \A s \in Ids : /\ T[s] \in Streams /\ (T[s].closed => ~T[s].submitted)
                     /\ c.streams[s].handler \in {"ready", "reading"} /\ c.streams[s].there => T[s].there
                     /\ Receiving(T[s], c.up, s, C[s], R[s]) /\ Sending(T[s], c.up, OnWay(c), s, C[s], H[s], G[s])
  BY <1>1, <1>3
<1>5. T \in [Ids -> Streams]
  BY <1>4
<1> HIDE DEF T
<1>6. QED BY <1>2, <1>4, <1>5, StreamsChanged

-----------------------------------------------------------------------------
(* The passes                                                              *)

LEMMA InvSound ==
  ASSUME Http2Inv, run # "over"
  PROVE  Sound(Now, client, read, reply, got) /\ Now.streams = streams /\ Now.up = up /\ ~Now.failed
BY DEF Http2Inv, Sound, Now

(* A connection that is stored is the one of the next state.               *)
LEMMA Stored ==
  ASSUME NEW c \in Connections, Store(c)
  PROVE  /\ Now' \in Connections /\ Now'.streams = c.streams /\ Now'.up = c.up /\ OnWay(Now') = OnWay(c)
         /\ streams' = c.streams /\ up' = c.up /\ down' = c.down /\ output' = c.output
BY DEF Store, Now, OnWay, Connections

LEMMA OverStored ==
  ASSUME Http2Inv, NEW c \in Connections, Answering(OnWay(c), reply, got), TearDown(c),
         UNCHANGED <<client, read, reply, got>>
  PROVE  Http2Inv' /\ run' = "over"
<1> DEFINE z == [c EXCEPT !.session.alive = FALSE, !.output = <<>>, !.streams = [s \in Ids |-> NoStream]]
           T == [s \in Ids |-> NoStream]
           v == [c.session EXCEPT !.alive = FALSE]
<1>1. Store(z) /\ run' = "over"
  BY DEF TearDown
<1>2. T \in [Ids -> Streams]
  BY NoStreamType
<1>3. v \in [alive : BOOLEAN, consumed : Nat]
  <2>1. c.session \in [alive : BOOLEAN, consumed : Nat]
    BY DEF Connections
  <2>2. QED BY <2>1
<1>4. z = [c EXCEPT !.session = v, !.output = <<>>, !.streams = T]
  BY DEF Connections
<1> HIDE DEF z, v, T
<1>5. <<>> \in Outputs
  BY DEF Outputs
<1>6. z \in Connections /\ z.down = c.down /\ z.output = <<>>
  BY <1>2, <1>3, <1>4, <1>5 DEF Connections
<1>7. OnWay(z) = c.down
  BY <1>6, OnWayType
<1>8. Answering(c.down, reply, got)
  BY Dropped DEF Http2Inv
<1>9. Now' \in Connections /\ OnWay(Now') = c.down
  BY <1>1, <1>6, <1>7, Stored
<1>10. QED BY <1>1, <1>8, <1>9 DEF Http2Inv

LEMMA PassKeeps ==
  ASSUME Http2Inv, Pass
  PROVE  /\ Http2Inv'
         /\ \A s \in Ids : streams[s].handler \in {"ready", "reading"} => streams'[s].there \/ run' = "over"
<1>1. run # "over" /\ UNCHANGED <<client, read, reply, got>>
  BY DEF Pass, CanPass
<1> DEFINE b == ResumeDeferredBodies(Now)
<1>2. Histories(client, read, reply, got)
  BY DEF Http2Inv
<1>3. Sound(Now, client, read, reply, got) /\ Now.streams = streams /\ Now.up = up /\ ~Now.failed
  BY <1>1, InvSound
<1>4. Sound(b, client, read, reply, got) /\ SameHandlers(streams, b.streams) /\ ~b.failed
  <2>1. \A s \in Ids : Now.streams[s].closed => ~Now.streams[s].submitted
    BY <1>1, <1>3 DEF Http2Inv
  <2>2. QED BY <1>3, <2>1, ResumeKeeps
<1> HIDE DEF b
<1>5. PICK c \in FlushOutput(b) :
        IF c.up = <<>> /\ eof THEN TearDown(c)
        ELSE LET r == Receive(c) IN
             IF r.failed THEN TearDown(r)
             ELSE \E d \in FlushOutput(r) :
                    /\ Store(CleanupStreams(d))
                    /\ IF d.progress THEN run' = "run" /\ UNCHANGED wakeup
                                     ELSE run' = "wait" /\ wakeup' = FALSE
                    /\ UNCHANGED undefined
  BY DEF Pass, b
<1>6. Sound(c, client, read, reply, got) /\ SameHandlers(b.streams, c.streams)
  BY <1>2, <1>4, FlushKeeps
<1>7. ASSUME NEW e \in Connections, Answering(OnWay(e), reply, got), TearDown(e)
      PROVE  Http2Inv' /\ run' = "over"
  BY <1>1, <1>7, OverStored
<1>8. CASE c.up = <<>> /\ eof
  <2>1. TearDown(c)
    BY <1>5, <1>8
  <2>2. QED BY <1>6, <1>7, <2>1 DEF Sound
<1>9. CASE ~(c.up = <<>> /\ eof)
  <2> DEFINE r == Receive(c)
  <2>1. IF r.failed THEN TearDown(r)
        ELSE \E d \in FlushOutput(r) :
               /\ Store(CleanupStreams(d))
               /\ run' \in {"run", "wait"}
    BY <1>5, <1>9
  <2>2. /\ r \in Connections /\ r.down = c.down /\ r.output = c.output
        /\ \A s \in Ids : c.streams[s].there =>
               r.streams[s].there /\ r.streams[s].handler = c.streams[s].handler
        /\ r.failed \/ Connected(r.streams, r.up, OnWay(c), client, read, reply, got)
    BY <1>2, <1>6, ReceiveKeeps DEF Sound
  <2>3. OnWay(r) = OnWay(c)
    BY <2>2 DEF OnWay
  <2>4. Answering(OnWay(r), reply, got)
    BY <1>6, <2>3 DEF Sound
  <2> HIDE DEF r
  <2>5. CASE r.failed
    BY <1>7, <2>1, <2>2, <2>4, <2>5
  <2>6. CASE ~r.failed
    <3>1. PICK d \in FlushOutput(r) : Store(CleanupStreams(d)) /\ run' \in {"run", "wait"}
      BY <2>1, <2>6
    <3>2. Sound(r, client, read, reply, got)
      BY <2>2, <2>3, <2>4, <2>6 DEF Sound
    <3>3. Sound(d, client, read, reply, got) /\ SameHandlers(r.streams, d.streams)
      BY <1>2, <3>2, FlushKeeps
    <3> DEFINE e == CleanupStreams(d)
    <3>4. /\ Sound(e, client, read, reply, got)
          /\ \A s \in Ids : e.streams[s].closed => ~e.streams[s].submitted
          /\ \A s \in Ids : d.streams[s].handler \in {"ready", "reading"} /\ d.streams[s].there => e.streams[s].there
      BY <1>2, <3>3, CleanupKeeps
    <3>5. Store(e)
      BY <3>1
    <3> HIDE DEF e
    <3>6. /\ Now' \in Connections /\ OnWay(Now') = OnWay(e) /\ streams' = e.streams /\ up' = e.up
      BY <3>4, <3>5, Stored DEF Sound
    <3>7. Http2Inv'
      BY <1>1, <1>2, <3>1, <3>4, <3>6 DEF Http2Inv, Sound
    <3>8. ASSUME NEW s \in Ids, streams[s].handler \in {"ready", "reading"}
          PROVE  streams'[s].there
      <4>1. streams[s].there
        <5>1. Receiving(streams[s], up, s, client[s], read[s])
          BY <1>3 DEF Sound, Connected
        <5>2. QED BY <3>8, <5>1, NoStreamType DEF Receiving
      <4>2. c.streams[s].there /\ c.streams[s].handler = streams[s].handler
        BY <1>4, <1>6, <4>1 DEF SameHandlers
      <4>3. d.streams[s].there /\ d.streams[s].handler = streams[s].handler
        BY <2>2, <3>3, <4>2 DEF SameHandlers
      <4>4. QED BY <3>4, <3>6, <3>8, <4>3
    <3>9. QED BY <3>7, <3>8
  <2>7. QED BY <2>5, <2>6
<1>10. QED BY <1>8, <1>9

-----------------------------------------------------------------------------
(* The handlers                                                            *)

(* A handler changes its own stream, what was read of it and its answer.   *)
LEMMA OneHandler ==
  ASSUME Http2Inv, run = "wait", NEW s \in Ids, NEW z \in Streams, streams' = [streams EXCEPT ![s] = z],
         session' \in [alive : BOOLEAN, consumed : Nat],
         NEW rd \in Nat, read' = [read EXCEPT ![s] = rd], rd <= client[s].sent,
         NEW n \in Bodies, reply' = [reply EXCEPT ![s] = n],
         UNCHANGED <<run, output, up, down, client, got>>,
         Receiving(z, up, s, client[s], rd), Sending(z, up, OnWay(Now), s, client[s], n, got[s]),
         Sequel(OnWay(Now), s, n, got[s]), Had(n, got[s]), z.closed => ~z.submitted
  PROVE  Http2Inv'
<1>1. /\ Histories(client, read, reply, got) /\ Now \in Connections /\ Answering(OnWay(Now), reply, got)
      /\ Connected(streams, up, OnWay(Now), client, read, reply, got)
      /\ \A r \in Ids : streams[r].closed => ~streams[r].submitted
  BY DEF Http2Inv
<1>2. streams \in [Ids -> Streams] /\ read \in [Ids -> Nat] /\ reply \in [Ids -> Bodies]
  BY <1>1 DEF Now, Connections, Histories
<1>3. /\ streams' \in [Ids -> Streams] /\ streams'[s] = z /\ \A r \in Ids : r # s => streams'[r] = streams[r]
      /\ read' \in [Ids -> Nat] /\ read'[s] = rd /\ \A r \in Ids : r # s => read'[r] = read[r]
      /\ reply' \in [Ids -> Bodies] /\ reply'[s] = n /\ \A r \in Ids : r # s => reply'[r] = reply[r]
  BY <1>2
<1>4. Now' \in Connections /\ OnWay(Now') = OnWay(Now)
  BY <1>1, <1>3 DEF Now, Connections, OnWay
<1>5. Histories(client', read', reply', got')
  BY <1>1, <1>3 DEF Histories
<1>6. Answering(OnWay(Now'), reply', got')
  BY <1>1, <1>3, <1>4 DEF Answering
<1>7. Connected(streams', up', OnWay(Now'), client', read', reply', got')
  BY <1>1, <1>3, <1>4 DEF Connected
<1>8. \A r \in Ids : streams'[r].closed => ~streams'[r].submitted
  BY <1>1, <1>3
<1>9. QED BY <1>4, <1>5, <1>6, <1>7, <1>8 DEF Http2Inv

(* What is known of the stream of a handler that runs.                     *)
LEMMA HandlerRuns ==
  ASSUME Http2Inv, NEW s \in Ids, run = "wait"
  PROVE  /\ streams \in [Ids -> Streams] /\ streams[s] \in Streams
         /\ Receiving(streams[s], up, s, client[s], read[s])
         /\ Sending(streams[s], up, OnWay(Now), s, client[s], reply[s], got[s])
         /\ Sequel(OnWay(Now), s, reply[s], got[s]) /\ Had(reply[s], got[s])
         /\ read[s] \in Nat /\ read[s] <= client[s].sent /\ client[s] \in Sides /\ reply[s] \in Bodies
         /\ session \in [alive : BOOLEAN, consumed : Nat]
         /\ read = [read EXCEPT ![s] = read[s]] /\ reply = [reply EXCEPT ![s] = reply[s]]
         /\ (streams[s].closed => ~streams[s].submitted)
<1>1. /\ Histories(client, read, reply, got) /\ Now \in Connections /\ Answering(OnWay(Now), reply, got)
      /\ Connected(streams, up, OnWay(Now), client, read, reply, got)
      /\ (streams[s].closed => ~streams[s].submitted)
  BY DEF Http2Inv
<1>2. streams \in [Ids -> Streams] /\ session \in [alive : BOOLEAN, consumed : Nat]
  BY <1>1 DEF Now, Connections
<1>3. /\ read[s] \in Nat /\ read[s] <= client[s].sent /\ client[s] \in Sides /\ reply[s] \in Bodies
      /\ Had(reply[s], got[s]) /\ read = [read EXCEPT ![s] = read[s]] /\ reply = [reply EXCEPT ![s] = reply[s]]
  BY <1>1 DEF Histories
<1>4. QED BY <1>1, <1>2, <1>3 DEF Connected, Answering

(* A handler that has not returned has a stream that nothing was sent of.  *)
LEMMA Unanswered ==
  ASSUME NEW x \in Streams, x.handler \in {"ready", "reading"}, NEW U, NEW W, NEW s, NEW y, NEW rd, NEW n, NEW g,
         Receiving(x, U, s, y, rd), Sending(x, U, W, s, y, n, g)
  PROVE  /\ x.there /\ ~Announced(U, s) /\ y.state # "idle"
         /\ ~x.submitted /\ x.pending = "no" /\ ~x.deferred /\ Unsent(W, s, g)
<1>1. x.there
  BY NoStreamType DEF Receiving
<1>2. ~x.submitted
  BY DEF Sending
<1>3. QED BY <1>1, <1>2 DEF Receiving, Sending

LEMMA HandlerReadsKeeps ==
  ASSUME Http2Inv, NEW s \in Ids, HandlerReads(s)
  PROVE  Http2Inv'
<1> DEFINE x == streams[s]
           rd == read[s]
           W == OnWay(Now)
           z == [x EXCEPT !.buffer = Tail(@), !.handler = "reading"]
           v == [session EXCEPT !.consumed = @ + 1]
<1>1. /\ run = "wait" /\ x.handler \in {"ready", "reading"} /\ x.buffer # <<>>
      /\ streams' = [streams EXCEPT ![s].buffer = Tail(@), ![s].handler = "reading"]
      /\ session' = v
      /\ read' = [read EXCEPT ![s] = IF Head(x.buffer) = @ + 1 THEN @ + 1 ELSE 0 - 2]
      /\ UNCHANGED <<run, output, up, down, client, reply, got>>
  BY DEF HandlerReads, Runs, Read, socket
<1>2. /\ streams \in [Ids -> Streams] /\ x \in Streams
      /\ Receiving(x, up, s, client[s], rd)
      /\ Sending(x, up, W, s, client[s], reply[s], got[s])
      /\ Sequel(W, s, reply[s], got[s]) /\ Had(reply[s], got[s])
      /\ rd \in Nat /\ client[s] \in Sides /\ reply[s] \in Bodies
      /\ session \in [alive : BOOLEAN, consumed : Nat]
      /\ read = [read EXCEPT ![s] = rd] /\ reply = [reply EXCEPT ![s] = reply[s]]
  BY <1>1, HandlerRuns
<1>3. x.there /\ ~Announced(up, s) /\ ~x.submitted /\ x.pending = "no" /\ ~x.deferred /\ Unsent(W, s, got[s])
  BY <1>1, <1>2, Unanswered
<1>4. streams' = [streams EXCEPT ![s] = z]
  BY <1>1, <1>2
<1> HIDE DEF x, rd
<1>5. x.buffer \in Seq(Nat)
  BY <1>2 DEF Streams
<1>6. /\ Tail(x.buffer) \in Seq(Nat) /\ Len(Tail(x.buffer)) = Len(x.buffer) - 1 /\ Len(x.buffer) \in Nat \ {0}
      /\ \A i \in 1..Len(Tail(x.buffer)) : Tail(x.buffer)[i] = x.buffer[i + 1] /\ i + 1 \in 1..Len(x.buffer)
      /\ Head(x.buffer) = x.buffer[1] /\ 1 \in 1..Len(x.buffer)
  BY <1>1, <1>5, Rest
<1>7. /\ z \in Streams /\ z.there /\ z.buffer = Tail(x.buffer) /\ z.handler = "reading" /\ ~z.submitted
      /\ z.pending = "no" /\ ~z.deferred /\ z.closed = x.closed
  BY <1>2, <1>3, <1>6 DEF Streams
<1>8. v \in [alive : BOOLEAN, consumed : Nat]
  BY <1>2
<1> HIDE DEF z, v
<1>9. x.buffer[1] = rd + 1
  BY <1>2, <1>6 DEF Receiving
<1>10. read' = [read EXCEPT ![s] = rd + 1]
  BY <1>1, <1>6, <1>9 DEF rd
<1>11. Taken(z, rd + 1) = Taken(x, rd) /\ rd + 1 <= Taken(x, rd) /\ Taken(x, rd) \in Nat
  <2>1. Len(z.buffer) = Len(x.buffer) - 1 /\ Len(x.buffer) \in Nat \ {0}
    BY <1>6, <1>7
  <2>2. Taken(z, rd + 1) = (rd + 1) + Len(z.buffer) /\ Taken(x, rd) = rd + Len(x.buffer)
    BY DEF Taken
  <2>3. QED BY <1>2, <2>1, <2>2
<1>12. \A j \in 1..Len(z.buffer) : z.buffer[j] = (rd + 1) + j
  <2>1. \A j \in 1..Len(z.buffer) : z.buffer[j] = rd + (j + 1)
    BY <1>2, <1>6, <1>7 DEF Receiving
  <2>2. \A j \in 1..Len(z.buffer) : rd + (j + 1) = (rd + 1) + j
    BY <1>2
  <2>3. QED BY <2>1, <2>2
<1>13. Receiving(z, up, s, client[s], rd + 1)
  BY <1>2, <1>3, <1>7, <1>11, <1>12 DEF Receiving
<1>14. Sending(z, up, W, s, client[s], reply[s], got[s])
  BY <1>3, <1>7 DEF Sending
<1>15. rd + 1 <= client[s].sent /\ rd + 1 \in Nat
  <2>1. Taken(x, rd) <= client[s].sent /\ client[s].sent \in Nat
    BY <1>2 DEF Receiving, Sides
  <2>2. QED BY <1>2, <1>11, <2>1
<1>16. reply' = [reply EXCEPT ![s] = reply[s]]
  BY <1>1, <1>2
<1>17. QED BY <1>1, <1>2, <1>4, <1>7, <1>8, <1>10, <1>13, <1>14, <1>15, <1>16, OneHandler

LEMMA HandlerWaitsKeeps ==
  ASSUME Http2Inv, NEW s \in Ids, HandlerWaits(s)
  PROVE  Http2Inv'
<1> DEFINE x == streams[s]
           W == OnWay(Now)
           z == [x EXCEPT !.handler = "reading"]
<1>1. /\ run = "wait" /\ x.handler \in {"ready", "reading"}
      /\ streams' = [streams EXCEPT ![s].handler = "reading"]
      /\ UNCHANGED <<session, run, output, up, down, client, read, reply, got>>
  BY DEF HandlerWaits, Runs, socket, history
<1>2. /\ streams \in [Ids -> Streams] /\ x \in Streams
      /\ Receiving(x, up, s, client[s], read[s])
      /\ Sending(x, up, W, s, client[s], reply[s], got[s])
      /\ Sequel(W, s, reply[s], got[s]) /\ Had(reply[s], got[s])
      /\ read[s] \in Nat /\ read[s] <= client[s].sent /\ reply[s] \in Bodies
      /\ session \in [alive : BOOLEAN, consumed : Nat]
      /\ read = [read EXCEPT ![s] = read[s]] /\ reply = [reply EXCEPT ![s] = reply[s]]
  BY <1>1, HandlerRuns
<1>3. x.there /\ ~x.submitted
  BY <1>1, <1>2, Unanswered
<1>4. streams' = [streams EXCEPT ![s] = z]
  BY <1>1, <1>2
<1> HIDE DEF x
<1>5. /\ z \in Streams /\ z.there /\ z.buffer = x.buffer /\ z.handler = "reading" /\ ~z.submitted
      /\ z.pending = x.pending /\ z.deferred = x.deferred /\ z.closed = x.closed /\ z.left = x.left
  BY <1>2, <1>3 DEF Streams
<1> HIDE DEF z
<1>6. Receiving(z, up, s, client[s], read[s])
  BY <1>2, <1>3, <1>5 DEF Receiving, Taken
<1>7. Sending(z, up, W, s, client[s], reply[s], got[s])
  BY <1>2, <1>3, <1>5 DEF Sending
<1>8. session' \in [alive : BOOLEAN, consumed : Nat] /\ read' = [read EXCEPT ![s] = read[s]]
      /\ reply' = [reply EXCEPT ![s] = reply[s]]
  BY <1>1, <1>2
<1>9. QED BY <1>1, <1>2, <1>4, <1>5, <1>6, <1>7, <1>8, OneHandler

LEMMA HandlerReturnsKeeps ==
  ASSUME Http2Inv, NEW s \in Ids, HandlerReturns(s)
  PROVE  Http2Inv' /\ (streams[s].there => streams'[s].there)
<1> DEFINE x == streams[s]
           W == OnWay(Now)
<1>1. PICK m \in {NoBody, MaxBody} :
        /\ streams' = [streams EXCEPT ![s] = [Submitted(@, m) EXCEPT !.handler = "over"]]
        /\ reply' = [reply EXCEPT ![s] = IF x.head THEN NoBody ELSE m]
  BY DEF HandlerReturns
<1>2. /\ run = "wait" /\ x.handler \in {"ready", "reading"}
      /\ UNCHANGED <<session, run, output, up, down, client, read, got>>
  BY DEF HandlerReturns, Runs, socket
<1>3. /\ streams \in [Ids -> Streams] /\ x \in Streams
      /\ Receiving(x, up, s, client[s], read[s])
      /\ Sending(x, up, W, s, client[s], reply[s], got[s])
      /\ read[s] \in Nat /\ read[s] <= client[s].sent /\ reply[s] \in Bodies
      /\ session \in [alive : BOOLEAN, consumed : Nat]
      /\ read = [read EXCEPT ![s] = read[s]]
  BY <1>2, HandlerRuns
<1>4. /\ x.there /\ ~Announced(up, s) /\ client[s].state # "idle"
      /\ ~x.submitted /\ x.pending = "no" /\ ~x.deferred /\ Unsent(W, s, got[s])
  BY <1>2, <1>3, Unanswered
<1> DEFINE n == IF x.head THEN NoBody ELSE m
           z == [Submitted(x, m) EXCEPT !.handler = "over"]
<1>5. n \in Bodies /\ reply' = [reply EXCEPT ![s] = n]
  BY <1>1, Http2Assumption DEF Bodies
<1>6. streams' = [streams EXCEPT ![s] = z]
  BY <1>1, <1>3
<1> HIDE DEF x
<1>7. /\ z \in Streams /\ z.there /\ z.buffer = x.buffer /\ z.handler = "over" /\ z.deferred = x.deferred
      /\ z.closed = x.closed
      /\ x.closed => z.pending = x.pending /\ ~z.submitted
      /\ ~x.closed => z.pending = "head" /\ z.submitted /\ z.left = n
  <2>1. CASE x.closed
    <3>1. z = [x EXCEPT !.handler = "over"]
      BY <2>1 DEF Submitted
    <3> HIDE DEF z
    <3>2. QED BY <1>3, <1>4, <2>1, <3>1 DEF Streams
  <2>2. CASE ~x.closed
    <3>1. z = [[x EXCEPT !.submitted = TRUE, !.pending = "head", !.left = n] EXCEPT !.handler = "over"]
      BY <1>4, <2>2 DEF Submitted
    <3> HIDE DEF z, n
    <3>2. QED BY <1>3, <1>4, <1>5, <2>2, <3>1 DEF Streams
  <2>3. QED BY <2>1, <2>2
<1> HIDE DEF z, n
<1>8. Receiving(z, up, s, client[s], read[s])
  BY <1>3, <1>4, <1>7 DEF Receiving, Taken
<1>9. Sending(z, up, W, s, client[s], n, got[s])
  BY <1>4, <1>7 DEF Sending
<1>10. Sequel(W, s, n, got[s])
  BY <1>4, UnsentIsNext
<1>11. Had(n, got[s])
  BY <1>4 DEF Unsent, Had
<1>12. session' \in [alive : BOOLEAN, consumed : Nat] /\ read' = [read EXCEPT ![s] = read[s]]
       /\ (z.closed => ~z.submitted)
  BY <1>2, <1>3, <1>7
<1>13. Http2Inv'
  BY <1>2, <1>3, <1>5, <1>6, <1>7, <1>8, <1>9, <1>10, <1>11, <1>12, OneHandler
<1>14. QED BY <1>3, <1>6, <1>7, <1>13

LEMMA BodyReadyKeeps ==
  ASSUME Http2Inv, NEW s \in Ids, BodyReady(s)
  PROVE  Http2Inv'
<1> DEFINE x == streams[s]
           W == OnWay(Now)
           z == [x EXCEPT !.ready = x.left]
<1>1. /\ run = "wait" /\ streams' = [streams EXCEPT ![s].ready = x.left]
      /\ UNCHANGED <<session, run, output, up, down, client, read, reply, got>>
  BY DEF BodyReady, socket, history
<1>2. /\ streams \in [Ids -> Streams] /\ x \in Streams
      /\ Receiving(x, up, s, client[s], read[s])
      /\ Sending(x, up, W, s, client[s], reply[s], got[s])
      /\ Sequel(W, s, reply[s], got[s]) /\ Had(reply[s], got[s])
      /\ read[s] \in Nat /\ read[s] <= client[s].sent /\ reply[s] \in Bodies
      /\ session \in [alive : BOOLEAN, consumed : Nat]
      /\ read = [read EXCEPT ![s] = read[s]] /\ reply = [reply EXCEPT ![s] = reply[s]]
      /\ (x.closed => ~x.submitted)
  BY <1>1, HandlerRuns
<1>3. streams' = [streams EXCEPT ![s] = z]
  BY <1>1, <1>2
<1>4. x.there
  <2>1. BodyReady(s) => x.ready < x.left
    BY DEF BodyReady
  <2>2. ~(NoStream.ready < NoStream.left)
    BY DEF NoStream, NoBody
  <2>3. QED BY <1>2, <2>1, <2>2 DEF Receiving
<1> HIDE DEF x
<1>5. /\ z \in Streams /\ z.there /\ z.buffer = x.buffer /\ z.handler = x.handler /\ z.submitted = x.submitted
      /\ z.pending = x.pending /\ z.deferred = x.deferred /\ z.closed = x.closed /\ z.left = x.left
  <2>1. x.left \in Int
    BY <1>2 DEF Streams, Bodies, NoBody
  <2>2. QED BY <1>2, <1>4, <2>1 DEF Streams
<1> HIDE DEF z
<1>6. Receiving(z, up, s, client[s], read[s])
  BY <1>2, <1>4, <1>5 DEF Receiving, Taken
<1>7. Sending(z, up, W, s, client[s], reply[s], got[s])
  BY <1>2, <1>4, <1>5 DEF Sending
<1>8. session' \in [alive : BOOLEAN, consumed : Nat] /\ read' = [read EXCEPT ![s] = read[s]]
      /\ reply' = [reply EXCEPT ![s] = reply[s]] /\ (z.closed => ~z.submitted)
  BY <1>1, <1>2, <1>5
<1>9. QED BY <1>1, <1>2, <1>3, <1>5, <1>6, <1>7, <1>8, OneHandler

-----------------------------------------------------------------------------
(* The client                                                              *)

(* What the client sends of one stream reaches a server that is not over.  *)
LEMMA OneClient ==
  ASSUME Http2Inv, NEW s \in Ids, NEW f \in Frames, f.s = s, Send(<<f>>),
         NEW y \in Sides, client' = [client EXCEPT ![s] = y], y.state # "idle", client[s].sent <= y.sent,
         UNCHANGED <<streams, session, run, output, down, read, reply, got>>,
         f.t = "headers" => client[s].state = "idle", f.t # "headers" => client[s].state # "idle",
         f.t = "data" => f.n = client[s].sent + 1 /\ y.sent = f.n,
         f.t # "data" => y.sent = client[s].sent
  PROVE  Http2Inv'
<1> DEFINE W == OnWay(Now)
           U == Append(up, f)
<1>1. /\ Histories(client, read, reply, got) /\ run \in {"run", "wait", "over"}
      /\ Now \in Connections /\ Answering(W, reply, got)
      /\ run # "over" => /\ Connected(streams, up, W, client, read, reply, got)
                         /\ \A r \in Ids : streams[r].closed => ~streams[r].submitted
  BY DEF Http2Inv
<1>2. /\ streams \in [Ids -> Streams] /\ up \in Seq(Frames)
      /\ client \in [Ids -> Sides] /\ \A r \in Ids : read[r] \in Nat /\ read[r] <= client[r].sent
  BY <1>1 DEF Now, Connections, Histories
<1>3. client' \in [Ids -> Sides] /\ client'[s] = y /\ \A r \in Ids : r # s => client'[r] = client[r]
  BY <1>2
<1>4. up' = IF run = "over" THEN up ELSE U
  <2>1. up' = IF run = "over" THEN up ELSE up \o <<f>>
    BY DEF Send
  <2>2. up \o <<f>> = U
    BY <1>2
  <2>3. QED BY <2>1, <2>2
<1>5. /\ U \in Seq(Frames) /\ Len(U) = Len(up) + 1 /\ Len(up) \in Nat
      /\ (\A i \in 1..Len(up) : U[i] = up[i]) /\ U[Len(up) + 1] = f
      /\ 1..(Len(up) + 1) = 1..Len(up) \cup {Len(up) + 1}
  BY <1>2, Appended
<1>6. up' \in Seq(Frames)
  BY <1>2, <1>4, <1>5
<1>7. Now' \in Connections /\ OnWay(Now') = W
  BY <1>1, <1>6 DEF Now, Connections, OnWay
<1>8. Histories(client', read', reply', got')
  <2>1. client[s].sent \in Nat /\ y.sent \in Nat
    BY <1>2 DEF Sides
  <2>2. read[s] <= y.sent
    BY <1>2, <2>1
  <2>3. QED BY <1>1, <1>3, <2>2 DEF Histories
<1>9. Answering(OnWay(Now'), reply', got')
  BY <1>1, <1>7 DEF Answering
<1>10. ASSUME run # "over"
       PROVE  Connected(streams, U, W, client', read, reply, got)
  <2>1. /\ InOrder(up, client)
        /\ \A r \in Ids : /\ streams[r] \in Streams
                          /\ Receiving(streams[r], up, r, client[r], read[r])
                          /\ Sending(streams[r], up, W, r, client[r], reply[r], got[r])
    BY <1>1, <1>2, <1>10 DEF Connected
  <2>2. \A r : /\ Announced(U, r) <=> Announced(up, r) \/ (f.s = r /\ f.t = "headers")
               /\ Numbered(U, r) = Numbered(up, r) \cup (IF f.s = r /\ f.t = "data" THEN {f.n} ELSE {})
    BY <1>2, OneMoreSent
  <2>3. \A i \in 1..Len(up) : up[i] \in Frames /\ up[i].s \in Ids
    <3>1. \A h \in Frames : h.s \in Ids
      BY DEF Frames
    <3>2. QED BY <1>2, <3>1
  <2>4. client[s].sent \in Nat /\ y.sent \in Nat /\ read[s] \in Nat
    BY <1>2 DEF Sides
  <2> DEFINE x == streams[s]
             e == client[s].sent
  <2>5. Receiving(x, up, s, client[s], read[s]) /\ Sending(x, up, W, s, client[s], reply[s], got[s]) /\ x \in Streams
    BY <2>1
  <2> HIDE DEF U, W, x, Frames
  <2>6. \A i \in 1..Len(up) : up[i].s = s /\ up[i].t = "data" => up[i].n \in Numbered(up, s)
    BY DEF Numbered
  <2>7. \A i \in 1..Len(up) : client'[up[i].s].state # "idle"
    BY <1>3, <2>1, <2>3 DEF InOrder
  <2>8. \A i \in 1..Len(up) : up[i].s = s => f.t # "headers" /\ (up[i].t = "data" /\ f.t = "data" => up[i].n < f.n)
    <3>1. \A i \in 1..Len(up) : up[i].s = s => client[s].state # "idle"
      BY <2>1 DEF InOrder
    <3>2. \A i \in 1..Len(up) : up[i].s = s /\ up[i].t = "data" => up[i].n <= e /\ up[i].n \in Nat
      <4>1. \A i \in 1..Len(up) : up[i].s = s /\ up[i].t = "data" => up[i].n <= e
        BY <2>5, <2>6 DEF Receiving
      <4>2. \A h \in Frames : h.n \in Nat
        BY DEF Frames
      <4>3. QED BY <2>3, <4>1, <4>2
    <3>3. QED BY <2>4, <3>1, <3>2
  <2>9. InOrder(U, client')
    <3>1. \A i \in 1..Len(U) : client'[U[i].s].state # "idle"
      BY <1>3, <1>5, <2>7
    <3>2. ASSUME NEW i \in 1..Len(U), NEW j \in 1..Len(U), i < j, U[i].s = U[j].s
          PROVE  U[j].t # "headers" /\ (U[i].t = "data" /\ U[j].t = "data" => U[i].n < U[j].n)
      <4>1. i \in 1..Len(up) /\ U[i] = up[i]
        BY <1>5, <3>2
      <4>2. CASE j \in 1..Len(up)
        BY <1>5, <2>1, <3>2, <4>1, <4>2 DEF InOrder
      <4>3. CASE j = Len(up) + 1
        BY <1>5, <2>8, <3>2, <4>1, <4>3
      <4>4. QED BY <1>5, <4>2, <4>3
    <3>3. QED BY <3>1, <3>2 DEF InOrder
  <2>11. ASSUME NEW r \in Ids, r # s
         PROVE  /\ Receiving(streams[r], U, r, client'[r], read[r])
                /\ Sending(streams[r], U, W, r, client'[r], reply[r], got[r])
    <3>1. (Announced(U, r) <=> Announced(up, r)) /\ Numbered(U, r) = Numbered(up, r)
      BY <2>2, <2>11
    <3>2. QED BY <1>3, <2>1, <2>11, <3>1 DEF Receiving, Sending
  <2>12. CASE client[s].state = "idle"
    <3>1. f.t = "headers" /\ y.sent = e /\ e = 0 /\ ~x.there /\ x = NoStream /\ Unsent(W, s, got[s])
      BY <2>5, <2>12 DEF Receiving, Sending
    <3>2. \A i \in 1..Len(up) : up[i].s # s
      BY <2>1, <2>12 DEF InOrder
    <3>3. Numbered(up, s) = {} /\ ~Announced(up, s)
      BY <3>2 DEF Numbered, Announced
    <3>4. Numbered(U, s) = {} /\ Announced(U, s)
      BY <2>2, <3>1, <3>3
    <3>5. Len(x.buffer) = 0 /\ read[s] = 0 /\ Taken(x, read[s]) = 0
      <4>1. Len(x.buffer) = 0
        BY <3>1, NoStreamType
      <4>2. read[s] = 0
        BY <1>2, <2>4, <3>1
      <4>3. QED BY <4>1, <4>2 DEF Taken
    <3>6. Receiving(x, U, s, y, read[s])
      <4>1. {} = 0 + 1 .. 0 /\ \A j \in 1..0 : FALSE
        OBVIOUS
      <4>2. QED BY <3>1, <3>4, <3>5, <4>1 DEF Receiving
    <3>7. Sending(x, U, W, s, y, reply[s], got[s])
      BY <2>5, <3>1 DEF Sending
    <3>8. QED BY <1>3, <2>9, <2>11, <3>6, <3>7 DEF Connected, x
  <2>13. CASE client[s].state # "idle"
    <3>1. f.t # "headers" /\ (Announced(U, s) <=> Announced(up, s))
      BY <2>2, <2>13
    <3>2. Sending(x, U, W, s, y, reply[s], got[s])
      BY <2>5, <2>13, <3>1 DEF Sending
    <3>3. CASE f.t # "data"
      <4>1. Numbered(U, s) = Numbered(up, s) /\ y.sent = e
        BY <2>2, <3>3
      <4>2. Receiving(x, U, s, y, read[s])
        BY <2>5, <3>1, <4>1 DEF Receiving
      <4>3. QED BY <1>3, <2>9, <2>11, <3>2, <4>2 DEF Connected, x
    <3>4. CASE f.t = "data"
      <4>1. Numbered(U, s) = Numbered(up, s) \cup {e + 1} /\ y.sent = e + 1
        BY <2>2, <3>4
      <4>2. Taken(x, read[s]) <= e /\ Taken(x, read[s]) \in Nat
        <5>1. Len(x.buffer) \in Nat
          BY <2>5 DEF Streams
        <5>2. QED BY <2>4, <2>5, <5>1 DEF Receiving, Taken
      <4>3. \A m \in Numbered(U, s) : m <= y.sent
        <5>1. \A m \in Numbered(up, s) : m <= e /\ m \in Nat
          <6>1. \A m \in Numbered(up, s) : m <= e
            BY <2>5 DEF Receiving
          <6>2. \A h \in Frames : h.n \in Nat
            BY DEF Frames
          <6>3. \A m \in Numbered(up, s) : m \in Nat
            BY <2>3, <6>2 DEF Numbered
          <6>4. QED BY <6>1, <6>3
        <5>2. QED BY <2>4, <4>1, <5>1
      <4>4. Numbered(up, s) = Taken(x, read[s]) + 1 .. e => Numbered(U, s) = Taken(x, read[s]) + 1 .. y.sent
        <5>1. \A m : m \in Taken(x, read[s]) + 1 .. e \/ m = e + 1 <=> m \in Taken(x, read[s]) + 1 .. e + 1
          BY <2>4, <4>2
        <5>2. QED BY <4>1, <5>1
      <4>5. Taken(x, read[s]) <= y.sent
        BY <2>4, <4>1, <4>2
      <4>6. Receiving(x, U, s, y, read[s])
        BY <2>5, <3>1, <4>3, <4>4, <4>5 DEF Receiving
      <4>7. QED BY <1>3, <2>9, <2>11, <3>2, <4>6 DEF Connected, x
    <3>5. QED BY <3>3, <3>4
  <2>14. QED BY <2>12, <2>13
<1>11. run' # "over" => /\ Connected(streams', up', OnWay(Now'), client', read', reply', got')
                        /\ \A r \in Ids : streams'[r].closed => ~streams'[r].submitted
  BY <1>1, <1>4, <1>7, <1>10
<1>12. QED BY <1>1, <1>7, <1>8, <1>9, <1>11 DEF Http2Inv

LEMMA FrameType ==
  ASSUME NEW s \in Ids, NEW t \in {"data", "end", "reset"}, NEW n \in Nat
  PROVE  Frame(s, t, n) \in Frames /\ Frame(s, t, n).s = s /\ Frame(s, t, n).t = t /\ Frame(s, t, n).n = n
BY DEF Frame, Frames

LEMMA ClientSends ==
  ASSUME Http2Inv, NEW s \in Ids,
         \/ \E kind \in Kinds, end \in BOOLEAN : Request(s, kind, end)
         \/ SendData(s) \/ SendEnd(s) \/ Reset(s)
  PROVE  Http2Inv' /\ streams' = streams
<1>1. client[s] \in Sides /\ client \in [Ids -> Sides] /\ client[s].sent \in Nat
  BY DEF Http2Inv, Histories, Sides
<1>2. ASSUME NEW kind \in Kinds, NEW end \in BOOLEAN, Request(s, kind, end)
      PROVE  Http2Inv' /\ streams' = streams
  <2> DEFINE f == [s |-> s, t |-> "headers", kind |-> kind, end |-> end, n |-> 0]
             y == [client[s] EXCEPT !.state = IF end THEN "ended" ELSE "open"]
  <2>1. /\ Send(<<f>>) /\ client[s].state = "idle"
        /\ client' = [client EXCEPT ![s].state = IF end THEN "ended" ELSE "open"]
        /\ UNCHANGED <<streams, session, run, output, down, read, reply, got>>
    BY <1>2 DEF Request, server, history
  <2>2. f \in Frames /\ f.s = s /\ f.t = "headers"
    BY <1>2 DEF Frames
  <2>3. y \in Sides /\ y.state # "idle" /\ y.sent = client[s].sent
    BY <1>1 DEF Sides
  <2>4. client' = [client EXCEPT ![s] = y]
    BY <1>1, <2>1
  <2> HIDE DEF f, y
  <2>5. client[s].sent <= y.sent /\ f.t # "data"
    BY <1>1, <2>2, <2>3
  <2>6. /\ Send(<<f>>) /\ client[s].state = "idle"
        /\ UNCHANGED <<streams, session, run, output, down, read, reply, got>>
    BY <2>1
  <2>7. Http2Inv'
    BY <2>2, <2>3, <2>4, <2>5, <2>6, OneClient
  <2>8. QED BY <2>6, <2>7
<1>3. CASE SendData(s)
  <2> DEFINE f == Frame(s, "data", client[s].sent + 1)
             y == [client[s] EXCEPT !.sent = client[s].sent + 1]
  <2>1. /\ Send(<<f>>) /\ client[s].state = "open"
        /\ client' = [client EXCEPT ![s].sent = client[s].sent + 1]
        /\ UNCHANGED <<streams, session, run, output, down, read, reply, got>>
    BY <1>3 DEF SendData, server, history
  <2>2. f \in Frames /\ f.s = s /\ f.t = "data" /\ f.n = client[s].sent + 1
    BY <1>1, FrameType
  <2>3. y \in Sides /\ y.state = "open" /\ y.sent = client[s].sent + 1
    BY <1>1, <2>1 DEF Sides
  <2>4. client' = [client EXCEPT ![s] = y]
    BY <1>1, <2>1
  <2> HIDE DEF f, y
  <2>5. client[s].sent <= y.sent
    BY <1>1, <2>3
  <2>6. QED BY <2>1, <2>2, <2>3, <2>4, <2>5, OneClient
<1>4. CASE SendEnd(s)
  <2> DEFINE f == Frame(s, "end", 0)
             y == [client[s] EXCEPT !.state = "ended"]
  <2>1. /\ Send(<<f>>) /\ client[s].state = "open"
        /\ client' = [client EXCEPT ![s].state = "ended"]
        /\ UNCHANGED <<streams, session, run, output, down, read, reply, got>>
    BY <1>4 DEF SendEnd, server, history
  <2>2. f \in Frames /\ f.s = s /\ f.t = "end"
    BY FrameType
  <2>3. y \in Sides /\ y.state = "ended" /\ y.sent = client[s].sent
    BY <1>1 DEF Sides
  <2>4. client' = [client EXCEPT ![s] = y]
    BY <1>1, <2>1
  <2> HIDE DEF f, y
  <2>5. client[s].sent <= y.sent
    BY <1>1, <2>3
  <2>6. QED BY <2>1, <2>2, <2>3, <2>4, <2>5, OneClient
<1>5. CASE Reset(s)
  <2> DEFINE f == Frame(s, "reset", 0)
             y == [client[s] EXCEPT !.state = "reset"]
  <2>1. /\ Send(<<f>>) /\ client[s].state # "idle"
        /\ client' = [client EXCEPT ![s].state = "reset"]
        /\ UNCHANGED <<streams, session, run, output, down, read, reply, got>>
    BY <1>5 DEF Reset, server, history
  <2>2. f \in Frames /\ f.s = s /\ f.t = "reset"
    BY FrameType
  <2>3. y \in Sides /\ y.state = "reset" /\ y.sent = client[s].sent
    BY <1>1 DEF Sides
  <2>4. client' = [client EXCEPT ![s] = y]
    BY <1>1, <2>1
  <2> HIDE DEF f, y
  <2>5. client[s].sent <= y.sent
    BY <1>1, <2>3
  <2>6. QED BY <2>1, <2>2, <2>3, <2>4, <2>5, OneClient
<1>6. QED BY <1>2, <1>3, <1>4, <1>5

LEMMA ClientReadsKeeps ==
  ASSUME Http2Inv, ClientReads
  PROVE  Http2Inv' /\ streams' = streams
<1> DEFINE W == OnWay(Now)
           f == Head(down)
<1>1. /\ Histories(client, read, reply, got) /\ run \in {"run", "wait", "over"}
      /\ Now \in Connections /\ Answering(W, reply, got)
      /\ run # "over" => /\ Connected(streams, up, W, client, read, reply, got)
                         /\ \A r \in Ids : streams[r].closed => ~streams[r].submitted
  BY DEF Http2Inv
<1>2. /\ down # <<>> /\ down' = Tail(down) /\ UNCHANGED <<streams, session, run, output, up, client, read, reply>>
      /\ IF f.t = "window" THEN got' = got ELSE got' = [got EXCEPT ![f.s] = Append(@, f)]
  BY DEF ClientReads, server
<1>3. /\ down \in Seq(Answers) /\ output \in Seq(Answers) /\ W = down \o output /\ W \in Seq(Answers)
      /\ streams \in [Ids -> Streams] /\ got \in [Ids -> Seq(Answers)]
  <2>1. Now.down = down /\ Now.output = output /\ Now.streams = streams
    BY DEF Now
  <2>2. \A o \in Outputs : o = <<>> \/ \E h \in Answers : o = <<h>>
    BY DEF Outputs
  <2>3. output \in Seq(Answers)
    <3>1. output \in Outputs
      BY <1>1, <2>1 DEF Connections
    <3>2. CASE output = <<>>
      BY <3>2
    <3>3. CASE \E h \in Answers : output = <<h>>
      BY <3>3
    <3>4. QED BY <2>2, <3>1, <3>2, <3>3
  <2>4. W = down \o output
    BY <2>1 DEF OnWay
  <2>5. QED BY <1>1, <2>1, <2>3, <2>4, OnWayType DEF Connections, Histories
<1>4. /\ Tail(down) \in Seq(Answers) /\ f = down[1] /\ f \in Answers /\ Len(down) \in Nat \ {0}
  BY <1>2, <1>3, Rest
<1>5. W # <<>> /\ W[1] = f /\ Tail(W) = Tail(down) \o output
  <2>1. Len(W) = Len(down) + Len(output) /\ W[1] = f /\ Len(output) \in Nat
    BY <1>3, <1>4, ConcatProperties
  <2>2. W # <<>>
    BY <1>4, <2>1
  <2>3. Tail(W) = Tail(down) \o output
    BY <1>2, <1>3
  <2>4. QED BY <2>1, <2>2, <2>3
<1>6. Now' \in Connections /\ OnWay(Now') = Tail(W)
  BY <1>1, <1>2, <1>4, <1>5 DEF Now, Connections, OnWay
<1>7. ASSUME NEW s \in Ids
      PROVE  /\ reply[s] \in Bodies /\ got[s] \in Seq(Answers) /\ Had(reply[s], got[s])
             /\ Sequel(W, s, reply[s], got[s])
             /\ run # "over" => /\ streams[s] \in Streams
                                /\ Receiving(streams[s], up, s, client[s], read[s])
                                /\ Sending(streams[s], up, W, s, client[s], reply[s], got[s])
  BY <1>1, <1>3 DEF Histories, Answering, Connected
<1> HIDE DEF W, f
<1>8. ASSUME NEW s \in Ids, f.s # s
      PROVE  /\ Sequel(Tail(W), s, reply[s], got[s])
             /\ run # "over" => Sending(streams[s], up, Tail(W), s, client[s], reply[s], got[s])
  <2>1. /\ Sequel(Tail(W), s, reply[s], got[s])
        /\ Unsent(W, s, got[s]) => Unsent(Tail(W), s, got[s])
        /\ \A r : NextIs(W, s, reply[s], got[s], r) => NextIs(Tail(W), s, reply[s], got[s], r)
    BY <1>3, <1>5, <1>7, <1>8, OtherRead
  <2>2. QED BY <1>7, <2>1 DEF Sending
<1>9. ASSUME NEW s \in Ids, f.s = s
      PROVE  /\ Append(got[s], f) \in Seq(Answers) /\ Had(reply[s], Append(got[s], f))
             /\ Sequel(Tail(W), s, reply[s], Append(got[s], f))
             /\ run # "over" => Sending(streams[s], up, Tail(W), s, client[s], reply[s], Append(got[s], f))
  <2>1. /\ ~Unsent(W, s, got[s])
        /\ Sequel(Tail(W), s, reply[s], Append(got[s], f)) /\ Had(reply[s], Append(got[s], f))
        /\ \A r \in Int : NextIs(W, s, reply[s], got[s], r) => NextIs(Tail(W), s, reply[s], Append(got[s], f), r)
    BY <1>3, <1>5, <1>7, <1>9, NextRead
  <2>2. ASSUME run # "over", streams[s].pending \in {"body", "deferred"}
        PROVE  reply[s] - streams[s].left + 2 \in Int
    <3>1. streams[s].left \in 0..reply[s]
      BY <1>7, <2>2 DEF Sending
    <3>2. reply[s] \in Int
      BY <1>7 DEF Bodies, NoBody
    <3>3. QED BY <3>1, <3>2
  <2>3. run # "over" => Sending(streams[s], up, Tail(W), s, client[s], reply[s], Append(got[s], f))
    BY <1>7, <2>1, <2>2 DEF Sending
  <2>4. QED BY <1>4, <1>7, <2>1, <2>3
<1>10. CASE f.t = "window"
  <2>1. got' = got /\ \A s \in Ids : f.s # s
    BY <1>2, <1>4, <1>10 DEF Answers, Ids
  <2>2. Answering(Tail(W), reply, got)
    BY <1>8, <2>1 DEF Answering
  <2>3. run # "over" => Connected(streams, up, Tail(W), client, read, reply, got)
    BY <1>1, <1>7, <1>8, <2>1 DEF Connected
  <2>4. QED BY <1>1, <1>2, <1>6, <2>1, <2>2, <2>3 DEF Http2Inv
<1>11. CASE f.t # "window"
  <2> DEFINE s == f.s
  <2>1. s \in Ids /\ got' = [got EXCEPT ![s] = Append(@, f)]
    BY <1>2, <1>4, <1>11 DEF Answers
  <2>2. Append(got[s], f) \in Seq(Answers)
    BY <1>9, <2>1
  <2>3. /\ got' \in [Ids -> Seq(Answers)] /\ got'[s] = Append(got[s], f)
        /\ \A r \in Ids : r # s => got'[r] = got[r]
    BY <1>3, <2>1, <2>2
  <2>4. \A r \in Ids : /\ Had(reply[r], got'[r]) /\ Sequel(Tail(W), r, reply[r], got'[r])
                       /\ run # "over" => Sending(streams[r], up, Tail(W), r, client[r], reply[r], got'[r])
    <3> SUFFICES ASSUME NEW r \in Ids
                 PROVE  /\ Had(reply[r], got'[r]) /\ Sequel(Tail(W), r, reply[r], got'[r])
                        /\ run # "over" => Sending(streams[r], up, Tail(W), r, client[r], reply[r], got'[r])
      OBVIOUS
    <3>1. CASE r = s
      BY <1>9, <2>1, <2>3, <3>1
    <3>2. CASE r # s
      BY <1>7, <1>8, <2>3, <3>2
    <3>3. QED BY <3>1, <3>2
  <2>5. Histories(client, read, reply, got')
    BY <1>1, <2>3, <2>4 DEF Histories
  <2>6. Answering(Tail(W), reply, got')
    BY <2>4 DEF Answering
  <2>7. run # "over" => Connected(streams, up, Tail(W), client, read, reply, got')
    BY <1>1, <1>7, <2>4 DEF Connected
  <2>8. QED BY <1>1, <1>2, <1>6, <2>5, <2>6, <2>7 DEF Http2Inv
<1>12. QED BY <1>10, <1>11

-----------------------------------------------------------------------------
(* The theorems                                                            *)

LEMMA InitHolds == Init => Http2Inv
<1> SUFFICES ASSUME Init PROVE Http2Inv
  OBVIOUS
<1>1. /\ streams = [s \in Ids |-> NoStream] /\ session = [alive |-> TRUE, consumed |-> 0] /\ run = "run"
      /\ output = <<>> /\ up = <<>> /\ down = <<>>
      /\ client = [s \in Ids |-> [state |-> "idle", sent |-> 0]] /\ read = [s \in Ids |-> 0]
      /\ reply = [s \in Ids |-> NoBody] /\ got = [s \in Ids |-> <<>>]
  BY DEF Init
<1>2. Now \in Connections /\ OnWay(Now) = <<>>
  <2>1. <<>> \in Outputs /\ <<>> \in Seq(Frames) /\ <<>> \in Seq(Answers)
    BY DEF Outputs
  <2>2. session \in [alive : BOOLEAN, consumed : Nat]
    BY <1>1
  <2>3. streams \in [Ids -> Streams]
    BY <1>1, NoStreamType
  <2>4. Now \in Connections /\ Now.down = <<>> /\ Now.output = <<>>
    BY <1>1, <2>1, <2>2, <2>3 DEF Now, Connections
  <2>5. QED BY <2>4, OnWayType
<1>3. ASSUME NEW s \in Ids
      PROVE  /\ Receiving(streams[s], up, s, client[s], read[s])
             /\ Sending(streams[s], up, <<>>, s, client[s], reply[s], got[s])
             /\ Sequel(<<>>, s, reply[s], got[s]) /\ Had(reply[s], got[s])
  <2>1. Len(<<>>) = 0 /\ \A i \in 1..0 : FALSE
    OBVIOUS
  <2>2. Unsent(<<>>, s, got[s])
    BY <1>1, <2>1 DEF Unsent
  <2>3. Sequel(<<>>, s, reply[s], got[s])
    BY <2>2, UnsentIsNext
  <2>4. Had(reply[s], got[s])
    BY <1>1, <2>1 DEF Had
  <2>5. Numbered(up, s) = {} /\ ~Announced(up, s)
    BY <1>1, <2>1 DEF Numbered, Announced
  <2>6. streams[s] = NoStream /\ client[s].sent = 0 /\ client[s].state = "idle" /\ read[s] = 0
    BY <1>1
  <2>7. Taken(NoStream, 0) = 0
    BY NoStreamType DEF Taken
  <2>8. Receiving(streams[s], up, s, client[s], read[s])
    BY <2>1, <2>5, <2>6, <2>7, NoStreamType DEF Receiving
  <2>9. Sending(streams[s], up, <<>>, s, client[s], reply[s], got[s])
    BY <2>2, <2>6, NoStreamType DEF Sending
  <2>10. QED BY <2>3, <2>4, <2>8, <2>9
<1>4. InOrder(up, client)
  BY <1>1 DEF InOrder
<1>5. Histories(client, read, reply, got)
  BY <1>1, <1>3 DEF Histories, Sides, Bodies
<1>6. \A s \in Ids : streams[s].closed => ~streams[s].submitted
  BY <1>1, NoStreamType
<1>7. QED BY <1>1, <1>2, <1>3, <1>4, <1>5, <1>6 DEF Http2Inv, Connected, Answering

LEMMA NextKeeps ==
  ASSUME Http2Inv, [Next]_vars
  PROVE  /\ Http2Inv'
         /\ \A s \in Ids : streams[s].handler \in {"ready", "reading"} => streams'[s].there \/ run' = "over"
<1>1. \A s \in Ids : run # "over" /\ streams[s].handler \in {"ready", "reading"} => streams[s].there
  <2>1. run # "over" => \A s \in Ids : Receiving(streams[s], up, s, client[s], read[s])
    BY DEF Http2Inv, Connected
  <2>2. QED BY <2>1, NoStreamType DEF Receiving
<1>2. streams \in [Ids -> Streams]
  BY DEF Http2Inv, Now, Connections
<1>3. ASSUME Http2Inv', run' = run, \A s \in Ids : streams[s].there => streams'[s].there
      PROVE  /\ Http2Inv'
             /\ \A s \in Ids : streams[s].handler \in {"ready", "reading"} => streams'[s].there \/ run' = "over"
  BY <1>1, <1>3
<1>4. CASE Pass
  BY <1>4, PassKeeps
<1>5. CASE ClientReads
  <2>1. run' = run
    BY <1>5 DEF ClientReads, server
  <2>2. QED BY <1>3, <1>5, <2>1, ClientReadsKeeps
<1>6. ASSUME NEW s \in Ids, Handler(s) \/ BodyReady(s)
      PROVE  Http2Inv' /\ run' = run /\ \A r \in Ids : streams[r].there => streams'[r].there
  <2>1. CASE HandlerReads(s)
    <3>1. run' = run /\ streams' = [streams EXCEPT ![s].buffer = Tail(@), ![s].handler = "reading"]
      BY <2>1 DEF HandlerReads, Read
    <3>2. QED BY <1>2, <2>1, <3>1, HandlerReadsKeeps DEF Streams
  <2>2. CASE HandlerWaits(s)
    <3>1. run' = run /\ streams' = [streams EXCEPT ![s].handler = "reading"]
      BY <2>2 DEF HandlerWaits
    <3>2. QED BY <1>2, <2>2, <3>1, HandlerWaitsKeeps DEF Streams
  <2>3. CASE HandlerReturns(s)
    <3>1. run' = run /\ \E n \in {NoBody, MaxBody} : streams' = [streams EXCEPT ![s] = [Submitted(@, n) EXCEPT !.handler = "over"]]
      BY <2>3 DEF HandlerReturns
    <3>2. \A r \in Ids : r # s => streams'[r] = streams[r]
      BY <1>2, <3>1
    <3>3. Http2Inv' /\ (streams[s].there => streams'[s].there)
      BY <2>3, HandlerReturnsKeeps
    <3>4. QED BY <3>1, <3>2, <3>3
  <2>4. CASE BodyReady(s)
    <3>1. run' = run /\ streams' = [streams EXCEPT ![s].ready = streams[s].left]
      BY <2>4 DEF BodyReady
    <3>2. QED BY <1>2, <2>4, <3>1, BodyReadyKeeps DEF Streams
  <2>5. QED BY <1>6, <2>1, <2>2, <2>3, <2>4 DEF Handler
<1>7. ASSUME NEW s \in Ids, \/ \E kind \in Kinds, end \in BOOLEAN : Request(s, kind, end)
                            \/ SendData(s) \/ SendEnd(s) \/ Reset(s)
      PROVE  Http2Inv' /\ run' = run /\ streams' = streams
  <2>1. run' = run
    BY <1>7 DEF Request, SendData, SendEnd, Reset, server
  <2>2. QED BY <1>7, <2>1, ClientSends
<1>8. CASE UNCHANGED <<server, up, down, client, read, reply, got>>
  <2>1. Http2Inv' /\ run' = run /\ streams' = streams
    BY <1>8 DEF Http2Inv, Now, OnWay, server
  <2>2. QED BY <1>3, <2>1
<1>9. CASE Close
  BY <1>8, <1>9 DEF Close, history
<1>10. CASE UNCHANGED vars
  BY <1>8, <1>10 DEF vars, socket, history
<1>11. ASSUME NEW s \in Ids, \/ Handler(s) \/ BodyReady(s) \/ SendData(s) \/ SendEnd(s) \/ Reset(s)
                             \/ \E kind \in Kinds : Request(s, kind, TRUE)
                             \/ Request(s, "GET", FALSE)
       PROVE  /\ Http2Inv'
              /\ \A r \in Ids : streams[r].handler \in {"ready", "reading"} => streams'[r].there \/ run' = "over"
  <2>1. "GET" \in Kinds /\ TRUE \in BOOLEAN /\ FALSE \in BOOLEAN
    BY DEF Kinds
  <2>2. CASE Handler(s) \/ BodyReady(s)
    BY <1>3, <1>6, <2>2
  <2>3. CASE ~(Handler(s) \/ BodyReady(s))
    <3>1. \/ \E kind \in Kinds, end \in BOOLEAN : Request(s, kind, end)
          \/ SendData(s) \/ SendEnd(s) \/ Reset(s)
      BY <1>11, <2>1, <2>3
    <3>2. QED BY <1>3, <1>7, <3>1
  <2>4. QED BY <2>2, <2>3
<1>12. QED BY <1>4, <1>5, <1>9, <1>10, <1>11 DEF Next

(* For any number of streams, any bodies and any window: the frames on     *)
(* their way continue what each side has of each body and each answer.     *)
THEOREM Http2Invariant == Spec => []Http2Inv
<1>1. Http2Inv /\ [Next]_vars => Http2Inv'
  BY NextKeeps
<1>2. QED BY InitHolds, <1>1, PTL DEF Spec

LEMMA ExchangeKept ==
  ASSUME NEW n \in Bodies, NEW g \in Seq(Answers), Had(n, g)
  PROVE  /\ Len(g) <= Len(Answer(n))
         /\ \A i \in DOMAIN g : /\ g[i].t = Answer(n)[i]
                                /\ g[i].t = "data" => g[i].n = n - i + 2
<1>1. Len(g) \in Nat /\ DOMAIN g = 1..Len(g) /\ \A i \in 1..Len(g) : g[i] \in Answers
  OBVIOUS
<1>2. \A i \in 1..Len(g) : Fits(n, g[i]) /\ Rank(n, g[i]) = i /\ g[i].n \in Nat
  BY <1>1 DEF Had, Answers
<1>3. CASE n = NoBody
  <2>1. \A i \in 1..Len(g) : g[i].t = "head_end" /\ i = 1
    BY <1>2, <1>3 DEF Fits, Rank
  <2>2. Answer(n) = <<"head_end">> /\ Len(<<"head_end">>) = 1 /\ <<"head_end">>[1] = "head_end"
    BY <1>3 DEF Answer
  <2>3. Len(g) <= 1
    <3>1. Len(g) > 1 => 2 \in 1..Len(g)
      BY <1>1
    <3>2. QED BY <1>1, <2>1, <3>1
  <2>4. \A i \in 1..Len(g) : g[i].t = "head_end" /\ g[i].t # "data" /\ Answer(n)[i] = "head_end"
    BY <2>1, <2>2
  <2>5. QED BY <1>1, <2>2, <2>3, <2>4
<1>4. CASE n # NoBody
  <2> DEFINE D == [i \in 1..n |-> "data"]
             Words == {"head", "data", "end"}
             A == <<"head">> \o D
  <2>0. n \in Nat
    BY <1>4 DEF Bodies
  <2>1. D \in Seq(Words) /\ Len(D) = n /\ <<"head">> \in Seq(Words) /\ Len(<<"head">>) = 1
        /\ <<"end">> \in Seq(Words) /\ Len(<<"end">>) = 1 /\ <<"end">>[1] = "end" /\ <<"head">>[1] = "head"
    BY <2>0
  <2>2. \A i \in 1..n : D[i] = "data"
    OBVIOUS
  <2> HIDE DEF D
  <2>3. /\ A \in Seq(Words) /\ Len(A) = n + 1
        /\ \A i \in 1..(n + 1) : A[i] = IF i <= 1 THEN <<"head">>[i] ELSE D[i - 1]
    <3>1. /\ A \in Seq(Words) /\ Len(A) = Len(<<"head">>) + Len(D)
          /\ \A i \in 1..(Len(<<"head">>) + Len(D)) : A[i] = IF i <= Len(<<"head">>) THEN <<"head">>[i] ELSE D[i - Len(<<"head">>)]
      BY <2>1, ConcatProperties
    <3>2. 1 + n = n + 1
      BY <2>0
    <3>3. QED BY <2>1, <3>1, <3>2
  <2>4. Answer(n) = A \o <<"end">>
    BY <1>4 DEF Answer, D
  <2> HIDE DEF A
  <2>5. /\ Len(Answer(n)) = n + 2
        /\ \A i \in 1..(n + 2) : Answer(n)[i] = IF i <= n + 1 THEN A[i] ELSE <<"end">>[i - (n + 1)]
    <3>1. /\ Len(Answer(n)) = Len(A) + Len(<<"end">>)
          /\ \A i \in 1..(Len(A) + Len(<<"end">>)) : Answer(n)[i] = IF i <= Len(A) THEN A[i] ELSE <<"end">>[i - Len(A)]
      BY <2>1, <2>3, <2>4, ConcatProperties
    <3>2. (n + 1) + 1 = n + 2
      BY <2>0
    <3>3. QED BY <2>1, <2>3, <3>1, <3>2
  <2>6. Answer(n)[1] = "head"
    <3>1. 1 \in 1..(n + 2) /\ 1 <= n + 1 /\ 1 \in 1..(n + 1)
      BY <2>0
    <3>2. QED BY <2>1, <2>3, <2>5, <3>1
  <2>7. \A i \in 2..(n + 1) : Answer(n)[i] = "data"
    <3>1. \A i \in 2..(n + 1) : i \in 1..(n + 2) /\ i \in 1..(n + 1) /\ i <= n + 1 /\ ~(i <= 1) /\ i - 1 \in 1..n
      BY <2>0
    <3>2. QED BY <2>2, <2>3, <2>5, <3>1
  <2>8. Answer(n)[n + 2] = "end"
    <3>1. n + 2 \in 1..(n + 2) /\ ~(n + 2 <= n + 1) /\ (n + 2) - (n + 1) = 1
      BY <2>0
    <3>2. QED BY <2>1, <2>5, <3>1
  <2>9. ASSUME NEW i \in 1..Len(g)
        PROVE  i <= n + 2 /\ g[i].t = Answer(n)[i] /\ (g[i].t = "data" => g[i].n = n - i + 2)
    <3>1. Fits(n, g[i]) /\ Rank(n, g[i]) = i /\ g[i].n \in Nat
      BY <1>2
    <3>2. CASE g[i].t = "head"
      BY <2>0, <2>6, <3>1, <3>2 DEF Rank
    <3>3. CASE g[i].t = "end"
      BY <2>0, <2>8, <3>1, <3>3 DEF Rank
    <3>4. CASE g[i].t = "data"
      <4>1. g[i].n \in 1..n /\ n - g[i].n + 2 = i
        BY <1>4, <3>1, <3>4 DEF Fits, Rank
      <4>2. i \in 2..(n + 1) /\ g[i].n = n - i + 2
        BY <2>0, <4>1
      <4>3. QED BY <2>0, <2>7, <3>4, <4>2
    <3>5. QED BY <1>4, <3>1, <3>2, <3>3, <3>4 DEF Fits
  <2>10. Len(g) <= n + 2
    <3>1. Len(g) > 0 => Len(g) \in 1..Len(g)
      BY <1>1
    <3>2. QED BY <1>1, <2>0, <2>9, <3>1
  <2>11. QED BY <1>1, <2>5, <2>9, <2>10
<1>5. QED BY <1>3, <1>4

(* For any number of streams and bodies of any length: a handler reads the *)
(* body of its own client without a gap, and a client gets the answer of   *)
(* its own handler, in order and with its end last.                        *)
THEOREM ExchangesAreKept == Spec => []ExchangesKept
<1>1. Http2Inv => ExchangesKept
  <2> SUFFICES ASSUME Http2Inv PROVE ExchangesKept
    OBVIOUS
  <2>1. Histories(client, read, reply, got)
    BY DEF Http2Inv
  <2>2. \A s \in Ids : /\ read[s] \in 0..client[s].sent
                       /\ reply[s] \in Bodies /\ got[s] \in Seq(Answers) /\ Had(reply[s], got[s])
    BY <2>1 DEF Histories, Sides
  <2>3. \A s \in Ids : /\ Len(got[s]) <= Len(Answer(reply[s]))
                       /\ \A i \in DOMAIN got[s] : /\ got[s][i].t = Answer(reply[s])[i]
                                                   /\ got[s][i].t = "data" => got[s][i].n = reply[s] - i + 2
    BY <2>2, ExchangeKept
  <2>4. QED BY <2>2, <2>3 DEF ExchangesKept
<1>2. QED BY Http2Invariant, <1>1, PTL

(* For any number of streams: a stream that its handler still has is not   *)
(* removed while the connection goes on.                                   *)
THEOREM StreamsOutlive == Spec => StreamsOutliveHandlers
<1>1. Http2Inv /\ [Next]_vars =>
        [\A s \in Ids : streams[s].handler \in {"ready", "reading"} => streams'[s].there \/ run' = "over"]_vars
  BY NextKeeps
<1>2. QED BY Http2Invariant, <1>1, PTL DEF Spec, StreamsOutliveHandlers
=============================================================================
