-------------------------- MODULE Postgres_proofs --------------------------
(***************************************************************************)
(* Proofs about Postgres for any number of users, channels, queries, rows  *)
(* and connections, and any size of the FIFOs.                             *)
(***************************************************************************)
EXTENDS Postgres, SequenceTheorems, FiniteSetTheorems, TLAPS

-----------------------------------------------------------------------------
(* Induction and recursion                                                 *)

(* A set that is closed under the successor has every number: without its  *)
(* numbers up to n, k |-> k - 1 would take a finite set into a smaller one.*)
LEMMA SetInduction ==
  ASSUME NEW S, 0 \in S, \A n \in Nat : n \in S => n + 1 \in S
  PROVE  Nat \subseteq S
<1> SUFFICES ASSUME NEW n \in Nat, n \notin S
             PROVE  FALSE
  OBVIOUS
<1> DEFINE T == {k \in 0..n : k \notin S}
           f == [k \in T |-> k - 1]
<1>1. IsFiniteSet(T) /\ Cardinality(T) \in Nat /\ n \in T
  <2>1. IsFiniteSet(0..n) /\ T \in SUBSET (0..n)
    BY FS_Interval
  <2>2. IsFiniteSet(T)
    BY <2>1, FS_Subset
  <2>3. QED BY <2>2, FS_CardinalityType
<1>2. \A k \in T : k - 1 \in T \ {n}
  OBVIOUS
<1>3. f \in Injection(T, T \ {n})
  BY <1>2 DEF Injection, IsInjective
<1>4. IsFiniteSet(T \ {n}) /\ Cardinality(T \ {n}) = Cardinality(T) - 1
  BY <1>1, FS_RemoveElement
<1>5. Cardinality(T) <= Cardinality(T \ {n})
  BY <1>3, <1>4, FS_Injection
<1>6. QED BY <1>1, <1>4, <1>5

(* What is computed step by step is a function.                            *)
Computable(n, D, d, F) == \E g \in [0..n -> D] : g[0] = d /\ \A i \in 1..n : g[i] = F[<<g[i - 1], i>>]
LEMMA Recursion ==
  ASSUME NEW n \in Nat, NEW D, NEW d \in D, NEW F \in [D \X (1..n) -> D]
  PROVE  Computable(n, D, d, F)
<1> DEFINE Upto(k) == \E g \in [0..k -> D] : g[0] = d /\ \A i \in 1..k : g[i] = F[<<g[i - 1], i>>]
           S == {k \in Nat : k <= n => Upto(k)}
<1>1. 0 \in S
  <2> DEFINE h == [i \in 0..0 |-> d]
  <2>1. h \in [0..0 -> D] /\ h[0] = d /\ \A i \in 1..0 : FALSE
    OBVIOUS
  <2> HIDE DEF h
  <2>2. Upto(0)
    BY <2>1
  <2>3. QED BY <2>2
<1>2. ASSUME NEW k \in Nat, k \in S PROVE k + 1 \in S
  <2> SUFFICES ASSUME k + 1 <= n PROVE Upto(k + 1)
    OBVIOUS
  <2>1. PICK g \in [0..k -> D] : g[0] = d /\ \A i \in 1..k : g[i] = F[<<g[i - 1], i>>]
    BY <1>2
  <2> DEFINE h == [i \in 0..(k + 1) |-> IF i = k + 1 THEN F[<<g[k], k + 1>>] ELSE g[i]]
  <2>2. g[k] \in D /\ k + 1 \in 1..n
    OBVIOUS
  <2>3. F[<<g[k], k + 1>>] \in D
    BY <2>2
  <2>4. h \in [0..(k + 1) -> D] /\ h[0] = d
    BY <2>1, <2>3
  <2>5. \A i \in 1..(k + 1) : h[i] = F[<<h[i - 1], i>>]
    <3>1. \A i \in 0..k : h[i] = g[i]
      OBVIOUS
    <3>2. h[k + 1] = F[<<g[k], k + 1>>] /\ h[k] = g[k] /\ (k + 1) - 1 = k
      OBVIOUS
    <3>3. \A i \in 1..k : i - 1 \in 0..k /\ i \in 0..k
      OBVIOUS
    <3>4. \A i \in 1..(k + 1) : i \in 1..k \/ i = k + 1
      OBVIOUS
    <3> HIDE DEF h
    <3>5. QED BY <2>1, <3>1, <3>2, <3>3, <3>4
  <2>6. QED BY <2>4, <2>5
<1>3. n \in S
  BY <1>1, <1>2, SetInduction
<1>4. QED BY <1>3 DEF Computable

(***************************************************************************)
(* The results of one query                                                *)
(***************************************************************************)
Kinds == {"row", "done", "error", "end", "sync", "none"}
AllResults == [q : Nat, k : Kinds, n : Nat]

Sifts(f, q, s) ==
    /\ f \in [0..Len(s) -> Seq(AllResults)] /\ f[0] = <<>>
    /\ \A i \in 1..Len(s) : /\ Concerns(q, s[i]) => f[i] = Append(f[i - 1], s[i])
                            /\ ~Concerns(q, s[i]) => f[i] = f[i - 1]

LEMMA SiftsOne ==
  ASSUME NEW q, NEW s \in Seq(AllResults), NEW f, Sifts(f, q, s), NEW g, Sifts(g, q, s)
  PROVE  f = g
<1> DEFINE S == {i \in Nat : i <= Len(s) => f[i] = g[i]}
<1>1. 0 \in S
  BY DEF Sifts
<1>2. ASSUME NEW i \in Nat, i \in S PROVE i + 1 \in S
  <2> SUFFICES ASSUME i + 1 <= Len(s) PROVE f[i + 1] = g[i + 1]
    OBVIOUS
  <2>1. i + 1 \in 1..Len(s) /\ (i + 1) - 1 = i /\ f[i] = g[i]
    BY <1>2
  <2>2. QED BY <2>1 DEF Sifts
<1> HIDE DEF S
<1>3. Nat \subseteq S
  BY <1>1, <1>2, SetInduction
<1>4. \A i \in 0..Len(s) : f[i] = g[i]
  BY <1>3 DEF S
<1>5. QED BY <1>4 DEF Sifts

Sifted(f, q, s) == Sifts(f, q, s) /\ OfQuery(q, s) = f[Len(s)]
LEMMA Sifting ==
  ASSUME NEW q, NEW s \in Seq(AllResults)
  PROVE  \E f : Sifted(f, q, s)
<1> DEFINE n == Len(s)
           D == Seq(AllResults)
           On(p) == IF Concerns(q, s[p[2]]) THEN Append(p[1], s[p[2]]) ELSE p[1]
           F == [p \in D \X (1..n) |-> On(p)]
           Step(f) == [i \in 0..n |-> IF i = 0 THEN <<>>
                                      ELSE IF Concerns(q, s[i]) THEN Append(f[i - 1], s[i]) ELSE f[i - 1]]
           upto == CHOOSE f : f = Step(f)
<1>1. n \in Nat /\ <<>> \in D /\ \A i \in 1..n : s[i] \in AllResults
  OBVIOUS
<1>2. OfQuery(q, s) = upto[n]
  BY DEF OfQuery
<1>3. F \in [D \X (1..n) -> D]
  <2>1. \A p \in D \X (1..n) : On(p) \in D
    BY <1>1
  <2>2. QED BY <2>1
<1>4. PICK g \in [0..n -> D] : g[0] = <<>> /\ \A i \in 1..n : g[i] = F[<<g[i - 1], i>>]
  <2> HIDE DEF F, D
  <2>1. Computable(n, D, <<>>, F)
    BY <1>1, <1>3, Recursion
  <2>2. QED BY <2>1 DEF Computable
<1>5. \A i \in 1..n : g[i] = IF Concerns(q, s[i]) THEN Append(g[i - 1], s[i]) ELSE g[i - 1]
  <2> SUFFICES ASSUME NEW i \in 1..n
               PROVE  g[i] = IF Concerns(q, s[i]) THEN Append(g[i - 1], s[i]) ELSE g[i - 1]
    OBVIOUS
  <2>1. g[i - 1] \in D
    BY <1>1
  <2>2. F[<<g[i - 1], i>>] = On(<<g[i - 1], i>>)
    BY <2>1
  <2>3. QED BY <1>4, <2>2
<1>6. g = Step(g)
  <2>1. \A i \in 0..n : i # 0 => i \in 1..n
    BY <1>1
  <2>2. g = [i \in 0..n |-> g[i]]
    OBVIOUS
  <2>3. QED BY <1>4, <1>5, <2>1, <2>2
<1>7. upto = Step(upto)
  BY <1>6
<1> HIDE DEF upto
<1>8. upto[0] = <<>> /\ \A i \in 1..n : upto[i] = IF Concerns(q, s[i]) THEN Append(upto[i - 1], s[i]) ELSE upto[i - 1]
  <2>1. 0 \in 0..n /\ \A i \in 1..n : i \in 0..n /\ i # 0
    BY <1>1
  <2>2. \A i \in 0..n : upto[i] = IF i = 0 THEN <<>>
             ELSE IF Concerns(q, s[i]) THEN Append(upto[i - 1], s[i]) ELSE upto[i - 1]
    BY <1>7
  <2>3. QED BY <2>1, <2>2
<1>9. DOMAIN upto = 0..n /\ upto = [i \in 0..n |-> upto[i]]
  <2>1. upto = [i \in 0..n |-> Step(upto)[i]]
    BY <1>7
  <2>2. QED BY <2>1
<1>10. \A i \in 0..n : upto[i] \in D
  <2> DEFINE S == {i \in Nat : i <= n => upto[i] \in D}
  <2>1. 0 \in S
    BY <1>1, <1>8
  <2>2. ASSUME NEW i \in Nat, i \in S PROVE i + 1 \in S
    <3> SUFFICES ASSUME i + 1 <= n PROVE upto[i + 1] \in D
      OBVIOUS
    <3>1. i + 1 \in 1..n /\ (i + 1) - 1 = i /\ upto[i] \in D
      BY <2>2
    <3>2. s[i + 1] \in AllResults /\ Append(upto[i], s[i + 1]) \in D
      BY <3>1
    <3>3. upto[i + 1] = upto[i] \/ upto[i + 1] = Append(upto[i], s[i + 1])
      BY <1>8, <3>1
    <3>4. QED BY <3>1, <3>2, <3>3
  <2> HIDE DEF S
  <2>3. Nat \subseteq S
    BY <2>1, <2>2, SetInduction
  <2>4. QED BY <2>3 DEF S
<1>11. upto \in [0..n -> D]
  BY <1>9, <1>10
<1>12. Sifts(upto, q, s)
  BY <1>8, <1>11 DEF Sifts
<1>13. QED BY <1>2, <1>12 DEF Sifted

LEMMA OfQueryType ==
  ASSUME NEW q, NEW s \in Seq(AllResults)
  PROVE  OfQuery(q, s) \in Seq(AllResults)
<1>1. PICK f : Sifted(f, q, s)
  BY Sifting
<1>2. Len(s) \in 0..Len(s)
  OBVIOUS
<1>3. QED BY <1>1, <1>2 DEF Sifted, Sifts

LEMMA OfQueryNone ==
  ASSUME NEW q, NEW s \in Seq(AllResults), \A i \in 1..Len(s) : ~Concerns(q, s[i])
  PROVE  OfQuery(q, s) = <<>>
<1>1. PICK f : Sifted(f, q, s)
  BY Sifting
<1> DEFINE S == {i \in Nat : i <= Len(s) => f[i] = <<>>}
<1>2. 0 \in S
  BY <1>1 DEF Sifted, Sifts
<1>3. ASSUME NEW i \in Nat, i \in S PROVE i + 1 \in S
  <2> SUFFICES ASSUME i + 1 <= Len(s) PROVE f[i + 1] = <<>>
    OBVIOUS
  <2>1. i + 1 \in 1..Len(s) /\ (i + 1) - 1 = i /\ f[i] = <<>>
    BY <1>3
  <2>2. QED BY <1>1, <2>1 DEF Sifted, Sifts
<1> HIDE DEF S
<1>4. Nat \subseteq S
  BY <1>2, <1>3, SetInduction
<1>5. QED BY <1>1, <1>4 DEF S, Sifted

LEMMA AppendJoined ==
  ASSUME NEW a \in Seq(AllResults), NEW b \in Seq(AllResults), NEW r \in AllResults
  PROVE  Append(a \o b, r) = a \o Append(b, r)
<1> DEFINE x == Append(a \o b, r)
           y == a \o Append(b, r)
<1>1. Append(b, r) \in Seq(AllResults) /\ Len(Append(b, r)) = Len(b) + 1
  OBVIOUS
<1>2. x \in Seq(AllResults) /\ y \in Seq(AllResults) /\ Len(x) = Len(a) + Len(b) + 1 /\ Len(y) = Len(a) + Len(b) + 1
  BY <1>1
<1>3. \A i \in 1..Len(x) : x[i] = y[i]
  BY <1>1
<1> HIDE DEF x, y
<1>4. x = y
  BY <1>2, <1>3, SeqEqual
<1>5. QED BY <1>4 DEF x, y

Made(w, x, y) == w = x \o y
LEMMA MadeMore ==
  ASSUME NEW x \in Seq(AllResults), NEW y \in Seq(AllResults), NEW r \in AllResults, NEW w, Made(w, x, y)
  PROVE  Made(Append(w, r), x, Append(y, r))
<1>1. Append(x \o y, r) = x \o Append(y, r)
  BY AppendJoined
<1>2. QED BY <1>1 DEF Made

(* The results of a query are those in the first part, then the others.    *)
LEMMA OfQueryJoined ==
  ASSUME NEW q, NEW s \in Seq(AllResults), NEW t \in Seq(AllResults)
  PROVE  OfQuery(q, s \o t) = OfQuery(q, s) \o OfQuery(q, t)
<1> DEFINE u == s \o t
<1>1. u \in Seq(AllResults) /\ Len(u) = Len(s) + Len(t)
  OBVIOUS
<1>2. /\ \A i \in 1..Len(s) : u[i] = s[i]
      /\ \A i \in 1..Len(t) : u[Len(s) + i] = t[i]
  OBVIOUS
<1> HIDE DEF u
<1>3. PICK f : Sifted(f, q, u)
  BY <1>1, Sifting
<1>4. PICK g : Sifted(g, q, s)
  BY Sifting
<1>5. PICK h : Sifted(h, q, t)
  BY Sifting
<1> DEFINE S == {i \in Nat : i <= Len(s) => f[i] = g[i]}
           m == Len(s)
           G == g[m]
           T == {i \in Nat : i <= Len(t) => Made(f[m + i], G, h[i])}
<1>6. Len(s) \in Nat /\ Len(t) \in Nat /\ Len(s) \in 0..Len(s) /\ g[Len(s)] \in Seq(AllResults)
  BY <1>4 DEF Sifted, Sifts
<1>7. 0 \in S
  BY <1>3, <1>4 DEF Sifted, Sifts
<1>8. ASSUME NEW i \in Nat, i \in S PROVE i + 1 \in S
  <2> SUFFICES ASSUME i + 1 <= Len(s) PROVE f[i + 1] = g[i + 1]
    OBVIOUS
  <2>1. i + 1 \in 1..Len(s) /\ (i + 1) - 1 = i /\ i + 1 \in 1..Len(u) /\ f[i] = g[i]
    <3>1. i <= Len(s) /\ i + 1 \in 1..Len(s) /\ (i + 1) - 1 = i /\ i + 1 \in 1..Len(u)
      BY <1>1, <1>6
    <3>2. QED BY <1>8, <3>1
  <2>2. u[i + 1] = s[i + 1]
    BY <1>2, <2>1
  <2>3. QED BY <1>3, <1>4, <2>1, <2>2 DEF Sifted, Sifts
<1>9. Nat \subseteq S
  <2> HIDE DEF S
  <2>1. QED BY <1>7, <1>8, SetInduction
<1>10. f[Len(s)] = g[Len(s)]
  BY <1>9
<1>11. m \in Nat /\ G \in Seq(AllResults) /\ f[m] = G
  BY <1>6, <1>10
<1> HIDE DEF m, G
<1>12. 0 \in T
  <2>1. h[0] = <<>> /\ m + 0 = m
    BY <1>5, <1>11 DEF Sifted, Sifts
  <2>2. Made(f[m + 0], G, h[0])
    BY <1>11, <2>1 DEF Made
  <2>3. QED BY <2>2
<1>13. ASSUME NEW i \in Nat, i \in T PROVE i + 1 \in T
  <2> SUFFICES ASSUME i + 1 <= Len(t) PROVE Made(f[m + (i + 1)], G, h[i + 1])
    OBVIOUS
  <2> DEFINE j == m + (i + 1)
             r == t[i + 1]
  <2>1. /\ i + 1 \in 1..Len(t) /\ (i + 1) - 1 = i /\ i \in 0..Len(t)
        /\ j \in 1..Len(u) /\ j - 1 = m + i
    BY <1>1, <1>6, <1>11 DEF m
  <2>2. u[j] = r
    BY <1>2, <2>1 DEF m
  <2>3. r \in AllResults
    BY <2>1
  <2>4. h[i] \in Seq(AllResults)
    BY <1>5, <2>1 DEF Sifted, Sifts
  <2>5. Made(f[j - 1], G, h[i])
    BY <1>6, <1>13, <2>1
  <2> HIDE DEF j, r
  <2>6. /\ Concerns(q, r) => f[j] = Append(f[j - 1], r)
        /\ ~Concerns(q, r) => f[j] = f[j - 1]
    BY <1>3, <2>1, <2>2 DEF Sifted, Sifts
  <2>7. /\ Concerns(q, r) => h[i + 1] = Append(h[i], r)
        /\ ~Concerns(q, r) => h[i + 1] = h[i]
    BY <1>5, <2>1 DEF Sifted, Sifts, r
  <2>8. Made(Append(f[j - 1], r), G, Append(h[i], r))
    BY <1>11, <2>3, <2>4, <2>5, MadeMore
  <2>9. Made(f[j], G, h[i + 1])
    BY <2>5, <2>6, <2>7, <2>8
  <2>10. QED BY <2>9 DEF j
<1> HIDE DEF T
<1>14. Nat \subseteq T
  BY <1>12, <1>13, SetInduction
<1>15. Made(f[m + Len(t)], G, h[Len(t)])
  BY <1>6, <1>14 DEF T
<1>16. m + Len(t) = Len(u) /\ G = OfQuery(q, s) /\ OfQuery(q, t) = h[Len(t)] /\ OfQuery(q, u) = f[Len(u)]
  BY <1>1, <1>3, <1>4, <1>5 DEF Sifted, m, G
<1>17. OfQuery(q, u) = OfQuery(q, s) \o OfQuery(q, t)
  BY <1>15, <1>16 DEF Made
<1>18. QED BY <1>17 DEF u

LEMMA OfQueryOne ==
  ASSUME NEW q, NEW r \in AllResults
  PROVE  /\ Concerns(q, r) => OfQuery(q, <<r>>) = <<r>>
         /\ ~Concerns(q, r) => OfQuery(q, <<r>>) = <<>>
<1> DEFINE s == <<r>>
<1>1. s \in Seq(AllResults) /\ Len(s) = 1 /\ s[1] = r /\ 1 \in 1..Len(s)
  OBVIOUS
<1> HIDE DEF s
<1>2. PICK f : Sifted(f, q, s)
  BY <1>1, Sifting
<1>3. f[0] = <<>> /\ (Concerns(q, r) => f[1] = Append(f[0], r)) /\ (~Concerns(q, r) => f[1] = f[0])
  BY <1>1, <1>2 DEF Sifted, Sifts
<1>4. Append(<<>>, r) = <<r>>
  OBVIOUS
<1>5. QED BY <1>1, <1>2, <1>3, <1>4 DEF Sifted, s
-----------------------------------------------------------------------------
(***************************************************************************)
(* The inductive invariant                                                 *)
(***************************************************************************)
Ops == {"idle", "hold", "first", "next", "discard", "prepare", "listen", "unlisten", "disconnect"}
Calls == [op : Ops, q : 0..MaxQueries, o : 0..MaxQueries, stale : BOOLEAN, ended : BOOLEAN]
Streams == [open : BOOLEAN, fifo : Seq(AllResults), out : BOOLEAN, conn : BOOLEAN, columns : BOOLEAN,
            cut : BOOLEAN]
Names == Channels \cup {""}
Commands == [q : Queries, op : {"query", "prepare", "listen", "unlisten"}, name : Names, rows : Nat]

CallTypes ==
    /\ client \in [Clients -> Calls] /\ n_queries \in 0..MaxQueries
    /\ chan \in [Objects -> [name : Names, conn : BOOLEAN]] /\ map \subseteq Objects
    /\ listener \in [Clients -> 0..MaxQueries]
    /\ \A c \in Clients : client[c].op \notin {"idle", "disconnect"} => client[c].q \in 1..n_queries
FlowTypes ==
    /\ stream \in [Queries -> Streams] /\ active \in Seq(0..MaxQueries)
    /\ held \in AllResults /\ input \in Seq(AllResults) /\ wire \in Seq(AllResults)
    /\ outbuf \in Seq(Commands) /\ server \in Seq(Commands)
    /\ made \in [Queries -> Seq(AllResults)] /\ taken \in [Queries -> Seq(AllResults)]
FiberTypes ==
    /\ fib_reader \in {"new", "wait", "loop", "write", "closing", "over"}
    /\ fib_flusher \in {"new", "ready", "stopped", "blocked", "closing", "over"}
    /\ shutdown \subseteq {"reader", "flusher"} /\ pg \in {"none", "up", "broken"}

(* Both fibers of a connection run, or neither does: who disconnects tells *)
(* each that runs to end, and meanwhile nobody executes or connects.       *)
ReaderLives == fib_reader \in {"wait", "loop", "write"} /\ "reader" \notin shutdown
FlusherLives == fib_flusher \in {"ready", "stopped", "blocked"} /\ "flusher" \notin shutdown
FibersTogether ==
    /\ ReaderLives <=> FlusherLives
    /\ "reader" \in shutdown => fib_reader \in {"wait", "write"}
    /\ "flusher" \in shutdown => fib_flusher \in {"ready", "stopped", "blocked"}
    /\ shutdown # {} => Closing
    /\ ReaderLives => ~Closing /\ pg # "none"
    /\ ~ReaderLives => active = <<>> /\ map = {}
    /\ fib_reader # "write" => held = None
    /\ fib_reader = "write" => held.k \in {"row", "done", "error"}

(* The place of a query in active_queries, counted from the end, is that   *)
(* of its number: those before are finished.  The place keeps the stream   *)
(* as long as there is one.                                                *)
Finished == n_queries - Len(active)
Places ==
    /\ Len(active) <= n_queries
    /\ \A i \in 1..Len(active) : active[i] \in {0, Finished + i}
    /\ \A q \in Queries :
         /\ stream[q].conn => q - Finished \in 1..Len(active) /\ active[q - Finished] = q
         /\ q - Finished \in 1..Len(active) /\ active[q - Finished] = q => stream[q].conn
         /\ stream[q].conn => stream[q].open /\ stream[q].out /\ ~stream[q].cut
         /\ ~stream[q].open => /\ stream[q].fifo = <<>> /\ made[q] = <<>> /\ taken[q] = <<>>
         /\ q > n_queries => ~stream[q].open

(* What is on its way to the reader, R, and what the server is still to    *)
(* answer, C, are in the order of the n queries, of which f are finished:  *)
(* nothing follows the end of a query, and nothing is before the ends of   *)
(* those before it.  As long as the connection is up, each query that is   *)
(* not finished has its end in R or the server has it still.               *)
HasEnd(R, q) == \E i \in 1..Len(R) : R[i].q = q /\ R[i].k = "end"
Sound(r, n, f, last) ==
    /\ r.k # "none" /\ (r.k = "sync" => r.q = 0) /\ (r.q = 0 => r.k = "sync")
    /\ r.q # 0 => f < r.q /\ r.q <= n /\ r.q <= last + 1
    /\ r.k = "end" => r.q <= last
Numbered(C, n) == \A i \in 1..Len(C) : C[i].q = (n - Len(C)) + i
Ascending(R) ==
    \A i, j \in 1..Len(R) : i < j /\ R[i].q # 0 /\ R[j].q # 0 =>
        R[i].q <= R[j].q /\ (R[i].k = "end" => R[i].q < R[j].q)
Ended(R, f) == \A i \in 1..Len(R), q \in Queries : f < q /\ q < R[i].q => HasEnd(R, q)
Ordered(R, C, n, f) ==
    /\ Len(C) <= n - f /\ Numbered(C, n)
    /\ \A i \in 1..Len(R) : Sound(R[i], n, f, n - Len(C))
    /\ Ascending(R) /\ Ended(R, f)
Complete(R, C, n, f) == \A q \in Queries : f < q /\ q <= n - Len(C) => HasEnd(R, q)

Flow == input \o wire
Asked == server \o outbuf
InOrder ==
    ReaderLives =>
        /\ Ordered(Flow, Asked, n_queries, Finished)
        /\ pg = "up" => Complete(Flow, Asked, n_queries, Finished)
        /\ fib_reader = "write" => active # <<>> /\ held.q = Finished + 1

(* What reaches a stream is what the server has made for it, as far as it  *)
(* has come.                                                               *)
Got(q) == taken[q] \o stream[q].fifo
Starts(s, t) == Len(s) <= Len(t) /\ \A i \in 1..Len(s) : s[i] = t[i]
Nowhere(q) ==
    /\ \A i \in 1..Len(Flow) : Flow[i].q # q
    /\ \A i \in 1..Len(Asked) : Asked[i].q # q
    /\ held.q # q
LosslessAt(q) ==
    /\ Starts(Got(q), made[q])
    /\ stream[q].conn => /\ Starts(StreamItems(q), made[q])
                         /\ pg = "up" \/ HasEnd(Flow, q) => StreamItems(q) = made[q]
    /\ stream[q].open /\ ~stream[q].cut /\ ~stream[q].conn => Got(q) = made[q] /\ Nowhere(q)
Lossless == \A q \in Queries : LosslessAt(q)

(* One call at a time changes notify_channels.  Its channel has no         *)
(* listener, and no other has its name.                                    *)
Busy == {"listen", "unlisten"}
ListenerAt(c) == listener[c] # 0 /\ chan[listener[c]].conn => listener[c] \in map
CallAt(c) ==
    /\ client[c].op \in Busy =>
         /\ client[c].o \in 1..n_queries /\ (client[c].o \in map \/ map = {})
         /\ \A d \in Clients : listener[d] # client[c].o
    /\ client[c].op = "listen" /\ ~client[c].stale => client[c].o \in map
ChannelsKept ==
    /\ \A c \in Clients : listener[c] <= n_queries
    /\ \A o \in map : o <= n_queries
    /\ \A o, p \in map : chan[o].name = chan[p].name => o = p
    /\ \A c, d \in Clients : client[c].op \in Busy /\ client[d].op \in Busy => c = d
    /\ \A c \in Clients : ListenerAt(c) /\ CallAt(c)

Data == FlowTypes /\ Places /\ InOrder /\ Lossless
Control == FiberTypes /\ FibersTogether
PostgresInv == CallTypes /\ Control /\ Data /\ ChannelsKept
Defined == undefined = ""
Inv == Careful /\ Defined => PostgresInv
-----------------------------------------------------------------------------
(***************************************************************************)
(* Sequences                                                               *)
(***************************************************************************)
LEMMA Split ==
  ASSUME NEW A, NEW s \in Seq(A), NEW n \in 0..Len(s)
  PROVE  /\ SubSeq(s, 1, n) \in Seq(A) /\ SubSeq(s, n + 1, Len(s)) \in Seq(A)
         /\ SubSeq(s, 1, n) \o SubSeq(s, n + 1, Len(s)) = s
<1> DEFINE a == SubSeq(s, 1, n)
           b == SubSeq(s, n + 1, Len(s))
           w == a \o b
<1>1. a \in Seq(A) /\ Len(a) = n /\ \A i \in 1..n : a[i] = s[i]
  OBVIOUS
<1>2. b \in Seq(A) /\ Len(b) = Len(s) - n /\ \A i \in 1..(Len(s) - n) : b[i] = s[n + i]
  OBVIOUS
<1>3. w \in Seq(A) /\ Len(w) = Len(s)
  <2>1. Len(s) \in Nat /\ n \in Nat /\ n + (Len(s) - n) = Len(s)
    OBVIOUS
  <2> HIDE DEF a, b
  <2>3. a \in Seq(A) /\ b \in Seq(A)
    BY <1>1, <1>2
  <2>2. w \in Seq(A) /\ Len(w) = Len(a) + Len(b)
    BY <2>3
  <2>4. QED BY <1>1, <1>2, <2>1, <2>2
<1>4. \A i \in 1..Len(s) : w[i] = s[i]
  <2> SUFFICES ASSUME NEW i \in 1..Len(s) PROVE w[i] = s[i]
    OBVIOUS
  <2> HIDE DEF a, b
  <2>1. CASE i <= n
    <3>1. w[i] = a[i] /\ i \in 1..n
      BY <1>1, <1>2, <2>1
    <3>2. QED BY <1>1, <3>1
  <2>2. CASE i > n
    <3>1. w[i] = b[i - n] /\ i - n \in 1..(Len(s) - n) /\ n + (i - n) = i
      BY <1>1, <1>2, <2>2
    <3>2. QED BY <1>2, <3>1
  <2>3. i <= n \/ i > n
    OBVIOUS
  <2>4. QED BY <2>1, <2>2, <2>3
<1> HIDE DEF w
<1>5. w = s
  BY <1>3, <1>4, SeqEqual
<1>6. QED BY <1>1, <1>2, <1>5 DEF w

LEMMA HeadFirst ==
  ASSUME NEW s \in Seq(AllResults), s # <<>>
  PROVE  /\ Head(s) \in AllResults /\ Tail(s) \in Seq(AllResults) /\ Head(s) = s[1]
         /\ Len(Tail(s)) = Len(s) - 1 /\ \A i \in 1..Len(Tail(s)) : Tail(s)[i] = s[i + 1]
         /\ s = <<Head(s)>> \o Tail(s)
<1> DEFINE t == <<Head(s)>> \o Tail(s)
<1>1. /\ Head(s) \in AllResults /\ Tail(s) \in Seq(AllResults) /\ Head(s) = s[1]
      /\ Len(Tail(s)) = Len(s) - 1 /\ \A i \in 1..Len(Tail(s)) : Tail(s)[i] = s[i + 1]
  OBVIOUS
<1>2. t \in Seq(AllResults) /\ Len(t) = Len(s)
  BY <1>1
<1>3. \A i \in 1..Len(s) : t[i] = s[i]
  BY <1>1
<1> HIDE DEF t
<1>4. t = s
  BY <1>2, <1>3, SeqEqual
<1>5. QED BY <1>1, <1>4 DEF t

LEMMA Associative ==
  ASSUME NEW s \in Seq(AllResults), NEW t \in Seq(AllResults), NEW u \in Seq(AllResults)
  PROVE  (s \o t) \o u = s \o (t \o u)
  OBVIOUS

Reassociated(g, h, x, y) == ((g \o h) \o x) \o y = g \o (h \o (x \o y))
LEMMA JoinedFour ==
  ASSUME NEW g \in Seq(AllResults), NEW h \in Seq(AllResults), NEW x \in Seq(AllResults), NEW y \in Seq(AllResults)
  PROVE  Reassociated(g, h, x, y)
<1> DEFINE gh == g \o h
           xy == x \o y
<1>1. gh \in Seq(AllResults)
  OBVIOUS
<1>2. xy \in Seq(AllResults)
  OBVIOUS
<1>3. gh = g \o h /\ xy = x \o y
  OBVIOUS
<1> HIDE DEF gh, xy
<1>4. (gh \o x) \o y = gh \o (x \o y)
  BY <1>1, Associative, ZenonT(60)
<1>5. (g \o h) \o xy = g \o (h \o xy)
  BY <1>2, Associative, ZenonT(60)
<1>6. (gh \o x) \o y = g \o (h \o xy)
  BY <1>3, <1>4, <1>5, ZenonT(60)
<1>7. QED BY <1>3, <1>6, ZenonT(60) DEF Reassociated

Regrouped(q, t, f, h, i, w) ==
    t \o f \o h \o OfQuery(q, i) \o OfQuery(q, w) = (t \o f) \o (h \o OfQuery(q, i \o w))
LEMMA ItemsAre ==
  ASSUME NEW q, NEW t \in Seq(AllResults), NEW f \in Seq(AllResults), NEW h \in Seq(AllResults),
         NEW i \in Seq(AllResults), NEW w \in Seq(AllResults)
  PROVE  Regrouped(q, t, f, h, i, w)
<1> DEFINE x == OfQuery(q, i)
           y == OfQuery(q, w)
           g == t \o f
<1>1. x \in Seq(AllResults)
  BY OfQueryType
<1>2. y \in Seq(AllResults)
  BY OfQueryType
<1>3. OfQuery(q, i \o w) = x \o y
  BY OfQueryJoined
<1>4. g \in Seq(AllResults)
  OBVIOUS
<1> HIDE DEF x, y, g
<1>5. Reassociated(g, h, x, y)
  BY <1>1, <1>2, <1>4, JoinedFour
<1>6. QED BY <1>3, <1>5, ZenonT(60) DEF x, y, g, Reassociated, Regrouped

LEMMA StartsFacts ==
  ASSUME NEW s \in Seq(AllResults), NEW t \in Seq(AllResults), NEW u \in Seq(AllResults), NEW r \in AllResults
  PROVE  /\ Starts(s, s) /\ Starts(s, s \o t)
         /\ Starts(s, u) => Starts(s, Append(u, r))
         /\ Starts(s \o t, u) => Starts(s, u)
<1>1. Starts(s, s)
  BY DEF Starts
<1>2. Starts(s, s \o t)
  BY DEF Starts
<1>3. Starts(s, u) => Starts(s, Append(u, r))
  <2>1. Len(Append(u, r)) = Len(u) + 1 /\ \A i \in 1..Len(u) : Append(u, r)[i] = u[i]
    OBVIOUS
  <2>2. QED BY <2>1 DEF Starts
<1>4. Starts(s \o t, u) => Starts(s, u)
  <2> DEFINE w == s \o t
  <2>1. Len(w) = Len(s) + Len(t) /\ \A i \in 1..Len(s) : w[i] = s[i] /\ i \in 1..Len(w)
    OBVIOUS
  <2> HIDE DEF w
  <2>2. Starts(w, u) => Starts(s, u)
    BY <2>1 DEF Starts
  <2>3. QED BY <2>2 DEF w
<1>5. QED BY <1>1, <1>2, <1>3, <1>4

(* What has come and what is to come make up the items of a stream.        *)
HeldOf(q) == IF held.q = q THEN <<held>> ELSE <<>>
Coming(q) == HeldOf(q) \o OfQuery(q, Flow)
LEMMA Items ==
  ASSUME FlowTypes, NEW q \in Queries
  PROVE  /\ Got(q) \in Seq(AllResults) /\ Coming(q) \in Seq(AllResults) /\ HeldOf(q) \in Seq(AllResults)
         /\ StreamItems(q) = Got(q) \o Coming(q)
<1>1. /\ taken[q] \in Seq(AllResults) /\ stream[q].fifo \in Seq(AllResults) /\ held \in AllResults
      /\ input \in Seq(AllResults) /\ wire \in Seq(AllResults)
  BY DEF FlowTypes, Streams
<1>2. HeldOf(q) \in Seq(AllResults)
  BY <1>1 DEF HeldOf
<1>3. Flow \in Seq(AllResults) /\ Got(q) \in Seq(AllResults)
  BY <1>1 DEF Flow, Got
<1>4. OfQuery(q, Flow) \in Seq(AllResults)
  BY <1>3, OfQueryType
<1>5. Coming(q) \in Seq(AllResults)
  BY <1>2, <1>4 DEF Coming
<1>6. Regrouped(q, taken[q], stream[q].fifo, HeldOf(q), input, wire)
  BY <1>1, <1>2, ItemsAre
<1>7. QED BY <1>2, <1>3, <1>5, <1>6 DEF Regrouped, StreamItems, HeldOf, Got, Coming, Flow

(* The same after a step.                                                  *)
LEMMA ItemsNext ==
  ASSUME FlowTypes', NEW q \in Queries
  PROVE  /\ Got(q)' \in Seq(AllResults) /\ Coming(q)' \in Seq(AllResults) /\ HeldOf(q)' \in Seq(AllResults)
         /\ StreamItems(q)' = Got(q)' \o Coming(q)'
<1>1. /\ taken'[q] \in Seq(AllResults) /\ stream'[q].fifo \in Seq(AllResults) /\ held' \in AllResults
      /\ input' \in Seq(AllResults) /\ wire' \in Seq(AllResults)
  BY DEF FlowTypes, Streams
<1>2. HeldOf(q)' \in Seq(AllResults)
  BY <1>1 DEF HeldOf
<1>3. Flow' \in Seq(AllResults) /\ Got(q)' \in Seq(AllResults)
  BY <1>1 DEF Flow, Got
<1>4. OfQuery(q, Flow)' \in Seq(AllResults)
  BY <1>3, OfQueryType
<1>5. Coming(q)' \in Seq(AllResults)
  BY <1>2, <1>4 DEF Coming
<1>6. Regrouped(q, taken'[q], stream'[q].fifo, HeldOf(q)', input', wire')
  BY <1>1, <1>2, ItemsAre
<1>7. QED BY <1>2, <1>3, <1>5, <1>6 DEF Regrouped, StreamItems, HeldOf, Got, Coming, Flow
-----------------------------------------------------------------------------
(***************************************************************************)
(* What a user does with its streams                                       *)
(***************************************************************************)
dataVars == <<n_queries, stream, active, fib_reader, held, shutdown, pg, outbuf, server, wire, input, made, taken>>

LEMMA DataKept ==
  ASSUME Data, UNCHANGED dataVars
  PROVE  Data'
<1> USE DEF dataVars
<1>1. FlowTypes'
  BY DEF Data, FlowTypes
<1>2. Places'
  BY DEF Data, Places, Finished
<1>3. InOrder'
  BY DEF Data, InOrder, Finished, ReaderLives, Asked, Flow
<1>4. Lossless'
  BY DEF Data, Lossless, LosslessAt, Got, StreamItems, Flow, HasEnd, Nowhere, Asked
<1>5. QED BY <1>1, <1>2, <1>3, <1>4 DEF Data

(* A stream for which nothing that counts has changed.                     *)
LEMMA AtKept ==
  ASSUME FlowTypes, FlowTypes', NEW q \in Queries, LosslessAt(q),
         Got(q)' = Got(q), stream'[q].conn => Coming(q)' = Coming(q), made'[q] = made[q],
         stream'[q].conn => stream[q].conn,
         stream'[q].open /\ ~stream'[q].cut /\ ~stream'[q].conn =>
             stream[q].open /\ ~stream[q].cut /\ ~stream[q].conn,
         stream'[q].conn /\ (pg' = "up" \/ HasEnd(Flow, q)') => pg = "up" \/ HasEnd(Flow, q),
         Nowhere(q) => Nowhere(q)'
  PROVE  LosslessAt(q)'
<1>1. StreamItems(q) = Got(q) \o Coming(q) /\ StreamItems(q)' = Got(q)' \o Coming(q)'
  BY Items, ItemsNext
<1>2. stream'[q].conn => StreamItems(q)' = StreamItems(q)
  BY <1>1
<1>3. Starts(Got(q), made[q])'
  BY DEF LosslessAt, Starts
<1>4. stream'[q].conn => /\ Starts(StreamItems(q), made[q])'
                         /\ pg' = "up" \/ HasEnd(Flow, q)' => StreamItems(q)' = made'[q]
  BY <1>2 DEF LosslessAt, Starts
<1>5. stream'[q].open /\ ~stream'[q].cut /\ ~stream'[q].conn => Got(q)' = made'[q] /\ Nowhere(q)'
  BY DEF LosslessAt
<1>6. QED BY <1>3, <1>4, <1>5 DEF LosslessAt

(* What is not about a stream.                                             *)
restVars == <<n_queries, active, fib_reader, held, shutdown, pg, outbuf, server, wire, input>>
LEMMA InOrderKept ==
  ASSUME InOrder, UNCHANGED restVars
  PROVE  InOrder'
  BY DEF InOrder, Finished, ReaderLives, Asked, Flow, restVars

Alike(p) == /\ stream'[p].open = stream[p].open /\ stream'[p].conn = stream[p].conn
            /\ stream'[p].out = stream[p].out /\ stream'[p].cut = stream[p].cut
Fetches(q, n) ==
    /\ q \in Queries /\ n \in 0..Len(stream[q].fifo)
    /\ stream' \in [Queries -> Streams]
    /\ \A p \in Queries : Alike(p) /\ (p # q => stream'[p].fifo = stream[p].fifo)
    /\ stream'[q].fifo = Rest(q, n) /\ taken' = Take(q, n)
    /\ UNCHANGED restVars /\ made' = made

LEMMA FetchKeeps ==
  ASSUME Data, NEW q, NEW n, Fetches(q, n)
  PROVE  Data'
<1> DEFINE f == stream[q].fifo
           a == SubSeq(f, 1, n)
<1>1. q \in Queries /\ f \in Seq(AllResults) /\ taken[q] \in Seq(AllResults) /\ n \in 0..Len(f)
  BY DEF Data, FlowTypes, Streams, Fetches
<1>2. /\ a \in Seq(AllResults) /\ Rest(q, n) \in Seq(AllResults)
      /\ a \o Rest(q, n) = f
  BY <1>1, Split DEF Rest
<1>3. /\ \A p \in Queries : p # q => taken'[p] = taken[p]
      /\ taken'[q] = taken[q] \o a
      /\ taken' \in [Queries -> Seq(AllResults)]
  <2>1. taken' = [taken EXCEPT ![q] = taken[q] \o a]
    BY <1>1 DEF Fetches, Take, Data, FlowTypes
  <2>2. taken[q] \o a \in Seq(AllResults)
    BY <1>1, <1>2
  <2> HIDE DEF a
  <2>3. QED BY <1>1, <2>1, <2>2 DEF Data, FlowTypes
<1>4. FlowTypes'
  BY <1>3 DEF Data, FlowTypes, Fetches, restVars
<1>5. \A p \in Queries : Got(p)' = Got(p)
  <2> SUFFICES ASSUME NEW p \in Queries PROVE Got(p)' = Got(p)
    OBVIOUS
  <2>1. CASE p # q
    BY <1>3, <2>1 DEF Got, Fetches
  <2>2. CASE p = q
    <3>1. Got(p)' = (taken[q] \o a) \o Rest(q, n)
      BY <1>3, <2>2 DEF Got, Fetches
    <3> HIDE DEF a, f
    <3>2. (taken[q] \o a) \o Rest(q, n) = taken[q] \o (a \o Rest(q, n))
      BY <1>1, <1>2, Associative
    <3>3. QED BY <1>2, <2>2, <3>1, <3>2 DEF Got, f
  <2>3. QED BY <2>1, <2>2
<1>6. Lossless'
  <2> SUFFICES ASSUME NEW p \in Queries PROVE LosslessAt(p)'
    BY DEF Lossless
  <2>1. FlowTypes /\ LosslessAt(p) /\ Got(p)' = Got(p) /\ made'[p] = made[p] /\ Alike(p) /\ pg' = pg
    BY <1>5 DEF Data, Lossless, Fetches, restVars
  <2>2. Coming(p)' = Coming(p)
    BY DEF Coming, HeldOf, Flow, Fetches, restVars
  <2>3. HasEnd(Flow, p)' = HasEnd(Flow, p) /\ Nowhere(p)' = Nowhere(p)
    BY DEF HasEnd, Flow, Nowhere, Asked, Fetches, restVars
  <2>4. /\ stream'[p].conn => stream[p].conn
        /\ stream'[p].open /\ ~stream'[p].cut /\ ~stream'[p].conn =>
             stream[p].open /\ ~stream[p].cut /\ ~stream[p].conn
    BY <2>1 DEF Alike
  <2>5. QED BY <1>4, <2>1, <2>2, <2>3, <2>4, AtKept
<1>7. InOrder'
  BY InOrderKept DEF Data, Fetches
<1>8. Places'
  <2>1. Finished' = Finished /\ active' = active /\ n_queries' = n_queries /\ made' = made
    BY DEF Finished, Fetches, restVars
  <2>2. \A p \in Queries : ~stream[p].open => stream'[p].fifo = <<>> /\ taken'[p] = <<>>
    <3> SUFFICES ASSUME NEW p \in Queries, ~stream[p].open
                 PROVE  stream'[p].fifo = <<>> /\ taken'[p] = <<>>
      OBVIOUS
    <3>1. stream[p].fifo = <<>> /\ taken[p] = <<>>
      BY DEF Data, Places
    <3>2. CASE p # q
      BY <1>3, <3>1, <3>2 DEF Fetches
    <3>3. CASE p = q
      <4>1. n = 0
        BY <1>1, <3>1, <3>3
      <4>2. a = <<>> /\ Rest(q, n) = <<>>
        BY <3>1, <3>3, <4>1 DEF Rest
      <4>3. taken[q] = <<>>
        BY <3>1, <3>3
      <4>4. taken'[q] = <<>>
        BY <1>3, <4>2, <4>3
      <4>5. QED BY <3>3, <4>2, <4>4 DEF Fetches
    <3>4. QED BY <3>2, <3>3
  <2>3. QED BY <2>1, <2>2 DEF Data, Places, Fetches, Alike
<1>9. QED BY <1>4, <1>6, <1>7, <1>8 DEF Data
LEMMA Bounds == MaxQueries \in Nat
  BY PostgresAssumption

Destroys(q) ==
    /\ q \in Queries /\ stream' = Destroyed(q) /\ active' = Forgotten(q) /\ Unrecorded(q)
    /\ UNCHANGED <<n_queries, fib_reader, held, shutdown, pg, outbuf, server, wire, input>>

LEMMA DestroyKeeps ==
  ASSUME Data, n_queries \in 0..MaxQueries, NEW q, Destroys(q)
  PROVE  Data' /\ Len(active') = Len(active)
<1>1. /\ q \in Queries /\ stream' \in [Queries -> Streams] /\ stream'[q] = NoStream
      /\ \A p \in Queries : p # q => stream'[p] = stream[p]
  BY DEF Destroys, Destroyed, Data, FlowTypes, NoStream, Streams
<1>2. /\ taken' \in [Queries -> Seq(AllResults)] /\ taken'[q] = <<>>
      /\ made' \in [Queries -> Seq(AllResults)] /\ made'[q] = <<>>
      /\ \A p \in Queries : p # q => taken'[p] = taken[p] /\ made'[p] = made[p]
  BY <1>1 DEF Destroys, Unrecorded, Data, FlowTypes
<1>3. /\ active' \in Seq(0..MaxQueries) /\ Len(active') = Len(active)
      /\ \A i \in 1..Len(active) : active'[i] = active[i] \/ (active[i] = q /\ active'[i] = 0)
      /\ stream[q].conn => \A i \in 1..Len(active) : active'[i] # q
      /\ ~stream[q].conn => active' = active
  <2>1. active \in Seq(0..MaxQueries) /\ DOMAIN active = 1..Len(active) /\ Len(active) \in Nat
    BY DEF Data, FlowTypes
  <2>2. CASE ~stream[q].conn
    <3>1. active' = active
      BY <2>2 DEF Destroys, Forgotten
    <3>2. QED BY <2>1, <2>2, <3>1
  <2>3. CASE stream[q].conn
    <3>1. active' = [i \in 1..Len(active) |-> IF active[i] = q THEN 0 ELSE active[i]]
      BY <2>1, <2>3 DEF Destroys, Forgotten
    <3>2. \A i \in 1..Len(active) : active'[i] \in 0..MaxQueries
      BY <2>1, <3>1, Bounds
    <3>3. active' \in Seq(0..MaxQueries) /\ Len(active') = Len(active)
      BY <2>1, <3>1, <3>2
    <3>4. q # 0
      BY <1>1, Bounds DEF Queries
    <3>5. QED BY <2>3, <3>1, <3>3, <3>4
  <2>4. QED BY <2>2, <2>3
<1>4. FlowTypes'
  BY <1>1, <1>2, <1>3 DEF Data, FlowTypes, Destroys
<1>5. Finished' = Finished /\ n_queries' = n_queries
  BY <1>3 DEF Finished, Destroys
<1>6. Places'
  <2>1. Len(active) \in Nat /\ Finished \in Int
    BY DEF Data, FlowTypes, Finished
  <2>2. Len(active') <= n_queries' /\ \A i \in 1..Len(active') : active'[i] \in {0, Finished' + i}
    BY <1>3, <1>5 DEF Data, Places
  <2>3. ASSUME NEW p \in Queries
        PROVE  /\ stream'[p].conn => p - Finished \in 1..Len(active') /\ active'[p - Finished] = p
               /\ p - Finished \in 1..Len(active') /\ active'[p - Finished] = p => stream'[p].conn
               /\ stream'[p].conn => stream'[p].open /\ stream'[p].out /\ ~stream'[p].cut
               /\ ~stream'[p].open => stream'[p].fifo = <<>> /\ made'[p] = <<>> /\ taken'[p] = <<>>
               /\ p > n_queries' => ~stream'[p].open
    <3>1. p # 0
      BY Bounds DEF Queries
    <3>2. CASE p = q
      <4>1. p - Finished \in 1..Len(active) => active'[p - Finished] # p
        BY <1>3, <3>2 DEF Data, Places
      <4>2. QED BY <1>1, <1>2, <1>3, <3>2, <4>1 DEF NoStream
    <3>3. CASE p # q
      <4>1. \A i \in 1..Len(active) : active'[i] = p <=> active[i] = p
        BY <1>3, <3>1, <3>3
      <4>2. stream'[p] = stream[p] /\ taken'[p] = taken[p] /\ made'[p] = made[p]
        BY <1>1, <1>2, <3>3
      <4>3. QED BY <1>3, <1>5, <4>1, <4>2 DEF Data, Places
    <3>4. QED BY <3>2, <3>3
  <2>4. QED BY <1>5, <2>2, <2>3 DEF Places
<1>7. InOrder'
  <2>1. Flow' = Flow /\ Asked' = Asked /\ ReaderLives' = ReaderLives
    BY DEF Flow, Asked, ReaderLives, Destroys
  <2>2. active # <<>> => active' # <<>>
    BY <1>3, <1>4 DEF Data, FlowTypes
  <2>3. QED BY <1>5, <2>1, <2>2 DEF Data, InOrder, Destroys
<1>8. Lossless'
  <2> SUFFICES ASSUME NEW p \in Queries PROVE LosslessAt(p)'
    BY DEF Lossless
  <2>1. CASE p = q
    <3>1. Got(p)' = <<>> /\ made'[p] = <<>> /\ ~stream'[p].open /\ ~stream'[p].conn
      BY <1>1, <1>2, <2>1 DEF Got, NoStream
    <3>2. QED BY <3>1 DEF LosslessAt, Starts
  <2>2. CASE p # q
    <3>1. stream'[p] = stream[p] /\ taken'[p] = taken[p] /\ made'[p] = made[p]
      BY <1>1, <1>2, <2>2
    <3>2. Coming(p)' = Coming(p) /\ Got(p)' = Got(p)
      BY <3>1 DEF Coming, HeldOf, Flow, Destroys, Got
    <3>3. HasEnd(Flow, p)' = HasEnd(Flow, p) /\ Nowhere(p)' = Nowhere(p) /\ pg' = pg
      BY DEF HasEnd, Flow, Nowhere, Asked, Destroys
    <3>4. FlowTypes /\ LosslessAt(p)
      BY DEF Data, Lossless
    <3>5. QED BY <1>4, <3>1, <3>2, <3>3, <3>4, AtKept
  <2>3. QED BY <2>1, <2>2
<1>9. QED BY <1>3, <1>4, <1>6, <1>7, <1>8 DEF Data

-----------------------------------------------------------------------------
(***************************************************************************)
(* The connection                                                          *)
(***************************************************************************)
LEMMA CloseKeeps ==
  ASSUME Data, n_queries \in 0..MaxQueries, CloseAll, ~ReaderLives',
         UNCHANGED <<n_queries, held, pg, outbuf, server, wire, input, made, taken>>
  PROVE  Data' /\ active' = <<>> /\ map' = {}
<1>1. active' = <<>> /\ map' = {} /\ Finished' = n_queries
  <2>1. active' = <<>> /\ map' = {}
    BY DEF CloseAll
  <2>2. Len(active') = 0 /\ n_queries' = n_queries /\ n_queries - 0 = n_queries
    BY <2>1
  <2>3. QED BY <2>1, <2>2 DEF Finished
<1>2. /\ stream' \in [Queries -> Streams]
      /\ \A q \in Queries : /\ q \notin ToSet(active) => stream'[q] = stream[q]
                            /\ q \in ToSet(active) => stream'[q].cut /\ ~stream'[q].conn
                            /\ stream'[q].open = stream[q].open /\ stream'[q].fifo = stream[q].fifo
  BY DEF CloseAll, Data, FlowTypes, Streams
<1>3. \A q \in Queries : stream[q].conn => q \in ToSet(active)
  <2>1. DOMAIN active = 1..Len(active)
    BY DEF Data, FlowTypes
  <2>2. QED BY <2>1 DEF Data, Places, ToSet
<1>4. \A q \in Queries : ~stream'[q].conn
  BY <1>2, <1>3
<1>5. FlowTypes'
  BY <1>1, <1>2, Bounds DEF Data, FlowTypes
<1>6. Places'
  <2>1. Len(active') = 0
    BY <1>1
  <2>2. QED BY <1>1, <1>2, <1>4, <2>1 DEF Data, Places
<1>7. InOrder'
  BY DEF InOrder
<1>8. Lossless'
  <2> SUFFICES ASSUME NEW q \in Queries PROVE LosslessAt(q)'
    BY DEF Lossless
  <2>1. Got(q)' = Got(q) /\ Nowhere(q)' = Nowhere(q) /\ made' = made
    BY <1>2 DEF Got, Nowhere, Asked, Flow
  <2>2. LosslessAt(q)
    BY DEF Data, Lossless
  <2>3. Starts(Got(q), made[q])'
    BY <2>1, <2>2 DEF LosslessAt, Starts
  <2>4. stream'[q].open /\ ~stream'[q].cut => Got(q)' = made'[q] /\ Nowhere(q)'
    <3>1. stream'[q].open /\ ~stream'[q].cut => stream[q].open /\ ~stream[q].cut /\ ~stream[q].conn
      BY <1>2, <1>3
    <3>2. QED BY <2>1, <2>2, <3>1 DEF LosslessAt
  <2>5. QED BY <1>4, <2>3, <2>4 DEF LosslessAt
<1>9. QED BY <1>1, <1>5, <1>6, <1>7, <1>8 DEF Data

(* A connection that no reader serves.                                     *)
LEMMA QuietKeeps ==
  ASSUME Data, n_queries \in 0..MaxQueries, active = <<>>, ~ReaderLives', FlowTypes',
         UNCHANGED <<n_queries, stream, active, made, taken>>,
         \A q \in Queries : Nowhere(q) => Nowhere(q)'
  PROVE  Data'
<1>1. Places'
  BY DEF Data, Places, Finished
<1>2. InOrder'
  BY DEF InOrder
<1>3. \A q \in Queries : ~stream[q].conn
  BY DEF Data, Places
<1>4. Lossless'
  BY <1>3 DEF Data, Lossless, LosslessAt, Got, Starts
<1>5. QED BY <1>1, <1>2, <1>4 DEF Data

LEMMA NothingOrdered ==
  ASSUME NEW n \in Nat
  PROVE  Ordered(<<>>, <<>>, n, n) /\ Complete(<<>>, <<>>, n, n)
  BY DEF Ordered, Complete, Numbered, Ascending, Ended, Queries

Nothing == outbuf' = <<>> /\ server' = <<>> /\ wire' = <<>> /\ input' = <<>>
LEMMA ConnectKeeps ==
  ASSUME Data, n_queries \in 0..MaxQueries, active = <<>>, Nothing, fib_reader' # "write",
         UNCHANGED <<n_queries, stream, active, made, taken, held>>
  PROVE  Data'
<1>1. Places'
  BY DEF Data, Places, Finished
<1>2. FlowTypes'
  BY DEF Data, FlowTypes, Nothing
<1>3. InOrder'
  <2>1. Flow' = <<>> /\ Asked' = <<>> /\ Finished' = n_queries /\ n_queries \in Nat
    BY Bounds DEF Flow, Asked, Nothing, Finished
  <2>2. QED BY <2>1, NothingOrdered DEF InOrder
<1>4. \A q \in Queries : ~stream[q].conn
  BY DEF Data, Places
<1>5. \A q \in Queries : Nowhere(q) => Nowhere(q)'
  BY DEF Nowhere, Asked, Nothing, Flow
<1>6. Lossless'
  BY <1>4, <1>5 DEF Data, Lossless, LosslessAt, Got, Starts
<1>7. QED BY <1>1, <1>2, <1>3, <1>6 DEF Data
LEMMA NumbersOf ==
  /\ \A r \in AllResults : r.q \in Nat /\ r.k \in Kinds
  /\ \A x \in Commands : x.q \in Queries
  BY DEF AllResults, Commands

LEMMA MoreQueries ==
  ASSUME NEW R \in Seq(AllResults), NEW C \in Seq(Commands), NEW n \in Nat, NEW f \in Nat,
         Ordered(R, C, n, f), NEW x \in Commands, x.q = n + 1, f <= n
  PROVE  /\ Ordered(R, Append(C, x), n + 1, f)
         /\ Complete(R, C, n, f) => Complete(R, Append(C, x), n + 1, f)
<1> DEFINE D == Append(C, x)
<1>1. /\ D \in Seq(Commands) /\ Len(D) = Len(C) + 1 /\ \A i \in 1..Len(C) : D[i] = C[i]
      /\ D[Len(C) + 1] = x /\ Len(C) \in Nat
  OBVIOUS
<1>2. (n + 1) - Len(D) = n - Len(C) /\ Len(D) <= (n + 1) - f
  BY <1>1 DEF Ordered
<1> HIDE DEF D
<1>3. Numbered(D, n + 1)
  <2> SUFFICES ASSUME NEW i \in 1..Len(D) PROVE D[i].q = ((n + 1) - Len(D)) + i
    BY DEF Numbered
  <2>1. CASE i <= Len(C)
    <3>1. i \in 1..Len(C)
      BY <1>1, <2>1
    <3>2. QED BY <1>1, <1>2, <3>1 DEF Ordered, Numbered
  <2>2. CASE i > Len(C)
    <3>1. i = Len(C) + 1
      BY <1>1, <2>2
    <3>2. QED BY <1>1, <1>2, <3>1
  <2>3. QED BY <1>1, <2>1, <2>2
<1>4. \A i \in 1..Len(R) : Sound(R[i], n + 1, f, (n + 1) - Len(D))
  <2> SUFFICES ASSUME NEW i \in 1..Len(R) PROVE Sound(R[i], n + 1, f, (n + 1) - Len(D))
    OBVIOUS
  <2>1. Sound(R[i], n, f, n - Len(C))
    BY DEF Ordered
  <2>2. R[i] \in AllResults /\ R[i].q \in Nat
    BY NumbersOf
  <2>3. QED BY <1>2, <2>1, <2>2 DEF Sound
<1>5. Ordered(R, D, n + 1, f)
  BY <1>2, <1>3, <1>4 DEF Ordered
<1>6. Complete(R, C, n, f) => Complete(R, D, n + 1, f)
  BY <1>2 DEF Complete
<1>7. QED BY <1>5, <1>6 DEF D

(* No result is on its way for a query that is not there yet.              *)
LEMMA NotYet ==
  ASSUME NEW R \in Seq(AllResults), NEW C, NEW n \in Nat, NEW f, Ordered(R, C, n, f)
  PROVE  OfQuery(n + 1, R) = <<>>
<1>1. \A i \in 1..Len(R) : ~Concerns(n + 1, R[i])
  <2> SUFFICES ASSUME NEW i \in 1..Len(R) PROVE R[i].q # n + 1
    BY DEF Concerns
  <2>1. Sound(R[i], n, f, n - Len(C))
    BY DEF Ordered
  <2>2. R[i] \in AllResults /\ R[i].q \in Nat
    BY NumbersOf
  <2>3. QED BY <2>1, <2>2 DEF Sound
<1>2. QED BY <1>1, OfQueryNone

LEMMA ExecuteKeeps ==
  ASSUME Data, CallTypes, NEW c \in Clients, NEW op \in {"query", "prepare", "listen", "unlisten"},
         NEW name \in Names, Execute(c, op, name), ReaderLives, UNCHANGED <<made, taken>>,
         fib_reader # "write" => held = None
  PROVE  Data' /\ n_queries' = n_queries + 1 /\ n_queries' \in Queries
<1> DEFINE q == n_queries + 1
           x == [q |-> q, op |-> op, name |-> name, rows |-> 0]
           new == [NoStream EXCEPT !.open = TRUE, !.out = TRUE, !.conn = TRUE]
<1>1. q \in Queries /\ n_queries' = q /\ n_queries \in Nat
  BY Bounds DEF Execute, CallTypes, Queries
<1>2. x \in Commands /\ x.q = q /\ outbuf' = Append(outbuf, x) /\ Asked' = Append(Asked, x)
  <2>1. x \in Commands
    BY <1>1 DEF Commands
  <2>2. outbuf' = Append(outbuf, x) /\ server' = server
    BY DEF Execute
  <2> HIDE DEF x
  <2>3. server \o Append(outbuf, x) = Append(server \o outbuf, x)
    <3>1. server \in Seq(Commands) /\ outbuf \in Seq(Commands)
      BY DEF Data, FlowTypes
    <3>2. QED BY <2>1, <3>1
  <2>4. QED BY <2>1, <2>2, <2>3 DEF Asked, x
<1>3. /\ stream' \in [Queries -> Streams] /\ stream'[q] = new
      /\ \A p \in Queries : p # q => stream'[p] = stream[p]
  <2>1. new \in Streams
    <3>1. NoStream \in Streams
      <4>1. <<>> \in Seq(AllResults)
        OBVIOUS
      <4>2. QED BY <4>1 DEF NoStream, Streams
    <3>2. QED BY <3>1 DEF Streams
  <2>2. stream' = [stream EXCEPT ![q] = new] /\ stream \in [Queries -> Streams]
    BY DEF Execute, Data, FlowTypes
  <2> HIDE DEF new
  <2>3. QED BY <1>1, <2>1, <2>2
<1>4. /\ active' = Append(active, q) /\ active' \in Seq(0..MaxQueries) /\ Len(active) \in Nat
      /\ Len(active') = Len(active) + 1 /\ active'[Len(active) + 1] = q
      /\ \A i \in 1..Len(active) : active'[i] = active[i]
  <2>1. active \in Seq(0..MaxQueries) /\ active' = Append(active, q) /\ q \in 0..MaxQueries
    BY <1>1, Bounds DEF Execute, Data, FlowTypes, Queries
  <2>2. QED BY <2>1
<1>5. FlowTypes'
  <2>1. outbuf' \in Seq(Commands)
    BY <1>2 DEF Data, FlowTypes
  <2>2. QED BY <1>3, <1>4, <2>1 DEF Data, FlowTypes, Execute
<1>6. Finished' = Finished /\ Finished \in Nat /\ Finished <= n_queries
  BY <1>1, <1>4 DEF Finished, Data, Places
<1> HIDE DEF q, x, new
<1>7. ~stream[q].open /\ stream[q].fifo = <<>> /\ made[q] = <<>> /\ taken[q] = <<>>
  BY <1>1 DEF Data, Places, q
<1>8. Places'
  <2>1. Len(active') <= n_queries' /\ \A i \in 1..Len(active') : active'[i] \in {0, Finished' + i}
    <3>1. Len(active') <= n_queries'
      BY <1>1, <1>4 DEF Data, Places, q
    <3>2. q = Finished + (Len(active) + 1)
      BY <1>1, <1>4 DEF Finished, q
    <3>3. \A i \in 1..Len(active') : i \in 1..Len(active) \/ i = Len(active) + 1
      BY <1>4
    <3>4. QED BY <1>4, <1>6, <3>1, <3>2, <3>3 DEF Data, Places
  <2>2. ASSUME NEW p \in Queries
        PROVE  /\ stream'[p].conn => p - Finished \in 1..Len(active') /\ active'[p - Finished] = p
               /\ p - Finished \in 1..Len(active') /\ active'[p - Finished] = p => stream'[p].conn
               /\ stream'[p].conn => stream'[p].open /\ stream'[p].out /\ ~stream'[p].cut
               /\ ~stream'[p].open => stream'[p].fifo = <<>> /\ made'[p] = <<>> /\ taken'[p] = <<>>
               /\ p > n_queries' => ~stream'[p].open
    <3>1. p \in Nat /\ n_queries \in Nat /\ q = n_queries + 1 /\ n_queries' = q
      BY <1>1, Bounds DEF Queries, q
    <3>2. CASE p = q
      <4>1. q - Finished = Len(active) + 1 /\ Len(active) + 1 \in 1..Len(active')
        BY <1>4, <3>1 DEF Finished
      <4>2. stream'[q].conn /\ stream'[q].open /\ stream'[q].out /\ ~stream'[q].cut
        BY <1>3 DEF new, NoStream
      <4>3. QED BY <1>4, <3>1, <3>2, <4>1, <4>2
    <3>3. CASE p # q
      <4>1. stream'[p] = stream[p] /\ taken' = taken /\ made' = made
        BY <1>3, <3>3
      <4>2. p - Finished \in 1..Len(active') /\ active'[p - Finished] = p => p - Finished \in 1..Len(active)
        BY <1>4, <1>6, <3>1, <3>3
      <4>3. \A i \in 1..Len(active) : active'[i] = active[i] /\ i \in 1..Len(active')
        BY <1>4
      <4>4. /\ stream[p].conn => p - Finished \in 1..Len(active) /\ active[p - Finished] = p
            /\ p - Finished \in 1..Len(active) /\ active[p - Finished] = p => stream[p].conn
            /\ stream[p].conn => stream[p].open /\ stream[p].out /\ ~stream[p].cut
            /\ ~stream[p].open => stream[p].fifo = <<>> /\ made[p] = <<>> /\ taken[p] = <<>>
            /\ p > n_queries => ~stream[p].open
        BY DEF Data, Places
      <4>5. p > n_queries' => p > n_queries
        BY <3>1
      <4>6. QED BY <4>1, <4>2, <4>3, <4>4, <4>5
    <3>4. QED BY <3>2, <3>3
  <2>3. QED BY <1>6, <2>1, <2>2 DEF Places
<1>9. /\ Ordered(Flow, Asked, n_queries, Finished) /\ (pg = "up" => Complete(Flow, Asked, n_queries, Finished))
      /\ fib_reader = "write" => active # <<>> /\ held.q = Finished + 1
      /\ Flow' = Flow /\ Flow \in Seq(AllResults) /\ Asked \in Seq(Commands)
      /\ pg' = pg /\ held' = held /\ fib_reader' = fib_reader
  <2>1. /\ Ordered(Flow, Asked, n_queries, Finished) /\ (pg = "up" => Complete(Flow, Asked, n_queries, Finished))
        /\ fib_reader = "write" => active # <<>> /\ held.q = Finished + 1
    BY DEF Data, InOrder
  <2>2. Flow \in Seq(AllResults) /\ Asked \in Seq(Commands)
    BY DEF Data, FlowTypes, Flow, Asked
  <2>3. Flow' = Flow /\ pg' = pg /\ held' = held /\ fib_reader' = fib_reader
    BY DEF Execute, Flow
  <2>4. QED BY <2>1, <2>2, <2>3
<1>10. InOrder'
  <2>1. /\ Ordered(Flow, Append(Asked, x), n_queries + 1, Finished)
        /\ Complete(Flow, Asked, n_queries, Finished) => Complete(Flow, Append(Asked, x), n_queries + 1, Finished)
    <3>1. x \in Commands /\ x.q = n_queries + 1
      BY <1>2 DEF q
    <3>2. QED BY <1>1, <1>6, <1>9, <3>1, MoreQueries
  <2>2. fib_reader = "write" => active' # <<>> /\ held'.q = Finished' + 1
    BY <1>4, <1>6, <1>9
  <2>3. n_queries' = n_queries + 1
    BY <1>1 DEF q
  <2>4. QED BY <1>2, <1>6, <1>9, <2>1, <2>2, <2>3 DEF InOrder
<1>11. Lossless'
  <2> SUFFICES ASSUME NEW p \in Queries PROVE LosslessAt(p)'
    BY DEF Lossless
  <2>1. CASE p = q
    <3>1. p = n_queries + 1
      BY <2>1 DEF q
    <3>2. OfQuery(p, Flow) = <<>>
      BY <1>1, <1>6, <1>9, <3>1, NotYet
    <3>3. held.q # p
      <4>1. CASE fib_reader = "write"
        <5>1. held.q = Finished + 1 /\ Len(active) # 0
          BY <1>9, <4>1 DEF Data, FlowTypes
        <5>2. QED BY <1>1, <1>4, <3>1, <5>1 DEF Finished
      <4>2. CASE fib_reader # "write"
        BY <1>1, <3>1, <4>2 DEF None, Result
      <4>3. QED BY <4>1, <4>2
    <3>4. stream'[p].fifo = <<>> /\ stream'[p].conn /\ taken'[p] = <<>> /\ made'[p] = <<>>
      BY <1>3, <1>7, <2>1 DEF new, NoStream
    <3>5. Got(p)' = <<>>
      BY <3>4 DEF Got
    <3>6. Coming(p)' = <<>>
      <4>1. HeldOf(p)' = <<>> /\ OfQuery(p, Flow)' = <<>>
        BY <1>9, <3>2, <3>3 DEF HeldOf
      <4>2. QED BY <4>1 DEF Coming
    <3>7. StreamItems(p)' = <<>>
      BY <1>5, <3>5, <3>6, ItemsNext
    <3>8. Starts(Got(p), made[p])' /\ Starts(StreamItems(p), made[p])'
      BY <3>4, <3>5, <3>7 DEF Starts
    <3>9. QED BY <3>4, <3>7, <3>8 DEF LosslessAt
  <2>2. CASE p # q
    <3>1. stream'[p] = stream[p] /\ taken' = taken /\ made' = made
      BY <1>3, <2>2
    <3>2. Coming(p)' = Coming(p) /\ Got(p)' = Got(p)
      BY <1>9, <3>1 DEF Coming, HeldOf, Got
    <3>3. HasEnd(Flow, p)' = HasEnd(Flow, p)
      BY <1>9
    <3>4. Nowhere(p) => Nowhere(p)'
      <4> SUFFICES ASSUME Nowhere(p) PROVE Nowhere(p)'
        OBVIOUS
      <4>1. \A i \in 1..Len(Asked') : Asked'[i].q # p
        <5>1. x.q # p
          BY <1>2, <2>2
        <5>2. \A i \in 1..Len(Asked') : Asked'[i] = x \/ (i \in 1..Len(Asked) /\ Asked'[i] = Asked[i])
          BY <1>2, <1>9
        <5>3. QED BY <5>1, <5>2 DEF Nowhere
      <4>2. QED BY <1>9, <4>1 DEF Nowhere
    <3>5. FlowTypes /\ LosslessAt(p)
      BY DEF Data, Lossless
    <3>6. QED BY <1>5, <1>9, <3>1, <3>2, <3>3, <3>4, <3>5, AtKept
  <2>3. QED BY <2>1, <2>2
<1>12. QED BY <1>1, <1>5, <1>8, <1>10, <1>11 DEF Data, q
-----------------------------------------------------------------------------
(***************************************************************************)
(* The order of what is on its way                                         *)
(***************************************************************************)
(* The reader takes results of the query whose stream is the head of       *)
(* active_queries.                                                         *)
LEMMA HeadIsNext ==
  ASSUME NEW R \in Seq(AllResults), R # <<>>, NEW C \in Seq(Commands), NEW n \in 0..MaxQueries, NEW f \in Nat,
         f < n, Ordered(R, C, n, f), R[1].q # 0
  PROVE  R[1].q = f + 1
<1>1. 1 \in 1..Len(R) /\ R[1] \in AllResults /\ R[1].q \in Nat /\ f + 1 \in Queries
  BY NumbersOf, Bounds DEF Queries
<1>2. Sound(R[1], n, f, n - Len(C))
  BY <1>1 DEF Ordered
<1>3. f < R[1].q
  BY <1>2 DEF Sound
<1>4. ASSUME f + 1 < R[1].q PROVE FALSE
  <2>1. PICK j \in 1..Len(R) : R[j].q = f + 1
    BY <1>1, <1>4 DEF Ordered, Ended, HasEnd
  <2>2. 1 < j
    BY <1>4, <2>1
  <2>3. R[1].q <= R[j].q
    BY <1>1, <2>1, <2>2 DEF Ordered, Ascending
  <2>4. QED BY <1>1, <1>4, <2>1, <2>3
<1>5. QED BY <1>1, <1>3, <1>4

LEMMA RestHasEnd ==
  ASSUME NEW R \in Seq(AllResults), R # <<>>, NEW q, HasEnd(R, q), R[1].k # "end" \/ R[1].q # q
  PROVE  HasEnd(Tail(R), q)
<1>1. PICK j \in 1..Len(R) : R[j].q = q /\ R[j].k = "end"
  BY DEF HasEnd
<1> DEFINE i == j - 1
<1>2. i \in 1..Len(Tail(R)) /\ Tail(R)[i] = R[j]
  <2>1. j # 1
    BY <1>1
  <2>2. i \in 1..Len(Tail(R)) /\ i + 1 = j
    BY <2>1, HeadFirst
  <2>3. QED BY <2>2, HeadFirst
<1>3. QED BY <1>1, <1>2 DEF HasEnd

LEMMA RestAscends ==
  ASSUME NEW R \in Seq(AllResults), R # <<>>, Ascending(R)
  PROVE  Ascending(Tail(R))
<1>1. \A i \in 1..Len(Tail(R)) : i + 1 \in 1..Len(R) /\ Tail(R)[i] = R[i + 1]
  BY HeadFirst
<1>2. \A i, j \in 1..Len(Tail(R)) : i < j => i + 1 < j + 1
  OBVIOUS
<1>3. QED BY <1>1, <1>2 DEF Ascending

LEMMA TakeOne ==
  ASSUME NEW R \in Seq(AllResults), R # <<>>, NEW C \in Seq(Commands), NEW n \in 0..MaxQueries, NEW f \in Nat,
         Ordered(R, C, n, f), R[1].k # "end"
  PROVE  /\ Ordered(Tail(R), C, n, f)
         /\ Complete(R, C, n, f) => Complete(Tail(R), C, n, f)
<1>1. \A i \in 1..Len(Tail(R)) : i + 1 \in 1..Len(R) /\ Tail(R)[i] = R[i + 1]
  BY HeadFirst
<1>2. \A q : HasEnd(R, q) => HasEnd(Tail(R), q)
  BY RestHasEnd
<1>3. Ascending(Tail(R))
  BY RestAscends DEF Ordered
<1>4. Ended(Tail(R), f)
  BY <1>1, <1>2 DEF Ordered, Ended
<1>5. \A i \in 1..Len(Tail(R)) : Sound(Tail(R)[i], n, f, n - Len(C))
  BY <1>1 DEF Ordered
<1>6. Ordered(Tail(R), C, n, f)
  BY <1>3, <1>4, <1>5 DEF Ordered
<1>7. QED BY <1>2, <1>6 DEF Complete

LEMMA TakeEnd ==
  ASSUME NEW R \in Seq(AllResults), R # <<>>, NEW C \in Seq(Commands), NEW n \in 0..MaxQueries, NEW f \in Nat,
         f < n, Ordered(R, C, n, f), R[1].k = "end", R[1].q = f + 1
  PROVE  /\ Ordered(Tail(R), C, n, f + 1)
         /\ Complete(R, C, n, f) => Complete(Tail(R), C, n, f + 1)
         /\ \A i \in 1..Len(Tail(R)) : Tail(R)[i].q # f + 1
         /\ \A i \in 1..Len(C) : C[i].q # f + 1
<1>1. \A i \in 1..Len(Tail(R)) : i + 1 \in 1..Len(R) /\ Tail(R)[i] = R[i + 1] /\ 1 < i + 1
  BY HeadFirst
<1>2. \A q : q # f + 1 /\ HasEnd(R, q) => HasEnd(Tail(R), q)
  BY RestHasEnd
<1>3. 1 \in 1..Len(R) /\ Len(C) \in Nat /\ n \in Nat
  BY Bounds
<1>4. Len(C) <= n - (f + 1)
  <2>1. Sound(R[1], n, f, n - Len(C))
    BY <1>3 DEF Ordered
  <2>2. f + 1 <= n - Len(C)
    BY <2>1 DEF Sound
  <2>3. QED BY <1>3, <2>2
<1>5. \A i \in 1..Len(Tail(R)) : Tail(R)[i].q # 0 => f + 1 < Tail(R)[i].q
  <2> SUFFICES ASSUME NEW i \in 1..Len(Tail(R)), Tail(R)[i].q # 0 PROVE f + 1 < Tail(R)[i].q
    OBVIOUS
  <2>1. R[1].q # 0 /\ R[i + 1].q # 0 /\ 1 < i + 1 /\ i + 1 \in 1..Len(R)
    BY <1>1
  <2>2. R[1].q < R[i + 1].q
    BY <1>3, <2>1 DEF Ordered, Ascending
  <2>3. QED BY <1>1, <2>2
<1>6. \A i \in 1..Len(Tail(R)) : Sound(Tail(R)[i], n, f + 1, n - Len(C))
  <2> SUFFICES ASSUME NEW i \in 1..Len(Tail(R)) PROVE Sound(Tail(R)[i], n, f + 1, n - Len(C))
    OBVIOUS
  <2>1. Sound(Tail(R)[i], n, f, n - Len(C))
    BY <1>1 DEF Ordered
  <2>2. QED BY <1>5, <2>1 DEF Sound
<1>7. Ascending(Tail(R))
  BY RestAscends DEF Ordered
<1>8. Ended(Tail(R), f + 1)
  <2> SUFFICES ASSUME NEW i \in 1..Len(Tail(R)), NEW q \in Queries, f + 1 < q, q < Tail(R)[i].q
               PROVE  HasEnd(Tail(R), q)
    BY DEF Ended
  <2>1. f < q /\ q # f + 1
    BY Bounds DEF Queries
  <2>2. HasEnd(R, q)
    BY <1>1, <2>1 DEF Ordered, Ended
  <2>3. QED BY <1>2, <2>1, <2>2
<1>9. Ordered(Tail(R), C, n, f + 1)
  BY <1>4, <1>6, <1>7, <1>8 DEF Ordered
<1>10. Complete(R, C, n, f) => Complete(Tail(R), C, n, f + 1)
  <2> SUFFICES ASSUME Complete(R, C, n, f), NEW q \in Queries, f + 1 < q, q <= n - Len(C)
               PROVE  HasEnd(Tail(R), q)
    BY DEF Complete
  <2>1. f < q /\ q # f + 1
    BY Bounds DEF Queries
  <2>2. QED BY <1>2, <2>1 DEF Complete
<1>11. \A i \in 1..Len(Tail(R)) : Tail(R)[i].q # f + 1
  BY <1>5
<1>12. \A i \in 1..Len(C) : C[i].q # f + 1
  BY <1>3, <1>4 DEF Ordered, Numbered
<1>13. QED BY <1>9, <1>10, <1>11, <1>12

LEMMA SameNumbers ==
  ASSUME NEW R, NEW C \in Seq(Commands), NEW D \in Seq(Commands), NEW n, NEW f,
         Len(D) = Len(C), \A i \in 1..Len(C) : D[i].q = C[i].q
  PROVE  /\ Ordered(R, C, n, f) => Ordered(R, D, n, f)
         /\ Complete(R, C, n, f) => Complete(R, D, n, f)
  BY DEF Ordered, Complete, Numbered

(* One more result of the first query the server has.                      *)
LEMMA ServeOne ==
  ASSUME NEW R \in Seq(AllResults), NEW C \in Seq(Commands), NEW n \in 0..MaxQueries, NEW f \in Nat,
         Ordered(R, C, n, f), Complete(R, C, n, f), C # <<>>,
         NEW r \in AllResults, r.k \in {"row", "done", "error"}, r.q = C[1].q
  PROVE  Ordered(Append(R, r), C, n, f) /\ Complete(Append(R, r), C, n, f)
<1> DEFINE S == Append(R, r)
           last == n - Len(C)
<1>1. /\ Len(S) = Len(R) + 1 /\ S[Len(R) + 1] = r /\ Len(R) \in Nat /\ S \in Seq(AllResults)
      /\ \A i \in 1..Len(R) : S[i] = R[i] /\ i \in 1..Len(S)
      /\ \A i \in 1..Len(S) : i \in 1..Len(R) \/ i = Len(R) + 1
  OBVIOUS
<1>2. r.q = last + 1 /\ f < r.q /\ r.q <= n /\ r.q # 0 /\ last \in Nat
  <2>1. 1 \in 1..Len(C) /\ Len(C) \in Nat /\ n \in Nat
    BY Bounds
  <2>2. Len(C) <= n - f /\ C[1].q = (n - Len(C)) + 1
    BY <2>1 DEF Ordered, Numbered
  <2>3. QED BY <2>1, <2>2
<1>3. Sound(r, n, f, last)
  BY <1>2 DEF Sound
<1>4. \A i \in 1..Len(R) : R[i].q \in Nat /\ Sound(R[i], n, f, last)
  BY NumbersOf DEF Ordered
<1>5. \A q : HasEnd(R, q) => HasEnd(S, q)
  BY <1>1 DEF HasEnd
<1> HIDE DEF S
<1>6. Ascending(S)
  <2> SUFFICES ASSUME NEW i \in 1..Len(S), NEW j \in 1..Len(S), i < j, S[i].q # 0, S[j].q # 0
               PROVE  S[i].q <= S[j].q /\ (S[i].k = "end" => S[i].q < S[j].q)
    BY DEF Ascending
  <2>1. i \in 1..Len(R) /\ S[i] = R[i]
    BY <1>1
  <2>2. CASE j \in 1..Len(R)
    BY <1>1, <2>1, <2>2 DEF Ordered, Ascending
  <2>3. CASE j = Len(R) + 1
    <3>1. S[j].q = last + 1 /\ Sound(R[i], n, f, last) /\ R[i].q \in Nat
      BY <1>1, <1>2, <1>4, <2>1, <2>3
    <3>2. R[i].q <= last + 1 /\ (R[i].k = "end" => R[i].q <= last)
      BY <2>1, <3>1 DEF Sound
    <3>3. QED BY <1>2, <2>1, <3>1, <3>2
  <2>4. QED BY <1>1, <2>2, <2>3
<1>7. Ended(S, f)
  <2> SUFFICES ASSUME NEW i \in 1..Len(S), NEW q \in Queries, f < q, q < S[i].q PROVE HasEnd(R, q)
    BY <1>5 DEF Ended
  <2>1. CASE i \in 1..Len(R)
    BY <1>1, <2>1 DEF Ordered, Ended
  <2>2. CASE i = Len(R) + 1
    <3>1. q <= last
      BY <1>1, <1>2, <2>2, Bounds DEF Queries
    <3>2. QED BY <3>1 DEF Complete
  <2>3. QED BY <1>1, <2>1, <2>2
<1>8. \A i \in 1..Len(S) : Sound(S[i], n, f, last)
  BY <1>1, <1>3, <1>4
<1>9. Ordered(S, C, n, f)
  BY <1>6, <1>7, <1>8 DEF Ordered
<1>10. Complete(S, C, n, f)
  BY <1>5 DEF Complete
<1>11. QED BY <1>9, <1>10 DEF S

(* Its end, after which the server has the others.                         *)
LEMMA ServeEnd ==
  ASSUME NEW R \in Seq(AllResults), NEW C \in Seq(Commands), NEW n \in 0..MaxQueries, NEW f \in Nat,
         Ordered(R, C, n, f), Complete(R, C, n, f), C # <<>>,
         NEW r \in AllResults, r.k = "end", r.q = C[1].q
  PROVE  Ordered(Append(R, r), Tail(C), n, f) /\ Complete(Append(R, r), Tail(C), n, f)
<1> DEFINE S == Append(R, r)
           D == Tail(C)
           last == n - Len(C)
<1>1. /\ Len(S) = Len(R) + 1 /\ S[Len(R) + 1] = r /\ Len(R) \in Nat /\ S \in Seq(AllResults)
      /\ \A i \in 1..Len(R) : S[i] = R[i] /\ i \in 1..Len(S)
      /\ \A i \in 1..Len(S) : i \in 1..Len(R) \/ i = Len(R) + 1
  OBVIOUS
<1>2. /\ r.q = last + 1 /\ f < r.q /\ r.q <= n /\ r.q # 0 /\ last \in Nat
      /\ n - Len(D) = last + 1 /\ Len(D) <= n - f /\ Numbered(D, n)
  <2>1. 1 \in 1..Len(C) /\ Len(C) \in Nat /\ n \in Nat
    BY Bounds
  <2>2. Len(C) <= n - f /\ C[1].q = (n - Len(C)) + 1
    BY <2>1 DEF Ordered, Numbered
  <2>3. Len(D) = Len(C) - 1 /\ \A i \in 1..Len(D) : D[i] = C[i + 1] /\ i + 1 \in 1..Len(C)
    OBVIOUS
  <2> HIDE DEF D
  <2>4. n - Len(D) = last + 1
    BY <2>1, <2>3
  <2>5. \A i \in 1..Len(D) : D[i].q = (n - Len(D)) + i
    <3> SUFFICES ASSUME NEW i \in 1..Len(D) PROVE D[i].q = (n - Len(D)) + i
      OBVIOUS
    <3>1. C[i + 1].q = last + (i + 1)
      BY <2>3 DEF Ordered, Numbered
    <3>2. QED BY <2>1, <2>3, <2>4, <3>1
  <2>6. QED BY <2>1, <2>2, <2>3, <2>4, <2>5 DEF Numbered
<1>3. Sound(r, n, f, last + 1)
  BY <1>2 DEF Sound
<1>4. \A i \in 1..Len(R) : R[i].q \in Nat /\ Sound(R[i], n, f, last)
  BY NumbersOf DEF Ordered
<1>5. \A q : HasEnd(R, q) => HasEnd(S, q)
  BY <1>1 DEF HasEnd
<1>6. HasEnd(S, last + 1)
  <2>1. Len(R) + 1 \in 1..Len(S) /\ S[Len(R) + 1].q = last + 1 /\ S[Len(R) + 1].k = "end"
    BY <1>1, <1>2
  <2>2. QED BY <2>1 DEF HasEnd
<1> HIDE DEF S, D
<1>7. Ascending(S)
  <2> SUFFICES ASSUME NEW i \in 1..Len(S), NEW j \in 1..Len(S), i < j, S[i].q # 0, S[j].q # 0
               PROVE  S[i].q <= S[j].q /\ (S[i].k = "end" => S[i].q < S[j].q)
    BY DEF Ascending
  <2>1. i \in 1..Len(R) /\ S[i] = R[i]
    BY <1>1
  <2>2. CASE j \in 1..Len(R)
    BY <1>1, <2>1, <2>2 DEF Ordered, Ascending
  <2>3. CASE j = Len(R) + 1
    <3>1. S[j].q = last + 1 /\ Sound(R[i], n, f, last) /\ R[i].q \in Nat
      BY <1>1, <1>2, <1>4, <2>1, <2>3
    <3>2. R[i].q <= last + 1 /\ (R[i].k = "end" => R[i].q <= last)
      BY <2>1, <3>1 DEF Sound
    <3>3. QED BY <1>2, <2>1, <3>1, <3>2
  <2>4. QED BY <1>1, <2>2, <2>3
<1>8. Ended(S, f)
  <2> SUFFICES ASSUME NEW i \in 1..Len(S), NEW q \in Queries, f < q, q < S[i].q PROVE HasEnd(R, q)
    BY <1>5 DEF Ended
  <2>1. CASE i \in 1..Len(R)
    BY <1>1, <2>1 DEF Ordered, Ended
  <2>2. CASE i = Len(R) + 1
    <3>1. q <= last
      BY <1>1, <1>2, <2>2, Bounds DEF Queries
    <3>2. QED BY <3>1 DEF Complete
  <2>3. QED BY <1>1, <2>1, <2>2
<1>9. \A i \in 1..Len(S) : Sound(S[i], n, f, n - Len(D))
  <2> SUFFICES ASSUME NEW i \in 1..Len(S) PROVE Sound(S[i], n, f, last + 1)
    BY <1>2
  <2>1. CASE i \in 1..Len(R)
    <3>1. S[i] = R[i] /\ R[i].q \in Nat /\ Sound(R[i], n, f, last)
      BY <1>1, <1>4, <2>1
    <3>2. QED BY <1>2, <3>1 DEF Sound
  <2>2. CASE i = Len(R) + 1
    BY <1>1, <1>3, <2>2
  <2>3. QED BY <1>1, <2>1, <2>2
<1>10. Ordered(S, D, n, f)
  BY <1>2, <1>7, <1>8, <1>9 DEF Ordered
<1>11. Complete(S, D, n, f)
  <2> SUFFICES ASSUME NEW q \in Queries, f < q, q <= last + 1 PROVE HasEnd(S, q)
    BY <1>2 DEF Complete
  <2>1. q <= last \/ q = last + 1
    BY <1>2, Bounds DEF Queries
  <2>2. QED BY <1>5, <1>6, <2>1 DEF Complete
<1>12. QED BY <1>10, <1>11 DEF S, D

LEMMA ServeSync ==
  ASSUME NEW R \in Seq(AllResults), NEW C \in Seq(Commands), NEW n \in 0..MaxQueries, NEW f \in Nat,
         Ordered(R, C, n, f), Complete(R, C, n, f), NEW r \in AllResults, r.k = "sync", r.q = 0
  PROVE  Ordered(Append(R, r), C, n, f) /\ Complete(Append(R, r), C, n, f)
<1> DEFINE S == Append(R, r)
<1>1. /\ Len(S) = Len(R) + 1 /\ S[Len(R) + 1] = r /\ Len(R) \in Nat
      /\ \A i \in 1..Len(R) : S[i] = R[i] /\ i \in 1..Len(S)
      /\ \A i \in 1..Len(S) : i \in 1..Len(R) \/ i = Len(R) + 1
  OBVIOUS
<1>2. Sound(r, n, f, n - Len(C))
  BY DEF Sound
<1>3. \A q : HasEnd(R, q) => HasEnd(S, q)
  BY <1>1 DEF HasEnd
<1> HIDE DEF S
<1>4. Ascending(S)
  <2>1. \A i \in 1..Len(S) : S[i].q # 0 => i \in 1..Len(R) /\ S[i] = R[i]
    BY <1>1
  <2>2. QED BY <2>1 DEF Ordered, Ascending
<1>5. Ended(S, f)
  <2>1. \A i \in 1..Len(S), q \in Queries : f < q /\ q < S[i].q => i \in 1..Len(R) /\ S[i] = R[i]
    BY <1>1 DEF Queries
  <2>2. QED BY <1>3, <2>1 DEF Ordered, Ended
<1>6. \A i \in 1..Len(S) : Sound(S[i], n, f, n - Len(C))
  BY <1>1, <1>2 DEF Ordered
<1>7. Ordered(S, C, n, f) /\ Complete(S, C, n, f)
  BY <1>3, <1>4, <1>5, <1>6 DEF Ordered, Complete
<1>8. QED BY <1>7 DEF S

(* What is lost with a connection is the end of the flow.                  *)
LEMMA CutOff ==
  ASSUME NEW I \in Seq(AllResults), NEW W \in Seq(AllResults), NEW S \in Seq(Commands), NEW O \in Seq(Commands),
         NEW n \in 0..MaxQueries, NEW f \in Nat, Ordered(I \o W, S \o O, n, f)
  PROVE  /\ Ordered(I, O, n, f)
         /\ \A q : HasEnd(I, q) /\ q # 0 => HasEnd(I \o W, q) /\ \A j \in 1..Len(W) : W[j].q # q
<1> DEFINE R == I \o W
           C == S \o O
<1>1. /\ R \in Seq(AllResults) /\ Len(R) = Len(I) + Len(W) /\ Len(I) \in Nat /\ Len(W) \in Nat
      /\ \A i \in 1..Len(I) : R[i] = I[i] /\ i \in 1..Len(R)
      /\ \A j \in 1..Len(W) : R[Len(I) + j] = W[j] /\ Len(I) + j \in 1..Len(R)
  OBVIOUS
<1>2. /\ Len(C) = Len(S) + Len(O) /\ Len(S) \in Nat /\ Len(O) \in Nat
      /\ \A i \in 1..Len(O) : C[Len(S) + i] = O[i] /\ Len(S) + i \in 1..Len(C)
  OBVIOUS
<1>3. Ordered(R, C, n, f) /\ n \in Nat
  BY Bounds
<1> HIDE DEF R, C
<1>4. Len(O) <= n - f /\ n - Len(C) <= n - Len(O)
  BY <1>2, <1>3 DEF Ordered
<1>5. Numbered(O, n)
  <2> SUFFICES ASSUME NEW i \in 1..Len(O) PROVE O[i].q = (n - Len(O)) + i
    BY DEF Numbered
  <2>1. C[Len(S) + i].q = (n - Len(C)) + (Len(S) + i)
    BY <1>2, <1>3 DEF Ordered, Numbered
  <2>2. QED BY <1>2, <1>3, <2>1
<1>6. \A i \in 1..Len(I) : Sound(I[i], n, f, n - Len(O)) /\ I[i].q \in Nat
  <2> SUFFICES ASSUME NEW i \in 1..Len(I) PROVE Sound(I[i], n, f, n - Len(O)) /\ I[i].q \in Nat
    OBVIOUS
  <2>1. Sound(R[i], n, f, n - Len(C)) /\ R[i] = I[i]
    BY <1>1, <1>3 DEF Ordered
  <2>2. I[i] \in AllResults /\ I[i].q \in Nat
    BY NumbersOf
  <2>3. QED BY <1>2, <1>3, <1>4, <2>1, <2>2 DEF Sound
<1>7. Ascending(I)
  BY <1>1, <1>3 DEF Ordered, Ascending
<1>8. Ended(I, f)
  <2> SUFFICES ASSUME NEW i \in 1..Len(I), NEW q \in Queries, f < q, q < I[i].q PROVE HasEnd(I, q)
    BY DEF Ended
  <2>1. PICK j \in 1..Len(R) : R[j].q = q /\ R[j].k = "end"
    BY <1>1, <1>3 DEF Ordered, Ended, HasEnd
  <2>2. q \in Nat /\ q # 0 /\ I[i].q \in Nat /\ R[i] = I[i] /\ i \in 1..Len(R)
    BY <1>1, <1>6, Bounds DEF Queries
  <2>3. ~(i < j)
    <3>1. Ascending(R) /\ R[i].q # 0 /\ R[j].q # 0
      BY <1>3, <2>1, <2>2 DEF Ordered
    <3>2. i < j => R[i].q <= R[j].q
      BY <2>2, <3>1 DEF Ascending
    <3>3. R[i].q \in Nat /\ R[j].q \in Nat /\ R[j].q < R[i].q
      <4>1. R[j].q = q /\ R[i].q = I[i].q
        BY <2>1, <2>2
      <4>2. QED BY <2>2, <4>1
    <3>4. QED BY <3>2, <3>3
  <2>4. j \in 1..Len(I) /\ I[j] = R[j]
    <3>1. j \in Nat /\ 1 <= j /\ i \in Nat /\ i <= Len(I) /\ Len(I) \in Nat
      BY <1>1
    <3>2. j \in 1..Len(I)
      BY <2>3, <3>1
    <3>3. QED BY <1>1, <3>2
  <2>5. QED BY <2>1, <2>4 DEF HasEnd
<1>9. Ordered(I, O, n, f)
  BY <1>4, <1>5, <1>6, <1>7, <1>8 DEF Ordered
<1>10. ASSUME NEW q, HasEnd(I, q), q # 0
       PROVE  HasEnd(R, q) /\ \A j \in 1..Len(W) : W[j].q # q
  <2>1. PICK i \in 1..Len(I) : I[i].q = q /\ I[i].k = "end"
    BY <1>10 DEF HasEnd
  <2>2. HasEnd(R, q)
    BY <1>1, <2>1 DEF HasEnd
  <2>3. \A j \in 1..Len(W) : W[j].q # q
    <3> SUFFICES ASSUME NEW j \in 1..Len(W), W[j].q = q PROVE FALSE
      OBVIOUS
    <3>1. R[i].q = q /\ R[i].k = "end" /\ R[Len(I) + j].q = q /\ i < Len(I) + j
      BY <1>1, <2>1
    <3>2. R[i].q < R[Len(I) + j].q
      BY <1>1, <1>3, <1>10, <2>1, <3>1 DEF Ordered, Ascending
    <3>3. q \in Nat
      BY <1>6, <2>1
    <3>4. QED BY <3>1, <3>2, <3>3
  <2>4. QED BY <2>2, <2>3
<1>11. QED BY <1>9, <1>10 DEF R
-----------------------------------------------------------------------------
(***************************************************************************)
(* What the reader, the flusher and the server do with the flow            *)
(***************************************************************************)
LEMMA Numbers ==
  ASSUME Data, n_queries \in 0..MaxQueries
  PROVE  /\ Finished \in Nat /\ Finished <= n_queries /\ n_queries \in Nat /\ Len(active) \in Nat
         /\ active # <<>> => Finished < n_queries
         /\ Flow \in Seq(AllResults) /\ Asked \in Seq(Commands)
         /\ input \in Seq(AllResults) /\ wire \in Seq(AllResults)
         /\ server \in Seq(Commands) /\ outbuf \in Seq(Commands) /\ held \in AllResults
<1>1. Len(active) \in Nat /\ (active # <<>> => Len(active) > 0) /\ Len(active) <= n_queries
  BY DEF Data, FlowTypes, Places
<1>2. n_queries \in Nat
  BY Bounds
<1>3. Finished \in Nat /\ Finished <= n_queries /\ (active # <<>> => Finished < n_queries)
  BY <1>1, <1>2 DEF Finished
<1>4. /\ input \in Seq(AllResults) /\ wire \in Seq(AllResults)
      /\ server \in Seq(Commands) /\ outbuf \in Seq(Commands) /\ held \in AllResults
  BY DEF Data, FlowTypes
<1>5. Flow \in Seq(AllResults) /\ Asked \in Seq(Commands)
  BY <1>4 DEF Flow, Asked
<1>6. QED BY <1>1, <1>2, <1>3, <1>4, <1>5

(* Results and commands that have only moved on.                           *)
LEMMA FlowKept ==
  ASSUME Data, FlowTypes', Flow' = Flow, Asked' = Asked, ReaderLives' = ReaderLives,
         fib_reader' = "write" => fib_reader = "write",
         UNCHANGED <<n_queries, stream, active, held, pg, made, taken>>
  PROVE  Data'
<1>1. Places'
  BY DEF Data, Places, Finished
<1>2. InOrder'
  BY DEF Data, InOrder, Finished
<1>3. Lossless'
  <2> SUFFICES ASSUME NEW q \in Queries PROVE LosslessAt(q)'
    BY DEF Lossless
  <2>1. Got(q)' = Got(q) /\ Coming(q)' = Coming(q)
    BY DEF Got, Coming, HeldOf
  <2>2. HasEnd(Flow, q)' = HasEnd(Flow, q) /\ Nowhere(q)' = Nowhere(q)
    BY DEF Nowhere
  <2>3. FlowTypes /\ LosslessAt(q)
    BY DEF Data, Lossless
  <2>4. QED BY <2>1, <2>2, <2>3, AtKept
<1>4. QED BY <1>1, <1>2, <1>3 DEF Data

LEMMA FlusherKeeps ==
  ASSUME Data, n_queries \in 0..MaxQueries, FlusherMain
  PROVE  Data'
<1>1. PICK n \in 0..Len(outbuf) : /\ server' = server \o SubSeq(outbuf, 1, n)
                                  /\ outbuf' = SubSeq(outbuf, n + 1, Len(outbuf))
  BY DEF FlusherMain
<1> DEFINE a == SubSeq(outbuf, 1, n)
           b == SubSeq(outbuf, n + 1, Len(outbuf))
<1>2. server \in Seq(Commands) /\ outbuf \in Seq(Commands)
  BY Numbers
<1>3. a \in Seq(Commands) /\ b \in Seq(Commands) /\ a \o b = outbuf
  BY <1>2, Split
<1> HIDE DEF a, b
<1>4. (server \o a) \o b = server \o (a \o b) /\ server \o a \in Seq(Commands)
  <2>1. server \in Seq(Commands)
    BY <1>2
  <2>2. a \in Seq(Commands) /\ b \in Seq(Commands)
    BY <1>3
  <2>3. (server \o a) \o b = server \o (a \o b)
    BY <2>1, <2>2
  <2>4. QED BY <2>1, <2>2, <2>3
<1>5. server' = server \o a /\ outbuf' = b
  BY <1>1 DEF a, b
<1>6. Asked' = Asked
  BY <1>3, <1>4, <1>5 DEF Asked
<1>7. FlowTypes'
  BY <1>3, <1>4, <1>5 DEF FlusherMain, Data, FlowTypes, history, counts
<1>8. Flow' = Flow /\ ReaderLives' = ReaderLives /\ fib_reader' = fib_reader
  BY DEF FlusherMain, Flow, ReaderLives
<1>9. UNCHANGED <<n_queries, stream, active, held, pg, made, taken>>
  BY DEF FlusherMain, counts, history
<1>10. QED BY <1>6, <1>7, <1>8, <1>9, FlowKept

LEMMA WakesKeeps ==
  ASSUME Data, n_queries \in 0..MaxQueries, ReaderWakes
  PROVE  Data'
<1>1. input \in Seq(AllResults) /\ wire \in Seq(AllResults) /\ input' = input \o wire /\ wire' = <<>>
  BY Numbers DEF ReaderWakes
<1>2. input' \in Seq(AllResults) /\ wire' \in Seq(AllResults) /\ Flow' = Flow
  BY <1>1 DEF Flow
<1>3. FlowTypes'
  BY <1>2 DEF ReaderWakes, Data, FlowTypes, history, counts
<1>4. Asked' = Asked /\ ReaderLives' = ReaderLives /\ fib_reader' = "loop"
  BY DEF ReaderWakes, Asked, ReaderLives
<1>5. UNCHANGED <<n_queries, stream, active, held, pg, made, taken>>
  BY DEF ReaderWakes, counts, history
<1>6. QED BY <1>2, <1>3, <1>4, <1>5, FlowKept

LEMMA WaitsKeeps ==
  ASSUME Data, ReaderWaits, FibersTogether
  PROVE  Data'
<1>1. FlowTypes' /\ Flow' = Flow /\ Asked' = Asked
  BY DEF ReaderWaits, Data, FlowTypes, Flow, Asked, history
<1>2. ReaderLives' = ReaderLives /\ fib_reader' = "wait"
  BY DEF ReaderWaits, FibersTogether, ReaderLives
<1>3. UNCHANGED <<n_queries, stream, active, held, pg, made, taken>>
  BY DEF ReaderWaits, counts, history
<1>4. QED BY <1>1, <1>2, <1>3, FlowKept

(* A stream gets a result that was the next to come to it.                 *)
LEMMA AtMoved ==
  ASSUME FlowTypes, FlowTypes', NEW q \in Queries, LosslessAt(q), stream[q].conn, stream'[q].conn,
         NEW r \in AllResults, Got(q)' = Append(Got(q), r), Coming(q) = <<r>> \o Coming(q)', made'[q] = made[q],
         pg' = "up" \/ HasEnd(Flow, q)' => pg = "up" \/ HasEnd(Flow, q)
  PROVE  LosslessAt(q)'
<1> DEFINE g == Got(q)
           d == Coming(q)'
<1>1. g \in Seq(AllResults) /\ d \in Seq(AllResults) /\ Got(q)' \in Seq(AllResults)
  BY Items, ItemsNext
<1>2. StreamItems(q) = g \o (<<r>> \o d) /\ StreamItems(q)' = Append(g, r) \o d
  BY Items, ItemsNext
<1>3. made[q] \in Seq(AllResults) /\ made'[q] \in Seq(AllResults)
  BY DEF FlowTypes
<1>4. Append(g, r) \o d = g \o (<<r>> \o d)
  <2> HIDE DEF g, d
  <2>1. Append(g, r) = g \o <<r>> /\ <<r>> \in Seq(AllResults)
    BY <1>1
  <2>2. (g \o <<r>>) \o d = g \o (<<r>> \o d)
    BY <1>1, <2>1, Associative
  <2>3. QED BY <2>1, <2>2
<1>5. StreamItems(q)' = StreamItems(q)
  BY <1>2, <1>4
<1>6. Starts(StreamItems(q), made[q])' /\ (pg' = "up" \/ HasEnd(Flow, q)' => StreamItems(q)' = made'[q])
  BY <1>5 DEF LosslessAt
<1>7. Starts(Got(q), made[q])'
  <2> DEFINE u == made'[q]
             h == Got(q)'
  <2>1. Starts(h \o d, u)
    BY <1>1, <1>2, <1>6
  <2>2. h \in Seq(AllResults) /\ u \in Seq(AllResults)
    BY <1>1, <1>3
  <2> HIDE DEF u, h, d
  <2>3. Starts(h, u)
    BY <1>1, <2>1, <2>2, StartsFacts
  <2>4. QED BY <2>3 DEF u, h
<1>8. QED BY <1>6, <1>7 DEF LosslessAt

LEMMA OfQueryFirst ==
  ASSUME NEW q, NEW s \in Seq(AllResults), s # <<>>
  PROVE  /\ Concerns(q, s[1]) => OfQuery(q, s) = <<s[1]>> \o OfQuery(q, Tail(s))
         /\ ~Concerns(q, s[1]) => OfQuery(q, s) = OfQuery(q, Tail(s))
<1> DEFINE r == s[1]
           t == Tail(s)
<1>1. r \in AllResults /\ t \in Seq(AllResults) /\ s = <<r>> \o t /\ <<r>> \in Seq(AllResults)
  BY HeadFirst
<1> HIDE DEF r, t
<1>2. OfQuery(q, <<r>> \o t) = OfQuery(q, <<r>>) \o OfQuery(q, t)
  BY <1>1, OfQueryJoined
<1>3. OfQuery(q, t) \in Seq(AllResults)
  BY <1>1, OfQueryType
<1>4. <<>> \o OfQuery(q, t) = OfQuery(q, t)
  BY <1>3
<1>5. /\ Concerns(q, r) => OfQuery(q, s) = <<r>> \o OfQuery(q, t)
      /\ ~Concerns(q, r) => OfQuery(q, s) = OfQuery(q, t)
  BY <1>1, <1>2, <1>4, OfQueryOne
<1>6. QED BY <1>5 DEF r, t

LEMMA OfQueryLast ==
  ASSUME NEW q, NEW s \in Seq(AllResults), NEW r \in AllResults
  PROVE  /\ Concerns(q, r) => OfQuery(q, Append(s, r)) = Append(OfQuery(q, s), r)
         /\ ~Concerns(q, r) => OfQuery(q, Append(s, r)) = OfQuery(q, s)
<1>1. <<r>> \in Seq(AllResults) /\ Append(s, r) = s \o <<r>>
  OBVIOUS
<1>2. OfQuery(q, s \o <<r>>) = OfQuery(q, s) \o OfQuery(q, <<r>>)
  BY <1>1, OfQueryJoined
<1>3. OfQuery(q, s) \in Seq(AllResults)
  BY OfQueryType
<1>4. OfQuery(q, s) \o <<>> = OfQuery(q, s) /\ OfQuery(q, s) \o <<r>> = Append(OfQuery(q, s), r)
  BY <1>3
<1>5. QED BY <1>1, <1>2, <1>4, OfQueryOne

(* What the reader has got is gone from the flow.                          *)
LEMMA TakenFlow ==
  ASSUME input \in Seq(AllResults), wire \in Seq(AllResults), input # <<>>, input' = Tail(input), wire' = wire
  PROVE  /\ Flow # <<>> /\ Flow[1] = Head(input) /\ Head(input) \in AllResults
         /\ Flow' = Tail(Flow) /\ input' \in Seq(AllResults)
<1> DEFINE h == Head(input)
           t == Tail(input)
<1>1. h \in AllResults /\ t \in Seq(AllResults) /\ input = <<h>> \o t /\ <<h>> \in Seq(AllResults) /\ h = input[1]
  BY HeadFirst
<1> HIDE DEF h, t
<1>2. (<<h>> \o t) \o wire = <<h>> \o (t \o wire)
  BY <1>1, Associative
<1> DEFINE u == t \o wire
<1>3. u \in Seq(AllResults) /\ Flow = <<h>> \o u
  BY <1>1, <1>2 DEF Flow
<1> HIDE DEF u
<1>4. <<h>> \o u # <<>> /\ (<<h>> \o u)[1] = h /\ Tail(<<h>> \o u) = u
  <2> DEFINE v == <<h>> \o u
  <2>1. v \in Seq(AllResults) /\ Len(v) = Len(u) + 1 /\ v[1] = h /\ \A i \in 1..Len(u) : v[i + 1] = u[i]
    BY <1>1, <1>3
  <2> HIDE DEF v
  <2>2. Len(u) \in Nat
    BY <1>3
  <2>3. v # <<>> /\ Tail(v) \in Seq(AllResults) /\ Len(Tail(v)) = Len(u) /\ \A i \in 1..Len(u) : Tail(v)[i] = u[i]
    <3>1. v # <<>>
      BY <2>1, <2>2
    <3>2. QED BY <2>1, <2>2, <3>1, HeadFirst
  <2>4. Tail(v) = u
    BY <1>3, <2>3, SeqEqual
  <2>5. QED BY <2>1, <2>3, <2>4 DEF v
<1>5. Flow' = u
  BY DEF Flow, u, t
<1>6. QED BY <1>1, <1>3, <1>4, <1>5 DEF h, t

(* The order after a result has been taken that is not the end of a query. *)
LEMMA NowhereAfter ==
  ASSUME Flow \in Seq(AllResults), Flow # <<>>, Flow' = Tail(Flow), Asked' = Asked, NEW q \in Queries,
         held'.q # q \/ held'.q = Flow[1].q
  PROVE  /\ Nowhere(q) => Nowhere(q)'
         /\ HasEnd(Flow, q)' => HasEnd(Flow, q)
<1>1. \A i \in 1..Len(Flow') : Flow'[i] = Flow[i + 1] /\ i + 1 \in 1..Len(Flow)
  BY HeadFirst
<1>2. 1 \in 1..Len(Flow)
  OBVIOUS
<1>3. Nowhere(q) => Nowhere(q)'
  BY <1>1, <1>2 DEF Nowhere
<1>4. HasEnd(Flow, q)' => HasEnd(Flow, q)
  BY <1>1 DEF HasEnd
<1>5. QED BY <1>3, <1>4

(* One more result in the FIFO of a stream.                                *)
Appends(q, r) ==
    /\ stream' \in [Queries -> Streams]
    /\ \A p \in Queries : Alike(p) /\ (p # q => stream'[p] = stream[p])
    /\ stream'[q].fifo = Append(stream[q].fifo, r)
LEMMA Appending ==
  ASSUME stream \in [Queries -> Streams], NEW q \in Queries, NEW r \in AllResults,
         stream' = [stream EXCEPT ![q].fifo = Append(@, r)]
  PROVE  Appends(q, r)
<1> DEFINE f == Append(stream[q].fifo, r)
<1>1. f \in Seq(AllResults)
  BY DEF Streams
<1>2. stream' = [stream EXCEPT ![q].fifo = f]
  OBVIOUS
<1> HIDE DEF f
<1>3. stream'[q] \in Streams /\ stream'[q] = [stream[q] EXCEPT !.fifo = f] /\ stream[q] \in Streams
  BY <1>1, <1>2 DEF Streams
<1>4. stream'[q].fifo = f /\ Alike(q)
  BY <1>3 DEF Streams, Alike
<1>5. \A p \in Queries : p # q => stream'[p] = stream[p]
  BY <1>2
<1>6. stream' \in [Queries -> Streams]
  BY <1>2, <1>3, <1>5
<1>7. QED BY <1>4, <1>5, <1>6 DEF Appends, Alike, f

(* The stream of the result is there and has room, or the reader waits.    *)
LEMMA ReceiveKeeps ==
  ASSUME Data, n_queries \in 0..MaxQueries, FibersTogether, ReaderTakes, Head(input).k # "end"
  PROVE  Data'
<1> DEFINE r == Head(input)
           rs == Head(active)
           n == Finished + 1
<1>1. /\ active # <<>> /\ input # <<>> /\ input' = Tail(input) /\ wire' = wire
      /\ fib_reader = "loop"
      /\ UNCHANGED <<n_queries, shutdown, pg, outbuf, server, made, taken, active>>
  BY DEF ReaderTakes, InLoop, counts, history
<1>2. ReaderLives /\ held = None
  BY <1>1 DEF FibersTogether, ReaderLives
<1>3. /\ Flow # <<>> /\ Flow[1] = r /\ r \in AllResults
      /\ Flow' = Tail(Flow) /\ input' \in Seq(AllResults)
  BY <1>1, Numbers, TakenFlow
<1>4. Ordered(Flow, Asked, n_queries, Finished) /\ (pg = "up" => Complete(Flow, Asked, n_queries, Finished))
  BY <1>2 DEF Data, InOrder
<1>5. /\ Finished \in Nat /\ Finished < n_queries /\ n \in Queries
      /\ Flow \in Seq(AllResults) /\ Asked \in Seq(Commands)
  BY <1>1, Numbers, Bounds DEF Queries
<1>6. Sound(r, n_queries, Finished, n_queries - Len(Asked))
  <2>1. 1 \in 1..Len(Flow)
    BY <1>3, <1>5
  <2>2. QED BY <1>3, <1>4, <2>1 DEF Ordered
<1>7. r.q # 0 => r.q = n
  BY <1>3, <1>4, <1>5, HeadIsNext
<1>8. /\ Ordered(Flow', Asked, n_queries, Finished)
      /\ pg = "up" => Complete(Flow', Asked, n_queries, Finished)
  BY <1>3, <1>4, <1>5, TakeOne
<1>9. rs \in {0, n} /\ (rs # n => ~stream[n].conn) /\ (rs = n => stream[n].conn)
  <2>1. rs = active[1] /\ 1 \in 1..Len(active)
    BY <1>1 DEF Data, FlowTypes
  <2>2. n - Finished = 1
    BY <1>5
  <2>3. QED BY <1>5, <2>1, <2>2 DEF Data, Places
<1>10. Finished' = Finished /\ ReaderLives' /\ Asked' = Asked
  <2>1. fib_reader' \in {"loop", "write"}
    BY <1>1 DEF ReaderTakes
  <2>2. QED BY <1>1, <1>2, <2>1 DEF Finished, ReaderLives, Asked
<1> DEFINE Skipped == r.k = "sync" \/ rs = 0
           Room == ~Skipped /\ Len(stream[rs].fifo) < FifoRows
           Full == ~Skipped /\ ~(Len(stream[rs].fifo) < FifoRows)
<1>11. /\ Skipped => UNCHANGED <<stream, fib_reader, held>>
       /\ Room => /\ stream' = [stream EXCEPT ![rs].fifo = Append(@, r)]
                  /\ UNCHANGED <<fib_reader, held>>
       /\ Full => fib_reader' = "write" /\ held' = r /\ stream' = stream
  BY DEF ReaderTakes
<1>12. Skipped \/ Room \/ Full
  OBVIOUS
<1>13. ~Skipped => r.q = n /\ rs = n /\ stream[n].conn /\ r.k \in {"row", "done", "error"} /\ Concerns(n, r)
  <2>1. r.k \in Kinds
    BY <1>3 DEF AllResults
  <2>2. ~Skipped => r.q # 0 /\ r.k # "none"
    BY <1>6 DEF Sound
  <2>3. QED BY <1>7, <1>9, <2>1, <2>2 DEF Kinds, Concerns
<1>14. \A q \in Queries : stream[q].conn /\ (q # n \/ Skipped) => ~Concerns(q, r)
  <2> SUFFICES ASSUME NEW q \in Queries, stream[q].conn, q # n \/ Skipped, r.q = q, r.k # "sync" PROVE FALSE
    BY DEF Concerns
  <2>1. q # 0
    BY Bounds DEF Queries
  <2>2. QED BY <1>7, <1>9, <2>1, <1>5, Bounds DEF Queries
<1>23. Room => Appends(n, r)
  <2> SUFFICES ASSUME Room PROVE Appends(n, r)
    OBVIOUS
  <2>1. rs = n /\ stream' = [stream EXCEPT ![rs].fifo = Append(@, r)]
    BY <1>11, <1>13
  <2>2. stream \in [Queries -> Streams]
    BY DEF Data, FlowTypes
  <2> HIDE DEF r, rs, n
  <2>3. QED BY <1>3, <1>5, <2>1, <2>2, Appending
<1> HIDE DEF r, rs, Skipped, Room, Full
<1>15. \A q \in Queries : /\ stream'[q].conn = stream[q].conn /\ stream'[q].open = stream[q].open
                          /\ stream'[q].out = stream[q].out /\ stream'[q].cut = stream[q].cut
                          /\ q # n \/ Skipped \/ Full => stream'[q] = stream[q]
  <2>1. (Skipped \/ Full) => stream' = stream
    BY <1>11
  <2>2. Room => ~Skipped /\ ~Full
    BY DEF Room, Full
  <2>3. QED BY <1>12, <1>23, <2>1, <2>2 DEF Appends, Alike
<1>16. stream' \in [Queries -> Streams]
  BY <1>11, <1>12, <1>23 DEF Data, FlowTypes, Appends
<1>17. held' \in AllResults /\ (held' = held \/ (Full /\ held' = r))
  BY <1>3, <1>11, <1>12 DEF Data, FlowTypes
<1>18. FlowTypes'
  BY <1>1, <1>3, <1>16, <1>17 DEF Data, FlowTypes
<1>19. Places'
  <2>1. \A q \in Queries : ~stream[q].open => stream'[q].fifo = stream[q].fifo
    <3>1. stream[n].conn => stream[n].open
      BY <1>5 DEF Data, Places
    <3>2. QED BY <1>12, <1>13, <1>15, <3>1 DEF Room, Full
  <2>2. QED BY <1>1, <1>10, <1>15, <2>1 DEF Data, Places
<1>20. InOrder'
  <2>1. fib_reader' = "write" => held'.q = n
    BY <1>1, <1>11, <1>12, <1>13 DEF Full
  <2>2. QED BY <1>1, <1>8, <1>10, <2>1 DEF InOrder
<1>21. ASSUME NEW q \in Queries PROVE LosslessAt(q)'
  <2>1. FlowTypes /\ LosslessAt(q) /\ made'[q] = made[q]
    BY <1>1 DEF Data, Lossless
  <2>2. (Nowhere(q) => Nowhere(q)') /\ (HasEnd(Flow, q)' => HasEnd(Flow, q))
    <3>1. held'.q # q \/ held'.q = Flow[1].q
      <4>1. held.q # q
        BY <1>2, Bounds DEF None, Result, Queries
      <4>2. QED BY <1>3, <1>17, <4>1
    <3>2. QED BY <1>3, <1>5, <1>10, <3>1, NowhereAfter
  <2>3. HeldOf(q) = <<>>
    BY <1>2, Bounds DEF HeldOf, None, Result, Queries
  <2>4. /\ Concerns(q, r) => OfQuery(q, Flow) = <<r>> \o OfQuery(q, Flow')
        /\ ~Concerns(q, r) => OfQuery(q, Flow) = OfQuery(q, Flow')
    BY <1>3, <1>5, OfQueryFirst
  <2>5. OfQuery(q, Flow') \in Seq(AllResults) /\ OfQuery(q, Flow) \in Seq(AllResults)
    <3>1. Flow' \in Seq(AllResults)
      BY <1>18 DEF Flow, FlowTypes
    <3>2. QED BY <1>5, <3>1, OfQueryType
  <2>6. Coming(q) = OfQuery(q, Flow)
    BY <2>3, <2>5 DEF Coming
  <2>7. CASE q # n \/ Skipped
    <3>1. stream'[q] = stream[q]
      BY <1>15, <2>7
    <3>2. held' # r \/ r.q # q \/ ~stream[q].conn \/ held' = held
      BY <1>13, <1>17, <2>7 DEF Full
    <3>3. stream[q].conn => HeldOf(q)' = <<>>
      BY <1>17, <2>3, <3>2 DEF HeldOf
    <3>4. stream'[q].conn => Coming(q)' = Coming(q)
      <4> SUFFICES ASSUME stream[q].conn PROVE Coming(q)' = Coming(q)
        BY <3>1
      <4>1. OfQuery(q, Flow) = OfQuery(q, Flow')
        BY <1>14, <2>4, <2>7
      <4>2. Coming(q)' = <<>> \o OfQuery(q, Flow')
        BY <3>3 DEF Coming
      <4>3. QED BY <2>5, <2>6, <4>1, <4>2
    <3>5. Got(q)' = Got(q)
      BY <1>1, <3>1 DEF Got
    <3>6. QED BY <1>1, <1>18, <2>1, <2>2, <3>1, <3>4, <3>5, AtKept
  <2>8. CASE q = n /\ Room
    <3>1. /\ stream[q].conn /\ stream'[q].conn /\ Concerns(q, r) /\ held' = held
          /\ stream'[q].fifo = Append(stream[q].fifo, r)
      <4>1. stream[q].conn /\ Concerns(q, r) /\ rs = q /\ ~Skipped
        BY <1>13, <2>8 DEF Room
      <4>2. held' = held
        BY <1>11, <2>8
      <4>3. stream'[q].fifo = Append(stream[q].fifo, r)
        BY <1>23, <2>8 DEF Appends
      <4>4. QED BY <1>15, <4>1, <4>2, <4>3
    <3>2. Got(q)' = Append(Got(q), r)
      <4>1. taken[q] \in Seq(AllResults) /\ stream[q].fifo \in Seq(AllResults)
        BY DEF Data, FlowTypes, Streams
      <4>2. Append(taken[q] \o stream[q].fifo, r) = taken[q] \o Append(stream[q].fifo, r)
        BY <1>3, <4>1, AppendJoined
      <4>3. QED BY <1>1, <3>1, <4>2 DEF Got
    <3>3. Coming(q) = <<r>> \o Coming(q)'
      <4>1. HeldOf(q)' = <<>>
        BY <2>3, <3>1 DEF HeldOf
      <4>2. Coming(q)' = OfQuery(q, Flow')
        BY <2>5, <4>1 DEF Coming
      <4>3. QED BY <2>4, <2>6, <3>1, <4>2
    <3>4. QED BY <1>1, <1>3, <1>18, <2>1, <2>2, <3>1, <3>2, <3>3, AtMoved
  <2>9. CASE q = n /\ Full
    <3>1. stream'[q] = stream[q] /\ held' = r /\ Concerns(q, r) /\ r.q = q
      BY <1>11, <1>13, <2>9 DEF Full
    <3>2. Coming(q)' = <<r>> \o OfQuery(q, Flow')
      BY <3>1 DEF Coming, HeldOf
    <3>3. Coming(q)' = Coming(q)
      BY <2>4, <2>6, <3>1, <3>2
    <3>4. Got(q)' = Got(q)
      BY <1>1, <3>1 DEF Got
    <3>5. QED BY <1>1, <1>18, <2>1, <2>2, <3>1, <3>3, <3>4, AtKept
  <2>10. QED BY <1>12, <2>7, <2>8, <2>9
<1>22. QED BY <1>18, <1>19, <1>20, <1>21 DEF Data, Lossless

(* The end of a query: the stream has got all of it.                       *)
LEMMA EndKeeps ==
  ASSUME Data, n_queries \in 0..MaxQueries, FibersTogether, ReaderTakes, Head(input).k = "end"
  PROVE  Data'
<1> DEFINE r == Head(input)
           rs == Head(active)
           n == Finished + 1
<1>1. /\ active # <<>> /\ input # <<>> /\ input' = Tail(input) /\ wire' = wire
      /\ fib_reader = "loop" /\ active' = Tail(active)
      /\ UNCHANGED <<n_queries, fib_reader, held, shutdown, pg, outbuf, server, made, taken>>
  BY DEF ReaderTakes, InLoop, counts, history
<1>18. stream' = IF rs = 0 THEN stream ELSE [stream EXCEPT ![rs].out = FALSE, ![rs].conn = FALSE]
  BY DEF ReaderTakes
<1>2. ReaderLives /\ held = None
  BY <1>1 DEF FibersTogether, ReaderLives
<1>3. /\ Flow # <<>> /\ Flow[1] = r /\ r \in AllResults
      /\ Flow' = Tail(Flow) /\ input' \in Seq(AllResults)
  BY <1>1, Numbers, TakenFlow
<1>4. Ordered(Flow, Asked, n_queries, Finished) /\ (pg = "up" => Complete(Flow, Asked, n_queries, Finished))
  BY <1>2 DEF Data, InOrder
<1>5. /\ Finished \in Nat /\ Finished < n_queries /\ n \in Queries
      /\ Flow \in Seq(AllResults) /\ Asked \in Seq(Commands)
  <2>1. active # <<>>
    BY <1>1
  <2>2. /\ Finished \in Nat /\ Finished < n_queries /\ n_queries \in Nat
        /\ Flow \in Seq(AllResults) /\ Asked \in Seq(Commands) /\ held \in AllResults
    BY <2>1, Numbers
  <2>3. QED BY <2>2, Bounds DEF Queries
<1>6. Sound(r, n_queries, Finished, n_queries - Len(Asked))
  <2>1. 1 \in 1..Len(Flow)
    BY <1>3, <1>5
  <2>2. QED BY <1>3, <1>4, <2>1 DEF Ordered
<1>7. r.q = n
  <2>1. r.q # 0
    BY <1>6 DEF Sound
  <2>2. QED BY <1>3, <1>4, <1>5, <2>1, HeadIsNext
<1>8. /\ Ordered(Flow', Asked, n_queries, n)
      /\ pg = "up" => Complete(Flow', Asked, n_queries, n)
      /\ \A i \in 1..Len(Flow') : Flow'[i].q # n
      /\ \A i \in 1..Len(Asked) : Asked[i].q # n
  BY <1>3, <1>4, <1>5, <1>7, TakeEnd
<1>9. /\ active' \in Seq(0..MaxQueries) /\ Len(active') = Len(active) - 1 /\ Len(active) \in Nat
      /\ \A i \in 1..Len(active') : active'[i] = active[i + 1] /\ i + 1 \in 1..Len(active)
      /\ rs = active[1] /\ 1 \in 1..Len(active)
  BY <1>1 DEF Data, FlowTypes
<1>10. Finished' = n /\ ReaderLives' /\ Asked' = Asked /\ n - Finished = 1
  BY <1>1, <1>2, <1>5, <1>9 DEF Finished, ReaderLives, Asked
<1>11. rs \in {0, n} /\ (rs # n => ~stream[n].conn)
  BY <1>5, <1>9, <1>10 DEF Data, Places
<1>12. /\ stream' \in [Queries -> Streams] /\ ~stream'[n].conn
       /\ \A q \in Queries : /\ q # n => stream'[q] = stream[q]
                             /\ stream'[q].open = stream[q].open /\ stream'[q].fifo = stream[q].fifo
                             /\ stream'[q].cut = stream[q].cut
  <2>1. CASE rs = 0
    <3>1. stream' = stream /\ n # 0
      BY <1>18, <1>5, <2>1
    <3>2. QED BY <1>11, <2>1, <3>1 DEF Data, FlowTypes
  <2>2. CASE rs = n
    <3>3. n # 0
      BY <1>5
    <3>1. stream' = [stream EXCEPT ![n].out = FALSE, ![n].conn = FALSE]
      <4> HIDE DEF n, rs
      <4>1. QED BY <1>18, <2>2, <3>3
    <3> HIDE DEF n
    <3>2. QED BY <1>5, <3>1 DEF Data, FlowTypes, Streams
  <2>3. QED BY <1>11, <2>1, <2>2
<1> HIDE DEF r, rs
<1>13. FlowTypes'
  BY <1>1, <1>3, <1>9, <1>12 DEF Data, FlowTypes
<1>14. Places'
  <2>1. Len(active') <= n_queries'
    BY <1>1, <1>9 DEF Data, Places
  <2>2. \A i \in 1..Len(active') : active'[i] \in {0, Finished' + i}
    <3> SUFFICES ASSUME NEW i \in 1..Len(active') PROVE active'[i] \in {0, Finished' + i}
      OBVIOUS
    <3>1. active[i + 1] \in {0, Finished + (i + 1)} /\ active'[i] = active[i + 1]
      BY <1>9 DEF Data, Places
    <3>2. Finished + (i + 1) = Finished' + i
      BY <1>5, <1>9, <1>10
    <3>3. QED BY <3>1, <3>2
  <2>3. ASSUME NEW q \in Queries
        PROVE  /\ stream'[q].conn => q - Finished' \in 1..Len(active') /\ active'[q - Finished'] = q
               /\ q - Finished' \in 1..Len(active') /\ active'[q - Finished'] = q => stream'[q].conn
               /\ stream'[q].conn => stream'[q].open /\ stream'[q].out /\ ~stream'[q].cut
               /\ ~stream'[q].open => stream'[q].fifo = <<>> /\ made'[q] = <<>> /\ taken'[q] = <<>>
               /\ q > n_queries' => ~stream'[q].open
    <3>1. /\ stream[q].conn => q - Finished \in 1..Len(active) /\ active[q - Finished] = q
          /\ q - Finished \in 1..Len(active) /\ active[q - Finished] = q => stream[q].conn
          /\ stream[q].conn => stream[q].open /\ stream[q].out /\ ~stream[q].cut
          /\ ~stream[q].open => /\ stream[q].fifo = <<>> /\ made[q] = <<>> /\ taken[q] = <<>>
          /\ q > n_queries => ~stream[q].open
      BY DEF Data, Places
    <3>2. q \in Nat /\ q - n = (q - Finished) - 1
      BY <1>5, Bounds DEF Queries
    <3>3. CASE q = n
      <4>1. q - Finished' = 0
        BY <1>10, <3>2, <3>3, <1>5
      <4>2. QED BY <1>1, <1>12, <3>1, <3>3, <4>1
    <3>4. CASE q # n
      <4>1. q - Finished \in 1..Len(active) => q - Finished' \in 1..Len(active')
        BY <1>5, <1>9, <1>10, <3>2, <3>4
      <4>2. q - Finished' \in 1..Len(active') =>
              /\ q - Finished \in 1..Len(active) /\ active'[q - Finished'] = active[q - Finished]
        BY <1>5, <1>9, <1>10, <3>2
      <4>3. QED BY <1>1, <1>12, <3>1, <3>4, <4>1, <4>2
    <3>5. QED BY <3>3, <3>4
  <2>4. QED BY <2>1, <2>2, <2>3 DEF Places
<1>15. InOrder'
  BY <1>1, <1>8, <1>10 DEF InOrder
<1>16. ASSUME NEW q \in Queries PROVE LosslessAt(q)'
  <2>1. FlowTypes /\ LosslessAt(q) /\ made'[q] = made[q]
    BY <1>1 DEF Data, Lossless
  <2>2. q # 0 /\ held.q # q /\ held' = held
    BY <1>1, <1>2, Bounds DEF None, Result, Queries
  <2>3. (Nowhere(q) => Nowhere(q)') /\ (HasEnd(Flow, q)' => HasEnd(Flow, q))
    BY <1>3, <1>5, <1>10, <2>2, NowhereAfter
  <2>4. ~Concerns(q, r)
    BY DEF Concerns, r
  <2>5. OfQuery(q, Flow)' = OfQuery(q, Flow)
    BY <1>3, <1>5, <2>4, OfQueryFirst
  <2>6. Coming(q)' = Coming(q)
    BY <2>2, <2>5 DEF Coming, HeldOf
  <2>7. Got(q)' = Got(q)
    BY <1>1, <1>12 DEF Got
  <2>8. CASE q # n
    <3>1. stream'[q] = stream[q]
      BY <1>12, <2>8
    <3>2. QED BY <1>1, <1>13, <2>1, <2>3, <2>6, <2>7, <3>1, AtKept
  <2>9. CASE q = n /\ ~stream[q].conn
    BY <1>1, <1>12, <1>13, <2>1, <2>3, <2>6, <2>7, <2>9, AtKept
  <2>10. CASE q = n /\ stream[q].conn
    <3>1. HasEnd(Flow, q)
      <4>1. 1 \in 1..Len(Flow) /\ Flow[1].q = q /\ Flow[1].k = "end"
        BY <1>3, <1>5, <1>7, <2>10 DEF r
      <4>2. QED BY <4>1 DEF HasEnd
    <3>2. StreamItems(q) = made[q]
      BY <2>1, <2>10, <3>1 DEF LosslessAt
    <3>3. Coming(q) = <<>>
      <4>1. \A i \in 1..Len(Flow') : ~Concerns(q, Flow'[i])
        BY <1>8, <2>10 DEF Concerns
      <4>2. Flow' \in Seq(AllResults)
        BY <1>13 DEF Flow, FlowTypes
      <4>3. OfQuery(q, Flow') = <<>>
        BY <4>1, <4>2, OfQueryNone
      <4>4. QED BY <2>2, <2>5, <4>3 DEF Coming, HeldOf
    <3>4. Got(q) = made[q]
      <4>1. Got(q) \in Seq(AllResults) /\ StreamItems(q) = Got(q) \o Coming(q)
        BY <2>1, Items
      <4>2. Got(q) \o <<>> = Got(q)
        BY <4>1
      <4>3. QED BY <3>2, <3>3, <4>1, <4>2
    <3>5. Nowhere(q)'
      BY <1>8, <1>10, <2>2, <2>10 DEF Nowhere
    <3>6. Starts(Got(q), made[q])'
      BY <2>1, <2>7 DEF LosslessAt, Starts
    <3>7. ~stream'[q].conn
      BY <1>12, <2>10
    <3>8. QED BY <2>1, <2>7, <3>4, <3>5, <3>6, <3>7 DEF LosslessAt
  <2>11. QED BY <2>8, <2>9, <2>10
<1>17. QED BY <1>13, <1>14, <1>15, <1>16 DEF Data, Lossless

LEMMA TakesKeeps ==
  ASSUME Data, n_queries \in 0..MaxQueries, FibersTogether, ReaderTakes
  PROVE  Data'
  BY ReceiveKeeps, EndKeeps

(* The result the reader had held on to.                                   *)
LEMMA WritesKeeps ==
  ASSUME Data, n_queries \in 0..MaxQueries, FibersTogether, ReaderWrites, Head(active) # 0
  PROVE  Data'
<1> DEFINE rs == Head(active)
           n == Finished + 1
<1>14. stream' = [stream EXCEPT ![rs].fifo = Append(@, held)]
  BY DEF ReaderWrites
<1>1. /\ fib_reader = "write" /\ "reader" \notin shutdown /\ rs # 0
      /\ fib_reader' = "loop" /\ held' = None
      /\ UNCHANGED <<n_queries, active, shutdown, pg, outbuf, server, wire, input, made, taken>>
  BY DEF ReaderWrites, counts, pq
<1>2. ReaderLives /\ held.k \in {"row", "done", "error"}
  BY <1>1 DEF FibersTogether, ReaderLives
<1>3. active # <<>> /\ held.q = n
  BY <1>1, <1>2 DEF Data, InOrder
<1>4. Finished \in Nat /\ n \in Queries /\ held \in AllResults
  <2>1. active # <<>>
    BY <1>3
  <2>2. /\ Finished \in Nat /\ Finished < n_queries /\ n_queries \in Nat
        /\ Flow \in Seq(AllResults) /\ Asked \in Seq(Commands) /\ held \in AllResults
    BY <2>1, Numbers
  <2>3. QED BY <2>2, Bounds DEF Queries
<1>5. rs = n /\ stream[n].conn /\ stream[n].open
  <2>1. rs = active[1] /\ 1 \in 1..Len(active)
    <3>1. active # <<>> /\ active \in Seq(0..MaxQueries)
      BY <1>3 DEF Data, FlowTypes
    <3>2. QED BY <3>1
  <2>2. n - Finished = 1
    <3>1. Finished \in Nat
      BY <1>4
    <3>2. QED BY <3>1
  <2>3. active[1] \in {0, n} /\ rs # 0
    BY <1>1, <2>1 DEF Data, Places
  <2>4. QED BY <1>4, <2>1, <2>2, <2>3 DEF Data, Places
<1>6. Appends(n, held)
  <2>1. stream \in [Queries -> Streams]
    BY DEF Data, FlowTypes
  <2>2. stream' = [stream EXCEPT ![n].fifo = Append(@, held)]
    <3> HIDE DEF rs, n
    <3>1. QED BY <1>14, <1>5
  <2> HIDE DEF rs, n
  <2>3. QED BY <1>4, <2>1, <2>2, Appending
<1>7. None \in AllResults
  BY DEF None, Result, AllResults, Kinds
<1> HIDE DEF rs, n
<1>8. FlowTypes'
  BY <1>1, <1>6, <1>7 DEF Data, FlowTypes, Appends
<1>15. None.q = 0 /\ \A q \in Queries : q # 0
  BY Bounds DEF None, Result, Queries
<1>9. Finished' = Finished /\ ReaderLives' /\ Flow' = Flow /\ Asked' = Asked
  BY <1>1, <1>2 DEF Finished, ReaderLives, Flow, Asked
<1>10. Places'
  <2>1. UNCHANGED <<n_queries, active, made, taken>>
    BY <1>1
  <2>2. \A q \in Queries : Alike(q) /\ (~stream[q].open => stream'[q].fifo = stream[q].fifo)
    BY <1>5, <1>6 DEF Appends
  <2>3. QED BY <1>9, <2>1, <2>2 DEF Data, Places, Alike
<1>11. InOrder'
  BY <1>1, <1>2, <1>9 DEF Data, InOrder
<1>12. ASSUME NEW q \in Queries PROVE LosslessAt(q)'
  <2>1. FlowTypes /\ LosslessAt(q) /\ made'[q] = made[q] /\ Alike(q)
    BY <1>1, <1>6 DEF Data, Lossless, Appends
  <2>2. held'.q # q
    BY <1>1, <1>15
  <2>3. Nowhere(q) => Nowhere(q)'
    BY <1>9, <2>2 DEF Nowhere
  <2>4. OfQuery(q, Flow)' = OfQuery(q, Flow) /\ HasEnd(Flow, q)' = HasEnd(Flow, q) /\ pg' = pg
    BY <1>1, <1>9
  <2>5. CASE q # n
    <3>1. Coming(q)' = Coming(q)
      BY <1>3, <2>2, <2>4, <2>5 DEF Coming, HeldOf
    <3>2. Got(q)' = Got(q) /\ stream'[q] = stream[q]
      BY <1>1, <1>6, <2>5 DEF Got, Appends
    <3>3. QED BY <1>8, <2>1, <2>3, <2>4, <3>1, <3>2, AtKept
  <2>6. CASE q = n
    <3>1. Got(q)' = Append(Got(q), held)
      <4>1. taken[q] \in Seq(AllResults) /\ stream[q].fifo \in Seq(AllResults)
        BY DEF Data, FlowTypes, Streams
      <4>2. Append(taken[q] \o stream[q].fifo, held) = taken[q] \o Append(stream[q].fifo, held)
        BY <1>4, <4>1, AppendJoined
      <4>3. QED BY <1>1, <1>6, <2>6, <4>2 DEF Got, Appends
    <3>2. Coming(q) = <<held>> \o Coming(q)'
      <4>1. OfQuery(q, Flow) \in Seq(AllResults)
        <5>1. Flow \in Seq(AllResults)
          BY Numbers
        <5>2. QED BY <5>1, OfQueryType
      <4>2. HeldOf(q)' = <<>> /\ HeldOf(q) = <<held>>
        BY <1>3, <2>2, <2>6 DEF HeldOf
      <4>3. Coming(q)' = OfQuery(q, Flow)
        <5>1. Coming(q)' = <<>> \o OfQuery(q, Flow)
          BY <2>4, <4>2 DEF Coming
        <5>2. <<>> \o OfQuery(q, Flow) = OfQuery(q, Flow)
          BY <4>1
        <5>3. QED BY <5>1, <5>2
      <4>4. QED BY <4>2, <4>3 DEF Coming
    <3>3. stream[q].conn /\ stream'[q].conn
      BY <1>5, <2>1, <2>6 DEF Alike
    <3>4. QED BY <1>4, <1>8, <2>1, <2>4, <3>1, <3>2, <3>3, AtMoved
  <2>7. QED BY <2>5, <2>6
<1>13. QED BY <1>8, <1>10, <1>11, <1>12 DEF Data, Lossless

(* A result the server has made for the first query it has, and sent.      *)
Sends(r) ==
    /\ r \in AllResults /\ r.q \in Queries /\ r.k \in {"row", "done", "error"}
    /\ Asked # <<>> /\ r.q = Asked[1].q
    /\ Makes(r)
    /\ \A q \in Queries : /\ q = r.q => OfQuery(q, Flow)' = Append(OfQuery(q, Flow), r)
                          /\ q # r.q => OfQuery(q, Flow)' = OfQuery(q, Flow)
    /\ \A q \in Queries : q # r.q /\ Nowhere(q) => Nowhere(q)'
LEMMA SendsKeeps ==
  ASSUME Data, n_queries \in 0..MaxQueries, NEW r, Sends(r), FlowTypes', InOrder', pg = "up",
         UNCHANGED <<n_queries, stream, active, held, pg, taken>>
  PROVE  Data'
<1>1. /\ r \in AllResults /\ r.q \in Queries
      /\ \A q \in Queries : /\ q # r.q \/ ~stream[q].open => made'[q] = made[q]
                            /\ q = r.q /\ stream[q].open => made'[q] = Append(made[q], r)
  BY DEF Sends, Makes, Data, FlowTypes
<1>2. Places'
  BY <1>1 DEF Data, Places, Finished
<1>3. ASSUME NEW q \in Queries PROVE LosslessAt(q)'
  <2>1. FlowTypes /\ LosslessAt(q) /\ Got(q)' = Got(q) /\ HeldOf(q)' = HeldOf(q)
    BY DEF Data, Lossless, Got, HeldOf
  <2>2. CASE q # r.q
    <3>1. Coming(q)' = Coming(q)
      BY <2>1, <2>2 DEF Coming, Sends
    <3>2. QED BY <1>1, <2>1, <2>2, <3>1, AtKept DEF Sends
  <2>3. CASE q = r.q /\ ~stream[q].open
    <3>1. ~stream'[q].open /\ ~stream'[q].conn /\ made'[q] = made[q]
      BY <1>1, <2>3 DEF Data, Places
    <3>2. QED BY <2>1, <3>1 DEF LosslessAt, Starts
  <2>4. CASE q = r.q /\ stream[q].open
    <3>1. made'[q] = Append(made[q], r) /\ made[q] \in Seq(AllResults)
      BY <1>1, <2>4 DEF Data, FlowTypes
    <3>2. Got(q) \in Seq(AllResults) /\ Coming(q) \in Seq(AllResults) /\ HeldOf(q) \in Seq(AllResults)
      BY <2>1, Items
    <3>3. Starts(Got(q), made[q])'
      <4> DEFINE s == Got(q)
                 u == made[q]
      <4>1. Starts(s, u) /\ s \in Seq(AllResults) /\ u \in Seq(AllResults)
        BY <2>1, <3>1, <3>2 DEF LosslessAt
      <4> HIDE DEF s, u
      <4>2. Starts(s, Append(u, r))
        BY <1>1, <4>1, StartsFacts
      <4>3. Starts(Got(q), Append(made[q], r))
        BY <4>2 DEF s, u
      <4>4. QED BY <2>1, <3>1, <4>3 DEF Starts
    <3>4. Coming(q)' = Append(Coming(q), r)
      <4> DEFINE h == HeldOf(q)
                 o == OfQuery(q, Flow)
      <4>1. Coming(q)' = h \o Append(o, r) /\ Coming(q) = h \o o
        BY <2>1, <2>4 DEF Coming, Sends
      <4>2. Flow \in Seq(AllResults)
        BY Numbers
      <4>3. h \in Seq(AllResults) /\ o \in Seq(AllResults)
        BY <3>2, <4>2, OfQueryType
      <4> HIDE DEF h, o
      <4>4. Append(h \o o, r) = h \o Append(o, r)
        BY <1>1, <4>3, AppendJoined
      <4>5. QED BY <4>1, <4>4
    <3>5. StreamItems(q)' = Append(StreamItems(q), r)
      <4>1. Append(Got(q) \o Coming(q), r) = Got(q) \o Append(Coming(q), r)
        BY <1>1, <3>2, AppendJoined
      <4>2. StreamItems(q) = Got(q) \o Coming(q) /\ StreamItems(q)' = Got(q)' \o Coming(q)'
        BY <2>1, Items, ItemsNext
      <4>3. QED BY <2>1, <3>4, <4>1, <4>2
    <3>6. stream[q].conn => StreamItems(q)' = made'[q]
      BY <2>1, <3>1, <3>5 DEF LosslessAt
    <3>7. ~Nowhere(q)
      <4>1. 1 \in 1..Len(Asked)
        <5>1. Asked \in Seq(Commands) /\ Asked # <<>>
          BY Numbers DEF Sends
        <5>2. QED BY <5>1
      <4>2. QED BY <2>4, <4>1 DEF Nowhere, Sends
    <3>8. made'[q] \in Seq(AllResults)
      BY DEF FlowTypes
    <3>9. Starts(made'[q], made'[q])
      BY <3>8 DEF Starts
    <3>10. stream[q].conn => Starts(StreamItems(q), made[q])'
      BY <3>6, <3>9 DEF Starts
    <3>11. QED BY <2>1, <3>3, <3>6, <3>7, <3>10 DEF LosslessAt
  <2>5. QED BY <2>2, <2>3, <2>4
<1>4. QED BY <1>2, <1>3 DEF Data, Lossless

LEMMA NowhereSent ==
  ASSUME Flow \in Seq(AllResults), NEW r \in AllResults, NEW q \in Queries, Nowhere(q), r.q # q,
         NEW F, F = Append(Flow, r)
  PROVE  \A i \in 1..Len(F) : F[i].q # q
<1>1. \A i \in 1..Len(F) : F[i] = r \/ (i \in 1..Len(Flow) /\ F[i] = Flow[i])
  OBVIOUS
<1>2. QED BY <1>1 DEF Nowhere

LEMMA RowKeeps ==
  ASSUME Data, n_queries \in 0..MaxQueries, ServerRow
  PROVE  Data'
<1> DEFINE x == Head(server)
           r == Result(x.q, "row", x.rows + 1)
<1>1. /\ pg = "up" /\ server # <<>> /\ x.op = "query"
      /\ Makes(r) /\ wire' = wire \o <<r>>
      /\ UNCHANGED <<n_queries, stream, active, fib_reader, held, shutdown, pg, outbuf, input, taken>>
  BY DEF ServerRow, Answer, counts, fibers
<1>18. server' = [server EXCEPT ![1].rows = @ + 1]
  BY DEF ServerRow
<1>2. /\ server \in Seq(Commands) /\ outbuf \in Seq(Commands) /\ input \in Seq(AllResults) /\ wire \in Seq(AllResults)
      /\ Finished \in Nat /\ Flow \in Seq(AllResults) /\ Asked \in Seq(Commands)
  BY Numbers
<1>3. x = server[1] /\ x \in Commands /\ 1 \in 1..Len(server)
  BY <1>1, <1>2
<1>4. x.q \in Queries /\ x.rows \in Nat /\ r \in AllResults /\ r.q = x.q /\ r.k = "row"
  BY <1>3, Bounds DEF Commands, Result, AllResults, Kinds, Queries
<1>5. server' \in Seq(Commands) /\ Len(server') = Len(server) /\ \A i \in 1..Len(server) : server'[i].q = server[i].q
  <2>1. [x EXCEPT !.rows = x.rows + 1] \in Commands /\ [x EXCEPT !.rows = x.rows + 1].q = x.q
    BY <1>3, <1>4 DEF Commands
  <2> DEFINE y == [x EXCEPT !.rows = x.rows + 1]
  <2>2. server' = [server EXCEPT ![1] = y]
    BY <1>3, <1>18
  <2>3. y \in Commands /\ y.q = x.q
    BY <2>1
  <2> HIDE DEF y, x
  <2>4. QED BY <1>2, <1>3, <2>2, <2>3
<1> HIDE DEF r, x
<1>6. wire' = Append(wire, r) /\ Flow' = Append(Flow, r)
  <2>1. wire' = Append(wire, r)
    BY <1>1, <1>2, <1>4
  <2>2. Append(input \o wire, r) = input \o Append(wire, r)
    BY <1>2, <1>4, AppendJoined
  <2>3. QED BY <1>1, <2>1, <2>2 DEF Flow
<1>7. Asked # <<>> /\ Asked[1].q = x.q /\ Asked' \in Seq(Commands) /\ Len(Asked') = Len(Asked)
      /\ \A i \in 1..Len(Asked) : Asked'[i].q = Asked[i].q
  <2>1. /\ Len(Asked) = Len(server) + Len(outbuf) /\ Len(Asked') = Len(server) + Len(outbuf)
        /\ Asked' \in Seq(Commands)
    <3>1. server \in Seq(Commands) /\ outbuf \in Seq(Commands)
      BY <1>2
    <3>2. server' \in Seq(Commands) /\ outbuf' = outbuf /\ Len(server') = Len(server)
      BY <1>1, <1>5
    <3>3. Len(Asked) = Len(server) + Len(outbuf)
      BY <3>1 DEF Asked
    <3>4. Len(Asked') = Len(server') + Len(outbuf) /\ Asked' \in Seq(Commands)
      BY <3>1, <3>2 DEF Asked
    <3>5. QED BY <3>2, <3>3, <3>4
  <2>2. \A i \in 1..Len(Asked) : /\ i <= Len(server) => Asked[i] = server[i] /\ Asked'[i] = server'[i] /\ i \in 1..Len(server)
                                 /\ i > Len(server) => Asked[i] = outbuf[i - Len(server)] /\ Asked'[i] = outbuf[i - Len(server)]
    BY <1>1, <1>2, <1>5 DEF Asked
  <2>3. Len(server) \in Nat /\ Len(outbuf) \in Nat /\ Len(server) > 0 /\ Asked # <<>> /\ 1 \in 1..Len(Asked)
    BY <1>1, <1>2, <2>1
  <2>4. \A i \in 1..Len(Asked) : Asked'[i].q = Asked[i].q
    BY <1>5, <2>2, <2>3
  <2>5. QED BY <1>3, <2>1, <2>2, <2>3, <2>4
<1>8. made' \in [Queries -> Seq(AllResults)]
  <2>1. Append(made[r.q], r) \in Seq(AllResults) /\ made \in [Queries -> Seq(AllResults)]
    BY <1>4 DEF Data, FlowTypes
  <2>2. QED BY <1>1, <2>1 DEF Makes
<1>9. FlowTypes'
  <2>1. wire' \in Seq(AllResults)
    BY <1>2, <1>4, <1>6
  <2>2. QED BY <1>1, <1>5, <1>8, <2>1 DEF Data, FlowTypes
<1>10. InOrder'
  <2> SUFFICES ASSUME ReaderLives PROVE /\ Ordered(Flow', Asked', n_queries, Finished)
                                        /\ Complete(Flow', Asked', n_queries, Finished)
    BY <1>1 DEF Data, InOrder, ReaderLives, Finished
  <2>1. Ordered(Flow, Asked, n_queries, Finished) /\ Complete(Flow, Asked, n_queries, Finished)
    BY <1>1 DEF Data, InOrder
  <2>2. Ordered(Flow', Asked, n_queries, Finished) /\ Complete(Flow', Asked, n_queries, Finished)
    BY <1>2, <1>4, <1>6, <1>7, <2>1, ServeOne
  <2>3. QED BY <1>2, <1>7, <2>2, SameNumbers
<1>11. Sends(r)
  <2>1. ASSUME NEW q \in Queries
        PROVE  /\ q = r.q => OfQuery(q, Flow)' = Append(OfQuery(q, Flow), r)
               /\ q # r.q => OfQuery(q, Flow)' = OfQuery(q, Flow)
    <3>1. Concerns(q, r) <=> q = r.q
      BY <1>4 DEF Concerns
    <3>2. QED BY <1>2, <1>4, <1>6, <3>1, OfQueryLast
  <2>2. ASSUME NEW q \in Queries, q # r.q, Nowhere(q) PROVE Nowhere(q)'
    <3>1. \A i \in 1..Len(Flow') : Flow'[i].q # q
      BY <1>2, <1>4, <1>6, <2>2, NowhereSent
    <3>2. \A i \in 1..Len(Asked') : Asked'[i].q # q
      BY <1>7, <2>2 DEF Nowhere
    <3>3. QED BY <1>1, <2>2, <3>1, <3>2 DEF Nowhere
  <2>3. QED BY <1>1, <1>4, <1>7, <2>1, <2>2 DEF Sends
<1>12. QED BY <1>1, <1>9, <1>10, <1>11, SendsKeeps

LEMMA ServedKeeps ==
  ASSUME Data, n_queries \in 0..MaxQueries, ServerEnd
  PROVE  Data'
<1> DEFINE x == Head(server)
           e == Result(x.q, "end", 0)
           z == Result(0, "sync", 0)
<1>0. PICK k \in {"done", "error"} : /\ Makes(Result(x.q, k, 0))
                                     /\ Answer(<<Result(x.q, k, 0), e, z>>)
  BY DEF ServerEnd
<1> DEFINE r == Result(x.q, k, 0)
<1>1. /\ pg = "up" /\ server # <<>> /\ server' = Tail(server)
      /\ Makes(r) /\ wire' = wire \o <<r, e, z>>
      /\ UNCHANGED <<n_queries, stream, active, fib_reader, held, shutdown, pg, outbuf, input, taken>>
  BY <1>0 DEF ServerEnd, Answer, counts, fibers
<1>2. /\ server \in Seq(Commands) /\ outbuf \in Seq(Commands) /\ input \in Seq(AllResults) /\ wire \in Seq(AllResults)
      /\ Finished \in Nat /\ Flow \in Seq(AllResults) /\ Asked \in Seq(Commands)
  BY Numbers
<1>3. x = server[1] /\ x \in Commands /\ 1 \in 1..Len(server)
  BY <1>1, <1>2
<1>4. /\ x.q \in Queries /\ r \in AllResults /\ r.q = x.q /\ r.k \in {"done", "error"}
      /\ e \in AllResults /\ e.q = x.q /\ e.k = "end" /\ z \in AllResults /\ z.q = 0 /\ z.k = "sync"
  <2>1. x.q \in Queries /\ x.q \in Nat
    BY <1>3, Bounds DEF Commands, Queries
  <2>2. QED BY <2>1 DEF Result, AllResults, Kinds
<1> HIDE DEF r, e, z, x
<1> DEFINE F == Append(Flow, r)
           G == Append(F, e)
<1>5. Flow' = Append(G, z) /\ F \in Seq(AllResults) /\ G \in Seq(AllResults) /\ wire' \in Seq(AllResults)
  <2> DEFINE v == Append(wire, r)
             w == Append(v, e)
  <2>1. v \in Seq(AllResults) /\ w \in Seq(AllResults) /\ Append(w, z) \in Seq(AllResults)
    BY <1>2, <1>4
  <2>2. wire \o <<r, e, z>> = Append(w, z)
    BY <1>2, <1>4
  <2>3. F = input \o v
    BY <1>2, <1>4, AppendJoined DEF Flow
  <2> HIDE DEF v
  <2>4. Append(input \o v, e) = input \o Append(v, e)
    BY <1>2, <1>4, <2>1, AppendJoined
  <2>5. G = input \o w
    BY <2>3, <2>4
  <2> HIDE DEF w
  <2>6. Append(input \o w, z) = input \o Append(w, z)
    BY <1>2, <1>4, <2>1, AppendJoined
  <2>7. Flow' = Append(G, z)
    BY <1>1, <2>2, <2>5, <2>6 DEF Flow
  <2>8. F \in Seq(AllResults) /\ G \in Seq(AllResults)
    BY <1>2, <1>4
  <2>9. QED BY <1>1, <2>1, <2>2, <2>7, <2>8
<1>6. Asked # <<>> /\ Asked[1].q = x.q /\ Asked' = Tail(Asked) /\ Asked' \in Seq(Commands)
  <2> DEFINE t == Tail(server)
             d == t \o outbuf
  <2>1. t \in Seq(Commands) /\ Len(t) = Len(server) - 1 /\ \A i \in 1..Len(t) : t[i] = server[i + 1]
    BY <1>1, <1>2
  <2>2. Len(server) \in Nat /\ Len(outbuf) \in Nat /\ Len(server) > 0
    BY <1>1, <1>2
  <2>3. Asked # <<>> /\ Asked[1] = server[1] /\ Len(Asked) = Len(server) + Len(outbuf)
    BY <1>2, <2>2 DEF Asked
  <2>4. /\ Tail(Asked) \in Seq(Commands) /\ Len(Tail(Asked)) = Len(Asked) - 1
        /\ \A i \in 1..Len(Tail(Asked)) : Tail(Asked)[i] = Asked[i + 1]
    BY <1>2, <2>3
  <2> HIDE DEF t
  <2>5. d \in Seq(Commands) /\ Len(d) = Len(Tail(Asked))
    <3>1. t \in Seq(Commands) /\ outbuf \in Seq(Commands)
      BY <1>2, <2>1
    <3>2. d \in Seq(Commands) /\ Len(d) = Len(t) + Len(outbuf)
      BY <3>1
    <3>3. QED BY <2>1, <2>2, <2>3, <2>4, <3>2
  <2>6. \A i \in 1..Len(d) : d[i] = Tail(Asked)[i]
    <3> SUFFICES ASSUME NEW i \in 1..Len(d) PROVE d[i] = Asked[i + 1]
      BY <2>4, <2>5
    <3>1. CASE i <= Len(t)
      <4>1. d[i] = t[i] /\ i \in 1..Len(t)
        BY <1>2, <2>1, <3>1
      <4>2. Asked[i + 1] = server[i + 1]
        BY <1>2, <2>1, <2>2, <4>1 DEF Asked
      <4>3. QED BY <2>1, <4>1, <4>2
    <3>2. CASE i > Len(t)
      <4>1. d[i] = outbuf[i - Len(t)]
        BY <1>2, <2>1, <3>2
      <4>2. i + 1 > Len(server) /\ i + 1 <= Len(server) + Len(outbuf) /\ (i + 1) - Len(server) = i - Len(t)
        BY <2>1, <2>2, <2>3, <2>4, <2>5, <3>2
      <4>3. Asked[i + 1] = outbuf[(i + 1) - Len(server)]
        BY <1>2, <2>2, <4>2 DEF Asked
      <4>4. QED BY <4>1, <4>2, <4>3
    <3>3. QED BY <2>1, <2>2, <3>1, <3>2
  <2> HIDE DEF d
  <2>7. d = Tail(Asked)
    BY <2>4, <2>5, <2>6, SeqEqual
  <2>8. Asked' = d
    BY <1>1 DEF Asked, d, t
  <2>9. QED BY <1>3, <2>3, <2>4, <2>7, <2>8
<1>8. made' \in [Queries -> Seq(AllResults)]
  <2>1. Append(made[r.q], r) \in Seq(AllResults) /\ made \in [Queries -> Seq(AllResults)]
    BY <1>4 DEF Data, FlowTypes
  <2>2. QED BY <1>1, <2>1 DEF Makes
<1>9. FlowTypes'
  <2>1. server' \in Seq(Commands)
    BY <1>1, <1>2
  <2>2. QED BY <1>1, <1>5, <1>8, <2>1 DEF Data, FlowTypes
<1> HIDE DEF F, G
<1>10. InOrder'
  <2> SUFFICES ASSUME ReaderLives PROVE /\ Ordered(Flow', Asked', n_queries, Finished)
                                        /\ Complete(Flow', Asked', n_queries, Finished)
    BY <1>1 DEF Data, InOrder, ReaderLives, Finished
  <2>1. Ordered(Flow, Asked, n_queries, Finished) /\ Complete(Flow, Asked, n_queries, Finished)
    BY <1>1 DEF Data, InOrder
  <2>2. Ordered(F, Asked, n_queries, Finished) /\ Complete(F, Asked, n_queries, Finished)
    BY <1>2, <1>4, <1>6, <2>1, ServeOne DEF F
  <2>3. Ordered(G, Asked', n_queries, Finished) /\ Complete(G, Asked', n_queries, Finished)
    BY <1>2, <1>4, <1>5, <1>6, <2>2, ServeEnd DEF G
  <2>4. QED BY <1>2, <1>4, <1>5, <1>6, <2>3, ServeSync
<1>11. Sends(r)
  <2>1. ASSUME NEW q \in Queries
        PROVE  /\ q = r.q => OfQuery(q, Flow)' = Append(OfQuery(q, Flow), r)
               /\ q # r.q => OfQuery(q, Flow)' = OfQuery(q, Flow)
    <3>1. (Concerns(q, r) <=> q = r.q) /\ ~Concerns(q, e) /\ ~Concerns(q, z)
      BY <1>4 DEF Concerns
    <3>2. OfQuery(q, Flow') = OfQuery(q, G)
      BY <1>4, <1>5, <3>1, OfQueryLast
    <3>3. OfQuery(q, G) = OfQuery(q, F)
      BY <1>4, <1>5, <3>1, OfQueryLast DEF G
    <3>4. /\ q = r.q => OfQuery(q, F) = Append(OfQuery(q, Flow), r)
          /\ q # r.q => OfQuery(q, F) = OfQuery(q, Flow)
      BY <1>2, <1>4, <3>1, OfQueryLast DEF F
    <3>5. QED BY <3>2, <3>3, <3>4
  <2>2. ASSUME NEW q \in Queries, q # r.q, Nowhere(q) PROVE Nowhere(q)'
    <3>1. \A i \in 1..Len(F) : F[i].q # q
      BY <1>2, <1>4, <2>2, NowhereSent DEF F
    <3>2. \A i \in 1..Len(G) : G[i] = e \/ (i \in 1..Len(F) /\ G[i] = F[i])
      BY <1>4, <1>5 DEF G
    <3>3. \A i \in 1..Len(Flow') : Flow'[i] = z \/ (i \in 1..Len(G) /\ Flow'[i] = G[i])
      BY <1>4, <1>5
    <3>4. q # 0
      BY Bounds DEF Queries
    <3>5. \A i \in 1..Len(Flow') : Flow'[i].q # q
      BY <1>4, <2>2, <3>1, <3>2, <3>3, <3>4
    <3>6. \A i \in 1..Len(Asked') : Asked'[i].q # q
      <4>1. \A i \in 1..Len(Tail(Asked)) : Tail(Asked)[i] = Asked[i + 1] /\ i + 1 \in 1..Len(Asked)
        BY <1>2, <1>6
      <4>2. QED BY <1>6, <2>2, <4>1 DEF Nowhere
    <3>7. QED BY <1>1, <2>2, <3>5, <3>6 DEF Nowhere
  <2>3. QED BY <1>1, <1>4, <1>6, <2>1, <2>2 DEF Sends
<1>12. QED BY <1>1, <1>9, <1>10, <1>11, SendsKeeps

(* Items that end with b start with the others.                            *)
EndsWith(w, s, b) == w = s \o b /\ Starts(s, w)
LEMMA LastPart ==
  ASSUME NEW g \in Seq(AllResults), NEW h \in Seq(AllResults), NEW a \in Seq(AllResults), NEW b \in Seq(AllResults)
  PROVE  EndsWith(g \o (h \o (a \o b)), g \o (h \o a), b)
<1> DEFINE c == h \o a
           s == g \o c
<1>1. c \in Seq(AllResults) /\ h \o (a \o b) = c \o b
  OBVIOUS
<1> HIDE DEF c
<1>2. s \in Seq(AllResults) /\ g \o (c \o b) = s \o b
  <2>1. c \in Seq(AllResults)
    BY <1>1
  <2>2. QED BY <2>1
<1> HIDE DEF s
<1>3. Starts(s, s \o b)
  <2>1. s \in Seq(AllResults)
    BY <1>2
  <2>2. QED BY <2>1 DEF Starts
<1>4. EndsWith(g \o (h \o (a \o b)), s, b)
  BY <1>1, <1>2, <1>3 DEF EndsWith
<1>5. QED BY <1>4 DEF s, c

(* A connection that is lost keeps what has been received.                 *)
LEMMA BreakKeeps ==
  ASSUME Data, n_queries \in 0..MaxQueries, FibersTogether, Break
  PROVE  Data'
<1>1. /\ pg = "up" /\ pg' = "broken" /\ server' = <<>> /\ wire' = <<>>
      /\ UNCHANGED <<n_queries, stream, active, fib_reader, held, shutdown, outbuf, input, made, taken>>
  BY DEF Break, counts, fibers, history
<1>2. /\ server \in Seq(Commands) /\ outbuf \in Seq(Commands) /\ input \in Seq(AllResults) /\ wire \in Seq(AllResults)
      /\ Finished \in Nat /\ Flow \in Seq(AllResults) /\ Asked \in Seq(Commands)
  BY Numbers
<1>3. FlowTypes'
  BY <1>1 DEF Data, FlowTypes
<1>4. Flow' = input /\ Asked' = outbuf
  <2>1. input \o <<>> = input /\ <<>> \o outbuf = outbuf
    BY <1>2
  <2>2. QED BY <1>1, <2>1 DEF Flow, Asked
<1>5. Places'
  BY <1>1 DEF Data, Places, Finished
<1>6. ReaderLives => /\ Ordered(input, outbuf, n_queries, Finished)
                     /\ \A q : HasEnd(input, q) /\ q # 0 => HasEnd(Flow, q) /\ \A j \in 1..Len(wire) : wire[j].q # q
  <2> SUFFICES ASSUME ReaderLives
               PROVE  /\ Ordered(input, outbuf, n_queries, Finished)
                      /\ \A q : HasEnd(input, q) /\ q # 0 => HasEnd(Flow, q) /\ \A j \in 1..Len(wire) : wire[j].q # q
    OBVIOUS
  <2>1. Ordered(input \o wire, server \o outbuf, n_queries, Finished)
    BY DEF Data, InOrder, Flow, Asked
  <2>2. QED BY <1>2, <2>1, CutOff DEF Flow
<1>7. InOrder'
  BY <1>1, <1>4, <1>6 DEF Data, InOrder, ReaderLives, Finished
<1>8. ASSUME NEW q \in Queries PROVE LosslessAt(q)'
  <2>1. FlowTypes /\ LosslessAt(q) /\ Got(q)' = Got(q) /\ HeldOf(q)' = HeldOf(q) /\ made'[q] = made[q] /\ stream' = stream
    BY <1>1 DEF Data, Lossless, Got, HeldOf
  <2>2. Nowhere(q) => Nowhere(q)'
    <3> SUFFICES ASSUME Nowhere(q) PROVE Nowhere(q)'
      OBVIOUS
    <3>1. \A i \in 1..Len(input) : input[i].q # q
      <4>1. \A i \in 1..Len(input) : Flow[i] = input[i] /\ i \in 1..Len(Flow)
        BY <1>2 DEF Flow
      <4>2. QED BY <4>1 DEF Nowhere
    <3>2. \A i \in 1..Len(outbuf) : outbuf[i].q # q
      <4>1. \A i \in 1..Len(outbuf) : Asked[Len(server) + i] = outbuf[i] /\ Len(server) + i \in 1..Len(Asked)
        BY <1>2 DEF Asked
      <4>2. QED BY <4>1 DEF Nowhere
    <3>3. QED BY <1>1, <1>4, <3>1, <3>2 DEF Nowhere
  <2>3. Starts(Got(q), made[q])'
    BY <2>1 DEF LosslessAt, Starts
  <2>4. ASSUME stream[q].conn
        PROVE  /\ Starts(StreamItems(q), made[q])'
               /\ HasEnd(Flow, q)' => StreamItems(q)' = made'[q]
    <3> DEFINE g == Got(q)
               h == HeldOf(q)
               a == OfQuery(q, input)
               b == OfQuery(q, wire)
               s == g \o (h \o a)
    <3>1. g \in Seq(AllResults) /\ h \in Seq(AllResults)
      BY <2>1, Items
    <3>2. a \in Seq(AllResults) /\ b \in Seq(AllResults)
      BY <1>2, OfQueryType
    <3>3. OfQuery(q, Flow) = a \o b
      BY <1>2, OfQueryJoined DEF Flow
    <3>4. StreamItems(q) = g \o (h \o (a \o b))
      BY <2>1, <3>3, Items DEF Coming
    <3>5. StreamItems(q)' = s
      BY <1>3, <1>4, <2>1, ItemsNext DEF Coming
    <3> HIDE DEF g, h, a, b
    <3>6. EndsWith(g \o (h \o (a \o b)), s, b)
      BY <3>1, <3>2, LastPart
    <3>7. s \in Seq(AllResults)
      BY <3>1, <3>2
    <3>8. StreamItems(q) = s \o b /\ Starts(s, StreamItems(q))
      BY <3>4, <3>6 DEF EndsWith
    <3> HIDE DEF s
    <3>9. made[q] \in Seq(AllResults)
      BY DEF Data, FlowTypes
    <3>10. StreamItems(q) = made[q]
      BY <1>1, <2>1, <2>4 DEF LosslessAt
    <3>11. Starts(s, made[q])
      BY <3>8, <3>10
    <3>12. Starts(StreamItems(q), made[q])'
      BY <2>1, <3>5, <3>11 DEF Starts
    <3>13. ASSUME HasEnd(input, q) PROVE s = made[q]
      <4>1. active # <<>>
        <5>1. q - Finished \in 1..Len(active) /\ Len(active) \in Nat
          BY <2>4, Numbers DEF Data, Places
        <5>2. Len(active) # 0
          BY <1>2, <5>1, Bounds DEF Queries
        <5>3. QED BY <5>2
      <4>2. ReaderLives
        BY <4>1 DEF FibersTogether
      <4>3. q # 0
        BY Bounds DEF Queries
      <4>4. \A j \in 1..Len(wire) : ~Concerns(q, wire[j])
        BY <1>6, <3>13, <4>2, <4>3 DEF Concerns
      <4>5. b = <<>>
        BY <1>2, <4>4, OfQueryNone DEF b
      <4>6. s \o <<>> = s
        BY <3>7
      <4>7. QED BY <3>8, <3>10, <4>5, <4>6
    <3>14. QED BY <1>4, <2>1, <3>5, <3>12, <3>13
  <2>5. QED BY <1>1, <2>1, <2>2, <2>3, <2>4 DEF LosslessAt
<1>9. QED BY <1>3, <1>5, <1>7, <1>8 DEF Data, Lossless

(* A fiber ends that was told to.                                          *)
LEMMA EndingKeeps ==
  ASSUME Data, n_queries \in 0..MaxQueries, FibersTogether, FiberEnds
  PROVE  Data'
<1>1. UNCHANGED <<n_queries, stream, active, pg, outbuf, server, wire, input, made, taken>>
  BY DEF FiberEnds, counts, pq, history
<1>2. Flow' = Flow /\ Asked' = Asked
  BY <1>1 DEF Flow, Asked
<1>3. CASE "reader" \in shutdown /\ fib_reader' = "over" /\ held' = None
  <2>1. active = <<>> /\ ~ReaderLives'
    BY <1>3 DEF FibersTogether, ReaderLives
  <2>2. None \in AllResults /\ None.q = 0 /\ \A q \in Queries : q # 0
    BY Bounds DEF None, Result, AllResults, Kinds, Queries
  <2>3. FlowTypes'
    BY <1>1, <1>3, <2>2 DEF Data, FlowTypes
  <2>4. \A q \in Queries : Nowhere(q) => Nowhere(q)'
    BY <1>2, <1>3, <2>2 DEF Nowhere
  <2>5. QED BY <1>1, <2>1, <2>3, <2>4, QuietKeeps
<1>4. CASE shutdown' = shutdown \ {"flusher"} /\ UNCHANGED <<fib_reader, held>>
  <2>1. FlowTypes' /\ ReaderLives' = ReaderLives
    BY <1>1, <1>4 DEF Data, FlowTypes, ReaderLives
  <2>2. QED BY <1>1, <1>2, <1>4, <2>1, FlowKept
<1>5. QED BY <1>3, <1>4 DEF FiberEnds

(* Both have ended, and the connection is gone.                            *)
LEMMA FinishKeeps ==
  ASSUME Data, n_queries \in 0..MaxQueries, FibersTogether, Closing, Finish, ~ReaderLives',
         UNCHANGED <<n_queries, stream, active, held, made, taken>>
  PROVE  Data'
<1>1. active = <<>>
  BY DEF FibersTogether
<1>2. outbuf' = <<>> /\ server' = <<>> /\ wire' = <<>> /\ input' = <<>>
  BY DEF Finish
<1>3. FlowTypes'
  BY <1>2 DEF Data, FlowTypes
<1>4. Flow' = <<>> /\ Asked' = <<>>
  BY <1>2 DEF Flow, Asked
<1>5. \A q \in Queries : Nowhere(q) => Nowhere(q)'
  BY <1>4 DEF Nowhere
<1>6. QED BY <1>1, <1>3, <1>5, QuietKeeps

-----------------------------------------------------------------------------
(***************************************************************************)
(* The calls of the users                                                  *)
(***************************************************************************)
LEMMA ControlKept ==
  ASSUME Control, UNCHANGED <<fib_reader, fib_flusher, shutdown, held>>, pg' = pg \/ (pg = "up" /\ pg' = "broken"),
         \A c \in Clients : client'[c].op = "disconnect" <=> client[c].op = "disconnect",
         active = <<>> => active' = <<>>, map = {} => map' = {}
  PROVE  Control'
<1>1. FiberTypes'
  BY DEF Control, FiberTypes
<1>2. Closing' <=> Closing
  BY DEF Closing
<1>3. ReaderLives' = ReaderLives /\ FlusherLives' = FlusherLives
  BY DEF ReaderLives, FlusherLives
<1>4. pg # "none" => pg' # "none"
  OBVIOUS
<1>5. FibersTogether'
  BY <1>2, <1>3, <1>4 DEF Control, FibersTogether
<1>6. QED BY <1>1, <1>5 DEF Control

(* Nobody is in a call that changes notify_channels who was not before.    *)
LEMMA ChannelsFrame ==
  ASSUME ChannelsKept, CallTypes, UNCHANGED <<chan, map, listener>>, n_queries' \in Nat, n_queries <= n_queries',
         \A c \in Clients : client'[c].op \in Busy =>
             client'[c].op = client[c].op /\ client'[c].o = client[c].o /\ client'[c].stale = client[c].stale
  PROVE  ChannelsKept'
<1>1. n_queries \in Nat /\ map \subseteq Nat /\ \A c \in Clients : listener[c] \in Nat /\ client[c].o \in Nat
  BY Bounds DEF CallTypes, Objects, Calls
<1>2. \A c \in Clients : listener'[c] <= n_queries'
  BY <1>1 DEF ChannelsKept
<1>3. \A o \in map' : o <= n_queries'
  BY <1>1 DEF ChannelsKept
<1>4. \A o, p \in map' : chan'[o].name = chan'[p].name => o = p
  BY DEF ChannelsKept
<1>5. \A c, d \in Clients : client'[c].op \in Busy /\ client'[d].op \in Busy => c = d
  BY DEF ChannelsKept
<1>6. ASSUME NEW c \in Clients PROVE ListenerAt(c)' /\ CallAt(c)'
  <2>1. ListenerAt(c) /\ CallAt(c)
    BY DEF ChannelsKept
  <2>2. ListenerAt(c)'
    BY <2>1 DEF ListenerAt
  <2>3. ASSUME client'[c].op \in Busy PROVE CallAt(c)'
    <3>1. client'[c].op = client[c].op /\ client'[c].o = client[c].o /\ client'[c].stale = client[c].stale
      BY <2>3
    <3>2. client'[c].o \in 1..n_queries => client'[c].o \in 1..n_queries'
      BY <1>1
    <3>3. QED BY <2>1, <2>3, <3>1, <3>2 DEF CallAt
  <2>4. client'[c].op \notin Busy => CallAt(c)'
    BY DEF CallAt, Busy
  <2>5. QED BY <2>2, <2>3, <2>4
<1>7. QED BY <1>2, <1>3, <1>4, <1>5, <1>6 DEF ChannelsKept

(* A user that is now in the call k, which does not change notify_channels.*)
Calm(c, k) ==
    /\ c \in Clients /\ client' = [client EXCEPT ![c] = k] /\ k \in Calls
    /\ k.op \notin {"disconnect", "listen", "unlisten"} /\ (k.op # "idle" => k.q \in 1..n_queries)
LEMMA CalmKeeps ==
  ASSUME CallTypes, Control, ChannelsKept, NEW c, NEW k, Calm(c, k), client[c].op # "disconnect",
         UNCHANGED <<fib_reader, fib_flusher, shutdown, held, pg, chan, map, listener, n_queries>>,
         active = <<>> => active' = <<>>
  PROVE  CallTypes' /\ Control' /\ ChannelsKept'
<1>1. client'[c] = k /\ \A d \in Clients : d # c => client'[d] = client[d]
  BY DEF Calm, CallTypes
<1>2. client' \in [Clients -> Calls]
  BY DEF Calm, CallTypes
<1>3. CallTypes'
  BY <1>1, <1>2 DEF Calm, CallTypes
<1>4. Control'
  <2>1. \A d \in Clients : client'[d].op = "disconnect" <=> client[d].op = "disconnect"
    BY <1>1 DEF Calm
  <2>2. QED BY <2>1, ControlKept
<1>5. ChannelsKept'
  <2>1. \A d \in Clients : client'[d].op \in Busy => client'[d] = client[d]
    BY <1>1 DEF Calm, Busy
  <2>2. n_queries' \in Nat /\ n_queries <= n_queries'
    BY Bounds DEF CallTypes
  <2>3. QED BY <2>1, <2>2, ChannelsFrame
<1>6. QED BY <1>3, <1>4, <1>5

LEMMA CallsUnchanged ==
  ASSUME CallTypes, ChannelsKept, UNCHANGED <<client, n_queries, chan, map, listener>>
  PROVE  CallTypes' /\ ChannelsKept'
<1>1. CallTypes'
  BY DEF CallTypes
<1>2. ChannelsKept'
  BY DEF ChannelsKept, ListenerAt, CallAt
<1>3. QED BY <1>1, <1>2

(* The stream of a call.                                                   *)
LEMMA StreamOf ==
  ASSUME CallTypes, NEW c \in Clients, client[c].op \notin {"idle", "disconnect"}
  PROVE  client[c].q \in Queries /\ client[c].q \in 1..n_queries /\ client[c] \in Calls
  BY Bounds DEF CallTypes, Queries

LEMMA MoveKeeps ==
  ASSUME PostgresInv, NEW c \in Clients, MoveFirst(c) \/ MoveNext(c) \/ DiscardAllRows(c)
  PROVE  PostgresInv'
<1>1. client[c].op = "hold" /\ CallTypes /\ Control /\ ChannelsKept /\ Data
  BY DEF MoveFirst, MoveNext, DiscardAllRows, PostgresInv
<1>2. client[c].q \in 1..n_queries /\ client[c] \in Calls
  BY <1>1, StreamOf
<1>3. PICK op \in {"first", "next", "discard"} : client' = [client EXCEPT ![c].op = op]
  BY DEF MoveFirst, MoveNext, DiscardAllRows
<1> DEFINE k == [client[c] EXCEPT !.op = op]
<1>4. k \in Calls /\ k.op = op /\ k.q = client[c].q
  BY <1>2 DEF Calls, Ops
<1>5. client' = [client EXCEPT ![c] = k]
  BY <1>3
<1> HIDE DEF k
<1>6. Calm(c, k)
  BY <1>2, <1>4, <1>5 DEF Calm
<1>7. UNCHANGED dataVars /\ UNCHANGED <<fib_reader, fib_flusher, shutdown, held, pg, chan, map, listener, n_queries>>
      /\ active' = active
  BY DEF MoveFirst, MoveNext, DiscardAllRows, dataVars, counts, fibers, pq, channels, history
<1>8. CallTypes' /\ Control' /\ ChannelsKept'
  BY <1>1, <1>6, <1>7, CalmKeeps
<1>9. Data'
  BY <1>1, <1>7, DataKept
<1>10. QED BY <1>8, <1>9 DEF PostgresInv

LEMMA DestroyCallKeeps ==
  ASSUME PostgresInv, NEW c \in Clients, Destroy(c)
  PROVE  PostgresInv'
<1> DEFINE q == client[c].q
<1>1. client[c].op = "hold" /\ CallTypes /\ Control /\ ChannelsKept /\ Data /\ n_queries \in 0..MaxQueries
  BY DEF Destroy, PostgresInv, CallTypes
<1>2. q \in Queries
  BY <1>1, StreamOf
<1>3. Destroys(q) /\ client' = [client EXCEPT ![c] = Idle]
      /\ UNCHANGED <<fib_reader, fib_flusher, shutdown, held, pg, chan, map, listener, n_queries>>
  BY <1>2 DEF Destroy, Destroys, counts, fibers, pq, channels
<1> HIDE DEF q
<1>4. Data' /\ Len(active') = Len(active)
  BY <1>1, <1>3, DestroyKeeps
<1>5. active = <<>> => active' = <<>>
  BY <1>4 DEF Data, FlowTypes
<1>6. Calm(c, Idle)
  BY <1>3, Bounds DEF Calm, Idle, Calls, Ops
<1>7. CallTypes' /\ Control' /\ ChannelsKept'
  BY <1>1, <1>3, <1>5, <1>6, CalmKeeps
<1>8. QED BY <1>4, <1>7 DEF PostgresInv

LEMMA PreparedKeeps ==
  ASSUME PostgresInv, NEW c \in Clients, Prepared(c)
  PROVE  PostgresInv'
<1> DEFINE q == client[c].q
<1>1. client[c].op = "prepare" /\ CallTypes /\ Control /\ ChannelsKept /\ Data /\ n_queries \in 0..MaxQueries
  BY DEF Prepared, PostgresInv, CallTypes
<1>2. q \in Queries
  BY <1>1, StreamOf
<1>3. Destroys(q) /\ client' = [client EXCEPT ![c] = Idle]
      /\ UNCHANGED <<fib_reader, fib_flusher, shutdown, held, pg, chan, map, listener, n_queries>>
  BY <1>2 DEF Prepared, CallOver, Destroys, counts, fibers, pq, channels
<1> HIDE DEF q
<1>4. Data' /\ Len(active') = Len(active)
  BY <1>1, <1>3, DestroyKeeps
<1>5. active = <<>> => active' = <<>>
  BY <1>4 DEF Data, FlowTypes
<1>6. Calm(c, Idle)
  BY <1>3, Bounds DEF Calm, Idle, Calls, Ops
<1>7. CallTypes' /\ Control' /\ ChannelsKept'
  BY <1>1, <1>3, <1>5, <1>6, CalmKeeps
<1>8. QED BY <1>4, <1>7 DEF PostgresInv

(* What a call takes is in the FIFO: a set of places that is not empty has *)
(* a first.                                                                *)
LEMMA FetchedPlace ==
  ASSUME FlowTypes, NEW q \in Queries, NEW op
  PROVE  Fetched(q, op) \in 0..Len(stream[q].fifo)
<1> DEFINE s == stream[q].fifo
           ends == {i \in DOMAIN s : Stops(op, s[i])}
           S == {n \in Nat : \A j \in ends : n < j}
<1>1. DOMAIN s = 1..Len(s) /\ Len(s) \in Nat
  <2>1. s \in Seq(AllResults)
    BY DEF FlowTypes, Streams
  <2>2. QED BY <2>1
<1>2. ends \subseteq 1..Len(s)
  BY <1>1
<1>3. Fetched(q, op) = IF ends = {} THEN 0 ELSE CHOOSE i \in ends : \A j \in ends : i <= j
  BY DEF Fetched
<1> HIDE DEF ends, s
<1>4. CASE ends = {}
  BY <1>1, <1>3, <1>4 DEF s
<1>5. CASE ends # {}
  <2>1. \E i \in ends : \A j \in ends : i <= j
    <3> SUFFICES ASSUME \A i \in ends : \E j \in ends : ~(i <= j) PROVE FALSE
      OBVIOUS
    <3>1. 0 \in S
      BY <1>1, <1>2
    <3>2. ASSUME NEW n \in Nat, n \in S PROVE n + 1 \in S
      <4>1. \A j \in ends : j \in Nat /\ n < j
        BY <1>1, <1>2, <3>2
      <4>2. n + 1 \notin ends
        <5> SUFFICES ASSUME n + 1 \in ends PROVE FALSE
          OBVIOUS
        <5>1. PICK j \in ends : ~(n + 1 <= j)
          OBVIOUS
        <5>2. QED BY <4>1, <5>1
      <4>3. \A j \in ends : n + 1 < j
        BY <4>1, <4>2
      <4>4. QED BY <4>3
    <3> HIDE DEF S
    <3>3. Nat \subseteq S
      BY <3>1, <3>2, SetInduction
    <3>4. Len(s) \in S
      BY <1>1, <3>3
    <3>5. PICK j \in ends : TRUE
      BY <1>5
    <3>6. j \in 1..Len(s) /\ Len(s) < j
      BY <1>2, <3>4 DEF S
    <3>7. QED BY <1>1, <3>6
  <2>2. Fetched(q, op) \in ends
    BY <1>3, <1>5, <2>1
  <2>5. \E i \in 1..Len(s) : Fetched(q, op) = i
    BY <1>2, <2>2
  <2>3. Fetched(q, op) \in 0..Len(s)
    <3>1. PICK i \in 1..Len(s) : Fetched(q, op) = i
      BY <2>5
    <3>2. i \in 0..Len(s)
      BY <1>1
    <3>3. QED BY <3>1, <3>2
  <2>4. QED BY <2>3 DEF s
<1>6. QED BY <1>4, <1>5

LEMMA FetchingIs ==
  ASSUME stream \in [Queries -> Streams], NEW q \in Queries, NEW n \in 0..Len(stream[q].fifo), NEW b \in BOOLEAN,
         stream' = [stream EXCEPT ![q] = [stream[q] EXCEPT !.fifo = Rest(q, n), !.columns = b]],
         taken' = Take(q, n), UNCHANGED restVars, made' = made
  PROVE  Fetches(q, n)
<1> DEFINE f == Rest(q, n)
<1>1. f \in Seq(AllResults)
  <2>1. stream[q].fifo \in Seq(AllResults)
    BY DEF Streams
  <2>2. QED BY <2>1, Split DEF Rest
<1>2. stream' = [stream EXCEPT ![q] = [stream[q] EXCEPT !.fifo = f, !.columns = b]]
  OBVIOUS
<1> HIDE DEF f
<1>3. stream'[q] = [stream[q] EXCEPT !.fifo = f, !.columns = b] /\ stream[q] \in Streams
  BY <1>2
<1>4. stream'[q] \in Streams /\ stream'[q].fifo = f /\ Alike(q)
  BY <1>1, <1>3 DEF Streams, Alike
<1>5. \A p \in Queries : p # q => stream'[p] = stream[p]
  BY <1>2
<1>6. stream' \in [Queries -> Streams]
  BY <1>2, <1>4, <1>5
<1>7. QED BY <1>4, <1>5, <1>6 DEF Fetches, Alike, f

LEMMA FetchRowKeeps ==
  ASSUME PostgresInv, NEW c \in Clients, FetchRow(c)
  PROVE  PostgresInv'
<1> DEFINE q == client[c].q
           op == client[c].op
           n == Fetched(q, op)
           b == stream[q].columns \/ op = "first"
           k == [client[c] EXCEPT !.op = "hold"]
<1>1. op \in {"first", "next"} /\ CallTypes /\ Control /\ ChannelsKept /\ Data
  BY DEF FetchRow, Fetching, PostgresInv
<1>2. q \in Queries /\ q \in 1..n_queries /\ client[c] \in Calls
  BY <1>1, StreamOf
<1>3. n \in 0..Len(stream[q].fifo) /\ stream \in [Queries -> Streams] /\ b \in BOOLEAN
  <2>1. n \in 0..Len(stream[q].fifo)
    BY <1>1, <1>2, FetchedPlace DEF Data
  <2>2. QED BY <1>1, <2>1 DEF Data, FlowTypes
<1>4. stream' = [stream EXCEPT ![q] = [stream[q] EXCEPT !.fifo = Rest(q, n), !.columns = b]]
  BY DEF FetchRow
<1>5. taken' = Take(q, n) /\ made' = made /\ UNCHANGED restVars /\ active' = active
      /\ UNCHANGED <<fib_reader, fib_flusher, shutdown, held, pg, chan, map, listener, n_queries>>
  BY DEF FetchRow, counts, fibers, pq, channels, restVars
<1>6. client' = [client EXCEPT ![c] = k] /\ k \in Calls /\ k.op = "hold" /\ k.q = q
  BY <1>2 DEF FetchRow, Calls, Ops
<1>7. op # "disconnect"
  BY <1>1
<1> HIDE DEF n, b, k
<1>8. Fetches(q, n)
  BY <1>2, <1>3, <1>4, <1>5, FetchingIs
<1>9. Data'
  BY <1>1, <1>8, FetchKeeps
<1>10. Calm(c, k)
  BY <1>2, <1>6 DEF Calm
<1>11. CallTypes' /\ Control' /\ ChannelsKept'
  BY <1>1, <1>5, <1>7, <1>10, CalmKeeps
<1>12. QED BY <1>9, <1>11 DEF PostgresInv

LEMMA FetchAllKeeps ==
  ASSUME PostgresInv, NEW c \in Clients, FetchAll(c)
  PROVE  PostgresInv'
<1> DEFINE q == client[c].q
           n == Len(stream[q].fifo)
           b == stream[q].columns
<1>1. client[c].op \notin {"idle", "disconnect"} /\ CallTypes /\ Control /\ ChannelsKept /\ Data
  BY DEF FetchAll, Fetching, FetchOps, PostgresInv
<1>2. q \in Queries /\ q \in 1..n_queries /\ client[c] \in Calls
  BY <1>1, StreamOf
<1>3. n \in 0..Len(stream[q].fifo) /\ stream \in [Queries -> Streams] /\ b \in BOOLEAN /\ Rest(q, n) = <<>>
  <2>1. stream \in [Queries -> Streams] /\ stream[q] \in Streams
    BY <1>1, <1>2 DEF Data, FlowTypes
  <2>2. stream[q].fifo \in Seq(AllResults) /\ b \in BOOLEAN
    BY <2>1 DEF Streams
  <2>3. n \in 0..Len(stream[q].fifo) /\ SubSeq(stream[q].fifo, n + 1, Len(stream[q].fifo)) = <<>>
    BY <2>2
  <2>4. QED BY <2>1, <2>2, <2>3 DEF Rest
<1>4. stream' = [stream EXCEPT ![q] = [stream[q] EXCEPT !.fifo = Rest(q, n), !.columns = b]]
  <2>1. stream' = [stream EXCEPT ![q] = [stream[q] EXCEPT !.fifo = <<>>]]
    BY DEF FetchAll
  <2>2. [stream[q] EXCEPT !.fifo = <<>>] = [stream[q] EXCEPT !.fifo = <<>>, !.columns = b]
    BY <1>2, <1>3 DEF Streams
  <2>3. QED BY <1>3, <2>1, <2>2
<1>5. taken' = Take(q, n) /\ made' = made /\ UNCHANGED restVars /\ active' = active
      /\ UNCHANGED <<client, fib_reader, fib_flusher, shutdown, held, pg, chan, map, listener, n_queries>>
  BY DEF FetchAll, counts, fibers, pq, channels, restVars
<1> HIDE DEF n, b
<1>6. Fetches(q, n)
  BY <1>2, <1>3, <1>4, <1>5, FetchingIs
<1>7. Data'
  BY <1>1, <1>6, FetchKeeps
<1>8. CallTypes' /\ Control' /\ ChannelsKept'
  BY <1>1, <1>5, CallsUnchanged, ControlKept
<1>9. QED BY <1>7, <1>8 DEF PostgresInv

LEMMA FetchEndKeeps ==
  ASSUME PostgresInv, NEW c \in Clients, FetchEnd(c)
  PROVE  PostgresInv'
<1> DEFINE q == client[c].q
           i == Fetched(q, client[c].op)
           n == IF i = 0 THEN Len(stream[q].fifo) ELSE i
           b == stream[q].columns
           k == [client[c] EXCEPT !.op = "hold", !.ended = (i = 0)]
<1>1. client[c].op \in {"first", "next", "discard"} /\ CallTypes /\ Control /\ ChannelsKept /\ Data
  BY DEF FetchEnd, Fetching, PostgresInv
<1>2. q \in Queries /\ q \in 1..n_queries /\ client[c] \in Calls
  BY <1>1, StreamOf
<1>3. n \in 0..Len(stream[q].fifo) /\ stream \in [Queries -> Streams] /\ b \in BOOLEAN
  <2>1. i \in 0..Len(stream[q].fifo)
    BY <1>1, <1>2, FetchedPlace DEF Data
  <2>2. stream \in [Queries -> Streams] /\ stream[q] \in Streams
    BY <1>1, <1>2 DEF Data, FlowTypes
  <2>3. stream[q].fifo \in Seq(AllResults) /\ b \in BOOLEAN
    BY <2>2 DEF Streams
  <2> HIDE DEF i
  <2>4. Len(stream[q].fifo) \in 0..Len(stream[q].fifo)
    BY <2>3
  <2>5. QED BY <2>1, <2>2, <2>3, <2>4
<1>4. stream' = [stream EXCEPT ![q] = [stream[q] EXCEPT !.fifo = Rest(q, n), !.columns = b]]
  <2>1. stream' = [stream EXCEPT ![q] = [stream[q] EXCEPT !.fifo = Rest(q, n)]]
    BY DEF FetchEnd
  <2> HIDE DEF n
  <2>2. [stream[q] EXCEPT !.fifo = Rest(q, n)] = [stream[q] EXCEPT !.fifo = Rest(q, n), !.columns = b]
    BY <1>2, <1>3 DEF Streams
  <2> HIDE DEF b
  <2>3. QED BY <2>1, <2>2
<1>5. taken' = Take(q, n) /\ made' = made /\ UNCHANGED restVars /\ active' = active
      /\ UNCHANGED <<fib_reader, fib_flusher, shutdown, held, pg, chan, map, listener, n_queries>>
  BY DEF FetchEnd, counts, fibers, pq, channels, restVars
<1>6. client' = [client EXCEPT ![c] = k]
  BY DEF FetchEnd
<1>7. k \in Calls /\ k.op = "hold" /\ k.q = q
  <2>1. (i = 0) \in BOOLEAN
    OBVIOUS
  <2> HIDE DEF i
  <2>2. QED BY <1>2, <2>1 DEF Calls, Ops
<1>8. client[c].op # "disconnect"
  BY <1>1
<1> HIDE DEF n, b, k
<1>9. Fetches(q, n)
  BY <1>2, <1>3, <1>4, <1>5, FetchingIs
<1>10. Data'
  BY <1>1, <1>9, FetchKeeps
<1>11. Calm(c, k)
  BY <1>2, <1>6, <1>7 DEF Calm
<1>12. CallTypes' /\ Control' /\ ChannelsKept'
  BY <1>1, <1>5, <1>8, <1>11, CalmKeeps
<1>13. QED BY <1>10, <1>12 DEF PostgresInv

(* Who executes finds both fibers running.                                 *)
LEMMA ExecuteFinds ==
  ASSUME Control, Careful, NEW c \in Clients, NEW op, NEW name, Execute(c, op, name),
         \A d \in Clients : client'[d].op = "disconnect" <=> client[d].op = "disconnect"
  PROVE  ReaderLives /\ Control'
<1>1. ~Closing /\ pg # "none" /\ fib_flusher \in {"ready", "stopped", "blocked"}
  BY DEF Execute, CanSend, Over, Control, FiberTypes
<1>2. ReaderLives
  BY <1>1 DEF Control, FibersTogether, FlusherLives
<1>3. /\ fib_flusher' \in {"ready", "stopped", "blocked"}
      /\ UNCHANGED <<fib_reader, held, shutdown, pg>>
  BY <1>1 DEF Execute
<1>4. FiberTypes'
  BY <1>3 DEF Control, FiberTypes
<1>5. ~Closing'
  BY <1>1, <1>3 DEF Closing
<1>6. ReaderLives' /\ FlusherLives'
  BY <1>1, <1>2, <1>3 DEF ReaderLives, FlusherLives, Control, FibersTogether
<1>7. shutdown' = {}
  BY <1>1, <1>3 DEF Control, FibersTogether
<1>8. FibersTogether'
  BY <1>1, <1>3, <1>5, <1>6, <1>7 DEF Control, FibersTogether
<1>9. QED BY <1>2, <1>4, <1>8 DEF Control

LEMMA ExecuteCounts ==
  ASSUME n_queries \in 0..MaxQueries, NEW c, NEW op, NEW name, Execute(c, op, name)
  PROVE  /\ n_queries' = n_queries + 1 /\ n_queries' \in 0..MaxQueries /\ n_queries \in Nat
         /\ n_queries' \in Objects /\ n_queries' \in Nat
<1>1. n_queries' = n_queries + 1 /\ n_queries < MaxQueries
  BY DEF Execute
<1>2. QED BY <1>1, Bounds DEF Objects

(* A call that waits for a query.                                          *)
IsCall(k, op, q, o) == k \in Calls /\ k.op = op /\ k.q = q /\ k.o = o /\ ~k.stale
LEMMA CallIs ==
  ASSUME NEW op \in Ops, NEW q \in 0..MaxQueries, NEW o \in 0..MaxQueries
  PROVE  /\ IsCall([Idle EXCEPT !.op = op, !.q = q, !.o = o], op, q, o)
         /\ IsCall([Idle EXCEPT !.op = op, !.q = q], op, q, 0)
<1>1. IsCall(Idle, "idle", 0, 0)
  BY Bounds DEF Idle, Calls, Ops, IsCall
<1>2. QED BY <1>1 DEF Calls, IsCall

LEMMA QueryKeeps ==
  ASSUME PostgresInv, Careful, NEW c \in Clients, Query(c) \/ Prepare(c)
  PROVE  PostgresInv'
<1>1. PICK op \in {"query", "prepare"}, p \in {"hold", "prepare"} :
        /\ Execute(c, op, "") /\ client[c].op = "idle"
        /\ client' = [client EXCEPT ![c] = [Idle EXCEPT !.op = p, !.q = n_queries + 1]]
  BY DEF Query, Prepare
<1> DEFINE k == [Idle EXCEPT !.op = p, !.q = n_queries + 1]
<1>2. UNCHANGED <<chan, map, listener, made, taken>>
  BY DEF Query, Prepare, channels, history
<1>3. CallTypes /\ Control /\ ChannelsKept /\ Data
  BY DEF PostgresInv
<1>4. n_queries' = n_queries + 1 /\ n_queries' \in 0..MaxQueries /\ n_queries \in Nat
  BY <1>1, <1>3, ExecuteCounts DEF CallTypes
<1>5. k \in Calls /\ k.op = p /\ k.q = n_queries'
  <2>1. p \in Ops /\ 0 \in 0..MaxQueries
    BY Bounds DEF Ops
  <2>2. k = [Idle EXCEPT !.op = p, !.q = n_queries']
    BY <1>4
  <2> HIDE DEF k
  <2>3. IsCall(k, p, n_queries', 0)
    BY <1>4, <2>1, <2>2, CallIs
  <2>4. QED BY <2>3 DEF IsCall
<1>6. /\ client'[c] = k /\ client' \in [Clients -> Calls]
      /\ \A d \in Clients : d # c => client'[d] = client[d]
  BY <1>1, <1>3, <1>5 DEF CallTypes
<1> HIDE DEF k
<1>7. \A d \in Clients : client'[d].op = "disconnect" <=> client[d].op = "disconnect"
  BY <1>1, <1>5, <1>6
<1>8. ReaderLives /\ Control'
  BY <1>1, <1>2, <1>3, <1>7, ExecuteFinds
<1>9. Data'
  <2>1. "" \in Names /\ op \in {"query", "prepare", "listen", "unlisten"}
    BY DEF Names
  <2>2. fib_reader # "write" => held = None
    BY <1>3 DEF Control, FibersTogether
  <2>3. QED BY <1>1, <1>2, <1>3, <1>8, <2>1, <2>2, ExecuteKeeps
<1>10. CallTypes'
  <2>1. \A d \in Clients : client'[d].op \notin {"idle", "disconnect"} => client'[d].q \in 1..n_queries'
    BY <1>3, <1>4, <1>5, <1>6 DEF CallTypes
  <2>2. QED BY <1>2, <1>3, <1>4, <1>6, <2>1 DEF CallTypes
<1>11. ChannelsKept'
  <2>1. \A d \in Clients : client'[d].op \in Busy => client'[d] = client[d]
    BY <1>5, <1>6 DEF Busy
  <2>2. n_queries' \in Nat /\ n_queries <= n_queries'
    BY <1>4
  <2>3. QED BY <1>2, <1>3, <2>1, <2>2, ChannelsFrame
<1>12. QED BY <1>8, <1>9, <1>10, <1>11 DEF PostgresInv

-----------------------------------------------------------------------------
(***************************************************************************)
(* The channels of notifications                                           *)
(***************************************************************************)
LEMMA StaledFacts ==
  ASSUME CallTypes
  PROVE  /\ Staled \in [Clients -> Calls]
         /\ \A d \in Clients : /\ Staled[d].op = client[d].op /\ Staled[d].q = client[d].q
                               /\ Staled[d].o = client[d].o
                               /\ client[d].op = "listen" => Staled[d].stale
                               /\ client[d].op # "listen" => Staled[d] = client[d]
<1>1. \A d \in Clients : client[d] \in Calls
  BY DEF CallTypes
<1>2. \A d \in Clients : Staled[d] = IF client[d].op = "listen" THEN [client[d] EXCEPT !.stale = TRUE] ELSE client[d]
  BY DEF Staled
<1>3. \A k \in Calls : LET s == [k EXCEPT !.stale = TRUE]
                       IN s \in Calls /\ s.op = k.op /\ s.q = k.q /\ s.o = k.o /\ s.stale
  BY DEF Calls
<1>4. \A d \in Clients : Staled[d] \in Calls
  BY <1>1, <1>2, <1>3
<1>5. Staled \in [Clients -> Calls]
  <2>1. Staled = [d \in Clients |-> Staled[d]]
    BY DEF Staled
  <2>2. QED BY <1>4, <2>1
<1>6. QED BY <1>1, <1>2, <1>3, <1>5

(* A user that comes out of its call, or is in another that does not change*)
(* notify_channels, while others may lose their references.                *)
Turns(c, k) ==
    /\ c \in Clients /\ k \in Calls /\ k.op \notin Busy
    /\ (k.op \notin {"idle", "disconnect"} => k.q \in 1..n_queries)
    /\ client' \in {[Staled EXCEPT ![c] = k], [client EXCEPT ![c] = k]}
LEMMA TurnsTo ==
  ASSUME CallTypes, NEW c, NEW k, Turns(c, k)
  PROVE  /\ client' \in [Clients -> Calls] /\ client'[c] = k
         /\ \A d \in Clients : d # c => client'[d].op = client[d].op /\ client'[d].q = client[d].q
         /\ \A d \in Clients : client'[d].op \in Busy => d # c /\ client[d].op \in Busy
<1>1. client' \in [Clients -> Calls] /\ client'[c] = k
  BY StaledFacts DEF Turns, CallTypes
<1>2. \A d \in Clients : d # c => client'[d].op = client[d].op /\ client'[d].q = client[d].q
  <2>1. CASE client' = [Staled EXCEPT ![c] = k]
    <3>1. \A d \in Clients : d # c => client'[d] = Staled[d]
      BY <2>1, StaledFacts
    <3>2. QED BY <3>1, StaledFacts
  <2>2. CASE client' = [client EXCEPT ![c] = k]
    BY <2>2 DEF CallTypes
  <2>3. QED BY <2>1, <2>2 DEF Turns
<1>3. \A d \in Clients : client'[d].op \in Busy => d # c
  BY <1>1 DEF Turns
<1>4. QED BY <1>1, <1>2, <1>3

(* The call of ~TStatement and of the channels is over.                    *)
LEMMA OverKeeps ==
  ASSUME PostgresInv, NEW c \in Clients, NEW failed, CallOver(c, failed), Turns(c, Idle),
         UNCHANGED <<n_queries, fib_reader, fib_flusher, held, shutdown, pg, outbuf, server, wire, input, chan>>,
         map' \subseteq map, listener' \in [Clients -> 0..MaxQueries]
  PROVE  CallTypes' /\ Control' /\ Data' /\ client[c].op \in {"prepare", "listen", "unlisten"}
<1> DEFINE q == client[c].q
<1>1. CallTypes /\ Control /\ Data /\ n_queries \in 0..MaxQueries
  BY DEF PostgresInv, CallTypes
<1>2. client[c].op \in {"prepare", "listen", "unlisten"}
  BY DEF CallOver, Fetching
<1>3. q \in Queries
  <2>1. client[c].op \notin {"idle", "disconnect"}
    BY <1>2
  <2>2. QED BY <1>1, <2>1, StreamOf
<1>4. Destroys(q)
  BY <1>3 DEF CallOver, Destroys
<1> HIDE DEF q
<1>5. Data' /\ Len(active') = Len(active)
  BY <1>1, <1>4, DestroyKeeps
<1>6. active = <<>> => active' = <<>>
  BY <1>5 DEF Data, FlowTypes
<1>7. /\ client' \in [Clients -> Calls] /\ client'[c] = Idle
      /\ \A d \in Clients : d # c => client'[d].op = client[d].op /\ client'[d].q = client[d].q
  BY <1>1, TurnsTo
<1>8. Idle.op = "idle"
  BY DEF Idle
<1>9. CallTypes'
  <2>1. \A d \in Clients : client'[d].op \notin {"idle", "disconnect"} => client'[d].q \in 1..n_queries'
    BY <1>1, <1>7, <1>8 DEF CallTypes
  <2>2. QED BY <1>1, <1>7, <2>1 DEF CallTypes
<1>10. Control'
  <2>1. \A d \in Clients : client'[d].op = "disconnect" <=> client[d].op = "disconnect"
    BY <1>2, <1>7, <1>8
  <2>2. map = {} => map' = {}
    OBVIOUS
  <2>3. QED BY <1>1, <1>6, <2>1, <2>2, ControlKept
<1>11. QED BY <1>2, <1>5, <1>9, <1>10

LEMMA IdleTurns ==
  ASSUME NEW c \in Clients, client' \in {[Staled EXCEPT ![c] = Idle], [client EXCEPT ![c] = Idle]}
  PROVE  Turns(c, Idle)
  BY Bounds DEF Turns, Idle, Calls, Ops, Busy

LEMMA SubscribedKeeps ==
  ASSUME PostgresInv, NEW c \in Clients, Subscribed(c), ~client[c].stale
  PROVE  PostgresInv'
<1>1. /\ client[c].op = "listen" /\ CallOver(c, FALSE)
      /\ listener' = [listener EXCEPT ![c] = client[c].o]
      /\ client' = [client EXCEPT ![c] = Idle]
      /\ UNCHANGED <<n_queries, fib_reader, fib_flusher, held, shutdown, pg, outbuf, server, wire, input, chan, map>>
  BY DEF Subscribed, counts, fibers, pq
<1>2. CallTypes /\ ChannelsKept
  BY DEF PostgresInv
<1>3. Turns(c, Idle)
  BY <1>1, IdleTurns
<1>4. client[c].o \in 0..MaxQueries /\ client[c] \in Calls
  BY <1>2 DEF CallTypes, Calls
<1>5. listener' \in [Clients -> 0..MaxQueries] /\ listener'[c] = client[c].o
      /\ \A d \in Clients : d # c => listener'[d] = listener[d]
  BY <1>1, <1>2, <1>4 DEF CallTypes
<1>6. CallTypes' /\ Control' /\ Data'
  BY <1>1, <1>3, <1>5, OverKeeps
<1>7. client[c].o \in map /\ client[c].o <= n_queries
  BY <1>1, <1>2 DEF ChannelsKept, CallAt
<1>8. \A d \in Clients : client'[d].op \notin Busy
  BY <1>1, <1>2, <1>3, TurnsTo DEF ChannelsKept, Busy
<1>9. ASSUME NEW d \in Clients PROVE listener'[d] <= n_queries' /\ ListenerAt(d)' /\ CallAt(d)'
  <2>1. CallAt(d)'
    BY <1>8 DEF CallAt, Busy
  <2>2. listener'[d] <= n_queries' /\ ListenerAt(d)'
    BY <1>1, <1>2, <1>5, <1>7 DEF ChannelsKept, ListenerAt
  <2>3. QED BY <2>1, <2>2
<1>10. ChannelsKept'
  BY <1>1, <1>2, <1>8, <1>9 DEF ChannelsKept
<1>11. QED BY <1>6, <1>10 DEF PostgresInv

(* The channel goes, and nobody listens to it.                             *)
LEMMA ChannelGone ==
  ASSUME PostgresInv, NEW c \in Clients, SubscribeFailed(c) \/ ShutdownNotifyChannel(c)
  PROVE  PostgresInv'
<1> DEFINE o == client[c].o
<1>1. PICK failed \in BOOLEAN :
      /\ client[c].op \in Busy /\ CallOver(c, failed)
      /\ map' = map \ Named(chan[client[c].o].name)
      /\ client' = [Staled EXCEPT ![c] = Idle]
      /\ UNCHANGED <<n_queries, fib_reader, fib_flusher, held, shutdown, pg, outbuf, server, wire, input, chan,
                     listener>>
  BY DEF SubscribeFailed, ShutdownNotifyChannel, counts, fibers, pq, Busy
<1>2. CallTypes /\ ChannelsKept
  BY DEF PostgresInv
<1>3. Turns(c, Idle)
  BY <1>1, IdleTurns
<1>4. CallTypes' /\ Control' /\ Data'
  <2>1. map' \subseteq map /\ listener' \in [Clients -> 0..MaxQueries]
    BY <1>1, <1>2 DEF CallTypes
  <2>2. QED BY <1>1, <1>3, <2>1, OverKeeps
<1>5. \A p \in map : p \notin map' => p = o
  <2>1. CallAt(c)
    BY <1>2 DEF ChannelsKept
  <2>2. CASE map = {}
    BY <2>2
  <2>3. CASE o \in map
    BY <1>1, <1>2, <2>3 DEF Named, ChannelsKept
  <2>4. QED BY <1>1, <2>1, <2>2, <2>3 DEF CallAt
<1>6. \A d \in Clients : listener[d] # o
  BY <1>1, <1>2 DEF ChannelsKept, CallAt
<1>7. \A d \in Clients : client'[d].op \notin Busy
  BY <1>1, <1>2, <1>3, TurnsTo DEF ChannelsKept
<1>8. ASSUME NEW d \in Clients PROVE ListenerAt(d)' /\ CallAt(d)'
  <2>1. CallAt(d)'
    BY <1>7 DEF CallAt, Busy
  <2>2. ListenerAt(d)'
    BY <1>1, <1>2, <1>5, <1>6 DEF ChannelsKept, ListenerAt
  <2>3. QED BY <2>1, <2>2
<1>9. ChannelsKept'
  <2>1. map' \subseteq map
    BY <1>1
  <2>2. QED BY <1>1, <1>2, <1>7, <1>8, <2>1 DEF ChannelsKept
<1>10. QED BY <1>4, <1>9 DEF PostgresInv

(* Listeners only: nobody is in a call that changes notify_channels.       *)
LEMMA ListenerKeeps ==
  ASSUME PostgresInv, ~ChannelBusy, UNCHANGED dataVars,
         UNCHANGED <<client, fib_flusher, chan, map>>, NEW c \in Clients, NEW o \in map \cup {0},
         listener' = [listener EXCEPT ![c] = o]
  PROVE  PostgresInv'
<1>1. CallTypes /\ ChannelsKept /\ Control /\ Data
  BY DEF PostgresInv
<1>2. UNCHANGED <<fib_reader, shutdown, held, pg, active, n_queries>>
  BY DEF dataVars
<1>3. Data' /\ Control'
  BY <1>1, <1>2, DataKept, ControlKept
<1>4. o \in 0..MaxQueries /\ o <= n_queries
  BY <1>1, Bounds DEF CallTypes, Objects, ChannelsKept
<1>5. listener' \in [Clients -> 0..MaxQueries] /\ listener'[c] = o
      /\ \A d \in Clients : d # c => listener'[d] = listener[d]
  BY <1>1, <1>4 DEF CallTypes
<1>6. CallTypes'
  BY <1>1, <1>2, <1>5 DEF CallTypes
<1>7. \A d \in Clients : client'[d].op \notin Busy
  BY DEF ChannelBusy, Busy
<1>8. ASSUME NEW d \in Clients PROVE listener'[d] <= n_queries' /\ ListenerAt(d)' /\ CallAt(d)'
  <2>1. CallAt(d)'
    BY <1>7 DEF CallAt, Busy
  <2>2. listener'[d] <= n_queries' /\ ListenerAt(d)'
    BY <1>1, <1>2, <1>4, <1>5 DEF ChannelsKept, ListenerAt
  <2>3. QED BY <2>1, <2>2
<1>9. ChannelsKept'
  BY <1>1, <1>2, <1>7, <1>8 DEF ChannelsKept
<1>10. QED BY <1>3, <1>6, <1>9 DEF PostgresInv

LEMMA ListenKeeps ==
  ASSUME PostgresInv, Careful, NEW c \in Clients, NEW name \in Channels, Subscribe(c, name)
  PROVE  PostgresInv'
<1> DEFINE o == n_queries + 1
           k == [Idle EXCEPT !.op = "listen", !.q = o, !.o = o]
           ch == [name |-> name, conn |-> TRUE]
<1>1. /\ client[c].op = "idle" /\ ~ChannelBusy /\ \A p \in map : chan[p].name # name
      /\ Execute(c, "listen", name)
      /\ chan' = [chan EXCEPT ![o] = ch] /\ map' = map \cup {o}
      /\ client' = [Staled EXCEPT ![c] = k]
      /\ UNCHANGED <<listener, made, taken>>
  BY DEF Subscribe, history
<1>2. CallTypes /\ ChannelsKept /\ Control /\ Data
  BY DEF PostgresInv
<1>3. n_queries' = o /\ o \in 0..MaxQueries /\ o \in Objects /\ o \in Nat /\ n_queries \in Nat
  BY <1>1, <1>2, ExecuteCounts DEF CallTypes
<1>4. IsCall(k, "listen", o, o)
  <2>1. "listen" \in Ops
    BY DEF Ops
  <2>2. QED BY <1>3, <2>1, CallIs
<1> HIDE DEF k
<1>5. k \in Calls /\ k.op = "listen" /\ k.q = o /\ k.o = o /\ ~k.stale
  BY <1>4 DEF IsCall
<1>6. /\ client' \in [Clients -> Calls] /\ client'[c] = k
      /\ \A d \in Clients : d # c => client'[d].op = client[d].op /\ client'[d].q = client[d].q
  <2>1. Staled \in [Clients -> Calls] /\ client'[c] = k /\ \A d \in Clients : d # c => client'[d] = Staled[d]
    BY <1>1, <1>2, StaledFacts
  <2>2. QED BY <1>1, <1>2, <1>5, <2>1, StaledFacts
<1>7. \A d \in Clients : client[d].op \notin Busy
  BY <1>1 DEF ChannelBusy, Busy
<1>9. ReaderLives /\ Control'
  <2>1. \A d \in Clients : client'[d].op = "disconnect" <=> client[d].op = "disconnect"
    BY <1>1, <1>5, <1>6
  <2>2. QED BY <1>1, <1>2, <2>1, ExecuteFinds
<1>10. Data'
  <2>1. name \in Names
    BY DEF Names
  <2>2. fib_reader # "write" => held = None
    BY <1>2 DEF Control, FibersTogether
  <2>3. QED BY <1>1, <1>2, <1>9, <2>1, <2>2, ExecuteKeeps
<1>11. /\ chan' \in [Objects -> [name : Names, conn : BOOLEAN]] /\ chan'[o] = ch
       /\ \A p \in Objects : p # o => chan'[p] = chan[p]
  <2>1. ch \in [name : Names, conn : BOOLEAN]
    BY DEF Names
  <2> HIDE DEF ch
  <2>2. QED BY <1>1, <1>2, <1>3, <2>1 DEF CallTypes
<1>12. CallTypes'
  <2>1. \A d \in Clients : client'[d].op \notin {"idle", "disconnect"} => client'[d].q \in 1..n_queries'
    BY <1>2, <1>3, <1>5, <1>6 DEF CallTypes
  <2>2. QED BY <1>1, <1>2, <1>3, <1>6, <1>11, <2>1 DEF CallTypes
<1>13. \A d \in Clients : client'[d].op \in Busy => d = c
  BY <1>6, <1>7
<1>14. \A p \in map : p # o /\ p \in Objects /\ chan'[p] = chan[p] /\ p <= n_queries
  BY <1>2, <1>3, <1>11 DEF ChannelsKept, CallTypes, Objects
<1>15. \A d \in Clients : listener[d] <= n_queries /\ listener[d] # o /\ listener[d] \in Nat
  BY <1>2, <1>3, Bounds DEF ChannelsKept, CallTypes
<1>16. ASSUME NEW d \in Clients PROVE listener'[d] <= n_queries' /\ ListenerAt(d)' /\ CallAt(d)'
  <2>1. CallAt(d)'
    <3>1. CASE d = c
      BY <1>1, <1>3, <1>5, <1>6, <1>15, <3>1 DEF CallAt
    <3>2. CASE d # c
      BY <1>13, <3>2 DEF CallAt, Busy
    <3>3. QED BY <3>1, <3>2
  <2>2. listener'[d] <= n_queries'
    BY <1>1, <1>3, <1>15
  <2>3. ListenerAt(d)'
    <3>1. listener[d] # 0 => chan'[listener[d]] = chan[listener[d]]
      BY <1>2, <1>3, <1>11, <1>15, Bounds DEF CallTypes, Objects
    <3>2. QED BY <1>1, <1>2, <3>1 DEF ChannelsKept, ListenerAt
  <2>4. QED BY <2>1, <2>2, <2>3
<1>17. \A p, r \in map' : chan'[p].name = chan'[r].name => p = r
  <2>1. chan'[o].name = name
    BY <1>11
  <2>2. QED BY <1>1, <1>2, <1>14, <2>1 DEF ChannelsKept
<1>18. \A p \in map' : p <= n_queries'
  BY <1>1, <1>3, <1>14, Bounds DEF Objects
<1>19. ChannelsKept'
  BY <1>13, <1>16, <1>17, <1>18 DEF ChannelsKept
<1>20. QED BY <1>9, <1>10, <1>12, <1>19 DEF PostgresInv

LEMMA UnlistenKeeps ==
  ASSUME PostgresInv, Careful, NEW c \in Clients, Unsubscribe(c),
         ~(LastListener(c) /\ chan[listener[c]].conn /\ listener[c] \notin map)
  PROVE  PostgresInv'
<1> DEFINE o == listener[c]
           k == [Idle EXCEPT !.op = "unlisten", !.q = n_queries + 1, !.o = listener[c]]
<1>1. /\ client[c].op = "idle" /\ ~ChannelBusy /\ o # 0 /\ listener' = [listener EXCEPT ![c] = 0]
      /\ UNCHANGED <<chan, map, made, taken>>
  BY DEF Unsubscribe
<1>2. CallTypes /\ ChannelsKept /\ Control /\ Data
  BY DEF PostgresInv
<1>3. CASE ~(LastListener(c) /\ chan[o].conn /\ o \in map)
  <2>1. UNCHANGED dataVars /\ UNCHANGED <<client, fib_flusher>>
    BY <1>1, <1>3 DEF Unsubscribe, dataVars, counts, fibers, pq
  <2>2. 0 \in map \cup {0}
    OBVIOUS
  <2>3. QED BY <1>1, <2>1, <2>2, ListenerKeeps
<1>4. CASE LastListener(c) /\ chan[o].conn /\ o \in map
  <2>1. Execute(c, "unlisten", chan[o].name) /\ client' = [client EXCEPT ![c] = k]
    BY <1>4 DEF Unsubscribe
  <2>2. /\ n_queries' = n_queries + 1 /\ n_queries' \in 0..MaxQueries /\ n_queries' \in Nat /\ n_queries \in Nat
        /\ o \in 0..MaxQueries /\ o <= n_queries /\ o \in Nat /\ o \in 1..n_queries'
    <3>1. /\ n_queries' = n_queries + 1 /\ n_queries' \in 0..MaxQueries /\ n_queries' \in Nat /\ n_queries \in Nat
      BY <1>2, <2>1, ExecuteCounts DEF CallTypes
    <3>2. o \in 0..MaxQueries /\ o <= n_queries /\ o \in Nat
      BY <1>2, Bounds DEF CallTypes, ChannelsKept
    <3>3. QED BY <1>1, <3>1, <3>2
  <2>3. k \in Calls /\ k.op = "unlisten" /\ k.q = n_queries' /\ k.o = o
    <3>1. "unlisten" \in Ops /\ k = [Idle EXCEPT !.op = "unlisten", !.q = n_queries', !.o = o]
      BY <2>2 DEF Ops
    <3> HIDE DEF k, o
    <3>2. IsCall(k, "unlisten", n_queries', o)
      BY <2>2, <3>1, CallIs
    <3>3. QED BY <3>2 DEF IsCall
  <2> HIDE DEF k
  <2>4. /\ client' \in [Clients -> Calls] /\ client'[c] = k
        /\ \A d \in Clients : d # c => client'[d] = client[d]
    BY <1>2, <2>1, <2>3 DEF CallTypes
  <2>5. ReaderLives /\ Control'
    <3>1. \A d \in Clients : client'[d].op = "disconnect" <=> client[d].op = "disconnect"
      BY <1>1, <2>3, <2>4
    <3>2. map = {} => map' = {}
      BY <1>1
    <3>3. QED BY <1>2, <2>1, <3>1, <3>2, ExecuteFinds
  <2>6. Data'
    <3>1. chan[o].name \in Names
      BY <1>2, <1>4 DEF CallTypes
    <3>2. fib_reader # "write" => held = None
      BY <1>2 DEF Control, FibersTogether
    <3>3. QED BY <1>1, <1>2, <2>1, <2>5, <3>1, <3>2, ExecuteKeeps
  <2>7. listener' \in [Clients -> 0..MaxQueries] /\ listener'[c] = 0
        /\ \A d \in Clients : d # c => listener'[d] = listener[d] /\ listener[d] # o
    BY <1>1, <1>2, <1>4, Bounds DEF CallTypes, LastListener
  <2>8. CallTypes'
    <3>1. \A d \in Clients : client'[d].op \notin {"idle", "disconnect"} => client'[d].q \in 1..n_queries'
      BY <1>2, <2>2, <2>3, <2>4 DEF CallTypes
    <3>2. QED BY <1>1, <1>2, <2>2, <2>4, <2>7, <3>1 DEF CallTypes
  <2>9. \A d \in Clients : client'[d].op \in Busy => d = c
    BY <1>1, <2>4 DEF ChannelBusy, Busy
  <2>10. ASSUME NEW d \in Clients PROVE listener'[d] <= n_queries' /\ ListenerAt(d)' /\ CallAt(d)'
    <3>1. CallAt(d)'
      <4>1. CASE d = c
        <5>1. \A e \in Clients : listener'[e] # o
          BY <1>1, <2>7
        <5>2. QED BY <1>1, <1>4, <2>2, <2>3, <2>4, <4>1, <5>1 DEF CallAt
      <4>2. CASE d # c
        BY <2>9, <4>2 DEF CallAt, Busy
      <4>3. QED BY <4>1, <4>2
    <3>2. listener'[d] <= n_queries'
      <4>1. listener[d] <= n_queries /\ listener[d] \in Nat
        BY <1>2, Bounds DEF ChannelsKept, CallTypes
      <4>2. QED BY <2>2, <2>7, <4>1
    <3>3. ListenerAt(d)'
      BY <1>1, <1>2, <2>7 DEF ChannelsKept, ListenerAt
    <3>4. QED BY <3>1, <3>2, <3>3
  <2>11. \A p \in map' : p <= n_queries'
    BY <1>1, <1>2, <2>2, Bounds DEF ChannelsKept, CallTypes, Objects
  <2>12. ChannelsKept'
    BY <1>1, <1>2, <2>9, <2>10, <2>11 DEF ChannelsKept
  <2>13. QED BY <2>5, <2>6, <2>8, <2>12 DEF PostgresInv
<1>5. QED BY <1>3, <1>4

-----------------------------------------------------------------------------
(***************************************************************************)
(* Connecting and disconnecting                                            *)
(***************************************************************************)
LEMMA ConnectCallKeeps ==
  ASSUME PostgresInv, Careful, NEW c \in Clients, Connect(c)
  PROVE  PostgresInv'
<1>1. CallTypes /\ ChannelsKept /\ Control /\ Data /\ n_queries \in 0..MaxQueries
  BY DEF PostgresInv, CallTypes
<1>2. /\ fib_reader = "new" /\ fib_flusher = "new" /\ ~Closing
      /\ fib_reader' = "wait" /\ fib_flusher' = "ready" /\ pg' = "up" /\ Nothing
      /\ UNCHANGED <<client, n_queries, stream, active, held, shutdown, chan, map, listener, made, taken>>
  BY DEF Connect, Joined, Nothing, history
<1>3. shutdown = {} /\ active = <<>>
  BY <1>1, <1>2 DEF Control, FibersTogether, ReaderLives
<1>4. CallTypes' /\ ChannelsKept'
  BY <1>1, <1>2, CallsUnchanged
<1>5. Data'
  BY <1>1, <1>2, <1>3, ConnectKeeps
<1>6. FiberTypes'
  BY <1>1, <1>2 DEF Control, FiberTypes
<1>7. ~Closing'
  BY <1>2 DEF Closing
<1>8. FibersTogether'
  BY <1>1, <1>2, <1>3, <1>7 DEF Control, FibersTogether, ReaderLives, FlusherLives
<1>9. QED BY <1>4, <1>5, <1>6, <1>8 DEF PostgresInv, Control

(* Everything is closed, and the fibers that run are told to end.          *)
LEMMA ClosedKeeps ==
  ASSUME PostgresInv, CloseAll, Closing', FiberTypes',
         client' = Staled \/ \E c \in Clients : client[c].op = "idle" /\ client' = [Staled EXCEPT ![c].op = "disconnect"],
         ~ReaderLives', ~FlusherLives',
         "reader" \in shutdown' => fib_reader' \in {"wait", "write"},
         "flusher" \in shutdown' => fib_flusher' \in {"ready", "stopped", "blocked"},
         fib_reader' = "write" <=> fib_reader = "write",
         UNCHANGED <<n_queries, held, pg, outbuf, server, wire, input, made, taken, listener>>
  PROVE  PostgresInv'
<1>1. CallTypes /\ ChannelsKept /\ Control /\ Data /\ n_queries \in 0..MaxQueries
  BY DEF PostgresInv, CallTypes
<1>2. Data' /\ active' = <<>> /\ map' = {}
  BY <1>1, CloseKeeps
<1>3. Control'
  <2>1. FibersTogether'
    BY <1>1, <1>2 DEF Control, FibersTogether
  <2>2. QED BY <2>1 DEF Control
<1>4. /\ client' \in [Clients -> Calls]
      /\ \A d \in Clients : /\ client'[d].op \notin {"idle", "disconnect"} => /\ client'[d].op = client[d].op
                                                                             /\ client'[d].q = client[d].q
                                                                             /\ client'[d].o = client[d].o
                            /\ client'[d].op = "listen" => client'[d].stale
  <2>1. CASE client' = Staled
    BY <1>1, <2>1, StaledFacts
  <2>2. CASE \E c \in Clients : client[c].op = "idle" /\ client' = [Staled EXCEPT ![c].op = "disconnect"]
    <3>1. PICK c \in Clients : client[c].op = "idle" /\ client' = [Staled EXCEPT ![c].op = "disconnect"]
      BY <2>2
    <3> DEFINE k == [Staled[c] EXCEPT !.op = "disconnect"]
    <3>2. k \in Calls /\ k.op = "disconnect"
      <4>1. Staled[c] \in Calls
        BY <1>1, StaledFacts
      <4>2. QED BY <4>1 DEF Calls, Ops
    <3>3. client' = [Staled EXCEPT ![c] = k]
      BY <3>1
    <3> HIDE DEF k
    <3>4. client' \in [Clients -> Calls] /\ client'[c] = k /\ \A d \in Clients : d # c => client'[d] = Staled[d]
      BY <1>1, <3>2, <3>3, StaledFacts
    <3>5. QED BY <1>1, <3>2, <3>4, StaledFacts
  <2>3. QED BY <2>1, <2>2
<1>5. /\ chan' \in [Objects -> [name : Names, conn : BOOLEAN]]
      /\ \A o \in Objects : chan'[o].conn => chan[o].conn /\ o \notin map
  <2>1. \A o \in Objects : chan'[o] = IF o \in map THEN [chan[o] EXCEPT !.conn = FALSE] ELSE chan[o]
    BY DEF CloseAll
  <2>2. \A o \in Objects : LET e == [chan[o] EXCEPT !.conn = FALSE]
                           IN e \in [name : Names, conn : BOOLEAN] /\ ~e.conn
    BY <1>1 DEF CallTypes
  <2>3. chan' = [o \in Objects |-> chan'[o]]
    BY DEF CloseAll
  <2>4. \A o \in Objects : chan[o] \in [name : Names, conn : BOOLEAN]
    BY <1>1 DEF CallTypes
  <2>5. \A o \in Objects : chan'[o] \in [name : Names, conn : BOOLEAN]
    BY <2>1, <2>2, <2>4
  <2>6. \A o \in Objects : chan'[o].conn => chan[o].conn /\ o \notin map
    BY <2>1, <2>2
  <2>7. QED BY <2>3, <2>5, <2>6
<1>6. CallTypes'
  <2>1. \A d \in Clients : client'[d].op \notin {"idle", "disconnect"} => client'[d].q \in 1..n_queries'
    BY <1>1, <1>4 DEF CallTypes
  <2>2. QED BY <1>1, <1>2, <1>4, <1>5, <2>1 DEF CallTypes
<1>7. \A d \in Clients : client'[d].op \in Busy => client[d].op \in Busy /\ client'[d].o = client[d].o
  BY <1>4 DEF Busy
<1>8. ASSUME NEW d \in Clients PROVE ListenerAt(d)' /\ CallAt(d)'
  <2>1. ListenerAt(d) /\ CallAt(d)
    BY <1>1 DEF ChannelsKept
  <2>2. ListenerAt(d)'
    <3>1. listener[d] # 0 => listener[d] \in Objects
      BY <1>1, Bounds DEF CallTypes, Objects
    <3>2. QED BY <1>5, <2>1, <3>1 DEF ListenerAt
  <2>3. CallAt(d)'
    BY <1>2, <1>4, <1>7, <2>1 DEF CallAt
  <2>4. QED BY <2>2, <2>3
<1>9. ChannelsKept'
  BY <1>1, <1>2, <1>7, <1>8 DEF ChannelsKept
<1>10. QED BY <1>2, <1>3, <1>6, <1>9 DEF PostgresInv

LEMMA DisconnectKeeps ==
  ASSUME PostgresInv, NEW c \in Clients, Disconnect(c)
  PROVE  PostgresInv'
<1>1. /\ client[c].op = "idle" /\ CloseAll /\ client' = [Staled EXCEPT ![c].op = "disconnect"]
      /\ shutdown' = shutdown \cup Running /\ fib_reader # "loop"
      /\ UNCHANGED <<n_queries, fib_reader, fib_flusher, held, pg, outbuf, server, wire, input, made, taken, listener>>
  BY DEF Disconnect, Free, counts, pq, history
<1>2. CallTypes /\ FiberTypes /\ FibersTogether
  BY DEF PostgresInv, Control
<1>3. Closing'
  <2>1. client'[c].op = "disconnect"
    <3>1. Staled \in [Clients -> Calls]
      BY <1>2, StaledFacts
    <3>2. QED BY <1>1, <3>1 DEF Calls
  <2>2. QED BY <2>1 DEF Closing
<1>4. /\ "reader" \in Running <=> fib_reader \in {"wait", "write"}
      /\ "flusher" \in Running <=> fib_flusher \in {"ready", "stopped", "blocked"}
      /\ Running \subseteq {"reader", "flusher"}
  BY DEF Running
<1>5. FiberTypes' /\ ~ReaderLives' /\ ~FlusherLives'
  BY <1>1, <1>2, <1>4 DEF FiberTypes, ReaderLives, FlusherLives
<1>6. /\ "reader" \in shutdown' => fib_reader' \in {"wait", "write"}
      /\ "flusher" \in shutdown' => fib_flusher' \in {"ready", "stopped", "blocked"}
  BY <1>1, <1>2, <1>4 DEF FibersTogether
<1>7. QED BY <1>1, <1>3, <1>5, <1>6, ClosedKeeps

LEMMA FailsKeeps ==
  ASSUME PostgresInv, FlusherFails \/ ReaderFails
  PROVE  PostgresInv'
<1>1. /\ CloseAll /\ client' = Staled /\ fib_reader # "loop"
      /\ \/ /\ fib_flusher' = "closing" /\ fib_reader' = fib_reader /\ shutdown' = Running \cap {"reader"}
         \/ /\ fib_reader' = "closing" /\ fib_flusher' = fib_flusher /\ shutdown' = Running \cap {"flusher"}
            /\ fib_reader = "wait"
      /\ UNCHANGED <<n_queries, held, pg, outbuf, server, wire, input, made, taken, listener>>
  BY DEF FlusherFails, ReaderFails, Free, counts, pq, history
<1>2. FiberTypes
  BY DEF PostgresInv, Control
<1>3. Closing'
  BY <1>1 DEF Closing
<1>4. /\ "reader" \in Running <=> fib_reader \in {"wait", "write"}
      /\ "flusher" \in Running <=> fib_flusher \in {"ready", "stopped", "blocked"}
      /\ Running \subseteq {"reader", "flusher"}
  BY DEF Running
<1>5. FiberTypes' /\ ~ReaderLives' /\ ~FlusherLives' /\ (fib_reader' = "write" <=> fib_reader = "write")
  BY <1>1, <1>2, <1>4 DEF FiberTypes, ReaderLives, FlusherLives
<1>6. /\ "reader" \in shutdown' => fib_reader' \in {"wait", "write"}
      /\ "flusher" \in shutdown' => fib_flusher' \in {"ready", "stopped", "blocked"}
  BY <1>1, <1>4
<1>7. QED BY <1>1, <1>3, <1>5, <1>6, ClosedKeeps

(* A fiber that runs to its end, or joins the other.                       *)
LEMMA FiberEndsKeeps ==
  ASSUME PostgresInv, FiberEnds
  PROVE  PostgresInv'
<1>1. CallTypes /\ ChannelsKept /\ FiberTypes /\ FibersTogether /\ Data /\ n_queries \in 0..MaxQueries
  BY DEF PostgresInv, CallTypes, Control
<1>2. UNCHANGED <<client, n_queries, active, pg, chan, map, listener>>
  BY DEF FiberEnds, counts, pq, channels
<1>3. CallTypes' /\ ChannelsKept'
  BY <1>1, <1>2, CallsUnchanged
<1>4. Data'
  BY <1>1, EndingKeeps
<1>5. \/ /\ "reader" \in shutdown /\ fib_reader \in {"wait", "write"}
         /\ fib_reader' = "over" /\ held' = None /\ shutdown' = shutdown \ {"reader"} /\ fib_flusher' = fib_flusher
      \/ /\ "flusher" \in shutdown /\ fib_flusher \in {"ready", "blocked", "stopped"}
         /\ fib_flusher' = "over" /\ shutdown' = shutdown \ {"flusher"} /\ fib_reader' = fib_reader /\ held' = held
  BY DEF FiberEnds
<1>6. FiberTypes'
  BY <1>1, <1>2, <1>5 DEF FiberTypes
<1>7. Closing /\ Closing' /\ ~ReaderLives /\ ~FlusherLives
  <2>1. Closing
    BY <1>1, <1>5 DEF FibersTogether
  <2>2. Closing'
    BY <1>2, <1>5, <2>1 DEF Closing
  <2>3. QED BY <1>1, <2>1, <2>2 DEF FibersTogether
<1>8. ~ReaderLives' /\ ~FlusherLives'
  BY <1>5, <1>7 DEF ReaderLives, FlusherLives
<1>9. FibersTogether'
  BY <1>1, <1>2, <1>5, <1>7, <1>8 DEF FibersTogether
<1>10. QED BY <1>3, <1>4, <1>6, <1>9 DEF PostgresInv, Control

LEMMA JoinedKeeps ==
  ASSUME PostgresInv, FiberDisconnected
  PROVE  PostgresInv'
<1>1. CallTypes /\ ChannelsKept /\ FiberTypes /\ FibersTogether /\ Data /\ n_queries \in 0..MaxQueries
  BY DEF PostgresInv, CallTypes, Control
<1>2. /\ UNCHANGED <<client, n_queries, stream, active, held, shutdown, chan, map, listener, made, taken>> /\ Finish
      /\ \/ fib_reader = "closing" /\ fib_flusher \in Over /\ fib_reader' = "over" /\ fib_flusher' = "new"
         \/ fib_flusher = "closing" /\ fib_reader \in Over /\ fib_flusher' = "over" /\ fib_reader' = "new"
  BY DEF FiberDisconnected, counts, history
<1>3. CallTypes' /\ ChannelsKept'
  BY <1>1, <1>2, CallsUnchanged
<1>4. Closing /\ ~ReaderLives /\ ~FlusherLives /\ ~ReaderLives' /\ ~FlusherLives'
  BY <1>2 DEF Closing, ReaderLives, FlusherLives, Over, FibersTogether
<1>5. Data'
  BY <1>1, <1>2, <1>4, FinishKeeps
<1>6. shutdown = {}
  BY <1>1, <1>2 DEF FiberTypes, FibersTogether, Over
<1>7. FiberTypes'
  BY <1>1, <1>2 DEF FiberTypes, Finish
<1>8. FibersTogether'
  BY <1>1, <1>2, <1>4, <1>6 DEF FibersTogether, Over
<1>9. QED BY <1>3, <1>5, <1>7, <1>8 DEF PostgresInv, Control

LEMMA DisconnectedKeeps ==
  ASSUME PostgresInv, NEW c \in Clients, Disconnected(c)
  PROVE  PostgresInv'
<1>1. CallTypes /\ ChannelsKept /\ FiberTypes /\ FibersTogether /\ Data /\ n_queries \in 0..MaxQueries
  BY DEF PostgresInv, CallTypes, Control
<1>2. /\ UNCHANGED <<n_queries, stream, active, held, shutdown, chan, map, listener, made, taken>> /\ Finish
      /\ client[c].op = "disconnect" /\ client' = [client EXCEPT ![c] = Idle]
      /\ fib_reader \in Over /\ fib_flusher \in Over /\ fib_reader' = "new" /\ fib_flusher' = "new"
  BY DEF Disconnected, counts, history
<1>3. /\ client' \in [Clients -> Calls] /\ client'[c].op = "idle"
      /\ \A d \in Clients : d # c => client'[d] = client[d]
  <2>1. Idle \in Calls /\ Idle.op = "idle"
    BY Bounds DEF Idle, Calls, Ops
  <2>2. QED BY <1>1, <1>2, <2>1 DEF CallTypes
<1>4. CallTypes'
  <2>1. \A d \in Clients : client'[d].op \notin {"idle", "disconnect"} => client'[d].q \in 1..n_queries'
    BY <1>1, <1>2, <1>3 DEF CallTypes
  <2>2. QED BY <1>1, <1>2, <1>3, <2>1 DEF CallTypes
<1>5. ChannelsKept'
  <2>1. \A d \in Clients : client'[d].op \in Busy => client'[d] = client[d]
    BY <1>3 DEF Busy
  <2>2. n_queries' \in Nat /\ n_queries <= n_queries'
    BY <1>1, <1>2, Bounds
  <2>3. QED BY <1>1, <1>2, <2>1, <2>2, ChannelsFrame
<1>6. Closing /\ ~ReaderLives /\ ~ReaderLives' /\ ~FlusherLives'
  BY <1>2 DEF Closing, ReaderLives, FlusherLives, Over
<1>7. Data'
  BY <1>1, <1>2, <1>6, FinishKeeps
<1>8. shutdown = {}
  BY <1>1, <1>2 DEF FiberTypes, FibersTogether, Over
<1>9. FiberTypes'
  BY <1>1, <1>2 DEF FiberTypes, Finish
<1>10. FibersTogether'
  BY <1>1, <1>2, <1>6, <1>8 DEF FibersTogether, Over
<1>11. QED BY <1>4, <1>5, <1>7, <1>9, <1>10 DEF PostgresInv, Control

-----------------------------------------------------------------------------
(***************************************************************************)
(* The fibers and the server                                               *)
(***************************************************************************)
LEMMA FlusherSteps ==
  ASSUME Control, FlusherMain
  PROVE  Control'
<1>1. /\ fib_flusher \in {"ready", "blocked"} /\ "flusher" \notin shutdown
      /\ fib_flusher' \in {"stopped", "blocked"}
      /\ UNCHANGED <<client, active, fib_reader, held, shutdown, pg, map>>
  BY DEF FlusherMain, channels
<1>2. FiberTypes'
  BY <1>1 DEF Control, FiberTypes
<1>3. Closing' <=> Closing
  BY <1>1 DEF Closing
<1>4. FlusherLives /\ FlusherLives' /\ ReaderLives' = ReaderLives
  BY <1>1 DEF FlusherLives, ReaderLives
<1>5. FibersTogether'
  BY <1>1, <1>3, <1>4 DEF Control, FibersTogether
<1>6. QED BY <1>2, <1>5 DEF Control

(* The reader goes on.                                                     *)
LEMMA ReaderSteps ==
  ASSUME Control, ReaderLives, fib_reader' \in {"wait", "loop", "write"},
         UNCHANGED <<client, fib_flusher, shutdown, pg, map>>,
         fib_reader' # "write" => held' = None,
         fib_reader' = "write" => held'.k \in {"row", "done", "error"}
  PROVE  Control'
<1>1. FiberTypes'
  BY DEF Control, FiberTypes
<1>2. Closing' <=> Closing
  BY DEF Closing, ReaderLives
<1>3. ReaderLives' /\ FlusherLives' = FlusherLives
  BY DEF FlusherLives, ReaderLives
<1>4. FibersTogether'
  BY <1>2, <1>3 DEF Control, FibersTogether, ReaderLives
<1>5. QED BY <1>1, <1>4 DEF Control

LEMMA FlusherCallKeeps ==
  ASSUME PostgresInv, FlusherMain
  PROVE  PostgresInv'
<1>1. CallTypes /\ ChannelsKept /\ Control /\ Data /\ n_queries \in 0..MaxQueries
  BY DEF PostgresInv, CallTypes
<1>2. UNCHANGED <<client, n_queries, chan, map, listener>>
  BY DEF FlusherMain, counts, channels
<1>3. CallTypes' /\ ChannelsKept'
  BY <1>1, <1>2, CallsUnchanged
<1>4. Control' /\ Data'
  BY <1>1, FlusherSteps, FlusherKeeps
<1>5. QED BY <1>3, <1>4 DEF PostgresInv

(* What the reader holds on to is a result for a stream.                   *)
LEMMA HeldIsResult ==
  ASSUME Data, FibersTogether, ReaderTakes, n_queries \in 0..MaxQueries
  PROVE  /\ fib_reader' \in {"loop", "write"}
         /\ fib_reader' # "write" => held' = None
         /\ fib_reader' = "write" => held'.k \in {"row", "done", "error"}
<1> DEFINE r == Head(input)
<1>1. fib_reader = "loop" /\ held = None /\ active # <<>> /\ input # <<>>
  BY DEF ReaderTakes, InLoop, FibersTogether
<1>2. \/ UNCHANGED <<fib_reader, held>>
      \/ fib_reader' = "write" /\ held' = r /\ r.k # "end" /\ r.k # "sync"
  BY DEF ReaderTakes
<1>3. CASE fib_reader' = "write" /\ held' = r /\ r.k # "end" /\ r.k # "sync"
  <2>1. /\ Flow # <<>> /\ Flow[1] = r /\ r \in AllResults /\ Flow \in Seq(AllResults)
    <3>1. input' = Tail(input) /\ wire' = wire
      BY DEF ReaderTakes
    <3>2. QED BY <1>1, <3>1, Numbers, TakenFlow
  <2>2. ReaderLives
    BY <1>1 DEF FibersTogether, ReaderLives
  <2>3. r.k # "none"
    <3>1. Ordered(Flow, Asked, n_queries, Finished) /\ 1 \in 1..Len(Flow)
      BY <2>1, <2>2 DEF Data, InOrder
    <3>2. QED BY <2>1, <3>1 DEF Ordered, Sound
  <2>4. r.k \in {"row", "done", "error"}
    BY <1>3, <2>1, <2>3 DEF AllResults, Kinds
  <2>5. QED BY <1>3, <2>4
<1>4. CASE UNCHANGED <<fib_reader, held>>
  BY <1>1, <1>4
<1>5. QED BY <1>2, <1>3, <1>4

LEMMA ReaderCallKeeps ==
  ASSUME PostgresInv, ReaderWakes \/ ReaderTakes \/ ReaderWaits \/ (ReaderWrites /\ Head(active) # 0)
  PROVE  PostgresInv'
<1>1. CallTypes /\ ChannelsKept /\ Control /\ FibersTogether /\ Data /\ n_queries \in 0..MaxQueries
  BY DEF PostgresInv, CallTypes, Control
<1>2. UNCHANGED <<client, n_queries, chan, map, listener, fib_flusher, shutdown, pg>>
  BY DEF ReaderWakes, ReaderTakes, ReaderWaits, ReaderWrites, counts, channels, pq
<1>3. CallTypes' /\ ChannelsKept'
  BY <1>1, <1>2, CallsUnchanged
<1>4. CASE ReaderWakes
  <2>1. fib_reader = "wait" /\ "reader" \notin shutdown /\ fib_reader' = "loop" /\ held' = held
    BY <1>4 DEF ReaderWakes
  <2>2. ReaderLives /\ held' = None
    BY <1>1, <2>1 DEF ReaderLives, FibersTogether
  <2>3. Control'
    BY <1>1, <1>2, <2>1, <2>2, ReaderSteps
  <2>4. QED BY <1>1, <1>3, <1>4, <2>3, WakesKeeps DEF PostgresInv
<1>5. CASE ReaderTakes
  <2>1. ReaderLives
    BY <1>1, <1>5 DEF ReaderTakes, InLoop, ReaderLives, FibersTogether
  <2>2. Control'
    BY <1>1, <1>2, <1>5, <2>1, HeldIsResult, ReaderSteps
  <2>3. QED BY <1>1, <1>3, <1>5, <2>2, TakesKeeps DEF PostgresInv
<1>6. CASE ReaderWaits
  <2>1. fib_reader = "loop" /\ fib_reader' = "wait" /\ held' = held
    BY <1>6 DEF ReaderWaits
  <2>2. ReaderLives /\ held' = None
    BY <1>1, <2>1 DEF ReaderLives, FibersTogether
  <2>3. Control'
    BY <1>1, <1>2, <2>1, <2>2, ReaderSteps
  <2>4. QED BY <1>1, <1>3, <1>6, <2>3, WaitsKeeps DEF PostgresInv
<1>7. CASE ReaderWrites /\ Head(active) # 0
  <2>1. fib_reader = "write" /\ "reader" \notin shutdown /\ fib_reader' = "loop" /\ held' = None
    BY <1>7 DEF ReaderWrites
  <2>2. ReaderLives
    BY <2>1 DEF ReaderLives
  <2>3. Control'
    BY <1>1, <1>2, <2>1, <2>2, ReaderSteps
  <2>4. QED BY <1>1, <1>3, <1>7, <2>3, WritesKeeps DEF PostgresInv
<1>8. QED BY <1>4, <1>5, <1>6, <1>7

LEMMA ServerKeeps ==
  ASSUME PostgresInv, Server \/ Break
  PROVE  PostgresInv'
<1>1. CallTypes /\ ChannelsKept /\ Control /\ FibersTogether /\ Data /\ n_queries \in 0..MaxQueries
  BY DEF PostgresInv, CallTypes, Control
<1>2. /\ UNCHANGED <<client, n_queries, active, fib_reader, fib_flusher, held, shutdown, chan, map, listener>>
      /\ pg' = pg \/ (pg = "up" /\ pg' = "broken")
  BY DEF Server, ServerRow, ServerEnd, Break, Answer, counts, fibers, channels
<1>3. CallTypes' /\ ChannelsKept'
  BY <1>1, <1>2, CallsUnchanged
<1>4. Control'
  BY <1>1, <1>2, ControlKept
<1>5. Data'
  BY <1>1, RowKeeps, ServedKeeps, BreakKeeps DEF Server
<1>6. QED BY <1>3, <1>4, <1>5 DEF PostgresInv

(* What changes nothing the invariant is about.                            *)
LEMMA NothingKeeps ==
  ASSUME PostgresInv, UNCHANGED dataVars, UNCHANGED <<client, fib_flusher, chan, map, listener>>
  PROVE  PostgresInv'
<1>1. CallTypes /\ ChannelsKept /\ Control /\ Data
  BY DEF PostgresInv
<1>2. UNCHANGED <<n_queries, active, fib_reader, held, shutdown, pg>>
  BY DEF dataVars
<1>3. QED BY <1>1, <1>2, CallsUnchanged, ControlKept, DataKept DEF PostgresInv

-----------------------------------------------------------------------------
(***************************************************************************)
(* The specification                                                       *)
(***************************************************************************)
(* Nothing is done any more once something went wrong beyond repair, and   *)
(* these are the steps that do not go wrong.                               *)
LEMMA StillDefined ==
  ASSUME Defined'
  PROVE  /\ [Next]_vars => Defined
         /\ ReaderWrites => Head(active) # 0
         /\ \A c \in Clients : Subscribed(c) => ~client[c].stale
         /\ \A c \in Clients : Unsubscribe(c) => ~(LastListener(c) /\ chan[listener[c]].conn /\ listener[c] \notin map)
<1>1. ReaderWrites => Head(active) # 0
  BY DEF ReaderWrites, Defined
<1>2. \A c \in Clients : Subscribed(c) => ~client[c].stale
  BY DEF Subscribed, Defined
<1>3. \A c \in Clients : Unsubscribe(c) => ~(LastListener(c) /\ chan[listener[c]].conn /\ listener[c] \notin map)
  BY DEF Unsubscribe, Defined
<1>4. UNCHANGED vars => Defined
  BY DEF vars, history, Defined
<1>5. ASSUME Next PROVE Defined
  <2>1. ASSUME NEW c \in Clients,
               \/ Connect(c) \/ Disconnect(c) \/ Query(c) \/ Prepare(c)
               \/ MoveFirst(c) \/ DiscardAllRows(c) \/ Uses(c) \/ Continues(c)
               \/ \E name \in Channels : SubscribeShared(c, name) \/ Subscribe(c, name)
               \/ Unsubscribe(c) \/ Read(c)
        PROVE  Free
    BY <2>1 DEF Connect, Disconnect, Query, Prepare, MoveFirst, DiscardAllRows, Uses, MoveNext, Destroy, Continues,
                FetchRow, FetchAll, FetchEnd, Prepared, Subscribed, SubscribeFailed, ShutdownNotifyChannel, CallOver,
                Fetching, Disconnected, SubscribeShared, Subscribe, Unsubscribe, Read
  <2>2. FlusherMain \/ Failure \/ Server \/ Break => Free
    BY DEF FlusherMain, Failure, FlusherFails, ReaderFails, FiberEnds, FiberDisconnected, Server, ServerRow, ServerEnd,
           Break
  <2>3. Reader => Free \/ Defined
    BY DEF Reader, ReaderWakes, ReaderTakes, InLoop, ReaderWrites, ReaderWaits, Defined
  <2>4. (\E name \in Channels : Notify(name)) => Free
    BY DEF Notify
  <2>5. Free => Defined
    BY DEF Free, Defined
  <2>6. QED BY <1>5, <2>1, <2>2, <2>3, <2>4, <2>5 DEF Next
<1>6. QED BY <1>1, <1>2, <1>3, <1>4, <1>5

LEMMA StepKeeps ==
  ASSUME PostgresInv, Careful, [Next]_vars, Defined'
  PROVE  PostgresInv'
<1>1. CASE UNCHANGED vars
  <2>1. UNCHANGED dataVars /\ UNCHANGED <<client, fib_flusher, chan, map, listener>>
    BY <1>1 DEF vars, dataVars, counts, fibers, pq, channels, history
  <2>2. QED BY <2>1, NothingKeeps
<1>2. CASE FlusherMain \/ Reader \/ Failure \/ Server \/ Break
  <2>1. CASE Reader
    BY <2>1, StillDefined, ReaderCallKeeps DEF Reader
  <2>2. CASE Failure
    BY <2>2, FailsKeeps, FiberEndsKeeps, JoinedKeeps DEF Failure
  <2>3. QED BY <1>2, <2>1, <2>2, FlusherCallKeeps, ServerKeeps
<1>3. CASE \E name \in Channels : Notify(name)
  <2>1. UNCHANGED dataVars /\ UNCHANGED <<client, fib_flusher, chan, map, listener>>
    BY <1>3 DEF Notify, dataVars, fibers, channels, history
  <2>2. QED BY <2>1, NothingKeeps
<1>4. ASSUME NEW c \in Clients,
             \/ Connect(c) \/ Disconnect(c) \/ Query(c) \/ Prepare(c) \/ MoveFirst(c) \/ DiscardAllRows(c)
             \/ Uses(c)
      PROVE  PostgresInv'
  BY <1>4, ConnectCallKeeps, DisconnectKeeps, QueryKeeps, MoveKeeps, DestroyCallKeeps DEF Uses
<1>5. ASSUME NEW c \in Clients, Continues(c) PROVE PostgresInv'
  BY <1>5, StillDefined, FetchRowKeeps, FetchAllKeeps, FetchEndKeeps, PreparedKeeps, SubscribedKeeps, ChannelGone,
     DisconnectedKeeps DEF Continues
<1>6. ASSUME NEW c \in Clients, NEW name \in Channels, SubscribeShared(c, name) PROVE PostgresInv'
  <2>1. PICK o \in map : listener' = [listener EXCEPT ![c] = o]
    BY <1>6 DEF SubscribeShared
  <2>2. UNCHANGED dataVars /\ UNCHANGED <<client, fib_flusher, chan, map>> /\ ~ChannelBusy /\ o \in map \cup {0}
    BY <1>6 DEF SubscribeShared, dataVars, counts, fibers, pq, history
  <2>3. QED BY <2>1, <2>2, ListenerKeeps
<1>7. ASSUME NEW c \in Clients, NEW name \in Channels, Subscribe(c, name) PROVE PostgresInv'
  BY <1>7, ListenKeeps
<1>8. ASSUME NEW c \in Clients, Unsubscribe(c) PROVE PostgresInv'
  BY <1>8, StillDefined, UnlistenKeeps
<1>9. ASSUME NEW c \in Clients, Read(c) PROVE PostgresInv'
  <2>1. UNCHANGED dataVars /\ UNCHANGED <<client, fib_flusher, chan, map, listener>>
    BY <1>9 DEF Read, dataVars, counts, fibers, pq, history
  <2>2. QED BY <2>1, NothingKeeps
<1>10. QED BY <1>1, <1>2, <1>3, <1>4, <1>5, <1>6, <1>7, <1>8, <1>9 DEF Next

LEMMA Initially ==
  ASSUME Init
  PROVE  PostgresInv
<1>1. /\ client = [c \in Clients |-> Idle] /\ n_queries = 0
      /\ stream = [q \in Queries |-> NoStream]
      /\ active = <<>> /\ held = None /\ shutdown = {}
      /\ fib_reader = "new" /\ fib_flusher = "new"
      /\ pg = "none" /\ outbuf = <<>> /\ server = <<>> /\ wire = <<>> /\ input = <<>>
      /\ chan = [o \in Objects |-> [name |-> "", conn |-> FALSE]]
      /\ map = {} /\ listener = [c \in Clients |-> 0]
      /\ made = [q \in Queries |-> <<>>] /\ taken = [q \in Queries |-> <<>>]
  BY DEF Init
<1>2. Idle \in Calls /\ Idle.op = "idle"
  BY Bounds DEF Idle, Calls, Ops
<1>3. CallTypes
  <2>1. client \in [Clients -> Calls] /\ \A c \in Clients : client[c].op = "idle"
    BY <1>1, <1>2
  <2>7. 0 \in 0..MaxQueries
    BY Bounds
  <2>8. n_queries = 0 /\ listener = [c \in Clients |-> 0]
    BY <1>1
  <2>2. listener \in [Clients -> 0..MaxQueries]
    BY <2>7, <2>8
  <2>3. n_queries \in 0..MaxQueries
    BY <2>7, <2>8
  <2>4. chan \in [Objects -> [name : Names, conn : BOOLEAN]]
    <3> DEFINE e == [name |-> "", conn |-> FALSE]
    <3>1. e \in [name : Names, conn : BOOLEAN]
      BY DEF Names
    <3>2. chan = [o \in Objects |-> e]
      BY <1>1
    <3> HIDE DEF e
    <3>3. QED BY <3>1, <3>2
  <2>5. map \subseteq Objects
    BY <1>1
  <2>6. QED BY <2>1, <2>2, <2>3, <2>4, <2>5 DEF CallTypes
<1>4. NoStream \in Streams /\ ~NoStream.open /\ ~NoStream.conn /\ NoStream.fifo = <<>> /\ None \in AllResults
  BY DEF NoStream, Streams, None, Result, AllResults, Kinds
<1>5. FlowTypes
  <2>1. stream \in [Queries -> Streams]
    BY <1>1, <1>4
  <2>2. \A A : <<>> \in Seq(A)
    OBVIOUS
  <2>3. made \in [Queries -> Seq(AllResults)] /\ taken \in [Queries -> Seq(AllResults)]
    BY <1>1, <2>2
  <2>4. /\ active \in Seq(0..MaxQueries) /\ held \in AllResults /\ input \in Seq(AllResults)
        /\ wire \in Seq(AllResults) /\ outbuf \in Seq(Commands) /\ server \in Seq(Commands)
    BY <1>1, <1>4, <2>2
  <2>5. QED BY <2>1, <2>3, <2>4 DEF FlowTypes
<1>6. FiberTypes
  BY <1>1 DEF FiberTypes
<1>7. ~Closing /\ ~ReaderLives /\ ~FlusherLives
  BY <1>1, <1>2 DEF Closing, ReaderLives, FlusherLives
<1>8. FibersTogether
  BY <1>1, <1>7 DEF FibersTogether
<1>9. Places
  <2>1. Len(active) = 0 /\ n_queries = 0
    BY <1>1
  <2>2. \A q \in Queries : /\ ~stream[q].open /\ ~stream[q].conn /\ stream[q].fifo = <<>>
                           /\ made[q] = <<>> /\ taken[q] = <<>>
    BY <1>1, <1>4
  <2>3. \A i \in 1..Len(active) : FALSE
    BY <2>1
  <2>4. \A i : i \notin 1..Len(active)
    BY <2>1
  <2>5. Len(active) <= n_queries
    BY <2>1
  <2>6. QED BY <2>2, <2>4, <2>5 DEF Places
<1>10. InOrder
  BY <1>7 DEF InOrder
<1>11. ASSUME NEW q \in Queries PROVE LosslessAt(q)
  <2>1. taken[q] = <<>> /\ made[q] = <<>> /\ stream[q].fifo = <<>> /\ ~stream[q].conn /\ ~stream[q].open
    BY <1>1, <1>4
  <2>2. Starts(Got(q), made[q])
    BY <2>1 DEF Got, Starts
  <2>3. QED BY <2>1, <2>2 DEF LosslessAt
<1>12. ChannelsKept
  <2>1. \A c \in Clients : client[c].op \notin Busy /\ client[c].op # "listen" /\ listener[c] = 0
    BY <1>1, <1>2 DEF Busy
  <2>2. n_queries = 0 /\ map = {}
    BY <1>1
  <2>3. \A c \in Clients : listener[c] <= n_queries /\ ListenerAt(c) /\ CallAt(c)
    BY <2>1, <2>2 DEF ListenerAt, CallAt
  <2>4. QED BY <2>1, <2>2, <2>3 DEF ChannelsKept
<1>13. QED BY <1>3, <1>5, <1>6, <1>8, <1>9, <1>10, <1>11, <1>12 DEF PostgresInv, Control, Data, Lossless

(* Each stream, in a state of the invariant: nothing is on its way any more*)
(* to one whose query is over.                                             *)
LEMMA StreamIsWhole ==
  ASSUME PostgresInv, NEW q \in Queries, stream[q].open, ~stream[q].cut, pg = "up"
  PROVE  StreamItems(q) = made[q]
<1>1. FlowTypes /\ LosslessAt(q)
  BY DEF PostgresInv, Data, Lossless
<1>2. CASE stream[q].conn
  BY <1>1, <1>2 DEF LosslessAt
<1>3. CASE ~stream[q].conn
  <2>1. Got(q) = made[q] /\ Nowhere(q)
    BY <1>1, <1>3 DEF LosslessAt
  <2>2. HeldOf(q) = <<>>
    BY <2>1 DEF Nowhere, HeldOf
  <2>3. Flow \in Seq(AllResults)
    BY <1>1 DEF FlowTypes, Flow
  <2>4. \A i \in 1..Len(Flow) : ~Concerns(q, Flow[i])
    BY <2>1 DEF Nowhere, Concerns
  <2>5. OfQuery(q, Flow) = <<>>
    BY <2>3, <2>4, OfQueryNone
  <2>6. Coming(q) = <<>>
    BY <2>2, <2>5 DEF Coming
  <2>7. Got(q) \in Seq(AllResults) /\ StreamItems(q) = Got(q) \o Coming(q)
    BY <1>1, Items
  <2>8. Got(q) \o <<>> = Got(q)
    BY <2>7
  <2>9. QED BY <2>1, <2>6, <2>7, <2>8
<1>4. QED BY <1>2, <1>3

LEMMA TakenIsMade ==
  ASSUME PostgresInv, NEW q \in Queries
  PROVE  \A i \in DOMAIN taken[q] : taken[q][i] = made[q][i]
<1>1. FlowTypes /\ Starts(Got(q), made[q])
  BY DEF PostgresInv, Data, Lossless, LosslessAt
<1>2. taken[q] \in Seq(AllResults) /\ stream[q].fifo \in Seq(AllResults)
  BY <1>1 DEF FlowTypes, Streams
<1>3. \A i \in DOMAIN taken[q] : i \in 1..Len(Got(q)) /\ Got(q)[i] = taken[q][i]
  <2> DEFINE t == taken[q]
             f == stream[q].fifo
  <2>1. t \in Seq(AllResults) /\ f \in Seq(AllResults) /\ Got(q) = t \o f
    BY <1>2 DEF Got
  <2> HIDE DEF t, f
  <2>2. DOMAIN t = 1..Len(t) /\ \A i \in 1..Len(t) : i \in 1..Len(t \o f) /\ (t \o f)[i] = t[i]
    BY <2>1
  <2>3. \A i \in DOMAIN t : i \in 1..Len(Got(q)) /\ Got(q)[i] = t[i]
    BY <2>1, <2>2
  <2>4. QED BY <2>3 DEF t
<1>4. QED BY <1>1, <1>3 DEF Starts

(* Init, a step, and what follows for the property.                        *)
LEMMA InvInitially == Init => Inv
  BY Initially DEF Inv
LEMMA InvKept == Inv /\ [Next]_vars => Inv'
  BY StillDefined, StepKeeps DEF Inv
LEMMA InvImplies == Inv => (Careful => AnswersFindTheirWay)
<1> SUFFICES ASSUME Inv, Careful PROVE AnswersFindTheirWay
  OBVIOUS
<1>1. undefined = "" => PostgresInv
  BY DEF Inv, Defined
<1>2. PostgresInv => \A q \in Queries : IF stream[q].open /\ ~stream[q].cut /\ pg = "up" THEN StreamItems(q) = made[q]
                                        ELSE \A i \in DOMAIN taken[q] : taken[q][i] = made[q][i]
  BY StreamIsWhole, TakenIsMade
<1>3. PostgresInv => \A c \in Clients : ListenerAt(c)
  BY DEF PostgresInv, ChannelsKept
<1>4. StreamsGetTheirOwn
  BY <1>1, <1>2 DEF StreamsGetTheirOwn
<1>5. ListenersAreFound
  BY <1>1, <1>3 DEF ListenersAreFound, ListenerAt
<1>6. QED BY <1>4, <1>5 DEF AnswersFindTheirWay

(* For any number of users and queries: as long as they keep to the        *)
(* discipline, both fibers of a connection run or neither does, each query *)
(* has its place in active_queries, results come in the order of the       *)
(* queries, none is lost, and listeners are in notify_channels.            *)
THEOREM PostgresInvariant == Spec => []Inv
  BY InvInitially, InvKept, PTL DEF Spec

(* For any number of users that share a connection, whatever streams they  *)
(* destroy and whenever it is lost or closed: results get to the stream of *)
(* their query, in order and without a gap, and the reader finds everybody *)
(* who listens.                                                            *)
THEOREM AnswersArrive == Spec => [](Careful => AnswersFindTheirWay)
<1>1. Inv => (Careful => AnswersFindTheirWay)
  BY InvImplies
<1>2. QED BY <1>1, PostgresInvariant, PTL
=============================================================================
