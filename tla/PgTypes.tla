-------------------------------- MODULE PgTypes --------------------------------
(***************************************************************************)
(* db_postgres: the codecs between values of the program and those of the  *)
(* server, and the type map that says which of the server's types each one *)
(* is for (TTypeMap::LoadTypeMap).                                         *)
(*                                                                         *)
(* A byte has Byte values, and integers are of Width bytes.  Texts are     *)
(* sequences of characters; what UTF-8, JSON and times are is said         *)
(* elsewhere.  External: the server's catalogue, in any order.             *)
(***************************************************************************)
EXTENDS Integers, SequencesExt

CONSTANTS Byte, Width,                 \* numbers
          Encode(_), DecodeAll(_),     \* UTF-8: Encodings
          ConvertToI(_), ConvertFrom(_), Epoch,  \* microseconds: Times; 2000-01-01
          Printed,                       \* JSON values and their texts: Json
          Dot,                         \* separator of an ltree
          Values,                      \* what the program sends: [type, value]
          Registries,                  \* what it may have codecs for
          Types,                       \* external: what the server may have
          MaxRows                      \* bound: types of the server

VARIABLES sent,      \* a value
          registry,  \* the codecs
          rows       \* external: the catalogue

-----------------------------------------------------------------------------
(* Codecs *)

\* htobe16(), htobe32(), htobe64() and back, of two's complements.
Modulus == Byte^Width
BigEndian(n) == [i \in 1..Width |-> ((n % Modulus) \div Byte^(Width - i)) % Byte]
Number(bytes) == LET n == FoldLeft(LAMBDA x, b : x * Byte + b, 0, bytes) IN IF 2 * n < Modulus THEN n ELSE n - Modulus

Utf8(text) == FoldLeft(LAMBDA bytes, c : bytes \o Encode(c), <<>>, text)
\* io::path::TPath with another separator than that of files.
Joined(path) == IF path = <<>> THEN <<>> ELSE FoldLeft(LAMBDA t, c : t \o <<Dot>> \o c, path[1], Tail(path))
Components(text) ==
    IF text = <<>> THEN <<>>
    ELSE FoldLeft(LAMBDA p, c : IF c = Dot THEN Append(p, <<>>) ELSE [p EXCEPT ![Len(p)] = Append(@, c)], <<(<<>>)>>, text)

Texts == {"text", "xml", "varchar", "cstring"}
Header(type) == IF type \in {"jsonb", "ltree"} THEN <<1>> ELSE <<>>
Written(type, value) == CASE type \in Texts -> value
                          [] type \in {"json", "jsonb"} -> Printed[value]
                          [] type = "ltree" -> Joined(value)
\* Serialize() without room: how much it asks for.
Estimate(type, value) ==
    CASE type \in {"unknown", "void"} -> 0
      [] type \in {"bool", "char"} -> 1
      [] type \in {"integer", "float", "timestamp"} -> Width
      [] type = "bytea" -> Len(value)
      [] OTHER -> Len(Header(type)) + 4 * Len(Written(type, value))
\* Serialize()
Serialize_NoVersion(type, value) ==
    CASE type \in {"unknown", "void"} -> <<>>
      [] type \in {"bool", "char"} -> <<value>>
      [] type \in {"integer", "float"} -> BigEndian(value)
      [] type = "timestamp" -> BigEndian(ConvertToI(value) - Epoch)
      [] type = "bytea" -> value
      [] OTHER -> Utf8(Written(type, value))
Serialize(type, value) ==
    CASE type \in {"unknown", "void"} -> <<>>
      [] type \in {"bool", "char"} -> <<value>>
      [] type \in {"integer", "float"} -> BigEndian(value)
      [] type = "timestamp" -> BigEndian(ConvertToI(value) - Epoch)
      [] type = "bytea" -> value
      [] OTHER -> Header(type) \o Utf8(Written(type, value))

\* Deserialize(): what comes back, or nothing when it throws.
Got(value) == <<value>>
Threw == <<>>
Behind(type, bytes) == IF Header(type) = <<>> THEN Got(bytes)
                       ELSE IF bytes = <<>> \/ bytes[1] # 1 THEN Threw ELSE Got(Tail(bytes))
Read(type, text) ==
    CASE type \in Texts -> Got(text)
      [] type \in {"json", "jsonb"} -> (IF \E v \in DOMAIN Printed : Printed[v] = text
                                        THEN Got(CHOOSE v \in DOMAIN Printed : Printed[v] = text) ELSE Threw)
      [] type = "ltree" -> IF <<>> \in ToSet(Components(text)) THEN Threw ELSE Got(Components(text))
Deserialize(type, bytes) ==
    CASE type \in {"unknown", "void"} -> Got(0)
      [] type = "bool" -> (IF Len(bytes) # 1 \/ bytes[1] > 1 THEN Threw ELSE Got(bytes[1]))
      [] type = "char" -> (IF Len(bytes) # 1 THEN Threw ELSE Got(bytes[1]))
      [] type \in {"integer", "float"} -> (IF Len(bytes) # Width THEN Threw ELSE Got(Number(bytes)))
      [] type = "timestamp" -> (IF Len(bytes) # Width THEN Threw ELSE Got(ConvertFrom(Number(bytes) + Epoch)))
      [] type = "bytea" -> Got(bytes)
      [] OTHER -> IF Behind(type, bytes) = Threw THEN Threw ELSE Read(type, DecodeAll(Behind(type, bytes)[1]))

-----------------------------------------------------------------------------
(* LoadTypeMap() *)

\* Names are given once; every namespace is one namespace.
Complete(reg) == \A i, j \in DOMAIN reg : i # j => reg[i].namespace # reg[j].namespace \/ reg[i].name # reg[j].name
Matches(codec, row) == codec.namespace \in {"*", row.namespace} /\ codec.name = row.name
\* The codecs one after another; the first that matches a type has it.
Matching(reg, row) == {i \in DOMAIN reg : Matches(reg[i], row)}
Resolve(reg, r, row) ==
    IF ~r.ok \/ Matching(reg, row) = {} THEN r
    ELSE LET i == CHOOSE k \in Matching(reg, row) : \A l \in Matching(reg, row) : k <= l IN
         IF r.oids[i] # 0 THEN [r EXCEPT !.ok = FALSE] ELSE [r EXCEPT !.oids[i] = row.oid]
Resolved(reg, cat) ==
    FoldLeft(LAMBDA r, row : Resolve(reg, r, row), [ok |-> TRUE, oids |-> [i \in DOMAIN reg |-> 0]], cat)
\* Those found, as oids to numbers of codecs.
Found(oids) == [oid \in {oids[i] : i \in DOMAIN oids} \ {0} |-> CHOOSE i \in DOMAIN oids : oids[i] = oid]
Preferred(reg, oids) ==
    {i \in DOMAIN reg : oids[i] # 0 /\ \A j \in 1..i - 1 : oids[j] # 0 => reg[j].cxx # reg[i].cxx}
\* Domains, as long as one is found whose base is known.
Mapped(map, row) ==
    IF row.class # "d" \/ row.oid \in DOMAIN map \/ row.base \notin DOMAIN map THEN map
    ELSE [oid \in DOMAIN map \cup {row.oid} |-> IF oid = row.oid THEN map[row.base] ELSE map[oid]]
Domains_Once(map, cat) == FoldLeft(Mapped, map, cat)
RECURSIVE Domains(_, _)
Domains(map, cat) ==
    LET next == FoldLeft(Mapped, map, cat) IN IF next = map THEN map ELSE Domains(next, cat)
LoadTypeMap(reg, cat) ==
    LET r == Resolved(reg, cat)
        missing == \E i \in DOMAIN reg : r.oids[i] = 0 /\ reg[i].required
    IN IF ~Complete(reg) \/ ~r.ok \/ missing THEN [ok |-> FALSE]
       ELSE [ok |-> TRUE, map |-> Domains(Found(r.oids), cat), cxx_type_map |-> Preferred(reg, r.oids), oids |-> r.oids]

\* Execute() takes the codec, and the oid, of what a C++ type is bound to.
LookupByCxxType(reg, loaded, cxx) == {<<i, loaded.oids[i]>> : i \in {k \in loaded.cxx_type_map : reg[k].cxx = cxx}}

-----------------------------------------------------------------------------
\* One value sent, or a catalogue that grows.
Start(v, reg) == sent = v /\ registry = reg /\ rows = <<>>
Init == \E v \in Values, reg \in Registries : Start(v, reg)
Next == /\ Len(rows) < MaxRows
        /\ \E row \in Types : /\ \A i \in DOMAIN rows : rows[i].oid # row.oid
                              /\ rows' = Append(rows, row)
        /\ UNCHANGED <<sent, registry>>

-----------------------------------------------------------------------------
(* Properties *)

\* What Execute() makes room for is enough, and what the server gets and sends
\* back is the value; a time comes back in microseconds.
ValueKept ==
    \A bytes \in {Serialize(sent.type, sent.value)} :
        /\ Len(bytes) <= Estimate(sent.type, sent.value)
        /\ Deserialize(sent.type, bytes) =
              Got(IF sent.type = "timestamp" THEN ConvertFrom(ConvertToI(sent.value)) ELSE sent.value)

\* Which codec a type has, by what the server says of it and of the types its
\* domains are over.
RECURSIVE CodecsOf(_)
CodecsOf(row) ==
    LET own == Matching(registry, row) IN
    IF own # {} THEN {CHOOSE k \in own : \A l \in own : k <= l}
    ELSE IF row.class # "d" THEN {} ELSE UNION {CodecsOf(rows[i]) : i \in {k \in DOMAIN rows : rows[k].oid = row.base}}
\* Every type that is, or comes down to, one with a codec is found whatever the
\* order of the catalogue; each C++ type has one; and a map is refused for a
\* codec named twice, found twice, or not found though it must be.
TypesFound ==
    \A loaded \in {LoadTypeMap(registry, rows)} :
        /\ loaded.ok <=>
              /\ Complete(registry)
              /\ \A i \in DOMAIN registry : \A taken \in {{k \in DOMAIN rows : Matching(registry, rows[k]) # {}
                                                                        /\ i \in CodecsOf(rows[k])}} :
                    /\ \A k, l \in taken : k = l
                    /\ registry[i].required => taken # {}
        /\ loaded.ok =>
              /\ \A k \in DOMAIN rows : CodecsOf(rows[k]) = {loaded.map[oid] : oid \in DOMAIN loaded.map \cap {rows[k].oid}}
              /\ \A i \in DOMAIN registry : loaded.oids[i] # 0 =>
                    \A bound \in {LookupByCxxType(registry, loaded, registry[i].cxx)} :
                        /\ \A a, b \in bound : a = b
                        /\ \E b \in bound : b[1] <= i /\ b[2] # 0
PgTypesExact == ValueKept /\ TypesFound
=============================================================================
