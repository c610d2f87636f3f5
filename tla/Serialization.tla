--------------------------- MODULE Serialization ---------------------------
(***************************************************************************)
(* io_serialization: Serialize and Deserialize, which walk a C++ type, and *)
(* the archives they write to and read from: JSON values and packed bytes. *)
(*                                                                         *)
(* A type is a record that says what the template would know of it.  The   *)
(* 8 bytes of Fixed64 are one item, a name stands for its hash, and a      *)
(* string is a few characters of one byte each.                            *)
(***************************************************************************)
EXTENDS JsonValue

CONSTANTS MaxDepth,           \* TDeserializeOptions::max_depth
          MaxStringLength,    \* max_string_length
          MaxContainerItems,  \* max_container_items
          MaxItems            \* bound: items in a list

VARIABLES type, object  \* a type, and an object of it

Bool == [kind |-> "bool"]
Integral(bits, signed) == [kind |-> "int", bits |-> bits, signed |-> signed]
Double == [kind |-> "double"]
TString == [kind |-> "string"]
Optional(t) == [kind |-> "optional", of |-> t]
List(t) == [kind |-> "list", of |-> t]
StringMap(t) == [kind |-> "map", of |-> t]
\* TSchema<T>; a member is its name, its versions and its type.
Field(name, since, until, t) == [name |-> name, since |-> since, until |-> until, of |-> t]
Schema(id, version, members) == [kind |-> "object", id |-> id, version |-> version, members |-> members]
Active(member, version) == version >= member.since /\ version <= member.until

\* An object: its members in the order of the schema, a list, a map, an
\* optional (none or one) are sequences; the rest are scalars.
RECURSIVE Default(_)
Default(t) ==
    CASE t.kind = "bool"   -> FALSE
      [] t.kind \in {"int", "double"} -> 0
      [] t.kind = "object" -> [i \in DOMAIN t.members |-> Default(t.members[i].of)]
      [] OTHER             -> <<>>

-----------------------------------------------------------------------------
(* The JSON archive *)

Metadata == <<36, 101, 108, 49>>  \* "$el1"
FormatKey == <<1>>
TypeKey == <<2>>
TypeIdKey == <<3>>
VersionKey == <<4>>
Pair(key, value) == [key |-> key, value |-> value]
Info(t) == Map(<<Pair(FormatKey, Integer("signed", 1)), Pair(TypeKey, String(t.id)),
                 Pair(TypeIdKey, String(t.id)), Pair(VersionKey, Integer("signed", t.version))>>)

RECURSIVE ToValue(_, _)
ToValue(t, v) ==
    CASE t.kind = "bool"     -> Boolean(v)
      [] t.kind = "int"      -> Integer(IF t.signed THEN "signed" ELSE "unsigned", v)
      [] t.kind = "double"   -> Number("floating", v)
      [] t.kind = "string"   -> String(v)
      [] t.kind = "optional" -> IF v = <<>> THEN Null ELSE ToValue(t.of, v[1])
      [] t.kind = "list"     -> Array([i \in DOMAIN v |-> ToValue(t.of, v[i])])
      [] t.kind = "map"      -> Map([i \in DOMAIN v |-> Pair(v[i].key, ToValue(t.of, v[i].value))])
      [] t.kind = "object"   ->
           LET active == SelectSeq([i \in DOMAIN t.members |-> i], LAMBDA i : Active(t.members[i], t.version))
           IN Map(<<Pair(Metadata, Info(t))>>
                  \o [k \in DOMAIN active |-> Pair(t.members[active[k]].name, ToValue(t.members[active[k]].of, v[active[k]]))])

Has(j, key) == j.type = "map" /\ \E i \in DOMAIN j.pairs : j.pairs[i].key = key
\* BeginObject(): the version of the source, or Thrown.
JsonVersion(t, j) ==
    LET metadata == Member(j, Metadata)
        version == ToInteger(Member(metadata, VersionKey), IntBits, TRUE)
    IN IF /\ \A key \in {FormatKey, TypeIdKey, VersionKey} : Has(metadata, key)
          /\ ToInteger(Member(metadata, FormatKey), IntBits, TRUE) = Returned(1)
          /\ Member(metadata, TypeIdKey) = String(t.id)
          /\ version.ok /\ version.value \in 1..t.version
       THEN version ELSE Thrown

\* One after the other until one throws; read[i] is what the i-th gave.
All(read) == IF \A i \in DOMAIN read : read[i].ok THEN Returned([i \in DOMAIN read |-> read[i].value]) ELSE Thrown

\* Every item, entry and field is a Push(), which counts the depth.
RECURSIVE FromValue(_, _, _)
FromValue(t, j, depth) ==
    LET Pushed(u, child) == IF depth >= MaxDepth THEN Thrown ELSE FromValue(u, child, depth + 1)
        version == JsonVersion(t, j)
    IN CASE t.kind = "bool"   -> IF j.type = "boolean" THEN Returned(j.flag) ELSE Thrown
         [] t.kind = "int"    -> IF ToInteger(j, IntBits, t.signed).ok THEN ToInteger(j, t.bits, t.signed) ELSE Thrown
         [] t.kind = "double" -> ToDouble(j)
         [] t.kind = "string" -> IF j.type = "string" /\ (j.type = "string" => Len(j.chars) <= MaxStringLength)
                                 THEN Returned(j.chars) ELSE Thrown
         [] t.kind = "optional" -> IF j.type = "null" THEN Returned(<<>>) ELSE All(<<FromValue(t.of, j, depth)>>)
         [] t.kind = "list"   -> IF j.type = "array" /\ (j.type = "array" => Len(j.items) <= MaxContainerItems)
                                 THEN All([i \in DOMAIN j.items |-> Pushed(t.of, j.items[i])]) ELSE Thrown
         [] t.kind = "map"    ->
              IF j.type = "map" /\ (j.type = "map" => Len(j.pairs) <= MaxContainerItems)
              THEN LET values == All([i \in DOMAIN j.pairs |-> Pushed(t.of, j.pairs[i].value)])
                   IN IF values.ok THEN Returned([i \in DOMAIN j.pairs |-> Pair(j.pairs[i].key, values.value[i])]) ELSE Thrown
              ELSE Thrown
         [] t.kind = "object" ->
              IF version.ok
              THEN All([i \in DOMAIN t.members |->
                         IF Active(t.members[i], version.value) /\ Has(j, t.members[i].name)
                         THEN Pushed(t.members[i].of, Member(j, t.members[i].name))
                         ELSE Returned(Default(t.members[i].of))])
              ELSE Thrown

-----------------------------------------------------------------------------
(* The packed archive *)

RECURSIVE VarUInt(_)
VarUInt(n) == IF n >= 128 THEN <<128 + (n % 128)>> \o VarUInt(n \div 128) ELSE <<n>>
\* For the runs that check the properties: the sign is lost for the least number.
ZigZag_Twice(n) == IF n >= 0 THEN n * 2 ELSE (-n) * 2 + 1
ZigZag(n) == IF n >= 0 THEN n * 2 ELSE (-(n + 1)) * 2 + 1
Magic == <<69, 76, 49, 83>>

\* TWriter
RECURSIVE Packed(_, _)
Packed(t, v) ==
    CASE t.kind = "bool"     -> <<IF v THEN 1 ELSE 0>>
      [] t.kind = "int"      -> VarUInt(IF t.signed THEN ZigZag(v) ELSE v)
      [] t.kind = "double"   -> <<v>>
      [] t.kind = "string"   -> VarUInt(Len(v)) \o v
      [] t.kind = "optional" -> IF v = <<>> THEN <<0>> ELSE <<1>> \o Packed(t.of, v[1])
      [] t.kind = "list"     -> VarUInt(Len(v)) \o FlattenSeq([i \in DOMAIN v |-> Packed(t.of, v[i])])
      [] t.kind = "map"      -> VarUInt(Len(v)) \o FlattenSeq([i \in DOMAIN v |->
                                   Packed(TString, v[i].key) \o Packed(t.of, v[i].value)])
      [] t.kind = "object"   -> t.id \o VarUInt(t.version) \o FlattenSeq([i \in DOMAIN t.members |->
                                   IF Active(t.members[i], t.version) THEN Packed(t.members[i].of, v[i]) ELSE <<>>])
ToBytes(t, v) == Magic \o VarUInt(1) \o Packed(t, v)

\* TReader: what was read, and what is left of the bytes.
Got(value, rest) == [ok |-> TRUE, value |-> value, rest |-> rest]
RECURSIVE ReadVarUInt(_, _, _)
ReadVarUInt(b, shift, read) ==
    CASE shift >= IntBits \/ b = <<>> -> Thrown
      [] OTHER -> LET n == (read + (b[1] % 128) * 2^shift) % 2^IntBits IN
                  IF b[1] < 128 THEN Got(n, Tail(b)) ELSE ReadVarUInt(Tail(b), shift + 7, n)
Byte(b, max) == IF b # <<>> /\ (b # <<>> => b[1] <= max) THEN Got(b[1], Tail(b)) ELSE Thrown
ReadString(b) ==
    LET n == ReadVarUInt(b, 0, 0) IN
    IF n.ok /\ (n.ok => n.value <= MaxStringLength /\ n.value <= Len(n.rest))
    THEN Got(SubSeq(n.rest, 1, n.value), SubSeq(n.rest, n.value + 1, Len(n.rest))) ELSE Thrown
UnZigZag(n) == IF n % 2 = 0 THEN n \div 2 ELSE -(n \div 2) - 1
Count(b) == LET n == ReadVarUInt(b, 0, 0) IN IF n.ok /\ (n.ok => n.value <= MaxContainerItems) THEN n ELSE Thrown

RECURSIVE Unpack(_, _, _), UnpackEach(_, _, _, _)
\* One after the other; what is read of types[i] goes to the end of read.
UnpackEach(types, b, depth, read) ==
    IF types = <<>> THEN Got(read, b)
    ELSE LET r == Unpack(Head(types), b, depth) IN
         IF r.ok THEN UnpackEach(Tail(types), r.rest, depth, Append(read, r.value)) ELSE Thrown
Skipped(t) == [kind |-> "skipped", of |-> t]
Entry(t) == [kind |-> "entry", of |-> t]
\* Lists, maps and objects Enter(), which counts the depth.
Unpack(t, b, depth) ==
    LET n == ReadVarUInt(b, 0, 0)
        tag == Byte(b, 1)
        count == Count(b)
        key == ReadString(b)
        after == Len(IF t.kind = "object" THEN t.id ELSE <<>>)
        version == ReadVarUInt(SubSeq(b, after + 1, Len(b)), 0, 0)
        Map1(r, F(_)) == IF r.ok THEN Got(F(r.value), r.rest) ELSE Thrown
    IN CASE t.kind = "bool"     -> Map1(tag, LAMBDA x : x = 1)
         [] t.kind = "int"      -> IF ~n.ok THEN Thrown
                                   ELSE LET x == IF t.signed THEN UnZigZag(n.value) ELSE n.value
                                        IN IF InRange(x, t.bits, t.signed) THEN Got(x, n.rest) ELSE Thrown
         [] t.kind = "double"   -> IF b = <<>> THEN Thrown ELSE Got(b[1], Tail(b))
         [] t.kind = "string"   -> key
         [] t.kind = "skipped"  -> Got(Default(t.of), b)
         [] t.kind = "entry"    -> IF key.ok THEN Map1(Unpack(t.of, key.rest, depth), LAMBDA x : Pair(key.value, x)) ELSE Thrown
         [] t.kind = "optional" -> IF ~tag.ok THEN Thrown
                                   ELSE IF tag.value = 0 THEN Got(<<>>, tag.rest) ELSE UnpackEach(<<t.of>>, tag.rest, depth, <<>>)
         [] t.kind \in {"list", "map"} ->
              IF depth >= MaxDepth \/ ~count.ok THEN Thrown
              ELSE LET item == IF t.kind = "list" THEN t.of ELSE Entry(t.of)
                   IN UnpackEach([i \in 1..count.value |-> item], count.rest, depth + 1, <<>>)
         [] t.kind = "object"   ->
              IF \/ depth >= MaxDepth \/ Len(b) < after \/ SubSeq(b, 1, after) # t.id
                 \/ ~version.ok \/ (version.ok /\ version.value \notin 1..t.version) THEN Thrown
              ELSE UnpackEach([i \in DOMAIN t.members |->
                                 IF Active(t.members[i], version.value) THEN t.members[i].of ELSE Skipped(t.members[i].of)],
                              version.rest, depth + 1, <<>>)
FromBytes(t, b) ==
    LET version == ReadVarUInt(SubSeq(b, 5, Len(b)), 0, 0) IN
    IF Len(b) < 4 \/ SubSeq(b, 1, 4) # Magic \/ ~version.ok \/ (version.ok /\ version.value # 1) THEN Thrown
    ELSE Unpack(t, version.rest, 0)

-----------------------------------------------------------------------------
(* Every type and every object within the bounds *)

\* Values at the edges: of the range of an integer, of a group of seven bits.
IntsOf(t) == {n \in {-(2^(t.bits - 1)), -65, -64, -1, 0, 1, 63, 64, 127, 128, 2^(t.bits - 1) - 1, 2^t.bits - 1} :
                 InRange(n, t.bits, t.signed)}
RECURSIVE Objects(_)
Objects(t) ==
    CASE t.kind = "bool"     -> BOOLEAN
      [] t.kind = "int"      -> IntsOf(t)
      [] t.kind = "double"   -> {-3, 0, 4, 2^(IntBits + 1)}
      [] t.kind = "string"   -> {<<>>, <<97>>, <<34, 92>>, Metadata}
      [] t.kind = "optional" -> {<<>>} \cup {<<v>> : v \in Objects(t.of)}
      [] t.kind = "list"     -> SeqOf(Objects(t.of), MaxItems)
      [] t.kind = "map"      -> {<<>>} \cup {<<Pair(Metadata, v), Pair(<<97>>, w)>> : v, w \in Objects(t.of)}
      [] t.kind = "object"   -> FoldLeft(LAMBDA fs, m : {Append(f, v) : f \in fs, v \in Objects(m.of)}, {<<>>}, t.members)

\* The types that are written: each kind, nested ones, and two with a schema.
Person == Schema(<<1, 200>>, 3, <<Field(<<97>>, 1, 3, Integral(8, TRUE)), Field(<<98>>, 2, 3, TString),
                                  Field(<<99>>, 1, 2, Bool), Field(<<100>>, 3, 3, Optional(Bool))>>)
Group == Schema(<<2, 0>>, 2, <<Field(<<97>>, 1, 2, List(Bool)),
                               Field(<<98>>, 2, 2, Schema(<<3, 3>>, 1, <<Field(<<97>>, 1, 1, Bool)>>))>>)
Types == {Bool, Integral(8, TRUE), Integral(10, TRUE), Integral(10, FALSE), Integral(7, FALSE), Double, TString,
          Optional(Integral(7, FALSE)), Optional(Optional(Bool)), List(TString), List(Optional(Bool)),
          List(List(Bool)), List(List(List(Bool))), StringMap(Bool), Person, Group}

Init == type \in Types /\ object = Default(type)
Assign == object = Default(type) /\ object' \in Objects(type) /\ type' = type
Next == Assign
Spec == Init /\ [][Next]_<<type, object>>

-----------------------------------------------------------------------------
(* Properties *)

\* What JSON cannot tell apart: no optional, and one that holds none.
RECURSIVE Nested(_)
Nested(t) ==
    CASE t.kind = "optional"       -> t.of.kind = "optional" \/ Nested(t.of)
      [] t.kind \in {"list", "map"} -> Nested(t.of)
      [] t.kind = "object"         -> \E i \in DOMAIN t.members : Nested(t.members[i].of)
      [] OTHER                     -> FALSE
RECURSIVE Depth(_)
Depth(t) ==
    CASE t.kind = "optional"        -> Depth(t.of)
      [] t.kind \in {"list", "map"} -> 1 + Depth(t.of)
      [] t.kind = "object"          -> FoldLeft(LAMBDA d, m : IF 1 + Depth(m.of) > d THEN 1 + Depth(m.of) ELSE d, 1, t.members)
      [] OTHER                      -> 0

\* The schema of an earlier version of the program: members it did not know are
\* not in it, neither are those that have been dropped since.
Earlier(t, version) == [t EXCEPT !.version = version]
Kept(t, v, version) ==
    IF t.kind # "object" THEN v
    ELSE [i \in DOMAIN v |-> IF Active(t.members[i], version) THEN v[i] ELSE Default(t.members[i].of)]

Now(t, v) == IF t.kind = "object" THEN Kept(t, v, t.version) ELSE v

\* What is read is what was written, whole, in either archive, and through the
\* text of the JSON value as well; a container nested deeper than max_depth is
\* refused; bytes that end early are refused.
ArchivesExact ==
    Depth(type) <= MaxDepth =>
        \A b \in {ToBytes(type, object)}, j \in {ToValue(type, object)}, expected \in {Now(type, object)} :
            /\ FromBytes(type, b) = Got(expected, <<>>)
            /\ \A end \in 0..(Len(b) - 1) : ~FromBytes(type, SubSeq(b, 1, end)).ok
            /\ ~Nested(type) => FromValue(type, j, 0) = Returned(expected)
            /\ ~Nested(type) => \A u \in {ToStream(j)} : \A r \in {Parse(u, FALSE)} : \A x \in {r.value} :
                                FromValue(type, x, 0) = Returned(expected)

\* An object that an earlier version wrote is read with the members that version
\* had and defaults for the others, the same from both archives; one that a
\* later version wrote is refused.
VersionsCompatible ==
    type.kind = "object" /\ ~Nested(type) /\ Depth(type) <= MaxDepth =>
        \A version \in 1..(type.version - 1) :
            \A old \in {Earlier(type, version)}, expected \in {Kept(type, object, version)} :
               /\ FromBytes(type, ToBytes(old, object)) = Got(expected, <<>>)
               /\ FromValue(type, ToValue(old, object), 0) = Returned(expected)
               /\ ~FromBytes(old, ToBytes(type, object)).ok
               /\ ~FromValue(old, ToValue(type, object), 0).ok

SerializationExact == ArchivesExact /\ VersionsCompatible
=============================================================================
