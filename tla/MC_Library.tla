----------------------------- MODULE MC_Library -----------------------------
(***************************************************************************)
(* The parts of the library that keep to themselves, and the motors and    *)
(* machines that nothing shares, one at a time: each is brought into every *)
(* state of its inputs that the bounds allow.                              *)
(***************************************************************************)
EXTENDS Integers, Sequences

VARIABLES part,                                                \* which one
          list, map,                                           \* Collections
          grammar,                                             \* Parser
          string,                                              \* Strings
          written, writer, wire, cache, buffer, pos, place,    \* Encodings
          literal,                                             \* Formats
          json, text,                                          \* Json
          type, object,                                        \* Serialization
          cmd,                                                 \* Cmdline
          flow,                                                \* Streams
          path, cached, dirs, made, usable,                    \* Paths
          sent, registry, rows,                                \* PgTypes
          time,                                                \* Times
          emu, servo, asked,                                   \* Motors, the emulation
          homing, carriage, seeking, n_steps, was_closed,      \* the end switch
          motors, task, i_step, seen, dir, away, aim, slips, pushes,  \* the gantry
          state, queue, phase, machine, lines, given, before    \* GCode

C == INSTANCE Collections WITH Values <- {1, 2, 3}, Keys <- 1..5, MaxCount <- 4, Memory <- 12
P == INSTANCE Parser WITH Alphabet <- {1, 2}, MaxDepth <- 3, MaxLength <- 3, MaxNodes <- 3
S == INSTANCE Strings WITH Alphabet <- {1, 2, 3}, MaxLength <- 4, MaxDigits <- 3
E == INSTANCE Encodings WITH Chars <- {10, 127, 128, 2047, 2048, 65535, 65536, 4194303},
         MaxChars <- 3, WriteCache <- 3, ReadCache <- 2, Ahead <- 2
F == INSTANCE Formats WITH Symbols <- {"%", "d", "q", "s", "0", "3", " ", "."}, MaxLiteral <- 4,
         Numbers <- {-12, -1, 0, 7, 1000},
         Texts <- {<<>>, <<"'", "s">>, <<"\\", "\"", "\"">>, <<" ", "d">>, <<"%">>}

\* {  }  [  ]  ,  "a":  1  ' -1.5'  "\  ud83d  \ude00  n"  0  e1  LF
MC_Pieces == {<<123>>, <<125>>, <<91>>, <<93>>, <<44>>, <<34, 97, 34, 58>>, <<49>>, <<32, 45, 49, 46, 53>>, <<34, 92>>,
              <<117, 100, 56, 51, 100>>, <<92, 117, 100, 101, 48, 48>>, <<110, 34>>, <<48>>, <<101, 49>>, <<10>>}
J == INSTANCE Json WITH IntBits <- 4, Mantissa <- 3, MaxExponent <- 3, Halves <- -40..64,
         Letters <- {34, 92, 10, 1, 97, 47}, Pieces <- MC_Pieces, MaxPieces <- 3, MaxSize <- 3
A == INSTANCE Serialization WITH IntBits <- 10, Mantissa <- 11, MaxExponent <- 4, MaxDepth <- 2,
         MaxStringLength <- 4, MaxContainerItems <- 2, MaxItems <- 2

MC_Option(kind, letter, name, env, optional, anonymous) ==
    [kind |-> kind, letter |-> letter, name |-> name, env |-> env, optional |-> optional, anonymous |-> anonymous]
MC_Options == {MC_Option("flag", "f", "flag", "E", TRUE, FALSE), MC_Option("integer", "n", "num", "E", TRUE, FALSE),
               MC_Option("text", "", "", "", FALSE, TRUE), MC_Option("text", "t", "text", "", TRUE, TRUE),
               MC_Option("version", "V", "version", "", TRUE, FALSE),
               [kind |-> "path", letter |-> "", name |-> "path", env |-> "", optional |-> TRUE, anonymous |-> TRUE,
                type |-> "FILE", mode |-> "OPEN"]}
MC_Word(dashes, key) == [dashes |-> dashes, key |-> key, eq |-> FALSE, behind |-> ""]
MC_WordEq(key, behind) == [dashes |-> 2, key |-> key, eq |-> TRUE, behind |-> behind]
MC_Words == {MC_Word(2, ""), MC_Word(0, ""), MC_Word(1, ""), MC_Word(0, "1"), MC_Word(1, "1"), MC_Word(2, "num"),
             MC_Word(1, "n"), MC_Word(1, "f"), MC_Word(2, "text"), MC_Word(0, "there"), MC_Word(2, "version"),
             MC_WordEq("num", "1"), MC_WordEq("flag", "no"), MC_WordEq("path", "there"), MC_WordEq("path", "dir")}
L == INSTANCE Cmdline WITH Options <- MC_Options, Words <- MC_Words, Numerals <- [k \in {"1"} |-> 1],
         Files <- [f \in {"there", "dir"} |-> IF f = "dir" THEN "DIRECTORY" ELSE "FILE"],
         MaxOptions <- 2, MaxWords <- 3
T == INSTANCE Streams WITH Items <- {1, 2, 3}, MaxScript <- 3, MaxPipes <- 2, BufferSize <- 2,
         Rooms <- {<<9>>, <<>>, <<1, 0, 2>>, <<0, 1, 0, 0, 9>>}

D == INSTANCE Paths WITH Start <- {<<"a">>, <<".">>, <<"/", "a", "/", "b">>, <<"a", "/", ".", "/", "b">>},
         Args <- {<<>>, <<"b">>, <<"..">>, <<"", "a">>, <<"a", "..">>}, Cwd <- <<"a">>, MaxLength <- 4
M == INSTANCE Times WITH Base <- 2, Units <- 3, IntMax <- 73, Seconds <- -5..5, Factors <- {-3, -1, 2, 9, 10}

\* What PgTypes takes from Encodings and Times.
MC_Encode(c) == E!Encode(c)
MC_DecodeAll(bytes) == E!DecodeAll(bytes).text
MC_ConvertToI(t) == M!ConvertToI(2, t)
MC_ConvertFrom(v) == M!ConvertFrom(2, v)
MC_Codec(namespace, name, cxx, required) == [namespace |-> namespace, name |-> name, cxx |-> cxx, required |-> required]
MC_Int4 == MC_Codec("pg", "int4", "s32", TRUE)
MC_Oid == MC_Codec("pg", "oid", "s32", FALSE)
MC_Ltree == MC_Codec("*", "ltree", "path", FALSE)
MC_Registries == {<<MC_Int4, MC_Oid, MC_Ltree>>, <<MC_Ltree, MC_Codec("a", "ltree", "path", FALSE), MC_Oid>>,
                  <<MC_Int4, MC_Int4>>}
MC_Type(oid, namespace, name, class, base) ==
    [oid |-> oid, namespace |-> namespace, name |-> name, class |-> class, base |-> base]
MC_Types == {MC_Type(1, "pg", "int4", "b", 0), MC_Type(2, "pg", "oid", "b", 0), MC_Type(3, "a", "ltree", "b", 0),
             MC_Type(4, "b", "ltree", "d", 3), MC_Type(5, "a", "d1", "d", 1), MC_Type(6, "a", "d2", "d", 5),
             MC_Type(7, "a", "d3", "d", 6)}
MC_Value(t, v) == [type |-> t, value |-> v]
MC_Void == MC_Value("void", 0)
MC_Texts == {<<>>, <<97>>, <<128, 2048>>, <<65536, 97, 10>>}
MC_Values ==
    {MC_Void} \cup {MC_Value("bool", b) : b \in {0, 1}} \cup {MC_Value("char", b) : b \in 0..3}
    \cup {MC_Value("integer", n) : n \in -32..31}
    \cup {MC_Value("timestamp", M!Normalize(s, a)) : s \in -3..3, a \in {-5, -1, 0, 1, 6}}
    \cup {MC_Value("bytea", b) : b \in {<<>>, <<0>>, <<1, 3>>}}
    \cup {MC_Value(t, v) : t \in {"text", "xml"}, v \in MC_Texts}
    \cup {MC_Value(t, v) : t \in {"json", "jsonb"}, v \in {"null", "text"}}
    \cup {MC_Value("ltree", p) : p \in {<<>>, <<(<<97>>)>>, <<(<<97, 98>>), <<2048>>>>}}
G == INSTANCE PgTypes WITH Byte <- 4, Width <- 3, Encode <- MC_Encode, DecodeAll <- MC_DecodeAll,
         ConvertToI <- MC_ConvertToI, ConvertFrom <- MC_ConvertFrom, Epoch <- 5,
         Printed <- [v \in {"null", "text"} |-> IF v = "null" THEN <<110>> ELSE <<34, 2048, 34>>],
         Dot <- 46, Values <- MC_Values, Registries <- MC_Registries, Types <- MC_Types, MaxRows <- 4

MC_Motor(encoder, detector, inverted, servoed, emulated, fsr, dividers) ==
    [encoder |-> encoder, detector |-> detector, inverted |-> inverted, servo |-> servoed, emulated |-> emulated,
     fsr |-> fsr, dividers |-> dividers]
MC_A == MC_Motor(TRUE, "none", FALSE, TRUE, TRUE, 2, {1, 2, 3, 4, 6})
MC_B == MC_Motor(TRUE, "on", TRUE, TRUE, FALSE, 4, {1, 2, 4})
MC_C == MC_Motor(FALSE, "on", FALSE, FALSE, FALSE, 2, {1, 2, 8})
MC_D == MC_Motor(TRUE, "off", TRUE, TRUE, FALSE, 3, {4, 8})
O == INSTANCE Motors WITH EncoderSteps <- 3, FullSteps <- 2, Dividers <- 0..3, IntMax <- 9, Unit <- 12, MaxAsked <- 2,
         MaxChanges <- 1, SeekRange <- 3, Kits <- {<<MC_A, MC_B>>, <<MC_C, MC_A>>, <<MC_D, MC_C>>, <<MC_B, MC_D>>, <<MC_C, MC_C>>},
         Distances <- {0, 1, 12}, AxisLength <- 30, Unchecked <- 10, Window <- 8, Turn <- 16, StepAngle <- 2,
         Iterations <- 3, MaxSlips <- 2

MC_Arg(k, v) == [key |-> k, value |-> v]
MC_Line(command, args) == [cmd |-> command, args |-> args, comment |-> FALSE]
MC_Lines ==
    {MC_Line("G0", <<MC_Arg("X", 1), MC_Arg("Z", 2)>>), MC_Line("G1", <<MC_Arg("Y", 0), MC_Arg("F", 7)>>),
     MC_Line("G1", <<MC_Arg("Z", -1)>>), MC_Line("G1", <<MC_Arg("Z", -1), MC_Arg("Z", 1)>>),
     MC_Line("G2", <<MC_Arg("X", 2), MC_Arg("I", 1)>>), MC_Line("G3", <<MC_Arg("X", 2)>>), MC_Line("G4", <<MC_Arg("P", 5)>>),
     MC_Line("G10", <<MC_Arg("L", 2), MC_Arg("P", 1), MC_Arg("X", 3), MC_Arg("Z", 1)>>),
     MC_Line("G10", <<MC_Arg("P", 0), MC_Arg("L", 20), MC_Arg("Y", 1)>>), MC_Line("G20", <<>>), MC_Line("G38.2", <<>>),
     MC_Line("G55", <<>>), MC_Line("G81", <<MC_Arg("X", 1), MC_Arg("Z", -2), MC_Arg("F", 3)>>),
     MC_Line("G81", <<MC_Arg("X", 1), MC_Arg("R", 2)>>), MC_Line("G90", <<>>), MC_Line("G91", <<>>), MC_Line("G98", <<>>),
     MC_Line("G99", <<>>), MC_Line("M2", <<>>), [MC_Line("M2", <<>>) EXCEPT !.comment = TRUE],
     [MC_Line("G1", <<MC_Arg("X", 0), MC_Arg("Y", 2)>>) EXCEPT !.comment = TRUE], MC_Line("M3", <<MC_Arg("S", 4)>>),
     MC_Line("M3", <<MC_Arg("S", -2)>>), MC_Line("M5", <<>>), MC_Line("M6", <<MC_Arg("T", 1)>>), MC_Line("(", <<>>),
     MC_Line("", <<>>)}
MC_Start == [wcs |-> <<<<0, 0, 0>>, <<0, 0, 0>>>>, fr_rapid_xy |-> 20, fr_rapid_z |-> 5, tool_change_pos |-> <<0, 0, 1>>,
             pos |-> <<0, 0, 0>>, fr_cmd |-> 0, spindle_rpm |-> -1, spindle_on |-> FALSE, plane |-> "G17", unit |-> "METRIC",
             coord_mode |-> "ABSOLUTE", drill_return |-> "PREVIOUS_Z", idx_wcs |-> 0, eof |-> FALSE]
N == INSTANCE GCode WITH Lines <- MC_Lines, Fresh <- MC_Start, MaxLines <- 3

encoded == <<written, writer, wire, cache, buffer, pos, place>>
filed == <<path, cached, dirs, made, usable>>
typed == <<sent, registry, rows>>
emulation == <<emu, servo, asked>>
switch == <<homing, carriage, seeking, n_steps, was_closed>>
gantry == <<motors, task, i_step, seen, dir, away, aim, slips, pushes>>
program == <<state, queue, phase, machine, lines, given, before>>
text_vars == <<string, encoded, literal>>
data_vars == <<json, text, type, object, typed, time>>
system_vars == <<cmd, flow, filed>>
device_vars == <<emulation, switch, gantry, program>>
vars == <<part, list, map, grammar, text_vars, data_vars, system_vars, device_vars>>

\* The other parts stay in one state.
Init ==
    /\ part \in {"collections", "parser", "strings", "encodings", "formats", "json", "archives", "cmdline", "streams",
                 "paths", "types", "times", "emulation", "switch", "gantry", "program"}
    /\ C!Init /\ S!Init /\ E!Init /\ F!Init /\ L!Init /\ M!Init /\ N!ProgramInit
    /\ J!Init /\ (part # "json" => json = J!Null)
    /\ P!Init /\ (part # "parser" => grammar = P!Call)
    /\ A!Init /\ (part # "archives" => type = A!Bool)
    /\ T!Init /\ (part # "streams" => flow = T!SourcePipe(<<>>))
    /\ D!Init /\ (part # "paths" => path = <<"a">>)
    /\ G!Init /\ (registry # <<MC_Int4, MC_Int4>> => part = "types" /\ sent = MC_Void)
    /\ (sent # MC_Void => part = "types")
    /\ O!EmuInit /\ (part # "emulation" => ~servo.enabled /\ ~servo.driver /\ servo.position = 0)
    /\ O!HomingInit /\ (part # "switch" => carriage = 0)
    /\ (\/ part = "gantry" /\ O!GantryInit
        \/ part # "gantry" /\ motors = <<>> /\ task = "idle" /\ i_step = 0 /\ seen = <<>> /\ dir = 1 /\ away = 1
           /\ aim = [angle |-> 0, iteration |-> 0, side |-> 0] /\ slips = 0 /\ pushes = <<>>)

Next ==
    \/ part = "collections" /\ C!Next /\ UNCHANGED <<part, grammar, text_vars, data_vars, system_vars, device_vars>>
    \/ part = "parser" /\ P!Next /\ UNCHANGED <<part, list, map, text_vars, data_vars, system_vars, device_vars>>
    \/ /\ \/ part = "strings" /\ S!Next /\ UNCHANGED <<encoded, literal>>
          \/ part = "encodings" /\ E!Next /\ UNCHANGED <<string, literal>>
          \/ part = "formats" /\ F!Next /\ UNCHANGED <<string, encoded>>
       /\ UNCHANGED <<part, list, map, grammar, data_vars, system_vars, device_vars>>
    \/ /\ \/ part = "json" /\ J!Next /\ UNCHANGED <<type, object, typed, time>>
          \/ part = "archives" /\ A!Next /\ UNCHANGED <<json, text, typed, time>>
          \/ part = "types" /\ sent = MC_Void /\ G!Next /\ UNCHANGED <<json, text, type, object, time>>
          \/ part = "times" /\ M!Next /\ UNCHANGED <<json, text, type, object, typed>>
       /\ UNCHANGED <<part, list, map, grammar, text_vars, system_vars, device_vars>>
    \/ /\ \/ part = "cmdline" /\ L!Next /\ UNCHANGED <<flow, filed>>
          \/ part = "streams" /\ T!Next /\ UNCHANGED <<cmd, filed>>
          \/ part = "paths" /\ D!Next /\ UNCHANGED <<cmd, flow>>
       /\ UNCHANGED <<part, list, map, grammar, text_vars, data_vars, device_vars>>
    \/ /\ \/ part = "emulation" /\ O!EmuNext /\ UNCHANGED <<switch, gantry, program>>
          \/ part = "switch" /\ O!HomingNext /\ UNCHANGED <<emulation, gantry, program>>
          \/ part = "gantry" /\ O!GantryNext /\ UNCHANGED <<emulation, switch, program>>
          \/ part = "program" /\ N!ProgramNext /\ UNCHANGED <<emulation, switch, gantry>>
       /\ UNCHANGED <<part, list, map, grammar, text_vars, data_vars, system_vars>>
Spec == Init /\ [][Next]_vars

-----------------------------------------------------------------------------
\* Lists and maps do what sequences and functions say (Collections).
CollectionsExact == part = "collections" => C!ListExact /\ C!MapExact

\* Parse, Match and Complete agree on every grammar and text, and no continuation
\* that would parse is lost to completion (Parser).
ParserExact == part = "parser" => P!WalksAgree /\ P!CompletionLosesNothing

\* Strings are searched, cut, joined and escaped without loss (Strings).  What a
\* text writer wrote is what a text reader reads, and UTF-8 and base64 give back
\* what they encoded (Encodings).  What a format printed it scans again
\* (Formats).
TextExact ==
    /\ part = "strings" => S!StringsExact
    /\ part = "encodings" => E!TextKept /\ E!CodecsInvert
    /\ part = "formats" => F!PrintedReadsBack

\* JSON values and texts are read as they were printed (Json).  Objects come back
\* from both archives, and from those of earlier versions (Serialization).  The
\* server gets and gives back the value, and each of its types has the codec it
\* comes down to, whatever the order of the catalogue (PgTypes).  Times are
\* compared, computed and converted as numbers are (Times).
DataExact ==
    /\ part = "json" => J!JsonReadsBack
    /\ part = "archives" => A!SerializationExact
    /\ part = "types" => G!PgTypesExact
    /\ part = "times" => M!TimesExact

\* A program gets from its command line what the user wrote there (Cmdline).  A
\* path leads where its operations say, its text too, and what is created is there
\* with all above it (Paths).
SystemExact ==
    /\ part = "cmdline" => L!CommandLineExact
    /\ part = "paths" => D!PathsExact

\* Pipes give the items they mean; sources, sinks and buffers lose none
\* (Streams).
StreamsExact == part = "streams" => T!StreamsExact

\* Pulses on a servo add up, the search for an end switch ends where it opens, and
\* a gantry is squared and comes home at its angle (Motors).
MotorsExact ==
    /\ part = "emulation" => O!PulsesKept
    /\ part = "switch" => O!EndstopOpened
    /\ part = "gantry" => O!GantryExact

\* A program and the machine agree on the position, whatever modes it uses, and
\* commands come out in their order, each once (GCode).
GCodeExact == part = "program" => N!GCodeExact
=============================================================================
