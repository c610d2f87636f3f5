------------------------------ MODULE Cmdline ------------------------------
(***************************************************************************)
(* system_cmdline: the options a program defines, and the walk over its    *)
(* command line and environment that gives them their values.              *)
(*                                                                         *)
(* An argument is a word: its dashes, what comes before its first '=' (a   *)
(* key) and what comes behind it.                                          *)
(***************************************************************************)
EXTENDS Integers, Sequences, FiniteSets, SequencesExt

CONSTANTS Options,     \* the options a program may define
          Words,       \* the arguments a user may type
          Numerals,    \* the number a key is written for: a function
          Files,       \* the type of the object at a path: a function, NX for no object
          MaxOptions,  \* bound: options of a program
          MaxWords     \* bound: arguments of a command line

VARIABLE cmd

Word(dashes, key) == [dashes |-> dashes, key |-> key, eq |-> FALSE, behind |-> ""]
WordEq(dashes, key, behind) == [dashes |-> dashes, key |-> key, eq |-> TRUE, behind |-> behind]
Option(kind, letter, name, env, optional, anonymous) ==
    [kind |-> kind, letter |-> letter, name |-> name, env |-> env, optional |-> optional, anonymous |-> anonymous]
Path(letter, name, type, mode) ==
    [kind |-> "path", letter |-> letter, name |-> name, env |-> "", optional |-> TRUE, anonymous |-> TRUE,
     type |-> type, mode |-> mode]
Flag(letter, name, env) == Option("flag", letter, name, env, TRUE, FALSE)
Help == Option("help", "h", "help", "", TRUE, FALSE)
Version == Option("version", "V", "version", "", TRUE, FALSE)
IsFlag(o) == o.kind \in {"flag", "help", "version"}

\* TRUE, FALSE, or no boolean.
ParseBool(w) ==
    CASE w.dashes = 0 /\ ~w.eq /\ w.key \in {"true", "yes", "enabled", "1"}   -> {TRUE}
      [] w.dashes = 0 /\ ~w.eq /\ w.key \in {"false", "no", "disabled", "0"} -> {FALSE}
      [] OTHER -> {}
\* ToInteger(): one dash is a sign, and stands for 0 if nothing follows it.
ParseInteger(w) ==
    IF w.eq THEN {} ELSE IF w = Word(1, "") THEN {0}
    ELSE {IF w.dashes = 0 THEN n ELSE -n :
          n \in {Numerals[k] : k \in {k \in DOMAIN Numerals : k = w.key /\ w.dashes \in {0, 1}}}}
\* TPathArgument: what is there must suit how the program will open it.
TypeAt(w) == IF w.key \in DOMAIN Files /\ w.dashes = 0 /\ ~w.eq THEN Files[w.key] ELSE "NX"
Suits(o, w) ==
    /\ ~(o.mode = "OPEN" /\ TypeAt(w) = "NX")
    /\ ~(o.mode = "EXCLUSIVE" /\ TypeAt(w) # "NX")
    /\ TypeAt(w) # "NX" /\ o.type # "UNKNOWN" => TypeAt(w) = o.type

\* ParseValue(): a value, the end of the program, or an exception.
Value(kind, x) == [kind |-> kind, of |-> <<x>>]
Unset == [kind |-> "unset", of |-> <<>>]
Stops == [kind |-> "stop", of |-> <<>>]
Thrown == [kind |-> "thrown", of |-> <<>>]
ParseValue(o, w) ==
    CASE o.kind = "text"                 -> Value("text", w)
      [] o.kind = "path"                 -> IF Suits(o, w) THEN Value("path", w) ELSE Thrown
      [] o.kind = "integer"              -> IF ParseInteger(w) = {} THEN Thrown
                                            ELSE Value("integer", CHOOSE n \in ParseInteger(w) : TRUE)
      [] ParseBool(w) = {}               -> Thrown
      [] o.kind \in {"flag", "boolean"}  -> Value("boolean", TRUE \in ParseBool(w))
      [] OTHER -> IF TRUE \in ParseBool(w) THEN Stops ELSE Value("boolean", FALSE)

-----------------------------------------------------------------------------
(* What the program defines *)

Nothing == [phase |-> "define", defs |-> <<>>, env |-> <<>>, line |-> <<>>, value |-> <<>>, role |-> <<>>,
            scan |-> 1, eof |-> FALSE, wants |-> 0]
Init == cmd = Nothing
Refused == [cmd EXCEPT !.phase = "refused"]

Define(o) ==
    /\ cmd.phase = "define" /\ Len(cmd.defs) < MaxOptions
    /\ cmd' = [cmd EXCEPT !.defs = Append(@, o)]

\* The two maps refuse a name or a letter that is there already.
Twice(defs) == \E i, j \in DOMAIN defs :
    i # j /\ \/ defs[i].name # "" /\ defs[i].name = defs[j].name
             \/ defs[i].letter # "" /\ defs[i].letter = defs[j].letter
WithHelp(defs) == IF \E i \in DOMAIN defs : defs[i].kind = "help" THEN defs ELSE <<Help>> \o defs
Variables == {o.env : o \in Options} \ {""}
Start ==
    /\ cmd.phase = "define" /\ cmd.defs # <<>>
    /\ \E defs \in {WithHelp(cmd.defs)} :
       \E set \in SUBSET (Variables \cap {defs[i].env : i \in DOMAIN defs}), w \in {w \in Words : w.dashes < 2 /\ ~w.eq} :
          cmd' = IF Twice(defs) THEN Refused
                 ELSE [cmd EXCEPT !.phase = "parse", !.defs = defs, !.value = [i \in DOMAIN defs |-> Unset],
                                  !.env = [v \in set |-> w]]

-----------------------------------------------------------------------------
(* The walk: one argument after the other *)

\* The value of option d; a second one is refused.
Assign_Again(c, d, w) ==
    LET v == ParseValue(c.defs[d], w) IN
    CASE v = Thrown -> [c EXCEPT !.phase = "refused"]
      [] v = Stops  -> [c EXCEPT !.phase = "stopped"]
      [] OTHER -> [c EXCEPT !.value[d] = v, !.wants = 0]
Assign(c, d, w) ==
    LET v == ParseValue(c.defs[d], w) IN
    CASE c.value[d] # Unset \/ v = Thrown -> [c EXCEPT !.phase = "refused"]
      [] c.value[d] = Unset /\ v = Stops  -> [c EXCEPT !.phase = "stopped"]
      [] OTHER -> [c EXCEPT !.value[d] = v, !.wants = 0]

Given(w, role) == [cmd EXCEPT !.line = Append(@, w), !.role = Append(@, role)]
Role(what, d) == [what |-> what, d |-> d]
Parsing == cmd.phase = "parse" /\ Len(cmd.line) < MaxWords
IsOption(w) == ~cmd.eof /\ w.dashes > 0 /\ (w.dashes = 2 \/ w.key # "" \/ w.eq) /\ cmd.wants = 0
Named(w) == {d \in DOMAIN cmd.defs : IF w.dashes = 2 THEN w.key # "" /\ cmd.defs[d].name = w.key
                                     ELSE ~w.eq /\ cmd.defs[d].letter = w.key}

\* The argument behind an option that needs a value, whatever it looks like.
ValueGiven(w) ==
    /\ Parsing /\ cmd.wants > 0
    /\ cmd' = Assign(Given(w, Role("value", cmd.wants)), cmd.wants, w)
EndOfOptions(w) ==
    /\ Parsing /\ IsOption(w) /\ w = Word(2, "")
    /\ cmd' = [Given(w, Role("end", 0)) EXCEPT !.eof = TRUE]
Unrecognized(w) ==
    /\ Parsing /\ IsOption(w) /\ w # Word(2, "") /\ Named(w) = {}
    /\ cmd' = Refused
OptionGiven(w) ==
    /\ Parsing /\ IsOption(w)
    /\ \E d \in Named(w) :
          cmd' = CASE w.eq -> Assign(Given(w, Role("option", d)), d, Word(0, w.behind))
                   [] ~w.eq /\ IsFlag(cmd.defs[d]) -> Assign(Given(w, Role("option", d)), d, Word(0, "true"))
                   [] OTHER -> [Given(w, Role("option", d)) EXCEPT !.wants = d]
\* An empty argument has no first character to look at, unless "--" came before it.
Empty(w) ==
    /\ Parsing /\ cmd.wants = 0 /\ ~cmd.eof /\ w = Word(0, "")
    /\ cmd' = Refused
\* The next anonymous option, in the order they are defined, that has no value.
Free == {d \in cmd.scan..Len(cmd.defs) : cmd.defs[d].anonymous /\ cmd.value[d] = Unset}
Anonymous(w) ==
    /\ Parsing /\ cmd.wants = 0 /\ ~IsOption(w) /\ (cmd.eof \/ w # Word(0, ""))
    /\ IF Free = {} THEN cmd' = IF cmd.eof THEN [cmd EXCEPT !.phase = "left"] ELSE Refused
       ELSE \E d \in {CHOOSE d \in Free : \A e \in Free : d <= e} :
              cmd' = Assign([Given(w, Role("anonymous", d)) EXCEPT !.scan = d + 1], d, w)

-----------------------------------------------------------------------------
(* The end of the line: the environment, then what is mandatory *)

FromEnvironment(c, d) ==
    IF c.phase # "parse" THEN c
    ELSE LET o == c.defs[d]
             e == IF c.value[d] = Unset /\ o.env \in DOMAIN c.env THEN Assign(c, d, c.env[o.env]) ELSE c
         IN IF e.phase = "parse" /\ e.value[d] = Unset /\ ~o.optional THEN [e EXCEPT !.phase = "refused"] ELSE e
Finish ==
    /\ cmd.phase = "parse"
    /\ \E c \in {IF cmd.wants > 0 THEN Refused
                 ELSE FoldLeftDomain(LAMBDA c, d : FromEnvironment(c, d), cmd, cmd.defs)} :
          cmd' = [c EXCEPT !.phase = IF @ = "parse" THEN "accepted" ELSE @]

Argument(w) == \/ ValueGiven(w) \/ EndOfOptions(w) \/ Unrecognized(w) \/ OptionGiven(w) \/ Empty(w) \/ Anonymous(w)
Next ==
    \/ \E o \in Options : Define(o)
    \/ Start
    \/ \E w \in Words : Argument(w)
    \/ Finish
Spec == Init /\ [][Next]_cmd

-----------------------------------------------------------------------------
(* The help text: a line for each option that has a name or a letter *)

Shown(defs) == SelectSeq(defs, LAMBDA o : o.name # "" \/ o.letter # "")
\* Each line with the option whose description is printed beside it.
HelpLines(defs) == [i \in DOMAIN Shown(defs) |-> <<Shown(defs)[i], defs[i]>>]

-----------------------------------------------------------------------------
(* A command line that is accepted *)

Ended == cmd.phase \in {"accepted", "left"}
Uses(d) == {i \in DOMAIN cmd.role : cmd.role[i].what \in {"option", "anonymous"} /\ cmd.role[i].d = d}
Meant(d, i) ==
    CASE cmd.role[i].what = "anonymous" -> cmd.line[i]
      [] cmd.role[i].what = "option" /\ cmd.line[i].eq -> Word(0, cmd.line[i].behind)
      [] cmd.role[i].what = "option" /\ ~cmd.line[i].eq /\ IsFlag(cmd.defs[d]) -> Word(0, "true")
      [] OTHER -> cmd.line[i + 1]

\* An option is given once at most, and has the value it was given there; one
\* that was not given has what the environment says, if there is anything.
ValuesAsGiven ==
    Ended => \A d \in DOMAIN cmd.defs :
        /\ Cardinality(Uses(d)) <= 1
        /\ \A i \in Uses(d) : cmd.value[d] = ParseValue(cmd.defs[d], Meant(d, i))
        /\ Uses(d) = {} /\ cmd.phase = "accepted" =>
              cmd.value[d] = IF cmd.defs[d].env \in DOMAIN cmd.env
                             THEN ParseValue(cmd.defs[d], cmd.env[cmd.defs[d].env]) ELSE Unset
\* Nothing mandatory is missing, unless arguments were left for the program.
NothingMissing ==
    cmd.phase = "accepted" => \A d \in DOMAIN cmd.defs : cmd.value[d] = Unset => cmd.defs[d].optional
\* Anonymous options are filled in the order of their definition, and no
\* option is recognized behind "--".
InOrder ==
    \A i, j \in DOMAIN cmd.role : i < j =>
        /\ cmd.role[i].what = "anonymous" /\ cmd.role[j].what = "anonymous" => cmd.role[i].d < cmd.role[j].d
        /\ cmd.role[i].what = "end" => cmd.role[j].what = "anonymous"
\* Beside an option its own description is printed, if all have a name or a letter.
OwnHelp ==
    cmd.phase = "parse" /\ cmd.line = <<>> /\ Shown(cmd.defs) = cmd.defs =>
        \A i \in DOMAIN HelpLines(cmd.defs) : HelpLines(cmd.defs)[i][1] = HelpLines(cmd.defs)[i][2]

\* What a program gets from its command line is what the user wrote there
\* (ParseCmdlineArguments), whichever way the options are mixed.
CommandLineExact == ValuesAsGiven /\ NothingMissing /\ InOrder /\ OwnHelp
=============================================================================
