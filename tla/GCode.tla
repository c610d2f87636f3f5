-------------------------------- MODULE GCode --------------------------------
(***************************************************************************)
(* dev_gcode_grbl: TGrblParser, which turns the lines of a g-code program  *)
(* with its modes (units, coordinates, feed rates) into commands that do   *)
(* not depend on any, and the machine that carries them out.               *)
(*                                                                         *)
(* A line is a command word, its arguments and what follows ";".  Numbers  *)
(* are small integers; how they are written is Bcd's part.  Exactly three  *)
(* axes are kept.  External: the machine.                                  *)
(***************************************************************************)
EXTENDS Integers, SequencesExt

CONSTANTS Lines,      \* what a program may consist of
          Fresh,      \* parser_state_t at the beginning
          MaxLines    \* bound: lines of a program

VARIABLES state,   \* parser_state_t
          queue,   \* out_queue
          phase,   \* reading, at the end, or left by an exception
          machine, \* external: where the machine is
          lines, given, before  \* history

programVars == <<state, queue, phase, machine, lines, given, before>>

-----------------------------------------------------------------------------
(* Numbers: a negative zero stands for an argument that is missing *)

Missing == 1000
Inch == 25  \* inch_mul, rounded
IsZero(v) == v \in {0, Missing}
Num(v) == IF v = Missing THEN 0 ELSE v
Lower(a, b) == IF a <= b THEN a ELSE b
Axes == 1..3
\* TDecimalVector(unit, keys, args)
Vector(unit, keys, args) ==
    [i \in Axes |-> IF keys[i] \notin DOMAIN args THEN Missing
                    ELSE IF unit = "METRIC" \/ args[keys[i]] = Missing THEN args[keys[i]] ELSE args[keys[i]] * Inch]
Plus(v, w) == [i \in Axes |-> Num(v[i]) + Num(w[i])]

Reference(s) == CASE s.coord_mode = "ABSOLUTE" -> s.wcs[s.idx_wcs + 1]
                  [] s.coord_mode = "RELATIVE" -> s.pos
\* UpdatePosition(): where a move leads to.
Target_KeepsZero(s, v) == [i \in Axes |-> IF IsZero(v[i]) THEN s.pos[i] ELSE v[i] + Reference(s)[i]]
Target(s, v) == [i \in Axes |-> IF v[i] = Missing THEN s.pos[i] ELSE v[i] + Reference(s)[i]]

-----------------------------------------------------------------------------
(* Commands *)

Parsed(s, cmd) == [ok |-> TRUE, state |-> s, cmd |-> cmd]
Refusal(s) == [ok |-> FALSE, state |-> s, cmd |-> [kind |-> "none"]]
Silent == [kind |-> "silent"]  \* its text is empty
Move(target, feedrate) == [kind |-> "G01", target |-> target, feedrate |-> feedrate]
Spindle(on) == [kind |-> IF on THEN "M03" ELSE "M05"]
Macro(commands) == [kind |-> "macro", commands |-> commands]

\* ParseArgs(): every key known and given once, none that must be there missing.
Accepted(args, mandatory, optional) ==
    /\ \A i \in DOMAIN args : args[i].key \in mandatory \cup optional
    /\ \A i, j \in DOMAIN args : i # j => args[i].key # args[j].key
    /\ mandatory \subseteq {args[i].key : i \in DOMAIN args}
Args(args) == [k \in {args[i].key : i \in DOMAIN args} |-> args[CHOOSE i \in DOMAIN args : args[i].key = k].value]
With(args, k, default) == IF k \in DOMAIN args THEN args[k] ELSE default

XYZ == <<"X", "Y", "Z">>
IJK == <<"I", "J", "K">>

LinearMove(s, fast, args) ==
    LET v == Vector(s.unit, XYZ, args)
        has_xy == ~IsZero(v[1]) \/ ~IsZero(v[2])
        rapid == IF has_xy /\ ~IsZero(v[3]) THEN Lower(s.fr_rapid_xy, s.fr_rapid_z)
                 ELSE IF has_xy THEN s.fr_rapid_xy ELSE s.fr_rapid_z
        feedrate == With(args, "F", IF fast THEN rapid ELSE s.fr_cmd)
        target == Target(s, v)
    IN Parsed([s EXCEPT !.pos = target, !.fr_cmd = IF fast THEN @ ELSE feedrate], Move(target, feedrate))
ArcMove(s, args) ==
    LET feedrate == With(args, "F", s.fr_cmd)
        target == Target(s, Vector(s.unit, XYZ, args))
    IN Parsed([s EXCEPT !.pos = target, !.fr_cmd = feedrate],
            [kind |-> "G03", target |-> target, center |-> Plus(Vector(s.unit, IJK, args), s.pos),
             start |-> s.pos, feedrate |-> feedrate])
SetWorkCoordOffset(s, args) ==
    LET v == Vector(s.unit, XYZ, args)
        origin == IF args["L"] = 20 THEN Plus(v, s.pos) ELSE [i \in Axes |-> Num(v[i])]
    IN IF args["L"] \notin {2, 20} THEN Refusal(s)
       ELSE Parsed([s EXCEPT !.wcs[args["P"] + 1] = origin], [kind |-> "G10"])
\* Down and up again, above where it shall be drilled.
Drill(s, args) ==
    LET v == Vector(s.unit, XYZ, args)
        feedrate == With(args, "F", s.fr_cmd)
        retract == IF s.drill_return = "R_LEVEL" THEN args["R"] ELSE s.pos[3]
        up == <<Num(v[1]), Num(v[2]), Num(retract)>>
        s1 == [s EXCEPT !.fr_cmd = feedrate]
    IN IF s.drill_return = "R_LEVEL" /\ "R" \notin DOMAIN args THEN Refusal(s1)
       ELSE Parsed(s1, Macro(<<Move(up, s.fr_rapid_xy), Move(<<up[1], up[2], Num(v[3])>>, feedrate), Move(up, s.fr_rapid_z)>>))
SpindleStart(s, args) ==
    LET s1 == [s EXCEPT !.spindle_rpm = With(args, "S", @)] IN
    IF s1.spindle_rpm < 0 THEN Refusal(s1) ELSE Parsed([s1 EXCEPT !.spindle_on = TRUE], Spindle(TRUE))
ToolChange(s) ==
    LET higher == s.tool_change_pos[3] > s.pos[3]
        raised == [s.pos EXCEPT ![3] = IF higher THEN s.tool_change_pos[3] ELSE @]
    IN Parsed(s, Macro((IF higher THEN <<Move(raised, s.fr_rapid_z)>> ELSE <<>>)
                     \o <<Spindle(FALSE), Move(s.tool_change_pos, s.fr_rapid_xy), [kind |-> "M01"],
                          Spindle(TRUE), Move(raised, s.fr_rapid_xy)>>))
Probe(s, cmd) == Parsed(s, [kind |-> cmd, target |-> <<0, 0, 0>>, feedrate |-> 0])

\* The arguments each command takes; others do not look at them.
Keys == [G0 |-> {"X", "Y", "Z", "F"}, G1 |-> {"X", "Y", "Z", "F"}, G2 |-> {"X", "Y", "Z", "F", "I", "J", "K"}, G4 |-> {},
         G10 |-> {"X", "Y", "Z"}, G81 |-> {"X", "Y", "Z", "F", "R"}, M3 |-> {"S"}, M5 |-> {}, M6 |-> {"T"}]
Mandatory(cmd) == CASE cmd = "G4" -> {"P"} [] cmd = "G10" -> {"L", "P"} [] OTHER -> {}
\* ParseCommand()
ParseCommand(s, line) ==
    LET cmd == line.cmd
        args == Args(line.args)
    IN CASE cmd \in DOMAIN Keys /\ ~Accepted(line.args, Mandatory(cmd), Keys[cmd]) -> Refusal(s)
         [] cmd \in DOMAIN Keys /\ Accepted(line.args, Mandatory(cmd), Keys[cmd]) ->
               (CASE cmd \in {"G0", "G1"} -> LinearMove(s, cmd = "G0", args)
                  [] cmd = "G2" -> ArcMove(s, args)
                  [] cmd = "G4" -> Parsed(s, [kind |-> "G04"])
                  [] cmd = "G10" -> SetWorkCoordOffset(s, args)
                  [] cmd = "G81" -> Drill(s, args)
                  [] cmd = "M3" -> SpindleStart(s, args)
                  [] cmd = "M5" -> Parsed([s EXCEPT !.spindle_on = FALSE], Spindle(FALSE))
                  [] cmd = "M6" -> ToolChange(s))
         [] cmd \in {"G17", "G18", "G19"} -> Parsed([s EXCEPT !.plane = cmd], [kind |-> cmd])
         [] cmd \in {"G20", "G21"} -> Parsed([s EXCEPT !.unit = IF cmd = "G20" THEN "IMPERIAL" ELSE "METRIC"], Silent)
         [] cmd \in {"G38.2", "G38.3"} -> Probe(s, cmd)
         [] cmd \in {"G54", "G55"} -> Parsed([s EXCEPT !.idx_wcs = IF cmd = "G54" THEN 0 ELSE 1], Silent)
         [] cmd = "G80" -> Parsed(s, Silent)
         [] cmd \in {"G90", "G91"} -> Parsed([s EXCEPT !.coord_mode = IF cmd = "G90" THEN "ABSOLUTE" ELSE "RELATIVE"], Silent)
         [] cmd \in {"G98", "G99"} -> Parsed([s EXCEPT !.drill_return = IF cmd = "G98" THEN "R_LEVEL" ELSE "PREVIOUS_Z"], Silent)
         [] cmd = "M0" -> Parsed(s, [kind |-> "M00"])
         [] cmd = "M2" -> Parsed(s, [kind |-> "M02"])
         [] OTHER -> Refusal(s)  \* G3 too

-----------------------------------------------------------------------------
(* NextItem() *)

Comment == [kind |-> "comment"]
\* External: what the machine does with the text of a command.
Moved(at, cmd) ==
    CASE "target" \in DOMAIN cmd /\ cmd.kind \in {"G01", "G03"} -> cmd.target
      [] cmd.kind = "macro" -> FoldLeft(LAMBDA p, c : IF c.kind = "G01" THEN c.target ELSE p, at, cmd.commands)
      [] OTHER -> at

Give == /\ phase = "reading" /\ \E i \in DOMAIN queue : queue[i] # Comment
        /\ machine' = Moved(machine, Head(queue))
        /\ given' = Append(given, Head(queue).kind) /\ queue' = Tail(queue)
        /\ UNCHANGED <<state, phase, lines, before>>

\* Comments wait for the command that follows; one behind ";" goes in front of
\* its own, and is dropped when there is none.
InFront_Behind(line) == <<>>
InFront(line) == IF line.comment THEN <<Comment>> ELSE <<>>
\* One call goes on over comments and empty lines to a command.
ReadLine(line) ==
    /\ phase = "reading" /\ ~state.eof /\ Len(lines) < MaxLines
    /\ \A i \in DOMAIN queue : queue[i] = Comment
    /\ lines' = Append(lines, line) /\ before' = state
    /\ CASE line.cmd = "(" -> queue' = Append(queue, Comment) /\ UNCHANGED <<state, phase>>
         [] line.cmd = "" -> UNCHANGED <<queue, state, phase>>
         [] line.cmd \notin {"(", ""} ->
               \E r \in {ParseCommand(state, line)} :
                  /\ state' = [r.state EXCEPT !.eof = line.cmd = "M2" /\ r.ok]
                  /\ queue' = queue \o InFront(line) \o (IF r.ok THEN <<r.cmd>> ELSE <<>>)
                  /\ phase' = IF r.ok THEN phase ELSE "failed"
    /\ UNCHANGED <<machine, given>>
\* No line is left; what waits is not asked for any more.
End == /\ phase = "reading" /\ \A i \in DOMAIN queue : queue[i] = Comment
       /\ phase' = "end"
       /\ UNCHANGED <<state, queue, machine, lines, given, before>>

ProgramInit == /\ state = Fresh /\ machine = Fresh.pos /\ before = Fresh
               /\ queue = <<>> /\ phase = "reading" /\ lines = <<>> /\ given = <<>>
ProgramNext == Give \/ End \/ \E line \in Lines : ReadLine(line)
ProgramSpec == ProgramInit /\ [][ProgramNext]_programVars

-----------------------------------------------------------------------------
(* Properties *)

\* The position of the parser is where the commands it gave lead the machine;
\* drilling, tool changes and probes, whose moves it does not follow, come right
\* with the next move.
Followed == \A i \in DOMAIN lines : lines[i].cmd \in {"G81", "M6", "G38.2", "G38.3"}
                => \E j \in DOMAIN lines : j > i /\ lines[j].cmd \in {"G0", "G1", "G2"}
PositionFollowed == queue = <<>> /\ phase # "failed" /\ Followed => machine = state.pos
\* A move means the same in either mode and unit.
Way(s, mode, unit, v) == ParseCommand([s EXCEPT !.coord_mode = mode, !.unit = unit],
                                      [cmd |-> "G1", args |-> [i \in Axes |-> [key |-> XYZ[i], value |-> v[i]]]]).cmd.target
ModesAgree ==
    queue = <<>> /\ phase = "reading" => \A v \in {<<0, 2, -1>>, <<Missing, 0, 3>>} :
        /\ Way(state, "RELATIVE", "METRIC", v) = Plus(v, state.pos)
        /\ Way(state, "ABSOLUTE", "METRIC", [i \in Axes |-> Num(v[i]) + state.pos[i] - state.wcs[state.idx_wcs + 1][i]])
               = Way(state, "RELATIVE", "METRIC", v)
        /\ \A mode \in {"ABSOLUTE", "RELATIVE"} :
              Way(state, mode, "IMPERIAL", v) = Way(state, mode, "METRIC", [i \in Axes |-> IF v[i] = Missing THEN Missing ELSE v[i] * Inch])
\* A line that is refused leaves the modes and the position as they were; drill
\* and spindle commands keep the feed rate and the speed they brought along.
RefusedChangesNothing ==
    phase = "failed" => /\ lines[Len(lines)].cmd \notin {"G81", "M3"} => state = before
                        /\ [state EXCEPT !.fr_cmd = 0, !.spindle_rpm = 0] = [before EXCEPT !.fr_cmd = 0, !.spindle_rpm = 0]
\* Commands and comments come in the order of the program, each once, and none
\* after its end; only comments behind the last command are not given.
Meant(line) == CASE line.cmd = "(" -> <<"comment">>
                 [] line.cmd = "" -> <<>>
                 [] OTHER -> IF line.comment THEN <<"comment", line.cmd>> ELSE <<line.cmd>>
Meaning(program) ==
    LET meant[n \in 0..Len(program)] == IF n = 0 THEN <<>> ELSE meant[n - 1] \o Meant(program[n])
    IN meant[Len(program)]
InOrder ==
    LET meant == Meaning(lines)
        got == given \o [i \in DOMAIN queue |-> queue[i].kind]
    IN /\ phase # "failed" => Len(got) = Len(meant)
       /\ \A i \in DOMAIN got : (got[i] = "comment") = (meant[i] = "comment")
       /\ \A i \in 1..(Len(lines) - 1) : lines[i].cmd # "M2"
       /\ phase = "end" => \A i \in (Len(given) + 1)..Len(meant) : meant[i] = "comment"
GCodeExact == PositionFollowed /\ ModesAgree /\ RefusedChangesNothing /\ InOrder
=============================================================================
