------------------------------- MODULE Motors -------------------------------
(***************************************************************************)
(* dev_motor: STEP and DIR pulses on a servo (TStepperEmulation), the      *)
(* search for the point at which an end switch opens (FindHomeEndstop),    *)
(* and a bridge on a few motors (TGantry, IStepperGroup) that is squared   *)
(* and brought to a known angle.                                           *)
(*                                                                         *)
(* The emulation keeps what is left of the division of a pulse into        *)
(* encoder steps.  The end switch is closed from position 0 on, in the     *)
(* direction in which the motor seeks.  The motors of a gantry push one    *)
(* bridge, each on its side, against a hard stop; a pulse moves an enabled *)
(* motor by a step unless it stands at the stop or slips; one turn of an   *)
(* iteration of MoveWhile is a step here, and what the drives answer to a  *)
(* call that fails is left open.  External: motors, encoders, detectors.   *)
(***************************************************************************)
EXTENDS Integers, Sequences, FiniteSets, SequencesExt

CONSTANTS EncoderSteps,  \* encoder_steps_per_turn
          FullSteps,     \* full_step_resolution
          Dividers,      \* arguments of Microsteps
          IntMax,        \* the largest s64_t
          Unit,          \* a common multiple of the denominators
          MaxAsked,      \* bound: pulses since the last start, in full steps
          MaxChanges,    \* bound: Microsteps calls since then
          SeekRange,     \* bound: how far the motor may be from the end switch
          Kits,          \* the motors a program may put together
          Distances,     \* of the sides from the hard stop, in steps
          AxisLength,    \* axis_length
          Unchecked,     \* steps before the first look for a stall
          Window,        \* encoder_stall_window_steps
          Turn,          \* rotor angles of the reference encoder, StepAngle to a step
          StepAngle,
          Iterations,    \* n_iter
          MaxSlips       \* bound: steps missed on the way to the stop

VARIABLES emu,         \* the fields of TStepperEmulation
          servo,       \* the servo, its driver and its encoder
          asked,       \* history: since the last start, what the pulses asked for in
                       \* 1/Unit encoder steps, where that began, what divisions lost
          homing,      \* where FindHomeEndstop is
          carriage,    \* external: the position before the end switch
          seeking,     \* the motor's direction is seek_dir
          n_steps,     \* what is returned: the steps it took to open the switch
          was_closed,  \* the switch was closed at the beginning
          motors,      \* what is known of each motor, and where it is
          task,        \* what the gantry is doing
          i_step,      \* MoveWhile's count
          seen,        \* AlignSquare's record of each motor
          dir,         \* the direction given, in terms of the gantry: 1 is FORWARD
          away,        \* the direction that leads off the stop
          aim,         \* target_angle and the iteration
          slips, pushes  \* history

-----------------------------------------------------------------------------
(* TStepperEmulation *)

Abs(a) == IF a < 0 THEN -a ELSE a
\* Division of C++: towards zero.
Quotient(a, b) == IF a < 0 THEN -((-a) \div b) ELSE a \div b
Remainder(a, b) == a - b * Quotient(a, b)

Denominator(divider) == FullSteps * divider
AcceptedDivider(divider) ==  \* ValidateStepDenominator()
    divider > 0 /\ Denominator(divider) <= IntMax /\ EncoderSteps <= IntMax - (Denominator(divider) - 1)

NothingAsked(anchor) == [units |-> 0, anchor |-> anchor, lost |-> 0, changes |-> 0]

EmuInit ==
    /\ servo \in [enabled : BOOLEAN, driver : BOOLEAN, target : {0}, position : {0, 1}]
    /\ emu = [direction |-> 1, step_state |-> FALSE, enabled |-> servo.enabled /\ servo.driver,
              target |-> servo.target, remainder |-> 0, microsteps |-> 1]
    /\ asked = NothingAsked(servo.target)

Anchored_KeepsRemainder(e, target) == [e EXCEPT !.target = target, !.step_state = FALSE]
Anchored(e, target) == [e EXCEPT !.target = target, !.remainder = 0, !.step_state = FALSE]

\* Enabled(): the driver, then the servo, each of which may refuse.
Enable ==
    /\ ~emu.enabled
    /\ \E driver, works \in BOOLEAN :
          /\ emu' = [Anchored(emu, servo.position) EXCEPT !.enabled = driver /\ works]
          /\ servo' = [servo EXCEPT !.target = servo.position, !.driver = IF driver THEN works ELSE @,
                                    !.enabled = IF driver THEN works ELSE @]
    /\ asked' = NothingAsked(servo.position)
Disable ==
    /\ emu.enabled
    /\ emu' = [Anchored(emu, servo.position) EXCEPT !.enabled = FALSE]
    /\ servo' = [servo EXCEPT !.enabled = FALSE, !.driver = FALSE, !.target = servo.position]
    /\ asked' = NothingAsked(servo.position)

Pulse(level) ==
    LET accumulator == emu.remainder + emu.direction * EncoderSteps
        delta == Quotient(accumulator, Denominator(emu.microsteps))
        target == emu.target + delta
    IN  /\ emu.step_state # level
        /\ IF ~level \/ ~emu.enabled THEN emu' = [emu EXCEPT !.step_state = level] /\ UNCHANGED <<servo, asked>>
           ELSE IF Abs(target) > IntMax THEN emu' = [emu EXCEPT !.step_state = level] /\ UNCHANGED <<servo, asked>>  \* throws
           ELSE /\ Abs(asked.units) < MaxAsked * EncoderSteps * (Unit \div FullSteps)
                /\ emu' = [emu EXCEPT !.step_state = level, !.target = target,
                                      !.remainder = Remainder(accumulator, Denominator(emu.microsteps))]
                /\ servo' = [servo EXCEPT !.target = target]
                /\ asked' = [asked EXCEPT !.units =
                      @ + emu.direction * EncoderSteps * (Unit \div Denominator(emu.microsteps))]

ChooseDirection(d) == emu.direction # d /\ emu' = [emu EXCEPT !.direction = d] /\ UNCHANGED <<servo, asked>>

\* ChangeMicrosteps(): what is left is scaled, towards zero.
ChangeMicrosteps(divider) ==
    LET new == Denominator(divider)  old == Denominator(emu.microsteps) IN
    /\ divider # emu.microsteps /\ asked.changes < MaxChanges
    /\ AcceptedDivider(divider) /\ (emu.remainder = 0 \/ Abs(emu.remainder) <= IntMax \div new)
    /\ emu' = [emu EXCEPT !.microsteps = divider, !.remainder = Quotient(@ * new, old)]
    /\ asked' = [asked EXCEPT !.changes = @ + 1, !.lost = @ + Unit \div new]
    /\ servo' = servo

\* The servo gets where it shall.
Turns == /\ servo.enabled /\ servo.driver /\ servo.position # servo.target
         /\ servo' = [servo EXCEPT !.position = @ + (IF servo.target > @ THEN 1 ELSE -1)]
         /\ UNCHANGED <<emu, asked>>

EmuNext == \/ Enable \/ Disable \/ Turns
        \/ \E level \in BOOLEAN : Pulse(level)
        \/ \E d \in {-1, 1} : ChooseDirection(d)
        \/ \E divider \in Dividers : ChangeMicrosteps(divider)

-----------------------------------------------------------------------------
(* FindHomeEndstop *)

Closed == carriage >= 0
SeekStep == carriage' = carriage + (IF seeking THEN 1 ELSE -1)

HomingInit ==
    /\ carriage \in -SeekRange..SeekRange /\ was_closed = Closed
    /\ homing = "fast" /\ seeking = ~Closed /\ n_steps = 0

\* Until the switch changes, either way.
FastSeek ==
    /\ homing = "fast"
    /\ IF Closed = was_closed THEN SeekStep /\ homing' = homing ELSE homing' = "seek" /\ carriage' = carriage
    /\ UNCHANGED <<seeking, n_steps, was_closed>>
PrecisionSeek_NoTurn ==  \* mutant: goes on into the switch
    /\ homing = "seek" /\ carriage > -2 * SeekRange
    /\ IF Closed THEN homing' = "clear" /\ carriage' = carriage ELSE SeekStep /\ homing' = homing
    /\ UNCHANGED <<seeking, n_steps, was_closed>>
PrecisionSeek ==
    /\ homing = "seek" /\ carriage > -2 * SeekRange
    /\ IF Closed THEN homing' = "clear" /\ seeking' = FALSE /\ carriage' = carriage
       ELSE SeekStep /\ UNCHANGED <<homing, seeking>>
    /\ UNCHANGED <<n_steps, was_closed>>
PrecisionClear ==
    /\ homing = "clear"
    /\ IF Closed THEN SeekStep /\ n_steps' = n_steps + 1 /\ homing' = homing ELSE homing' = "done" /\ UNCHANGED <<carriage, n_steps>>
    /\ UNCHANGED <<seeking, was_closed>>

HomingNext == FastSeek \/ PrecisionSeek \/ PrecisionClear

-----------------------------------------------------------------------------
Greater(a, b) == IF a >= b THEN a ELSE b
All == DOMAIN motors

-----------------------------------------------------------------------------
(* The motors as one: IStepperGroup *)

Invert(mi, d) == IF mi.inverted THEN -d ELSE d
FullStepResolution(ms) == FoldLeft(LAMBDA r, mi : Greater(r, mi.fsr), 0, ms)

\* Microsteps(): motors in front of one that cannot have changed already.
RECURSIVE Microsteps(_, _, _)
Microsteps(ms, i, divider) ==
    LET fsr == FullStepResolution(ms) * divider IN
    IF i > Len(ms) THEN [ok |-> TRUE, motors |-> ms]
    ELSE IF fsr % ms[i].fsr # 0 \/ fsr \div ms[i].fsr \notin ms[i].dividers THEN [ok |-> FALSE, motors |-> ms]
    ELSE Microsteps([ms EXCEPT ![i].microsteps = fsr \div ms[i].fsr], i + 1, divider)
GroupMicrosteps(ms) == IF ms = <<>> THEN 1
                       ELSE ms[CHOOSE i \in DOMAIN ms : /\ ms[i].fsr = FullStepResolution(ms)
                                                        /\ \A j \in 1..(i - 1) : ms[j].fsr # ms[i].fsr].microsteps

Agreed(values, none) == LET vs == {values[i] : i \in DOMAIN values} IN
                        IF vs = {} THEN none ELSE IF Cardinality(vs) = 1 THEN CHOOSE v \in vs : TRUE ELSE "UNKNOWN"
State(ms) == Agreed([i \in DOMAIN ms |-> IF ms[i].on THEN "OK" ELSE "DISABLED"], "DISABLED")
HasStallDetector(ms) == ms # <<>> /\ \A i \in DOMAIN ms : ms[i].detector # "none"
Armed(mi) == mi.detector = "on"
Detected(mi) == Armed(mi) /\ mi.stalled
\* TGroupStallDetector
Stall(ms) == IF \E i \in DOMAIN ms : Detected(ms[i]) THEN "STALLED"
             ELSE Agreed([i \in DOMAIN ms |-> IF Armed(ms[i]) THEN "CLEAR" ELSE "DISABLED"], "DISABLED")
Arm(ms, state) == [i \in DOMAIN ms |-> [ms[i] EXCEPT !.detector = IF state THEN "on" ELSE "off"]]
StallEnabled(ms) == ms # <<>> /\ \A i \in DOMAIN ms : Armed(ms[i])

-----------------------------------------------------------------------------
(* Motion *)

\* The encoder turns with its motor.
Position(mi) == Invert(mi, away) * mi.distance
\* A pulse on a motor that turns, in terms of the gantry, towards the stop or away.
Pulsed(mi, slip) ==
    CASE ~mi.active \/ ~mi.on            -> mi
      [] mi.active /\ mi.on /\ Invert(mi, mi.dir) = away -> [mi EXCEPT !.distance = @ + 1]
      [] OTHER -> IF mi.distance = 0 \/ slip THEN [mi EXCEPT !.stalled = TRUE] ELSE [mi EXCEPT !.distance = @ - 1]
\* Direction(): every motor its own way.
Directed(ms, d) == [i \in DOMAIN ms |-> [ms[i] EXCEPT !.dir = Invert(ms[i], d)]]
GantryDirection(ms) == Invert(ms[1], ms[1].dir)

\* Rotor of the first motor with a rotary encoder.
Reference(ms) == CHOOSE i \in DOMAIN ms : ms[i].encoder /\ \A j \in 1..(i - 1) : ~ms[j].encoder
Angle(ms) == (Position(ms[Reference(ms)]) * StepAngle) % Turn
\* AngleDifference(): the shortest way; the way in a direction.
AngleDifference(a1, a2) == LET diff == a1 - a2 IN
                           IF 2 * diff > Turn THEN diff - Turn ELSE IF 2 * diff < -Turn THEN diff + Turn ELSE diff
AngleInDirection(from, to, d) == LET diff == to - from IN
                                 IF d = 1 THEN (IF diff < 0 THEN diff + Turn ELSE diff)
                                 ELSE (IF diff > 0 THEN diff - Turn ELSE diff)
SignOf(a) == IF a > 0 THEN 1 ELSE IF a < 0 THEN -1 ELSE 0
Side(ms) == SignOf(AngleDifference(Angle(ms), aim.angle))

-----------------------------------------------------------------------------
(* AlignSquare *)

Unseen(mi) == [position |-> Position(mi), motion |-> 0, stalled |-> FALSE]

Ready(ms) == ms # <<>> /\ AxisLength > 0 /\ \A i \in DOMAIN ms : ms[i].encoder \/ Armed(ms[i])
SetUp_NoReset(mi) == [mi EXCEPT !.active = TRUE, !.on = TRUE, !.servo_on = IF mi.emulated THEN @ ELSE FALSE,
                                !.dir = Invert(mi, -away)]
SetUp(mi) == [mi EXCEPT !.active = TRUE, !.on = TRUE, !.servo_on = IF mi.emulated THEN @ ELSE FALSE,
                        !.dir = Invert(mi, -away), !.stalled = @ /\ ~Armed(mi)]
\* A drive that does not switch on, or a servo that does not switch off, ends it
\* there: those before it are set up.
AlignSquare ==
    /\ task = "idle" /\ Ready(motors)
    /\ \E works \in 0..Len(motors) :
          /\ motors' = [i \in All |-> IF i <= works THEN SetUp(motors[i]) ELSE motors[i]]
          /\ task' = IF works = Len(motors) THEN "align" ELSE "failed"
    /\ seen' = [i \in All |-> Unseen(motors[i])]
    /\ dir' = -away
    /\ UNCHANGED <<away, aim, i_step, slips, pushes>>

IsEncoderMoving(now, prev, d) == IF d = 1 THEN now > prev ELSE now < prev
\* What the look after step i tells of a motor.
Looked(mi, s, i) ==
    LET moving == mi.encoder /\ IsEncoderMoving(Position(mi), s.position, Invert(mi, -away))
        motion == IF moving THEN i ELSE s.motion
    IN IF i < Unchecked \/ s.stalled THEN s
       ELSE [position |-> IF mi.encoder THEN Position(mi) ELSE 0, motion |-> motion,
             stalled |-> Detected(mi) \/ (mi.encoder /\ i - motion >= Window)]
Off(mi) == [mi EXCEPT !.on = FALSE, !.active = FALSE, !.stalled = FALSE]

\* A step of MoveWhile: a pulse to all that are active, and a look.
Approach ==
    /\ task = "align" /\ i_step < AxisLength
    /\ \E slip \in SUBSET {i \in All : ~Armed(motors[i]) /\ motors[i].active /\ motors[i].distance > 0} :
          /\ slips + Cardinality(slip) <= MaxSlips /\ slips' = slips + Cardinality(slip)
          /\ \E moved \in {[i \in All |-> Pulsed(motors[i], i \in slip)]} :
             \E looks \in {[i \in All |-> Looked(moved[i], seen[i], i_step + 1)]} :
                /\ motors' = [i \in All |-> IF looks[i].stalled /\ ~seen[i].stalled THEN Off(moved[i]) ELSE moved[i]]
                /\ seen' = looks
                /\ task' = IF i_step + 1 < Unchecked \/ \E i \in All : ~looks[i].stalled THEN "align" ELSE "aligned"
    /\ i_step' = i_step + 1
    /\ pushes' = [i \in All |-> pushes[i] + (IF motors[i].active /\ motors[i].distance = 0 THEN 1 ELSE 0)]
    /\ UNCHANGED <<dir, away, aim>>

\* "reached end of axis"
EndOfAxis == /\ task \in {"align", "leave", "pass"} /\ i_step = AxisLength /\ task' = "failed"
             /\ UNCHANGED <<motors, i_step, seen, dir, away, aim, slips, pushes>>

-----------------------------------------------------------------------------
(* FindHomeRotaryEncoderHardstop, from where AlignSquare has ended *)

InReach(ms) == LET d == Abs(AngleInDirection(Angle(ms), aim.angle, Invert(ms[Reference(ms)], away))) IN 4 * d < Turn

TurnedBack(mi) == [mi EXCEPT !.on = TRUE, !.active = TRUE, !.servo_on = @ \/ mi.servo, !.dir = Invert(mi, away)]
LeaveStop ==
    /\ task = "aligned" /\ \E i \in All : motors[i].encoder
    /\ \E works \in 0..Len(motors) :
          /\ motors' = [i \in All |-> IF i <= works THEN TurnedBack(motors[i]) ELSE motors[i]]
          /\ IF works = Len(motors) THEN task' = "leave" /\ aim' \in [angle : 0..(Turn - 1), iteration : {0}, side : {0}]
             ELSE task' = "failed" /\ aim' = aim
    /\ i_step' = 0 /\ dir' = away
    /\ UNCHANGED <<seen, away, slips, pushes>>

Moved == [i \in All |-> Pulsed(motors[i], FALSE)]
\* Away until the angle is less than a quarter turn ahead.
Leave ==
    /\ task = "leave"
    /\ \/ InReach(motors) /\ task' = "turn" /\ UNCHANGED <<motors, i_step>>
       \/ ~InReach(motors) /\ i_step < AxisLength /\ motors' = Moved /\ i_step' = i_step + 1 /\ task' = task
    /\ UNCHANGED <<seen, dir, away, aim, slips, pushes>>
\* To and fro, each time past the angle.
TurnBack ==
    /\ task = "turn"
    /\ IF aim.iteration = Iterations THEN task' = "home" /\ UNCHANGED <<motors, dir, aim, i_step>>
       ELSE /\ dir' = IF aim.iteration % 2 = 0 THEN away ELSE -away
            /\ motors' = Directed(motors, dir')
            /\ aim' = [aim EXCEPT !.iteration = @ + 1, !.side = Side(motors)]
            /\ task' = "pass" /\ i_step' = 0
    /\ UNCHANGED <<seen, away, slips, pushes>>
Pass ==
    /\ task = "pass"
    /\ \/ Side(motors) # aim.side /\ task' = "turn" /\ UNCHANGED <<motors, i_step>>
       \/ Side(motors) = aim.side /\ i_step < AxisLength /\ motors' = Moved /\ i_step' = i_step + 1 /\ task' = task
    /\ UNCHANGED <<seen, dir, away, aim, slips, pushes>>

GantryInit ==
    /\ away \in {-1, 1}
    /\ \E kit \in Kits : \E at \in [DOMAIN kit -> Distances] : \E latched \in SUBSET DOMAIN kit :
          motors = [i \in DOMAIN kit |-> [distance |-> at[i], stalled |-> i \in latched, on |-> FALSE,
                       active |-> TRUE, servo_on |-> kit[i].servo, dir |-> 1, microsteps |-> 1] @@ kit[i]]
    /\ task = "idle" /\ i_step = 0 /\ dir = 1
    /\ seen = [i \in DOMAIN motors |-> Unseen(motors[i])]
    /\ aim = [angle |-> 0, iteration |-> 0, side |-> 0]
    /\ slips = 0 /\ pushes = [i \in DOMAIN motors |-> 0]

GantryNext == AlignSquare \/ Approach \/ EndOfAxis \/ LeaveStop \/ Leave \/ TurnBack \/ Pass

-----------------------------------------------------------------------------
(* Properties *)

\* However pulses, directions, microsteps and starts follow one another, the
\* servo's target and what is left make up what was asked for since the last
\* start; a change of the microsteps costs less than one of the new ones
\* (Step, ChangeMicrosteps, Enabled).
PulsesKept ==
    /\ emu.enabled => servo.target = emu.target
    /\ Abs(emu.remainder) < Denominator(emu.microsteps)
    /\ Abs(asked.units - Unit * (emu.target - asked.anchor)
             - emu.remainder * (Unit \div Denominator(emu.microsteps))) <= asked.lost
    /\ asked.changes = 0 => asked.lost = 0

\* What FindHomeEndstop returns is the way from the switch's far side to the
\* point where it opens: it never runs on into the switch.
EndstopOpened == homing \in {"clear", "done"} => carriage \in {-1, 0} /\ n_steps = -carriage

\* When AlignSquare returns, every side stands at the hard stop with its drive
\* off; no drive has pushed against it for longer than the stall detection takes.
Squared ==
    /\ task = "aligned" => \A i \in All : motors[i].distance = 0 /\ ~motors[i].on /\ ~motors[i].active
    /\ \A i \in All : pushes[i] <= (IF Armed(motors[i]) THEN Unchecked ELSE Unchecked + Window)
\* FindHomeRotaryEncoderHardstop leaves the bridge square, and less than a step
\* from the angle.
HomeFound ==
    task = "home" /\ Iterations > 0 =>
        /\ \A i, j \in All : motors[i].distance = motors[j].distance
        /\ Abs(AngleDifference(Angle(motors), aim.angle)) <= StepAngle
\* Motors that accept the microsteps of their group take the same steps, and
\* the directions of a gantry are those of its motors.
GroupAgrees ==
    task = "idle" =>
        /\ \A divider \in 1..4 : \A r \in {Microsteps(motors, 1, divider)} :
              r.ok => /\ \A i \in All : r.motors[i].fsr * r.motors[i].microsteps = FullStepResolution(motors) * divider
                      /\ GroupMicrosteps(r.motors) = divider
        /\ \A d \in {-1, 1} : GantryDirection(Directed(motors, d)) = d
        /\ State(motors) = "DISABLED"
        /\ HasStallDetector(motors) => \A s \in BOOLEAN : StallEnabled(Arm(motors, s)) = s
        /\ Stall(motors) = "CLEAR" => StallEnabled(motors)
GantryExact == Squared /\ HomeFound /\ GroupAgrees
=============================================================================
