------------------------------ MODULE Servo42D ------------------------------
(***************************************************************************)
(* dev_motor_servo42d: the servo of a Servo42D drive.  The user's fiber    *)
(* sets targets and switches the servo; a control fiber of the driver      *)
(* takes each target to the drive's motion controller and waits until it   *)
(* has been reached.  The fibers change hands wherever one of them waits   *)
(* for the bus or sleeps, and a call on the bus has its effect on the      *)
(* drive at some moment while its fiber waits.                             *)
(*                                                                         *)
(* An action is what a fiber does from the end of one such wait to the     *)
(* begin of the next.  The two writes of WorkMode are one wait.  The drive *)
(* is external.  Motion commands given past the servo are left out.        *)
(***************************************************************************)
EXTENDS Naturals, Sequences

CONSTANTS Targets,   \* positions the user asks for
          InOrder    \* whether calls on the bus take effect in the order in
                     \* which they began; TModBus has nothing that ensures it

ASSUME InOrderAssumption == InOrder \in BOOLEAN

VARIABLES
    servo_enabled, mc_enabled, vfoc_enabled, servo_target,
    bus_lax_response,  \* TModBus::lax_response
    user,          \* the call of the user's fiber that waits for the bus
    fiber,         \* fib_servo_control: its state
    at,            \* where in RunServoControlLoop it waits
    target,        \* ProcessServoTargets: target
    mc_prev,       \* ProcessServoTargets: mc_prev
    mode_write,       \* the WorkMode call of the control fiber
    bus,           \* who waits for the bus, in the order of begin
    bus_fails,     \* external: whether calls on the bus may throw
    drive          \* external: work mode, last position asked for, motion

servoVars == <<servo_enabled, mc_enabled, vfoc_enabled, servo_target, bus_lax_response,
          user, fiber, at, target, mc_prev, mode_write, bus, bus_fails, drive>>
ofControl == <<mc_enabled, target, mc_prev, mode_write, bus_fails>>
ofUser    == <<servo_enabled, vfoc_enabled, servo_target, user, bus_fails>>

\* UpdateWorkMode: the mode that the flags ask for.
Mode(servo, vfoc, mc) ==
    [controller |-> mc,
     loop |-> IF ~servo THEN "OPEN" ELSE IF vfoc THEN "VFOC" ELSE "CLOSE"]
Modes == [controller : BOOLEAN, loop : {"OPEN", "CLOSE", "VFOC"}]

\* A call of WorkMode: the mode it writes and the lax_response it puts back.
ModeCalls == [of : {"Enabled", "VFOC", "control"}, mode : Modes, lax : BOOLEAN]
None  == [of |-> "none"]

\* The drive takes a work mode.  Leaving the motion controller stops it.
TakesMode(mode) ==
    [drive EXCEPT !.mode = mode, !.motion = IF mode.controller THEN @ ELSE "IDLE"]

\* What a WorkMode call may do to the drive and whether it returns.  The drive
\* confirms it in a way that only lax_response accepts.
WritesMode(call, returns) ==
    IF returns THEN bus_lax_response /\ drive' = TakesMode(call.mode)
    ELSE \/ bus_fails /\ drive' = drive
         \/ (bus_fails \/ ~bus_lax_response) /\ drive' = TakesMode(call.mode)

\* The bus comes to the call of f.  At most two calls wait, one of each fiber.
Others(f) == IF bus = <<>> THEN <<>>
             ELSE IF Head(bus) = f THEN Tail(bus) ELSE <<Head(bus)>>
Served(f) == f \in {bus[i] : i \in DOMAIN bus} /\ (InOrder => Head(bus) = f)

-----------------------------------------------------------------------------
(* The user's fiber *)

\* WakeServoControlLoop: start or resume the control fiber if it is at rest.
AtRest == fiber \in {"CONSTRUCTED", "STOPPED"}
Wake(enabled) == fiber' = IF enabled /\ AtRest THEN "RUNNING" ELSE fiber

TargetPosition(t) ==
    /\ user = None
    /\ servo_target' = t
    /\ Wake(servo_enabled)
    /\ UNCHANGED <<ofControl, servo_enabled, vfoc_enabled, bus_lax_response, user, at, bus, drive>>

UserWrites_OldMode(of, servo, vfoc) ==  \* mutant: the mode before the flags
    /\ user = None
    /\ servo_enabled' = servo /\ vfoc_enabled' = vfoc
    /\ user' = [of |-> of, lax |-> bus_lax_response,
                mode |-> Mode(servo_enabled, vfoc_enabled, mc_enabled)]
    /\ bus_lax_response' = TRUE
    /\ bus' = Append(bus, "user")
    /\ UNCHANGED <<ofControl, servo_target, fiber, at, drive>>

\* New flags, and the write of the mode that follows from them begins.
UserWrites(of, servo, vfoc) ==
    /\ user = None
    /\ servo_enabled' = servo /\ vfoc_enabled' = vfoc
    /\ user' = [of |-> of, mode |-> Mode(servo, vfoc, mc_enabled), lax |-> bus_lax_response]
    /\ bus_lax_response' = TRUE
    /\ bus' = Append(bus, "user")
    /\ UNCHANGED <<ofControl, servo_target, fiber, at, drive>>

Enabled(b) == b # servo_enabled /\ UserWrites("Enabled", b, vfoc_enabled)
VFOC(b)    == UserWrites("VFOC", servo_enabled, b)

\* The write returns, and Enabled(true) wakes the control fiber; or it throws
\* out of the call.
UserReturns(returns) ==
    /\ Served("user") /\ bus' = Others("user")
    /\ WritesMode(user, returns)
    /\ Wake(returns /\ user.of = "Enabled" /\ user.mode.loop # "OPEN")
    /\ bus_lax_response' = user.lax
    /\ user' = None
    /\ UNCHANGED <<ofControl, servo_enabled, vfoc_enabled, servo_target, at>>

-----------------------------------------------------------------------------
(* The control fiber: how it goes on after a wait *)

\* TScopeExit of a WorkMode call that has ended.
Lax == IF mode_write = None THEN bus_lax_response ELSE mode_write.lax

WaitAt_LaxStays(wait) ==  \* mutant: WorkMode leaves lax_response as it is
    /\ at' = wait
    /\ bus' = IF wait = "sleep" THEN Others("control") ELSE Append(Others("control"), "control")
    /\ UNCHANGED <<fiber, mc_enabled, bus_lax_response, mode_write>>

WaitAt(wait) ==
    /\ at' = wait
    /\ bus_lax_response' = Lax
    /\ mode_write' = None
    /\ bus' = IF wait = "sleep" THEN Others("control") ELSE Append(Others("control"), "control")
    /\ UNCHANGED <<fiber, mc_enabled>>

\* TMotionController::Enabled with a new state.
Switch(mc, wait) ==
    /\ at' = wait
    /\ mc_enabled' = mc
    /\ mode_write' = [of |-> "control", mode |-> Mode(servo_enabled, vfoc_enabled, mc),
                   lax |-> Lax]
    /\ bus_lax_response' = TRUE
    /\ bus' = Append(Others("control"), "control")
    /\ fiber' = fiber

End(state) == /\ fiber' = state
              /\ at' = "start"
              /\ bus_lax_response' = Lax
              /\ mode_write' = None
              /\ bus' = Others("control")
              /\ mc_enabled' = mc_enabled

Unwind_NoRestore == End("CRASHED")  \* mutant: not restored on an exception

\* ProcessServoTargets ends by a return, or by an exception that ends the fiber.
\* In both cases restore_motion_controller runs.
Leave  == IF mc_enabled = mc_prev THEN End("STOPPED") ELSE Switch(mc_prev, "restore")
Unwind == IF mc_enabled = mc_prev THEN End("CRASHED") ELSE Switch(mc_prev, "unwind")

NextTarget == IF servo_enabled THEN target' = servo_target /\ WaitAt("before")
              ELSE target' = target /\ Leave

\* The inner loop, and what follows it.
Follow == IF servo_enabled /\ target # servo_target THEN NextTarget
          ELSE target' = target /\ WaitAt(IF servo_enabled THEN "poll" ELSE "disabled")

-----------------------------------------------------------------------------
(* The control fiber: its waits *)

BeginLoop_NoEnter ==  \* mutant: the motion controller is not switched on
    /\ fiber = "RUNNING" /\ at = "start"
    /\ IF ~servo_enabled THEN End("STOPPED") /\ UNCHANGED <<target, mc_prev>>
       ELSE mc_prev' = mc_enabled /\ NextTarget
    /\ UNCHANGED <<ofUser, drive>>

\* Started or resumed: RunServoControlLoop and the entry of ProcessServoTargets.
BeginLoop ==
    /\ fiber = "RUNNING" /\ at = "start"
    /\ IF ~servo_enabled THEN End("STOPPED") /\ UNCHANGED <<target, mc_prev>>
       ELSE /\ mc_prev' = mc_enabled
            /\ IF mc_enabled THEN NextTarget
               ELSE target' = target /\ Switch(TRUE, "enter")
    /\ UNCHANGED <<ofUser, drive>>

\* A wait for a WorkMode call ends.
Written(wait) == /\ at = wait /\ Served("control")
                 /\ WritesMode(mode_write, TRUE)
                 /\ UNCHANGED <<ofUser, mc_prev>>
Kept == target' = target

AfterEnter     == Written("enter") /\ NextTarget
AfterHalt      == Written("halt") /\ Switch(TRUE, "resume") /\ Kept
AfterResume    == Written("resume") /\ WaitAt("send") /\ Kept
AfterHaltOff   == Written("halt off") /\ Switch(TRUE, "resume off") /\ Kept
AfterResumeOff == Written("resume off") /\ Leave /\ Kept
AfterRestore   == Written("restore") /\ End("STOPPED") /\ Kept
AfterUnwind    == Written("unwind") /\ End("CRASHED") /\ Kept

\* A wait for TMotionController::State ends.
Read(wait) == at = wait /\ Served("control") /\ UNCHANGED <<ofUser, mc_prev, drive>>

AfterBefore ==
    /\ Read("before") /\ Kept
    /\ CASE drive.motion = "ERROR"  -> Unwind
         [] drive.motion = "ACTIVE" -> Switch(FALSE, "halt")
         [] drive.motion = "IDLE"   -> WaitAt("send")

AfterPoll ==
    /\ Read("poll") /\ Kept
    /\ CASE drive.motion = "ERROR"  -> Unwind
         [] drive.motion = "ACTIVE" -> WaitAt("sleep")
         [] drive.motion = "IDLE"   -> Leave

AfterSleep == at = "sleep" /\ Follow /\ UNCHANGED <<ofUser, mc_prev, drive>>


AfterDisabled ==
    /\ Read("disabled") /\ Kept
    /\ IF drive.motion = "ACTIVE" THEN Switch(FALSE, "halt off") ELSE Leave

\* SendServoTarget.  Outside the motion controller's modes the drive ignores it.
AfterSend ==
    /\ at = "send" /\ Served("control")
    /\ drive' = IF drive.mode.controller
                THEN [drive EXCEPT !.goal = target, !.motion = "ACTIVE"] ELSE drive
    /\ Follow
    /\ UNCHANGED <<ofUser, mc_prev>>

\* A call on the bus throws.
Fails ==
    /\ Served("control")
    /\ IF mode_write # None THEN WritesMode(mode_write, FALSE) ELSE bus_fails /\ drive' = drive
    /\ IF at \in {"restore", "unwind"} THEN End("CRASHED") ELSE Unwind
    /\ Kept
    /\ UNCHANGED <<ofUser, mc_prev>>

ControlStep ==
    \/ BeginLoop \/ AfterEnter \/ AfterBefore \/ AfterHalt \/ AfterResume \/ AfterSend
    \/ AfterPoll \/ AfterSleep \/ AfterDisabled \/ AfterHaltOff \/ AfterResumeOff
    \/ AfterRestore \/ AfterUnwind \/ Fails

-----------------------------------------------------------------------------
\* The drive reaches its goal or gets stuck.
Moved == /\ drive.motion = "ACTIVE"
         /\ \E m \in {"IDLE", "ERROR"} : drive' = [drive EXCEPT !.motion = m]
         /\ UNCHANGED <<ofUser, ofControl, fiber, at, bus_lax_response, bus>>

\* The constructor has written the mode and disabled the servo; without STEP
\* and DIR pins the motion controller is on.
ServoInit ==
    /\ servo_enabled = FALSE
    /\ mc_enabled \in BOOLEAN
    /\ vfoc_enabled = TRUE
    /\ servo_target \in Targets
    /\ bus_lax_response = FALSE
    /\ user = None
    /\ fiber = "CONSTRUCTED"
    /\ at = "start"
    /\ target = servo_target
    /\ mc_prev = mc_enabled
    /\ mode_write = None
    /\ bus = <<>>
    /\ bus_fails \in BOOLEAN
    /\ drive = [mode |-> Mode(servo_enabled, vfoc_enabled, mc_enabled),
                goal |-> servo_target, motion |-> "IDLE"]

ServoNext == \/ \E t \in Targets : TargetPosition(t)
        \/ \E b \in BOOLEAN : Enabled(b) \/ VFOC(b) \/ UserReturns(b)
        \/ ControlStep
        \/ Moved

ServoSpec == ServoInit /\ [][ServoNext]_servoVars

-----------------------------------------------------------------------------
(* Properties *)

Waits == {"start", "enter", "before", "halt", "resume", "send", "poll", "sleep",
          "disabled", "halt off", "resume off", "restore", "unwind"}
WriteWaits == {"enter", "halt", "resume", "halt off", "resume off", "restore", "unwind"}

\* Ranges, and what the waits of the control fiber imply.
ServoTypeOK ==
    /\ {servo_enabled, mc_enabled, vfoc_enabled, bus_lax_response, mc_prev} \subseteq BOOLEAN
    /\ {servo_target, target, drive.goal} \subseteq Targets
    /\ user \in ModeCalls \cup {None} /\ mode_write \in ModeCalls \cup {None}
    /\ fiber \in {"CONSTRUCTED", "RUNNING", "STOPPED", "CRASHED"}
    /\ at \in Waits /\ (fiber # "RUNNING" => at = "start")
    /\ (mode_write # None) = (at \in WriteWaits)
    /\ ("user" \in {bus[i] : i \in DOMAIN bus}) = (user # None)
    /\ ("control" \in {bus[i] : i \in DOMAIN bus}) = (at \notin {"start", "sleep"})
    /\ Len(bus) <= 2
    /\ drive.mode \in Modes /\ drive.motion \in {"IDLE", "ACTIVE", "ERROR"}

\* However the control fiber ends or rests, mc_enabled is what it was before
\* (restore_motion_controller).
ControllerRestored == fiber # "RUNNING" => mc_enabled = mc_prev

\* As long as no call fails, the drive is in the mode that the flags ask for
\* whenever nobody is changing it (UpdateWorkMode after each change of a flag).
ModeMatchesFlags ==
    ~bus_fails /\ user = None /\ mode_write = None
        => drive.mode = Mode(servo_enabled, vfoc_enabled, mc_enabled)

\* Both, however user and control fiber interleave.
ServoConsistent == ControllerRestored /\ ModeMatchesFlags

\* A target set while the control fiber rests reaches the drive, unless another
\* one replaces it, the servo is switched off, or the control fiber dies.
Woken(t) == servo_enabled /\ servo_target = t /\ fiber = "RUNNING" /\ at = "start"
Sent(t) == drive.goal = t \/ servo_target # t \/ ~servo_enabled \/ fiber = "CRASHED"
=============================================================================
