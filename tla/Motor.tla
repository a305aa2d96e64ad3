------------------------------- MODULE Motor -------------------------------
(***************************************************************************)
(* The motor output of actuator/motor.c: motorSetI turns a signed PWM      *)
(* value into the enable pin and two PWM channels of an H-bridge, and      *)
(* writes only what its record of the last value says must change.         *)
(*                                                                         *)
(* The system is locked meanwhile, so calls do not interleave, but the     *)
(* bridge sees every write: each is an action.  (A PWM unit that delays a  *)
(* new width to the end of its period shows the bridge fewer states, not   *)
(* others, because calls are a millisecond apart and a period is 7.3 us.)  *)
(***************************************************************************)
EXTENDS Integers

CONSTANTS
    MaxPwm,    \* 127, the largest int8_t
    Period     \* pwmcfg.period: 306, or 207 for the purr motor

ASSUME MaxPwmAssumption == MaxPwm \in Nat \ {0}
ASSUME PeriodAssumption == Period \in Nat /\ Period >= MaxPwm

Int8 == (-MaxPwm - 1) .. MaxPwm

\* "minimum PWM to move motor"
pwmoffset == Period - MaxPwm

Channel == {0, 1}

VARIABLES
    pwmstate,   \* last PWM value
    p,          \* the value being set
    wpc,         \* the next write of motorSetI
    en,         \* level of the pin GPIOB_MOTOR_EN, 0 or 1
    width       \* pulse width of each channel, 0 when disabled

motorVars == <<pwmstate, p, wpc, en, width>>

\* After motorInit and motorStart.
MotorInit ==
    /\ pwmstate = 0 /\ p = 0
    /\ wpc = "idle"
    /\ en = 0
    /\ width = [c \in Channel |-> 0]

(***************************************************************************)
(* motorSetI                                                               *)
(***************************************************************************)

Magnitude(x) == IF x < 0 THEN -x ELSE x

\* The channel that turns the motor in the direction of x, and the other one.
Driven(x) == IF x > 0 THEN 0 ELSE 1
Released(x) == 1 - Driven(x)

\* Mutant: -128 keeps its magnitude.
NotClamped(x) == x

\* "input is restricted to [-128, 127] by data type"
Clamped(x) == IF x = -MaxPwm - 1 THEN -MaxPwm ELSE x

\* Mutant: a motor at rest has no direction to leave.
NewdirOnlyAtRest(x) == pwmstate = 0

\* "new direction when signs don't match"
Newdir(x) == pwmstate = 0 \/ (pwmstate < 0) # (x < 0)

WriteWidth(channel, w) == width' = [width EXCEPT ![channel] = w]

Call(x) ==
    /\ wpc = "idle"
    /\ p' = x
    /\ \/ x = pwmstate /\ wpc' = "idle"
       \/ x # pwmstate /\ x = 0 /\ wpc' = "disable"
       \/ x # pwmstate /\ x > 0 /\ wpc' = "drive"
       \/ x # pwmstate /\ x < 0 /\ wpc' = IF Newdir(x) THEN "release" ELSE "drive"
    /\ UNCHANGED <<pwmstate, en, width>>

motorSetI == \E x \in Int8 : Call(Clamped(x))

\* The next write; after the last one, "update state".
Go(next) ==
    /\ wpc' = next
    /\ pwmstate' = IF next = "idle" THEN p ELSE pwmstate
    /\ UNCHANGED p

\* Mutant: clears the first channel before it disables the motor.
Clear0KeepsEnabled ==
    \/ wpc = "disable" /\ WriteWidth(0, 0) /\ Go("clear0") /\ UNCHANGED en
    \/ wpc = "clear0" /\ en' = 0 /\ Go("clear1") /\ UNCHANGED width

\* p = 0: disable the motor, then both channels.
DisableMotor ==
    \/ wpc = "disable" /\ en' = 0 /\ Go("clear0") /\ UNCHANGED width
    \/ wpc = "clear0" /\ WriteWidth(0, 0) /\ Go("clear1") /\ UNCHANGED en

Clear1 == wpc = "clear1" /\ WriteWidth(1, 0) /\ Go("idle") /\ UNCHANGED en

\* A motor at rest is enabled after its channel is driven.
StartIfStopped == Go(IF pwmstate = 0 THEN "start" ELSE "idle")

Drive ==
    /\ wpc = "drive"
    /\ WriteWidth(Driven(p), pwmoffset + Magnitude(p))
    /\ IF p > 0 /\ Newdir(p) THEN Go("release") ELSE StartIfStopped
    /\ UNCHANGED en

\* Forwards the old channel is released after the new one is driven,
\* backwards before.
Release ==
    /\ wpc = "release"
    /\ WriteWidth(Released(p), 0)
    /\ IF p < 0 THEN Go("drive") ELSE StartIfStopped
    /\ UNCHANGED en

Start == wpc = "start" /\ en' = 1 /\ Go("idle") /\ UNCHANGED width

MotorNext == motorSetI \/ DisableMotor \/ Clear1 \/ Drive \/ Release \/ Start

MotorSpec == MotorInit /\ [][MotorNext]_motorVars

(***************************************************************************)
(* Properties                                                              *)
(***************************************************************************)

MotorTypeOK ==
    /\ pwmstate \in -MaxPwm .. MaxPwm
    /\ p \in -MaxPwm .. MaxPwm
    /\ wpc \in {"idle", "disable", "clear0", "clear1", "drive", "release", "start"}
    /\ en \in {0, 1}
    /\ width \in [Channel -> Nat]

\* The channel widths that stand for the value x.
WidthsOf(x) ==
    [c \in Channel |->
        IF x # 0 /\ c = Driven(x) THEN pwmoffset + Magnitude(x) ELSE 0]

EnableOf(x) == IF x = 0 THEN 0 ELSE 1

\* Between calls the pins are what the last value asks for, as if they were
\* all written anew, although motorSetI writes only the differences
\* (motor.c:355-377): nothing it skips was needed.
OutputIsLastValue ==
    wpc = "idle" => width = WidthsOf(pwmstate) /\ en = EnableOf(pwmstate)

\* While the motor is enabled the bridge sees the old value, the new one, both
\* channels when turning forwards (drive, then release) or neither when turning
\* backwards (release, then drive): never a new width on the old channel, a
\* stop that cuts one channel first, or a start with nothing driven
\* (motor.c:347-377).
OnlyTurningGlitches ==
    en = 1 =>
       \/ width = WidthsOf(pwmstate)
       \/ p # 0 /\ width = WidthsOf(p)
       \/ /\ pwmstate < 0 /\ p > 0
          /\ \A c \in Channel : width[c] \in {WidthsOf(pwmstate)[c], WidthsOf(p)[c]} \ {0}
       \/ /\ pwmstate > 0 /\ p < 0
          /\ width = WidthsOf(0)

\* No pulse is longer than the period, where the channel would stay on and the
\* value after it would look the same: int8_t has one more negative value than
\* pwmoffset leaves room for (motor.c:83-91,341-343).
PulseFitsPeriod == \A c \in Channel : width[c] <= Period
=============================================================================
