----------------------------- MODULE PulseStep -----------------------------
(***************************************************************************)
(* The pulse-step renderer of the purr motor, actuator/render_ps.c.  A     *)
(* setpoint is two bytes: for how many milliseconds to pulse at full power *)
(* when the setpoint changes, and the power, the step, to hold after that. *)
(* The step is an int8_t in the union, but the previous step is kept in a  *)
(* uint8_t and compared with the new one as it is.                         *)
(***************************************************************************)
EXTENDS Integers

CONSTANTS
    MaxPwm,         \* 127, the largest int8_t
    MaxDuration     \* 255, the longest pulse

ASSUME PulsePwmAssumption == MaxPwm \in Nat \ {0}
ASSUME PulseAssumption == MaxDuration \in Nat

Int8 == (-MaxPwm - 1) .. MaxPwm
Pulse == 0 .. MaxDuration

VARIABLES
    ps_setpoint,    \* the setpoint rendered last: [pulse_duration, step]
    pulse_duration, \* milliseconds of the pulse left
    pulse_pwm,      \* the power of the pulse
    rendered,       \* what render returned last
    age,            \* history: milliseconds rendered since the setpoint changed
    prev            \* history: the step before it changed

pulseVars == <<ps_setpoint, pulse_duration, pulse_pwm, rendered, age, prev>>

ps_setpoint_t == [pulse_duration : Pulse, step : Int8]

\* psrdObjectInit: a first setpoint of two zero bytes is no change.
PulseInit ==
    /\ ps_setpoint = [pulse_duration |-> 0, step |-> 0]
    /\ pulse_duration = 0 /\ pulse_pwm = 0 /\ rendered = 0
    /\ age = 0 /\ prev = 0

\* uint8_t prev_step.
Unsigned(step) == IF step < 0 THEN step + 2 * (MaxPwm + 1) ELSE step

\* Mutant: the previous step is read after the update.
PulsePwmAfter(sp) == -MaxPwm

\* "set pulse magnitude and direction"
PulsePwm(sp) == IF Unsigned(ps_setpoint.step) < sp.step THEN MaxPwm ELSE -MaxPwm

\* Mutant: a setpoint that changes during a pulse does not start another.
DurationUnlessPulsing(sp) == IF pulse_duration > 0 THEN pulse_duration ELSE sp.pulse_duration

DurationOf(sp) == sp.pulse_duration

Least(x, y) == IF x < y THEN x ELSE y

\* Called each millisecond with the setpoint of the moment.
render(sp) ==
    LET changed == sp # ps_setpoint
        left == IF changed THEN DurationOf(sp) ELSE pulse_duration
        power == IF changed THEN PulsePwm(sp) ELSE pulse_pwm IN
    /\ ps_setpoint' = sp
    /\ pulse_pwm' = power
    /\ rendered' = IF left > 0 THEN power ELSE sp.step
    /\ pulse_duration' = IF left > 0 THEN left - 1 ELSE 0
    /\ age' = IF changed THEN 1 ELSE Least(age + 1, MaxDuration + 1)
    /\ prev' = IF changed THEN ps_setpoint.step ELSE prev

PulseNext == \E sp \in ps_setpoint_t : render(sp)

PulseSpec == PulseInit /\ [][PulseNext]_pulseVars

(***************************************************************************)
(* Properties                                                              *)
(***************************************************************************)

PulseTypeOK ==
    /\ ps_setpoint \in ps_setpoint_t
    /\ pulse_duration \in Pulse /\ pulse_pwm \in {-MaxPwm, 0, MaxPwm} /\ rendered \in Int8
    /\ age \in 0 .. MaxDuration + 1 /\ prev \in Int8

\* Each change of the setpoint is rendered as a full-power pulse of exactly its
\* duration, also when it interrupts the pulse before, and from then on as its
\* step (render_ps.c:34-55).
PulseThenStep ==
    /\ age > ps_setpoint.pulse_duration => pulse_duration = 0 /\ rendered = ps_setpoint.step
    /\ age \in 1 .. ps_setpoint.pulse_duration =>
           /\ pulse_duration = ps_setpoint.pulse_duration - age
           /\ rendered \in {-MaxPwm, MaxPwm}

\* The pulse pushes the motor toward the new step, unless the step before was
\* negative, which is always taken for the larger one (render_ps.c:35-47).
PulseTowardStep ==
    age \in 1 .. ps_setpoint.pulse_duration =>
        (rendered > 0 <=> prev >= 0 /\ ps_setpoint.step > prev)
=============================================================================
