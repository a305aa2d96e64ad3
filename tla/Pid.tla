-------------------------------- MODULE Pid --------------------------------
(***************************************************************************)
(* The PID controller of actuator/pid.c and its renderer render_pid.c.     *)
(* Each millisecond the position is read, a setpoint is turned into an     *)
(* angle in the calibrated range, and the controller computes the power of *)
(* the motor.  Both dead bands keep an old value while the new one is      *)
(* nearer than the noise.                                                  *)
(*                                                                         *)
(* Floats are integers, in units of the noise, or NaN or an infinity; a    *)
(* finite value above Cap overflows.  The gains come from the master and   *)
(* are any float; positions are finite.                                    *)
(***************************************************************************)
EXTENDS Integers

CONSTANTS
    PwmLimit,   \* 127
    Noise,      \* 0.01 rad
    Cap,        \* the largest finite float
    MaxPos,     \* the largest position
    Percent,    \* 0xffff, the largest setpoint
    Gains,      \* the gains SETPID may send: <<kp, ki, kd>>, any floats
    IsSpine     \* the spine's motor is mounted the other way round

ASSUME PidAssumption ==
    /\ PwmLimit \in Nat \ {0} /\ Noise \in Nat /\ MaxPos \in Nat \ {0}
    /\ Cap \in Nat /\ Cap > PwmLimit + MaxPos
    /\ Percent \in Nat \ {0} /\ IsSpine \in BOOLEAN

\* A finite number, or the sign of an infinity.
Float == [kind : {"finite", "inf", "nan"}, v : Int]

ASSUME GainsAssumption == Gains \subseteq Float \X Float \X Float

VARIABLES
    coeff,          \* <<kp, ki, kd>>, ki and kd scaled by the frequency
    target,         \* pid.setpoint
    lasterr,        \* pid.lasterr
    integral,       \* pid.integral
    rdpos,          \* rdp->pos
    upper,          \* MD1.hibound
    output,         \* what pidUpdate returned last
    seen            \* history: position and angle of the last millisecond

pidVars == <<coeff, target, lasterr, integral, rdpos, upper, output, seen>>

(***************************************************************************)
(* Floats                                                                  *)
(***************************************************************************)

Abs(x) == IF x < 0 THEN -x ELSE x
Sign(x) == IF x < 0 THEN -1 ELSE IF x > 0 THEN 1 ELSE 0

Fin(x) == [kind |-> "finite", v |-> x]
Inf(sign) == [kind |-> "inf", v |-> sign]
NaN == [kind |-> "nan", v |-> 0]

Rounded(x) == IF Abs(x) > Cap THEN Inf(Sign(x)) ELSE Fin(x)

IsFinite(f) == f.kind = "finite"

Plus(f, g) ==
    IF IsFinite(f) /\ IsFinite(g) THEN Rounded(f.v + g.v)
    ELSE IF f = NaN \/ g = NaN \/ (f.kind = g.kind /\ f.v # g.v) THEN NaN
    ELSE IF IsFinite(f) THEN g ELSE f

Times(f, g) ==
    IF IsFinite(f) /\ IsFinite(g) THEN Rounded(f.v * g.v)
    ELSE IF f = NaN \/ g = NaN \/ Sign(f.v) * Sign(g.v) = 0 THEN NaN
    ELSE Inf(Sign(f.v) * Sign(g.v))

\* Comparisons with NaN are false.
Above(f, x) == f # NaN /\ (IF IsFinite(f) THEN f.v > x ELSE f.v > 0)
Below(f, x) == f # NaN /\ (IF IsFinite(f) THEN f.v < x ELSE f.v < 0)

\* Mutant: does not look for values that are no number.
LimitedFinite(f) ==
    IF Above(f, PwmLimit) THEN Fin(PwmLimit)
    ELSE IF Below(f, -PwmLimit) THEN Fin(-PwmLimit) ELSE f

\* Mutant: the integral winds up.
Unlimited(f) == f

\* The bounds of the integral and of the output.
Limited(f) ==
    IF Above(f, PwmLimit) THEN Fin(PwmLimit)
    ELSE IF Below(f, -PwmLimit) THEN Fin(-PwmLimit)
    ELSE IF IsFinite(f) THEN f ELSE Fin(0)

(***************************************************************************)
(* The renderer                                                            *)
(***************************************************************************)

\* Mutant: the dead band is measured from the reading before.
FromLastReading(old, new) ==
    IF Abs(seen.pos - new) > Noise THEN new ELSE old

\* "save new position if moved more the noise"
Moved(old, new) == IF Abs(old - new) > Noise THEN new ELSE old

\* "limit noise", in pidSetpoint; positions and setpoints are finite.
Retargeted(old, new) == IF Abs(new - old) > Noise THEN new ELSE old

\* "use 5% high and lowmargin", of the range up to the bound hi.
AngleOf(setpoint, hi) ==
    LET s == IF IsSpine THEN Percent - setpoint ELSE setpoint
        angle == ((18 * s + Percent) * hi) \div (20 * Percent) IN
    IF angle < Noise THEN 0 ELSE angle

\* motorCPosition widens the range.
Widened(p) == IF p > upper THEN p ELSE upper

\* Reset of rdReset: the motion starts where the arm is.
PidReset(p) ==
    /\ lasterr' = 0 /\ integral' = 0
    /\ target' = p /\ rdpos' = p
    /\ upper' = Widened(p)
    /\ seen' = [pos |-> p, angle |-> p]
    /\ UNCHANGED <<coeff, output>>

\* will_render, render and pidUpdate of one millisecond.
PidRender(p, setpoint) ==
    LET error == target' - rdpos' IN
    /\ upper' = Widened(p)
    /\ rdpos' = Moved(rdpos, p)
    /\ target' = Retargeted(target, AngleOf(setpoint, upper'))
    /\ integral' = Limited(Fin(integral + error)).v
    /\ lasterr' = error
    /\ output' = Limited(Plus(Plus(Times(coeff[1], Fin(error)), Times(coeff[2], Fin(integral'))),
                              Times(coeff[3], Fin(error - lasterr))))
    /\ seen' = [pos |-> p, angle |-> AngleOf(setpoint, upper')]
    /\ UNCHANGED coeff

\* pidrdSetCoeff, locked against pidUpdate.
SetCoeff ==
    /\ coeff' \in Gains
    /\ UNCHANGED <<target, lasterr, integral, rdpos, upper, output, seen>>

(***************************************************************************)
(* Specification                                                           *)
(***************************************************************************)

\* After pidrdStart, with some calibrated range: the position is 0 until the
\* first motion resets the renderer.
PidInit ==
    /\ coeff \in Gains /\ \A c \in {1, 2, 3} : IsFinite(coeff[c])
    /\ lasterr = 0 /\ integral = 0
    /\ upper \in {MaxPos - 1, MaxPos}
    /\ rdpos = 0
    /\ \E p \in {0, upper} : target = p /\ seen = [pos |-> 0, angle |-> p]
    /\ output = Fin(0)

PidNext ==
    \/ \E p \in 0 .. MaxPos : PidReset(p) \/ \E s \in 0 .. Percent : PidRender(p, s)
    \/ SetCoeff

PidSpec == PidInit /\ [][PidNext]_pidVars

(***************************************************************************)
(* Properties                                                              *)
(***************************************************************************)

PidTypeOK ==
    /\ target \in 0 .. MaxPos /\ rdpos \in 0 .. MaxPos /\ upper \in 0 .. MaxPos
    /\ integral \in -PwmLimit .. PwmLimit /\ lasterr \in -MaxPos .. MaxPos

\* Whatever gains the master sends - not a number, infinite, or so large that
\* products overflow or cancel - the power is a number in the range of the
\* int8_t it is converted to (pid.c:72-107, render_pid.c:61).
OutputDefined == IsFinite(output) /\ Abs(output.v) <= PwmLimit

\* The two dead bands do not add up over time: the error the controller works
\* with is never farther from the true one than both together, however slowly
\* the arm creeps or the setpoint changes (pid.c:53-57, render_pid.c:33-36).
ErrorWithinNoise ==
    Abs((target - rdpos) - (seen.angle - seen.pos)) <= 2 * Noise
=============================================================================
