---------------------------- MODULE RenderProofs ----------------------------
(***************************************************************************)
(* The renderers keep their promises: the pulse-step one for every width   *)
(* of the step and every longest pulse, the PID one for every precision of *)
(* the floats, every noise and any gains; and SMOOTH, which makes the      *)
(* setpoints of a motion, for every time, interval and range.              *)
(***************************************************************************)
EXTENDS PulseStep, Pid, Smooth, TLAPS

(***************************************************************************)
(* Pulse and step                                                          *)
(***************************************************************************)

\* Before the first change nothing moves.
Fresh ==
    age = 0 => /\ ps_setpoint.pulse_duration = 0 /\ ps_setpoint.step = 0
               /\ pulse_duration = 0 /\ pulse_pwm = 0 /\ prev = 0

\* The power of the pulse goes with the setpoint, not with the pulse left: it
\* must be right before it is rendered.
PowerOfSetpoint ==
    age > 0 => /\ ps_setpoint.pulse_duration > 0 => pulse_pwm # 0
               /\ pulse_pwm > 0 <=> (prev >= 0 /\ ps_setpoint.step > prev)

Rendered == age \in 1 .. ps_setpoint.pulse_duration => rendered = pulse_pwm

PulseInv == PulseTypeOK /\ PulseThenStep /\ Fresh /\ PowerOfSetpoint /\ Rendered

USE PulsePwmAssumption, PulseAssumption

LEMMA PulseStarts == PulseInit => PulseInv
BY DEF PulseInit, PulseInv, PulseTypeOK, PulseThenStep, Fresh, PowerOfSetpoint, Rendered,
       ps_setpoint_t, Pulse, Int8

\* A negative previous step is larger than any step once it is unsigned.
LEMMA PowerOfChange ==
    ASSUME NEW sp \in ps_setpoint_t, PulseTypeOK
    PROVE  /\ PulsePwm(sp) \in {-MaxPwm, MaxPwm}
           /\ PulsePwm(sp) > 0 <=> (ps_setpoint.step >= 0 /\ sp.step > ps_setpoint.step)
BY DEF PulsePwm, Unsigned, PulseTypeOK, ps_setpoint_t, Int8

LEMMA PulseMoves == PulseInv /\ [PulseNext]_pulseVars => PulseInv'
<1> SUFFICES ASSUME PulseInv, [PulseNext]_pulseVars PROVE PulseInv'
  OBVIOUS
<1> USE DEF PulseInv
<1>1. CASE UNCHANGED pulseVars
  BY <1>1 DEF pulseVars, PulseTypeOK, PulseThenStep, Fresh, PowerOfSetpoint, Rendered
<1>2. CASE PulseNext
  <2>1. PICK sp \in ps_setpoint_t : render(sp)
    BY <1>2 DEF PulseNext
  <2>2. /\ sp.pulse_duration \in 0 .. MaxDuration /\ sp.step \in Int8
        /\ ps_setpoint.pulse_duration \in 0 .. MaxDuration /\ ps_setpoint.step \in Int8
        /\ pulse_duration \in 0 .. MaxDuration /\ pulse_pwm \in {-MaxPwm, 0, MaxPwm}
        /\ age \in 0 .. MaxDuration + 1 /\ prev \in Int8
    BY DEF PulseTypeOK, ps_setpoint_t, Pulse
  <2>3. ps_setpoint' = sp
    BY <2>1 DEF render
  <2>4. CASE sp # ps_setpoint
    <3>1. /\ pulse_pwm' = PulsePwm(sp) /\ age' = 1 /\ prev' = ps_setpoint.step
          /\ rendered' = IF sp.pulse_duration > 0 THEN PulsePwm(sp) ELSE sp.step
          /\ pulse_duration' = IF sp.pulse_duration > 0 THEN sp.pulse_duration - 1 ELSE 0
      BY <2>1, <2>4 DEF render, DurationOf
    <3>2. /\ PulsePwm(sp) \in {-MaxPwm, MaxPwm}
          /\ PulsePwm(sp) > 0 <=> (ps_setpoint.step >= 0 /\ sp.step > ps_setpoint.step)
      BY PowerOfChange
    <3> QED
      BY <2>2, <2>3, <3>1, <3>2
      DEF PulseTypeOK, PulseThenStep, Fresh, PowerOfSetpoint, Rendered, Pulse, Int8
  <2>5. CASE sp = ps_setpoint
    <3>1. /\ pulse_pwm' = pulse_pwm /\ prev' = prev
          /\ age' = IF age + 1 < MaxDuration + 1 THEN age + 1 ELSE MaxDuration + 1
          /\ rendered' = IF pulse_duration > 0 THEN pulse_pwm ELSE sp.step
          /\ pulse_duration' = IF pulse_duration > 0 THEN pulse_duration - 1 ELSE 0
      BY <2>1, <2>5 DEF render, Least
    <3>2. PulseTypeOK'
      BY <2>2, <2>3, <3>1 DEF PulseTypeOK, Pulse, Int8
    <3>3. Fresh' /\ PowerOfSetpoint' /\ age' > 0
      BY <2>2, <2>3, <2>5, <3>1 DEF Fresh, PowerOfSetpoint
    <3>4. ASSUME age < sp.pulse_duration PROVE (PulseThenStep /\ Rendered)'
      <4>1. age' = age + 1 /\ age > 0
        BY <2>2, <2>5, <3>1, <3>4 DEF Fresh
      <4>2. pulse_duration = sp.pulse_duration - age /\ pulse_pwm \in {-MaxPwm, MaxPwm}
        BY <2>2, <2>5, <3>4, <4>1 DEF PulseThenStep, PowerOfSetpoint
      <4> QED
        BY <2>2, <2>3, <3>1, <3>4, <4>1, <4>2 DEF PulseThenStep, Rendered
    <3>5. ASSUME age >= sp.pulse_duration PROVE (PulseThenStep /\ Rendered)'
      <4>1. pulse_duration = 0
        BY <2>2, <2>5, <3>5 DEF PulseThenStep, Fresh
      <4>2. age' > sp.pulse_duration
        BY <2>2, <3>1, <3>5
      <4> QED
        BY <2>2, <2>3, <3>1, <4>1, <4>2 DEF PulseThenStep, Rendered
    <3> QED
      BY <2>2, <3>2, <3>3, <3>4, <3>5
  <2> QED
    BY <2>4, <2>5
<1> QED
  BY <1>1, <1>2

LEMMA PulseAlways == PulseSpec => []PulseInv
BY PulseStarts, PulseMoves, PTL DEF PulseSpec

\* The renderer's state stays in its types: the power fits an int8_t.
THEOREM PulseTypeCorrect == PulseSpec => []PulseTypeOK
<1>1. PulseInv => PulseTypeOK
  BY DEF PulseInv
<1> QED
  BY PulseAlways, <1>1, PTL

\* Every change of the setpoint is rendered as a pulse of exactly its duration
\* and from then on as its step, however setpoints interrupt one another.
THEOREM PulsesThenSteps == PulseSpec => []PulseThenStep
<1>1. PulseInv => PulseThenStep
  BY DEF PulseInv
<1> QED
  BY PulseAlways, <1>1, PTL

\* The pulse pushes toward the new step exactly when the step before was not
\* negative: what the unsigned copy of it amounts to.
THEOREM PulsesPushToward == PulseSpec => []PulseTowardStep
<1>1. PulseInv => PulseTowardStep
  BY DEF PulseInv, PulseTowardStep, PowerOfSetpoint, Rendered, PulseTypeOK, ps_setpoint_t, Pulse
<1> QED
  BY PulseAlways, <1>1, PTL

(***************************************************************************)
(* PID                                                                     *)
(***************************************************************************)

\* Each dead band alone keeps within the noise of what it stands for.
WithinBands ==
    /\ seen \in [pos : Int, angle : Int]
    /\ Abs(target - seen.angle) <= Noise
    /\ Abs(rdpos - seen.pos) <= Noise

PidInv == PidTypeOK /\ coeff \in Float \X Float \X Float /\ OutputDefined /\ WithinBands

USE PidAssumption, GainsAssumption

LEMMA RoundedType ==
    ASSUME NEW x \in Int
    PROVE  Rounded(x) \in Float
BY DEF Rounded, Abs, Sign, Inf, Fin, Float

LEMMA PlusType ==
    ASSUME NEW f \in Float, NEW g \in Float
    PROVE  Plus(f, g) \in Float
<1>1. f.v + g.v \in Int
  BY DEF Float
<1>2. Rounded(f.v + g.v) \in Float /\ NaN \in Float
  BY <1>1, RoundedType DEF NaN, Float
<1> QED
  BY <1>2 DEF Plus

LEMMA TimesType ==
    ASSUME NEW f \in Float, NEW g \in Float
    PROVE  Times(f, g) \in Float
<1>1. f.v * g.v \in Int
  BY DEF Float
<1>2. Sign(f.v) * Sign(g.v) \in Int
  BY DEF Float, Sign
<1>3. Sign(Sign(f.v) * Sign(g.v)) \in Int
  BY <1>2 DEF Sign
<1>4. Rounded(f.v * g.v) \in Float /\ NaN \in Float
  BY <1>1, RoundedType DEF NaN, Float
<1>5. Inf(Sign(f.v) * Sign(g.v)) \in Float
  BY <1>2 DEF Inf, Float
<1> QED
  BY <1>4, <1>5 DEF Times

\* Whatever the float, the limits leave a number between them.
LEMMA LimitedRange ==
    ASSUME NEW f \in Float
    PROVE  IsFinite(Limited(f)) /\ Limited(f).v \in -PwmLimit .. PwmLimit
<1>1. CASE f.kind = "finite"
  <2>1. f # NaN /\ f.v \in Int
    BY <1>1 DEF NaN, Float
  <2> QED
    BY <1>1, <2>1 DEF Limited, Above, Below, IsFinite, Fin
<1>2. CASE f.kind # "finite"
  BY <1>2 DEF Limited, Above, Below, IsFinite, Fin
<1> QED
  BY <1>1, <1>2

(***************************************************************************)
(* Positions                                                               *)
(***************************************************************************)

LEMMA ShareOf ==
    ASSUME NEW a \in Nat, NEW b \in Nat \ {0}, NEW hi \in Nat, a <= b
    PROVE  (a * hi) \div b \in 0 .. hi
<1> DEFINE q == (a * hi) \div b
<1>1. a * hi \in Nat /\ b * hi \in Nat /\ a * hi <= b * hi
  OBVIOUS
<1>2. q \in Nat /\ b * q <= a * hi
  BY <1>1
<1>3. b * q <= b * hi
  BY <1>1, <1>2
<1>4. q <= hi
  <2>1. CASE q >= hi + 1
    <3>1. b * q >= b * (hi + 1)
      BY <1>2, <2>1
    <3>2. b * (hi + 1) = b * hi + b
      OBVIOUS
    <3> QED
      BY <1>1, <1>2, <1>3, <3>1, <3>2
  <2> QED
    BY <1>2, <2>1
<1> QED
  BY <1>2, <1>4

LEMMA AngleInRange ==
    ASSUME NEW setpoint \in 0 .. Percent, NEW hi \in Nat
    PROVE  AngleOf(setpoint, hi) \in 0 .. hi
<1> DEFINE s == IF IsSpine THEN Percent - setpoint ELSE setpoint
<1>1. /\ 18 * s + Percent \in Nat /\ 20 * Percent \in Nat \ {0}
      /\ 18 * s + Percent <= 20 * Percent
  OBVIOUS
<1>2. ((18 * s + Percent) * hi) \div (20 * Percent) \in 0 .. hi
  BY <1>1, ShareOf
<1> QED
  BY <1>2 DEF AngleOf

\* Both dead bands: old or new, and near the new one.
LEMMA DeadBand ==
    ASSUME NEW old \in 0 .. MaxPos, NEW new \in 0 .. MaxPos
    PROVE  /\ Moved(old, new) \in 0 .. MaxPos
           /\ Retargeted(old, new) \in 0 .. MaxPos
           /\ Abs(Moved(old, new) - new) <= Noise
           /\ Abs(Retargeted(old, new) - new) <= Noise
BY DEF Moved, Retargeted, Abs

(***************************************************************************)
(* The invariant                                                           *)
(***************************************************************************)

LEMMA PidStarts == PidInit => PidInv
<1> SUFFICES ASSUME PidInit PROVE PidInv
  OBVIOUS
<1>1. coeff \in Float \X Float \X Float
  BY DEF PidInit
<1>2. PidTypeOK
  BY DEF PidInit, PidTypeOK
<1>3. OutputDefined
  BY DEF PidInit, OutputDefined, IsFinite, Fin, Abs
<1>4. WithinBands
  BY DEF PidInit, WithinBands, Abs
<1> QED
  BY <1>1, <1>2, <1>3, <1>4 DEF PidInv

LEMMA PidResetKeeps ==
    ASSUME PidInv, NEW p \in 0 .. MaxPos, PidReset(p)
    PROVE  PidInv'
<1> USE DEF PidInv, PidReset
<1>1. PidTypeOK'
  BY DEF PidTypeOK, Widened
<1>2. WithinBands'
  BY DEF WithinBands, Abs
<1>3. OutputDefined'
  BY DEF OutputDefined
<1> QED
  BY <1>1, <1>2, <1>3

LEMMA PidRenderKeeps ==
    ASSUME PidInv, NEW p \in 0 .. MaxPos, NEW s \in 0 .. Percent, PidRender(p, s)
    PROVE  PidInv'
<1> USE DEF PidInv
<1> DEFINE a == AngleOf(s, upper')
<1>1. upper' \in 0 .. MaxPos
  BY DEF PidRender, Widened, PidTypeOK
<1>2. a \in 0 .. MaxPos
  <2>1. a \in 0 .. upper'
    BY <1>1, AngleInRange
  <2> QED
    BY <1>1, <2>1
<1>3. /\ rdpos' \in 0 .. MaxPos /\ Abs(rdpos' - p) <= Noise
      /\ target' \in 0 .. MaxPos /\ Abs(target' - a) <= Noise
  <2>1. target \in 0 .. MaxPos /\ rdpos \in 0 .. MaxPos
    BY DEF PidTypeOK
  <2>2. rdpos' = Moved(rdpos, p) /\ target' = Retargeted(target, a)
    BY DEF PidRender
  <2> QED
    BY <1>2, <2>1, <2>2, DeadBand
<1> DEFINE error == target' - rdpos'
<1>4. error \in -MaxPos .. MaxPos /\ lasterr' = error
  BY <1>3 DEF PidRender
<1>5. integral' \in -PwmLimit .. PwmLimit
  <2>1. Fin(integral + error) \in Float
    BY <1>4 DEF Fin, Float, PidTypeOK
  <2>2. integral' = Limited(Fin(integral + error)).v
    BY DEF PidRender
  <2> QED
    BY <2>1, <2>2, LimitedRange
<1>6. OutputDefined'
  <2>1. coeff[1] \in Float /\ coeff[2] \in Float /\ coeff[3] \in Float
    OBVIOUS
  <2>2. Fin(error) \in Float /\ Fin(integral') \in Float /\ Fin(error - lasterr) \in Float
    BY <1>4, <1>5 DEF Fin, Float, PidTypeOK
  <2> DEFINE f1 == Times(coeff[1], Fin(error))
             f2 == Times(coeff[2], Fin(integral'))
             f3 == Times(coeff[3], Fin(error - lasterr))
  <2>3. f1 \in Float /\ f2 \in Float /\ f3 \in Float
    BY <2>1, <2>2, TimesType
  <2>4. Plus(Plus(f1, f2), f3) \in Float
    <3> HIDE DEF f1, f2, f3
    <3> QED
      BY <2>3, PlusType
  <2>5. output' = Limited(Plus(Plus(f1, f2), f3))
    BY DEF PidRender
  <2>6. IsFinite(output') /\ output'.v \in -PwmLimit .. PwmLimit
    <3> HIDE DEF f1, f2, f3
    <3> QED
      BY <2>4, <2>5, LimitedRange
  <2> QED
    BY <2>6 DEF OutputDefined, Abs, IsFinite
<1>7. PidTypeOK'
  BY <1>1, <1>3, <1>4, <1>5 DEF PidTypeOK
<1>8. WithinBands'
  <2>1. seen' = [pos |-> p, angle |-> a]
    BY DEF PidRender
  <2> QED
    BY <1>2, <1>3, <2>1 DEF WithinBands
<1>9. coeff' = coeff
  BY DEF PidRender
<1> QED
  BY <1>6, <1>7, <1>8, <1>9

LEMMA PidMoves == PidInv /\ [PidNext]_pidVars => PidInv'
<1> SUFFICES ASSUME PidInv, [PidNext]_pidVars PROVE PidInv'
  OBVIOUS
<1>1. CASE \E p \in 0 .. MaxPos : PidReset(p)
  BY <1>1, PidResetKeeps
<1>2. CASE \E p \in 0 .. MaxPos : \E s \in 0 .. Percent : PidRender(p, s)
  BY <1>2, PidRenderKeeps
<1>3. CASE SetCoeff
  BY <1>3 DEF SetCoeff, PidInv, PidTypeOK, OutputDefined, WithinBands
<1>4. CASE UNCHANGED pidVars
  BY <1>4 DEF pidVars, PidInv, PidTypeOK, OutputDefined, WithinBands
<1> QED
  BY <1>1, <1>2, <1>3, <1>4 DEF PidNext

LEMMA PidAlways == PidSpec => []PidInv
BY PidStarts, PidMoves, PTL DEF PidSpec

\* Positions, setpoints and the integral stay in their bounds: the setpoint an
\* angle is computed for lies in the calibrated range, margins included.
THEOREM PidTypeCorrect == PidSpec => []PidTypeOK
<1>1. PidInv => PidTypeOK
  BY DEF PidInv
<1> QED
  BY PidAlways, <1>1, PTL

\* Whatever gains the master sends, the power is a number of an int8_t.
THEOREM OutputIsDefined == PidSpec => []OutputDefined
<1>1. PidInv => OutputDefined
  BY DEF PidInv
<1> QED
  BY PidAlways, <1>1, PTL

\* The error never strays by more than both dead bands.
THEOREM ErrorStaysWithinNoise == PidSpec => []ErrorWithinNoise
<1>1. PidInv => ErrorWithinNoise
  BY DEF PidInv, WithinBands, PidTypeOK, ErrorWithinNoise, Abs
<1> QED
  BY PidAlways, <1>1, PTL

(***************************************************************************)
(* SMOOTH                                                                  *)
(***************************************************************************)

\* An integer division toward zero gives an integer, and n times the quotient
\* stays between zero and the dividend.
LEMMA Quotient ==
    ASSUME NEW a \in Nat, NEW b \in Nat \ {0}
    PROVE  a \div b \in Nat /\ b * (a \div b) <= a /\ a \div b <= a
<1> DEFINE q == a \div b
           r == a % b
<1>1. q \in Int /\ r \in 0 .. b - 1 /\ a = b * q + r
  OBVIOUS
<1>2. q >= 0
  <2> SUFFICES ASSUME q <= -1 PROVE FALSE
    BY <1>1
  <2>1. b * q <= -b
    BY <1>1
  <2> QED BY <1>1, <2>1
<1>3. b * q <= a
  BY <1>1
<1>4. q <= b * q
  BY <1>1, <1>2
<1> QED BY <1>1, <1>2, <1>3, <1>4

LEMMA TruncatedType ==
    ASSUME NEW a \in Int, NEW b \in Nat \ {0}
    PROVE  Truncated(a, b) \in Int
<1>1. CASE a >= 0
  BY <1>1, Quotient DEF Truncated
<1>2. CASE a < 0
  <2>1. -a \in Nat
    BY <1>2
  <2> QED BY <1>2, <2>1, Quotient DEF Truncated
<1> QED BY <1>1, <1>2

\* k steps of n lie between none and n of them, and n of them do not overshoot.
LEMMA StepsBetween ==
    ASSUME NEW d \in Nat, NEW m \in Nat, NEW k \in 0 .. m, NEW l \in 0 .. k
    PROVE  l * d <= k * d /\ k * d <= m * d /\ 0 <= l * d
<1>1. (k - l) * d >= 0 /\ (m - k) * d >= 0 /\ l * d >= 0
  <2>1. k - l \in Nat /\ m - k \in Nat /\ l \in Nat
    OBVIOUS
  <2>2. \A x, y \in Nat : x * y >= 0
    OBVIOUS
  <2> QED BY <2>1, <2>2
<1>2. (k - l) * d = k * d - l * d /\ (m - k) * d = m * d - k * d
  OBVIOUS
<1>3. k * d \in Int /\ l * d \in Int /\ m * d \in Int
  OBVIOUS
<1> QED BY <1>1, <1>2, <1>3

LEMMA StraightWay ==
    ASSUME NEW x \in UInt16, NEW y \in UInt16, NEW m \in Nat \ {0},
           NEW k \in 0 .. m, NEW l \in 0 .. k, NEW d, d = Division(y - x, m)
    PROVE  \/ x <= x + l * d /\ x + l * d <= x + k * d /\ x + k * d <= y
           \/ x >= x + l * d /\ x + l * d >= x + k * d /\ x + k * d >= y
<1>t. x \in Int /\ y \in Int
  BY SmoothAssumption DEF UInt16
<1>1. CASE y - x >= 0
  <2>1. d \in Nat /\ m * d <= y - x
    BY <1>1, <1>t, Quotient DEF Division, Truncated
  <2>2. l * d <= k * d /\ k * d <= m * d /\ 0 <= l * d
    BY <2>1, StepsBetween
  <2>3. l * d \in Int /\ k * d \in Int /\ m * d \in Int
    BY <2>1
  <2> QED BY <1>t, <2>1, <2>2, <2>3
<1>2. CASE y - x < 0
  <2> DEFINE e == (-(y - x)) \div m
  <2>1. -(y - x) \in Nat
    BY <1>2, <1>t
  <2>2. e \in Nat /\ m * e <= -(y - x)
    BY <2>1, Quotient
  <2>3. d = -e
    BY <1>2, <1>t DEF Division, Truncated
  <2> HIDE DEF e
  <2>4. l * e <= k * e /\ k * e <= m * e /\ 0 <= l * e
    BY <2>2, StepsBetween
  <2>5. l * e \in Int /\ k * e \in Int /\ m * e \in Int
    BY <2>2
  <2>6. l * d = -(l * e) /\ k * d = -(k * e)
    <3>1. \A a, b \in Int : a * (-b) = -(a * b)
      OBVIOUS
    <3>2. l \in Int /\ k \in Int /\ e \in Int
      BY <2>2
    <3>3. l * (-e) = -(l * e) /\ k * (-e) = -(k * e)
      BY <3>1, <3>2, Zenon
    <3> QED BY <2>3, <3>3
  <2> QED BY <1>t, <2>2, <2>4, <2>5, <2>6
<1> QED BY <1>1, <1>2, <1>t

\* The slots written so far are those before islot, each with as many steps as
\* its place asks for, and in the end slot n with the target.
SlotsWritten ==
    /\ islot <= n - 1 \/ islot = 0
    /\ spc = "posted" => islot >= n - 1
    /\ DOMAIN slots = (0 .. islot - 1) \cup (IF spc = "posted" THEN {n} ELSE {})
    /\ \A s \in 0 .. islot - 1 : slots[s] = AsUInt16(currsetpt + (s + 1) * setpt_diffs)
    /\ spc = "posted" => slots[n] = instructs.setpoint

Computed ==
    /\ instructs \in [time : 0 .. MaxTime, setpoint : UInt16]
    /\ bound \in Ranges /\ curr_pos \in Nat
    /\ spc \in {"pos", "bound", "loop", "posted"}
    /\ n \in 0 .. MaxTime /\ islot \in 0 .. MaxTime
    /\ currsetpt \in Int /\ setpt_diffs \in Int
    /\ spc \in {"pos", "bound"} => islot = 0
    /\ spc \in {"loop", "posted"} =>
         /\ n = instructs.time \div Interval
         /\ setpt_diffs = Division(instructs.setpoint - currsetpt, n)

SmoothInv == Computed /\ SlotsWritten

LEMMA SmoothStarts == SmoothInit => SmoothInv
<1> SUFFICES ASSUME SmoothInit PROVE SmoothInv
  OBVIOUS
<1>1. bound \in Nat /\ curr_pos \in Nat
  BY SmoothAssumption DEF SmoothInit
<1>2. Computed
  BY <1>1, SmoothAssumption DEF SmoothInit, Computed
<1>3. DOMAIN slots = {} /\ 0 .. islot - 1 = {}
  BY DEF SmoothInit
<1> QED BY <1>2, <1>3 DEF SmoothInit, SmoothInv, SlotsWritten

LEMMA SmoothMoves == SmoothInv /\ [SmoothNext]_smoothVars => SmoothInv'
<1> SUFFICES ASSUME SmoothInv, [SmoothNext]_smoothVars PROVE SmoothInv'
  OBVIOUS
<1> USE SmoothAssumption DEF SmoothInv
<1>1. CASE ReadPosition
  BY <1>1 DEF ReadPosition, Computed, SlotsWritten
<1>2. CASE Widen
  BY <1>2 DEF Widen, Computed, SlotsWritten
<1>3. CASE ReadBound
  <2>1. bound \in Nat \ {0} /\ curr_pos \in Nat /\ instructs.time \in Nat /\ instructs.setpoint \in Int
        /\ instructs.time <= MaxTime
    BY DEF Computed, UInt16
  <2>2. currsetpt' \in Int
    <3>1. FullScale * (20 * curr_pos - bound) \in Int /\ 18 * bound \in Nat \ {0}
      BY <2>1
    <3> QED BY <1>3, <3>1, TruncatedType DEF ReadBound, StartSetpoint
  <2>3. n' \in 0 .. MaxTime
    BY <1>3, <2>1, Quotient DEF ReadBound
  <2>4. setpt_diffs' \in Int
    BY <1>3, <2>1, <2>2, <2>3, TruncatedType DEF ReadBound, Division
  <2>5. Computed'
    BY <1>3, <2>2, <2>3, <2>4 DEF ReadBound, Computed
  <2>6. islot' = 0 /\ slots' = slots /\ spc' # "posted" /\ spc # "posted" /\ islot = 0
    BY <1>3 DEF ReadBound, Computed
  <2> QED BY <2>5, <2>6 DEF SlotsWritten
<1>4. CASE Loop
  <2>1. /\ islot < n - 1 /\ islot' = islot + 1 /\ spc = "loop" /\ spc' = "loop"
        /\ UNCHANGED <<instructs, curr_pos, bound, currsetpt, n, setpt_diffs>>
    BY <1>4 DEF Loop
  <2>2. /\ DOMAIN slots' = (0 .. islot - 1) \cup {islot}
        /\ slots'[islot] = AsUInt16(currsetpt + (islot + 1) * setpt_diffs)
        /\ \A s \in 0 .. islot - 1 : slots'[s] = slots[s]
    BY <1>4, <2>1 DEF Loop, Write, SlotsWritten, Computed
  <2>3. (0 .. islot - 1) \cup {islot} = 0 .. islot
    BY DEF Computed
  <2>4. Computed'
    BY <2>1 DEF Computed
  <2>5. \A s \in 0 .. islot : slots'[s] = AsUInt16(currsetpt + (s + 1) * setpt_diffs)
    BY <2>2, <2>3 DEF SlotsWritten
  <2>6. islot' - 1 = islot /\ islot' <= n' - 1
    BY <2>1 DEF Computed
  <2> QED BY <2>1, <2>2, <2>3, <2>4, <2>5, <2>6 DEF SlotsWritten
<1>5. CASE PostSmooth
  <2>1. /\ spc = "loop" /\ spc' = "posted"
        /\ islot >= n - 1
        /\ UNCHANGED <<instructs, curr_pos, bound, currsetpt, n, islot, setpt_diffs>>
    BY <1>5 DEF PostSmooth
  <2>2. /\ DOMAIN slots' = (0 .. islot - 1) \cup {n}
        /\ slots'[n] = instructs.setpoint
        /\ \A s \in 0 .. islot - 1 : s # n => slots'[s] = slots[s]
    BY <1>5, <2>1 DEF PostSmooth, Write, SlotsWritten
  <2>3. n \notin 0 .. islot - 1
    BY DEF Computed, SlotsWritten
  <2> QED BY <2>1, <2>2, <2>3 DEF Computed, SlotsWritten
<1>6. CASE UNCHANGED smoothVars
  BY <1>6 DEF smoothVars, Computed, SlotsWritten
<1> QED BY <1>1, <1>2, <1>3, <1>4, <1>5, <1>6 DEF SmoothNext, Done

LEMMA SmoothAlways == SmoothSpec => []SmoothInv
BY SmoothStarts, SmoothMoves, PTL DEF SmoothSpec

\* Which slots are written when a sequence is posted.
LEMMA WrittenSlots ==
    ASSUME SmoothInv, spc = "posted"
    PROVE  DOMAIN slots = (0 .. n) \ {n - 1}
<1>1. n \in Nat /\ islot \in Nat /\ DOMAIN slots = (0 .. islot - 1) \cup {n}
  BY DEF SmoothInv, SlotsWritten, Computed
<1>2. islot = n - 1 \/ (n = 0 /\ islot = 0)
  BY <1>1 DEF SmoothInv, SlotsWritten
<1> QED BY <1>1, <1>2

\* A time less than that of a full buffer keeps every slot within it.
LEMMA SlotsFit ==
    ASSUME SmoothInv, instructs.time < Room * Interval, NEW s \in DOMAIN slots
    PROVE  s < Room
<1>1. /\ n \in Nat /\ islot \in Nat /\ instructs.time \in Nat
      /\ Room \in Nat \ {0} /\ Interval \in Nat \ {0}
  BY SmoothAssumption DEF SmoothInv, Computed
<1>2. s \in Nat /\ s <= n /\ spc \in {"loop", "posted"}
  BY <1>1 DEF SmoothInv, Computed, SlotsWritten
<1>3. Interval * n <= instructs.time
  BY <1>1, <1>2, Quotient DEF SmoothInv, Computed
<1>4. ASSUME Room <= n PROVE FALSE
  <2>1. Room * Interval <= n * Interval
    BY <1>1, <1>4, StepsBetween
  <2>2. n * Interval = Interval * n
    BY <1>1
  <2> QED BY <1>1, <1>3, <2>1, <2>2
<1> QED BY <1>1, <1>2, <1>4

\* What is written between the margins neither wraps around nor overshoots, all
\* slots but the last but one are written, and none behind the buffer unless
\* the motion takes too long, for every interval, full scale, room and range.
THEOREM SmoothWritesStraight == SmoothSpec => []SmoothInsideMargins
<1>1. SmoothInv /\ currsetpt \in UInt16 => Unidirectional(currsetpt)
  <2> SUFFICES ASSUME SmoothInv, currsetpt \in UInt16 PROVE Unidirectional(currsetpt)
    OBVIOUS
  <2> DEFINE x == currsetpt
             y == instructs.setpoint
             v(s) == x + (s + 1) * setpt_diffs
  <2>t. /\ x \in Int /\ y \in UInt16 /\ y \in Int /\ n \in Nat /\ islot \in Nat /\ setpt_diffs \in Int
        /\ FullScale \in Nat
    BY SmoothAssumption DEF SmoothInv, Computed, UInt16
  <2>1. ASSUME NEW s \in 0 .. islot - 1, NEW u \in 0 .. islot - 1, s <= u
        PROVE  \/ x <= v(s) /\ v(s) <= v(u) /\ v(u) <= y
               \/ x >= v(s) /\ v(s) >= v(u) /\ v(u) >= y
    <3>1. islot <= n - 1 /\ spc \in {"loop", "posted"}
      BY <2>t DEF SmoothInv, SlotsWritten, Computed
    <3>2. n \in Nat \ {0} /\ u + 1 \in 0 .. n /\ s + 1 \in 0 .. u + 1
      BY <2>t, <2>1, <3>1
    <3>3. setpt_diffs = Division(y - x, n)
      BY <3>1 DEF SmoothInv, Computed
    <3> QED BY <2>t, <3>2, <3>3, StraightWay
  <2>2. ASSUME NEW s \in 0 .. islot - 1 PROVE slots[s] = v(s)
    <3>1. v(s) \in 0 .. FullScale
      <4>1. v(s) \in Int
        BY <2>t
      <4>2. (x <= v(s) /\ v(s) <= y) \/ (x >= v(s) /\ v(s) >= y)
        BY <2>1
      <4>3. 0 <= x /\ x <= FullScale /\ 0 <= y /\ y <= FullScale
        BY <2>t DEF UInt16
      <4> HIDE DEF x, y, v
      <4> QED BY <2>t, <4>1, <4>2, <4>3
    <3>2. \A w \in 0 .. FullScale : w % (FullScale + 1) = w
      BY <2>t
    <3>3. slots[s] = AsUInt16(v(s))
      BY DEF SmoothInv, SlotsWritten
    <3> QED BY <3>1, <3>2, <3>3 DEF AsUInt16
  <2> DEFINE between(a, b, c) == (a <= b /\ b <= c) \/ (a >= b /\ b >= c)
  <2>3. DOMAIN slots \subseteq (0 .. islot - 1) \cup {n}
    BY DEF SmoothInv, SlotsWritten
  <2>4. n \in DOMAIN slots => slots[n] = y /\ n \notin 0 .. islot - 1
    BY <2>t DEF SmoothInv, SlotsWritten
  <2>5. ASSUME NEW s \in DOMAIN slots PROVE between(x, slots[s], y)
    <3>1. CASE s \in 0 .. islot - 1
      <4>1. s <= s /\ slots[s] = v(s)
        BY <2>2, <2>t, <3>1
      <4> HIDE DEF v, x, y
      <4>2. \/ x <= v(s) /\ v(s) <= v(s) /\ v(s) <= y
            \/ x >= v(s) /\ v(s) >= v(s) /\ v(s) >= y
        BY <2>1, <3>1, <4>1
      <4> QED BY <4>1, <4>2
    <3>2. CASE s = n
      BY <2>4, <3>2, <2>t
    <3> QED BY <2>3, <3>1, <3>2
  <2>6. ASSUME NEW s \in DOMAIN slots, NEW u \in DOMAIN slots, s < u
        PROVE  between(slots[s], slots[u], y)
    <3>1. CASE s \in 0 .. islot - 1 /\ u \in 0 .. islot - 1
      <4>1. v(s) = slots[s] /\ v(u) = slots[u]
        BY <2>2, <3>1
      <4>2. s <= u
        BY <2>6, <2>t, <3>1
      <4> HIDE DEF v, x, y
      <4>3. \/ x <= v(s) /\ v(s) <= v(u) /\ v(u) <= y
            \/ x >= v(s) /\ v(s) >= v(u) /\ v(u) >= y
        BY <2>1, <3>1, <4>2
      <4> QED BY <4>1, <4>3
    <3>2. CASE u = n
      <4>1. slots[u] = y
        BY <2>4, <3>2
      <4>2. slots[s] \in Int
        <5>1. CASE s \in 0 .. islot - 1
          BY <2>2, <2>t, <5>1
        <5>2. CASE s = n
          BY <2>4, <2>t, <5>2
        <5> QED BY <2>3, <5>1, <5>2
      <4>3. slots[s] <= y \/ slots[s] >= y
        BY <4>2, <2>t
      <4> QED BY <4>1, <4>3, <2>t
    <3>3. CASE s = n /\ u # n
      <4>1. u \in 0 .. islot - 1 /\ islot <= n
        BY <2>3, <2>t, <3>3 DEF SmoothInv, SlotsWritten
      <4> QED BY <2>6, <3>3, <4>1, <2>t
    <3> QED BY <2>3, <3>1, <3>2, <3>3
  <2> QED BY <2>5, <2>6 DEF Unidirectional
<1>2. SmoothInv => SmoothInsideMargins
  BY <1>1, WrittenSlots, SlotsFit DEF SmoothInsideMargins
<1> QED BY <1>2, SmoothAlways, PTL
=============================================================================
