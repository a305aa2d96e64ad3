---------------------------- MODULE Calibration ----------------------------
(***************************************************************************)
(* motorCalibrate and the position readings of actuator/motor.c.           *)
(*                                                                         *)
(* The arm turns between two stops.  Its sensor gives the sine and the     *)
(* cosine of an angle on a circle of C units; where 0 falls relative to    *)
(* the stops depends on how the magnet was mounted.  Two runs drive the    *)
(* arm to one stop and back, looking every 100 ms whether it still moves,  *)
(* and the readings at the stops become the range positions are measured   *)
(* in.  The sine and the cosine may be swapped, which mirrors the angle.   *)
(* After start-up every reading that falls outside the range widens it.    *)
(***************************************************************************)
EXTENDS Integers

CONSTANTS
    C,          \* units in a full turn, 2 pi
    Wrap,       \* 1.0 rad: a larger change between two samples is a wrap
    Samples,    \* 10: how often a loop looks whether the arm stopped
    MaxRange,   \* the largest distance between the stops
    Speeds,     \* how far the arm can turn in 100 ms
    Over        \* how far it can be pushed past a stop while it is in use

ASSUME CircleAssumption ==
    /\ C \in Nat /\ C % 8 = 0 /\ Wrap \in 1 .. C - 1
    /\ Samples \in Nat \ {0} /\ MaxRange \in Nat \ {0} /\ Over \in Nat
    /\ Speeds \subseteq Nat \ {0}

\* The stops are less than a turn apart, even when they give, and in 100 ms the
\* arm does not turn so far that its passing 0 looks like a small movement back.
ASSUME MechanicsAssumption ==
    MaxRange + 2 < C /\ \A v \in Speeds : v + Wrap < C

VARIABLES
    rig,        \* the mechanics, see Rigs
    arm,        \* where the arm is, 0 .. range between the stops
    pwm,        \* the sign of the value motorCalibrate is called with
    cal,        \* where motorCalibrate is
    half,       \* 1st or 2nd run
    i,          \* samples taken in the current loop
    swapped,    \* isin = 1 and icos = 0
    run,        \* start, next and increasing of each run
    inversed,   \* becomes the flag MOTOR_INVERSE
    offset,     \* MD1.offset
    hibound     \* MD1.hibound

calVars == <<rig, arm, pwm, cal, half, i, swapped, run, inversed, offset, hibound>>

\* low: angle at position 0.  give: how much farther the stops let the arm go
\* in the 2nd run, because the 1st one pressed against them.
Rigs ==
    [low : {a \in 0 .. C - 1 : a % 2 = 0}, range : {r \in 2 .. MaxRange : r % 2 = 0},
     give : {0, 2}, speed : Speeds]

(***************************************************************************)
(* The sensor                                                              *)
(***************************************************************************)

Angle(x) == (rig.low + x) % C

\* atan2 of IN13 and IN12, or of IN12 and IN13 when sine and cosine are
\* swapped, in 0 .. C - 1: swapping them mirrors the angle.
calc_pos(angle, swap) == IF swap THEN angle ELSE (C \div 4 - angle) % C

\* A sample keeps the two voltages, from which it can be computed again.
sample_calc(x, swap) == [angle |-> Angle(x), pos |-> calc_pos(Angle(x), swap)]

Recalc(s) == [s EXCEPT !.pos = calc_pos(s.angle, TRUE)]

Magnitude(x) == IF x < 0 THEN -x ELSE x

Still(s, t) == s.pos = t.pos
Wrapped(s, t) == Magnitude(s.pos - t.pos) > Wrap

(***************************************************************************)
(* motorCalibrate.  Each run drives the arm home (against the direction of *)
(* the run) until it is still, turns, and sweeps until it is still again.  *)
(***************************************************************************)

Dir == IF half = 1 THEN pwm ELSE -pwm

Clip(x, lo, hi) == IF x < lo THEN lo ELSE IF x > hi THEN hi ELSE x

\* Where the arm is after 100 ms in the direction d.
Turned(d) ==
    LET give == IF half = 1 THEN 0 ELSE rig.give IN
    Clip(arm + d * rig.speed, -give, rig.range + give)

\* The call, with a value of the sign s.
motorCalibrate(s) ==
    /\ cal = "off"
    /\ cal' = "begin" /\ pwm' = s /\ half' = 1
    /\ swapped' = FALSE /\ inversed' = FALSE
    /\ UNCHANGED <<rig, arm, i, run, offset, hibound>>

\* motorSet(-pwm), or motorSet(pwm) in the 2nd run, and the first sample.
Begin ==
    /\ cal = "begin"
    /\ arm' = Turned(-Dir)
    /\ run' = [run EXCEPT ![half].next = sample_calc(arm', swapped)]
    /\ cal' = "home"
    /\ i' = 0
    /\ UNCHANGED <<rig, pwm, half, swapped, inversed, offset, hibound>>

\* The loop ends when the arm is still, or when it has looked often enough.
LastSample(still) == still \/ i = Samples - 1

Home ==
    /\ cal = "home"
    /\ arm' = Turned(-Dir)
    /\ LET next == sample_calc(arm', swapped)
           last == LastSample(Still(next, run[half].next)) IN
       /\ run' = [run EXCEPT ![half].start = IF last THEN next ELSE @, ![half].next = next]
       /\ i' = IF last THEN 0 ELSE i + 1
       /\ cal' = IF last THEN "turn" ELSE "home"
    /\ UNCHANGED <<rig, pwm, half, swapped, inversed, offset, hibound>>

\* "determine direction": the name says the opposite of the comparison, which
\* becomes true of the swapped angles.
Increasing(start, next) == start.pos > next.pos

Turn ==
    /\ cal = "turn"
    /\ arm' = Turned(Dir)
    /\ LET next == sample_calc(arm', swapped) IN
       run' = [run EXCEPT ![half].next = next,
                          ![half].increasing = Increasing(run[half].start, next)]
    /\ cal' = "sweep"
    /\ UNCHANGED <<rig, pwm, half, i, swapped, inversed, offset, hibound>>

\* "detect incongruence": the arm seems to move against the direction that was
\* determined, which swaps sine and cosine and computes this run again.
Incongruent(prev, next) ==
    /\ ~Wrapped(prev, next)
    /\ ~Still(prev, next)
    /\ run[half].increasing # (next.pos > prev.pos)

Sweep ==
    /\ cal = "sweep"
    /\ arm' = Turned(Dir)
    /\ LET prev == run[half].next
           next == sample_calc(arm', swapped)
           swap == Incongruent(prev, next)
           last == LastSample(Still(prev, next)) IN
       /\ run' = [run EXCEPT ![half].next = IF swap THEN Recalc(next) ELSE next,
                             ![half].start = IF swap THEN Recalc(@) ELSE @]
       /\ swapped' = (swapped \/ swap)
       /\ inversed' = (inversed \/ (swap /\ half = 1))
       /\ i' = IF last THEN 0 ELSE i + 1
       /\ cal' = IF last THEN "stop" ELSE "sweep"
    /\ UNCHANGED <<rig, pwm, half, offset, hibound>>

\* Mutant: the 1st run alone decides.
FirstRunOnly(s, t) == s.pos

Mean(s, t) == (s.pos + t.pos) \div 2

\* motorSet(0) after a run; after the 2nd the readings at each stop are averaged.
Stop ==
    /\ cal = "stop"
    /\ IF half = 1
       THEN half' = 2 /\ cal' = "begin" /\ UNCHANGED <<offset, hibound>>
       ELSE LET back == Mean(run[1].start, run[2].next)
                front == Mean(run[1].next, run[2].start)
                lo == IF run[1].increasing THEN back ELSE front
                hi == IF run[1].increasing THEN front ELSE back IN
            /\ offset' = lo
            /\ hibound' = (hi - lo + C) % C
            /\ cal' = "done"
            /\ UNCHANGED half
    /\ UNCHANGED <<rig, arm, pwm, i, swapped, run, inversed>>

(***************************************************************************)
(* motorCPosition                                                          *)
(***************************************************************************)

\* The position in the range when the arm is at x.
CPosition(x) == (calc_pos(Angle(x), inversed) - offset + C) % C

\* The position in the range when the conversion fails and the angle reads 0.
FailedCPosition == (0 - offset + C) % C

\* Mutant: the upper bound is the last position.
HiboundForgets(cpos) == cpos

\* A position is never negative, so only its upper bound moves.
Stretched(cpos) == IF cpos > hibound THEN cpos ELSE hibound

\* The stops, between them, and past them when the cover gives way or someone
\* pulls at the arm.
Reach == {-rig.give - Over, -rig.give, 0, rig.range + rig.give, rig.range + rig.give + Over}

Use ==
    /\ cal \in {"done", "used"}
    /\ \E x \in Reach :
         /\ arm' = x
         /\ hibound' = Stretched(CPosition(x))
    /\ cal' = "used"
    /\ UNCHANGED <<rig, pwm, half, i, swapped, run, inversed, offset>>

UseFailed ==
    /\ cal \in {"done", "used"}
    /\ hibound' = Stretched(FailedCPosition)
    /\ cal' = "used"
    /\ UNCHANGED <<rig, arm, pwm, half, i, swapped, run, inversed, offset>>

(***************************************************************************)
(* Specification                                                           *)
(***************************************************************************)

NoSample == [angle |-> 0, pos |-> 0]
NoRun == [start |-> NoSample, next |-> NoSample, increasing |-> FALSE]

\* Before motorCalibrate, with the arm between its stops.
CalInit ==
    /\ rig \in Rigs
    /\ arm = 2
    /\ pwm = 0 /\ cal = "off" /\ half = 1 /\ i = 0
    /\ swapped = FALSE /\ inversed = FALSE
    /\ run = [n \in {1, 2} |-> NoRun]
    /\ offset = 0 /\ hibound = 0

\* A step of motorCalibrate once it has been called.
CalStep == Begin \/ Home \/ Turn \/ Sweep \/ Stop

\* A call of motorCPosition afterwards.
motorCPosition == Use \/ UseFailed

(***************************************************************************)
(* Properties                                                              *)
(***************************************************************************)

CalTypeOK ==
    /\ rig \in Rigs /\ pwm \in {-1, 0, 1}
    /\ arm \in -(2 + Over) .. MaxRange + 2 + Over
    /\ cal \in {"off", "begin", "home", "turn", "sweep", "stop", "done", "used"}
    /\ half \in {1, 2} /\ i \in 0 .. Samples - 1
    /\ swapped \in BOOLEAN /\ inversed \in BOOLEAN
    /\ offset \in 0 .. C - 1 /\ hibound \in 0 .. C - 1

\* Where the arm is k samples after it left its first home.
Way(k) ==
    LET x == Clip(k * rig.speed, 0, rig.range) IN IF pwm = 1 THEN x ELSE rig.range - x

\* The sensor shows the arm move from one sample to the next, not a wrap.
Visible(k) ==
    LET pos(n) == calc_pos(Angle(Way(n)), FALSE) IN
    Magnitude(pos(k) - pos(k + 1)) \in 1 .. Wrap

\* The two readings at each stop lie on the same side of 0.
StopsApartFromSeam ==
    Angle(-rig.give) <= Angle(0) /\ Angle(rig.range) <= Angle(rig.range + rig.give)

\* The loops are long enough for the arm to get from stop to stop.
LongEnough == rig.range + 2 * rig.give <= (Samples + 1) * rig.speed

\* How the magnet may be mounted: the first sample of the way back and a
\* later one show the movement.  Otherwise the first run keeps the angles
\* unswapped, and takes the wrong end for the lower one or is mixed with a
\* second run that swaps them.
WellMounted ==
    Visible(0) /\ (\E k \in 1 .. Samples : Visible(k)) /\ StopsApartFromSeam /\ LongEnough

\* The range between the averages of the two readings at each stop.
Width == rig.range + rig.give
LowEnd == -(rig.give \div 2)

\* Swapping, mirroring, the direction of the drive and wraps along the way
\* cancel: the arm's range is found, with its lower end where positions start
\* (motor.c:156-330).
CalibratedRange ==
    (cal = "done" /\ WellMounted) =>
        /\ inversed
        /\ offset = Angle(LowEnd)
        /\ hibound = Width

OutsideRange(x) == x \notin LowEnd .. (LowEnd + Width)

\* Once the range is found only a position outside it or a failed conversion
\* moves the upper bound, and it never comes down: setpoints keep their
\* meaning while the arm stays between its stops (motor.c:400-417).
StretchOnlyByOvertravel ==
    [][(cal \in {"done", "used"} /\ WellMounted /\ hibound' # hibound) =>
            /\ hibound' > hibound
            /\ OutsideRange(arm') \/ UseFailed]_calVars
=============================================================================
