---------------------------- MODULE MotorProofs ----------------------------
(***************************************************************************)
(* The motor output keeps its promises for every PWM period and width of   *)
(* the signed value.                                                       *)
(***************************************************************************)
EXTENDS Motor, TLAPS

\* What each write of motorSetI may rely on.
AtWrite ==
    /\ wpc = "idle" => width = WidthsOf(pwmstate) /\ en = EnableOf(pwmstate)
    /\ wpc = "disable" => /\ p = 0 /\ pwmstate # 0 /\ en = 1
                         /\ width = WidthsOf(pwmstate)
    /\ wpc = "clear0" => p = 0 /\ en = 0 /\ width = WidthsOf(pwmstate)
    /\ wpc = "clear1" => /\ p = 0 /\ en = 0
                        /\ width[0] = 0 /\ width[1] = WidthsOf(pwmstate)[1]
    /\ wpc = "drive" =>
         /\ p # 0 /\ en = EnableOf(pwmstate)
         /\ width = IF p < 0 /\ Newdir(p) THEN WidthsOf(0) ELSE WidthsOf(pwmstate)
    /\ wpc = "release" =>
         /\ p # 0 /\ Newdir(p) /\ en = EnableOf(pwmstate)
         /\ IF p < 0
              THEN width = WidthsOf(pwmstate)
              ELSE width[0] = WidthsOf(p)[0] /\ width[1] = WidthsOf(pwmstate)[1]
    /\ wpc = "start" => p # 0 /\ pwmstate = 0 /\ en = 0 /\ width = WidthsOf(p)

IInv == MotorTypeOK /\ AtWrite

USE MaxPwmAssumption, PeriodAssumption

\* The values motorSetI sets are in range, -128 included.
LEMMA ClampedInRange ==
    ASSUME NEW x \in Int8
    PROVE  Clamped(x) \in -MaxPwm .. MaxPwm
BY DEF Int8, Clamped

LEMMA WidthsType ==
    ASSUME NEW x \in -MaxPwm .. MaxPwm
    PROVE  /\ WidthsOf(x) \in [Channel -> Nat]
           /\ \A c \in Channel : WidthsOf(x)[c] <= Period
           /\ x > 0 => /\ WidthsOf(x)[0] = pwmoffset + x
                       /\ WidthsOf(x)[1] = 0
           /\ x < 0 => /\ WidthsOf(x)[0] = 0
                       /\ WidthsOf(x)[1] = pwmoffset - x
           /\ x = 0 => /\ WidthsOf(x)[0] = 0
                       /\ WidthsOf(x)[1] = 0
BY DEF WidthsOf, Channel, Driven, Magnitude, pwmoffset

\* Two outputs with the same widths on both channels are the same.
LEMMA SameWidths ==
    ASSUME NEW v \in [Channel -> Nat], NEW w \in [Channel -> Nat],
           v[0] = w[0], v[1] = w[1]
    PROVE  v = w
BY DEF Channel

LEMMA InitIInv == MotorInit => IInv
<1> SUFFICES ASSUME MotorInit PROVE IInv
  OBVIOUS
<1>1. width \in [Channel -> Nat] /\ width[0] = 0 /\ width[1] = 0
  BY DEF MotorInit, Channel
<1>2. width = WidthsOf(0)
  BY <1>1, SameWidths, WidthsType
<1> QED
  BY <1>1, <1>2 DEF MotorInit, IInv, MotorTypeOK, AtWrite, EnableOf

LEMMA NextIInv == IInv /\ [MotorNext]_motorVars => IInv'
<1> SUFFICES ASSUME IInv, [MotorNext]_motorVars PROVE IInv'
  OBVIOUS
<1> USE DEF IInv, MotorTypeOK, EnableOf
<1>1. CASE motorSetI
  <2> PICK x \in -MaxPwm .. MaxPwm : Call(x)
    BY <1>1, ClampedInRange DEF motorSetI
  <2> QED
    BY DEF Call, AtWrite, Newdir
<1>2. CASE DisableMotor
  BY <1>2, WidthsType DEF DisableMotor, WriteWidth, Go, AtWrite, Channel
<1>3. CASE Clear1
  <2>1. width' \in [Channel -> Nat] /\ width'[0] = 0 /\ width'[1] = 0 /\ p = 0
    BY <1>3 DEF Clear1, WriteWidth, AtWrite, Channel
  <2>2. width' = WidthsOf(0)
    BY <2>1, SameWidths, WidthsType
  <2> QED
    BY <1>3, <2>1, <2>2 DEF Clear1, Go, AtWrite
<1>4. CASE Drive
  <2>1. width' \in [Channel -> Nat]
    BY <1>4 DEF Drive, WriteWidth, Channel, Driven, Magnitude, pwmoffset
  <2>2. CASE p > 0
    <3>1. width'[0] = WidthsOf(p)[0] /\ width'[1] = WidthsOf(pwmstate)[1]
      BY <1>4, <2>2, WidthsType DEF Drive, WriteWidth, AtWrite, Driven, Magnitude, Channel
    <3>2. ~Newdir(p) => width' = WidthsOf(p)
      BY <2>1, <2>2, <3>1, WidthsType, SameWidths DEF Newdir
    <3> QED
      BY <1>4, <2>1, <2>2, <3>1, <3>2 DEF Drive, StartIfStopped, Go, AtWrite, Newdir
  <2>3. CASE p < 0
    <3> width[0] = 0
      BY <1>4, <2>3, WidthsType DEF Drive, AtWrite, Newdir
    <3>1. width'[0] = 0 /\ width'[1] = WidthsOf(p)[1]
      BY <1>4, <2>3, WidthsType DEF Drive, WriteWidth, Driven, Magnitude, Channel, pwmoffset
    <3>2. width' = WidthsOf(p)
      BY <2>1, <2>3, <3>1, WidthsType, SameWidths
    <3> QED
      BY <1>4, <2>1, <2>3, <3>2 DEF Drive, StartIfStopped, Go, AtWrite
  <2> QED
    BY <1>4, <2>2, <2>3 DEF Drive, AtWrite
<1>5. CASE Release
  <2>1. width' \in [Channel -> Nat]
    BY <1>5 DEF Release, WriteWidth, Channel, Released, Driven
  <2>2. CASE p > 0
    <3>1. width'[0] = WidthsOf(p)[0] /\ width'[1] = 0
      BY <1>5, <2>2 DEF Release, WriteWidth, AtWrite, Released, Driven, Channel
    <3>2. width' = WidthsOf(p)
      BY <2>1, <2>2, <3>1, WidthsType, SameWidths
    <3> QED
      BY <1>5, <2>1, <2>2, <3>2 DEF Release, StartIfStopped, Go, AtWrite
  <2>3. CASE p < 0
    <3>1. width'[0] = 0 /\ width'[1] = 0
      BY <1>5, <2>3, WidthsType DEF Release, WriteWidth, AtWrite, Released, Driven, Channel, Newdir
    <3>2. width' = WidthsOf(0)
      BY <2>1, <3>1, WidthsType, SameWidths
    <3> QED
      BY <1>5, <2>1, <2>3, <3>2 DEF Release, Go, AtWrite, Newdir
  <2> QED
    BY <1>5, <2>2, <2>3 DEF Release, AtWrite
<1>6. CASE Start
  BY <1>6 DEF Start, Go, AtWrite
<1>7. CASE UNCHANGED motorVars
  BY <1>7 DEF motorVars, AtWrite, Newdir
<1> QED
  BY <1>1, <1>2, <1>3, <1>4, <1>5, <1>6, <1>7 DEF MotorNext

LEMMA Invariance == MotorSpec => []IInv
BY InitIInv, NextIInv, PTL DEF MotorSpec

\* Type correctness.
THEOREM TypeCorrect == MotorSpec => []MotorTypeOK
<1>1. IInv => MotorTypeOK
  BY DEF IInv
<1> QED
  BY <1>1, Invariance, PTL

\* Between calls of motorSetI the pins are what the last value asks for.
THEOREM DifferencesSuffice == MotorSpec => []OutputIsLastValue
<1>1. IInv => OutputIsLastValue
  BY DEF IInv, AtWrite, OutputIsLastValue
<1> QED
  BY <1>1, Invariance, PTL

\* No pulse is longer than the PWM period.
THEOREM PulsesFit == MotorSpec => []PulseFitsPeriod
<1>1. IInv => PulseFitsPeriod
  BY WidthsType DEF IInv, MotorTypeOK, AtWrite, PulseFitsPeriod, Channel
<1> QED
  BY <1>1, Invariance, PTL

\* While the motor is enabled it is never driven in a way nobody asked for.
THEOREM OnlyGlitchesAreTurns == MotorSpec => []OnlyTurningGlitches
<1>1. IInv => OnlyTurningGlitches
  <2> SUFFICES ASSUME IInv, en = 1 PROVE OnlyTurningGlitches
    BY DEF OnlyTurningGlitches
  <2>1. CASE wpc \in {"idle", "disable", "start", "clear0", "clear1"}
    BY <2>1 DEF IInv, AtWrite, OnlyTurningGlitches
  <2>2. CASE wpc = "drive"
    BY <2>2 DEF IInv, MotorTypeOK, AtWrite, OnlyTurningGlitches, Newdir
  <2>3. CASE wpc = "release"
    BY <2>3, WidthsType DEF IInv, MotorTypeOK, AtWrite, OnlyTurningGlitches, Newdir, Channel, pwmoffset
  <2> QED
    BY <2>1, <2>2, <2>3 DEF IInv, MotorTypeOK
<1> QED
  BY <1>1, Invariance, PTL
=============================================================================
