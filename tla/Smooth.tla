------------------------------- MODULE Smooth -------------------------------
(***************************************************************************)
(* MSGTYPE_SMOOTH of actuator/comm.c: one setpoint and a time to get there *)
(* become a sequence of setpoints at equal intervals.                      *)
(*                                                                         *)
(* The start is computed from the position the motion thread saved last    *)
(* and from the upper bound, which that thread widens: it may do so        *)
(* between the two reads.  Integers are C's: the division truncates, and a *)
(* division by zero gives 0, as on the Cortex-M4 unless it traps.          *)
(***************************************************************************)
EXTENDS Integers

CONSTANTS
    FullScale,  \* 0xffff
    Interval,   \* SMOOTH_MININTERVAL_MS
    MaxTime,    \* bounds the time a message may ask for
    Room,       \* slots a buffer has room for, 254 in 1 KB
    Ranges      \* the values motorHiBound may have, in units of a position

ASSUME SmoothAssumption ==
    /\ FullScale \in Nat \ {0} /\ Interval \in Nat \ {0} /\ MaxTime \in Nat
    /\ Room \in Nat \ {0}
    /\ Ranges \subseteq Nat \ {0}

VARIABLES
    instructs,  \* the message: [time, setpoint]
    curr_pos,   \* the position that was read
    bound,      \* MD1.hibound
    spc,        \* "pos", "bound", "loop", "last" or "posted"
    currsetpt, n, islot, setpt_diffs,
    slots       \* setpoints written to the new buffer, by slot; others stay as they were

smoothVars == <<instructs, curr_pos, bound, spc, currsetpt, n, islot, setpt_diffs, slots>>

UInt16 == 0 .. FullScale
AsUInt16(x) == x % (FullScale + 1)

Positions == 0 .. CHOOSE m \in Ranges : \A r \in Ranges : r <= m

(***************************************************************************)
(* The handler                                                             *)
(***************************************************************************)

\* curr_pos = pidrdValue(&PIDRENDER1)
ReadPosition ==
    /\ spc = "pos" /\ spc' = "bound"
    /\ UNCHANGED <<instructs, curr_pos, bound, currsetpt, n, islot, setpt_diffs, slots>>

\* motorCPosition, between the reads.
Widen ==
    /\ spc = "bound"
    /\ bound' \in {r \in Ranges : r > bound}
    /\ UNCHANGED <<instructs, curr_pos, spc, currsetpt, n, islot, setpt_diffs, slots>>

\* (curr_pos / motorHiBound() - 0.05) / 0.9 of full scale, toward zero.
Truncated(a, b) == IF a >= 0 THEN a \div b ELSE -((-a) \div b)

StartSetpoint(p, top) == Truncated(FullScale * (20 * p - top), 18 * top)

\* Mutant: the division rounds down, as the call of floor around it suggests.
FloorDivision(a, b) == IF b = 0 THEN 0 ELSE a \div b

Division(a, b) == IF b = 0 THEN 0 ELSE Truncated(a, b)

ReadBound ==
    /\ spc = "bound" /\ spc' = "loop"
    /\ currsetpt' = StartSetpoint(curr_pos, bound)
    /\ n' = instructs.time \div Interval
    /\ setpt_diffs' = Division(instructs.setpoint - currsetpt', n')
    /\ UNCHANGED <<instructs, curr_pos, bound, islot, slots>>

Write(slot, value) == slots' = [s \in (DOMAIN slots) \cup {slot} |-> IF s = slot THEN value ELSE slots[s]]

\* Slot i; the loop ends before n - 1, so that slot is never written.
Loop ==
    /\ spc = "loop" /\ islot < n - 1
    /\ Write(islot, AsUInt16(currsetpt + (islot + 1) * setpt_diffs))
    /\ islot' = islot + 1
    /\ UNCHANGED <<instructs, curr_pos, bound, spc, currsetpt, n, setpt_diffs>>

\* Slot n is the target itself; slots 0 to n are posted.
PostSmooth ==
    /\ spc = "loop" /\ islot >= n - 1 /\ spc' = "posted"
    /\ Write(n, instructs.setpoint)
    /\ UNCHANGED <<instructs, curr_pos, bound, currsetpt, n, islot, setpt_diffs>>

Done == spc = "posted" /\ UNCHANGED smoothVars

SmoothInit ==
    /\ instructs \in [time : 0 .. MaxTime, setpoint : UInt16]
    /\ bound \in Ranges
    /\ curr_pos \in 0 .. bound
    /\ spc = "pos"
    /\ currsetpt = 0 /\ n = 0 /\ islot = 0 /\ setpt_diffs = 0
    /\ slots = [s \in {} |-> 0]

SmoothNext == ReadPosition \/ Widen \/ ReadBound \/ Loop \/ PostSmooth \/ Done

SmoothSpec == SmoothInit /\ [][SmoothNext]_smoothVars

(***************************************************************************)
(* Properties                                                              *)
(***************************************************************************)

SmoothTypeOK ==
    /\ curr_pos \in Positions /\ bound \in Ranges
    /\ n \in 0 .. MaxTime /\ islot \in 0 .. MaxTime
    /\ currsetpt \in Int /\ setpt_diffs \in Int
    /\ DOMAIN slots \subseteq 0 .. n

\* The setpoints written lie one after the other between x and the target.
Unidirectional(x) ==
    LET between(a, b, c) == (a <= b /\ b <= c) \/ (a >= b /\ b >= c) IN
    \A s \in DOMAIN slots :
        /\ between(x, slots[s], instructs.setpoint)
        /\ \A t \in DOMAIN slots : s < t => between(slots[s], slots[t], instructs.setpoint)

\* What SMOOTH writes of a motion that starts between the margins goes straight
\* to the target: no intermediate setpoint wraps around or overshoots, even if
\* the range is widened while it is computed.  Of the slots 0 to n it posts it
\* writes all but n - 1, wherever it starts, and as long as the time is less
\* than that of a full buffer it writes none behind the end of the buffer, the
\* slot n of the target included (comm.c:241-262).
SmoothInsideMargins ==
    /\ currsetpt \in UInt16 => Unidirectional(currsetpt)
    /\ spc = "posted" => DOMAIN slots = (0 .. n) \ {n - 1}
    /\ instructs.time < Room * Interval => \A s \in DOMAIN slots : s < Room

(***************************************************************************)
(* What the source says and the code does not do: SMOOTH "Converts smooth  *)
(* command into a set of uni-directional setpoint commands at equal        *)
(* intervals" (comm.c:232)                                                 *)
(***************************************************************************)

\* Every slot of the sequence that is posted is one of those setpoints.
SmoothFillsItsSlots == spc = "posted" => DOMAIN slots = 0 .. n

\* They lie between the start and the target wherever the motion starts.
SmoothIsUnidirectional == Unidirectional(currsetpt)
=============================================================================
