----------------------------- MODULE MCActuator -----------------------------
(*************************************************************************)
(* Small instances of the actuator for TLC: 2 or 3 buffers, uint16_t     *)
(* counters scaled down to 0..2 or 0..3, and setpoint messages: a plain  *)
(* sequence, a delayed one that loops, an empty one and an endless one,   *)
(* and one that announces a slot more than it carries.                   *)
(*************************************************************************)
EXTENDS ActuatorPlayer, TLC

MCSetpoint == {0, 1}

slot(d, s) == [duration |-> d, setpoint |-> s]

sent(d, l, s, r) == [delay |-> d, loop |-> l, slots |-> s, given |-> 1 .. r]

Moving  == sent(1, 1, <<slot(2, 1), slot(0, 0)>>, 2)
Cut     == sent(1, 1, <<slot(2, 1), slot(0, 0)>>, 1)
Twice   == sent(2, 2, <<slot(2, 1), slot(0, 0)>>, 2)
Empty   == sent(0, 1, <<>>, 0)
Endless == sent(1, LOOP_INFINITE, <<slot(1, 1)>>, 1)

MCPayload == {Moving, Cut}
MCPayloadLoops == {Twice, Empty, Endless}
MCPayloadEndless == {Endless}
MCLeftover == {slot(0, 0), slot(2, 1)}
MCSmoothSlots == {<<slot(1, 0), slot(1, 1)>>}
MCTestSlots == <<slot(1, 0)>>

BufferSymmetry == Permutations(Buffer)
=============================================================================
