--------------------------- MODULE SetpointPlayer ---------------------------
(***************************************************************************)
(* What the motion driver promises, without buffers, pointers, threads or  *)
(* counters: setpoint messages are taken in the order they were posted; a  *)
(* message waits out its delay and then replaces the one that is playing;  *)
(* the one that is playing follows its timeline, one setpoint per tick,    *)
(* without skipping or repeating any, as many times as it asks for; and    *)
(* when it is over the motor is switched off.                              *)
(***************************************************************************)
EXTENDS Integers, Sequences, SequencesExt

CONSTANTS
    Endless,    \* the loop count that means for ever
    Nothing,    \* no message
    Off         \* the motor without output

VARIABLES
    queue,      \* messages posted and not yet taken
    pending,    \* the message that waits for its delay
    waited,     \* ticks it has waited
    current,    \* the message that plays
    elapsed,    \* ticks it has played, modulo its timeline when endless
    output      \* what the motor does

vars == <<queue, pending, waited, current, elapsed, output>>

\* A duration of 0 is played as one of 1.
Ticks(slot) == IF slot.duration = 0 THEN 1 ELSE slot.duration

\* The setpoints of one pass through message m, one per tick.
Timeline(m) ==
    FlattenSeq([i \in DOMAIN m.slots |->
                   [t \in 1 .. Ticks(m.slots[i]) |-> m.slots[i].setpoint]])

Over(m, t) ==
    \/ m.slots = <<>>
    \/ m.loop # Endless /\ t >= m.loop * Len(Timeline(m))

Init ==
    /\ queue = <<>>
    /\ pending = Nothing /\ waited = 0
    /\ current = Nothing /\ elapsed = 0
    /\ output = Off

Post ==
    /\ queue' # <<>> /\ Front(queue') = queue
    /\ UNCHANGED <<pending, waited, current, elapsed, output>>

Flush ==
    /\ queue' = <<>>
    /\ UNCHANGED <<pending, waited, current, elapsed, output>>

Take ==
    /\ pending = Nothing /\ queue # <<>>
    /\ pending' = Head(queue) /\ waited' = 0
    /\ queue' = Tail(queue)
    /\ UNCHANGED <<current, elapsed, output>>

Wait ==
    /\ pending # Nothing /\ waited < pending.delay
    /\ waited' = waited + 1
    /\ UNCHANGED <<queue, pending, current, elapsed, output>>

Start ==
    /\ pending # Nothing /\ waited = pending.delay
    /\ current' = pending /\ elapsed' = 0
    /\ pending' = Nothing /\ waited' = 0
    /\ UNCHANGED <<queue, output>>

Play ==
    /\ current # Nothing /\ ~Over(current, elapsed)
    /\ LET line == Timeline(current)
       IN  /\ output' = line[(elapsed % Len(line)) + 1]
           /\ elapsed' = IF current.loop = Endless THEN (elapsed + 1) % Len(line)
                                                   ELSE elapsed + 1
    /\ UNCHANGED <<queue, pending, waited, current>>

Stop ==
    /\ current = Nothing \/ Over(current, elapsed)
    /\ current' = Nothing /\ elapsed' = 0
    /\ output' \in {output, Off}
    /\ UNCHANGED <<queue, pending, waited>>

Next == Post \/ Flush \/ Take \/ Wait \/ Start \/ Play \/ Stop

Spec == Init /\ [][Next]_vars
=============================================================================
