--------------------------- MODULE ActuatorPlayer ---------------------------
(***************************************************************************)
(* The actuator implements SetpointPlayer.  The refinement mapping reads   *)
(* messages through the pointers and turns the motion driver's down        *)
(* counters (delay, loop, duration) and its slot index into time waited    *)
(* and time played.                                                        *)
(***************************************************************************)
EXTENDS Actuator

\* What a buffer nobody has filled contains stands for no message.
Nothing == Unwritten

Content(p) == IF p = NULL THEN Nothing ELSE heap[p]

\* A null pointer in the mailbox is no message, and is taken like one.
QueuedMessages == [i \in DOMAIN mbox |-> Content(mbox[i])]

\* The message that waits for its delay, and for how long it has waited.
Pending == Content(nextsp)

Waited == IF nextsp = NULL THEN 0 ELSE heap[nextsp].delay - delay

AtLeastOne(d) == IF d = 0 THEN 1 ELSE d

\* Ticks of the first slots of message m, none to all of them.
TicksBefore(m) ==
    LET sum[k \in 0 .. Len(m.slots)] ==
            IF k = 0 THEN 0 ELSE sum[k - 1] + AtLeastOne(m.slots[k].duration)
    IN  sum

\* The message that plays.
Current == Content(sp)

PlayedInSlot == AtLeastOne(Current.slots[spindex + 1].duration) - AtLeastOne(duration)

\* Ticks of one pass through the current message, ticks played in this pass,
\* and ticks played in all.
PassTicks == TicksBefore(Current)[Len(Current.slots)]
PassPlayed == TicksBefore(Current)[spindex] + PlayedInSlot
Played ==
    IF sp = NULL \/ Current.slots = <<>> THEN 0
    ELSE (Current.loop - loop) * PassTicks + PassPlayed

Player == INSTANCE SetpointPlayer WITH
    Endless <- LOOP_INFINITE,
    queue   <- QueuedMessages,
    pending <- Pending,
    waited  <- Waited,
    current <- Current,
    elapsed <- Played,
    output  <- motor

\* The setpoint sequences the master posts are played as SetpointPlayer says,
\* whatever the interleaving of the two threads and the timer: in order, each
\* with its own contents although its buffer is reused afterwards, for exactly
\* the ticks its durations and loop count add up to (motion.c:38-175).
PlaysSetpoints == Player!Spec
=============================================================================
