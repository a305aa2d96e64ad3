------------------------------ MODULE Actuator ------------------------------
(***************************************************************************)
(* The actuator: the comm driver on the main thread and the motion driver  *)
(* on its own, sharing the setpoint buffers on one processor.              *)
(*                                                                         *)
(* The motion thread has the highest priority, so the main thread runs     *)
(* only while the motion thread is blocked: waiting for the timer, or      *)
(* sleeping while the PID render driver samples the position sensor.  The  *)
(* timer interrupt may come at any time.                                   *)
(***************************************************************************)
EXTENDS MotionDriver, CommDriver

vars == <<bufferVars, motionVars, commVars>>

Init == InitBuffers /\ InitMotion /\ InitComm

TypeOK == BuffersTypeOK /\ MotionTypeOK /\ CommTypeOK

MotionWaits == mpc = "wait" /\ ~ready

\* The purr motor is rendered without sampling a sensor.
MotionBlocked == MotionWaits \/ (~IsPurr /\ mpc \in {"reset", "willRender"})

Running == fault # "trapped"

TimerInterrupt == Running /\ Tick /\ UNCHANGED commVars

MotionThread == Running /\ MotionStep /\ UNCHANGED commVars

MainReceives == Running /\ MotionBlocked /\ ReceiveCommand /\ UNCHANGED motionVars

MainHandles == Running /\ MotionBlocked /\ HandleCommand /\ UNCHANGED motionVars

\* The fault handler of the vector table loops for ever.
Halted == ~Running /\ UNCHANGED vars

Next == TimerInterrupt \/ MotionThread \/ MainReceives \/ MainHandles \/ Halted

Spec == Init /\ [][Next]_vars

(***************************************************************************)
(* Fairness: the timer keeps running, the motion thread is never preempted *)
(* and a receive in progress ends by its timeout.  Nothing obliges the     *)
(* master to send.  The work of a period fits in it again and again, so    *)
(* the motion thread waits for the timer infinitely often and the main     *)
(* thread, the only other one, then runs.                                  *)
(***************************************************************************)
Fairness ==
    /\ WF_vars(TimerInterrupt)
    /\ WF_vars(MotionThread)
    /\ []<>(MotionWaits \/ ~Running)
    /\ SF_vars(MainHandles)

FairSpec == Spec /\ Fairness

(***************************************************************************)
(* Ownership of the buffers                                                *)
(***************************************************************************)

\* Buffers some list or pointer still names; the others are lost for good.
Reachable == pool \cup Queued \cup NonNull(buf) \cup NonNull(aux) \cup NonNull(sp) \cup NonNull(nextsp)
Lost == Buffer \ Reachable

PoolApart ==
    /\ pool \cap Queued = {}
    /\ \A p \in {buf, aux, sp, nextsp} : p \notin pool \cup Queued

PointersDistinct ==
    /\ Distinct(buf, aux) /\ Distinct(buf, sp) /\ Distinct(buf, nextsp)
    /\ Distinct(aux, sp) /\ Distinct(aux, nextsp) /\ Distinct(sp, nextsp)

\* Every buffer has at most one owner among the pool, the mailbox, the two
\* pointers of the main thread and the two of the motion thread, and the
\* mailbox names it once: no double free, no write to a queued message, no
\* render from a freed one (comm.c:137,187,288 and motion.c:38-43,82-84 hand
\* the buffers over).
ExclusiveOwnership ==
    /\ QueuedOnce
    /\ PoolApart
    /\ PointersDistinct

\* A buffer the motion driver can reach - queued, next or current - holds the
\* message that was posted: nobody frees or refills it under the reader
\* (comm.c:187,228,262 give it away, motion.c:40 takes it back).  Not all of its
\* slots were written: exactly the last but one is left over in what SMOOTH
\* posts (comm.c:254-259), and the end is in a SETPOINT that announces more
\* slots than it carries; no other slot the motion driver plays is stale.
PostedIsWritten ==
    \A p \in Queued \cup NonNull(nextsp) \cup NonNull(sp) :
        IsWritten(p) /\ (AsReceived(heap[p]) \/ AsSmoothed(heap[p]))

\* What makes PostedIsWritten inductive: a pointer about to be posted has been
\* filled too, and what fills a buffer leaves no more than that unwritten.
Filled ==
    Queued \cup NonNull(nextsp) \cup NonNull(sp)
      \cup (IF \/ cpc \in {"reset", "post"}
               \/ cpc \in {"footer", "service"} /\ cmd = "SETPOINT"
              THEN NonNull(buf) ELSE {})
      \cup (IF cpc \in {"smoothPost", "testPost", "testPost2"} THEN NonNull(aux) ELSE {})

\* commHandle starts each command without a buffer.
IdleHoldsNothing == cpc = "idle" => buf = NULL

FilledIsWritten == \A p \in Filled : IsWritten(p)

FilledAsSent == \A b \in Buffer : IsWritten(b) => AsReceived(heap[b]) \/ AsSmoothed(heap[b])

\* Until a store through a null pointer has been survived, no null pointer is
\* in the mailbox or about to be posted.
NoNullPosted ==
    /\ cpc \in {"testPost", "testPost2"} => aux # NULL
    /\ fault = "none" =>
         /\ \A i \in DOMAIN mbox : mbox[i] # NULL
         /\ cpc \in {"reset", "post"} => buf # NULL
         /\ cpc = "smoothPost" => aux # NULL

\* As long as no null pointer has been posted the mailbox cannot be full when
\* a message is posted: the TIME_IMMEDIATE posts of comm.c never fail and the
\* TIME_INFINITE posts of commtest.c:41,65 never block, because every queued
\* pointer is one of as many buffers as the mailbox has slots.
PostHasRoom ==
    (fault = "none" /\ \/ cpc \in {"post", "smoothPost", "testPost", "testPost2"}
                       \/ cpc = "service" /\ cmd = "SETPOINT" /\ buf # NULL)
        => MailboxHasRoom

\* What driver_thread is about to render is the slot spindex of the current
\* sequence, with no more time left than the slot asks for and no more loops
\* than the message asks for, although the cursor was loaded a period ago and
\* the main thread ran in between (motion.c:52-58,107-116,152-164).
RendersCurrentSlot ==
    mpc \in {"reset", "willRender", "render"} =>
        /\ IsWritten(sp)
        /\ spindex < Len(heap[sp].slots)
        /\ setpoint = heap[sp].slots[spindex + 1].setpoint
        /\ duration <= heap[sp].slots[spindex + 1].duration
        /\ loop \in 1 .. heap[sp].loop

\* While a sequence stays current its loop count falls by one at the end of a
\* pass and never below zero, where the uint16_t would become
\* MSGTYPE_LOOP_INFINITE and the sequence would never end; an infinite loop
\* stays infinite (motion.c:109-112 decrements without looking,
\* motion.c:127-135 must have looked before).
LoopOnlyCountsDown ==
    [][(sp # NULL /\ sp' = sp /\ loop' # loop) =>
          loop \notin {0, LOOP_INFINITE} /\ loop' = loop - 1]_vars

\* A buffer drops out of circulation in two places only: chMBReset, which
\* forgets the queued ones (comm.c:185), and the post of MSGTYPE_SMOOTH, which
\* forgets the received one (comm.c:261-263).  Every other path, the error
\* paths of comm_lld_receive included, frees or passes on what it holds.
OnlyFlushAndSmoothLose ==
    [][Lost' # Lost =>
          /\ Lost \subseteq Lost'
          /\ (cpc = "reset" /\ mbox # <<>>) \/ cpc = "smoothPost"]_vars

(***************************************************************************)
(* Progress                                                                *)
(***************************************************************************)

StopQueued == \E b \in Queued : heap[b] = StopMessage

\* Once a stop message is in the mailbox the motor is eventually off, whatever
\* plays or waits - an infinite sequence included - unless another SLEEP
\* flushes the mailbox first or a null pointer was posted instead of a buffer.
StopTakesEffect ==
    StopQueued ~> (motor = Off \/ cpc = "reset" \/ fault # "none")

\* A posted sequence does not wait for ever behind the current one: it is
\* started, flushed, or the program has trapped.
PostedIsStarted ==
    \A b \in Buffer :
        (b \in Queued \cup NonNull(nextsp)) ~> (b \notin Queued \cup NonNull(nextsp) \/ ~Running)

(***************************************************************************)
(* What the source says and the code does not do                           *)
(***************************************************************************)

\* MSGTYPE_SLEEP "deactivate motor output" (msgtype.h:33): a SLEEP command
\* has a stop message to post.
SleepHasMessage == (cpc = "post" /\ cmd = "SLEEP") => buf # NULL

\* MSGTYPE_SLEEP "deactivate motor output" (msgtype.h:33): no sequence starts
\* while the stop message waits in the mailbox.
NothingStartsBeforeStop ==
    [][(StopQueued /\ sp' \notin {sp, NULL}) => heap[sp'] = StopMessage]_vars
=============================================================================
