-------------------------- MODULE MotionLifecycle --------------------------
(***************************************************************************)
(* Starting and stopping the motion driver of actuator/motion.c: a caller  *)
(* on the main thread uses motionStart and motionStop of motion.h while    *)
(* setpoints are posted to the mailbox.                                    *)
(*                                                                         *)
(* driver_thread looks whether it should end only between two periods;     *)
(* then it sleeps on the semaphore that only the timer signals.  It has    *)
(* the highest priority: the caller runs while the thread sleeps on the    *)
(* semaphore or in the position sampling of the PID render driver.         *)
(***************************************************************************)
EXTENDS MotionDriver

CONSTANT Payload    \* the messages that are posted

ASSUME PayloadAssumption == Payload \subseteq Message

VARIABLES
    state,      \* MOTION_STOP or MOTION_READY
    timer,      \* the timer of GPTD2 runs
    thread,     \* "none", "alive" or, when its function has returned, "final"
    term,       \* chThdTerminate has been called
    asleep,     \* the thread is in chBSemWait
    caller,     \* what the main thread does
    hung,       \* history: the thread was asleep when it was told to end
    leaked      \* history: what nextsp named when the driver was stopped

lifeVars == <<state, timer, thread, term, asleep, caller, hung, leaked>>
allLifeVars == <<bufferVars, motionVars, lifeVars>>

(***************************************************************************)
(* The timer and the thread                                                *)
(***************************************************************************)

TimerInterrupt == timer /\ Tick /\ UNCHANGED lifeVars

\* Mutant: goes back to the semaphore first.
EndsLate == term /\ ~timer /\ ready

\* chThdShouldTerminate.
Ends == term

\* The test at the head of the loop.
ShouldTerminate ==
    /\ thread = "alive" /\ mpc = "wait" /\ ~asleep
    /\ IF Ends THEN thread' = "final" /\ active' = FALSE /\ UNCHANGED asleep
               ELSE asleep' = TRUE /\ UNCHANGED <<thread, active>>
    /\ UNCHANGED <<bufferVars, ready, mpc, sp, nextsp, delay, loop, cursorVars, motor,
                   state, timer, term, caller, hung, leaked>>

Period ==
    /\ thread = "alive"
    /\ mpc = "wait" => asleep
    /\ MotionStep
    /\ asleep' = FALSE
    /\ UNCHANGED <<state, timer, thread, term, caller, hung, leaked>>

\* The thread does not run, or sleeps: the main thread does.
MainRuns ==
    \/ thread # "alive"
    \/ asleep /\ ~ready
    \/ mpc \in {"reset", "willRender"}

(***************************************************************************)
(* The main thread                                                         *)
(***************************************************************************)

\* motionStart: the thread preempts before the timer is started.
StartThread ==
    /\ MainRuns /\ caller = "idle" /\ state = "STOP"
    /\ thread' = "alive" /\ term' = FALSE /\ asleep' = FALSE
    /\ mpc' = "wait" /\ active' = FALSE
    /\ caller' = "starting"
    /\ UNCHANGED <<bufferVars, ready, sp, nextsp, delay, loop, cursorVars, motor,
                   state, timer, hung, leaked>>

StartTimer ==
    /\ MainRuns /\ caller = "starting"
    /\ timer' = TRUE
    /\ state' = "READY"
    /\ caller' = "idle"
    /\ UNCHANGED <<bufferVars, motionVars, thread, term, asleep, hung, leaked>>

\* motionStop stops the timer, tells the thread to end and waits for it.  The
\* thread may finish its period and go to sleep before it is told.
StopTimer ==
    /\ MainRuns /\ caller = "idle" /\ state = "READY"
    /\ timer' = FALSE
    /\ caller' = "stopping"
    /\ UNCHANGED <<bufferVars, motionVars, state, thread, term, asleep, hung, leaked>>

\* chThdTerminate.
TellToEnd ==
    /\ MainRuns /\ caller = "stopping"
    /\ term' = TRUE
    /\ hung' = asleep
    /\ caller' = "joining"
    /\ UNCHANGED <<bufferVars, motionVars, state, timer, thread, asleep, leaked>>

\* Mutant: does not wait for the thread.
DoesNotWait == TRUE

\* chThdWait.
Joined == thread = "final"

\* Mutant: forgets the current buffer as it forgets the next one.
KeepsSp == UNCHANGED <<pool, heap>>

\* chPoolFree of the current buffer; the next one is not freed.
FreeCurrent == FreeSp

\* The rest of motionStop, with motionObjectInit.
StopDriver ==
    /\ MainRuns /\ caller = "joining" /\ Joined
    /\ FreeCurrent
    /\ leaked' = leaked \cup ({nextsp} \ {NULL})
    /\ ready' = TRUE
    /\ sp' = NULL /\ nextsp' = NULL /\ spindex' = 0 /\ loop' = 0
    /\ state' = "STOP"
    /\ thread' = IF thread = "final" THEN "none" ELSE thread
    /\ caller' = "idle"
    /\ UNCHANGED <<mbox, mpc, delay, duration, setpoint, active, motor,
                   timer, term, asleep, hung>>

\* The comm driver fills a buffer and posts it, whatever the driver's state.
PostMessage ==
    /\ MainRuns /\ caller = "idle"
    /\ \E b \in pool, m \in Payload :
         /\ pool' = pool \ {b}
         /\ heap' = [heap EXCEPT ![b] = m]
         /\ chMBPost(b)
    /\ UNCHANGED <<motionVars, lifeVars>>

(***************************************************************************)
(* Specification                                                           *)
(***************************************************************************)

\* After motionInit.
LifeInit ==
    /\ InitBuffers /\ InitMotion
    /\ state = "STOP" /\ timer = FALSE
    /\ thread = "none" /\ term = FALSE /\ asleep = FALSE
    /\ caller = "idle"
    /\ hung = FALSE /\ leaked = {}

\* The thread sleeps on a semaphore nobody signals and the main thread waits
\* for the thread.
Hung ==
    /\ caller = "joining" /\ thread = "alive" /\ asleep /\ ~ready
    /\ UNCHANGED allLifeVars

LifeNext ==
    \/ TimerInterrupt \/ ShouldTerminate \/ Period
    \/ StartThread \/ StartTimer
    \/ StopTimer \/ TellToEnd \/ StopDriver \/ PostMessage
    \/ Hung

LifeSpec == LifeInit /\ [][LifeNext]_allLifeVars

(***************************************************************************)
(* Properties                                                              *)
(***************************************************************************)

LifeTypeOK ==
    /\ BuffersTypeOK /\ MotionTypeOK
    /\ state \in {"STOP", "READY"} /\ thread \in {"none", "alive", "final"}
    /\ caller \in {"idle", "starting", "stopping", "joining"}
    /\ timer \in BOOLEAN /\ term \in BOOLEAN /\ asleep \in BOOLEAN /\ hung \in BOOLEAN
    /\ leaked \subseteq Buffer

Lost == Buffer \ (pool \cup Queued \cup {sp, nextsp})

\* However often the driver is stopped and started, in the middle of a period
\* or between two, only the buffer waiting as nextsp is lost (motion.c:224-230
\* frees sp alone), the thread never renders from a buffer the stop has freed,
\* and no thread of an earlier start is left when the next one is created in
\* the same working area.
StopIsClean ==
    /\ Lost = leaked
    /\ sp \notin pool /\ nextsp \notin pool
    /\ thread = "alive" /\ mpc \in {"reset", "willRender", "render"} => sp # NULL
    /\ state = "STOP" /\ caller = "idle" => thread = "none"

\* motionStop, which no code of the firmware calls, returns when it told the
\* thread to end in a period, for the thread then looks before it sleeps; when
\* it told it asleep, perhaps since the timer was stopped, nothing wakes it any
\* more (motion.c:144-147,214-221).
StopHangsOnlyOnSleep ==
    caller = "joining" => /\ asleep = hung
                          /\ hung => ~ready /\ ~timer
=============================================================================
