------------------------------ MODULE Sampling ------------------------------
(***************************************************************************)
(* The fabric pressure sensor: main.c runs a state machine that starts and *)
(* stops sampling as the USB comes and goes, sensor.c has a thread that a  *)
(* timer wakes to sample the grid and write the result to the USB.         *)
(*                                                                         *)
(* The sampling thread has the highest priority: main runs only while it   *)
(* is blocked.  Timer and USB interrupts come at any time.                 *)
(***************************************************************************)
EXTENDS Integers

CONSTANT OutQueue     \* writes the USB output queue holds

ASSUME OutQueueAssumption == OutQueue \in Nat \ {0}

VARIABLES
    usb,       \* usbp->state == USB_ACTIVE
    oq,        \* writes in the output queue
    state,     \* the state machine of sample_on_connection
    mpc,       \* where main is inside cm_sensor_start and cm_sensor_stop
    tp,        \* sampling_thread_tp is set
    timer,     \* GPTD2 is running
    trigger,   \* gpt_trigger is signalled
    spc,       \* where sampling_thread is
    term       \* chThdTerminate has been called for the thread

usbVars == <<usb, oq>>
mainVars == <<state, mpc, tp, timer>>
threadVars == <<spc, term>>
vars == <<usbVars, mainVars, trigger, threadVars>>

TypeOK ==
    /\ usb \in BOOLEAN
    /\ oq \in 0 .. OutQueue
    /\ state \in {"UNINIT", "READY", "ACTIVE", "STOP"}
    /\ mpc \in {"loop", "startTimer", "terminate"}
    /\ tp \in BOOLEAN
    /\ timer \in BOOLEAN
    /\ trigger \in BOOLEAN
    /\ spc \in {"none", "wait", "sample", "header", "data", "final"}
    /\ term \in BOOLEAN

Init ==
    /\ usb = FALSE /\ oq = 0
    /\ state = "UNINIT" /\ mpc = "loop" /\ tp = FALSE /\ timer = FALSE
    /\ trigger = TRUE          \* BSEMAPHORE_DECL(gpt_trigger, FALSE)
    /\ spc = "none" /\ term = FALSE

(***************************************************************************)
(* sampling_thread                                                         *)
(***************************************************************************)

\* "while (!chThdShouldTerminate())"
NextRound == IF term THEN "final" ELSE "wait"

\* Mutant: may end between the two writes.
EndsBetweenWrites == IF term THEN "final" ELSE IF spc = "header" THEN "data" ELSE "wait"

AfterWrite == IF spc = "header" THEN "data" ELSE NextRound

\* Mutant: writes without waiting for room.
NeverBlocked == FALSE

WriteBlocked == spc \in {"header", "data"} /\ oq = OutQueue

WaitTrigger ==
    /\ spc = "wait" /\ trigger
    /\ trigger' = FALSE
    /\ spc' = "sample"
    /\ UNCHANGED <<usbVars, mainVars, term>>

\* The thread sleeps in each of the 64 conversions of the grid.
sample_grid ==
    /\ spc = "sample"
    /\ spc' = "header"
    /\ UNCHANGED <<usbVars, mainVars, trigger, term>>

Write ==
    /\ spc \in {"header", "data"} /\ ~WriteBlocked
    /\ oq' = oq + 1
    /\ spc' = AfterWrite
    /\ UNCHANGED <<usb, mainVars, trigger, term>>

SamplingThread == WaitTrigger \/ sample_grid \/ Write

(***************************************************************************)
(* Interrupts                                                              *)
(***************************************************************************)

gpt_callback ==
    /\ timer
    /\ trigger' = TRUE
    /\ UNCHANGED <<usbVars, mainVars, threadVars>>

\* USB_EVENT_CONFIGURED resets the queue; a write blocked on it returns.  The
\* host may also configure a device that is configured already.
Configured ==
    /\ usb' = TRUE
    /\ oq' = 0
    /\ spc' = IF WriteBlocked THEN AfterWrite ELSE spc
    /\ UNCHANGED <<mainVars, trigger, term>>

Disconnected ==
    /\ usb
    /\ usb' = FALSE
    /\ UNCHANGED <<oq, mainVars, trigger, threadVars>>

HostReads ==
    /\ usb /\ oq > 0
    /\ oq' = oq - 1
    /\ UNCHANGED <<usb, mainVars, trigger, threadVars>>

(***************************************************************************)
(* sample_on_connection, with cm_sensor_start and cm_sensor_stop           *)
(***************************************************************************)

ThreadBlocked ==
    \/ spc \in {"none", "sample", "final"}
    \/ spc = "wait" /\ ~trigger
    \/ WriteBlocked

Terminated == spc = "final"

FindConnected ==
    /\ state = "UNINIT"
    /\ usb
    /\ state' = "READY"
    /\ UNCHANGED <<mpc, tp, timer, threadVars>>

FindDisconnected ==
    /\ state = "ACTIVE"
    /\ ~usb
    /\ state' = "STOP"
    /\ UNCHANGED <<mpc, tp, timer, threadVars>>

\* Mutant: starts the timer whether or not it has created the thread.
StartAlwaysTimer ==
    /\ state = "READY" /\ mpc = "loop"
    /\ mpc' = "startTimer"
    /\ IF tp /\ ~Terminated
         THEN UNCHANGED <<tp, threadVars>>
         ELSE spc' = "wait" /\ term' = FALSE /\ tp' = TRUE
    /\ UNCHANGED <<state, timer>>

\* "Does nothing if the thread is still running."
cm_sensor_start ==
    /\ state = "READY" /\ mpc = "loop"
    /\ IF tp /\ ~Terminated
         THEN state' = "ACTIVE" /\ UNCHANGED <<mpc, tp, threadVars>>
         ELSE /\ mpc' = "startTimer"
              /\ spc' = "wait" /\ term' = FALSE /\ tp' = TRUE
              /\ UNCHANGED state
    /\ UNCHANGED timer

\* Mutant: creates the thread only.
StartNoTimer ==
    /\ mpc = "startTimer"
    /\ mpc' = "loop"
    /\ state' = "ACTIVE"
    /\ UNCHANGED <<tp, timer, threadVars>>

\* gptStartContinuous, after the new thread has run up to its first wait.
StartTimer ==
    /\ mpc = "startTimer"
    /\ timer' = TRUE
    /\ mpc' = "loop"
    /\ state' = "ACTIVE"
    /\ UNCHANGED <<tp, threadVars>>

\* Mutant: asks the thread to terminate before it stops the timer.
TerminateFirst ==
    \/ /\ state = "STOP" /\ mpc = "loop"
       /\ IF ~tp \/ Terminated
            THEN state' = "UNINIT" /\ tp' = FALSE /\ UNCHANGED <<mpc, term>>
            ELSE mpc' = "terminate" /\ term' = TRUE /\ UNCHANGED <<state, tp>>
       /\ UNCHANGED <<timer, spc>>
    \/ /\ mpc = "terminate"
       /\ timer' = FALSE
       /\ mpc' = "loop"
       /\ state' = "UNINIT"
       /\ UNCHANGED <<tp, threadVars>>

\* Mutant: forgets a thread that may still have work to finish.
StopForgets ==
    \/ /\ state = "STOP" /\ mpc = "loop"
       /\ mpc' = "terminate" /\ timer' = FALSE
       /\ UNCHANGED <<state, tp, threadVars>>
    \/ /\ mpc = "terminate"
       /\ term' = TRUE /\ tp' = FALSE
       /\ mpc' = "loop"
       /\ state' = "UNINIT"
       /\ UNCHANGED <<timer, spc>>

\* "Does nothing if the thread is not running."
cm_sensor_stop ==
    \/ /\ state = "STOP" /\ mpc = "loop"
       /\ IF ~tp \/ Terminated
            THEN state' = "UNINIT" /\ tp' = FALSE /\ UNCHANGED <<mpc, timer>>
            ELSE mpc' = "terminate" /\ timer' = FALSE /\ UNCHANGED <<state, tp>>
       /\ UNCHANGED threadVars
    \/ /\ mpc = "terminate"
       /\ term' = TRUE
       /\ mpc' = "loop"
       /\ state' = "UNINIT"
       /\ UNCHANGED <<tp, timer, spc>>

MainThread ==
    /\ ThreadBlocked
    /\ \/ FindConnected \/ FindDisconnected
       \/ cm_sensor_start \/ StartTimer \/ cm_sensor_stop
    /\ UNCHANGED <<usbVars, trigger>>

Next ==
    \/ SamplingThread \/ MainThread
    \/ gpt_callback \/ Configured \/ Disconnected \/ HostReads

Spec == Init /\ [][Next]_vars

(***************************************************************************)
(* Fairness: the processor runs whichever thread may run, a running timer  *)
(* ticks and a connected host reads.  The sampling thread needs a small    *)
(* part of the 10 ms between two ticks, so main gets its turn.  Nothing    *)
(* obliges anybody to plug in the cable.                                   *)
(***************************************************************************)
Fairness ==
    /\ WF_vars(SamplingThread)
    /\ SF_vars(MainThread)
    /\ WF_vars(gpt_callback)
    /\ WF_vars(HostReads)

FairSpec == Spec /\ Fairness

(***************************************************************************)
(* Properties                                                              *)
(***************************************************************************)

Alive == spc \notin {"none", "final"}

\* The static working area is never given to a second thread while the first
\* one lives: sampling_thread_tp names the thread for as long as it lives,
\* stops, early returns and restarts included (sensor.c:208-215,230-236).
LivingThreadIsKnown == Alive => tp

\* The timer ticks only for a thread that lives and has not been asked to
\* terminate, between the steps of a start or stop too (sensor.c:212-219,238).
TimerHasThread == timer => Alive /\ ~term

\* Once a thread has been asked to terminate it takes no further sample,
\* although it is waiting for a trigger or in the middle of a sample when it is
\* asked: the timer is stopped first (sensor.c:238-239).
NoSampleAfterTerminate ==
    [][(spc = "wait" /\ spc' = "sample") => ~term]_vars

\* main never notices a dropped connection.
NeverStopped == [](state # "STOP")

\* While the first connection lasts grids are sampled again and again: no tick
\* gets lost in a way that leaves the thread, the queue and the host waiting
\* for one another (sensor.c:162-183,208-220).
ConnectionIsSampled ==
    NeverStopped /\ <>[]usb => []<>(spc = "sample")

\* "Activate the sampling timer when the USB is connected ... start and stop
\* the sampling timer on USB connect and disconnect, respectively"
\* (main.c:32-35): while the USB stays connected grids are sampled, after a
\* disconnection too.
ReconnectionIsSampled == <>[]usb => []<>(spc = "sample")
=============================================================================
