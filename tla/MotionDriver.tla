---------------------------- MODULE MotionDriver ----------------------------
(***************************************************************************)
(* The motion driver of actuator/motion.c: the thread that a 1 kHz timer   *)
(* interrupt wakes through the binary semaphore `ready' and that, each     *)
(* millisecond, takes setpoint buffers from the mailbox, waits out their    *)
(* delay, and renders one setpoint on the motor.                           *)
(*                                                                         *)
(* One action per function driver_thread calls; mpc is the function it is   *)
(* about to call.  "reset" and "willRender" are the calls during which the *)
(* PID render driver sleeps until the position sensor has been sampled.    *)
(***************************************************************************)
EXTENDS SetpointBuffers

CONSTANT Off        \* the motor after motorSet(0) by driver_thread

ASSUME OffAssumption == Off \notin Setpoint

VARIABLES
    ready,      \* the binary semaphore is signalled
    mpc,        \* where driver_thread is
    sp,         \* current setpoints
    nextsp,     \* next setpoints
    delay, loop, duration, setpoint, spindex, active,  \* as in MotionDriver
    motor       \* Off, or the setpoint motorSet last rendered

cursorVars == <<duration, setpoint, spindex>>
motionVars == <<ready, mpc, sp, nextsp, delay, loop, duration, setpoint,
                spindex, active, motor>>

MotionPC == {"wait", "load", "activate", "empty", "update",
             "reset", "willRender", "render"}

InitMotion ==
    /\ ready = TRUE       \* chBSemInit(&ready, FALSE): not taken
    /\ mpc = "wait"
    /\ sp = NULL /\ nextsp = NULL
    /\ delay = 0 /\ loop = 0 /\ duration = 0 /\ setpoint = 0 /\ spindex = 0
    /\ active = FALSE
    /\ motor = Off

MotionTypeOK ==
    /\ ready \in BOOLEAN
    /\ mpc \in MotionPC
    /\ sp \in Buffer \cup {NULL}
    /\ nextsp \in Buffer \cup {NULL}
    /\ delay \in U16 /\ loop \in U16 /\ duration \in U16
    /\ setpoint \in Setpoint
    /\ spindex \in Nat
    /\ active \in BOOLEAN
    /\ motor \in Setpoint \cup {Off}

(***************************************************************************)
(* Helpers of motion.c                                                     *)
(***************************************************************************)

\* Mutant: frees without looking for NULL.
FreeSpUnchecked == chPoolFree(sp)

\* The pool and heap after motion_lld_free_sp; sp' is the caller's.
FreeSp == IF sp # NULL THEN chPoolFree(sp) ELSE UNCHANGED <<pool, heap>>

\* motion_lld_load_sp_data for buffer p at index i.
LoadSpData(p, i) ==
    \E s \in SlotAt(p, i) :
        /\ duration' = s.duration
        /\ setpoint' = s.setpoint

(***************************************************************************)
(* The timer interrupt and the steps of driver_thread                      *)
(***************************************************************************)

\* gpt_callback.  Signalling a semaphore already signalled changes nothing.
Tick ==
    /\ ready' = TRUE
    /\ UNCHANGED <<bufferVars, mpc, sp, nextsp, delay, loop, cursorVars,
                   active, motor>>

WaitReady ==
    /\ mpc = "wait"
    /\ ready
    /\ ready' = FALSE
    /\ mpc' = "load"
    /\ UNCHANGED <<bufferVars, sp, nextsp, delay, loop, cursorVars, active,
                   motor>>

\* Mutant: lets the current sequence finish before it takes the next.
LoadNextspWhenIdle ==
    /\ mpc = "load"
    /\ mpc' = "activate"
    /\ IF nextsp = NULL /\ sp = NULL /\ mbox # <<>>
         THEN /\ chMBFetch(nextsp')
              /\ delay' \in DelayAt(nextsp')
         ELSE UNCHANGED <<mbox, nextsp, delay>>
    /\ UNCHANGED <<pool, heap, ready, sp, loop, cursorVars, active, motor>>

LoadNextsp ==
    /\ mpc = "load"
    /\ mpc' = "activate"
    /\ IF nextsp = NULL /\ mbox # <<>>
         THEN /\ chMBFetch(nextsp')
              /\ delay' \in DelayAt(nextsp')
         ELSE UNCHANGED <<mbox, nextsp, delay>>
    /\ UNCHANGED <<pool, heap, ready, sp, loop, cursorVars, active, motor>>

\* The delay is over: the next sequence becomes the current one.
ReplaceSp ==
    /\ FreeSp
    /\ sp' = nextsp /\ nextsp' = NULL
    /\ loop' \in LoopAt(nextsp)
    /\ spindex' = 0
    /\ LoadSpData(nextsp, 0)
    /\ UNCHANGED delay

ActivateSpAfterDelay ==
    /\ mpc = "activate"
    /\ mpc' = "empty"
    /\ IF nextsp # NULL /\ delay = 0
         THEN ReplaceSp
         ELSE /\ delay' = IF nextsp = NULL THEN delay ELSE delay - 1
              /\ UNCHANGED <<pool, heap, sp, nextsp, loop, cursorVars>>
    /\ UNCHANGED <<mbox, ready, active, motor>>

FreeSpIfEmpty ==
    /\ mpc = "empty"
    /\ mpc' = "update"
    /\ \E n \in CountAt(sp) :
         IF sp # NULL /\ n = 0 THEN FreeSp /\ sp' = NULL
                               ELSE UNCHANGED <<pool, heap, sp>>
    /\ UNCHANGED <<mbox, ready, nextsp, delay, loop, cursorVars, active, motor>>

\* Mutant: leaves the motor as it was.
HasNoUpdateStaysOn ==
    /\ mpc = "update"
    /\ sp = NULL \/ loop = 0
    /\ FreeSp
    /\ sp' = NULL
    /\ active' = FALSE
    /\ mpc' = "wait"
    /\ UNCHANGED <<mbox, ready, nextsp, delay, loop, cursorVars, motor>>

\* motion_lld_has_update returned false: motorSet(0), active = false.
HasNoUpdate ==
    /\ mpc = "update"
    /\ sp = NULL \/ loop = 0
    /\ FreeSp
    /\ sp' = NULL
    /\ motor' = Off
    /\ active' = FALSE
    /\ mpc' = "wait"
    /\ UNCHANGED <<mbox, ready, nextsp, delay, loop, cursorVars>>

\* Mutant: does not check the iteration count.
HasUpdateUnchecked ==
    /\ mpc = "update"
    /\ sp # NULL
    /\ mpc' = IF active THEN "willRender" ELSE "reset"
    /\ UNCHANGED <<bufferVars, ready, sp, nextsp, delay, loop, cursorVars,
                   active, motor>>

HasUpdate ==
    /\ mpc = "update"
    /\ sp # NULL /\ loop # 0
    /\ mpc' = IF active THEN "willRender" ELSE "reset"
    /\ UNCHANGED <<bufferVars, ready, sp, nextsp, delay, loop, cursorVars,
                   active, motor>>

Reset ==
    /\ mpc = "reset"
    /\ active' = TRUE
    /\ mpc' = "willRender"
    /\ UNCHANGED <<bufferVars, ready, sp, nextsp, delay, loop, cursorVars, motor>>

WillRender ==
    /\ mpc = "willRender"
    /\ mpc' = "render"
    /\ UNCHANGED <<bufferVars, ready, sp, nextsp, delay, loop, cursorVars,
                   active, motor>>

\* Mutant: starts over one slot too late.
NextSlotLate ==
    \E n \in CountAt(sp) :
        LET wrap == spindex + 1 > n
        IN  /\ spindex' = IF wrap THEN 0 ELSE spindex + 1
            /\ loop' = IF wrap /\ loop # LOOP_INFINITE THEN DecrementU16(loop)
                                                       ELSE loop
            /\ LoadSpData(sp, spindex')

\* The part of motion_lld_step_motion that runs once the duration is over.
NextSlot ==
    \E n \in CountAt(sp) :
        LET wrap == spindex + 1 >= n
        IN  /\ spindex' = IF wrap THEN 0 ELSE spindex + 1
            /\ loop' = IF wrap /\ loop # LOOP_INFINITE THEN DecrementU16(loop)
                                                       ELSE loop
            /\ LoadSpData(sp, spindex')

\* Mutant: moves on one tick after the duration has run out.
RenderOnceMore ==
    /\ mpc = "render"
    /\ mpc' = "wait"
    /\ motor' = setpoint
    /\ IF duration > 0
         THEN /\ duration' = duration - 1
              /\ UNCHANGED <<loop, setpoint, spindex>>
         ELSE NextSlot
    /\ UNCHANGED <<bufferVars, ready, sp, nextsp, delay, active>>

\* motorSet(rdRender(setpoint)), then motion_lld_step_motion.
Render ==
    /\ mpc = "render"
    /\ mpc' = "wait"
    /\ motor' = setpoint
    /\ IF duration > 1
         THEN /\ duration' = duration - 1
              /\ UNCHANGED <<loop, setpoint, spindex>>
         ELSE NextSlot
    /\ UNCHANGED <<bufferVars, ready, sp, nextsp, delay, active>>

MotionStep ==
    \/ WaitReady \/ LoadNextsp \/ ActivateSpAfterDelay \/ FreeSpIfEmpty
    \/ HasNoUpdate \/ HasUpdate \/ Reset \/ WillRender \/ Render
=============================================================================
