-------------------------- MODULE LifecycleProofs --------------------------
(***************************************************************************)
(* Starting and stopping the motion driver, for any number of buffers, any *)
(* mailbox and any messages.                                               *)
(***************************************************************************)
EXTENDS MotionLifecycle, MotionProofs

(***************************************************************************)
(* Type correctness                                                        *)
(***************************************************************************)

LEMMA LifeTypeInit == LifeInit => LifeTypeOK
<1> SUFFICES ASSUME LifeInit PROVE LifeTypeOK
  OBVIOUS
<1>1. BuffersTypeOK
  BY DEF LifeInit, InitBuffers, BuffersTypeOK
<1>2. 0 \in U16
  BY MaxU16Assumption DEF U16
<1>3. ready \in BOOLEAN /\ active \in BOOLEAN
  BY Zenon DEF LifeInit, InitMotion
<1>4. MotionTypeOK
  BY <1>2, <1>3, SetpointAssumption DEF LifeInit, InitMotion, MotionTypeOK, MotionPC
<1>5. timer \in BOOLEAN /\ term \in BOOLEAN /\ asleep \in BOOLEAN /\ hung \in BOOLEAN
  BY Zenon DEF LifeInit
<1> QED BY <1>1, <1>4, <1>5 DEF LifeInit, LifeTypeOK

LEMMA LifeTypeNext ==
    ASSUME LifeTypeOK, [LifeNext]_allLifeVars
    PROVE  LifeTypeOK'
<1> USE DEF LifeTypeOK
<1>1. CASE TimerInterrupt
  BY <1>1 DEF TimerInterrupt, Tick, bufferVars, cursorVars, lifeVars, BuffersTypeOK, MotionTypeOK
<1>2. CASE ShouldTerminate
  <2>1. MotionTypeOK' /\ BuffersTypeOK'
    BY <1>2 DEF ShouldTerminate, bufferVars, cursorVars, BuffersTypeOK, MotionTypeOK
  <2>2. /\ UNCHANGED <<state, timer, term, caller, hung, leaked>>
        /\ thread' \in {"alive", "final"}
    BY <1>2 DEF ShouldTerminate
  <2>3. asleep' \in BOOLEAN
    BY <1>2, Zenon DEF ShouldTerminate
  <2> QED BY <2>1, <2>2, <2>3
<1>3. CASE Period
  BY <1>3, MotionStepTypes DEF Period
<1>4. CASE StartThread
  BY <1>4 DEF StartThread, bufferVars, cursorVars, BuffersTypeOK, MotionTypeOK, MotionPC
<1>5. CASE StartTimer
  BY <1>5 DEF StartTimer, bufferVars, motionVars, BuffersTypeOK, MotionTypeOK
<1>6. CASE StopTimer
  BY <1>6 DEF StopTimer, bufferVars, motionVars, BuffersTypeOK, MotionTypeOK
<1>7. CASE TellToEnd
  BY <1>7 DEF TellToEnd, bufferVars, motionVars, BuffersTypeOK, MotionTypeOK
<1>8. CASE StopDriver
  <2>1. BuffersTypeOK'
    BY <1>8 DEF StopDriver, FreeCurrent, FreeSp, chPoolFree, BuffersTypeOK, MotionTypeOK
  <2>2. MotionTypeOK'
    BY <1>8, MaxU16Assumption DEF StopDriver, MotionTypeOK, U16
  <2>3. leaked' \subseteq Buffer
    BY <1>8 DEF StopDriver, MotionTypeOK
  <2>4. /\ state' = "STOP" /\ caller' = "idle" /\ thread' \in {"none", "alive", "final"}
        /\ UNCHANGED <<timer, term, asleep, hung>>
    BY <1>8 DEF StopDriver
  <2> QED BY <2>1, <2>2, <2>3, <2>4
<1>9. CASE PostMessage
  <2>1. PICK b \in pool, m \in Payload :
            pool' = pool \ {b} /\ heap' = [heap EXCEPT ![b] = m] /\ chMBPost(b)
    BY <1>9 DEF PostMessage
  <2>2. BuffersTypeOK'
    BY <2>1, PayloadAssumption DEF chMBPost, BuffersTypeOK
  <2> QED BY <1>9, <2>2 DEF PostMessage, motionVars, lifeVars, MotionTypeOK
<1>10. CASE Hung \/ UNCHANGED allLifeVars
  BY <1>10 DEF Hung, allLifeVars, bufferVars, motionVars, lifeVars, BuffersTypeOK, MotionTypeOK
<1> QED
  BY <1>1, <1>2, <1>3, <1>4, <1>5, <1>6, <1>7, <1>8, <1>9, <1>10 DEF LifeNext

\* Every variable keeps its type however the driver is started and stopped.
THEOREM LifecycleTypes == LifeSpec => []LifeTypeOK
BY LifeTypeInit, LifeTypeNext, PTL DEF LifeSpec

(***************************************************************************)
(* The thread and its caller                                               *)
(***************************************************************************)

\* Where the caller is says what the thread and the timer are.
CallerKnows ==
    /\ caller = "idle" /\ state = "STOP" => thread = "none"
    /\ caller = "idle" /\ state # "STOP" => thread = "alive"
    /\ caller = "starting" => thread = "alive"
    /\ caller = "stopping" => thread = "alive" /\ ~timer
    /\ caller = "joining" => thread \in {"alive", "final"} /\ term /\ ~timer

\* The thread sleeps at the head of its loop only, is asked to end only by a
\* caller that waits for it, and has a message when it renders.
ThreadSleeps ==
    /\ asleep => mpc = "wait" /\ thread = "alive"
    /\ thread = "alive" /\ caller # "joining" => ~term
    /\ thread = "alive" /\ mpc \in {"reset", "willRender", "render"} => sp # NULL

LifeInv == CallerKnows /\ ThreadSleeps /\ StopHangsOnlyOnSleep

LEMMA LifeInvInit == LifeInit => LifeInv
BY DEF LifeInit, InitMotion, LifeInv, CallerKnows, ThreadSleeps, StopHangsOnlyOnSleep

LEMMA LifeInvNext ==
    ASSUME LifeTypeOK, LifeInv, [LifeNext]_allLifeVars
    PROVE  LifeInv'
<1> USE DEF LifeInv, CallerKnows, ThreadSleeps, StopHangsOnlyOnSleep
<1>t. /\ caller \in {"idle", "starting", "stopping", "joining"}
      /\ asleep \in BOOLEAN /\ hung \in BOOLEAN
  BY DEF LifeTypeOK
<1>1. CASE TimerInterrupt
  BY <1>1 DEF TimerInterrupt, Tick, lifeVars
<1>2. CASE ShouldTerminate
  BY <1>2, <1>t DEF ShouldTerminate, Ends
<1>3. CASE Period
  <2>1. /\ thread = "alive" /\ (mpc = "wait" => asleep) /\ asleep' = FALSE
        /\ UNCHANGED <<state, timer, thread, term, caller, hung, leaked>>
    BY <1>3 DEF Period
  <2>2. CASE WaitReady
    <3>1. ready /\ mpc = "wait" /\ mpc' = "load" /\ asleep
      BY <2>1, <2>2 DEF WaitReady
    <3>2. caller # "joining"
      BY <3>1, Zenon
    <3> QED BY <2>1, <3>1, <3>2
  <2>3. CASE LoadNextsp \/ ActivateSpAfterDelay \/ FreeSpIfEmpty \/ HasNoUpdate \/ HasUpdate
             \/ Reset \/ WillRender \/ Render
    <3>1. /\ mpc # "wait" /\ ready' = ready
          /\ mpc' \in {"reset", "willRender", "render"} => sp' # NULL
      BY <2>1, <2>3 DEF LoadNextsp, ActivateSpAfterDelay, FreeSpIfEmpty, HasNoUpdate, HasUpdate,
                   Reset, WillRender, Render
    <3>2. ~asleep
      BY <3>1, Zenon
    <3>3. caller = "joining" => ~hung
      BY <3>2, <1>t, Zenon
    <3>4. caller' = "joining" => asleep' = hung' /\ ~hung'
      <4>1. caller' = caller /\ hung' = hung /\ asleep' = FALSE
        BY <2>1
      <4> QED BY <3>3, <4>1, <1>t, Zenon
    <3> QED BY <2>1, <3>1, <3>4
  <2> QED BY <1>3, <2>2, <2>3 DEF Period, MotionStep
<1>4. CASE StartThread
  BY <1>4 DEF StartThread
<1>5. CASE StartTimer
  BY <1>5 DEF StartTimer, motionVars
<1>6. CASE StopTimer
  BY <1>6 DEF StopTimer, motionVars
<1>7. CASE TellToEnd
  BY <1>7, <1>t DEF TellToEnd, MainRuns, motionVars
<1>8. CASE StopDriver
  BY <1>8 DEF StopDriver, Joined
<1>9. CASE PostMessage
  BY <1>9 DEF PostMessage, motionVars, lifeVars
<1>10. CASE Hung \/ UNCHANGED allLifeVars
  BY <1>10 DEF Hung, allLifeVars, motionVars, lifeVars
<1> QED
  BY <1>1, <1>2, <1>3, <1>4, <1>5, <1>6, <1>7, <1>8, <1>9, <1>10 DEF LifeNext

\* A stop that returns caught the thread out of its sleep; one that did not
\* waits for a thread that neither the timer nor a signal left over will wake.
THEOREM StopsHangOnSleep == LifeSpec => []StopHangsOnlyOnSleep
<1>1. LifeInv => StopHangsOnlyOnSleep
  BY DEF LifeInv
<1> QED BY <1>1, LifeInvInit, LifeInvNext, LifecycleTypes, PTL DEF LifeSpec

(***************************************************************************)
(* The buffers                                                             *)
(***************************************************************************)

\* A buffer is in one place only, and out of all of them only when a stop has
\* lost it.
OwnedOnce ==
    /\ \A k \in DOMAIN mbox : mbox[k] # NULL
    /\ QueuedOnce
    /\ pool \cap Queued = {}
    /\ sp \notin pool \cup Queued /\ nextsp \notin pool \cup Queued
    /\ Distinct(sp, nextsp)
    /\ Lost = leaked

LEMMA OwnedOnceInit == LifeInit => OwnedOnce
BY BufferAssumption
DEF LifeInit, InitBuffers, InitMotion, OwnedOnce, QueuedOnce, Queued, Distinct, Lost

LEMMA OwnedOnceUnchanged ==
    ASSUME OwnedOnce, UNCHANGED <<pool, mbox, sp, nextsp, leaked>>
    PROVE  OwnedOnce'
BY DEF OwnedOnce, QueuedOnce, Queued, Distinct, Lost

LEMMA PeriodOwns ==
    ASSUME LifeTypeOK, OwnedOnce, MotionStep, UNCHANGED leaked
    PROVE  OwnedOnce'
<1> USE DEF OwnedOnce, Distinct, Lost
<1>b. BuffersTypeOK
  BY DEF LifeTypeOK
<1>t. pool \subseteq Buffer /\ sp \in Buffer \cup {NULL} /\ nextsp \in Buffer \cup {NULL}
  BY DEF LifeTypeOK, BuffersTypeOK, MotionTypeOK
<1>n. NULL \notin pool /\ NULL \notin Queued /\ NULL \notin Buffer
  BY <1>t, BufferAssumption DEF Queued
<1>1. CASE WaitReady \/ HasUpdate \/ Reset \/ WillRender \/ Render
  <2>1. UNCHANGED <<pool, mbox, sp, nextsp>>
    BY <1>1 DEF WaitReady, HasUpdate, Reset, WillRender, Render, bufferVars
  <2> QED BY <2>1, QueuedUnchanged
<1>2. CASE LoadNextsp
  <2>1. CASE nextsp = NULL /\ mbox # <<>>
    <3>1. chMBFetch(nextsp') /\ UNCHANGED <<pool, sp>>
      BY <1>2, <2>1 DEF LoadNextsp
    <3>2. /\ QueuedOnce' /\ Queued' \subseteq Queued
          /\ nextsp' # NULL => nextsp' \in Queued /\ nextsp' \notin Queued'
          /\ Queued = Queued' \cup NonNull(nextsp')
      BY <1>b, <3>1, FetchDequeues, FetchLeavesRest
    <3>3. \A k \in DOMAIN mbox' : mbox'[k] # NULL
      <4>1. \A k \in DOMAIN mbox' : k + 1 \in DOMAIN mbox /\ mbox'[k] = mbox[k + 1]
        BY <1>b, <3>1 DEF chMBFetch, BuffersTypeOK
      <4> QED BY <4>1
    <3>4. Lost' = Lost
      BY <1>n, <2>1, <3>1, <3>2 DEF NonNull
    <3> QED BY <1>n, <3>1, <3>2, <3>3, <3>4
  <2>2. CASE ~(nextsp = NULL /\ mbox # <<>>)
    BY <1>2, <2>2, OwnedOnceUnchanged DEF LoadNextsp
  <2> QED BY <2>1, <2>2
<1>3. CASE ActivateSpAfterDelay
  BY <1>t, <1>n, <1>3, QueuedUnchanged DEF ActivateSpAfterDelay, ReplaceSp, FreeSp, chPoolFree
<1>4. CASE FreeSpIfEmpty
  BY <1>t, <1>n, <1>4, QueuedUnchanged DEF FreeSpIfEmpty, FreeSp, chPoolFree
<1>5. CASE HasNoUpdate
  BY <1>t, <1>n, <1>5, QueuedUnchanged DEF HasNoUpdate, FreeSp, chPoolFree
<1> QED BY <1>1, <1>2, <1>3, <1>4, <1>5 DEF MotionStep

LEMMA OwnedOnceNext ==
    ASSUME LifeTypeOK, OwnedOnce, [LifeNext]_allLifeVars
    PROVE  OwnedOnce'
<1>b. BuffersTypeOK
  BY DEF LifeTypeOK
<1>n. /\ NULL \notin pool /\ NULL \notin Queued /\ NULL \notin Buffer
      /\ sp \in Buffer \cup {NULL} /\ nextsp \in Buffer \cup {NULL} /\ pool \subseteq Buffer
  BY BufferAssumption DEF LifeTypeOK, MotionTypeOK, BuffersTypeOK, Queued
<1>1. CASE \/ TimerInterrupt \/ ShouldTerminate \/ StartThread \/ StartTimer \/ StopTimer
           \/ TellToEnd \/ Hung \/ UNCHANGED allLifeVars
  <2>1. UNCHANGED <<pool, mbox, sp, nextsp, leaked>>
    BY <1>1 DEF TimerInterrupt, Tick, ShouldTerminate, StartThread, StartTimer, StopTimer, TellToEnd, Hung,
                allLifeVars, bufferVars, motionVars, lifeVars
  <2> QED BY <2>1, OwnedOnceUnchanged
<1>2. CASE Period
  BY <1>2, PeriodOwns DEF Period
<1>3. CASE StopDriver
  <2>1. /\ FreeSp /\ leaked' = leaked \cup ({nextsp} \ {NULL})
        /\ sp' = NULL /\ nextsp' = NULL /\ UNCHANGED mbox
    BY <1>3 DEF StopDriver, FreeCurrent
  <2>2. pool' = pool \cup ({sp} \ {NULL})
    BY <1>n, <2>1 DEF FreeSp, chPoolFree
  <2>3. Queued' = Queued /\ QueuedOnce' = QueuedOnce
    BY <2>1, QueuedUnchanged
  <2>4. Lost' = leaked'
    BY <1>n, <2>1, <2>2, <2>3 DEF OwnedOnce, Distinct, Lost
  <2> QED BY <1>n, <2>1, <2>2, <2>3, <2>4 DEF OwnedOnce, Distinct
<1>4. CASE PostMessage
  <2>1. PICK b \in pool : pool' = pool \ {b} /\ chMBPost(b)
    BY <1>4 DEF PostMessage
  <2>2. UNCHANGED <<sp, nextsp, leaked>>
    BY <1>4 DEF PostMessage, motionVars, lifeVars
  <2>3. b \in Buffer /\ b # NULL /\ b \notin Queued
    BY <1>n, <2>1 DEF OwnedOnce
  <2>4. MailboxHasRoom
    BY <1>b, <2>3, OneMoreFits DEF OwnedOnce
  <2>5. QueuedOnce' /\ Queued' = Queued \cup {b}
    BY <1>b, <2>1, <2>3, <2>4, PostQueues DEF OwnedOnce, NonNull
  <2>6. \A k \in DOMAIN mbox' : mbox'[k] # NULL
    <3>1. \A k \in DOMAIN mbox' : mbox'[k] = b \/ (k \in DOMAIN mbox /\ mbox'[k] = mbox[k])
      BY <1>b, <2>1, <2>3, <2>4 DEF chMBPost, BuffersTypeOK
    <3> QED BY <2>3, <3>1 DEF OwnedOnce
  <2>7. Lost' = Lost
    BY <2>1, <2>2, <2>5 DEF Lost
  <2> QED BY <2>1, <2>2, <2>3, <2>5, <2>6, <2>7 DEF OwnedOnce, Distinct
<1> QED
  BY <1>1, <1>2, <1>3, <1>4 DEF LifeNext

\* A stop frees what plays and loses only what waits behind it, nothing is
\* rendered from a buffer a stop has freed, and a start finds the working area
\* of the thread unused.
THEOREM StopsAreClean == LifeSpec => []StopIsClean
<1>1. LifeInv /\ OwnedOnce => StopIsClean
  BY DEF LifeInv, CallerKnows, ThreadSleeps, OwnedOnce, StopIsClean
<1> QED
  BY <1>1, LifeInvInit, LifeInvNext, OwnedOnceInit, OwnedOnceNext, LifecycleTypes, PTL DEF LifeSpec
=============================================================================
