--------------------------- MODULE ActuatorProofs ---------------------------
(***************************************************************************)
(* Theorems about Actuator for any number of buffers, any mailbox, any     *)
(* width of the counters and any messages: types and owners of the buffers; *)
(* that every message the motion driver can reach has been filled and not  *)
(* freed, that the mailbox has room for every post, that no buffer gets lost *)
(* on the way but in two places, that what is rendered is the slot the     *)
(* posted message has there, and, with all that, that the actuator         *)
(* implements SetpointPlayer.  At the end, what its progress rests on:     *)
(* every step of the motion driver brings each message that waits nearer   *)
(* to its start, and a stop message ends in the period it starts in.       *)
(***************************************************************************)
EXTENDS ActuatorPlayer, MotionProofs

(***************************************************************************)
(* Facts about the messages the comm driver builds                         *)
(***************************************************************************)

LEMMA StopMessageType == StopMessage \in Message /\ AsReceived(StopMessage)
<1>1. StopMessage \in Message
  BY SetpointAssumption, MaxU16Assumption DEF StopMessage, Message, U16, Slot
<1>2. StopMessage.given = 1 .. 1 /\ Len(StopMessage.slots) = 1
  BY DEF StopMessage
<1> QED
  BY <1>1, <1>2 DEF AsReceived

LEMMA TestMessageType ==
    \A m \in {TestFirst, TestSecond} : m \in Message /\ AsReceived(m)
<1>1. TestFirst \in Message
  BY TestAssumption, MaxU16Assumption DEF TestFirst, Message, U16, Slot, LOOP_INFINITE
<1>2. TestFirst.given = 1 .. 1 /\ Len(TestFirst.slots) = 1
  BY DEF TestFirst
<1>3. DOMAIN TestSlots = 1 .. Len(TestSlots) /\ Len(TestSlots) \in Nat
  BY TestAssumption
<1>4. TestSecond \in Message
  BY <1>3, TestAssumption, MaxU16Assumption DEF TestSecond, Message, U16
<1>5. TestSecond.given = 1 .. Len(TestSecond.slots)
  BY <1>3 DEF TestSecond
<1>6. AsReceived(TestFirst)
  BY <1>2 DEF AsReceived
<1>7. AsReceived(TestSecond)
  <2>1. Len(TestSecond.slots) \in Nat
    BY <1>3 DEF TestSecond
  <2>2. Len(TestSecond.slots) \in 0 .. Len(TestSecond.slots)
    BY <2>1
  <2> QED BY <2>2, <1>5, Zenon DEF AsReceived
<1> QED
  BY <1>1, <1>4, <1>6, <1>7

LEMMA PlainMessageType ==
    ASSUME NEW q \in Seq(Slot), NEW written \in SUBSET Nat
    PROVE  [delay |-> 0, loop |-> 1, slots |-> q, given |-> written] \in Message
<1>1. 0 \in U16 /\ 1 \in U16
  BY MaxU16Assumption DEF U16
<1> QED
  BY <1>1 DEF Message

LEMMA SmoothMessageType == \A m \in SmoothMessage : m \in Message /\ AsSmoothed(m)
<1> SUFFICES ASSUME NEW s \in SmoothSlots, NEW left \in Leftover, NEW m,
                    m = [delay |-> 0, loop |-> 1,
                         slots |-> [s EXCEPT ![Len(s) - 1] = left],
                         given |-> DOMAIN s \ {Len(s) - 1}]
             PROVE  m \in Message /\ AsSmoothed(m)
  BY DEF SmoothMessage
<1> DEFINE t == [s EXCEPT ![Len(s) - 1] = left]
<1>1. s \in Seq(Slot) /\ left \in Slot
  BY SmoothAssumption
<1>2. DOMAIN s = 1 .. Len(s) /\ Len(s) \in Nat
  BY <1>1
<1>3. t \in Seq(Slot) /\ DOMAIN t = 1 .. Len(s) /\ Len(t) = Len(s)
  <2>1. s \in [1 .. Len(s) -> Slot]
    BY <1>1
  <2>2. t \in [1 .. Len(s) -> Slot]
    BY <1>1, <2>1
  <2> HIDE DEF t
  <2> DEFINE n == Len(s)
  <2>3. n \in Nat /\ t \in [1 .. n -> Slot]
    BY <1>2, <2>2
  <2> HIDE DEF n
  <2>4. t \in Seq(Slot) /\ DOMAIN t = 1 .. n /\ Len(t) = n
    BY <2>3
  <2> QED
    BY <2>4 DEF n
<1>4. m = [delay |-> 0, loop |-> 1, slots |-> t, given |-> DOMAIN s \ {Len(s) - 1}]
  OBVIOUS
<1>5. DOMAIN s \ {Len(s) - 1} \in SUBSET Nat
  BY <1>2
<1> HIDE DEF t
<1>6. m \in Message
  BY <1>3, <1>4, <1>5, PlainMessageType, Zenon
<1> QED
  BY <1>2, <1>3, <1>4, <1>6 DEF AsSmoothed

(***************************************************************************)
(* Type correctness                                                        *)
(***************************************************************************)

LEMMA MotionStepType ==
    ASSUME TypeOK, MotionStep, UNCHANGED commVars
    PROVE  TypeOK'
<1>1. BuffersTypeOK' /\ MotionTypeOK'
  BY MotionStepTypes DEF TypeOK
<1>2. CommTypeOK'
  BY DEF TypeOK, commVars, CommTypeOK
<1> QED BY <1>1, <1>2 DEF TypeOK

LEMMA CommStepType ==
    ASSUME TypeOK, ReceiveCommand \/ HandleCommand, UNCHANGED motionVars
    PROVE  TypeOK'
<1> USE DEF TypeOK, CommTypeOK, BuffersTypeOK, CommPC, Command, HumanCommand, bufferVars
<1>m. MotionTypeOK'
  BY DEF motionVars, MotionTypeOK
<1>1. CASE ReceiveHuman
  BY <1>m, <1>1 DEF ReceiveHuman
<1>2. CASE ReceiveHeader
  BY <1>m, <1>2 DEF ReceiveHeader
<1>3. CASE ReceiveSizedHeader
  BY <1>m, <1>3 DEF ReceiveSizedHeader, chPoolAlloc, Allocatable
<1>4. CASE ReceiveData
  BY <1>m, <1>4, PayloadAssumption DEF ReceiveData
<1>5. CASE ReceiveFooter
  BY <1>m, <1>5 DEF ReceiveFooter
<1>6. CASE ReceiveError
  BY <1>m, <1>6 DEF ReceiveError, FreeBuf, chPoolFree
<1>7. CASE ServiceSleep
  <2>1. pool' \subseteq Buffer /\ buf' \in Buffer \cup {NULL}
    BY <1>7 DEF ServiceSleep, chPoolAlloc, Allocatable
  <2>2. heap' \in [Buffer -> Message \cup {Unwritten}] /\ fault' \in {"none", "ignored", "trapped"}
    BY <1>7, <2>1, StopMessageType DEF ServiceSleep, Store
  <2> QED BY <1>m, <1>7, <2>1, <2>2 DEF ServiceSleep
<1>8. CASE SleepReset
  BY <1>m, <1>8 DEF SleepReset, chMBReset
<1>9. CASE SleepPost
  BY <1>m, <1>9 DEF SleepPost, chMBPost
<1>10. CASE ServiceSetpoint
  BY <1>m, <1>10 DEF ServiceSetpoint, chMBPost
<1>11. CASE ServiceSmooth
  BY <1>m, <1>11, SmoothMessageType DEF ServiceSmooth, Store, chPoolAlloc, Allocatable
<1>12. CASE SmoothPost
  BY <1>m, <1>12 DEF SmoothPost, chMBPost
<1>13. CASE ServiceOther
  BY <1>m, <1>13 DEF ServiceOther
<1>14. CASE ServiceTest
  <2>1. ASSUME NEW m \in Message, NEW p \in CommPC, NEW q \in CommPC, TestAlloc(m, p, q)
        PROVE  TypeOK'
    BY <1>m, <2>1 DEF TestAlloc, chPoolAlloc, Allocatable
  <2>2. ASSUME NEW p \in CommPC, TestPost(p)
        PROVE  TypeOK'
    BY <1>m, <2>2 DEF TestPost, chMBPost
  <2> QED BY <1>14, <2>1, <2>2, TestMessageType DEF ServiceTest
<1>15. CASE Finish
  BY <1>m, <1>15 DEF Finish, FreeBuf, chPoolFree
<1> QED
  BY <1>1, <1>2, <1>3, <1>4, <1>5, <1>6, <1>7, <1>8, <1>9, <1>10, <1>11, <1>12,
     <1>13, <1>14, <1>15 DEF ReceiveCommand, HandleCommand

\* Every variable keeps its type: pointers name buffers, counters stay in
\* their 16 bits.
THEOREM TypeCorrect == Spec => []TypeOK
<1>1. Init => TypeOK
  <2>1. InitBuffers => BuffersTypeOK
    BY DEF InitBuffers, BuffersTypeOK
  <2>2. InitMotion => MotionTypeOK
    <3>1. 0 \in U16
      BY MaxU16Assumption DEF U16
    <3>2. InitMotion => ready \in BOOLEAN /\ active \in BOOLEAN
      BY Zenon DEF InitMotion
    <3>3. InitMotion => mpc \in MotionPC /\ spindex \in Nat /\ motor \in Setpoint \cup {Off}
      BY DEF InitMotion, MotionPC
    <3> QED BY <3>1, <3>2, <3>3, SetpointAssumption DEF InitMotion, MotionTypeOK
  <2>3. InitComm => CommTypeOK
    BY DEF InitComm, CommTypeOK, CommPC
  <2> QED BY <2>1, <2>2, <2>3 DEF Init, TypeOK
<1>2. TypeOK /\ [Next]_vars => TypeOK'
  <2> SUFFICES ASSUME TypeOK, [Next]_vars PROVE TypeOK'
    OBVIOUS
  <2>1. CASE TimerInterrupt
    BY <2>1 DEF TimerInterrupt, Tick, bufferVars, commVars, cursorVars, TypeOK,
                BuffersTypeOK, MotionTypeOK, CommTypeOK
  <2>2. CASE MotionThread
    BY <2>2, MotionStepType DEF MotionThread
  <2>3. CASE MainReceives \/ MainHandles
    BY <2>3, CommStepType DEF MainReceives, MainHandles
  <2>4. CASE UNCHANGED vars
    BY <2>4 DEF vars, bufferVars, motionVars, commVars, TypeOK, BuffersTypeOK,
                MotionTypeOK, CommTypeOK
  <2> QED BY <2>1, <2>2, <2>3, <2>4 DEF Next, Halted
<1> QED BY <1>1, <1>2, PTL DEF Spec

(***************************************************************************)
(* Ownership of the buffers                                                *)
(***************************************************************************)

LEMMA MotionStepOwnership ==
    ASSUME TypeOK, ExclusiveOwnership, MotionStep, UNCHANGED commVars
    PROVE  ExclusiveOwnership'
<1> USE DEF ExclusiveOwnership, PoolApart, PointersDistinct, Distinct
<1>c. UNCHANGED <<buf, aux>>
  BY DEF commVars
<1>n. NULL \notin pool /\ NULL \notin Queued
  BY BufferAssumption DEF TypeOK, BuffersTypeOK, Queued
<1>1. CASE WaitReady \/ HasUpdate \/ Reset \/ WillRender \/ Render
  <2>1. UNCHANGED <<pool, mbox, sp, nextsp>>
    BY <1>1 DEF WaitReady, HasUpdate, Reset, WillRender, Render, bufferVars
  <2> QED BY <1>c, <2>1, QueuedUnchanged
<1>2. CASE LoadNextsp
  <2>1. CASE nextsp = NULL /\ mbox # <<>>
    <3>1. chMBFetch(nextsp') /\ UNCHANGED <<pool, sp>>
      BY <1>2, <2>1 DEF LoadNextsp
    <3>2. /\ QueuedOnce' /\ Queued' \subseteq Queued
          /\ nextsp' # NULL => nextsp' \in Queued /\ nextsp' \notin Queued'
      BY <3>1, FetchDequeues DEF TypeOK
    <3> QED BY <1>c, <1>n, <3>1, <3>2
  <2>2. CASE ~(nextsp = NULL /\ mbox # <<>>)
    BY <1>c, <1>2, <2>2, QueuedUnchanged DEF LoadNextsp
  <2> QED BY <2>1, <2>2
<1>3. CASE ActivateSpAfterDelay
  BY <1>c, <1>n, <1>3, QueuedUnchanged DEF ActivateSpAfterDelay, ReplaceSp, FreeSp, chPoolFree
<1>4. CASE FreeSpIfEmpty
  BY <1>c, <1>n, <1>4, QueuedUnchanged DEF FreeSpIfEmpty, FreeSp, chPoolFree
<1>5. CASE HasNoUpdate
  BY <1>c, <1>n, <1>5, QueuedUnchanged DEF HasNoUpdate, FreeSp, chPoolFree
<1> QED BY <1>1, <1>2, <1>3, <1>4, <1>5 DEF MotionStep

LEMMA CommStepOwnership ==
    ASSUME TypeOK, ExclusiveOwnership, ReceiveCommand \/ HandleCommand,
           UNCHANGED motionVars
    PROVE  ExclusiveOwnership'
<1> USE DEF ExclusiveOwnership, PoolApart, PointersDistinct, Distinct
<1>m. UNCHANGED <<sp, nextsp>>
  BY DEF motionVars
<1>n. NULL \notin pool /\ NULL \notin Queued
  BY BufferAssumption DEF TypeOK, BuffersTypeOK, Queued
<1>t. buf \in Buffer \cup {NULL} /\ aux \in Buffer \cup {NULL}
  BY DEF TypeOK, CommTypeOK
<1>1. CASE ReceiveHuman \/ ReceiveHeader \/ ReceiveData \/ ReceiveFooter \/ ServiceOther
  <2>1. UNCHANGED <<pool, mbox, buf, aux>>
    BY <1>1 DEF ReceiveHuman, ReceiveHeader, ReceiveData, ReceiveFooter, ServiceOther, bufferVars
  <2> QED BY <1>m, <2>1, QueuedUnchanged
<1>2. CASE ReceiveSizedHeader
  BY <1>m, <1>n, <1>2, QueuedUnchanged DEF ReceiveSizedHeader, chPoolAlloc, Allocatable
<1>3. CASE ReceiveError \/ Finish
  BY <1>m, <1>n, <1>3, QueuedUnchanged DEF ReceiveError, Finish, FreeBuf, chPoolFree
<1>4. CASE ServiceSleep
  BY <1>m, <1>n, <1>4, QueuedUnchanged DEF ServiceSleep, chPoolAlloc, Allocatable
<1>5. CASE SleepReset
  <2>1. Queued' = {} /\ QueuedOnce'
    BY <1>5 DEF SleepReset, chMBReset, Queued, QueuedOnce
  <2> QED BY <1>m, <1>5, <2>1 DEF SleepReset
<1>6. ASSUME UNCHANGED pool,
             \/ chMBPost(buf) /\ aux' = aux
             \/ chMBPost(aux) /\ aux' = NULL,
             \/ buf' = IF MailboxHasRoom THEN NULL ELSE buf
             \/ buf' = buf /\ chMBPost(aux)
      PROVE  ExclusiveOwnership'
  <2>1. CASE chMBPost(buf) /\ aux' = aux
    BY <1>m, <1>n, <1>t, <1>6, <2>1, PostQueues DEF TypeOK, NonNull
  <2>2. CASE chMBPost(aux) /\ aux' = NULL
    BY <1>m, <1>n, <1>t, <1>6, <2>2, PostQueues DEF TypeOK, NonNull
  <2> QED BY <1>6, <2>1, <2>2
<1>7. CASE SleepPost \/ SmoothPost
  BY <1>6, <1>7 DEF SleepPost, SmoothPost
<1>8. CASE ServiceSetpoint
  <2>1. CASE buf # NULL
    BY <1>6, <1>8, <2>1 DEF ServiceSetpoint
  <2>2. CASE buf = NULL
    BY <1>m, <1>8, <2>2, QueuedUnchanged DEF ServiceSetpoint
  <2> QED BY <2>1, <2>2
<1>9. CASE ServiceSmooth
  BY <1>m, <1>n, <1>9, QueuedUnchanged DEF ServiceSmooth, chPoolAlloc, Allocatable
<1>10. CASE ServiceTest
  <2>1. ASSUME NEW m, NEW p, NEW q, TestAlloc(m, p, q)
        PROVE  ExclusiveOwnership'
    BY <1>m, <1>n, <2>1, QueuedUnchanged DEF TestAlloc, chPoolAlloc, Allocatable
  <2>2. ASSUME NEW p, TestPost(p)
        PROVE  ExclusiveOwnership'
    BY <1>6, <2>2 DEF TestPost
  <2> QED BY <1>10, <2>1, <2>2 DEF ServiceTest
<1> QED
  BY <1>1, <1>2, <1>3, <1>4, <1>5, <1>7, <1>8, <1>9, <1>10 DEF ReceiveCommand, HandleCommand

\* No buffer ever has two owners: the invariant needs only the types to be
\* inductive.
THEOREM OwnershipIsExclusive == Spec => []ExclusiveOwnership
<1>1. Init => ExclusiveOwnership
  BY BufferAssumption
  DEF Init, InitBuffers, InitMotion, InitComm, ExclusiveOwnership, QueuedOnce, PoolApart,
      PointersDistinct, Distinct, Queued
<1>2. TypeOK /\ ExclusiveOwnership /\ [Next]_vars => ExclusiveOwnership'
  <2> SUFFICES ASSUME TypeOK, ExclusiveOwnership, [Next]_vars PROVE ExclusiveOwnership'
    OBVIOUS
  <2>1. CASE TimerInterrupt \/ UNCHANGED vars
    <3>1. UNCHANGED <<pool, mbox, buf, aux, sp, nextsp>>
      BY <2>1 DEF TimerInterrupt, Tick, vars, bufferVars, motionVars, commVars
    <3> QED BY <3>1, QueuedUnchanged DEF ExclusiveOwnership, PoolApart, PointersDistinct, Distinct
  <2>2. CASE MotionThread
    BY <2>2, MotionStepOwnership DEF MotionThread
  <2>3. CASE MainReceives \/ MainHandles
    BY <2>3, CommStepOwnership DEF MainReceives, MainHandles
  <2> QED BY <2>1, <2>2, <2>3 DEF Next, Halted
<1> QED BY <1>1, <1>2, TypeCorrect, PTL DEF Spec

LEMMA CommStepIdle ==
    ASSUME IdleHoldsNothing, ReceiveCommand \/ HandleCommand
    PROVE  IdleHoldsNothing'
BY DEF IdleHoldsNothing, ReceiveCommand, ReceiveHuman, ReceiveHeader, ReceiveSizedHeader,
       HandleCommand, ReceiveData, ReceiveFooter, ReceiveError, ServiceSleep, SleepReset,
       SleepPost, ServiceSetpoint, ServiceSmooth, SmoothPost, ServiceOther, ServiceTest,
       TestAlloc, TestPost, Finish, FreeBuf

(***************************************************************************)
(* Messages stay written while the motion driver can reach them            *)
(***************************************************************************)

LEMMA MotionStepFilled ==
    ASSUME TypeOK, ExclusiveOwnership, FilledIsWritten, MotionStep, UNCHANGED commVars
    PROVE  FilledIsWritten'
<1> USE DEF FilledIsWritten, IsWritten
<1>n. NULL \notin Queued
  BY DEF Queued
<1>c. UNCHANGED <<cpc, cmd, buf, aux>>
  BY DEF commVars
<1>1. CASE WaitReady \/ HasUpdate \/ Reset \/ WillRender \/ Render
  <2>1. UNCHANGED <<heap, mbox, sp, nextsp>>
    BY <1>1 DEF WaitReady, HasUpdate, Reset, WillRender, Render, bufferVars
  <2> QED BY <1>c, <2>1, QueuedUnchanged DEF Filled, NonNull
<1>2. CASE LoadNextsp
  <2>1. UNCHANGED <<heap, sp>>
    BY <1>2 DEF LoadNextsp
  <2>2. Filled' \subseteq Filled
    <3>1. CASE nextsp = NULL /\ mbox # <<>>
      <4>1. Queued' \subseteq Queued /\ (nextsp' # NULL => nextsp' \in Queued)
        BY <1>2, <3>1, FetchDequeues DEF LoadNextsp, ExclusiveOwnership, TypeOK
      <4> QED BY <1>c, <2>1, <4>1 DEF Filled, NonNull
    <3>2. CASE ~(nextsp = NULL /\ mbox # <<>>)
      BY <1>2, <1>c, <2>1, <3>2, QueuedUnchanged DEF LoadNextsp, Filled, NonNull
    <3> QED BY <3>1, <3>2
  <2> QED BY <2>1, <2>2
<1>3. CASE ActivateSpAfterDelay \/ FreeSpIfEmpty \/ HasNoUpdate
  <2>1. Queued' = Queued
    BY <1>3, QueuedUnchanged DEF ActivateSpAfterDelay, FreeSpIfEmpty, HasNoUpdate
  <2>2. CASE UNCHANGED <<heap, sp, nextsp>>
    BY <1>c, <2>1, <2>2 DEF Filled, NonNull
  <2>3. CASE sp = NULL /\ UNCHANGED heap /\ sp' = nextsp /\ nextsp' = NULL
    BY <1>c, <2>1, <2>3 DEF Filled, NonNull
  <2>4. ASSUME sp # NULL, chPoolFree(sp),
               \/ sp' = nextsp /\ nextsp' = NULL
               \/ sp' = NULL /\ nextsp' = nextsp
        PROVE  FilledIsWritten'
    <3>1. Filled' \subseteq Filled \ {sp}
      BY <1>c, <1>n, <2>1, <2>4 DEF Filled, NonNull, ExclusiveOwnership, PoolApart, PointersDistinct, Distinct
    <3>2. \A p \in Buffer \ {sp} : heap'[p] = heap[p]
      BY <2>4 DEF chPoolFree, TypeOK, BuffersTypeOK
    <3> QED BY <3>1, <3>2
  <2> QED BY <1>3, <2>2, <2>3, <2>4
      DEF ActivateSpAfterDelay, ReplaceSp, FreeSpIfEmpty, HasNoUpdate, FreeSp
<1> QED BY <1>1, <1>2, <1>3 DEF MotionStep

LEMMA CommStepFilled ==
    ASSUME TypeOK, ExclusiveOwnership, IdleHoldsNothing, FilledIsWritten,
           ReceiveCommand \/ HandleCommand, UNCHANGED motionVars
    PROVE  FilledIsWritten'
<1> USE DEF FilledIsWritten, IsWritten
<1>n. NULL \notin Queued
  BY DEF Queued
<1>m. UNCHANGED <<sp, nextsp>>
  BY DEF motionVars
<1>t. /\ buf \in Buffer \cup {NULL} /\ aux \in Buffer \cup {NULL}
      /\ pool \subseteq Buffer /\ heap \in [Buffer -> Message \cup {Unwritten}]
  BY DEF TypeOK, CommTypeOK, BuffersTypeOK
<1>o. \A b \in pool : b \notin Queued \cup NonNull(nextsp) \cup NonNull(sp) \cup NonNull(buf) \cup NonNull(aux)
  BY DEF ExclusiveOwnership, PoolApart, NonNull
<1>p. \A b \in NonNull(buf) : b \notin Queued \cup NonNull(nextsp) \cup NonNull(sp) \cup NonNull(aux)
  BY DEF ExclusiveOwnership, PoolApart, PointersDistinct, Distinct, NonNull
<1>q. \A x \in NonNull(aux) : x \notin pool
  BY DEF ExclusiveOwnership, PoolApart, NonNull
<1>1. CASE ReceiveHuman \/ ReceiveHeader \/ ReceiveFooter \/ ServiceOther
  <2>1. UNCHANGED <<heap, mbox, buf, aux>>
    BY <1>1 DEF ReceiveHuman, ReceiveHeader, ReceiveFooter, ServiceOther, bufferVars
  <2>2. Filled' \subseteq Filled
    BY <1>1, <1>m, <2>1, QueuedUnchanged
    DEF ReceiveHuman, ReceiveHeader, ReceiveFooter, ServiceOther, HumanCommand, Filled, NonNull,
        IdleHoldsNothing
  <2> QED BY <2>1, <2>2
<1>2. CASE ReceiveSizedHeader
  <2>1. UNCHANGED <<heap, mbox, aux>> /\ cpc' \in {"idle", "data"}
    BY <1>2 DEF ReceiveSizedHeader
  <2>2. Filled' \subseteq Filled
    BY <1>m, <2>1, QueuedUnchanged DEF Filled, NonNull
  <2> QED BY <2>1, <2>2
<1>3. CASE ReceiveData
  <2>1. UNCHANGED <<mbox, cmd, buf, aux>> /\ cpc = "data" /\ cpc' = "footer"
    BY <1>3 DEF ReceiveData
  <2>2. CASE cmd = "SETPOINT"
    <3>1. PICK m \in Message : heap' = [heap EXCEPT ![buf] = m]
      BY <1>3, <2>2, PayloadAssumption DEF ReceiveData
    <3>2. Filled' \subseteq Filled \cup NonNull(buf)
      BY <1>m, <2>1, QueuedUnchanged DEF Filled, NonNull
    <3> QED BY <1>t, <3>1, <3>2, UnwrittenAssumption DEF NonNull
  <2>3. CASE cmd # "SETPOINT"
    <3>1. UNCHANGED heap
      BY <1>3, <2>3 DEF ReceiveData
    <3>2. Filled' \subseteq Filled
      BY <1>m, <2>1, <2>3, QueuedUnchanged DEF Filled, NonNull
    <3> QED BY <3>1, <3>2
  <2> QED BY <2>2, <2>3
<1>4. CASE ReceiveError \/ Finish
  <2>1. UNCHANGED <<mbox, aux>> /\ cpc' = "idle" /\ FreeBuf
    BY <1>4 DEF ReceiveError, Finish
  <2>2. Filled' \subseteq (Queued \cup NonNull(nextsp) \cup NonNull(sp)) \ NonNull(buf)
    BY <1>m, <1>p, <2>1, QueuedUnchanged DEF Filled
  <2>3. \A p \in Buffer \ NonNull(buf) : heap'[p] = heap[p]
    BY <1>t, <2>1 DEF FreeBuf, chPoolFree, NonNull
  <2> QED BY <2>2, <2>3 DEF Filled
<1>5. CASE ServiceSleep
  <2>1. UNCHANGED <<mbox, aux, cmd>> /\ cpc' = "reset" /\ Store(buf', StopMessage)
    BY <1>5 DEF ServiceSleep
  <2>2. Filled' \subseteq Filled \cup NonNull(buf')
    BY <1>m, <2>1, QueuedUnchanged DEF Filled
  <2>3. buf' \in Buffer \cup {NULL}
    BY <1>t, <1>5 DEF ServiceSleep, chPoolAlloc, Allocatable
  <2>4. \A p \in Buffer : p # buf' => heap'[p] = heap[p]
    BY <1>t, <2>1, <2>3, StopMessageType DEF Store
  <2>5. buf' # NULL => heap'[buf'] \in Message
    BY <1>t, <2>1, <2>3, StopMessageType DEF Store
  <2>6. \A p \in NonNull(buf') : p \in Buffer /\ heap'[p] # Unwritten
    BY <2>3, <2>5, UnwrittenAssumption DEF NonNull
  <2>7. \A p \in Filled \ NonNull(buf') : p \in Buffer /\ heap'[p] # Unwritten
    BY <2>4, BufferAssumption DEF NonNull
  <2> QED BY <2>2, <2>6, <2>7
<1>6. CASE SleepReset
  <2>1. Queued' = {} /\ UNCHANGED <<heap, buf, aux, cmd>> /\ cpc = "reset" /\ cpc' = "post"
    BY <1>6 DEF SleepReset, chMBReset, Queued
  <2>2. Filled' \subseteq Filled
    BY <1>m, <2>1 DEF Filled
  <2> QED BY <2>1, <2>2
<1>7. ASSUME UNCHANGED heap,
             NEW p \in {buf, aux}, p # NULL => p \in Filled,
             chMBPost(p), cpc' \in {"finish", "test2"}
      PROVE  FilledIsWritten'
  <2>1. Queued' \subseteq Queued \cup NonNull(p)
    BY <1>t, <1>7, PostQueues DEF ExclusiveOwnership, PoolApart, TypeOK
  <2>2. Filled' \subseteq Filled
    BY <1>m, <1>7, <2>1 DEF Filled, NonNull
  <2> QED BY <1>7, <2>2
<1>8. CASE SleepPost \/ SmoothPost
  BY <1>7, <1>8 DEF SleepPost, SmoothPost, Filled, NonNull
<1>9. CASE ServiceSetpoint
  <2>1. CASE buf # NULL
    BY <1>7, <1>9, <2>1 DEF ServiceSetpoint, Filled, NonNull
  <2>2. CASE buf = NULL
    <3>1. UNCHANGED <<heap, mbox, aux>> /\ cpc' = "finish"
      BY <1>9, <2>2 DEF ServiceSetpoint
    <3>2. Filled' \subseteq Filled
      BY <1>m, <3>1, QueuedUnchanged DEF Filled
    <3> QED BY <3>1, <3>2
  <2> QED BY <2>1, <2>2
<1>10. ASSUME UNCHANGED <<mbox, cmd, buf>>,
              aux' \in Buffer \cup {NULL},
              \A p \in Buffer : p # aux' => heap'[p] = heap[p],
              aux' # NULL => heap'[aux'] \in Message,
              cpc' \in {"smoothPost", "testPost", "testPost2", "finish", "test2"}
       PROVE  FilledIsWritten'
  <2>1. Filled' \subseteq Filled \cup NonNull(aux')
    BY <1>m, <1>10, QueuedUnchanged DEF Filled
  <2>2. \A p \in NonNull(aux') : p \in Buffer /\ heap'[p] # Unwritten
    BY <1>10, UnwrittenAssumption DEF NonNull
  <2>3. \A p \in Filled \ NonNull(aux') : p \in Buffer /\ heap'[p] # Unwritten
    BY <1>10, BufferAssumption DEF NonNull
  <2> QED BY <2>1, <2>2, <2>3
<1>11. CASE ServiceSmooth
  <2>1. CASE buf = NULL \/ IsPurr
    <3>1. UNCHANGED <<mbox, heap, aux>> /\ cpc' = "finish"
      BY <1>11, <2>1 DEF ServiceSmooth
    <3>2. Filled' \subseteq Filled
      BY <1>m, <3>1, QueuedUnchanged DEF Filled
    <3> QED BY <3>1, <3>2
  <2>2. CASE ~(buf = NULL \/ IsPurr)
    <3>1. PICK m \in Message : Store(aux', m)
      BY <1>11, <2>2, SmoothMessageType DEF ServiceSmooth
    <3>2. aux' \in Buffer \cup {NULL}
      BY <1>t, <1>11, <2>2 DEF ServiceSmooth, chPoolAlloc, Allocatable
    <3>3. /\ \A p \in Buffer : p # aux' => heap'[p] = heap[p]
          /\ aux' # NULL => heap'[aux'] \in Message
      BY <1>t, <3>1, <3>2 DEF Store
    <3> QED BY <1>10, <1>11, <2>2, <3>2, <3>3 DEF ServiceSmooth
  <2> QED BY <2>1, <2>2
<1>12. CASE ServiceTest
  <2>1. ASSUME NEW m \in Message, NEW q \in {"testPost", "testPost2"},
               NEW r \in {"test2", "finish"}, TestAlloc(m, q, r)
        PROVE  FilledIsWritten'
    <3>1. aux' \in Buffer \cup {NULL}
      BY <1>t, <2>1 DEF TestAlloc, chPoolAlloc, Allocatable
    <3>2. /\ \A p \in Buffer : p # aux' => heap'[p] = heap[p]
          /\ aux' # NULL => heap'[aux'] \in Message
      BY <1>t, <2>1, <3>1 DEF TestAlloc
    <3> QED BY <1>10, <2>1, <3>1, <3>2 DEF TestAlloc
  <2>2. ASSUME NEW q \in {"test2", "finish"}, TestPost(q), cpc \in {"testPost", "testPost2"}
        PROVE  FilledIsWritten'
    BY <1>7, <2>2 DEF TestPost, Filled, NonNull
  <2> QED BY <1>12, <2>1, <2>2, TestMessageType DEF ServiceTest
<1> QED
  BY <1>1, <1>2, <1>3, <1>4, <1>5, <1>6, <1>8, <1>9, <1>11, <1>12
  DEF ReceiveCommand, HandleCommand

\* What a step leaves in a buffer was there before, is gone, or is what a
\* command fills a buffer with.
LEMMA FreeLeaves ==
    ASSUME TypeOK, NEW b \in Buffer, NEW p \in Buffer, chPoolFree(p)
    PROVE  heap'[b] \in {heap[b], Unwritten}
BY DEF chPoolFree, TypeOK, BuffersTypeOK

LEMMA StoreFills ==
    ASSUME TypeOK, NEW b \in Buffer, NEW p, NEW m, Store(p, m)
    PROVE  heap'[b] \in {heap[b], m}
BY DEF Store, TypeOK, BuffersTypeOK

LEMMA NextFills ==
    ASSUME TypeOK, [Next]_vars, NEW b \in Buffer
    PROVE  \/ heap'[b] \in {heap[b], Unwritten}
           \/ AsReceived(heap'[b]) \/ AsSmoothed(heap'[b])
<1>1. CASE TimerInterrupt \/ UNCHANGED vars
  BY <1>1 DEF TimerInterrupt, Tick, vars, bufferVars
<1>2. CASE MotionThread
  <2>1. UNCHANGED heap \/ (sp \in Buffer /\ chPoolFree(sp))
    BY <1>2
    DEF MotionThread, MotionStep, WaitReady, LoadNextsp, ActivateSpAfterDelay, ReplaceSp, FreeSp,
        FreeSpIfEmpty, HasNoUpdate, HasUpdate, Reset, WillRender, Render, bufferVars, TypeOK,
        MotionTypeOK
  <2> QED BY <2>1, FreeLeaves
<1>3. CASE MainReceives
  BY <1>3 DEF MainReceives, ReceiveCommand, ReceiveHuman, ReceiveHeader, ReceiveSizedHeader, bufferVars
<1>4. CASE MainHandles
  <2>1. CASE ReceiveFooter \/ SleepReset \/ SleepPost \/ ServiceSetpoint \/ SmoothPost \/ ServiceOther
    BY <2>1 DEF ReceiveFooter, SleepReset, SleepPost, ServiceSetpoint, SmoothPost, ServiceOther, bufferVars
  <2>2. CASE ReceiveError \/ Finish
    <3>1. UNCHANGED heap \/ (buf \in Buffer /\ chPoolFree(buf))
      BY <2>2 DEF ReceiveError, Finish, FreeBuf, TypeOK, CommTypeOK
    <3> QED BY <3>1, FreeLeaves
  <2>3. CASE ReceiveData
    <3>1. UNCHANGED heap \/ \E m \in Payload : heap' = [heap EXCEPT ![buf] = m]
      BY <2>3 DEF ReceiveData
    <3> QED BY <3>1, PayloadAssumption DEF TypeOK, BuffersTypeOK
  <2>4. CASE ServiceSleep
    <3>1. Store(buf', StopMessage)
      BY <2>4 DEF ServiceSleep
    <3> QED BY <3>1, StoreFills, StopMessageType
  <2>5. CASE ServiceSmooth
    <3>1. UNCHANGED heap \/ \E m \in SmoothMessage : Store(aux', m)
      BY <2>5 DEF ServiceSmooth
    <3> QED BY <3>1, StoreFills, SmoothMessageType
  <2>6. CASE ServiceTest
    <3>1. UNCHANGED heap \/ \E m \in {TestFirst, TestSecond} : heap' = [heap EXCEPT ![aux'] = m]
      BY <2>6 DEF ServiceTest, TestAlloc, TestPost
    <3> QED BY <3>1, TestMessageType DEF TypeOK, BuffersTypeOK
  <2> QED BY <1>4, <2>1, <2>2, <2>3, <2>4, <2>5, <2>6 DEF MainHandles, HandleCommand
<1> QED BY <1>1, <1>2, <1>3, <1>4 DEF Next, Halted

\* A message the motion driver can reach has been filled and not freed, and
\* only the slots SMOOTH and a cut SETPOINT leave out were not written.
THEOREM PostedStaysWritten == Spec => []PostedIsWritten
<1>1. Init => IdleHoldsNothing /\ FilledIsWritten
  BY DEF Init, InitBuffers, InitMotion, InitComm, IdleHoldsNothing, FilledIsWritten,
         Filled, Queued, NonNull
<1>2. /\ TypeOK /\ ExclusiveOwnership /\ IdleHoldsNothing /\ FilledIsWritten
      /\ [Next]_vars
      => IdleHoldsNothing' /\ FilledIsWritten'
  <2> SUFFICES ASSUME TypeOK, ExclusiveOwnership, IdleHoldsNothing, FilledIsWritten,
                      [Next]_vars
               PROVE  IdleHoldsNothing' /\ FilledIsWritten'
    OBVIOUS
  <2>1. CASE TimerInterrupt \/ UNCHANGED vars
    <3>1. UNCHANGED <<heap, mbox, buf, aux, sp, nextsp, cpc, cmd>>
      BY <2>1 DEF TimerInterrupt, Tick, vars, bufferVars, motionVars, commVars
    <3> QED BY <3>1, QueuedUnchanged DEF IdleHoldsNothing, FilledIsWritten, Filled, NonNull, IsWritten
  <2>2. CASE MotionThread
    BY <2>2, MotionStepFilled DEF MotionThread, commVars, IdleHoldsNothing
  <2>3. CASE MainReceives \/ MainHandles
    BY <2>3, CommStepIdle, CommStepFilled DEF MainReceives, MainHandles
  <2> QED BY <2>1, <2>2, <2>3 DEF Next, Halted
<1>3. Init => FilledAsSent
  BY DEF Init, InitBuffers, FilledAsSent, IsWritten
<1>4. TypeOK /\ FilledAsSent /\ [Next]_vars => FilledAsSent'
  BY NextFills DEF FilledAsSent, IsWritten
<1>5. FilledIsWritten /\ FilledAsSent => PostedIsWritten
  BY DEF FilledIsWritten, FilledAsSent, PostedIsWritten, Filled, IsWritten
<1> QED BY <1>1, <1>2, <1>3, <1>4, <1>5, TypeCorrect, OwnershipIsExclusive, PTL DEF Spec

(***************************************************************************)
(* The mailbox has room                                                    *)
(***************************************************************************)

LEMMA MotionStepNoNull ==
    ASSUME TypeOK, NoNullPosted, MotionStep, UNCHANGED commVars
    PROVE  NoNullPosted'
<1>1. UNCHANGED <<cpc, buf, aux, fault>>
  BY DEF commVars
<1>2. \/ UNCHANGED mbox
      \/ mbox # <<>> /\ mbox' = Tail(mbox)
  BY DEF MotionStep, WaitReady, LoadNextsp, chMBFetch, ActivateSpAfterDelay, FreeSpIfEmpty,
         HasNoUpdate, HasUpdate, Reset, WillRender, Render, bufferVars
<1>3. CASE UNCHANGED mbox
  BY <1>1, <1>3 DEF NoNullPosted
<1>4. CASE mbox # <<>> /\ mbox' = Tail(mbox)
  <2>1. \A i \in DOMAIN mbox' : i + 1 \in DOMAIN mbox /\ mbox'[i] = mbox[i + 1]
    BY <1>4 DEF TypeOK, BuffersTypeOK
  <2> QED BY <1>1, <2>1 DEF NoNullPosted
<1> QED BY <1>2, <1>3, <1>4

LEMMA CommStepNoNull ==
    ASSUME TypeOK, NoNullPosted, ReceiveCommand \/ HandleCommand
    PROVE  NoNullPosted'
<1>b. NULL \notin Buffer
  BY BufferAssumption
<1>t. mbox \in Seq(Buffer \cup {NULL}) /\ pool \subseteq Buffer
  BY DEF TypeOK, BuffersTypeOK
<1>1. ASSUME UNCHANGED <<mbox, fault>>, cpc' \notin {"reset", "post", "smoothPost", "testPost", "testPost2"}
      PROVE  NoNullPosted'
  BY <1>1 DEF NoNullPosted
<1>2. CASE ReceiveHuman \/ ReceiveHeader \/ ReceiveSizedHeader \/ ReceiveData \/ ReceiveFooter
           \/ ReceiveError \/ ServiceOther \/ Finish
  <2>1. UNCHANGED <<mbox, fault>> /\ cpc' \notin {"reset", "post", "smoothPost", "testPost", "testPost2"}
    BY <1>2 DEF ReceiveHuman, ReceiveHeader, ReceiveSizedHeader, ReceiveData, ReceiveFooter,
                ReceiveError, ServiceOther, Finish, bufferVars
  <2> QED BY <1>1, <2>1
<1>3. CASE ServiceSleep
  BY <1>3 DEF ServiceSleep, Store, NoNullPosted
<1>4. CASE SleepReset
  BY <1>4 DEF SleepReset, chMBReset, NoNullPosted
<1>5. ASSUME NEW p, chMBPost(p), fault = "none" => p # NULL, UNCHANGED fault,
             cpc' \in {"finish", "test2"}
      PROVE  NoNullPosted'
  <2>1. CASE MailboxHasRoom
    <3>1. \A i \in DOMAIN mbox' : mbox'[i] = p \/ (i \in DOMAIN mbox /\ mbox'[i] = mbox[i])
      BY <1>t, <1>5, <2>1 DEF chMBPost
    <3> QED BY <1>5, <3>1 DEF NoNullPosted
  <2>2. CASE ~MailboxHasRoom
    BY <1>5, <2>2 DEF chMBPost, NoNullPosted
  <2> QED BY <2>1, <2>2
<1>6. CASE SleepPost \/ SmoothPost
  BY <1>5, <1>6 DEF SleepPost, SmoothPost, NoNullPosted
<1>7. CASE ServiceSetpoint
  BY <1>1, <1>5, <1>7 DEF ServiceSetpoint
<1>8. CASE ServiceSmooth
  BY <1>8 DEF ServiceSmooth, Store, NoNullPosted
<1>9. CASE ServiceTest
  <2>1. ASSUME NEW m, NEW q \in {"testPost", "testPost2"}, NEW r \in {"test2", "finish"},
               TestAlloc(m, q, r)
        PROVE  NoNullPosted'
    BY <2>1 DEF TestAlloc, NoNullPosted
  <2>2. ASSUME NEW q \in {"test2", "finish"}, TestPost(q), cpc \in {"testPost", "testPost2"}
        PROVE  NoNullPosted'
    BY <1>5, <2>2 DEF TestPost, NoNullPosted
  <2> QED BY <1>9, <2>1, <2>2 DEF ServiceTest
<1> QED BY <1>2, <1>3, <1>4, <1>6, <1>7, <1>8, <1>9 DEF ReceiveCommand, HandleCommand

\* Posts find room as long as no null pointer has been posted: the mailbox is
\* as long as the pool is large, and the pointer to be posted is a buffer that
\* is not queued.
THEOREM PostsFindRoom == Spec => []PostHasRoom
<1>1. Init => NoNullPosted
  BY DEF Init, InitBuffers, InitComm, NoNullPosted
<1>2. TypeOK /\ NoNullPosted /\ [Next]_vars => NoNullPosted'
  <2> SUFFICES ASSUME TypeOK, NoNullPosted, [Next]_vars PROVE NoNullPosted'
    OBVIOUS
  <2>1. CASE TimerInterrupt \/ UNCHANGED vars
    <3>1. UNCHANGED <<mbox, buf, aux, cpc, fault>>
      BY <2>1 DEF TimerInterrupt, Tick, vars, bufferVars, motionVars, commVars
    <3> QED BY <3>1 DEF NoNullPosted
  <2>2. CASE MotionThread
    BY <2>2, MotionStepNoNull DEF MotionThread
  <2>3. CASE MainReceives \/ MainHandles
    BY <2>3, CommStepNoNull DEF MainReceives, MainHandles
  <2> QED BY <2>1, <2>2, <2>3 DEF Next, Halted
<1>3. TypeOK /\ ExclusiveOwnership /\ NoNullPosted => PostHasRoom
  <2> SUFFICES ASSUME TypeOK, ExclusiveOwnership, NoNullPosted, fault = "none",
                      \/ cpc \in {"post", "smoothPost", "testPost", "testPost2"}
                      \/ cpc = "service" /\ cmd = "SETPOINT" /\ buf # NULL
               PROVE  MailboxHasRoom
    BY DEF PostHasRoom
  <2>1. PICK p \in {buf, aux} : p # NULL
    BY DEF NoNullPosted
  <2>2. p \in Buffer /\ p \notin Queued
    BY <2>1 DEF TypeOK, CommTypeOK, ExclusiveOwnership, PoolApart
  <2> QED BY <2>2, OneMoreFits DEF ExclusiveOwnership, NoNullPosted, TypeOK
<1> QED BY <1>1, <1>2, <1>3, TypeCorrect, OwnershipIsExclusive, PTL DEF Spec

(***************************************************************************)
(* Where buffers get lost                                                  *)
(***************************************************************************)

\* The second pointer of the main thread is in use between an allocation and
\* the post of what was allocated.
AuxIsPosted == cpc \in {"smoothPost", "testPost", "testPost2"} \/ aux = NULL

LossInv == IdleHoldsNothing /\ AuxIsPosted

LEMMA CommStepAux ==
    ASSUME AuxIsPosted, ReceiveCommand \/ HandleCommand
    PROVE  AuxIsPosted'
<1> USE DEF AuxIsPosted
<1>1. CASE ReceiveCommand \/ ReceiveData \/ ReceiveFooter \/ ReceiveError \/ Finish
  BY <1>1 DEF ReceiveCommand, ReceiveHuman, ReceiveHeader, ReceiveSizedHeader, ReceiveData,
              ReceiveFooter, ReceiveError, Finish
<1>2. CASE ServiceSleep \/ SleepReset \/ SleepPost \/ ServiceSetpoint \/ ServiceOther
  BY <1>2 DEF ServiceSleep, SleepReset, SleepPost, ServiceSetpoint, ServiceOther
<1>3. CASE ServiceSmooth \/ SmoothPost
  BY <1>3 DEF ServiceSmooth, SmoothPost
<1>4. CASE ServiceTest
  <2>1. ASSUME NEW m, NEW p \in {"testPost", "testPost2"}, NEW q,
               aux = NULL, TestAlloc(m, p, q)
        PROVE  AuxIsPosted'
    BY <2>1 DEF TestAlloc
  <2>2. ASSUME NEW p, TestPost(p)
        PROVE  AuxIsPosted'
    BY <2>2 DEF TestPost
  <2>3. cpc \in {"service", "test2"} => aux = NULL
    OBVIOUS
  <2> QED BY <1>4, <2>1, <2>2, <2>3 DEF ServiceTest
<1> QED BY <1>1, <1>2, <1>3, <1>4 DEF HandleCommand

LEMMA MotionStepKeeps ==
    ASSUME TypeOK, ExclusiveOwnership, MotionStep, UNCHANGED commVars
    PROVE  Reachable' = Reachable
<1>c. UNCHANGED <<buf, aux>>
  BY DEF commVars
<1>1. CASE WaitReady \/ HasUpdate \/ Reset \/ WillRender \/ Render
  <2>1. UNCHANGED <<pool, mbox, sp, nextsp>>
    BY <1>1 DEF WaitReady, HasUpdate, Reset, WillRender, Render, bufferVars
  <2> QED BY <1>c, <2>1, QueuedUnchanged DEF Reachable, NonNull
<1>2. CASE LoadNextsp
  <2>1. CASE nextsp = NULL /\ mbox # <<>>
    <3>1. chMBFetch(nextsp') /\ UNCHANGED <<pool, sp>>
      BY <1>2, <2>1 DEF LoadNextsp
    <3>2. Queued = Queued' \cup NonNull(nextsp')
      BY <3>1, FetchLeavesRest DEF TypeOK
    <3> QED BY <1>c, <2>1, <3>1, <3>2 DEF Reachable, NonNull
  <2>2. CASE ~(nextsp = NULL /\ mbox # <<>>)
    BY <1>c, <1>2, <2>2, QueuedUnchanged DEF LoadNextsp, Reachable, NonNull
  <2> QED BY <2>1, <2>2
<1>3. CASE ActivateSpAfterDelay
  BY <1>c, <1>3, QueuedUnchanged
  DEF ActivateSpAfterDelay, ReplaceSp, FreeSp, chPoolFree, Reachable, NonNull
<1>4. CASE FreeSpIfEmpty
  BY <1>c, <1>4, QueuedUnchanged DEF FreeSpIfEmpty, FreeSp, chPoolFree, Reachable, NonNull
<1>5. CASE HasNoUpdate
  BY <1>c, <1>5, QueuedUnchanged DEF HasNoUpdate, FreeSp, chPoolFree, Reachable, NonNull
<1> QED BY <1>1, <1>2, <1>3, <1>4, <1>5 DEF MotionStep

LEMMA CommStepKeeps ==
    ASSUME TypeOK, ExclusiveOwnership, LossInv, ReceiveCommand \/ HandleCommand,
           UNCHANGED motionVars
    PROVE  \/ Reachable' = Reachable
           \/ /\ Reachable' \subseteq Reachable
              /\ (cpc = "reset" /\ mbox # <<>>) \/ cpc = "smoothPost"
<1> USE DEF Reachable, NonNull
<1>m. UNCHANGED <<sp, nextsp>>
  BY DEF motionVars
<1>i. IdleHoldsNothing /\ AuxIsPosted
  BY DEF LossInv
<1>p. /\ buf \in Buffer \cup {NULL} /\ buf \notin Queued
      /\ aux \in Buffer \cup {NULL} /\ aux \notin Queued
      /\ QueuedOnce
  BY DEF TypeOK, CommTypeOK, ExclusiveOwnership, PoolApart
<1>n. NULL \notin pool
  BY BufferAssumption DEF TypeOK, BuffersTypeOK
<1>1. CASE ReceiveHuman \/ ReceiveHeader \/ ReceiveData \/ ReceiveFooter \/ ServiceOther
  <2>1. UNCHANGED <<pool, mbox, buf, aux>>
    BY <1>1 DEF ReceiveHuman, ReceiveHeader, ReceiveData, ReceiveFooter, ServiceOther, bufferVars
  <2> QED BY <1>m, <2>1, QueuedUnchanged
<1>2. CASE ReceiveSizedHeader
  BY <1>m, <1>i, <1>n, <1>2, QueuedUnchanged
  DEF ReceiveSizedHeader, chPoolAlloc, Allocatable, IdleHoldsNothing
<1>3. CASE ReceiveError \/ Finish
  BY <1>m, <1>3, QueuedUnchanged DEF ReceiveError, Finish, FreeBuf, chPoolFree
<1>4. CASE ServiceSleep
  BY <1>m, <1>n, <1>4, QueuedUnchanged DEF ServiceSleep, chPoolAlloc, Allocatable
<1>5. CASE SleepReset
  <2>1. Queued' = {} /\ UNCHANGED <<pool, buf, aux>> /\ cpc = "reset"
    BY <1>5 DEF SleepReset, chMBReset, Queued
  <2>2. mbox = <<>> => Queued = {}
    BY DEF Queued
  <2> QED BY <1>m, <2>1, <2>2
<1>6. CASE SleepPost \/ (ServiceSetpoint /\ buf # NULL)
  <2>1. /\ chMBPost(buf) /\ UNCHANGED <<pool, aux>>
        /\ buf' = IF MailboxHasRoom THEN NULL ELSE buf
    BY <1>6 DEF SleepPost, ServiceSetpoint
  <2>2. Queued' = IF MailboxHasRoom THEN Queued \cup NonNull(buf) ELSE Queued
    BY <1>p, <2>1, PostQueues DEF TypeOK
  <2> QED BY <1>m, <2>1, <2>2
<1>7. CASE ServiceSetpoint /\ buf = NULL
  BY <1>m, <1>7, QueuedUnchanged DEF ServiceSetpoint
<1>8. CASE ServiceSmooth
  <2>1. aux = NULL
    BY <1>i, <1>8 DEF ServiceSmooth, AuxIsPosted
  <2> QED BY <1>m, <1>n, <1>8, <2>1, QueuedUnchanged DEF ServiceSmooth, chPoolAlloc, Allocatable
<1>9. CASE SmoothPost
  <2>1. /\ chMBPost(aux) /\ aux' = NULL /\ UNCHANGED pool /\ cpc = "smoothPost"
        /\ buf' \in {buf, NULL}
    BY <1>9 DEF SmoothPost
  <2>2. Queued' \subseteq Queued \cup NonNull(aux)
    BY <1>p, <2>1, PostQueues DEF TypeOK
  <2> QED BY <1>m, <2>1, <2>2
<1>10. CASE ServiceTest
  <2>1. ASSUME NEW m, NEW p, NEW q, aux = NULL, TestAlloc(m, p, q)
        PROVE  Reachable' = Reachable
    BY <1>m, <1>n, <2>1, QueuedUnchanged DEF TestAlloc, chPoolAlloc, Allocatable
  <2>2. ASSUME NEW p, TestPost(p)
        PROVE  Reachable' = Reachable
    <3>1. chMBPost(aux) /\ MailboxHasRoom /\ aux' = NULL /\ UNCHANGED <<pool, buf>>
      BY <2>2 DEF TestPost
    <3>2. Queued' = Queued \cup NonNull(aux)
      BY <1>p, <3>1, PostQueues DEF TypeOK
    <3> QED BY <1>m, <3>1, <3>2
  <2>3. cpc \in {"service", "test2"} => aux = NULL
    BY <1>i DEF AuxIsPosted
  <2> QED BY <1>10, <2>1, <2>2, <2>3 DEF ServiceTest
<1> QED
  BY <1>1, <1>2, <1>3, <1>4, <1>5, <1>6, <1>7, <1>8, <1>9, <1>10
  DEF ReceiveCommand, HandleCommand

\* Whatever is received, in whatever state of the pool and of the mailbox, a
\* buffer gets lost by a flush and by the post of SMOOTH only.
THEOREM OnlyTwoPlacesLose == Spec => OnlyFlushAndSmoothLose
<1>1. Init => LossInv
  BY DEF Init, InitComm, LossInv, IdleHoldsNothing, AuxIsPosted
<1>2. ASSUME TypeOK, ExclusiveOwnership, LossInv, [Next]_vars
      PROVE  /\ LossInv'
             /\ \/ Reachable' = Reachable
                \/ /\ Reachable' \subseteq Reachable
                   /\ (cpc = "reset" /\ mbox # <<>>) \/ cpc = "smoothPost"
  <2>1. CASE TimerInterrupt \/ UNCHANGED vars
    <3>1. UNCHANGED <<pool, mbox, buf, aux, sp, nextsp, cpc>>
      BY <1>2, <2>1 DEF TimerInterrupt, Tick, vars, bufferVars, motionVars, commVars
    <3> QED BY <1>2, <3>1, QueuedUnchanged
        DEF LossInv, IdleHoldsNothing, AuxIsPosted, Reachable, NonNull
  <2>2. CASE MotionThread
    <3>1. LossInv'
      BY <1>2, <2>2 DEF MotionThread, commVars, LossInv, IdleHoldsNothing, AuxIsPosted
    <3> QED BY <1>2, <2>2, <3>1, MotionStepKeeps DEF MotionThread
  <2>3. CASE MainReceives \/ MainHandles
    <3>1. (ReceiveCommand \/ HandleCommand) /\ UNCHANGED motionVars
      BY <2>3 DEF MainReceives, MainHandles
    <3>2. LossInv'
      BY <1>2, <3>1, CommStepIdle, CommStepAux DEF LossInv
    <3> QED BY <1>2, <3>1, <3>2, CommStepKeeps
  <2> QED BY <1>2, <2>1, <2>2, <2>3 DEF Next, Halted
<1>3. TypeOK /\ ExclusiveOwnership /\ LossInv /\ [Next]_vars =>
        [Lost' # Lost => /\ Lost \subseteq Lost'
                         /\ (cpc = "reset" /\ mbox # <<>>) \/ cpc = "smoothPost"]_vars
  BY <1>2 DEF Lost
<1> QED
  BY <1>1, <1>2, <1>3, TypeCorrect, OwnershipIsExclusive, PTL DEF Spec, OnlyFlushAndSmoothLose

(***************************************************************************)
(* The cursor - spindex, duration, setpoint and loop - stays in the message *)
(* that plays.                                                             *)
(***************************************************************************)

Rendering == mpc \in {"reset", "willRender", "render"}

\* A message without slots is the current one only until it is looked at.
CursorInSlots ==
    sp # NULL =>
        \/ spindex < Len(heap[sp].slots)
        \/ mpc = "empty" /\ spindex = 0

CursorLoaded ==
    sp # NULL /\ spindex < Len(heap[sp].slots) =>
        /\ setpoint = heap[sp].slots[spindex + 1].setpoint
        /\ duration <= heap[sp].slots[spindex + 1].duration

LoopWithin ==
    /\ sp # NULL => loop <= heap[sp].loop
    /\ Rendering => sp # NULL /\ loop # 0

CursorInv == CursorInSlots /\ CursorLoaded /\ LoopWithin

(***************************************************************************)
(* The main thread leaves the posted messages alone                        *)
(***************************************************************************)

\* The main thread writes only what it holds or takes from the pool.
LEMMA CommKeeps ==
    ASSUME TypeOK, NEW p \in Buffer, p # buf, p \notin pool, ReceiveCommand \/ HandleCommand
    PROVE  heap'[p] = heap[p]
<1>t. /\ heap \in [Buffer -> Message \cup {Unwritten}]
      /\ buf \in Buffer \cup {NULL}
  BY DEF TypeOK, BuffersTypeOK, CommTypeOK
<1>1. CASE ReceiveHuman \/ ReceiveHeader \/ ReceiveSizedHeader \/ ReceiveFooter \/ SleepReset
           \/ SleepPost \/ ServiceSetpoint \/ SmoothPost \/ ServiceOther
  BY <1>1 DEF ReceiveHuman, ReceiveHeader, ReceiveSizedHeader, ReceiveFooter, SleepReset,
              SleepPost, ServiceSetpoint, SmoothPost, ServiceOther, bufferVars
<1>2. CASE ReceiveData
  BY <1>t, <1>2 DEF ReceiveData
<1>3. CASE ReceiveError \/ Finish
  BY <1>t, <1>3 DEF ReceiveError, Finish, FreeBuf, chPoolFree
<1>4. CASE ServiceSleep
  <2>1. buf' # p
    BY <1>4, BufferAssumption DEF ServiceSleep, chPoolAlloc, Allocatable
  <2> QED BY <1>t, <1>4, <2>1 DEF ServiceSleep, Store
<1>5. CASE ServiceSmooth
  BY <1>t, <1>5, BufferAssumption DEF ServiceSmooth, chPoolAlloc, Allocatable, Store
<1>6. CASE ServiceTest
  <2>1. ASSUME NEW m, NEW q, NEW r, TestAlloc(m, q, r)
        PROVE  heap'[p] = heap[p]
    BY <1>t, <2>1, BufferAssumption DEF TestAlloc, chPoolAlloc, Allocatable
  <2>2. ASSUME NEW q, TestPost(q)
        PROVE  heap'[p] = heap[p]
    BY <2>2 DEF TestPost
  <2> QED BY <1>6, <2>1, <2>2 DEF ServiceTest
<1> QED
  BY <1>1, <1>2, <1>3, <1>4, <1>5, <1>6 DEF ReceiveCommand, HandleCommand

\* The main thread leaves the message that plays, the one that waits and the
\* queued ones alone.
LEMMA CommKeepsMessages ==
    ASSUME TypeOK, ExclusiveOwnership, ReceiveCommand \/ HandleCommand
    PROVE  /\ sp # NULL => heap'[sp] = heap[sp]
           /\ nextsp # NULL => heap'[nextsp] = heap[nextsp]
           /\ \A p \in Queued : heap'[p] = heap[p]
<1>1. /\ sp \in Buffer \cup {NULL} /\ nextsp \in Buffer \cup {NULL}
      /\ Queued \subseteq Buffer
  BY DEF TypeOK, MotionTypeOK, BuffersTypeOK, Queued
<1>2. /\ sp # NULL => sp # buf /\ sp \notin pool
      /\ nextsp # NULL => nextsp # buf /\ nextsp \notin pool
      /\ \A p \in Queued : p # buf /\ p \notin pool
  BY DEF ExclusiveOwnership, PoolApart, PointersDistinct, Distinct
<1> QED BY <1>1, <1>2, CommKeeps

(***************************************************************************)
(* The steps of driver_thread                                              *)
(***************************************************************************)

LEMMA CurrentMessage ==
    ASSUME TypeOK, PostedIsWritten, sp # NULL
    PROVE  /\ heap[sp] \in Message /\ IsWritten(sp)
           /\ Len(heap[sp].slots) \in Nat /\ heap[sp].loop \in Nat
           /\ \A k \in 1 .. Len(heap[sp].slots) : heap[sp].slots[k] \in Slot
           /\ spindex \in Nat /\ loop \in Nat /\ duration \in Nat
<1>1. IsWritten(sp)
  BY DEF PostedIsWritten, NonNull
<1>2. heap[sp] \in Message
  BY <1>1 DEF IsWritten, TypeOK, BuffersTypeOK
<1>3. heap[sp].slots \in Seq(Slot) /\ heap[sp].loop \in U16
  BY <1>2 DEF Message
<1>4. spindex \in Nat /\ loop \in U16 /\ duration \in U16
  BY DEF TypeOK, MotionTypeOK
<1>5. U16 \subseteq Nat
  BY MaxU16Assumption DEF U16
<1>6. Len(heap[sp].slots) \in Nat /\ \A k \in 1 .. Len(heap[sp].slots) : heap[sp].slots[k] \in Slot
  BY <1>3
<1>7. heap[sp].loop \in Nat /\ loop \in Nat /\ duration \in Nat
  BY <1>3, <1>4, <1>5
<1> QED BY <1>1, <1>2, <1>4, <1>6, <1>7, Zenon

\* The cursor does not move: only what is about to be done may change.
LEMMA CursorRests ==
    ASSUME CursorInv, UNCHANGED <<sp, loop, cursorVars>>,
           sp # NULL => heap'[sp] = heap[sp],
           sp # NULL /\ mpc = "empty" => mpc' = "empty" \/ spindex < Len(heap[sp].slots),
           Rendering' => Rendering \/ (sp # NULL /\ loop # 0)
    PROVE  CursorInv'
<1>1. UNCHANGED <<duration, setpoint, spindex>>
  BY DEF cursorVars
<1>2. CursorInSlots'
  BY <1>1 DEF CursorInv, CursorInSlots
<1>3. CursorLoaded'
  BY <1>1 DEF CursorInv, CursorLoaded
<1>4. LoopWithin'
  BY DEF CursorInv, LoopWithin, Rendering
<1> QED BY <1>2, <1>3, <1>4 DEF CursorInv

LEMMA ReplaceCursor ==
    ASSUME TypeOK, ExclusiveOwnership, PostedIsWritten, ActivateSpAfterDelay,
           nextsp # NULL, delay = 0
    PROVE  CursorInv' /\ (sp = NULL \/ sp' # sp)
<1>1. /\ FreeSp /\ sp' = nextsp /\ spindex' = 0 /\ mpc' = "empty"
      /\ loop' \in LoopAt(nextsp) /\ LoadSpData(nextsp, 0)
  BY DEF ActivateSpAfterDelay, ReplaceSp
<1>2. nextsp \in Buffer /\ IsWritten(nextsp)
  BY DEF TypeOK, MotionTypeOK, PostedIsWritten, NonNull
<1>3. sp = NULL \/ sp # nextsp
  BY DEF ExclusiveOwnership, PointersDistinct, Distinct
<1>4. heap'[nextsp] = heap[nextsp]
  BY <1>1, <1>2, <1>3 DEF FreeSp, chPoolFree, TypeOK, BuffersTypeOK
<1>5. heap[nextsp] \in Message
  BY <1>2 DEF IsWritten, TypeOK, BuffersTypeOK
<1>6. heap[nextsp].slots \in Seq(Slot) /\ heap[nextsp].loop \in Nat
  BY <1>5, MaxU16Assumption DEF Message, U16
<1>7. CursorInSlots'
  BY <1>1 DEF CursorInSlots
<1>8. CursorLoaded'
  <2>1. ASSUME 0 < Len(heap[nextsp].slots)
        PROVE  /\ setpoint' = heap[nextsp].slots[1].setpoint
               /\ duration' = heap[nextsp].slots[1].duration
    BY <1>1, <1>2, <2>1 DEF LoadSpData, SlotAt
  <2>2. 0 < Len(heap[nextsp].slots) => heap[nextsp].slots[1].duration \in Nat
    <3>1. 0 < Len(heap[nextsp].slots) => heap[nextsp].slots[1] \in Slot
      BY <1>6
    <3> QED BY <3>1, MaxU16Assumption DEF Slot, U16
  <2> QED BY <1>1, <1>4, <2>1, <2>2 DEF CursorLoaded
<1>9. LoopWithin'
  <2>1. loop' = heap[nextsp].loop
    BY <1>1, <1>2 DEF LoopAt
  <2> QED BY <1>1, <1>4, <1>6, <2>1 DEF LoopWithin, Rendering
<1> QED BY <1>1, <1>3, <1>7, <1>8, <1>9 DEF CursorInv

LEMMA EmptyIsLeft ==
    ASSUME TypeOK, PostedIsWritten, CursorInv, FreeSpIfEmpty
    PROVE  CursorInv'
<1>1. UNCHANGED <<loop, cursorVars>> /\ mpc' = "update"
  BY DEF FreeSpIfEmpty
<1>2. CASE sp' = NULL
  BY <1>1, <1>2 DEF CursorInv, CursorInSlots, CursorLoaded, LoopWithin, Rendering
<1>3. CASE sp' # NULL
  <2>1. sp' = sp /\ UNCHANGED heap /\ \E n \in CountAt(sp) : n # 0
    BY <1>3 DEF FreeSpIfEmpty
  <2>2. Len(heap[sp].slots) # 0
    BY <1>3, <2>1, CurrentMessage DEF CountAt
  <2>3. spindex < Len(heap[sp].slots)
    BY <1>3, <2>1, <2>2, CurrentMessage DEF CursorInv, CursorInSlots
  <2> QED BY <1>1, <2>1, <2>3, CursorRests DEF Rendering
<1> QED BY <1>2, <1>3

LEMMA RenderCursor ==
    ASSUME TypeOK, PostedIsWritten, CursorInv, Render
    PROVE  /\ CursorInv' /\ sp' = sp
           /\ loop' # loop => loop \notin {0, LOOP_INFINITE} /\ loop' = loop - 1
<1> DEFINE slots == heap[sp].slots
           n == Len(slots)
<1>1. /\ sp # NULL /\ loop # 0 /\ mpc' = "wait"
      /\ UNCHANGED <<heap, sp>>
  BY DEF Render, bufferVars, CursorInv, LoopWithin, Rendering
<1>2. /\ n \in Nat /\ spindex \in Nat /\ loop \in Nat /\ duration \in Nat
      /\ \A k \in 1 .. n : slots[k].duration \in Nat
      /\ heap[sp].loop \in Nat
  BY <1>1, CurrentMessage, MaxU16Assumption DEF Slot, U16
<1>3. spindex < n
  BY <1>1 DEF Render, CursorInv, CursorInSlots
<1>4. CASE duration > 1
  <2>1. duration' = duration - 1 /\ UNCHANGED <<loop, setpoint, spindex>>
    BY <1>4 DEF Render
  <2>2. slots[spindex + 1].duration \in Nat
    BY <1>2, <1>3
  <2>3. CursorInSlots' /\ CursorLoaded' /\ LoopWithin'
    BY <1>1, <1>2, <1>3, <2>1, <2>2
    DEF CursorInv, CursorInSlots, CursorLoaded, LoopWithin, Rendering
  <2> QED BY <1>1, <2>1, <2>3 DEF CursorInv
<1>5. CASE ~(duration > 1)
  <2>1. NextSlot
    BY <1>5 DEF Render
  <2>2. CountAt(sp) = {n} /\ IsWritten(sp)
    BY <1>1, CurrentMessage DEF CountAt
  <2>3. /\ spindex' = IF spindex + 1 >= n THEN 0 ELSE spindex + 1
        /\ loop' = IF spindex + 1 >= n /\ loop # LOOP_INFINITE THEN DecrementU16(loop) ELSE loop
        /\ LoadSpData(sp, spindex')
    BY <2>1, <2>2 DEF NextSlot
  <2>4. spindex' \in Nat /\ spindex' < n /\ spindex' + 1 \in 1 .. n
    BY <1>2, <1>3, <2>3
  <2>5. setpoint' = slots[spindex' + 1].setpoint /\ duration' = slots[spindex' + 1].duration
    BY <2>2, <2>3, <2>4 DEF LoadSpData, SlotAt
  <2>6. loop' \in {loop, loop - 1} /\ (loop' # loop => loop # LOOP_INFINITE)
    BY <1>1, <1>2, <2>3 DEF DecrementU16
  <2>7. slots[spindex' + 1].duration \in Nat
    BY <1>2, <2>4
  <2>8. CursorInSlots' /\ CursorLoaded'
    BY <1>1, <2>4, <2>5, <2>7 DEF CursorInSlots, CursorLoaded
  <2>9. LoopWithin'
    BY <1>1, <1>2, <2>6 DEF CursorInv, LoopWithin, Rendering
  <2> QED BY <1>1, <2>6, <2>8, <2>9 DEF CursorInv
<1> QED BY <1>4, <1>5

LEMMA CursorNext ==
    ASSUME TypeOK, ExclusiveOwnership, PostedIsWritten, CursorInv, [Next]_vars
    PROVE  /\ CursorInv'
           /\ sp # NULL /\ sp' = sp /\ loop' # loop =>
                loop \notin {0, LOOP_INFINITE} /\ loop' = loop - 1
<1>1. CASE TimerInterrupt \/ UNCHANGED vars
  <2>1. UNCHANGED <<heap, mpc, sp, loop, cursorVars>>
    BY <1>1 DEF TimerInterrupt, Tick, vars, bufferVars, motionVars, cursorVars
  <2> QED BY <2>1, CursorRests DEF Rendering
<1>2. CASE MainReceives \/ MainHandles
  <2>1. UNCHANGED <<mpc, sp, loop, cursorVars>>
    BY <1>2 DEF MainReceives, MainHandles, motionVars, cursorVars
  <2>2. sp # NULL => heap'[sp] = heap[sp]
    BY <1>2, CommKeepsMessages DEF MainReceives, MainHandles
  <2> QED BY <2>1, <2>2, CursorRests DEF Rendering
<1>3. CASE MotionThread
  <2>1. CASE WaitReady \/ LoadNextsp \/ Reset \/ WillRender
    <3>1. /\ UNCHANGED <<heap, sp, loop, cursorVars>> /\ mpc # "empty"
          /\ Rendering' => Rendering
      BY <2>1 DEF WaitReady, LoadNextsp, Reset, WillRender, bufferVars, Rendering
    <3> QED BY <3>1, CursorRests
  <2>2. CASE ActivateSpAfterDelay
    <3>1. CASE nextsp # NULL /\ delay = 0
      BY <2>2, <3>1, ReplaceCursor
    <3>2. CASE ~(nextsp # NULL /\ delay = 0)
      <4>1. UNCHANGED <<heap, sp, loop, cursorVars>> /\ mpc # "empty" /\ mpc' = "empty"
        BY <2>2, <3>2 DEF ActivateSpAfterDelay
      <4> QED BY <4>1, CursorRests DEF Rendering
    <3> QED BY <3>1, <3>2
  <2>3. CASE FreeSpIfEmpty
    BY <2>3, EmptyIsLeft DEF FreeSpIfEmpty
  <2>4. CASE HasNoUpdate
    <3>1. sp' = NULL /\ mpc' = "wait" /\ loop' = loop
      BY <2>4 DEF HasNoUpdate
    <3> QED BY <3>1 DEF CursorInv, CursorInSlots, CursorLoaded, LoopWithin, Rendering
  <2>5. CASE HasUpdate
    <3>1. UNCHANGED <<heap, sp, loop, cursorVars>> /\ mpc # "empty" /\ sp # NULL /\ loop # 0
      BY <2>5 DEF HasUpdate, bufferVars
    <3> QED BY <3>1, CursorRests
  <2>6. CASE Render
    BY <2>6, RenderCursor
  <2> QED BY <1>3, <2>1, <2>2, <2>3, <2>4, <2>5, <2>6 DEF MotionThread, MotionStep
<1> QED BY <1>1, <1>2, <1>3 DEF Next, Halted

LEMMA CursorAlways == Spec => []CursorInv
<1>1. Init => CursorInv
  BY DEF Init, InitMotion, CursorInv, CursorInSlots, CursorLoaded, LoopWithin, Rendering
<1> QED
  BY <1>1, CursorNext, TypeCorrect, OwnershipIsExclusive, PostedStaysWritten, PTL DEF Spec

\* Whatever the main thread does between two periods, what is rendered is the
\* slot the cursor is in, for no longer and no more often than the message asks.
THEOREM RendersItsSlot == Spec => []RendersCurrentSlot
<1>1. TypeOK /\ PostedIsWritten /\ CursorInv => RendersCurrentSlot
  <2> SUFFICES ASSUME TypeOK, PostedIsWritten, CursorInv, Rendering
               PROVE  /\ IsWritten(sp) /\ spindex < Len(heap[sp].slots)
                      /\ setpoint = heap[sp].slots[spindex + 1].setpoint
                      /\ duration <= heap[sp].slots[spindex + 1].duration
                      /\ loop \in 1 .. heap[sp].loop
    BY DEF RendersCurrentSlot, Rendering
  <2>1. sp # NULL /\ loop # 0 /\ loop <= heap[sp].loop
    BY DEF CursorInv, LoopWithin
  <2>2. spindex < Len(heap[sp].slots)
    BY <2>1 DEF CursorInv, CursorInSlots, Rendering
  <2>3. loop \in 1 .. heap[sp].loop /\ IsWritten(sp)
    BY <2>1, CurrentMessage
  <2> QED BY <2>1, <2>2, <2>3 DEF CursorInv, CursorLoaded
<1> QED BY <1>1, CursorAlways, TypeCorrect, PostedStaysWritten, PTL

\* The loop counter is only decremented when it is neither 0 nor "for ever".
THEOREM LoopsCountDown == Spec => LoopOnlyCountsDown
<1>1. /\ TypeOK /\ ExclusiveOwnership /\ PostedIsWritten /\ CursorInv /\ [Next]_vars
      => [(sp # NULL /\ sp' = sp /\ loop' # loop) =>
            loop \notin {0, LOOP_INFINITE} /\ loop' = loop - 1]_vars
  BY CursorNext
<1> QED
  BY <1>1, CursorAlways, TypeCorrect, OwnershipIsExclusive, PostedStaysWritten, PTL
  DEF Spec, LoopOnlyCountsDown

(***************************************************************************)
(* The timeline of a message, by its slots                                 *)
(***************************************************************************)

\* Ticks of the k-th slot of message m.
SlotTicks(m, k) == AtLeastOne(m.slots[k].duration)

\* The slots of a message, and that each takes at least a tick.
LEMMA SlotFacts ==
    ASSUME NEW m \in Message
    PROVE  /\ m.slots \in Seq(Slot) /\ Len(m.slots) \in Nat
           /\ DOMAIN m.slots = 1 .. Len(m.slots)
           /\ \A k \in 1 .. Len(m.slots) :
                /\ m.slots[k].duration \in Nat /\ m.slots[k].setpoint \in Setpoint
                /\ SlotTicks(m, k) \in Nat \ {0}
<1>1. m.slots \in Seq(Slot)
  BY DEF Message
<1>2. Len(m.slots) \in Nat /\ DOMAIN m.slots = 1 .. Len(m.slots)
  BY <1>1
<1>3. ASSUME NEW k \in 1 .. Len(m.slots)
      PROVE  /\ m.slots[k].duration \in Nat /\ m.slots[k].setpoint \in Setpoint
             /\ SlotTicks(m, k) \in Nat \ {0}
  <2>1. m.slots[k] \in Slot
    BY <1>1, <1>3, ElementOfSeq
  <2> QED BY <2>1, MaxU16Assumption DEF Slot, U16, SlotTicks, AtLeastOne
<1> QED BY <1>1, <1>2, <1>3

\* The sum is what its recursive definition says.
LEMMA SumOfTicks ==
    ASSUME NEW m \in Message
    PROVE  /\ TicksBefore(m) \in [0 .. Len(m.slots) -> Nat]
           /\ TicksBefore(m)[0] = 0
           /\ \A k \in 1 .. Len(m.slots) :
                TicksBefore(m)[k] = TicksBefore(m)[k - 1] + SlotTicks(m, k)
<1> DEFINE n == Len(m.slots)
           Val(sum, k) == IF k = 0 THEN 0 ELSE sum[k - 1] + SlotTicks(m, k)
           Sum(sum) == sum = [k \in 0 .. n |-> Val(sum, k)]
           step == [k \in 1 .. n |-> [x \in Nat |-> x + SlotTicks(m, k)]]
<1>1. n \in Nat /\ \A k \in 1 .. n : SlotTicks(m, k) \in Nat
  BY SlotFacts
<1>2. \E sum : Sum(sum)
  <2>1. step \in [1 .. n -> [Nat -> Nat]]
    BY <1>1
  <2>2. \A k \in 1 .. n : \A x \in Nat : step[k][x] = x + SlotTicks(m, k)
    OBVIOUS
  <2> HIDE DEF step, n
  <2>3. PICK f \in [0 .. n -> Nat] : Repeats(f, 0, step, n)
    BY <1>1, <2>1, Repeatable
  <2>4. f[0] = 0 /\ \A k \in 1 .. n : f[k] = step[k][f[k - 1]]
    BY <2>3 DEF Repeats
  <2>5. ASSUME NEW k \in 0 .. n PROVE f[k] = IF k = 0 THEN 0 ELSE f[k - 1] + SlotTicks(m, k)
    <3>1. CASE k = 0
      BY <2>4, <3>1
    <3>2. CASE k # 0
      <4>1. k \in 1 .. n /\ k - 1 \in 0 .. n
        BY <1>1, <3>2
      <4>2. f[k - 1] \in Nat
        BY <4>1
      <4> QED BY <2>2, <2>4, <3>2, <4>1, <4>2
    <3> QED BY <3>1, <3>2
  <2>6. Sum(f)
    BY <2>5
  <2> QED BY <2>6
<1>3. Sum(TicksBefore(m))
  <2>1. TicksBefore(m) = CHOOSE sum : Sum(sum)
    BY DEF TicksBefore, SlotTicks
  <2> HIDE DEF Sum
  <2> QED BY <1>2, <2>1
<1> DEFINE s == TicksBefore(m)
<1> HIDE DEF s, n, Val, step
<1>v. /\ DOMAIN s = 0 .. n /\ \A k \in 0 .. n : s[k] = Val(s, k)
      /\ s = [k \in 0 .. n |-> s[k]]
  <2>1. s = [k \in 0 .. n |-> Val(s, k)]
    BY <1>3 DEF s
  <2> QED BY <2>1
<1>4. /\ s[0] = 0 /\ DOMAIN s = 0 .. n
      /\ \A k \in 1 .. n : s[k] = s[k - 1] + SlotTicks(m, k)
  <2>1. 0 \in 0 .. n /\ \A k \in 1 .. n : k \in 0 .. n /\ k # 0
    BY <1>1
  <2> QED BY <1>v, <2>1 DEF Val
<1>5. s = [k \in 0 .. n |-> s[k]]
  BY <1>v
<1>6. \A k \in 0 .. n : s[k] \in Nat
  <2> DEFINE S == {k \in 0 .. n : s[k] \in Nat}
  <2>1. 0 \in S
    BY <1>1, <1>4
  <2>2. ASSUME NEW k \in 0 .. n - 1, k \in S PROVE k + 1 \in S
    <3>1. k + 1 \in 1 .. n /\ (k + 1) - 1 = k /\ s[k] \in Nat
      BY <1>1, <2>2
    <3>2. s[k + 1] = s[k] + SlotTicks(m, k + 1)
      BY <1>4, <3>1
    <3> QED BY <1>1, <3>1, <3>2
  <2> HIDE DEF S
  <2>3. 0 .. n \subseteq S
    BY <1>1, <2>1, <2>2, UpTo
  <2> QED BY <2>3 DEF S
<1>7. s \in [0 .. n -> Nat]
  BY <1>5, <1>6
<1>8. s = TicksBefore(m) /\ n = Len(m.slots)
  BY DEF s, n
<1> QED BY <1>4, <1>7, <1>8, Zenon

\* No slot begins after the last one ends.
LEMMA SumGrows ==
    ASSUME NEW m \in Message, NEW k \in 0 .. Len(m.slots)
    PROVE  TicksBefore(m)[k] <= TicksBefore(m)[Len(m.slots)]
<1> DEFINE n == Len(m.slots)
           s == TicksBefore(m)
           S == {j \in 0 .. n : s[n - j] <= s[n]}
<1>1. n \in Nat /\ \A j \in 1 .. n : SlotTicks(m, j) \in Nat
  BY SlotFacts
<1>2. s \in [0 .. n -> Nat] /\ \A j \in 1 .. n : s[j] = s[j - 1] + SlotTicks(m, j)
  BY SumOfTicks
<1> HIDE DEF s, n
<1>3. 0 \in S
  BY <1>1, <1>2
<1>4. ASSUME NEW j \in 0 .. n - 1, j \in S PROVE j + 1 \in S
  <2>1. /\ n - j \in 1 .. n /\ n - j - 1 = n - (j + 1) /\ j + 1 \in 0 .. n
        /\ n - j \in 0 .. n /\ n - (j + 1) \in 0 .. n /\ n \in 0 .. n
    BY <1>1
  <2>2. s[n - j] = s[n - (j + 1)] + SlotTicks(m, n - j) /\ SlotTicks(m, n - j) \in Nat
    BY <1>1, <1>2, <2>1
  <2>3. s[n - j] \in Nat /\ s[n - (j + 1)] \in Nat /\ s[n] \in Nat
    BY <1>2, <2>1
  <2>4. s[n - j] <= s[n]
    BY <1>4
  <2>5. s[n - (j + 1)] <= s[n]
    BY <2>2, <2>3, <2>4
  <2> QED BY <2>1, <2>5
<1> HIDE DEF S
<1>5. 0 .. n \subseteq S
  BY <1>1, <1>3, <1>4, UpTo
<1>6. n - k \in 0 .. n /\ n - (n - k) = k
  BY <1>1 DEF n
<1> QED BY <1>5, <1>6 DEF S, s, n

\* One pass through a message takes the ticks of its slots, and in each of them
\* shows the setpoint of the slot.
LEMMA TimelineOfSlots ==
    ASSUME NEW m \in Message, m.slots # <<>>
    PROVE  /\ Len(Player!Timeline(m)) = TicksBefore(m)[Len(m.slots)]
           /\ \A k \in 1 .. Len(m.slots) : \A t \in 1 .. SlotTicks(m, k) :
                Player!Timeline(m)[TicksBefore(m)[k - 1] + t] = m.slots[k].setpoint
<1> DEFINE n == Len(m.slots)
           s == TicksBefore(m)
           seqs == [k \in 1 .. n |-> [t \in 1 .. SlotTicks(m, k) |-> m.slots[k].setpoint]]
           Val(line, k) == IF k = 1 THEN seqs[k] ELSE line[k - 1] \o seqs[k]
           Line(line) == line = [k \in 1 .. n |-> Val(line, k)]
           step == [k \in 1 .. n |-> [x \in Seq(Setpoint) |-> x \o seqs[k]]]
<1>1. /\ n \in Nat \ {0} /\ DOMAIN m.slots = 1 .. n
      /\ \A k \in 1 .. n : SlotTicks(m, k) \in Nat \ {0} /\ m.slots[k].setpoint \in Setpoint
  BY SlotFacts
<1>2. ASSUME NEW k \in 1 .. n
      PROVE  /\ seqs[k] \in Seq(Setpoint) /\ Len(seqs[k]) = SlotTicks(m, k)
             /\ \A t \in 1 .. SlotTicks(m, k) : seqs[k][t] = m.slots[k].setpoint
  <2>1. seqs[k] = [t \in 1 .. SlotTicks(m, k) |-> m.slots[k].setpoint]
    OBVIOUS
  <2>2. SlotTicks(m, k) \in Nat /\ m.slots[k].setpoint \in Setpoint
    BY <1>1
  <2> QED BY <2>1, <2>2
<1>3. seqs \in Seq(Seq(Setpoint)) /\ Len(seqs) = n
  BY <1>1, <1>2
<1> HIDE DEF seqs
<1>4. \E line : Line(line)
  <2>1. step \in [1 .. n -> [Seq(Setpoint) -> Seq(Setpoint)]]
    BY <1>2
  <2>2. \A k \in 1 .. n : \A x \in Seq(Setpoint) : step[k][x] = x \o seqs[k]
    OBVIOUS
  <2> HIDE DEF step, n
  <2>3. <<>> \in Seq(Setpoint)
    OBVIOUS
  <2>4. PICK f \in [0 .. n -> Seq(Setpoint)] : Repeats(f, <<>>, step, n)
    BY <1>1, <2>1, <2>3, Repeatable
  <2>5. f[0] = <<>> /\ \A k \in 1 .. n : f[k] = step[k][f[k - 1]]
    BY <2>4 DEF Repeats
  <2>6. ASSUME NEW k \in 1 .. n PROVE f[k] = f[k - 1] \o seqs[k]
    <3>1. k - 1 \in 0 .. n
      BY <1>1
    <3>2. f[k - 1] \in Seq(Setpoint)
      BY <3>1
    <3> QED BY <2>2, <2>5, <3>2
  <2>7. 1 \in 1 .. n /\ 1 - 1 = 0
    BY <1>1
  <2>8. f[1] = seqs[1]
    <3>1. f[1] = <<>> \o seqs[1]
      BY <2>5, <2>6, <2>7
    <3>2. seqs[1] \in Seq(Setpoint)
      BY <1>2, <2>7
    <3> QED BY <3>1, <3>2, ConcatEmptySeq
  <2> DEFINE line == [k \in 1 .. n |-> f[k]]
  <2>9. ASSUME NEW k \in 1 .. n PROVE line[k] = IF k = 1 THEN seqs[k] ELSE line[k - 1] \o seqs[k]
    <3>1. CASE k = 1
      BY <2>8, <3>1
    <3>2. CASE k # 1
      <4>1. k - 1 \in 1 .. n
        BY <1>1, <3>2
      <4>2. line[k - 1] = f[k - 1] /\ line[k] = f[k]
        BY <4>1
      <4> QED BY <2>6, <3>2, <4>2
    <3> QED BY <3>1, <3>2
  <2>10. line = [k \in 1 .. n |-> line[k]]
    OBVIOUS
  <2> HIDE DEF line
  <2>11. Line(line)
    BY <2>9, <2>10
  <2> QED BY <2>11
<1> DEFINE line == CHOOSE line : Line(line)
<1>5. Line(line)
  <2> HIDE DEF Line
  <2> QED BY <1>4
<1>6. Player!Timeline(m) = line[n]
  <2>1. Player!Timeline(m) = Player!FlattenSeq(seqs)
    BY <1>1 DEF Player!Timeline, Player!Ticks, AtLeastOne, SlotTicks, seqs
  <2>2. Player!FlattenSeq(seqs) = line[n]
    BY <1>1, <1>3 DEF Player!FlattenSeq
  <2> QED BY <2>1, <2>2
<1> HIDE DEF line, Val, step
<1>v. \A k \in 1 .. n : line[k] = Val(line, k)
  BY <1>5
<1>7. line[1] = seqs[1] /\ \A k \in 1 .. n - 1 : line[k + 1] = line[k] \o seqs[k + 1]
  <2>1. line[1] = seqs[1]
    <3>1. 1 \in 1 .. n
      BY <1>1
    <3> QED BY <1>v, <3>1 DEF Val
  <2>2. ASSUME NEW k \in 1 .. n - 1 PROVE line[k + 1] = line[k] \o seqs[k + 1]
    <3>1. k + 1 \in 1 .. n /\ k + 1 # 1 /\ (k + 1) - 1 = k
      BY <1>1
    <3>2. line[k + 1] = Val(line, k + 1)
      BY <1>v, <3>1
    <3> QED BY <3>1, <3>2, Zenon DEF Val
  <2> QED BY <2>1, <2>2
<1>8. s \in [0 .. n -> Nat] /\ s[0] = 0 /\ \A k \in 1 .. n : s[k] = s[k - 1] + SlotTicks(m, k)
  BY SumOfTicks
<1> HIDE DEF s, n, Line
<1> DEFINE Slots(k) == /\ line[k] \in Seq(Setpoint) /\ Len(line[k]) = s[k]
                       /\ \A j \in 1 .. k : \A t \in 1 .. SlotTicks(m, j) :
                            /\ s[j - 1] + t \in 1 .. s[k]
                            /\ line[k][s[j - 1] + t] = m.slots[j].setpoint
<1>9. Slots(1)
  <2>1. 1 \in 1 .. n /\ 1 - 1 = 0
    BY <1>1
  <2>2. s[1] = SlotTicks(m, 1) /\ SlotTicks(m, 1) \in Nat
    BY <1>1, <1>8, <2>1
  <2>3. line[1] \in Seq(Setpoint) /\ Len(line[1]) = s[1]
    BY <1>2, <1>7, <2>1, <2>2
  <2>4. ASSUME NEW j \in 1 .. 1, NEW t \in 1 .. SlotTicks(m, j)
        PROVE  s[j - 1] + t \in 1 .. s[1] /\ line[1][s[j - 1] + t] = m.slots[j].setpoint
    <3>1. j = 1 /\ s[j - 1] + t = t /\ t \in 1 .. SlotTicks(m, 1)
      BY <1>8, <2>1, <2>4
    <3>2. seqs[1][t] = m.slots[1].setpoint
      BY <1>2, <2>1, <3>1
    <3> QED BY <1>7, <2>2, <3>1, <3>2
  <2> QED BY <2>3, <2>4
<1>10. ASSUME NEW k \in 1 .. n - 1, Slots(k) PROVE Slots(k + 1)
  <2>1. /\ k + 1 \in 2 .. n /\ k + 1 \in 1 .. n /\ k \in 0 .. n /\ (k + 1) - 1 = k
        /\ k \in Nat /\ k + 1 \in 0 .. n
    BY <1>1
  <2>2. /\ s[k] \in Nat /\ s[k + 1] = s[k] + SlotTicks(m, k + 1) /\ SlotTicks(m, k + 1) \in Nat
    <3>1. s[k + 1] = s[(k + 1) - 1] + SlotTicks(m, k + 1)
      BY <1>8, <2>1
    <3> QED BY <1>1, <1>8, <2>1, <3>1
  <2>3. line[k + 1] = line[k] \o seqs[k + 1]
    BY <1>7
  <2>4. seqs[k + 1] \in Seq(Setpoint) /\ Len(seqs[k + 1]) = SlotTicks(m, k + 1)
    BY <1>2, <2>1
  <2>5. line[k] \in Seq(Setpoint) /\ Len(line[k]) = s[k]
    BY <1>10
  <2>6. /\ line[k + 1] \in Seq(Setpoint) /\ Len(line[k + 1]) = s[k + 1]
        /\ \A i \in 1 .. s[k] + SlotTicks(m, k + 1) :
             line[k + 1][i] = IF i <= s[k] THEN line[k][i] ELSE seqs[k + 1][i - s[k]]
    <3>1. /\ line[k] \o seqs[k + 1] \in Seq(Setpoint)
          /\ Len(line[k] \o seqs[k + 1]) = Len(line[k]) + Len(seqs[k + 1])
          /\ \A i \in 1 .. Len(line[k]) + Len(seqs[k + 1]) :
               (line[k] \o seqs[k + 1])[i] = IF i <= Len(line[k]) THEN line[k][i]
                                              ELSE seqs[k + 1][i - Len(line[k])]
      BY <2>4, <2>5, ConcatProperties, Zenon
    <3> QED BY <2>2, <2>3, <2>4, <2>5, <3>1, Zenon
  <2>7. ASSUME NEW j \in 1 .. k + 1, NEW t \in 1 .. SlotTicks(m, j)
        PROVE  s[j - 1] + t \in 1 .. s[k + 1] /\ line[k + 1][s[j - 1] + t] = m.slots[j].setpoint
    <3>1. CASE j = k + 1
      <4>1. s[j - 1] = s[k] /\ t \in 1 .. SlotTicks(m, k + 1)
        BY <2>1, <2>7, <3>1
      <4> DEFINE i == s[k] + t
      <4>2. /\ i \in 1 .. s[k + 1] /\ ~(i <= s[k]) /\ i - s[k] = t
            /\ i \in 1 .. s[k] + SlotTicks(m, k + 1)
        BY <2>2, <4>1
      <4> HIDE DEF i
      <4>3. line[k + 1][i] = seqs[k + 1][t]
        BY <2>6, <4>2
      <4>4. seqs[k + 1][t] = m.slots[k + 1].setpoint
        BY <1>2, <2>1, <4>1
      <4> QED BY <3>1, <4>1, <4>2, <4>3, <4>4 DEF i
    <3>2. CASE j # k + 1
      <4>1. j \in 1 .. k
        BY <2>1, <3>2
      <4>2. s[j - 1] + t \in 1 .. s[k] /\ line[k][s[j - 1] + t] = m.slots[j].setpoint
        BY <1>10, <2>7, <4>1
      <4>3. /\ s[j - 1] + t \in 1 .. s[k + 1] /\ s[j - 1] + t <= s[k]
            /\ s[j - 1] + t \in 1 .. s[k] + SlotTicks(m, k + 1)
        BY <2>2, <4>2
      <4> QED BY <2>6, <4>2, <4>3
    <3> QED BY <3>1, <3>2
  <2> QED BY <2>6, <2>7
<1> HIDE DEF Slots
<1>11. Slots(n)
  <2> DEFINE S == {k \in 0 .. n - 1 : Slots(k + 1)}
  <2>1. n - 1 \in Nat /\ 0 + 1 = 1
    BY <1>1
  <2>2. 0 \in S
    BY <1>9, <2>1
  <2>3. ASSUME NEW k \in 0 .. (n - 1) - 1, k \in S PROVE k + 1 \in S
    <3>1. k + 1 \in 1 .. n - 1 /\ k + 1 \in 0 .. n - 1
      BY <1>1
    <3>2. Slots(k + 1)
      BY <2>3
    <3>3. Slots(k + 1 + 1)
      BY <1>10, <3>1, <3>2
    <3> QED BY <3>1, <3>3
  <2> HIDE DEF S
  <2>4. 0 .. n - 1 \subseteq S
    BY <2>1, <2>2, <2>3, UpTo
  <2>5. n - 1 \in S
    BY <2>1, <2>4
  <2>6. n - 1 + 1 = n
    BY <1>1
  <2> QED BY <2>5, <2>6 DEF S
<1>12. Len(line[n]) = s[n] /\ \A j \in 1 .. n : \A t \in 1 .. SlotTicks(m, j) :
          line[n][s[j - 1] + t] = m.slots[j].setpoint
  BY <1>11, Zenon DEF Slots
<1> QED BY <1>6, <1>12, Zenon DEF n, s

(***************************************************************************)
(* What the refinement mapping sees of a step of the main thread           *)
(***************************************************************************)

\* What a step of the main thread makes of the mailbox.
LEMMA CommMailbox ==
    ASSUME TypeOK, ReceiveCommand \/ HandleCommand
    PROVE  \/ UNCHANGED mbox
           \/ mbox' = <<>>
           \/ \E p \in Buffer \cup {NULL} : mbox' = Append(mbox, p)
<1>t. buf \in Buffer \cup {NULL} /\ aux \in Buffer \cup {NULL}
  BY DEF TypeOK, CommTypeOK
<1>1. CASE \/ ReceiveHuman \/ ReceiveHeader \/ ReceiveSizedHeader \/ ReceiveFooter \/ ReceiveData
           \/ ReceiveError \/ Finish \/ ServiceSleep \/ ServiceSmooth \/ ServiceOther
  BY <1>1 DEF ReceiveHuman, ReceiveHeader, ReceiveSizedHeader, ReceiveFooter, ReceiveData,
              ReceiveError, Finish, ServiceSleep, ServiceSmooth, ServiceOther, bufferVars
<1>2. CASE SleepReset
  BY <1>2 DEF SleepReset, chMBReset
<1>3. CASE SleepPost \/ SmoothPost \/ ServiceSetpoint
  BY <1>t, <1>3 DEF SleepPost, SmoothPost, ServiceSetpoint, chMBPost
<1>4. CASE ServiceTest
  BY <1>t, <1>4 DEF ServiceTest, TestAlloc, TestPost, chMBPost
<1> QED BY <1>1, <1>2, <1>3, <1>4 DEF ReceiveCommand, HandleCommand

\* The queue SetpointPlayer sees stays when the mailbox and its messages do.
LEMMA QueueStays ==
    ASSUME UNCHANGED mbox, \A p \in Queued : heap'[p] = heap[p]
    PROVE  QueuedMessages' = QueuedMessages
<1>1. \A i \in DOMAIN mbox : mbox[i] = NULL \/ heap'[mbox[i]] = heap[mbox[i]]
  BY DEF Queued
<1> QED BY <1>1 DEF QueuedMessages, Content, Nothing

\* So does the message that waits,
LEMMA PendingStays ==
    ASSUME UNCHANGED <<nextsp, delay>>, nextsp # NULL => heap'[nextsp] = heap[nextsp]
    PROVE  Pending' = Pending /\ Waited' = Waited
BY DEF Pending, Waited, Content, Nothing

\* and the one that plays.
LEMMA CurrentStays ==
    ASSUME UNCHANGED <<sp, loop, duration, spindex>>, sp # NULL => heap'[sp] = heap[sp]
    PROVE  Current' = Current /\ Played' = Played
BY DEF Current, Played, PassTicks, PassPlayed, PlayedInSlot, Content, Nothing

\* A pointer posted is a message added at the end of the queue.
LEMMA PostIsPost ==
    ASSUME TypeOK, NEW p \in Buffer \cup {NULL}, mbox' = Append(mbox, p),
           \A q \in Queued : heap'[q] = heap[q]
    PROVE  QueuedMessages' # <<>> /\ Player!Front(QueuedMessages') = QueuedMessages
<1> DEFINE n == Len(mbox)
           M == Message \cup {Unwritten}
<1>0. n \in Nat /\ DOMAIN mbox = 1 .. n /\ n + 1 \in Nat
  BY DEF TypeOK, BuffersTypeOK
<1>1. DOMAIN mbox' = 1 .. n + 1 /\ \A i \in 1 .. n : mbox'[i] = mbox[i]
  BY <1>0 DEF TypeOK, BuffersTypeOK
<1>2. \A i \in 1 .. n : mbox[i] = NULL \/ heap'[mbox[i]] = heap[mbox[i]]
  BY <1>0 DEF Queued
<1>3. /\ QueuedMessages = [i \in 1 .. n |-> QueuedMessages[i]]
      /\ QueuedMessages' = [i \in 1 .. n + 1 |-> QueuedMessages'[i]]
      /\ \A i \in 1 .. n : QueuedMessages'[i] = QueuedMessages[i]
  BY <1>0, <1>1, <1>2 DEF QueuedMessages, Content, Nothing
<1> DEFINE q == QueuedMessages'
           r == QueuedMessages
<1>4. Len(q) = n + 1
  BY <1>0, <1>3
<1>5. SubSeq(q, 1, n) = r
  BY <1>0, <1>3
<1>6. Player!Front(q) = SubSeq(q, 1, n)
  BY <1>0, <1>4 DEF Player!Front
<1>7. q # <<>>
  BY <1>0, <1>4
<1> QED BY <1>5, <1>6, <1>7

\* A step of the main thread posts, flushes, or shows nothing.
LEMMA CommPlays ==
    ASSUME TypeOK, ExclusiveOwnership, ReceiveCommand \/ HandleCommand, UNCHANGED motionVars
    PROVE  [Player!Next]_(Player!vars)
<1>1. /\ UNCHANGED <<sp, nextsp, delay, loop, duration, spindex, motor>>
  BY DEF motionVars
<1>2. Pending' = Pending /\ Waited' = Waited /\ Current' = Current /\ Played' = Played
  BY <1>1, CommKeepsMessages, PendingStays, CurrentStays
<1>3. CASE UNCHANGED mbox
  <2>1. QueuedMessages' = QueuedMessages
    BY <1>3, CommKeepsMessages, QueueStays
  <2> QED BY <1>1, <1>2, <2>1 DEF Player!vars
<1>4. CASE mbox' = <<>>
  <2>1. QueuedMessages' = <<>>
    BY <1>4 DEF QueuedMessages
  <2>2. Player!Flush
    BY <1>1, <1>2, <2>1 DEF Player!Flush
  <2> QED BY <2>2 DEF Player!Next
<1>5. CASE \E p \in Buffer \cup {NULL} : mbox' = Append(mbox, p)
  <2>1. QueuedMessages' # <<>> /\ Player!Front(QueuedMessages') = QueuedMessages
    BY <1>5, CommKeepsMessages, PostIsPost
  <2>2. Player!Post
    BY <1>1, <1>2, <2>1 DEF Player!Post
  <2> QED BY <2>2 DEF Player!Next
<1> QED BY <1>3, <1>4, <1>5, CommMailbox

(***************************************************************************)
(* What it sees of a step of driver_thread                                 *)
(***************************************************************************)

\* What the mapping needs besides: an endless message is played as one, and
\* the time a message still has to wait is not more than its delay.
EndlessStays == sp # NULL /\ heap[sp].loop = LOOP_INFINITE => loop = LOOP_INFINITE
DelayWithin == nextsp # NULL => delay <= heap[nextsp].delay

PlayerInv == EndlessStays /\ DelayWithin

\* Where the cursor is in the timeline of the message that plays.
LEMMA PlayedInPass ==
    ASSUME TypeOK, PostedIsWritten, CursorInv, sp # NULL, spindex < Len(heap[sp].slots)
    PROVE  /\ Current = heap[sp] /\ Current \in Message /\ Current.slots # <<>>
           /\ PassTicks \in Nat \ {0} /\ Len(Player!Timeline(Current)) = PassTicks
           /\ PassPlayed \in 0 .. PassTicks - 1
           /\ Player!Timeline(Current)[PassPlayed + 1] = setpoint
           /\ Played = (Current.loop - loop) * PassTicks + PassPlayed
<1> DEFINE m == heap[sp]
           n == Len(m.slots)
           s == TicksBefore(m)
           j == spindex + 1
           d == m.slots[j].duration
<1>1. Current = m /\ m \in Message /\ duration \in Nat /\ spindex \in Nat
  BY CurrentMessage DEF Current, Content
<1>2. /\ m.slots # <<>> /\ n \in Nat /\ j \in 1 .. n /\ j - 1 = spindex
      /\ spindex \in 0 .. n /\ n \in 0 .. n /\ j \in 0 .. n
  BY <1>1, SlotFacts
<1>3. d \in Nat /\ duration <= d /\ setpoint = m.slots[j].setpoint
  BY <1>1, <1>2, SlotFacts DEF CursorInv, CursorLoaded
<1>4. /\ s \in [0 .. n -> Nat] /\ s[j] = s[j - 1] + SlotTicks(m, j)
      /\ s[j] <= s[n]
  BY <1>1, <1>2, SumOfTicks, SumGrows
<1>5. /\ SlotTicks(m, j) = AtLeastOne(d) /\ PassTicks = s[n]
      /\ PassPlayed = s[spindex] + (AtLeastOne(d) - AtLeastOne(duration))
  BY <1>1, Zenon DEF SlotTicks, PassTicks, PassPlayed, PlayedInSlot
<1>6. /\ s[spindex] \in Nat /\ s[j] \in Nat /\ s[n] \in Nat
      /\ s[j] = s[spindex] + SlotTicks(m, j) /\ s[j] <= s[n]
  BY <1>2, <1>4
<1>7. AtLeastOne(d) \in Nat /\ AtLeastOne(duration) \in 1 .. AtLeastOne(d)
  BY <1>1, <1>3 DEF AtLeastOne
<1> DEFINE t == AtLeastOne(d) - AtLeastOne(duration) + 1
<1>8. t \in 1 .. SlotTicks(m, j) /\ PassPlayed + 1 = s[j - 1] + t
  BY <1>2, <1>5, <1>6, <1>7
<1>9. PassTicks \in Nat \ {0} /\ PassPlayed \in 0 .. PassTicks - 1
  <2> DEFINE p == AtLeastOne(d)
             q == AtLeastOne(duration)
             before == s[spindex]
             whole == s[n]
  <2>1. p \in Nat /\ q \in 1 .. p
    BY <1>7
  <2>2. before \in Nat /\ whole \in Nat /\ before + p <= whole
    BY <1>5, <1>6
  <2>3. PassTicks = whole /\ PassPlayed = before + (p - q)
    BY <1>5
  <2> HIDE DEF p, q, before, whole
  <2>4. whole \in Nat \ {0} /\ before + (p - q) \in 0 .. whole - 1
    BY <2>1, <2>2
  <2> QED BY <2>3, <2>4
<1>10. /\ Len(Player!Timeline(m)) = s[n]
       /\ Player!Timeline(m)[s[j - 1] + t] = m.slots[j].setpoint
  <2> HIDE DEF t, j, s
  <2>1. /\ Len(Player!Timeline(m)) = TicksBefore(m)[n]
        /\ \A k \in 1 .. n : \A i \in 1 .. SlotTicks(m, k) :
             Player!Timeline(m)[TicksBefore(m)[k - 1] + i] = m.slots[k].setpoint
    BY <1>1, <1>2, TimelineOfSlots
  <2> QED BY <1>2, <1>8, <2>1, Zenon DEF s
<1>11. Played = (Current.loop - loop) * PassTicks + PassPlayed
  BY <1>1, <1>2 DEF Played
<1> QED BY <1>1, <1>2, <1>3, <1>5, <1>8, <1>9, <1>10, <1>11, Zenon

\* Rendering moves on by one tick, to the next pass at the end of one.
LEMMA RenderMoves ==
    ASSUME TypeOK, PostedIsWritten, CursorInv, Render
    PROVE  /\ sp # NULL /\ spindex < Len(heap[sp].slots)
           /\ UNCHANGED <<Current, PassTicks>>
           /\ Played' = (Current.loop - loop') * PassTicks + PassPlayed'
           /\ \/ PassPlayed + 1 < PassTicks /\ PassPlayed' = PassPlayed + 1 /\ loop' = loop
              \/ /\ PassPlayed + 1 = PassTicks /\ PassPlayed' = 0
                 /\ loop' = IF loop = LOOP_INFINITE THEN loop ELSE loop - 1
<1> DEFINE m == heap[sp]
           n == Len(m.slots)
           s == TicksBefore(m)
<1>1. /\ sp # NULL /\ loop # 0 /\ spindex < n /\ sp' = sp /\ heap' = heap
      /\ mpc = "render"
  BY DEF Render, bufferVars, CursorInv, CursorInSlots, LoopWithin, Rendering
<1>2. Current' = Current /\ PassTicks' = PassTicks /\ Current = m
  BY <1>1 DEF Current, Content, PassTicks
<1>3. m \in Message /\ m.slots # <<>> /\ loop \in Nat /\ duration \in Nat /\ spindex \in Nat /\ n \in Nat
  BY <1>1, CurrentMessage, PlayedInPass
<1>4. Played' = (Current.loop - loop') * PassTicks + PassPlayed'
  BY <1>1, <1>2, <1>3 DEF Played
<1>5. /\ s \in [0 .. n -> Nat] /\ s[0] = 0
      /\ \A k \in 1 .. n : s[k] = s[k - 1] + SlotTicks(m, k) /\ s[k] <= s[n]
      /\ \A k \in 1 .. n : SlotTicks(m, k) \in Nat \ {0} /\ SlotTicks(m, k) = AtLeastOne(m.slots[k].duration)
  BY <1>3, SumOfTicks, SumGrows, SlotFacts DEF SlotTicks
<1>6. /\ PassTicks = s[n]
      /\ PassPlayed = s[spindex] + (AtLeastOne(m.slots[spindex + 1].duration) - AtLeastOne(duration))
      /\ PassPlayed' = s[spindex'] + (AtLeastOne(m.slots[spindex' + 1].duration) - AtLeastOne(duration'))
  BY <1>1, <1>2 DEF PassTicks, PassPlayed, PlayedInSlot
<1>7. PassPlayed \in 0 .. PassTicks - 1 /\ PassTicks \in Nat
  BY <1>1, PlayedInPass
<1> DEFINE j == spindex + 1
<1>8. j \in 1 .. n /\ j - 1 = spindex /\ spindex \in 0 .. n /\ j \in 0 .. n
  BY <1>1, <1>3
<1>9. /\ s[spindex] \in Nat /\ s[j] = s[spindex] + SlotTicks(m, j) /\ s[j] <= s[n]
      /\ SlotTicks(m, j) \in Nat \ {0}
  BY <1>5, <1>8
<1>10. SlotTicks(m, j) = AtLeastOne(m.slots[j].duration)
  BY <1>5, <1>8
<1>11. CASE duration > 1
  <2>1. duration' = duration - 1 /\ UNCHANGED <<loop, spindex>>
    BY <1>1, <1>11 DEF Render
  <2>2. AtLeastOne(duration) = duration /\ AtLeastOne(duration') = duration - 1
    BY <1>3, <1>11, <2>1 DEF AtLeastOne
  <2> HIDE DEF s
  <2>3. PassPlayed' = PassPlayed + 1
    BY <1>3, <1>6, <1>9, <1>10, <2>1, <2>2
  <2>4. PassPlayed + 1 < s[j]
    BY <1>3, <1>6, <1>9, <1>10, <1>11, <2>2
  <2>5. s[j] \in Nat /\ s[n] \in Nat
    BY <1>9, <1>6, <1>7
  <2>6. PassPlayed + 1 < PassTicks
    BY <1>6, <1>7, <1>9, <2>4, <2>5
  <2> QED BY <1>1, <1>2, <1>4, <2>1, <2>3, <2>6
<1>12. CASE ~(duration > 1)
  <2>1. NextSlot
    BY <1>12 DEF Render
  <2>2. CountAt(sp) = {n} /\ IsWritten(sp)
    BY <1>1, CurrentMessage DEF CountAt
  <2>3. /\ spindex' = IF spindex + 1 >= n THEN 0 ELSE spindex + 1
        /\ loop' = IF spindex + 1 >= n /\ loop # LOOP_INFINITE THEN DecrementU16(loop) ELSE loop
        /\ LoadSpData(sp, spindex')
    BY <2>1, <2>2 DEF NextSlot
  <2>4. /\ spindex' \in Nat /\ spindex' < n
        /\ spindex' + 1 \in 1 .. n /\ spindex' \in 0 .. n
    <3> HIDE DEF n
    <3>1. spindex' \in 0 .. n - 1
      BY <1>1, <1>3, <2>3
    <3>2. n \in Nat
      BY <1>3
    <3> QED BY <3>1, <3>2, IndexFacts
  <2>5. duration' = m.slots[spindex' + 1].duration
    BY <2>2, <2>3, <2>4 DEF LoadSpData, SlotAt
  <2>6. AtLeastOne(duration) = 1
    BY <1>3, <1>12 DEF AtLeastOne
  <2> HIDE DEF s
  <2>7. PassPlayed + 1 = s[j]
    BY <1>6, <1>9, <1>10, <2>6
  <2>8. PassPlayed' = s[spindex']
    <3>1. AtLeastOne(duration') \in Nat /\ s[spindex'] \in Nat
      BY <1>5, <2>4, <2>5
    <3> QED BY <1>6, <2>5, <3>1
  <2>9. CASE j >= n
    <3>1. j = n /\ spindex' = 0
      BY <1>3, <1>8, <2>3, <2>9
    <3>2. loop' = IF loop = LOOP_INFINITE THEN loop ELSE loop - 1
      BY <1>1, <2>3, <2>9 DEF DecrementU16
    <3> QED BY <1>1, <1>2, <1>4, <1>5, <1>6, <2>7, <2>8, <3>1, <3>2
  <2>10. CASE ~(j >= n)
    <3>1. spindex' = j /\ loop' = loop /\ j + 1 \in 1 .. n /\ (j + 1) - 1 = j
      BY <1>3, <1>8, <2>3, <2>10
    <3>2. s[j + 1] = s[j] + SlotTicks(m, j + 1) /\ s[j + 1] <= s[n] /\ SlotTicks(m, j + 1) \in Nat \ {0}
      BY <1>5, <3>1
    <3>3. s[j] < s[n]
      <4>1. s[j] \in Nat /\ s[j + 1] \in Nat /\ s[n] \in Nat
        <5>1. j \in 0 .. n /\ j + 1 \in 0 .. n /\ n \in 0 .. n
          BY <1>3, <1>8, <3>1
        <5> QED BY <1>5, <5>1
      <4> QED BY <3>2, <4>1
    <3> QED BY <1>1, <1>2, <1>4, <1>6, <2>7, <2>8, <3>1, <3>3
  <2> QED BY <2>9, <2>10
<1> QED BY <1>11, <1>12

\* What the motion driver can reach are messages.
LEMMA PostedMessages ==
    ASSUME TypeOK, PostedIsWritten
    PROVE  /\ \A p \in Queued : p \in Buffer /\ heap[p] \in Message
           /\ nextsp # NULL => nextsp \in Buffer /\ heap[nextsp] \in Message
           /\ sp # NULL => sp \in Buffer /\ heap[sp] \in Message
<1>1. \A p \in Queued \cup NonNull(nextsp) \cup NonNull(sp) : p \in Buffer /\ heap[p] \in Message
  BY DEF PostedIsWritten, IsWritten, TypeOK, BuffersTypeOK
<1> QED BY <1>1 DEF NonNull

\* What a step of driver_thread frees is the message that plays, which is
\* neither queued nor next.
LEMMA FreeSpKeeps ==
    ASSUME TypeOK, ExclusiveOwnership, PostedIsWritten, FreeSp
    PROVE  /\ nextsp # NULL => heap'[nextsp] = heap[nextsp]
           /\ \A p \in Queued : heap'[p] = heap[p]
<1>1. CASE sp = NULL
  BY <1>1 DEF FreeSp
<1>2. CASE sp # NULL
  <2>1. heap' = [heap EXCEPT ![sp] = Unwritten] /\ heap \in [Buffer -> Message \cup {Unwritten}]
    BY <1>2 DEF FreeSp, chPoolFree, TypeOK, BuffersTypeOK
  <2>2. sp \notin Queued /\ (nextsp # NULL => nextsp # sp)
    BY <1>2 DEF ExclusiveOwnership, PoolApart, PointersDistinct, Distinct
  <2> QED BY <2>1, <2>2, PostedMessages
<1> QED BY <1>1, <1>2

\* Fetching a pointer takes the oldest message of the queue.
LEMMA FetchIsTake ==
    ASSUME TypeOK, ExclusiveOwnership, PostedIsWritten, LoadNextsp, nextsp = NULL, mbox # <<>>
    PROVE  Player!Take
<1> DEFINE n == Len(mbox)
<1>1. /\ chMBFetch(nextsp') /\ delay' \in DelayAt(nextsp')
      /\ UNCHANGED <<heap, sp, loop, duration, spindex, motor>>
  BY DEF LoadNextsp, cursorVars
<1>2. /\ n \in Nat /\ n >= 1 /\ DOMAIN mbox = 1 .. n /\ nextsp' = mbox[1] /\ mbox' = Tail(mbox)
      /\ Len(mbox') = n - 1 /\ DOMAIN mbox' = 1 .. n - 1
      /\ \A i \in 1 .. n - 1 : mbox'[i] = mbox[i + 1]
  BY <1>1 DEF chMBFetch, TypeOK, BuffersTypeOK
<1>3. Current' = Current /\ Played' = Played
  BY <1>1, CurrentStays
<1>4. /\ QueuedMessages = [i \in 1 .. n |-> QueuedMessages[i]]
      /\ \A i \in 1 .. n : QueuedMessages[i] = Content(mbox[i])
  BY <1>2 DEF QueuedMessages
<1>5. QueuedMessages' = [i \in 1 .. n - 1 |-> QueuedMessages[i + 1]]
  BY <1>1, <1>2 DEF QueuedMessages, Content, Nothing
<1>6. QueuedMessages # <<>> /\ Head(QueuedMessages) = QueuedMessages[1]
  BY <1>2, <1>4
<1>7. Tail(QueuedMessages) = QueuedMessages'
  <2>1. Len(QueuedMessages) = n
    BY <1>2, <1>4
  <2> QED BY <1>2, <1>4, <1>5, <2>1
<1>8. Pending' = QueuedMessages[1] /\ Pending = Nothing
  BY <1>1, <1>2 DEF Pending, QueuedMessages, Content, Nothing
<1>9. Waited' = 0
  <2>1. CASE nextsp' = NULL
    BY <2>1 DEF Waited
  <2>2. CASE nextsp' # NULL
    <3>1. nextsp' \in Queued
      BY <1>2, <2>2 DEF Queued
    <3>2. IsWritten(nextsp') /\ heap[nextsp'] \in Message
      BY <3>1, PostedMessages DEF PostedIsWritten
    <3>3. delay' = heap[nextsp'].delay /\ delay' \in Nat
      BY <1>1, <3>2, MaxU16Assumption DEF DelayAt, Message, U16
    <3>4. heap' = heap
      BY <1>1
    <3> QED BY <2>2, <3>3, <3>4 DEF Waited
  <2> QED BY <2>1, <2>2
<1> QED BY <1>1, <1>3, <1>6, <1>7, <1>8, <1>9 DEF Player!Take

\* The delay counted down is a tick waited.
LEMMA DelayIsWaited ==
    ASSUME TypeOK, PostedIsWritten, DelayWithin, ActivateSpAfterDelay, nextsp # NULL, delay # 0
    PROVE  Player!Wait
<1>1. /\ delay' = delay - 1 /\ UNCHANGED <<heap, mbox, sp, nextsp, loop, duration, spindex, motor>>
  BY DEF ActivateSpAfterDelay, cursorVars
<1>2. QueuedMessages' = QueuedMessages /\ Current' = Current /\ Played' = Played
  BY <1>1, QueueStays, CurrentStays
<1>3. Pending' = Pending /\ Pending = heap[nextsp] /\ Pending # Nothing
  BY <1>1, PostedMessages, UnwrittenAssumption DEF Pending, Content, Nothing
<1>4. delay \in Nat /\ heap[nextsp].delay \in Nat /\ delay <= heap[nextsp].delay
  BY PostedMessages, MaxU16Assumption DEF DelayWithin, TypeOK, MotionTypeOK, Message, U16
<1>5. Waited = heap[nextsp].delay - delay /\ Waited' = heap[nextsp].delay - (delay - 1)
  BY <1>1 DEF Waited
<1>6. Waited < Pending.delay /\ Waited' = Waited + 1
  BY <1>3, <1>4, <1>5
<1> QED BY <1>1, <1>2, <1>3, <1>6 DEF Player!Wait

\* When the delay is over the message starts, from the beginning of its timeline.
LEMMA ReplaceIsStart ==
    ASSUME TypeOK, ExclusiveOwnership, PostedIsWritten, ActivateSpAfterDelay,
           nextsp # NULL, delay = 0
    PROVE  Player!Start
<1> DEFINE m == heap[nextsp]
<1>1. /\ FreeSp /\ sp' = nextsp /\ nextsp' = NULL /\ spindex' = 0
      /\ loop' \in LoopAt(nextsp) /\ LoadSpData(nextsp, 0) /\ UNCHANGED <<mbox, motor>>
  BY DEF ActivateSpAfterDelay, ReplaceSp
<1>2. m \in Message /\ IsWritten(nextsp)
  BY PostedMessages, UnwrittenAssumption DEF IsWritten
<1>3. heap'[nextsp] = m /\ \A p \in Queued : heap'[p] = heap[p]
  BY <1>1, FreeSpKeeps
<1>4. QueuedMessages' = QueuedMessages
  BY <1>1, <1>3, QueueStays
<1>5. Pending = m /\ Pending # Nothing /\ Pending' = Nothing /\ Waited' = 0
  BY <1>1, <1>2, UnwrittenAssumption DEF Pending, Waited, Content, Nothing
<1>6. Waited = Pending.delay
  BY <1>2, <1>5, MaxU16Assumption DEF Waited, Message, U16
<1>7. Current' = m
  BY <1>1, <1>3 DEF Current, Content
<1>8. Played' = 0
  <2>1. CASE m.slots = <<>>
    BY <1>7, <2>1 DEF Played
  <2>2. CASE m.slots # <<>>
    <3>1. 0 < Len(m.slots) /\ 1 \in 1 .. Len(m.slots) /\ 0 + 1 = 1
      BY <1>2, <2>2, SlotFacts
    <3>2. duration' = m.slots[1].duration
      BY <1>1, <1>2, <3>1 DEF LoadSpData, SlotAt
    <3>3. SlotTicks(m, 1) = AtLeastOne(duration') /\ SlotTicks(m, 1) \in Nat
      BY <1>2, <3>1, <3>2, SlotFacts DEF SlotTicks
    <3>4. PlayedInSlot' = 0
      BY <1>1, <1>7, <3>1, <3>2, <3>3 DEF PlayedInSlot
    <3>5. TicksBefore(m)[0] = 0 /\ TicksBefore(m)[Len(m.slots)] \in Nat
      <4>1. /\ TicksBefore(m) \in [0 .. Len(m.slots) -> Nat]
            /\ TicksBefore(m)[0] = 0
        BY <1>2, SumOfTicks
      <4>2. Len(m.slots) \in 0 .. Len(m.slots)
        BY <1>2, SlotFacts
      <4> QED BY <4>1, <4>2
    <3>6. PassPlayed' = 0 /\ PassTicks' \in Nat
      BY <1>1, <1>7, <3>4, <3>5 DEF PassPlayed, PassTicks
    <3>7. loop' = m.loop /\ m.loop \in Nat
      BY <1>1, <1>2, MaxU16Assumption DEF LoopAt, Message, U16
    <3>8. Played' = (m.loop - loop') * PassTicks' + PassPlayed'
      BY <1>1, <1>7, <2>2 DEF Played
    <3> QED BY <3>6, <3>7, <3>8
  <2> QED BY <2>1, <2>2
<1> QED BY <1>1, <1>4, <1>5, <1>6, <1>7, <1>8 DEF Player!Start

\* The step shows nothing of what SetpointPlayer looks at.
LEMMA NothingSeen ==
    ASSUME UNCHANGED <<mbox, heap, sp, nextsp, delay, loop, duration, spindex, motor>>
    PROVE  UNCHANGED Player!vars
<1>1. QueuedMessages' = QueuedMessages
  BY QueueStays
<1>2. Pending' = Pending /\ Waited' = Waited
  BY PendingStays
<1>3. Current' = Current /\ Played' = Played
  BY CurrentStays
<1> QED BY <1>1, <1>2, <1>3 DEF Player!vars

\* What is freed is not looked at any more.
LEMMA FreedStops ==
    ASSUME TypeOK, ExclusiveOwnership, PostedIsWritten, FreeSp, sp' = NULL,
           UNCHANGED <<mbox, nextsp, delay>>, motor' \in {motor, Off},
           Current = Nothing \/ Player!Over(Current, Played)
    PROVE  Player!Stop
<1>1. QueuedMessages' = QueuedMessages
  BY FreeSpKeeps, QueueStays
<1>2. Pending' = Pending /\ Waited' = Waited
  BY FreeSpKeeps, PendingStays
<1>3. Current' = Nothing /\ Played' = 0
  BY DEF Current, Played, Content, Nothing
<1> QED BY <1>1, <1>2, <1>3 DEF Player!Stop

\* A message without slots is over as soon as it is looked at.
LEMMA EmptyStops ==
    ASSUME TypeOK, ExclusiveOwnership, PostedIsWritten, FreeSpIfEmpty
    PROVE  Player!Stop \/ UNCHANGED Player!vars
<1>1. PICK n \in CountAt(sp) :
         IF sp # NULL /\ n = 0 THEN FreeSp /\ sp' = NULL ELSE UNCHANGED <<pool, heap, sp>>
  BY DEF FreeSpIfEmpty
<1>2. UNCHANGED <<mbox, nextsp, delay, loop, duration, spindex, motor>>
  BY DEF FreeSpIfEmpty, cursorVars
<1>3. CASE sp # NULL /\ n = 0
  <2>1. heap[sp] \in Message /\ Len(heap[sp].slots) = 0
    BY <1>1, <1>3, CurrentMessage DEF CountAt
  <2>2. Current.slots = <<>>
    BY <1>3, <2>1, SlotFacts DEF Current, Content
  <2>3. Player!Over(Current, Played)
    BY <2>2 DEF Player!Over
  <2> QED BY <1>1, <1>2, <1>3, <2>3, FreedStops
<1>4. CASE ~(sp # NULL /\ n = 0)
  BY <1>1, <1>2, <1>4, NothingSeen
<1> QED BY <1>3, <1>4

\* The motor is switched off when nothing plays, or when all passes are over.
LEMMA NoUpdateStops ==
    ASSUME TypeOK, ExclusiveOwnership, PostedIsWritten, CursorInv, EndlessStays, HasNoUpdate
    PROVE  Player!Stop
<1>1. /\ FreeSp /\ sp' = NULL /\ motor' = Off /\ UNCHANGED <<mbox, nextsp, delay>>
      /\ sp = NULL \/ loop = 0
      /\ mpc = "update"
  BY DEF HasNoUpdate
<1>2. CASE sp = NULL
  <2>1. Current = Nothing
    BY <1>2 DEF Current, Content
  <2> QED BY <1>1, <2>1, FreedStops
<1>3. CASE sp # NULL
  <2>1. loop = 0 /\ spindex < Len(heap[sp].slots)
    BY <1>1, <1>3 DEF CursorInv, CursorInSlots
  <2>2. /\ Current = heap[sp] /\ Current \in Message
        /\ Len(Player!Timeline(Current)) = PassTicks /\ PassTicks \in Nat
        /\ PassPlayed \in Nat
        /\ Played = (Current.loop - 0) * PassTicks + PassPlayed
    BY <1>3, <2>1, PlayedInPass
  <2>3. Current.loop # LOOP_INFINITE /\ Current.loop \in Nat
    BY <1>3, <2>1, <2>2, MaxU16Assumption DEF EndlessStays, LOOP_INFINITE, Message, U16
  <2>4. Played >= Current.loop * PassTicks
    BY <2>2, <2>3, AllPasses
  <2>5. Player!Over(Current, Played)
    BY <2>2, <2>3, <2>4 DEF Player!Over
  <2> QED BY <1>1, <2>5, FreedStops
<1> QED BY <1>2, <1>3

\* What is rendered is the setpoint the timeline has at this tick.
LEMMA RenderIsPlay ==
    ASSUME TypeOK, PostedIsWritten, CursorInv, EndlessStays, Render
    PROVE  Player!Play
<1> DEFINE L == Current.loop
           T == PassTicks
           r == PassPlayed
<1>1. /\ UNCHANGED <<mbox, heap, nextsp, delay>> /\ motor' = setpoint /\ mpc = "render"
  BY DEF Render, bufferVars
<1>2. /\ sp # NULL /\ spindex < Len(heap[sp].slots) /\ UNCHANGED <<Current, PassTicks>>
      /\ Played' = (L - loop') * T + PassPlayed'
      /\ \/ r + 1 < T /\ PassPlayed' = r + 1 /\ loop' = loop
         \/ /\ r + 1 = T /\ PassPlayed' = 0
            /\ loop' = IF loop = LOOP_INFINITE THEN loop ELSE loop - 1
  BY RenderMoves
<1>3. /\ Current = heap[sp] /\ Current \in Message /\ Current.slots # <<>>
      /\ T \in Nat \ {0} /\ Len(Player!Timeline(Current)) = T
      /\ r \in 0 .. T - 1
      /\ Player!Timeline(Current)[r + 1] = setpoint
      /\ Played = (L - loop) * T + r
  BY <1>2, PlayedInPass
<1>4. /\ L \in 0 .. MaxU16 /\ L \in Nat /\ loop \in 1 .. L /\ LOOP_INFINITE = MaxU16 /\ MaxU16 \in Nat
      /\ L = LOOP_INFINITE => loop = LOOP_INFINITE
  <2>1. loop # 0 /\ loop <= heap[sp].loop
    BY <1>1, <1>2 DEF CursorInv, LoopWithin, Rendering
  <2>2. heap[sp].loop \in 0 .. MaxU16 /\ loop \in 0 .. MaxU16 /\ MaxU16 \in Nat
    BY <1>3, MaxU16Assumption DEF Message, U16, TypeOK, MotionTypeOK
  <2> QED BY <1>2, <1>3, <2>1, <2>2 DEF EndlessStays, LOOP_INFINITE
<1>5. UNCHANGED <<QueuedMessages, Pending, Waited>>
  <2>1. QueuedMessages' = QueuedMessages
    BY <1>1, QueueStays
  <2>2. Pending' = Pending /\ Waited' = Waited
    BY <1>1, PendingStays
  <2> QED BY <2>1, <2>2
<1>6. Current # Nothing
  BY <1>3, UnwrittenAssumption DEF Nothing
<1> DEFINE line == Player!Timeline(Current)
<1> HIDE DEF L, T, r, line
<1>7. Played < L * T
  BY <1>3, <1>4, PassesLeft
<1>8. ~Player!Over(Current, Played)
  <2>1. ~(Played >= L * T)
    <3>1. Played \in Int /\ L * T \in Int
      BY <1>3, <1>4
    <3> QED BY <1>7, <3>1
  <2> QED BY <1>3, <2>1 DEF Player!Over, L, T, line
<1>9. Played % T = r
  <2>1. L - loop \in Nat
    BY <1>4
  <2> QED BY <1>3, <2>1, Remainder
<1>10. motor' = line[(Played % Len(line)) + 1]
  BY <1>1, <1>3, <1>9, Zenon DEF line
<1>11. CASE L = LOOP_INFINITE
  <2>1. loop = L /\ loop' = L
    BY <1>2, <1>4, <1>11
  <2>2. L - L = 0 /\ 0 * T = 0 /\ r \in Nat
    BY <1>3, <1>4
  <2>3. Played = r /\ Played' = PassPlayed' /\ PassPlayed' \in Nat
    <3>1. PassPlayed' \in Nat
      BY <1>2, <1>3
    <3> QED BY <1>2, <1>3, <2>1, <2>2, <3>1
  <2>4. Played' = (Played + 1) % T
    <3>1. CASE r + 1 < T /\ PassPlayed' = r + 1
      <4>1. r + 1 \in 0 .. T - 1
        BY <1>3, <3>1
      <4>2. (r + 1) % T = r + 1
        BY <1>3, <4>1, PassRemainder
      <4> QED BY <2>3, <3>1, <4>2
    <3>2. CASE r + 1 = T /\ PassPlayed' = 0
      <4>1. T % T = 0
        BY <1>3, PassRemainder
      <4> QED BY <2>3, <3>2, <4>1
    <3> QED BY <1>2, <3>1, <3>2
  <2> QED BY <1>1, <1>2, <1>3, <1>5, <1>6, <1>8, <1>10, <1>11, <2>4 DEF Player!Play, L, T, line
<1>12. CASE L # LOOP_INFINITE
  <2>1. loop # LOOP_INFINITE
    BY <1>4, <1>12
  <2>2. Played' = Played + 1
    <3>1. CASE r + 1 < T /\ PassPlayed' = r + 1 /\ loop' = loop
      <4>1. (L - loop) * T \in Int /\ r \in Int
        BY <1>3, <1>4
      <4> QED BY <1>2, <1>3, <3>1, <4>1
    <3>2. CASE r + 1 = T /\ PassPlayed' = 0 /\ loop' = loop - 1
      <4>1. L - (loop - 1) = (L - loop) + 1 /\ L - loop \in Nat
        BY <1>4
      <4>2. ((L - loop) + 1) * T = (L - loop) * T + T
        BY <1>3, <4>1, OneMorePass
      <4>3. (L - loop) * T \in Int
        BY <1>3, <4>1
      <4>4. (L - (loop - 1)) * T + 0 = ((L - loop) * T + r) + 1
        <5> DEFINE whole == (L - loop) * T
        <5>1. whole \in Int /\ r \in Int /\ T \in Int /\ T = r + 1
          BY <1>3, <3>2, <4>3
        <5>2. (L - (loop - 1)) * T = whole + T
          BY <4>1, <4>2
        <5> HIDE DEF whole
        <5>3. (whole + T) + 0 = (whole + r) + 1
          BY <5>1
        <5> QED BY <5>2, <5>3 DEF whole
      <4> QED BY <1>2, <1>3, <3>2, <4>4
    <3> QED BY <1>2, <2>1, <3>1, <3>2
  <2> QED BY <1>1, <1>2, <1>3, <1>5, <1>6, <1>8, <1>10, <1>12, <2>2 DEF Player!Play, L, T, line
<1> QED BY <1>11, <1>12

(***************************************************************************)
(* The actuator implements SetpointPlayer                                  *)
(***************************************************************************)

\* Each step of driver_thread is a step of SetpointPlayer or changes nothing
\* it looks at.
LEMMA MotionPlays ==
    ASSUME TypeOK, ExclusiveOwnership, PostedIsWritten, CursorInv, PlayerInv, MotionStep
    PROVE  [Player!Next]_(Player!vars)
<1>1. CASE WaitReady \/ HasUpdate \/ Reset \/ WillRender
  <2>1. UNCHANGED <<mbox, heap, sp, nextsp, delay, loop, duration, spindex, motor>>
    BY <1>1 DEF WaitReady, HasUpdate, Reset, WillRender, bufferVars, cursorVars
  <2> QED BY <2>1, NothingSeen
<1>2. CASE LoadNextsp
  <2>1. CASE nextsp = NULL /\ mbox # <<>>
    <3>1. Player!Take
      BY <1>2, <2>1, FetchIsTake
    <3> QED BY <3>1 DEF Player!Next
  <2>2. CASE ~(nextsp = NULL /\ mbox # <<>>)
    <3>1. UNCHANGED <<mbox, heap, sp, nextsp, delay, loop, duration, spindex, motor>>
      BY <1>2, <2>2 DEF LoadNextsp, cursorVars
    <3> QED BY <3>1, NothingSeen
  <2> QED BY <2>1, <2>2
<1>3. CASE ActivateSpAfterDelay
  <2>1. CASE nextsp = NULL
    <3>1. UNCHANGED <<mbox, heap, sp, nextsp, delay, loop, duration, spindex, motor>>
      BY <1>3, <2>1 DEF ActivateSpAfterDelay, cursorVars
    <3> QED BY <3>1, NothingSeen
  <2>2. CASE nextsp # NULL /\ delay = 0
    <3>1. Player!Start
      BY <1>3, <2>2, ReplaceIsStart
    <3> QED BY <3>1 DEF Player!Next
  <2>3. CASE nextsp # NULL /\ delay # 0
    <3>1. Player!Wait
      BY <1>3, <2>3, DelayIsWaited DEF PlayerInv
    <3> QED BY <3>1 DEF Player!Next
  <2> QED BY <2>1, <2>2, <2>3
<1>4. CASE FreeSpIfEmpty
  BY <1>4, EmptyStops DEF Player!Next
<1>5. CASE HasNoUpdate
  <2>1. Player!Stop
    BY <1>5, NoUpdateStops DEF PlayerInv
  <2> QED BY <2>1 DEF Player!Next
<1>6. CASE Render
  <2>1. Player!Play
    BY <1>6, RenderIsPlay DEF PlayerInv
  <2> QED BY <2>1 DEF Player!Next
<1> QED BY <1>1, <1>2, <1>3, <1>4, <1>5, <1>6 DEF MotionStep

\* So is each step of the actuator.
LEMMA NextPlays ==
    ASSUME TypeOK, ExclusiveOwnership, PostedIsWritten, CursorInv, PlayerInv, [Next]_vars
    PROVE  [Player!Next]_(Player!vars)
<1>1. CASE TimerInterrupt \/ UNCHANGED vars
  <2>1. UNCHANGED <<mbox, heap, sp, nextsp, delay, loop, duration, spindex, motor>>
    BY <1>1 DEF TimerInterrupt, Tick, vars, bufferVars, motionVars, cursorVars
  <2> QED BY <2>1, NothingSeen
<1>2. CASE MotionThread
  BY <1>2, MotionPlays DEF MotionThread
<1>3. CASE MainReceives \/ MainHandles
  BY <1>3, CommPlays DEF MainReceives, MainHandles
<1> QED BY <1>1, <1>2, <1>3 DEF Next, Halted

\* The counters stay within what the messages ask for.
LEMMA PlayerInvRests ==
    ASSUME PlayerInv, UNCHANGED <<sp, nextsp, delay, loop>>,
           sp # NULL => heap'[sp] = heap[sp],
           nextsp # NULL => heap'[nextsp] = heap[nextsp]
    PROVE  PlayerInv'
BY DEF PlayerInv, EndlessStays, DelayWithin, LOOP_INFINITE

\* driver_thread keeps them there.
LEMMA MotionKeepsCounts ==
    ASSUME TypeOK, ExclusiveOwnership, PostedIsWritten, CursorInv, PlayerInv, MotionStep
    PROVE  PlayerInv'
<1>1. CASE WaitReady \/ HasUpdate \/ Reset \/ WillRender
  <2>1. UNCHANGED <<heap, sp, nextsp, delay, loop>>
    BY <1>1 DEF WaitReady, HasUpdate, Reset, WillRender, bufferVars
  <2> QED BY <2>1, PlayerInvRests
<1>2. CASE LoadNextsp
  <2>1. UNCHANGED <<heap, sp, loop>>
    BY <1>2 DEF LoadNextsp
  <2>2. CASE nextsp = NULL /\ mbox # <<>>
    <3>1. chMBFetch(nextsp') /\ delay' \in DelayAt(nextsp')
      BY <1>2, <2>2 DEF LoadNextsp
    <3>2. nextsp' # NULL => nextsp' \in Queued
      BY <3>1, FetchDequeues DEF TypeOK, ExclusiveOwnership
    <3>3. nextsp' # NULL => IsWritten(nextsp') /\ heap[nextsp'] \in Message
      BY <3>2, PostedMessages DEF PostedIsWritten
    <3>4. nextsp' # NULL => delay' = heap[nextsp'].delay /\ delay' \in Nat
      BY <3>1, <3>3, MaxU16Assumption DEF DelayAt, Message, U16
    <3> QED BY <2>1, <3>4 DEF PlayerInv, EndlessStays, DelayWithin, LOOP_INFINITE
  <2>3. CASE ~(nextsp = NULL /\ mbox # <<>>)
    BY <1>2, <2>1, <2>3, PlayerInvRests DEF LoadNextsp
  <2> QED BY <2>2, <2>3
<1>3. CASE ActivateSpAfterDelay
  <2>1. CASE nextsp = NULL
    <3>1. UNCHANGED <<heap, sp, nextsp, delay, loop>>
      BY <1>3, <2>1 DEF ActivateSpAfterDelay
    <3> QED BY <3>1, PlayerInvRests
  <2>2. CASE nextsp # NULL /\ delay # 0
    <3>1. delay' = delay - 1 /\ UNCHANGED <<heap, sp, nextsp, loop>>
      BY <1>3, <2>2 DEF ActivateSpAfterDelay
    <3>2. delay \in Nat /\ heap[nextsp].delay \in Nat
      BY <2>2, PostedMessages, MaxU16Assumption DEF TypeOK, MotionTypeOK, Message, U16
    <3> QED BY <3>1, <3>2 DEF PlayerInv, EndlessStays, DelayWithin, LOOP_INFINITE
  <2>3. CASE nextsp # NULL /\ delay = 0
    <3>1. FreeSp /\ sp' = nextsp /\ nextsp' = NULL /\ loop' \in LoopAt(nextsp)
      BY <1>3, <2>3 DEF ActivateSpAfterDelay, ReplaceSp
    <3>2. IsWritten(nextsp)
      BY <2>3 DEF PostedIsWritten, NonNull
    <3>3. loop' = heap[nextsp].loop /\ heap'[nextsp] = heap[nextsp]
      BY <2>3, <3>1, <3>2, FreeSpKeeps DEF LoopAt
    <3> QED BY <3>1, <3>3 DEF PlayerInv, EndlessStays, DelayWithin, LOOP_INFINITE
  <2> QED BY <2>1, <2>2, <2>3
<1>4. CASE FreeSpIfEmpty \/ HasNoUpdate
  <2>1. /\ UNCHANGED <<nextsp, delay, loop>>
        /\ (FreeSp /\ sp' = NULL) \/ UNCHANGED <<heap, sp>>
    BY <1>4 DEF FreeSpIfEmpty, HasNoUpdate
  <2>2. CASE FreeSp /\ sp' = NULL
    BY <2>1, <2>2, FreeSpKeeps DEF PlayerInv, EndlessStays, DelayWithin, LOOP_INFINITE
  <2>3. CASE UNCHANGED <<heap, sp>>
    BY <2>1, <2>3, PlayerInvRests
  <2> QED BY <2>1, <2>2, <2>3
<1>5. CASE Render
  <2>1. UNCHANGED <<heap, sp, nextsp, delay>>
    BY <1>5 DEF Render, bufferVars
  <2>2. sp # NULL /\ (loop = LOOP_INFINITE => loop' = loop)
    BY <1>5, RenderMoves
  <2> QED BY <2>1, <2>2 DEF PlayerInv, EndlessStays, DelayWithin, LOOP_INFINITE
<1> QED BY <1>1, <1>2, <1>3, <1>4, <1>5 DEF MotionStep

\* So does every step of the actuator.
LEMMA PlayerInvNext ==
    ASSUME TypeOK, ExclusiveOwnership, PostedIsWritten, CursorInv, PlayerInv, [Next]_vars
    PROVE  PlayerInv'
<1>1. CASE TimerInterrupt \/ UNCHANGED vars
  <2>1. UNCHANGED <<heap, sp, nextsp, delay, loop>>
    BY <1>1 DEF TimerInterrupt, Tick, vars, bufferVars, motionVars
  <2> QED BY <2>1, PlayerInvRests
<1>2. CASE MotionThread
  BY <1>2, MotionKeepsCounts DEF MotionThread
<1>3. CASE MainReceives \/ MainHandles
  <2>1. UNCHANGED <<sp, nextsp, delay, loop>>
    BY <1>3 DEF MainReceives, MainHandles, motionVars
  <2> QED BY <1>3, <2>1, CommKeepsMessages, PlayerInvRests DEF MainReceives, MainHandles
<1> QED BY <1>1, <1>2, <1>3 DEF Next, Halted

\* They stay there for ever.
LEMMA PlayerInvAlways == Spec => []PlayerInv
<1>1. Init => PlayerInv
  BY DEF Init, InitMotion, PlayerInv, EndlessStays, DelayWithin
<1> QED BY <1>1, PlayerInvNext, CursorAlways, TypeCorrect, OwnershipIsExclusive,
           PostedStaysWritten, PTL DEF Spec

\* The actuator implements SetpointPlayer, for any number of buffers, any
\* messages and any width of the counters: what the master posts is played in
\* order and with its own contents, each message after its delay, tick by tick
\* along its timeline and as often as it asks for, whatever the two threads and
\* the timer interleave (motion.c:38-175).
THEOREM PlaysAsPromised == Spec => PlaysSetpoints
<1>1. Init => Player!Init
  <2> SUFFICES ASSUME Init PROVE Player!Init
    OBVIOUS
  <2>1. mbox = <<>> /\ sp = NULL /\ nextsp = NULL /\ motor = Off
    BY DEF Init, InitBuffers, InitMotion
  <2>2. QueuedMessages = <<>>
    BY <2>1 DEF QueuedMessages
  <2> QED BY <2>1, <2>2 DEF Player!Init, Pending, Waited, Current, Played, Content, Nothing
<1>2. TypeOK /\ ExclusiveOwnership /\ PostedIsWritten /\ CursorInv /\ PlayerInv /\ [Next]_vars
      => [Player!Next]_(Player!vars)
  BY NextPlays
<1> QED
  BY <1>1, <1>2, PlayerInvAlways, CursorAlways, TypeCorrect, OwnershipIsExclusive,
     PostedStaysWritten, PTL
  DEF Spec, PlaysSetpoints, Player!Spec
(***************************************************************************)
(* Why a posted message is started                                         *)
(*                                                                         *)
(* Fairness is not needed for this much: nothing that happens while a      *)
(* message waits puts it off, and every step of driver_thread brings it    *)
(* nearer to its start.                                                    *)
(***************************************************************************)

Waiting(b) == b \in Queued \cup NonNull(nextsp)

\* Buffer b's place in the mailbox m, behind the message x that waits out its
\* delay, which has place 0.
Place(m, x, b) == IF b = x THEN 0 ELSE CHOOSE i \in 1 .. Len(m) : m[i] = b

\* Periods the message that waits may still be waiting, this one included.
DelayLeft == IF nextsp = NULL THEN 0 ELSE delay + 1

\* Periods before b is started at the latest, every delay being the longest.
PeriodsLeft(b) == Place(mbox, nextsp, b) * (MaxU16 + 2) + DelayLeft

\* Steps driver_thread still takes until it has counted this period.
StepsOfPeriod ==
    CASE mpc = "wait" -> 3
      [] mpc = "load" -> 2
      [] mpc = "activate" -> IF nextsp = NULL THEN 9 ELSE 1
      [] mpc = "empty" -> 8
      [] mpc = "update" -> 7
      [] mpc = "reset" -> 6
      [] mpc = "willRender" -> 5
      [] OTHER -> 4

StepsBefore(b) == 8 * PeriodsLeft(b) + StepsOfPeriod

\* No step puts off the start of a message that goes on waiting, and those of
\* driver_thread bring it nearer.
NobodyIsPutOff ==
    \A b \in Buffer : Waiting(b) /\ Waiting(b)' =>
        /\ StepsBefore(b)' <= StepsBefore(b)
        /\ MotionThread => StepsBefore(b)' < StepsBefore(b)

PeriodsWithin ==
    \A b \in Buffer : Waiting(b) => PeriodsLeft(b) \in 1 .. (Len(mbox) + 1) * (MaxU16 + 2)

\* The buffers that wait, each in one place.
InOrder(m, x) ==
    /\ m \in Seq(Buffer \cup {NULL})
    /\ \A i, j \in 1 .. Len(m) : i # j => m[i] = NULL \/ m[i] # m[j]
    /\ x = NULL \/ \A i \in 1 .. Len(m) : m[i] # x

WaitsIn(m, x, b) == b = x \/ \E i \in 1 .. Len(m) : m[i] = b

WaitingIsInOrder ==
    /\ InOrder(mbox, nextsp)
    /\ \A b \in Buffer : Waiting(b) <=> WaitsIn(mbox, nextsp, b)

\* The place of a buffer that waits is where it is.
LEMMA PlaceFacts ==
    ASSUME NEW m, NEW x, InOrder(m, x), NEW b \in Buffer, WaitsIn(m, x, b)
    PROVE  /\ Len(m) \in Nat /\ Place(m, x, b) \in 0 .. Len(m)
           /\ b = x => Place(m, x, b) = 0
           /\ b # x => Place(m, x, b) # 0
           /\ \A i \in 1 .. Len(m) : m[i] = b => b # x /\ Place(m, x, b) = i
<1>1. Len(m) \in Nat /\ b # NULL
  BY BufferAssumption DEF InOrder
<1>2. CASE b = x
  <2>1. \A i \in 1 .. Len(m) : m[i] # b
    BY <1>1, <1>2 DEF InOrder
  <2> QED BY <1>1, <1>2, <2>1 DEF Place
<1>3. CASE b # x
  <2>1. PICK i \in 1 .. Len(m) : m[i] = b
    BY <1>3 DEF WaitsIn
  <2>2. \A j \in 1 .. Len(m) : m[j] = b => j = i
    BY <1>1, <2>1 DEF InOrder
  <2>3. Place(m, x, b) = i
    <3>1. Place(m, x, b) = CHOOSE j \in 1 .. Len(m) : m[j] = b
      BY <1>3 DEF Place
    <3> QED BY <2>1, <2>2, <3>1
  <2> QED BY <1>1, <1>3, <2>1, <2>2, <2>3
<1> QED BY <1>2, <1>3

\* Exclusive ownership puts every buffer that waits in one place,
LEMMA OwnershipOrders ==
    ASSUME TypeOK, ExclusiveOwnership
    PROVE  WaitingIsInOrder
<1>1. mbox \in Seq(Buffer \cup {NULL}) /\ DOMAIN mbox = 1 .. Len(mbox) /\ NULL \notin Buffer
  BY BufferAssumption DEF TypeOK, BuffersTypeOK
<1>2. InOrder(mbox, nextsp)
  <2>1. \A i, j \in 1 .. Len(mbox) : i # j => mbox[i] = NULL \/ mbox[i] # mbox[j]
    BY <1>1 DEF ExclusiveOwnership, QueuedOnce, Distinct
  <2>2. nextsp \notin Queued
    BY DEF ExclusiveOwnership, PoolApart
  <2>3. nextsp = NULL \/ \A i \in 1 .. Len(mbox) : mbox[i] # nextsp
    BY <1>1, <2>2 DEF Queued
  <2> QED BY <1>1, <2>1, <2>3 DEF InOrder
<1>3. ASSUME NEW b \in Buffer PROVE Waiting(b) <=> WaitsIn(mbox, nextsp, b)
  <2>1. b \in Queued <=> \E i \in 1 .. Len(mbox) : mbox[i] = b
    BY <1>1 DEF Queued
  <2>2. b \in NonNull(nextsp) <=> b = nextsp
    BY <1>1 DEF NonNull
  <2> QED BY <2>1, <2>2 DEF Waiting, WaitsIn
<1> QED BY <1>2, <1>3 DEF WaitingIsInOrder

LEMMA OrderAlways == Spec => []WaitingIsInOrder
BY OwnershipOrders, TypeCorrect, OwnershipIsExclusive, PTL

LEMMA MorePasses ==
    ASSUME NEW w \in Nat, NEW i \in Nat, NEW j \in Nat, i <= j
    PROVE  i * w \in Nat /\ j * w \in Nat /\ i * w <= j * w
<1>1. PICK d \in Nat : j = i + d
  <2>1. j - i \in Nat /\ j = i + (j - i)
    OBVIOUS
  <2> QED BY <2>1
<1>2. i * w \in Nat /\ j * w \in Nat /\ d * w \in Nat
  OBVIOUS
<1>3. j * w = i * w + d * w
  BY <1>1
<1> QED BY <1>2, <1>3

LEMMA OnePassMore ==
    ASSUME NEW w \in Nat, NEW i \in Nat
    PROVE  (i + 1) * w = i * w + w
OBVIOUS

\* The periods are a number, at least one and within what the mailbox holds.
LEMMA PeriodsBounded ==
    ASSUME TypeOK, WaitingIsInOrder, NEW b \in Buffer, Waiting(b)
    PROVE  PeriodsLeft(b) \in 1 .. (Len(mbox) + 1) * (MaxU16 + 2)
<1> DEFINE w == MaxU16 + 2
           p == Place(mbox, nextsp, b)
           n == Len(mbox)
<1>1. n \in Nat /\ p \in 0 .. n /\ (b = nextsp => p = 0) /\ (b # nextsp => p # 0)
  BY PlaceFacts DEF WaitingIsInOrder
<1>2. w \in Nat /\ DelayLeft \in 0 .. w /\ (nextsp # NULL => DelayLeft # 0)
  BY MaxU16Assumption DEF DelayLeft, TypeOK, MotionTypeOK, U16
<1>3. PeriodsLeft(b) = p * w + DelayLeft
  BY DEF PeriodsLeft
<1>4. b # NULL
  BY BufferAssumption
<1> HIDE DEF w, p, n
<1>5. p \in Nat /\ p * w \in Nat /\ p * w <= n * w
  BY <1>1, <1>2, MorePasses
<1>6. (n + 1) * w = n * w + w /\ n * w \in Nat
  BY <1>1, <1>2, OnePassMore, MorePasses
<1>7. p * w + DelayLeft # 0
  <2>1. CASE b = nextsp
    BY <1>2, <1>4, <1>5, <2>1
  <2>2. CASE b # nextsp
    <3>1. 1 * w <= p * w /\ 1 * w = w /\ w # 0
      <4>1. 1 \in Nat /\ 1 <= p
        BY <1>1, <1>5, <2>2
      <4>2. 1 * w <= p * w
        BY <1>2, <1>5, <4>1, MorePasses
      <4>3. w # 0
        BY MaxU16Assumption DEF w
      <4> QED BY <1>2, <4>2, <4>3
    <3> QED BY <1>2, <1>5, <3>1
  <2> QED BY <2>1, <2>2
<1>8. p * w + DelayLeft \in 1 .. (n + 1) * w
  BY <1>2, <1>5, <1>6, <1>7
<1> QED BY <1>3, <1>8 DEF w, n

\* While nothing is fetched and no delay runs, nobody moves up.
LEMMA PeriodsRest ==
    ASSUME UNCHANGED <<mbox, nextsp, delay>>, NEW b
    PROVE  PeriodsLeft(b)' = PeriodsLeft(b)
BY DEF PeriodsLeft, DelayLeft

LEMMA StepsAreNatural == StepsOfPeriod \in 1 .. 9 /\ StepsOfPeriod' \in 1 .. 9
BY DEF StepsOfPeriod

\* What a period costs at most is made up for by the period.
LEMMA StepsFall ==
    ASSUME NEW P \in Nat, NEW Q \in Nat, NEW S \in Nat, NEW T \in Nat,
           Q <= P, Q = P => T < S, T <= S + 7
    PROVE  8 * Q + T < 8 * P + S
OBVIOUS

\* Fetching the oldest pointer moves every other one up, by more than the
\* delay of the message fetched can cost.
LEMMA FetchMovesUp ==
    ASSUME TypeOK, TypeOK', WaitingIsInOrder, WaitingIsInOrder', LoadNextsp,
           nextsp = NULL, mbox # <<>>, NEW b \in Buffer, Waiting(b), Waiting(b)'
    PROVE  PeriodsLeft(b)' <= PeriodsLeft(b) - 1
<1> DEFINE w == MaxU16 + 2
           p == Place(mbox, nextsp, b)
           q == Place(mbox', nextsp', b)
           n == Len(mbox)
<1>1. mbox' = Tail(mbox) /\ nextsp' = Head(mbox) /\ mbox \in Seq(Buffer \cup {NULL})
  BY DEF LoadNextsp, chMBFetch, TypeOK, BuffersTypeOK
<1>2. /\ n \in Nat /\ Len(mbox') = n - 1 /\ nextsp' = mbox[1]
      /\ \A i \in 1 .. n - 1 : mbox'[i] = mbox[i + 1]
  BY <1>1
<1>3. b # nextsp
  BY BufferAssumption
<1>4. /\ p \in 1 .. n
      /\ \A i \in 1 .. n : mbox[i] = b => p = i
  BY <1>3, PlaceFacts DEF WaitingIsInOrder
<1>5. InOrder(mbox', nextsp') /\ WaitsIn(mbox', nextsp', b)
  BY DEF WaitingIsInOrder
<1>6. /\ q \in 0 .. n - 1
      /\ b = nextsp' => q = 0
      /\ b # nextsp' => q # 0
      /\ \A i \in 1 .. n - 1 : mbox'[i] = b => q = i
  BY <1>2, <1>5, PlaceFacts
<1>7. q = p - 1
  <2>1. CASE b = nextsp'
    BY <1>2, <1>4, <1>6, <2>1
  <2>2. CASE b # nextsp'
    <3>1. PICK i \in 1 .. n - 1 : mbox'[i] = b
      BY <1>2, <1>5, <2>2 DEF WaitsIn
    <3>2. i + 1 \in 1 .. n /\ mbox[i + 1] = b /\ q = i
      BY <1>2, <1>6, <3>1
    <3> QED BY <1>4, <3>1, <3>2
  <2> QED BY <2>1, <2>2
<1>8. w \in Nat /\ DelayLeft = 0 /\ DelayLeft' \in Nat /\ DelayLeft' < w
  <2>1. delay' \in U16
    BY DEF TypeOK, MotionTypeOK
  <2>2. MaxU16 \in Nat /\ delay' \in 0 .. MaxU16
    BY <2>1, MaxU16Assumption DEF U16
  <2>3. delay' \in Nat /\ delay' <= MaxU16
    BY <2>2
  <2>4. w \in Nat /\ 0 < w
    BY <2>2
  <2>5. delay' + 1 \in Nat /\ delay' + 1 < w
    <3>1. ASSUME NEW d \in Nat, NEW u \in Nat, d <= u
          PROVE  d + 1 \in Nat /\ d + 1 < u + 2
      BY <3>1
    <3>2. w = MaxU16 + 2
      OBVIOUS
    <3> HIDE DEF w
    <3> QED BY <2>2, <2>3, <3>1, <3>2
  <2> QED BY <2>4, <2>5 DEF DelayLeft
<1>9. PeriodsLeft(b) = p * w + DelayLeft /\ PeriodsLeft(b)' = q * w + DelayLeft'
  BY DEF PeriodsLeft
<1> HIDE DEF w, p, q, n
<1>10. q \in Nat /\ p = q + 1
  BY <1>2, <1>4, <1>7
<1>11. p * w = q * w + w /\ q * w \in Nat
  BY <1>8, <1>10, OnePassMore, MorePasses
<1> QED BY <1>8, <1>9, <1>11

\* A period of the delay, and the start of the message that waited it out,
\* bring the others a period nearer.
LEMMA DelayMovesUp ==
    ASSUME TypeOK, WaitingIsInOrder, ActivateSpAfterDelay, nextsp # NULL,
           NEW b \in Buffer, Waiting(b), Waiting(b)'
    PROVE  PeriodsLeft(b)' = PeriodsLeft(b) - 1
<1> DEFINE w == MaxU16 + 2
           p == Place(mbox, nextsp, b)
<1>1. delay \in Nat /\ w \in Nat
  BY MaxU16Assumption DEF TypeOK, MotionTypeOK, U16
<1>2. p \in Nat /\ UNCHANGED mbox
  BY PlaceFacts DEF WaitingIsInOrder, ActivateSpAfterDelay
<1>3. Place(mbox', nextsp', b) = p
  <2>1. CASE delay = 0
    <3>1. nextsp' = NULL
      BY <2>1 DEF ActivateSpAfterDelay, ReplaceSp
    <3>2. b \in Queued /\ b # NULL
      BY <1>2, <3>1, BufferAssumption DEF Waiting, NonNull, Queued
    <3>3. \E i \in 1 .. Len(mbox) : mbox[i] = b
      BY <3>2 DEF Queued, TypeOK, BuffersTypeOK
    <3>4. b # nextsp
      BY <3>3, PlaceFacts DEF WaitingIsInOrder
    <3> QED BY <1>2, <3>1, <3>2, <3>4 DEF Place
  <2>2. CASE delay # 0
    <3>1. nextsp' = nextsp
      BY <2>2 DEF ActivateSpAfterDelay
    <3> QED BY <1>2, <3>1
  <2> QED BY <2>1, <2>2
<1>4. DelayLeft = delay + 1 /\ DelayLeft' = delay
  <2>1. CASE delay = 0
    BY <2>1 DEF ActivateSpAfterDelay, ReplaceSp, DelayLeft
  <2>2. CASE delay # 0
    BY <1>1, <2>2 DEF ActivateSpAfterDelay, DelayLeft
  <2> QED BY <2>1, <2>2
<1>5. PeriodsLeft(b) = p * w + DelayLeft /\ PeriodsLeft(b)' = p * w + DelayLeft'
  BY <1>3 DEF PeriodsLeft
<1>6. p * w \in Nat
  BY <1>1, <1>2, MorePasses
<1> QED BY <1>1, <1>4, <1>5, <1>6

\* Every step of driver_thread brings every message that waits nearer.
LEMMA MotionMovesUp ==
    ASSUME TypeOK, TypeOK', WaitingIsInOrder, WaitingIsInOrder', PeriodsWithin, PeriodsWithin',
           MotionStep, NEW b \in Buffer, Waiting(b), Waiting(b)'
    PROVE  StepsBefore(b)' < StepsBefore(b)
<1> DEFINE P == PeriodsLeft(b)
           Q == PeriodsLeft(b)'
           S == StepsOfPeriod
           T == StepsOfPeriod'
<1>1. P \in Nat /\ Q \in Nat
  BY DEF PeriodsWithin
<1>2. S \in 1 .. 9 /\ T \in 1 .. 9
  BY StepsAreNatural
<1>3. Q <= P /\ (Q = P => T < S) /\ T <= S + 7
  <2>1. CASE LoadNextsp
    <3>1. mpc = "load" /\ mpc' = "activate"
      BY <2>1 DEF LoadNextsp
    <3>2. S = 2 /\ T = IF nextsp' = NULL THEN 9 ELSE 1
      BY <3>1 DEF StepsOfPeriod
    <3>3. CASE nextsp = NULL /\ mbox # <<>>
      <4>1. Q <= P - 1
        BY <2>1, <3>3, FetchMovesUp
      <4> QED BY <1>1, <3>2, <4>1
    <3>4. CASE ~(nextsp = NULL /\ mbox # <<>>)
      <4>1. UNCHANGED <<mbox, nextsp, delay>>
        BY <2>1, <3>4 DEF LoadNextsp
      <4>2. nextsp # NULL
        BY <3>4 DEF Waiting, Queued, NonNull
      <4>3. Q = P
        BY <4>1, PeriodsRest
      <4> QED BY <1>1, <3>2, <4>1, <4>2, <4>3
    <3> QED BY <3>3, <3>4
  <2>2. CASE ActivateSpAfterDelay
    <3>1. mpc = "activate" /\ mpc' = "empty"
      BY <2>2 DEF ActivateSpAfterDelay
    <3>2. S = (IF nextsp = NULL THEN 9 ELSE 1) /\ T = 8
      BY <3>1 DEF StepsOfPeriod
    <3>3. CASE nextsp = NULL
      <4>1. UNCHANGED <<mbox, nextsp, delay>>
        BY <2>2, <3>3 DEF ActivateSpAfterDelay
      <4>2. Q = P
        BY <4>1, PeriodsRest
      <4> QED BY <1>1, <3>2, <3>3, <4>2
    <3>4. CASE nextsp # NULL
      <4>1. Q = P - 1
        BY <2>2, <3>4, DelayMovesUp
      <4> QED BY <1>1, <3>2, <3>4, <4>1
    <3> QED BY <3>3, <3>4
  <2>3. CASE \/ WaitReady \/ FreeSpIfEmpty \/ HasNoUpdate \/ HasUpdate \/ Reset
             \/ WillRender \/ Render
    <3>1. UNCHANGED <<mbox, nextsp, delay>>
      BY <2>3 DEF WaitReady, FreeSpIfEmpty, HasNoUpdate, HasUpdate, Reset, WillRender, Render,
                  bufferVars
    <3>2. \/ mpc = "wait" /\ mpc' = "load"
          \/ mpc = "empty" /\ mpc' = "update"
          \/ mpc = "update" /\ mpc' \in {"wait", "willRender", "reset"}
          \/ mpc = "reset" /\ mpc' = "willRender"
          \/ mpc = "willRender" /\ mpc' = "render"
          \/ mpc = "render" /\ mpc' = "wait"
      BY <2>3 DEF WaitReady, FreeSpIfEmpty, HasNoUpdate, HasUpdate, Reset, WillRender, Render
    <3>3. T < S
      BY <3>2 DEF StepsOfPeriod
    <3>4. Q = P
      BY <3>1, PeriodsRest
    <3> QED BY <1>1, <1>2, <3>3, <3>4
  <2> QED BY <2>1, <2>2, <2>3 DEF MotionStep
<1>4. S \in Nat /\ T \in Nat
  BY <1>2
<1>5. StepsBefore(b) = 8 * P + S /\ StepsBefore(b)' = 8 * Q + T
  BY DEF StepsBefore
<1> HIDE DEF P, Q, S, T
<1>6. 8 * Q + T < 8 * P + S
  BY <1>1, <1>3, <1>4, StepsFall
<1> QED BY <1>5, <1>6

\* Nothing the main thread does puts a message off that stays queued.
LEMMA CommMovesNone ==
    ASSUME TypeOK, WaitingIsInOrder, WaitingIsInOrder', ReceiveCommand \/ HandleCommand,
           UNCHANGED motionVars, NEW b \in Buffer, Waiting(b), Waiting(b)'
    PROVE  StepsBefore(b)' = StepsBefore(b)
<1>1. UNCHANGED <<mpc, nextsp, delay>>
  BY DEF motionVars
<1>2. InOrder(mbox', nextsp) /\ WaitsIn(mbox', nextsp, b)
  BY <1>1 DEF WaitingIsInOrder
<1>3. InOrder(mbox, nextsp) /\ WaitsIn(mbox, nextsp, b)
  BY DEF WaitingIsInOrder
<1>4. mbox \in Seq(Buffer \cup {NULL}) /\ Len(mbox) \in Nat
  BY DEF TypeOK, BuffersTypeOK
<1>5. Place(mbox', nextsp, b) = Place(mbox, nextsp, b)
  <2>1. CASE b = nextsp
    BY <2>1 DEF Place
  <2>2. CASE b # nextsp
    <3>1. PICK i \in 1 .. Len(mbox) : mbox[i] = b
      BY <1>3, <2>2 DEF WaitsIn
    <3>2. Place(mbox, nextsp, b) = i
      BY <1>3, <3>1, PlaceFacts
    <3>3. i \in 1 .. Len(mbox') /\ mbox'[i] = b
      <4>1. CASE UNCHANGED mbox
        BY <3>1, <4>1
      <4>2. CASE mbox' = <<>>
        BY <1>2, <2>2, <4>2 DEF WaitsIn
      <4>3. ASSUME NEW p \in Buffer \cup {NULL}, mbox' = Append(mbox, p)
            PROVE  i \in 1 .. Len(mbox') /\ mbox'[i] = b
        BY <1>4, <3>1, <4>3
      <4> QED BY <4>1, <4>2, <4>3, CommMailbox
    <3> QED BY <1>2, <3>2, <3>3, PlaceFacts
  <2> QED BY <2>1, <2>2
<1>6. PeriodsLeft(b)' = PeriodsLeft(b)
  BY <1>1, <1>5 DEF PeriodsLeft, DelayLeft
<1>7. StepsOfPeriod' = StepsOfPeriod
  BY <1>1 DEF StepsOfPeriod
<1> QED BY <1>6, <1>7 DEF StepsBefore

\* A message that waits is started within a number of periods that the
\* mailbox bounds, unless it is flushed: every step of driver_thread brings it
\* nearer, and no command, post or tick puts it off (motion.c:60-90).  Of
\* PostedIsStarted only that driver_thread keeps running is left to fairness.
THEOREM WaitingMovesUp ==
    Spec => []PeriodsWithin /\ [][NobodyIsPutOff]_vars
<1>1. Spec => []PeriodsWithin
  <2>1. TypeOK /\ WaitingIsInOrder => PeriodsWithin
    BY PeriodsBounded DEF PeriodsWithin
  <2> QED BY <2>1, TypeCorrect, OrderAlways, PTL
<1>2. ASSUME TypeOK, TypeOK', WaitingIsInOrder, WaitingIsInOrder', PeriodsWithin, PeriodsWithin',
             [Next]_vars, NEW b \in Buffer, Waiting(b), Waiting(b)'
      PROVE  /\ StepsBefore(b)' <= StepsBefore(b)
             /\ MotionThread => StepsBefore(b)' < StepsBefore(b)
  <2>1. StepsBefore(b) \in Nat /\ StepsBefore(b)' \in Nat
    <3>1. PeriodsLeft(b) \in Nat /\ PeriodsLeft(b)' \in Nat
      BY <1>2 DEF PeriodsWithin
    <3>2. StepsOfPeriod \in Nat /\ StepsOfPeriod' \in Nat
      <4>1. StepsOfPeriod \in 1 .. 9 /\ StepsOfPeriod' \in 1 .. 9
        BY StepsAreNatural
      <4> QED BY <4>1
    <3> QED BY <3>1, <3>2 DEF StepsBefore
  <2>2. MotionThread => StepsBefore(b)' < StepsBefore(b)
    BY <1>2, MotionMovesUp DEF MotionThread
  <2>3. CASE MotionThread
    BY <2>1, <2>2, <2>3
  <2>4. CASE MainReceives \/ MainHandles
    <3>1. StepsBefore(b)' = StepsBefore(b)
      BY <1>2, <2>4, CommMovesNone DEF MainReceives, MainHandles
    <3> QED BY <2>1, <2>2, <3>1
  <2>5. CASE TimerInterrupt \/ UNCHANGED vars
    <3>1. UNCHANGED <<mbox, nextsp, delay, mpc>>
      BY <2>5 DEF TimerInterrupt, Tick, vars, bufferVars, motionVars
    <3>2. PeriodsLeft(b)' = PeriodsLeft(b) /\ StepsOfPeriod' = StepsOfPeriod
      BY <3>1, PeriodsRest DEF StepsOfPeriod
    <3> QED BY <2>1, <2>2, <3>2 DEF StepsBefore
  <2> QED BY <1>2, <2>3, <2>4, <2>5 DEF Next, Halted
<1>3. /\ TypeOK /\ TypeOK' /\ WaitingIsInOrder /\ WaitingIsInOrder'
      /\ PeriodsWithin /\ PeriodsWithin' /\ [Next]_vars
      => [NobodyIsPutOff]_vars
  BY <1>2 DEF NobodyIsPutOff
<1> QED
  BY <1>1, <1>3, TypeCorrect, OrderAlways, PTL DEF Spec

(***************************************************************************)
(* Why a stop message stops                                                *)
(***************************************************************************)

\* A stop message that plays has no iteration left and does not outlive the
\* work of its period, and between two periods nothing plays only with the
\* motor off.
StopIsShort ==
    /\ sp # NULL /\ heap[sp] = StopMessage => mpc \in {"empty", "update"} /\ loop = 0
    /\ sp = NULL /\ mpc \in {"wait", "load", "activate"} => motor = Off

LEMMA StopIsShortRests ==
    ASSUME StopIsShort, UNCHANGED <<mpc, sp, loop, motor>>, sp # NULL => heap'[sp] = heap[sp]
    PROVE  StopIsShort'
BY DEF StopIsShort

LEMMA MotionStopIsShort ==
    ASSUME TypeOK, ExclusiveOwnership, PostedIsWritten, CursorInv, StopIsShort, MotionStep
    PROVE  StopIsShort'
<1>1. CASE WaitReady \/ LoadNextsp \/ Reset \/ WillRender
  <2>1. UNCHANGED <<heap, sp, loop, motor>>
    BY <1>1 DEF WaitReady, LoadNextsp, Reset, WillRender, bufferVars
  <2>2. /\ mpc \notin {"empty", "update"}
        /\ mpc' \in {"wait", "load", "activate"} => mpc \in {"wait", "load"}
    BY <1>1 DEF WaitReady, LoadNextsp, Reset, WillRender
  <2> QED BY <2>1, <2>2 DEF StopIsShort
<1>2. CASE ActivateSpAfterDelay
  <2>1. mpc = "activate" /\ mpc' = "empty"
    BY <1>2 DEF ActivateSpAfterDelay
  <2>2. CASE nextsp # NULL /\ delay = 0
    <3>1. FreeSp /\ sp' = nextsp /\ loop' \in LoopAt(nextsp)
      BY <1>2, <2>2 DEF ActivateSpAfterDelay, ReplaceSp
    <3>2. IsWritten(nextsp)
      BY <2>2 DEF PostedIsWritten, NonNull
    <3>3. heap'[nextsp] = heap[nextsp]
      BY <2>2, <3>1, FreeSpKeeps
    <3>4. loop' = heap[nextsp].loop
      BY <3>1, <3>2 DEF LoopAt
    <3>5. heap[nextsp] = StopMessage => heap[nextsp].loop = 0
      BY DEF StopMessage
    <3> QED BY <2>1, <3>1, <3>3, <3>4, <3>5 DEF StopIsShort
  <2>3. CASE ~(nextsp # NULL /\ delay = 0)
    <3>1. UNCHANGED <<heap, sp, loop>>
      BY <1>2, <2>3 DEF ActivateSpAfterDelay
    <3> QED BY <2>1, <3>1 DEF StopIsShort
  <2> QED BY <2>2, <2>3
<1>3. CASE FreeSpIfEmpty
  <2>1. mpc = "empty" /\ mpc' = "update" /\ UNCHANGED loop
    BY <1>3 DEF FreeSpIfEmpty
  <2>2. sp' = NULL \/ UNCHANGED <<heap, sp>>
    BY <1>3 DEF FreeSpIfEmpty
  <2> QED BY <2>1, <2>2 DEF StopIsShort
<1>4. CASE HasNoUpdate
  BY <1>4 DEF HasNoUpdate, StopIsShort
<1>5. CASE HasUpdate
  <2>1. UNCHANGED <<heap, sp>> /\ loop # 0 /\ mpc' \in {"willRender", "reset"}
    BY <1>5 DEF HasUpdate, bufferVars
  <2> QED BY <2>1 DEF StopIsShort
<1>6. CASE Render
  <2>1. mpc = "render" /\ mpc' = "wait" /\ UNCHANGED <<heap, sp>>
    BY <1>6 DEF Render, bufferVars
  <2>2. sp # NULL
    BY <2>1 DEF CursorInv, LoopWithin, Rendering
  <2> QED BY <2>1, <2>2 DEF StopIsShort
<1> QED BY <1>1, <1>2, <1>3, <1>4, <1>5, <1>6 DEF MotionStep

\* Once started, a stop message is over, and the motor off, before the main
\* thread runs again, whatever else is queued, and from then on the motor is on
\* between two periods only if something plays (motion.c:120-157).  With
\* WaitingMovesUp only fairness is missing for StopTakesEffect.
THEOREM StopEndsInItsPeriod == Spec => []StopIsShort
<1>1. Init => StopIsShort
  BY DEF Init, InitMotion, StopIsShort
<1>2. ASSUME TypeOK, ExclusiveOwnership, PostedIsWritten, CursorInv, StopIsShort, [Next]_vars
      PROVE  StopIsShort'
  <2>1. CASE TimerInterrupt \/ UNCHANGED vars
    <3>1. UNCHANGED <<heap, mpc, sp, loop, motor>>
      BY <2>1 DEF TimerInterrupt, Tick, vars, bufferVars, motionVars
    <3> QED BY <1>2, <3>1, StopIsShortRests
  <2>2. CASE MainReceives \/ MainHandles
    <3>1. UNCHANGED <<mpc, sp, loop, motor>>
      BY <2>2 DEF MainReceives, MainHandles, motionVars
    <3>2. sp # NULL => heap'[sp] = heap[sp]
      BY <1>2, <2>2, CommKeepsMessages DEF MainReceives, MainHandles
    <3> QED BY <1>2, <3>1, <3>2, StopIsShortRests
  <2>3. CASE MotionThread
    BY <1>2, <2>3, MotionStopIsShort DEF MotionThread
  <2> QED BY <1>2, <2>1, <2>2, <2>3 DEF Next, Halted
<1> QED
  BY <1>1, <1>2, CursorAlways, TypeCorrect, OwnershipIsExclusive, PostedStaysWritten, PTL
  DEF Spec

=============================================================================
