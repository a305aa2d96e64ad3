----------------------------- MODULE UsbProofs ------------------------------
(***************************************************************************)
(* The pressure sensor keeps one sampling thread, and a timer only for it, *)
(* for any length of the USB queue; under a USB host it behaves as Sampling *)
(* says, so that what is proved of Sampling holds for it, and its host reads *)
(* headers and data in turn.  While a connection lasts, no step delays the *)
(* next sample.                                                            *)
(***************************************************************************)
EXTENDS UsbSerial, TLAPS

\* Between the two steps of a start the new thread has not been stopped;
\* between those of a stop the timer is off; and a thread asked to terminate
\* while it waits has no trigger to wake it.
MidStep ==
    /\ mpc = "startTimer" => Alive /\ term = FALSE
    /\ mpc = "terminate" => timer = FALSE
    /\ spc = "wait" /\ term = TRUE => trigger = FALSE

IInv ==
    /\ TypeOK
    /\ LivingThreadIsKnown
    /\ TimerHasThread
    /\ MidStep

LEMMA TypeInit == Init => TypeOK
<1> SUFFICES ASSUME Init PROVE TypeOK
  OBVIOUS
<1>1. oq \in 0 .. OutQueue
  BY OutQueueAssumption DEF Init
<1> QED
  BY <1>1, Zenon DEF Init, TypeOK

LEMMA TypeNext == TypeOK /\ [Next]_vars => TypeOK'
<1> SUFFICES ASSUME TypeOK, [Next]_vars PROVE TypeOK'
  OBVIOUS
<1> USE OutQueueAssumption DEF TypeOK
<1>1. CASE SamplingThread
  <2>1. CASE WaitTrigger
    BY <2>1 DEF WaitTrigger, usbVars, mainVars
  <2>2. CASE sample_grid
    BY <2>2 DEF sample_grid, usbVars, mainVars
  <2>3. CASE Write
    BY <2>3 DEF Write, WriteBlocked, AfterWrite, NextRound, mainVars
  <2> QED
    BY <1>1, <2>1, <2>2, <2>3 DEF SamplingThread
<1>2. CASE MainThread
  <2>1. CASE FindConnected \/ FindDisconnected
    BY <1>2, <2>1 DEF MainThread, FindConnected, FindDisconnected, usbVars, threadVars
  <2>2. CASE cm_sensor_start
    BY <1>2, <2>2 DEF MainThread, cm_sensor_start, usbVars, threadVars
  <2>3. CASE StartTimer
    BY <1>2, <2>3 DEF MainThread, StartTimer, usbVars, threadVars
  <2>4. CASE cm_sensor_stop
    <3>1. UNCHANGED <<usb, oq, trigger, spc>> /\ state' \in {"STOP", "UNINIT"}
           /\ mpc' \in {"loop", "terminate"}
      BY <1>2, <2>4 DEF MainThread, cm_sensor_stop, usbVars, threadVars
    <3>2. tp' \in BOOLEAN /\ timer' \in BOOLEAN /\ term' \in BOOLEAN
      BY <1>2, <2>4 DEF cm_sensor_stop, threadVars
    <3> QED
      BY <3>1, <3>2
  <2> QED
    BY <1>2, <2>1, <2>2, <2>3, <2>4 DEF MainThread
<1>3. CASE gpt_callback \/ Disconnected
  <2>1. CASE gpt_callback
    <3>1. trigger' = TRUE /\ UNCHANGED <<usb, oq, state, mpc, tp, timer, spc, term>>
      BY <2>1 DEF gpt_callback, usbVars, mainVars, threadVars
    <3> QED BY <3>1, Zenon
  <2>2. CASE Disconnected
    <3>1. usb' = FALSE /\ UNCHANGED <<oq, state, mpc, tp, timer, trigger, spc, term>>
      BY <2>2 DEF Disconnected, mainVars, threadVars
    <3> QED BY <3>1, Zenon
  <2> QED BY <1>3, <2>1, <2>2
<1>6. CASE HostReads
  <2>1. oq' \in 0 .. OutQueue
    BY <1>6 DEF HostReads
  <2> QED
    BY <1>6, <2>1, Zenon DEF HostReads, mainVars, threadVars
<1>4. CASE Configured
  BY <1>4 DEF Configured, AfterWrite, NextRound, mainVars
<1>5. CASE UNCHANGED vars
  <2>1. UNCHANGED <<usbVars, mainVars, trigger, threadVars>>
    BY <1>5 DEF vars
  <2>2. UNCHANGED <<usb, oq, state, mpc, tp, timer, trigger, spc, term>>
    BY <2>1 DEF usbVars, mainVars, threadVars
  <2> QED BY <2>2, Zenon
<1> QED
  BY <1>1, <1>2, <1>3, <1>4, <1>5, <1>6 DEF Next

LEMMA InitIInv == Init => IInv
BY TypeInit DEF Init, IInv, LivingThreadIsKnown, TimerHasThread, MidStep, Alive

LEMMA NextIInv == IInv /\ [Next]_vars => IInv'
<1> SUFFICES ASSUME IInv, [Next]_vars PROVE IInv'
  OBVIOUS
<1>0. TypeOK /\ TypeOK'
  BY TypeNext DEF IInv
<1> SUFFICES LivingThreadIsKnown' /\ TimerHasThread' /\ MidStep'
  BY <1>0 DEF IInv
<1> USE <1>0 DEF IInv, LivingThreadIsKnown, TimerHasThread, MidStep, Alive
<1>1. CASE SamplingThread
  <2>1. CASE WaitTrigger
    BY <2>1 DEF WaitTrigger, mainVars, TypeOK
  <2>2. CASE sample_grid
    BY <2>2 DEF sample_grid, mainVars, TypeOK
  <2>3. CASE Write
    BY <2>3 DEF Write, AfterWrite, NextRound, mainVars, TypeOK
  <2> QED
    BY <1>1, <2>1, <2>2, <2>3 DEF SamplingThread
<1>2. CASE MainThread
  <2>1. CASE FindConnected \/ FindDisconnected
    BY <1>2, <2>1 DEF MainThread, FindConnected, FindDisconnected, threadVars
  <2>2. CASE cm_sensor_start
    BY <1>2, <2>2 DEF MainThread, cm_sensor_start, threadVars, Terminated
  <2>3. CASE StartTimer
    BY <1>2, <2>3 DEF MainThread, StartTimer, threadVars, TypeOK
  <2>4. CASE cm_sensor_stop
    BY <1>2, <2>4 DEF MainThread, cm_sensor_stop, threadVars, Terminated, TypeOK,
      ThreadBlocked, WriteBlocked
  <2> QED
    BY <1>2, <2>1, <2>2, <2>3, <2>4 DEF MainThread
<1>3. CASE gpt_callback
  BY <1>3 DEF gpt_callback, mainVars, threadVars
<1>4. CASE Configured
  BY <1>4 DEF Configured, AfterWrite, NextRound, WriteBlocked, mainVars, TypeOK
<1>5. CASE Disconnected \/ HostReads \/ UNCHANGED vars
  BY <1>5 DEF Disconnected, HostReads, vars, mainVars, threadVars
<1> QED
  BY <1>1, <1>2, <1>3, <1>4, <1>5 DEF Next

LEMMA Invariance == Spec => []IInv
BY InitIInv, NextIInv, PTL DEF Spec

\* Type correctness.
THEOREM TypeCorrect == Spec => []TypeOK
<1>1. IInv => TypeOK
  BY DEF IInv
<1> QED
  BY <1>1, Invariance, PTL

\* The working area of the sampling thread is never reused while it lives.
THEOREM ThreadIsKnown == Spec => []LivingThreadIsKnown
<1>1. IInv => LivingThreadIsKnown
  BY DEF IInv
<1> QED
  BY <1>1, Invariance, PTL

\* The timer runs only for a thread that lives and has not been stopped.
THEOREM TimerServesThread == Spec => []TimerHasThread
<1>1. IInv => TimerHasThread
  BY DEF IInv
<1> QED
  BY <1>1, Invariance, PTL

\* No sample is begun after the request to terminate.
THEOREM TerminateEndsSampling == Spec => NoSampleAfterTerminate
<1>1. IInv /\ [Next]_vars => [(spc = "wait" /\ spc' = "sample") => ~term]_vars
  <2> SUFFICES ASSUME IInv, Next, spc = "wait", spc' = "sample" PROVE ~term
    BY DEF vars, threadVars
  <2>1. trigger /\ TypeOK
    BY DEF IInv, Next, SamplingThread, WaitTrigger, sample_grid, Write, MainThread,
      FindConnected, FindDisconnected, cm_sensor_start, StartTimer, cm_sensor_stop,
      gpt_callback, Configured, Disconnected, HostReads, WriteBlocked, threadVars
  <2> QED
    BY <2>1 DEF IInv, MidStep, TypeOK
<1> QED
  BY <1>1, Invariance, PTL DEF Spec, NoSampleAfterTerminate

(***************************************************************************)
(* Why a connection is sampled                                             *)
(*                                                                         *)
(* Fairness is not needed for this much: while the first connection lasts  *)
(* a step that leads to the next sample is always possible, and none leads *)
(* away from it.                                                           *)
(***************************************************************************)

\* Until main has noticed a disconnection nobody has asked the thread to
\* terminate, and it has its timer from the first start on.
NeverAsked ==
    /\ term = FALSE /\ mpc # "terminate"
    /\ mpc = "startTimer" => state = "READY" /\ Alive
    /\ state = "ACTIVE" => timer = TRUE /\ Alive
    /\ state \in {"UNINIT", "READY"} /\ mpc = "loop" => tp = FALSE /\ spc = "none"

\* Steps of the thread, the timer and the host until a grid is sampled.
StepsToSample ==
    CASE spc = "sample" -> 0
      [] spc = "wait" -> IF trigger THEN 1 ELSE 2
      [] spc = "data" -> 3 + oq
      [] OTHER -> 5 + oq

\* The steps that lead to a sample.
LeadsToSample ==
    \/ SamplingThread
    \/ gpt_callback /\ spc = "wait" /\ ~trigger
    \/ HostReads /\ WriteBlocked

\* The guard of one of them holds, or a grid is being sampled.
SampleIsPossible ==
    state = "ACTIVE" /\ usb =>
        \/ spc = "sample"
        \/ spc = "wait" /\ (trigger \/ timer)
        \/ spc \in {"header", "data"} /\ (WriteBlocked => oq > 0)

NeverAway ==
    state = "ACTIVE" /\ spc # "sample" =>
        /\ StepsToSample' <= StepsToSample
        /\ LeadsToSample => StepsToSample' < StepsToSample

LEMMA NeverAskedNext ==
    ASSUME TypeOK, TypeOK', NeverAsked, state # "STOP", state' # "STOP", [Next]_vars
    PROVE  NeverAsked'
<1> USE DEF NeverAsked, Alive
<1>1. CASE WaitTrigger \/ sample_grid
  BY <1>1 DEF WaitTrigger, sample_grid, mainVars
<1>2. CASE Write
  BY <1>2 DEF Write, AfterWrite, NextRound, mainVars
<1>3. CASE MainThread
  <2>1. CASE FindConnected \/ FindDisconnected
    BY <1>3, <2>1 DEF FindConnected, FindDisconnected, threadVars
  <2>2. CASE cm_sensor_start
    <3>1. tp = FALSE
      BY <2>2 DEF cm_sensor_start
    <3> QED BY <2>2, <3>1 DEF cm_sensor_start
  <2>3. CASE StartTimer
    BY <2>3 DEF StartTimer, threadVars
  <2>4. CASE cm_sensor_stop
    BY <2>4 DEF cm_sensor_stop
  <2> QED BY <1>3, <2>1, <2>2, <2>3, <2>4 DEF MainThread
<1>4. CASE Configured
  BY <1>4 DEF Configured, AfterWrite, NextRound, WriteBlocked, mainVars
<1>5. CASE gpt_callback \/ Disconnected \/ HostReads \/ UNCHANGED vars
  BY <1>5 DEF gpt_callback, Disconnected, HostReads, vars, mainVars, threadVars
<1> QED BY <1>1, <1>2, <1>3, <1>4, <1>5 DEF Next, SamplingThread

LEMMA LeadsCloser ==
    ASSUME TypeOK, term = FALSE, LeadsToSample, spc \in {"wait", "header", "data"}
    PROVE  StepsToSample' < StepsToSample
<1> USE DEF StepsToSample
<1>1. oq \in Nat
  BY OutQueueAssumption DEF TypeOK
<1>2. CASE WaitTrigger
  <2>1. spc = "wait" /\ spc' = "sample" /\ trigger
    BY <1>2 DEF WaitTrigger
  <2> QED BY <2>1
<1>3. CASE Write
  <2>1. oq' = oq + 1 /\ spc' = AfterWrite
    BY <1>3 DEF Write
  <2>2. \/ spc = "header" /\ spc' = "data"
        \/ spc = "data" /\ spc' = "wait"
    BY <1>3, <2>1 DEF Write, AfterWrite, NextRound
  <2>3. CASE spc = "header" /\ spc' = "data"
    <3>1. StepsToSample = 5 + oq /\ StepsToSample' = 3 + oq'
      BY <2>3
    <3> QED BY <1>1, <2>1, <3>1
  <2>4. CASE spc = "data" /\ spc' = "wait"
    <3>1. StepsToSample = 3 + oq /\ StepsToSample' \in {1, 2}
      BY <2>4
    <3> QED BY <1>1, <3>1
  <2> QED BY <2>2, <2>3, <2>4
<1>4. CASE gpt_callback /\ spc = "wait" /\ ~trigger
  <2>1. trigger' = TRUE /\ spc' = spc
    BY <1>4 DEF gpt_callback, threadVars
  <2>2. StepsToSample = 2 /\ StepsToSample' = 1
    BY <1>4, <2>1
  <2> QED BY <2>2
<1>5. CASE HostReads /\ WriteBlocked
  <2>1. oq' = oq - 1 /\ spc' = spc /\ spc \in {"header", "data"}
    BY <1>5 DEF HostReads, WriteBlocked, threadVars
  <2>2. \/ StepsToSample = 3 + oq /\ StepsToSample' = 3 + oq'
        \/ StepsToSample = 5 + oq /\ StepsToSample' = 5 + oq'
    BY <2>1
  <2> QED BY <1>1, <2>1, <2>2
<1>6. CASE sample_grid
  BY <1>6 DEF sample_grid
<1> QED BY <1>2, <1>3, <1>4, <1>5, <1>6 DEF LeadsToSample, SamplingThread

LEMMA NoneLeadsAway ==
    ASSUME TypeOK, NeverAsked, [Next]_vars, state = "ACTIVE", state' # "STOP",
           spc \in {"wait", "header", "data"}
    PROVE  StepsToSample' <= StepsToSample
<1> USE DEF StepsToSample
<1>0. term = FALSE /\ mpc = "loop"
  BY DEF NeverAsked, TypeOK
<1>1. oq \in Nat
  BY OutQueueAssumption DEF TypeOK
<1>2. StepsToSample \in Nat
  <2>1. StepsToSample \in {0, 1, 2, 3 + oq, 5 + oq}
    OBVIOUS
  <2> QED BY <1>1, <2>1
<1>3. CASE SamplingThread
  <2>1. StepsToSample' \in {0, 1, 2, 3 + oq', 5 + oq'}
    OBVIOUS
  <2>2. oq' \in Nat
    BY <1>1, <1>3 DEF SamplingThread, WaitTrigger, sample_grid, Write, usbVars
  <2>3. StepsToSample' \in Nat
    BY <2>1, <2>2
  <2>4. StepsToSample' < StepsToSample
    BY <1>0, <1>3, LeadsCloser DEF LeadsToSample
  <2> HIDE DEF StepsToSample
  <2> QED BY <1>2, <2>3, <2>4
<1>4. CASE gpt_callback
  <2>1. trigger' = TRUE /\ spc' = spc /\ oq' = oq
    BY <1>4 DEF gpt_callback, threadVars, usbVars
  <2> QED BY <1>1, <2>1
<1>5. CASE Configured
  <2>1. trigger' = trigger /\ oq' = 0
    BY <1>5 DEF Configured
  <2>2. spc' = IF WriteBlocked THEN AfterWrite ELSE spc
    BY <1>5 DEF Configured
  <2>3. \/ spc' = spc
        \/ spc = "header" /\ spc' = "data"
        \/ spc = "data" /\ spc' = "wait"
    BY <1>0, <2>2 DEF AfterWrite, NextRound, WriteBlocked
  <2> QED BY <1>1, <2>1, <2>3
<1>6. CASE HostReads
  <2>1. oq' = oq - 1 /\ spc' = spc /\ trigger' = trigger
    BY <1>6 DEF HostReads, threadVars
  <2> QED BY <1>1, <2>1
<1>7. CASE Disconnected \/ UNCHANGED vars
  <2>1. oq' = oq /\ spc' = spc /\ trigger' = trigger
    BY <1>7 DEF Disconnected, vars, usbVars, threadVars
  <2>2. StepsToSample' = StepsToSample
    BY <2>1
  <2> QED BY <1>2, <2>2
<1>8. CASE MainThread
  BY <1>0, <1>8 DEF MainThread, FindConnected, FindDisconnected, cm_sensor_start, StartTimer,
                    cm_sensor_stop
<1> QED BY <1>3, <1>4, <1>5, <1>6, <1>7, <1>8 DEF Next

\* While the first connection lasts the thread, the queue and the host never
\* wait for one another: a step that leads to the next sample is possible, and
\* no tick, read, write, reset or step of main leads away from it
\* (sensor.c:162-183,208-220).  Of ConnectionIsSampled only that such steps are
\* taken is left to fairness.
THEOREM NothingDelaysSamples ==
    Spec => (NeverStopped => []SampleIsPossible /\ [][NeverAway]_vars)
<1>1. Init => NeverAsked
  BY DEF Init, NeverAsked
<1>2. /\ TypeOK /\ TypeOK' /\ NeverAsked /\ state # "STOP" /\ (state # "STOP")' /\ [Next]_vars
      => NeverAsked'
  BY NeverAskedNext
<1>3. TypeOK /\ NeverAsked => SampleIsPossible
  BY OutQueueAssumption DEF TypeOK, NeverAsked, SampleIsPossible, Alive, WriteBlocked
<1>4. ASSUME TypeOK, NeverAsked, (state # "STOP")', [Next]_vars
      PROVE  NeverAway
  <2> SUFFICES ASSUME state = "ACTIVE", spc # "sample"
               PROVE  /\ StepsToSample' <= StepsToSample
                      /\ LeadsToSample => StepsToSample' < StepsToSample
    BY DEF NeverAway
  <2>1. spc \in {"wait", "header", "data"} /\ term = FALSE
    BY <1>4 DEF TypeOK, NeverAsked, Alive
  <2> QED BY <1>4, <2>1, NoneLeadsAway, LeadsCloser
<1>5. TypeOK /\ NeverAsked /\ (state # "STOP")' /\ [Next]_vars => [NeverAway]_vars
  BY <1>4
<1> QED BY <1>1, <1>2, <1>3, <1>5, TypeCorrect, PTL DEF Spec, NeverStopped

(***************************************************************************)
(* Every step of the host and of the device is one of Sampling             *)
(***************************************************************************)

LEMMA HostStep == Host => [Next]_vars
<1>1. Reset => [Next]_vars
  BY DEF Reset, Next
<1>2. SetAddress => [Next]_vars
  BY DEF SetAddress
<1>3. GetDescriptor => [Next]_vars
  BY DEF GetDescriptor
<1>4. SetConfiguration => [Next]_vars
  BY DEF SetConfiguration, Next
<1>5. Listen => [Next]_vars
  BY DEF Listen, Next
<1> QED
  BY <1>1, <1>2, <1>3, <1>4, <1>5 DEF Host

LEMMA DeviceStep == Device => [Next]_vars
BY DEF Device, Next, SamplingThread

LEMMA UsbStep == [UsbNext]_allVars => [Next]_vars
<1>1. UNCHANGED allVars => UNCHANGED vars
  BY DEF allVars
<1> QED
  BY <1>1, HostStep, DeviceStep DEF UsbNext

\* Enumeration, configurations in the middle of a sample and resets add no
\* behaviour to the sensor: whoever uses Sampling's promises may do so with a
\* host that does all that.
THEOREM UsbImplementsSampling == UsbSpec => FairSpec
<1>1. UsbInit => Init
  BY DEF UsbInit
<1> QED
  BY <1>1, UsbStep, PTL DEF UsbSpec, FairSpec, Spec

(***************************************************************************)
(* Headers and data                                                        *)
(***************************************************************************)

Written == {"header", "data"}

\* What was written last since the device was configured.
LastWritten == IF queue = <<>> THEN heard ELSE queue[Len(queue)]

Alternating ==
    /\ \A k \in 1 .. Len(queue) - 1 : queue[k] # queue[k + 1]
    /\ queue # <<>> => heard # queue[1]

\* The thread is about to write the one that was not written last, or it is
\* not about to write: then data was written last.
ThreadInTurn ==
    /\ LastWritten = "header" => spc = "data"
    /\ LastWritten = "data" => spc # "data"

QueueType ==
    /\ queue \in Seq(Written) /\ heard \in Written \cup {"nothing"}
    /\ oq = Len(queue)

InTurn == QueueType /\ Alternating /\ ThreadInTurn

LEMMA InTurnInit == UsbInit => InTurn
BY DEF UsbInit, Init, InTurn, QueueType, Alternating, ThreadInTurn, LastWritten, Written

\* Whatever leaves the queue alone must move the thread in turn.
LEMMA QuietStep ==
    ASSUME InTurn, UNCHANGED <<queue, heard, oq>>,
           \/ UNCHANGED spc
           \/ spc # "data" /\ spc' # "data"
    PROVE  InTurn'
<1>1. LastWritten' = LastWritten
  BY DEF LastWritten
<1> QED
  BY <1>1 DEF InTurn, QueueType, Alternating, ThreadInTurn

LEMMA ListenStep ==
    ASSUME InTurn, Listen
    PROVE  /\ InTurn'
           /\ heard' # heard
<1>1. /\ queue \in Seq(Written) /\ queue # <<>> /\ Len(queue) \in Nat \ {0}
      /\ heard' = queue[1] /\ queue' = Tail(queue) /\ oq' = oq - 1 /\ spc' = spc
  BY DEF InTurn, QueueType, Listen, HostReads, threadVars
<1>2. /\ queue' \in Seq(Written) /\ Len(queue') = Len(queue) - 1
      /\ \A k \in 1 .. Len(queue) - 1 : queue'[k] = queue[k + 1]
  BY <1>1
<1>3. queue[1] \in Written
  BY <1>1
<1>4. QueueType'
  BY <1>1, <1>2, <1>3 DEF InTurn, QueueType
<1>5. LastWritten' = LastWritten
  <2>1. ASSUME Len(queue) = 1 PROVE LastWritten' = LastWritten
    <3>1. queue' = <<>>
      BY <1>1, <1>2, <2>1
    <3> QED
      BY <1>1, <2>1, <3>1 DEF LastWritten
  <2>2. ASSUME Len(queue) # 1 PROVE LastWritten' = LastWritten
    <3>1. /\ Len(queue) - 1 \in 1 .. Len(queue) - 1 /\ (Len(queue) - 1) + 1 = Len(queue)
          /\ Len(queue') # 0
      BY <1>1, <1>2, <2>2
    <3>2. queue'[Len(queue')] = queue[Len(queue)]
      BY <1>2, <3>1
    <3>3. queue' # <<>>
      BY <3>1
    <3> QED
      BY <1>1, <3>2, <3>3 DEF LastWritten
  <2> QED
    BY <2>1, <2>2, Zenon
<1>6. Alternating'
  <2>1. ASSUME NEW k \in 1 .. Len(queue') - 1 PROVE queue'[k] # queue'[k + 1]
    BY <1>1, <1>2, <2>1 DEF InTurn, Alternating
  <2>2. queue' # <<>> => heard' # queue'[1]
    BY <1>1, <1>2 DEF InTurn, Alternating
  <2> QED
    BY <2>1, <2>2 DEF Alternating
<1> QED
  BY <1>1, <1>4, <1>5, <1>6 DEF InTurn, ThreadInTurn, Alternating

LEMMA WriteStep ==
    ASSUME InTurn, Write, queue' = Append(queue, spc), heard' = heard
    PROVE  InTurn'
<1>1. /\ queue \in Seq(Written) /\ spc \in Written /\ oq' = oq + 1 /\ spc' = AfterWrite
      /\ Len(queue) \in Nat
  BY DEF InTurn, QueueType, Write, Written
<1>2. /\ queue' \in Seq(Written) /\ Len(queue') = Len(queue) + 1
      /\ \A k \in 1 .. Len(queue) : queue'[k] = queue[k]
      /\ queue'[Len(queue) + 1] = spc
  BY <1>1
<1>3. LastWritten # spc
  BY <1>1 DEF InTurn, ThreadInTurn, Written
<1>4. QueueType'
  BY <1>1, <1>2 DEF InTurn, QueueType
<1>5. LastWritten' = spc
  BY <1>1, <1>2 DEF LastWritten
<1>6. Alternating'
  <2>1. ASSUME NEW k \in 1 .. Len(queue') - 1 PROVE queue'[k] # queue'[k + 1]
    <3>1. CASE k < Len(queue)
      BY <1>1, <1>2, <3>1 DEF InTurn, Alternating
    <3>2. CASE k = Len(queue)
      BY <1>1, <1>2, <1>3, <3>2 DEF LastWritten
    <3> QED
      BY <1>1, <1>2, <3>1, <3>2
  <2>2. heard # queue'[1]
    <3>1. CASE queue = <<>>
      BY <1>1, <1>2, <1>3, <3>1 DEF LastWritten
    <3>2. CASE queue # <<>>
      BY <1>1, <1>2, <3>2 DEF InTurn, Alternating
    <3> QED
      BY <3>1, <3>2
  <2> QED
    BY <2>1, <2>2 DEF Alternating
<1>7. ThreadInTurn'
  BY <1>1, <1>5 DEF ThreadInTurn, AfterWrite, NextRound, Written
<1> QED
  BY <1>4, <1>6, <1>7 DEF InTurn

\* A new thread starts only when the old one does not write.
LEMMA MainStep ==
    ASSUME IInv, InTurn, MainThread, UNCHANGED <<queue, heard>>
    PROVE  InTurn'
<1>1. oq' = oq
  BY DEF MainThread, usbVars
<1>2. CASE cm_sensor_start
  <2>1. \/ UNCHANGED spc
        \/ spc' = "wait" /\ (~tp \/ spc = "final")
    BY <1>2 DEF cm_sensor_start, Terminated, threadVars
  <2>2. ~tp => spc # "data"
    BY DEF IInv, LivingThreadIsKnown, Alive
  <2> QED
    BY <1>1, <2>1, <2>2, QuietStep
<1>3. CASE FindConnected \/ FindDisconnected \/ StartTimer \/ cm_sensor_stop
  <2>1. UNCHANGED spc
    BY <1>3 DEF FindConnected, FindDisconnected, StartTimer, cm_sensor_stop, threadVars
  <2> QED
    BY <1>1, <2>1, QuietStep
<1> QED
  BY <1>2, <1>3 DEF MainThread

LEMMA InTurnNext ==
    ASSUME IInv, InTurn, [UsbNext]_allVars
    PROVE  InTurn' /\ (Len(queue') < Len(queue) /\ heard' # "nothing" => heard' # heard)
<1>1. CASE Reset \/ SetAddress \/ GetDescriptor
  <2>1. UNCHANGED <<queue, heard, oq, spc>>
    BY <1>1 DEF Reset, SetAddress, GetDescriptor, Disconnected, vars, usbVars, threadVars
  <2> QED
    BY <2>1, QuietStep
<1>2. CASE SetConfiguration
  <2>1. queue' = <<>> /\ heard' = "nothing" /\ oq' = 0
    BY <1>2 DEF SetConfiguration, Configured
  <2> QED
    BY <2>1 DEF InTurn, QueueType, Alternating, ThreadInTurn, LastWritten
<1>3. CASE Listen
  BY <1>3, ListenStep
<1>4. CASE Device
  <2>1. CASE Write /\ queue' = Append(queue, spc)
    <3>1. InTurn'
      BY <1>4, <2>1, WriteStep DEF Device
    <3>2. Len(queue') = Len(queue) + 1 /\ Len(queue) \in Nat
      BY <2>1 DEF InTurn, QueueType
    <3> QED
      BY <3>1, <3>2
  <2>2. CASE (WaitTrigger \/ sample_grid \/ gpt_callback) /\ UNCHANGED queue
    <3>1. UNCHANGED <<queue, heard, oq>> /\ (UNCHANGED spc \/ (spc # "data" /\ spc' # "data"))
      BY <1>4, <2>2 DEF Device, WaitTrigger, sample_grid, gpt_callback, usbVars, threadVars
    <3> QED
      BY <3>1, QuietStep
  <2>3. CASE MainThread /\ UNCHANGED queue
    BY <1>4, <2>3, MainStep DEF Device
  <2> QED
    BY <1>4, <2>1, <2>2, <2>3 DEF Device
<1>5. CASE UNCHANGED allVars
  <2>1. UNCHANGED <<queue, heard, oq, spc>>
    BY <1>5 DEF allVars, usbSerialVars, vars, usbVars, threadVars
  <2> QED
    BY <2>1, QuietStep
<1> QED
  BY <1>1, <1>2, <1>3, <1>4, <1>5 DEF UsbNext, Host

\* However often the device is reset and configured, between two configurations
\* the host never reads two headers, or the data of two samples, in a row.
THEOREM HostReadsInTurn == UsbSpec => FramesAlternate
<1>1. UsbSpec => []IInv
  BY UsbImplementsSampling, Invariance, PTL DEF FairSpec
<1>2. IInv /\ InTurn /\ [UsbNext]_allVars => InTurn'
  BY InTurnNext
<1>3. IInv /\ InTurn /\ [UsbNext]_allVars =>
        [Len(queue') < Len(queue) /\ heard' # "nothing" => heard' # heard]_allVars
  BY InTurnNext
<1> QED
  BY <1>1, <1>2, <1>3, InTurnInit, PTL DEF UsbSpec, FramesAlternate
=============================================================================
