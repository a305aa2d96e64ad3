---------------------------- MODULE Rs485Proofs ----------------------------
(***************************************************************************)
(* What the serial driver promises for reads and writes of any length:     *)
(* about whole transfers and writes that come to an end on any line, and   *)
(* about stale signals on a line that behaves.  And what the messages on   *)
(* the line are to a board, for any number of them and any bytes: served   *)
(* as sent, in order.                                                      *)
(***************************************************************************)
EXTENDS Rs485, SerialLink, SequenceTheorems, TLAPS

Reading == pc \in {"waitRx", "endRx"}
Writing == pc \in {"waitTx", "drainTx", "endTx"}

\* Bytes are moved or still to be moved.
Conserved ==
    /\ Reading => moved + rx = n
    /\ Writing => moved + tx = n

\* Only a write drives the bus and transmits.
WritesTransmit ==
    /\ txen <=> Writing
    /\ Reading => ~txend
    /\ ~Writing \/ tc => tx = 0
    /\ pc = "endTx" => err = "TIMEOUT"

\* Rs485TypeOK in two parts: the prover is better at one kind at a time.
Flags ==
    /\ ready \in BOOLEAN /\ e \in BOOLEAN
    /\ pc \in {"idle", "waitRx", "endRx", "waitTx", "drainTx", "endTx"}
    /\ err \in {"OK", "TIMEOUT"}
    /\ spoiled \in BOOLEAN /\ fresh \in BOOLEAN /\ faulty \in BOOLEAN
    /\ tc \in BOOLEAN /\ txend \in BOOLEAN /\ txen \in BOOLEAN

Lengths ==
    /\ n \in 0 .. MaxLen
    /\ moved \in 0 .. MaxLen
    /\ rx \in 0 .. MaxLen
    /\ tx \in 0 .. MaxLen

IInv == Flags /\ Lengths /\ Conserved /\ WritesTransmit /\ UnspoiledReadIsWhole

\* While the line behaves a signal always meets its waiter.
NoStaleSignal == ~faulty =>
    /\ fresh => \/ pc = "idle" /\ ready
                \/ pc = "endRx" /\ ~ready
    /\ ~fresh => ~ready
    /\ txend => pc = "waitTx" /\ tx = 0
    /\ tx > 0 => pc = "waitTx"
    /\ pc # "endTx"

USE MaxLenAssumption

\* The driver starts in order.
LEMMA InitIInv == Rs485Init => IInv
<1> SUFFICES ASSUME Rs485Init PROVE IInv
  OBVIOUS
<1>1. Flags
  BY Zenon DEF Rs485Init, Flags
<1>2. Lengths
  BY DEF Rs485Init, Lengths
<1>3. Conserved /\ UnspoiledReadIsWhole
  BY DEF Rs485Init, Conserved, Reading, Writing, UnspoiledReadIsWhole
<1>4. WritesTransmit
  BY Zenon DEF Rs485Init, WritesTransmit, Reading, Writing
<1> QED
  BY <1>1, <1>2, <1>3, <1>4 DEF IInv

\* The flags keep their types whatever the counts are.
LEMMA NextFlags == Flags /\ [Rs485Next]_rs485Vars => Flags'
<1> SUFFICES ASSUME Flags, [Rs485Next]_rs485Vars PROVE Flags'
  OBVIOUS
<1> USE DEF Flags, semVars, opVars, rxVars, txVars
<1>1. CASE StartRead
  BY <1>1, Zenon DEF StartRead, Wait
<1>2. CASE ReadTimeout
  BY <1>2, Zenon DEF ReadTimeout
<1>3. CASE EndRead
  BY <1>3, Zenon DEF EndRead
<1>4. CASE StartWrite
  BY <1>4, Zenon DEF StartWrite, Wait
<1>5. CASE WriteTimeout
  BY <1>5, Zenon DEF WriteTimeout
<1>6. CASE EndWrite \/ StopWrite
  BY <1>6, Zenon DEF EndWrite, StopWrite
<1>7. CASE ByteReceived
  BY <1>7, Zenon DEF ByteReceived, Signal
<1>8. CASE rxerr_cb
  BY <1>8, Zenon DEF rxerr_cb, Signal
<1>9. CASE ByteFetched
  BY <1>9, Zenon DEF ByteFetched
<1>10. CASE txend1_cb
  BY <1>10, Zenon DEF txend1_cb, Signal
<1>11. CASE LastByteSent
  BY <1>11, Zenon DEF LastByteSent
<1>12. CASE UNCHANGED rs485Vars
  <2>1. UNCHANGED <<semVars, pc, opVars, rxVars, txVars>>
    BY <1>12 DEF rs485Vars
  <2>2. UNCHANGED <<ready, e, pc, err>>
    BY <2>1
  <2>3. UNCHANGED <<spoiled, fresh, faulty>>
    BY <2>1
  <2>4. UNCHANGED <<tc, txend, txen>>
    BY <2>1
  <2> QED BY <2>2, <2>3, <2>4, Zenon
<1> QED
  BY <1>1, <1>2, <1>3, <1>4, <1>5, <1>6, <1>7, <1>8, <1>9, <1>10, <1>11, <1>12
     DEF Rs485Next, Rs485Thread

\* Every step keeps the bus to the writes.
LEMMA NextWritesTransmit == IInv /\ [Rs485Next]_rs485Vars => WritesTransmit'
<1> SUFFICES ASSUME IInv, [Rs485Next]_rs485Vars PROVE WritesTransmit'
  OBVIOUS
<1> USE DEF IInv, WritesTransmit, Reading, Writing, semVars, opVars, rxVars, txVars
<1>1. CASE StartRead
  BY <1>1, Zenon DEF StartRead, Wait, Unlocked
<1>2. CASE ReadTimeout
  BY <1>2, Zenon DEF ReadTimeout
<1>3. CASE EndRead
  BY <1>3, Zenon DEF EndRead
<1>4. CASE StartWrite
  BY <1>4, Zenon DEF StartWrite, Wait
<1>5. CASE WriteTimeout
  BY <1>5, Zenon DEF WriteTimeout
<1>6. CASE EndWrite \/ StopWrite
  BY <1>6, Zenon DEF EndWrite, StopWrite
<1>7. CASE ByteReceived
  BY <1>7, Zenon DEF ByteReceived, Receiving, Signal
<1>8. CASE rxerr_cb
  BY <1>8, Zenon DEF rxerr_cb, Receiving, Signal
<1>9. CASE ByteFetched
  <2>1. tx # 0
    BY <1>9 DEF ByteFetched, Lengths
  <2> QED
    BY <1>9, <2>1, Zenon DEF ByteFetched
<1>10. CASE txend1_cb
  BY <1>10, Zenon DEF txend1_cb, Signal
<1>11. CASE LastByteSent
  BY <1>11, Zenon DEF LastByteSent
<1>12. CASE UNCHANGED rs485Vars
  BY <1>12, Zenon DEF rs485Vars
<1> QED
  BY <1>1, <1>2, <1>3, <1>4, <1>5, <1>6, <1>7, <1>8, <1>9, <1>10, <1>11, <1>12
     DEF Rs485Next, Rs485Thread

\* Bytes are counted in every step of readt and writet.
LEMMA MainCounts ==
    IInv /\ Rs485Thread => Lengths' /\ Conserved' /\ UnspoiledReadIsWhole'
<1> SUFFICES ASSUME IInv, Rs485Thread
             PROVE  Lengths' /\ Conserved' /\ UnspoiledReadIsWhole'
  OBVIOUS
<1> USE DEF IInv, Lengths, Conserved, UnspoiledReadIsWhole, Reading, Writing,
            semVars, rxVars, txVars
<1>1. CASE StartRead
  <2> PICK k \in 1 .. MaxLen :
             /\ Reading' /\ n' = k /\ rx' = k /\ moved' = 0 /\ tx' = tx
             /\ pc' = "endRx" => spoiled'
    BY <1>1, Zenon DEF StartRead, Wait
  <2> QED
    OBVIOUS
<1>2. CASE ReadTimeout
  BY <1>2 DEF ReadTimeout
<1>3. CASE EndRead
  BY <1>3 DEF EndRead
<1>4. CASE StartWrite
  <2> PICK k \in 1 .. MaxLen :
             Writing' /\ n' = k /\ tx' = k /\ moved' = 0 /\ rx' = rx
    BY <1>4, Zenon DEF StartWrite, Wait
  <2> QED
    OBVIOUS
<1>5. CASE WriteTimeout
  BY <1>5 DEF WriteTimeout
<1>6. CASE EndWrite
  BY <1>6 DEF EndWrite
<1>7. CASE StopWrite
  <2>1. pc' = "idle" /\ n' = tx /\ tx' = 0 /\ UNCHANGED <<moved, rx>>
    BY <1>7, Zenon DEF StopWrite
  <2> QED
    BY <2>1
<1> QED
  BY <1>1, <1>2, <1>3, <1>4, <1>5, <1>6, <1>7 DEF Rs485Thread

\* ... and in every event of the UART.
LEMMA UartCounts ==
    IInv /\ (ByteReceived \/ rxerr_cb \/ ByteFetched \/ txend1_cb \/ LastByteSent)
      => Lengths' /\ Conserved' /\ UnspoiledReadIsWhole'
<1> SUFFICES ASSUME IInv,
                    ByteReceived \/ rxerr_cb \/ ByteFetched \/ txend1_cb \/ LastByteSent
             PROVE  Lengths' /\ Conserved' /\ UnspoiledReadIsWhole'
  OBVIOUS
<1> USE DEF IInv, Flags, Lengths, Conserved, WritesTransmit, UnspoiledReadIsWhole, Reading, Writing,
            semVars, opVars, rxVars, txVars
<1>1. CASE ByteReceived
  <2>1. CASE rx' = 0
    <3>1. CASE pc = "waitRx"
      BY <1>1, <2>1, <3>1 DEF ByteReceived, Signal
    <3>2. CASE pc # "waitRx"
      BY <1>1, <2>1, <3>2 DEF ByteReceived, Receiving, Signal
    <3> QED
      BY <3>1, <3>2
  <2>2. CASE rx' # 0
    BY <1>1, <2>2 DEF ByteReceived, Receiving
  <2> QED
    BY <2>1, <2>2
<1>2. CASE rxerr_cb
  BY <1>2 DEF rxerr_cb, Receiving, Signal
<1>3. CASE ByteFetched
  BY <1>3 DEF ByteFetched
<1>4. CASE txend1_cb
  BY <1>4 DEF txend1_cb, Signal
<1>5. CASE LastByteSent
  BY <1>5 DEF LastByteSent
<1> QED
  BY <1>1, <1>2, <1>3, <1>4, <1>5

\* Every step keeps the invariant.
LEMMA NextIInv == IInv /\ [Rs485Next]_rs485Vars => IInv'
<1>1. IInv /\ UNCHANGED rs485Vars => Lengths' /\ Conserved' /\ UnspoiledReadIsWhole'
  BY DEF IInv, Lengths, Conserved, UnspoiledReadIsWhole, Reading, Writing,
         rs485Vars, semVars, opVars, rxVars, txVars
<1> QED
  BY <1>1, NextFlags, NextWritesTransmit, MainCounts, UartCounts DEF Rs485Next, IInv

\* The invariant holds throughout.
LEMMA Invariance == Rs485Spec => []IInv
BY InitIInv, NextIInv, PTL DEF Rs485Spec

\* Type correctness.
THEOREM TypeCorrect == Rs485Spec => []Rs485TypeOK
<1>1. IInv => Rs485TypeOK
  BY DEF IInv, Flags, Lengths, Rs485TypeOK
<1> QED
  BY <1>1, Invariance, PTL

\* A successful read that was not spoiled is whole, on any line.
THEOREM ReadsAreWhole == Rs485Spec => []UnspoiledReadIsWhole
<1>1. IInv => UnspoiledReadIsWhole
  BY DEF IInv
<1> QED
  BY <1>1, Invariance, PTL

\* A write keeps the bus until its last byte has left, on any line.
THEOREM WritesAreWhole == Rs485Spec => WholeBeforeRelease
<1>1. IInv /\ [Rs485Next]_rs485Vars
        => [(txen /\ ~txen' /\ err = "OK") => moved = n /\ tc]_rs485Vars
  <2> SUFFICES ASSUME IInv, Rs485Next, txen, ~txen', err = "OK"
               PROVE  moved = n /\ tc
    OBVIOUS
  <2> USE DEF IInv, Flags, Lengths, Conserved, WritesTransmit, Writing, opVars, rxVars, txVars
  <2>1. EndWrite \/ StopWrite
    <3>1. CASE Rs485Thread
      BY <3>1 DEF Rs485Thread, StartRead, ReadTimeout, EndRead, StartWrite,
                  WriteTimeout
    <3>2. CASE ByteReceived \/ rxerr_cb \/ ByteFetched \/ txend1_cb \/ LastByteSent
      BY <3>2 DEF ByteReceived, rxerr_cb, ByteFetched, txend1_cb, LastByteSent
    <3> QED
      BY <3>1, <3>2 DEF Rs485Next
  <2> QED
    BY <2>1 DEF EndWrite, StopWrite
<1> QED
  BY <1>1, Invariance, PTL DEF Rs485Spec, WholeBeforeRelease

\* No signal goes stale while the line behaves.
LEMMA NextNoStaleSignal == IInv /\ NoStaleSignal /\ [Rs485Next]_rs485Vars => NoStaleSignal'
<1> SUFFICES ASSUME IInv, NoStaleSignal, [Rs485Next]_rs485Vars, ~faulty' PROVE NoStaleSignal'
  BY DEF NoStaleSignal
<1> USE DEF IInv, Flags, Lengths, Conserved, WritesTransmit, NoStaleSignal,
            Reading, Writing, semVars, opVars, rxVars, txVars
<1>1. CASE StartRead
  BY <1>1 DEF StartRead, Wait, Unlocked
<1>2. CASE EndRead
  BY <1>2 DEF EndRead
<1>3. CASE StartWrite
  BY <1>3 DEF StartWrite, Wait, Unlocked
<1>4. CASE EndWrite \/ StopWrite
  BY <1>4 DEF EndWrite, StopWrite
<1>5. CASE ByteReceived
  BY <1>5 DEF ByteReceived, Receiving, Signal
<1>6. CASE ByteFetched
  BY <1>6 DEF ByteFetched
<1>7. CASE txend1_cb
  BY <1>7 DEF txend1_cb, Signal
<1>8. CASE LastByteSent
  BY <1>8 DEF LastByteSent
<1>9. CASE ReadTimeout \/ WriteTimeout \/ rxerr_cb
  BY <1>9 DEF ReadTimeout, WriteTimeout, rxerr_cb
<1>10. CASE UNCHANGED rs485Vars
  BY <1>10 DEF rs485Vars
<1> QED
  BY <1>1, <1>2, <1>3, <1>4, <1>5, <1>6, <1>7, <1>8, <1>9, <1>10
     DEF Rs485Next, Rs485Thread

\* As long as the line behaves no operation but the first is spoiled.
THEOREM SignalsMeetWaiters == Rs485Spec => OnlyFirstIsSpoiled
<1>1. Rs485Init => NoStaleSignal
  BY DEF Rs485Init, NoStaleSignal
<1>2. IInv /\ NoStaleSignal /\ [Rs485Next]_rs485Vars
        => [(pc = "idle" /\ pc' # "idle" /\ ~fresh /\ ~faulty) => ~spoiled']_rs485Vars
  <2> SUFFICES ASSUME NoStaleSignal, Rs485Next, pc = "idle", pc' # "idle", ~fresh, ~faulty
               PROVE  ~spoiled'
    OBVIOUS
  <2>1. StartRead \/ StartWrite
    BY DEF Rs485Next, Rs485Thread, ReadTimeout, EndRead, WriteTimeout, EndWrite,
           StopWrite, ByteReceived, rxerr_cb, ByteFetched, txend1_cb,
           LastByteSent, Signal
  <2> QED
    BY <2>1 DEF StartRead, StartWrite, Wait, NoStaleSignal
<1> QED
  BY <1>1, <1>2, NextNoStaleSignal, Invariance, PTL DEF Rs485Spec, OnlyFirstIsSpoiled

(***************************************************************************)
(* Why a write ends                                                        *)
(*                                                                         *)
(* Fairness is not needed for this much: while the board drives the bus    *)
(* every step is one of the few a write is made of, and one of the fair    *)
(* steps can be taken.  Since a fair step that stays possible is taken,    *)
(* the bus is released.                                                    *)
(***************************************************************************)

\* What is left to do for a write: two steps for each byte to be fetched, and
\* one for each of the other events.
StepsLeft ==
    2 * tx + (IF tc THEN 0 ELSE 1) + (IF txend THEN 1 ELSE 0) + (IF pc = "waitTx" THEN 1 ELSE 0)

\* The guards of the steps that Rs485FairSpec is fair to.
FairStepPossible ==
    \/ tx > 0                          \* ByteFetched
    \/ txend /\ Interruptible          \* txend1_cb
    \/ tx = 0 /\ ~tc                   \* LastByteSent
    \/ pc = "drainTx" /\ tc            \* EndWrite
    \/ pc = "endTx"                    \* StopWrite

\* writet sleeps only until the end of the transfer is reported.
SleepsForTransfer == pc = "waitTx" => tx > 0 \/ txend

\* writet wakes up when there is nothing more to be reported to it.
LEMMA NextSleepsForTransfer == IInv /\ SleepsForTransfer /\ [Rs485Next]_rs485Vars => SleepsForTransfer'
<1> SUFFICES ASSUME IInv, SleepsForTransfer, [Rs485Next]_rs485Vars, pc' = "waitTx"
             PROVE  tx' > 0 \/ txend'
  BY DEF SleepsForTransfer
<1> USE DEF IInv, Lengths, semVars, opVars, rxVars, txVars
<1>1. CASE StartRead \/ ReadTimeout \/ EndRead
  BY <1>1 DEF StartRead, Wait, ReadTimeout, EndRead
<1>2. CASE StartWrite
  <2>1. PICK k \in 1 .. MaxLen : tx' = k
    BY <1>2 DEF StartWrite
  <2> QED BY <2>1
<1>3. CASE WriteTimeout \/ EndWrite \/ StopWrite
  BY <1>3 DEF WriteTimeout, EndWrite, StopWrite
<1>4. CASE ByteReceived \/ rxerr_cb \/ LastByteSent
  <2>1. pc = "waitTx" /\ tx' = tx /\ txend' = txend
    BY <1>4 DEF ByteReceived, rxerr_cb, LastByteSent, Signal
  <2> QED BY <2>1, Zenon DEF SleepsForTransfer
<1>5. CASE ByteFetched
  <2>1. tx' \in Nat /\ txend' = (tx' = 0)
    BY <1>5 DEF ByteFetched
  <2>2. CASE tx' = 0
    BY <2>1, <2>2
  <2>3. CASE tx' # 0
    BY <2>1, <2>3
  <2> QED BY <2>2, <2>3
<1>6. CASE txend1_cb
  BY <1>6 DEF txend1_cb, Signal
<1>7. CASE UNCHANGED rs485Vars
  <2>1. pc = "waitTx" /\ tx' = tx /\ txend' = txend
    BY <1>7 DEF rs485Vars
  <2> QED BY <2>1, Zenon DEF SleepsForTransfer
<1> QED
  BY <1>1, <1>2, <1>3, <1>4, <1>5, <1>6, <1>7 DEF Rs485Next, Rs485Thread

\* A write is never stuck, whatever the line does: as long as the board drives
\* the bus a step can be taken that leads to its release, and every step there
\* is, those of a line that misbehaves and of a timeout included, leaves fewer
\* to take (rs485.c:70-110).
THEOREM WritesComeToAnEnd ==
    Rs485Spec => /\ [](txen => FairStepPossible /\ StepsLeft \in 0 .. 2 * MaxLen + 3)
            /\ [][txen /\ txen' => StepsLeft' < StepsLeft]_rs485Vars
<1>1. Rs485Init => SleepsForTransfer
  BY DEF Rs485Init, SleepsForTransfer
<1>2. IInv /\ SleepsForTransfer => (txen => FairStepPossible /\ StepsLeft \in 0 .. 2 * MaxLen + 3)
  <2> SUFFICES ASSUME IInv, SleepsForTransfer, txen
               PROVE  FairStepPossible /\ StepsLeft \in 0 .. 2 * MaxLen + 3
    OBVIOUS
  <2>1. pc \in {"waitTx", "drainTx", "endTx"} /\ tx \in 0 .. MaxLen
    BY DEF IInv, WritesTransmit, Writing, Lengths
  <2>2. FairStepPossible
    <3>1. CASE pc = "waitTx"
      BY <3>1 DEF FairStepPossible, SleepsForTransfer, Interruptible
    <3>2. CASE pc = "drainTx"
      BY <2>1, <3>2 DEF FairStepPossible
    <3>3. CASE pc = "endTx"
      BY <3>3 DEF FairStepPossible
    <3> QED BY <2>1, <3>1, <3>2, <3>3
  <2>3. StepsLeft \in 0 .. 2 * MaxLen + 3
    BY <2>1 DEF StepsLeft
  <2> QED BY <2>2, <2>3
<1>3. IInv /\ [Rs485Next]_rs485Vars => [txen /\ txen' => StepsLeft' < StepsLeft]_rs485Vars
  <2> SUFFICES ASSUME IInv, Rs485Next, txen, txen' PROVE StepsLeft' < StepsLeft
    OBVIOUS
  <2>1. pc \in {"waitTx", "drainTx", "endTx"} /\ tx \in 0 .. MaxLen
    BY DEF IInv, WritesTransmit, Writing, Lengths
  <2>2. WriteTimeout \/ ByteFetched \/ txend1_cb \/ LastByteSent
    BY <2>1 DEF Rs485Next, Rs485Thread, StartRead, ReadTimeout, EndRead, StartWrite, EndWrite, StopWrite,
                Unlocked, ByteReceived, rxerr_cb, Receiving
  <2> USE DEF StepsLeft, semVars, opVars, rxVars, txVars
  <2>3. CASE WriteTimeout
    BY <2>1, <2>3 DEF WriteTimeout
  <2>4. CASE ByteFetched
    BY <2>1, <2>4 DEF ByteFetched
  <2>5. CASE txend1_cb
    BY <2>1, <2>5 DEF txend1_cb, Signal
  <2>6. CASE LastByteSent
    BY <2>1, <2>6 DEF LastByteSent
  <2> QED BY <2>2, <2>3, <2>4, <2>5, <2>6
<1> QED
  BY <1>1, <1>2, <1>3, NextSleepsForTransfer, Invariance, PTL DEF Rs485Spec

(***************************************************************************)
(* The messages on the line: reads and their bytes                         *)
(***************************************************************************)

HIDE MaxLenAssumption

\* The names of bytes mean different bytes.
LEMMA NamesDiffer ==
    /\ Letter # Me /\ Letter # Other /\ Letter # Gap /\ Letter # Silence
    /\ Me # Other /\ Me # Gap /\ Me # Silence /\ Other # Gap /\ Other # Silence
    /\ PING # Gap /\ PING # Silence /\ SETPOINT # Gap /\ SETPOINT # Silence
    /\ Zero # One /\ Zero # Gap /\ Zero # Silence /\ One # Gap /\ One # Silence /\ Gap # Silence
    /\ PING # SETPOINT
<1>1. \A j, k \in 1 .. 9 : Named[j] = Named[k] => j = k
  BY ByteAssumption DEF IsInjective, Named
<1>2. /\ Named[1] = Me /\ Named[2] = Other /\ Named[3] = Letter /\ Named[4] = PING
      /\ Named[5] = SETPOINT /\ Named[6] = Zero /\ Named[7] = One /\ Named[8] = Gap /\ Named[9] = Silence
  BY DEF Named
<1> QED BY <1>1, <1>2

\* The bytes with names may be on the line.
LEMMA NamesAreTokens ==
    /\ Range(Named) = {Me, Other, Letter, PING, SETPOINT, Zero, One, Gap, Silence}
    /\ {Me, Other, Letter, PING, SETPOINT, Zero, One, Gap, Silence} \subseteq Token
<1>1. Range(Named) = {Me, Other, Letter, PING, SETPOINT, Zero, One, Gap, Silence}
  BY DEF Range, Named
<1> QED BY <1>1 DEF Token

\* The messages to this board.
Ping == Content(Me, PING, <<>>)
Set == Content(Me, SETPOINT, <<Letter>>)

\* The two bytes of a checksum.
Half(c, half) == <<c, half>>

\* A header and a footer around a body, byte by byte.
LEMMA Enveloped ==
    /\ \A a, b, c, d, z : (<<a, b, c>> \o <<>>) \o <<d, z>> = <<a, b, c, d, z>>
    /\ \A a, b, c, d, z, f : (<<a, b, c>> \o <<f>>) \o <<d, z>> = <<a, b, c, f, d, z>>
<1>1. \A a, b, c, d, z : (<<a, b, c>> \o <<>>) \o <<d, z>> = <<a, b, c, d, z>>
  <2> TAKE a, b, c, d, z
  <2> DEFINE S == {a, b, c, d, z}
             h == <<a, b, c>>
             t == <<d, z>>
             u == <<a, b, c, d, z>>
  <2>1. h \in Seq(S) /\ t \in Seq(S) /\ u \in Seq(S)
    OBVIOUS
  <2>2. Len(h) = 3 /\ Len(t) = 2 /\ Len(u) = 5
    OBVIOUS
  <2>3. h \o <<>> = h
    BY <2>1, ConcatEmptySeq
  <2>4. h \o t \in Seq(S) /\ Len(h \o t) = 5
    BY <2>1, <2>2, ConcatProperties
  <2>5. \A i \in 1 .. 5 : (h \o t)[i] = u[i]
    BY <2>1, <2>2, ConcatProperties
  <2> HIDE DEF S, h, t, u
  <2>6. h \o t = u
    BY <2>1, <2>2, <2>4, <2>5, SeqEqual
  <2>7. (h \o <<>>) \o t = u
    BY <2>3, <2>6
  <2> QED BY <2>7 DEF h, t, u
<1>2. \A a, b, c, d, z, f : (<<a, b, c>> \o <<f>>) \o <<d, z>> = <<a, b, c, f, d, z>>
  <2> TAKE a, b, c, d, z, f
  <2> DEFINE S == {a, b, c, d, z, f}
             h == <<a, b, c>>
             g == <<f>>
             x == <<a, b, c, f>>
             t == <<d, z>>
             v == <<a, b, c, f, d, z>>
  <2>1. h \in Seq(S) /\ g \in Seq(S) /\ x \in Seq(S) /\ t \in Seq(S) /\ v \in Seq(S)
    OBVIOUS
  <2>2. Len(h) = 3 /\ Len(g) = 1 /\ Len(x) = 4 /\ Len(t) = 2 /\ Len(v) = 6
    OBVIOUS
  <2>3. h \o g \in Seq(S) /\ Len(h \o g) = 4 /\ x \o t \in Seq(S) /\ Len(x \o t) = 6
    BY <2>1, <2>2, ConcatProperties
  <2>4. \A i \in 1 .. 4 : (h \o g)[i] = x[i]
    BY <2>1, <2>2, ConcatProperties
  <2>5. \A i \in 1 .. 6 : (x \o t)[i] = v[i]
    BY <2>1, <2>2, ConcatProperties
  <2> HIDE DEF S, h, g, x, t, v
  <2>6. h \o g = x
    BY <2>1, <2>2, <2>3, <2>4, SeqEqual
  <2>7. x \o t = v
    BY <2>1, <2>2, <2>3, <2>5, SeqEqual
  <2> QED BY <2>6, <2>7 DEF h, g, t, v
<1> QED BY <1>1, <1>2

\* The messages as they are sent.
LEMMA MessageBytes ==
    /\ ToMe = {Ping, Set}
    /\ Bytes(Ping) = <<Me, PING, Zero, Half(Ping, 1), Half(Ping, 2)>>
    /\ Bytes(Set) = <<Me, SETPOINT, One, Letter, Half(Set, 1), Half(Set, 2)>>
    /\ \A c \in ToOther : /\ c.addr = Other
                          /\ \E b \in {Me, Letter} :
                                Bytes(c) = <<Other, SETPOINT, One, b, Half(c, 1), Half(c, 2)>>
<1>1. ToMe = {Ping, Set}
  BY DEF ToMe, Ping, Set
<1>2. Bytes(Ping) = <<Me, PING, Zero, Half(Ping, 1), Half(Ping, 2)>>
  <2>1. Ping.addr = Me /\ Ping.type = PING /\ Ping.body = <<>>
    BY DEF Ping, Content
  <2>2. Bytes(Ping) = (<<Me, PING, Zero>> \o <<>>) \o <<Half(Ping, 1), Half(Ping, 2)>>
    BY <2>1 DEF Bytes, Footer, Half
  <2> QED BY <2>2, Enveloped
<1>3. Bytes(Set) = <<Me, SETPOINT, One, Letter, Half(Set, 1), Half(Set, 2)>>
  <2>1. Set.addr = Me /\ Set.type = SETPOINT /\ Set.body = <<Letter>>
    BY DEF Set, Content
  <2>2. <<Letter>> # <<>>
    OBVIOUS
  <2>3. Bytes(Set) = (<<Me, SETPOINT, One>> \o <<Letter>>) \o <<Half(Set, 1), Half(Set, 2)>>
    BY <2>1, <2>2 DEF Bytes, Footer, Half
  <2> QED BY <2>3, Enveloped
<1>4. ASSUME NEW c \in ToOther
      PROVE  /\ c.addr = Other
             /\ \E b \in {Me, Letter} :
                   Bytes(c) = <<Other, SETPOINT, One, b, Half(c, 1), Half(c, 2)>>
  <2>1. PICK b \in {Me, Letter} : c = Content(Other, SETPOINT, <<b>>)
    BY DEF ToOther
  <2>2. c.addr = Other /\ c.type = SETPOINT /\ c.body = <<b>>
    BY <2>1 DEF Content
  <2>3. Bytes(c) = <<Other, SETPOINT, One, b, Half(c, 1), Half(c, 2)>>
    <3>1. <<b>> # <<>>
      OBVIOUS
    <3>2. Bytes(c) = (<<Other, SETPOINT, One>> \o <<b>>) \o <<Half(c, 1), Half(c, 2)>>
      BY <2>2, <3>1 DEF Bytes, Footer, Half
    <3> QED BY <3>2, Enveloped
  <2> QED BY <2>2, <2>3
<1> QED BY <1>1, <1>2, <1>3, <1>4

\* A byte of a checksum is none of those with names.
LEMMA ChecksumIsByte ==
    ASSUME NEW c \in ToMe \cup ToOther, NEW half \in {1, 2}
    PROVE  Half(c, half) \in Token /\ IsByte(Half(c, half))
<1>1. ToMe \subseteq Heard
  BY NamesAreTokens DEF ToMe, Heard
<1>2. Half(c, half) \notin Range(Named)
  BY <1>1, ChecksumAssumption DEF Half
<1>3. Half(c, half) \in Token
  BY DEF Half, Token
<1> QED BY <1>2, <1>3, NamesAreTokens DEF IsByte, Idle

(***************************************************************************)
(* Reads                                                                   *)
(***************************************************************************)

\* A read of one byte returns the next byte, or nothing in the silence.
LEMMA ReadOne ==
    ASSUME line \in Seq(Token), NEW r \in Read(1)
    PROVE  \/ r.bytes = <<>> /\ r.rest = <<Silence>>
           \/ \E k \in 1 .. Len(line) :
                 r.bytes = <<line[k]>> /\ r.rest = SubSeq(line, k + 1, Len(line)) /\ IsByte(line[k])
<1>1. DOMAIN line = 1 .. Len(line) /\ Len(line) \in Nat
  OBVIOUS
<1>2. CASE r \in Complete(1)
  <2>1. PICK p \in [1 .. 1 -> DOMAIN line] :
           r = [bytes |-> Taken(p), rest |-> SubSeq(line, p[1] + 1, Len(line))] /\ BytesAt(p, p[1])
    BY <1>2 DEF Complete
  <2>2. p[1] \in 1 .. Len(line) /\ IsByte(line[p[1]])
    BY <1>1, <2>1 DEF BytesAt
  <2>3. r.bytes = <<line[p[1]]>>
    BY <2>1 DEF Taken
  <2>4. r.rest = SubSeq(line, p[1] + 1, Len(line))
    BY <2>1
  <2> QED BY <2>2, <2>3, <2>4
<1>3. CASE r \in TimedOut(1)
  <2>1. PICK p \in [1 .. 0 -> DOMAIN line] : r = [bytes |-> Taken(p), rest |-> <<Silence>>]
    BY <1>3 DEF TimedOut
  <2>2. r.bytes = <<>>
    BY <2>1 DEF Taken
  <2> QED BY <2>1, <2>2
<1> QED BY <1>2, <1>3 DEF Read

\* A read of two bytes returns the next two, or one or none in the silence.
LEMMA ReadTwo ==
    ASSUME line \in Seq(Token), NEW r \in Read(2)
    PROVE  \/ r.bytes = <<>> /\ r.rest = <<Silence>>
           \/ \E k \in 1 .. Len(line) :
                 r.bytes = <<line[k]>> /\ r.rest = <<Silence>> /\ IsByte(line[k])
           \/ \E j, k \in 1 .. Len(line) :
                 /\ r.bytes = <<line[j], line[k]>> /\ r.rest = SubSeq(line, k + 1, Len(line))
                 /\ IsByte(line[j]) /\ IsByte(line[k])
<1>1. DOMAIN line = 1 .. Len(line) /\ Len(line) \in Nat
  OBVIOUS
<1>2. CASE r \in Complete(2)
  <2>1. PICK p \in [1 .. 2 -> DOMAIN line] :
           r = [bytes |-> Taken(p), rest |-> SubSeq(line, p[2] + 1, Len(line))] /\ BytesAt(p, p[2])
    BY <1>2 DEF Complete
  <2>2. p[1] \in 1 .. Len(line) /\ p[2] \in 1 .. Len(line) /\ IsByte(line[p[1]]) /\ IsByte(line[p[2]])
    BY <1>1, <2>1 DEF BytesAt
  <2>3. r.bytes = <<line[p[1]], line[p[2]]>>
    BY <2>1 DEF Taken
  <2>4. r.rest = SubSeq(line, p[2] + 1, Len(line))
    BY <2>1
  <2> QED BY <2>2, <2>3, <2>4
<1>3. CASE r \in TimedOut(2)
  <2>0. PICK k \in 0 .. 1 : \E p \in [1 .. k -> DOMAIN line] :
           r = [bytes |-> Taken(p), rest |-> <<Silence>>] /\ BytesAt(p, Len(line))
    BY <1>3 DEF TimedOut
  <2>1. PICK p \in [1 .. k -> DOMAIN line] :
           r = [bytes |-> Taken(p), rest |-> <<Silence>>] /\ BytesAt(p, Len(line))
    BY <2>0
  <2>2. CASE k = 0
    <3>1. r.bytes = <<>>
      BY <2>1, <2>2 DEF Taken
    <3> QED BY <2>1, <3>1
  <2>3. CASE k = 1
    <3>1. r.bytes = <<line[p[1]]>>
      BY <2>1, <2>3 DEF Taken
    <3>2. p[1] \in 1 .. Len(line) /\ IsByte(line[p[1]])
      BY <1>1, <2>1, <2>3 DEF BytesAt
    <3> QED BY <2>1, <3>1, <3>2
  <2> QED BY <2>2, <2>3
<1> QED BY <1>2, <1>3 DEF Read

\* A read of bytes that are there takes just these.
LEMMA ReadsNextByte ==
    ASSUME line \in Seq(Token), line # <<>>, IsByte(line[1]), NEW r \in Read(1)
    PROVE  r.bytes = <<line[1]>> /\ r.rest = SubSeq(line, 2, Len(line))
<1>1. DOMAIN line = 1 .. Len(line) /\ Len(line) \in Nat /\ Len(line) >= 1
  BY EmptySeq
<1>2. CASE r \in Complete(1)
  <2>1. PICK p \in [1 .. 1 -> DOMAIN line] :
           r = [bytes |-> Taken(p), rest |-> SubSeq(line, p[1] + 1, Len(line))] /\ BytesAt(p, p[1])
    BY <1>2 DEF Complete
  <2>2. p[1] = 1
    BY <1>1, <2>1 DEF BytesAt
  <2> QED BY <2>1, <2>2 DEF Taken
<1>3. CASE r \in TimedOut(1)
  <2>1. PICK p \in [1 .. 0 -> DOMAIN line] : BytesAt(p, Len(line))
    BY <1>3 DEF TimedOut
  <2> QED BY <1>1, <2>1 DEF BytesAt
<1> QED BY <1>2, <1>3 DEF Read

\* A read of two bytes takes the two that stand next.
LEMMA ReadsNextBytes ==
    ASSUME line \in Seq(Token), Len(line) >= 2, IsByte(line[1]), IsByte(line[2]), NEW r \in Read(2)
    PROVE  r.bytes = <<line[1], line[2]>> /\ r.rest = SubSeq(line, 3, Len(line))
<1>1. DOMAIN line = 1 .. Len(line) /\ Len(line) \in Nat
  OBVIOUS
<1>2. CASE r \in Complete(2)
  <2>1. PICK p \in [1 .. 2 -> DOMAIN line] :
           r = [bytes |-> Taken(p), rest |-> SubSeq(line, p[2] + 1, Len(line))] /\ BytesAt(p, p[2])
    BY <1>2 DEF Complete
  <2>2. p[1] < p[2] /\ p[1] \in 1 .. Len(line) /\ p[2] \in 1 .. Len(line)
    BY <1>1, <2>1 DEF BytesAt
  <2>3. \A k \in 1 .. p[2] : IsByte(line[k]) => p[1] = k \/ p[2] = k
    BY <1>1, <2>1 DEF BytesAt
  <2>4. p[1] = 1
    BY <1>1, <2>2, <2>3
  <2>5. p[2] = 2
    BY <1>1, <2>2, <2>3, <2>4
  <2> QED BY <2>1, <2>4, <2>5 DEF Taken
<1>3. CASE r \in TimedOut(2)
  <2>0. PICK k \in 0 .. 1 : \E p \in [1 .. k -> DOMAIN line] : BytesAt(p, Len(line))
    BY <1>3 DEF TimedOut
  <2>1. PICK p \in [1 .. k -> DOMAIN line] : BytesAt(p, Len(line))
    BY <2>0
  <2>2. \E m \in 1 .. k : p[m] = 1
    BY <1>1, <2>1 DEF BytesAt
  <2>3. \E m \in 1 .. k : p[m] = 2
    BY <1>1, <2>1 DEF BytesAt
  <2> QED BY <2>1, <2>2, <2>3
<1> QED BY <1>2, <1>3 DEF Read
(***************************************************************************)
(* Only what was sent to this board is served                              *)
(***************************************************************************)

\* What the variables hold.
LinkKnown ==
    /\ line \in Seq(Token)
    /\ rpc \in {"addr", "wait", "header", "data", "footer", "reply"}
    /\ header \in [type : Token, size : {Zero, One}]
    /\ data \in {<<t>> : t \in Token}
    /\ stale \in BOOLEAN /\ asked \in BOOLEAN /\ upset \in BOOLEAN
    /\ sent \in Seq(ToMe \cup {Typed})
    /\ served \in Seq(Heard \cup {Typed, Stale})

\* A checksum of a message to this board is on the line only if it was sent.
SumsSent ==
    \A k \in 1 .. Len(line), c \in ToMe, half \in {1, 2} :
        line[k] = Half(c, half) => \E j \in 1 .. Len(sent) : sent[j] = c

\* What holds on any line.
SentInv == LinkKnown /\ SumsSent /\ OnlySentIsServed

\* Nothing is on the line, nothing was sent.
LEMMA SentInit == LinkInit => SentInv
<1> SUFFICES ASSUME LinkInit PROVE SentInv
  OBVIOUS
<1> USE DEF LinkInit
<1>1. line = <<>> /\ sent = <<>> /\ served = <<>>
  OBVIOUS
<1>2. line \in Seq(Token) /\ sent \in Seq(ToMe \cup {Typed}) /\ served \in Seq(Heard \cup {Typed, Stale})
  BY <1>1, EmptySeq
<1>3. header \in [type : Token, size : {Zero, One}] /\ data \in {<<t>> : t \in Token}
  BY NamesAreTokens
<1>4. LinkKnown
  BY <1>2, <1>3 DEF LinkKnown
<1>5. SumsSent /\ OnlySentIsServed
  BY <1>1 DEF SumsSent, OnlySentIsServed
<1> QED BY <1>4, <1>5 DEF SentInv

\* The two bytes of a checksum tell which message it is of.
LEMMA HalvesDiffer ==
    ASSUME NEW c, NEW d, NEW g, NEW h, Half(c, g) = Half(d, h)
    PROVE  c = d /\ g = h
<1>1. Half(c, g)[1] = c /\ Half(c, g)[2] = g /\ Half(d, h)[1] = d /\ Half(d, h)[2] = h
  BY DEF Half
<1> QED BY <1>1

\* A message's bytes hold no other message's checksum.
LEMMA MessageTokens ==
    /\ Bytes(Ping) \in Seq(Token) /\ Len(Bytes(Ping)) = 5
    /\ Bytes(Set) \in Seq(Token) /\ Len(Bytes(Set)) = 6
    /\ \A c \in ToOther : Bytes(c) \in Seq(Token) /\ Len(Bytes(c)) = 6
    /\ \A c, d \in ToMe, half \in {1, 2} :
          \A k \in 1 .. Len(Bytes(c)) : Bytes(c)[k] = Half(d, half) => c = d
    /\ \A c \in ToOther, d \in ToMe, half \in {1, 2} :
          \A k \in 1 .. Len(Bytes(c)) : Bytes(c)[k] # Half(d, half)
<1> DEFINE N == {Me, Other, Letter, PING, SETPOINT, Zero, One, Gap, Silence}
<1>1. Ping \in ToMe /\ Set \in ToMe
  BY MessageBytes
<1>2. \A c \in ToMe \cup ToOther, half \in {1, 2} : Half(c, half) \in Token /\ Half(c, half) \notin N
  <2> TAKE c \in ToMe \cup ToOther, half \in {1, 2}
  <2>1. ToMe \subseteq Heard
    BY NamesAreTokens DEF ToMe, Heard
  <2>2. Half(c, half) \notin Range(Named)
    BY <2>1, ChecksumAssumption DEF Half
  <2> QED BY <2>2, ChecksumIsByte, NamesAreTokens
<1>3. N \subseteq Token
  BY NamesAreTokens
<1>4. \A x, y, z, u, v \in Token : <<x, y, z, u, v>> \in Seq(Token) /\ Len(<<x, y, z, u, v>>) = 5
  OBVIOUS
<1>5. \A x, y, z, u, v, w \in Token : <<x, y, z, u, v, w>> \in Seq(Token) /\ Len(<<x, y, z, u, v, w>>) = 6
  OBVIOUS
<1>6. Bytes(Ping) \in Seq(Token) /\ Len(Bytes(Ping)) = 5
  <2>1. Half(Ping, 1) \in Token /\ Half(Ping, 2) \in Token
    BY <1>1, <1>2
  <2> QED BY <1>3, <1>4, <2>1, MessageBytes
<1>7. Bytes(Set) \in Seq(Token) /\ Len(Bytes(Set)) = 6
  <2>1. Half(Set, 1) \in Token /\ Half(Set, 2) \in Token
    BY <1>1, <1>2
  <2> QED BY <1>3, <1>5, <2>1, MessageBytes
<1>8. \A c \in ToOther : Bytes(c) \in Seq(Token) /\ Len(Bytes(c)) = 6
  <2> TAKE c \in ToOther
  <2>1. PICK b \in {Me, Letter} : Bytes(c) = <<Other, SETPOINT, One, b, Half(c, 1), Half(c, 2)>>
    BY MessageBytes
  <2>2. Half(c, 1) \in Token /\ Half(c, 2) \in Token
    BY <1>2
  <2> QED BY <1>3, <1>5, <2>1, <2>2
<1>9. \A c, d \in ToMe, half \in {1, 2} :
         \A k \in 1 .. Len(Bytes(c)) : Bytes(c)[k] = Half(d, half) => c = d
  <2> SUFFICES ASSUME NEW c \in ToMe, NEW d \in ToMe, NEW half \in {1, 2},
                      NEW k \in 1 .. Len(Bytes(c)), Bytes(c)[k] = Half(d, half)
               PROVE  c = d
    OBVIOUS
  <2>1. Bytes(c)[k] \notin N
    BY <1>2
  <2>2. Bytes(c)[k] \in N \cup {Half(c, 1), Half(c, 2)}
    <3>1. CASE c = Ping
      <4>1. k \in 1 .. 5
        BY <1>6, <3>1
      <4> QED BY <3>1, <4>1, MessageBytes
    <3>2. CASE c = Set
      <4>1. k \in 1 .. 6
        BY <1>7, <3>2
      <4> QED BY <3>2, <4>1, MessageBytes
    <3> QED BY <3>1, <3>2, MessageBytes
  <2>3. \E g \in {1, 2} : Half(d, half) = Half(c, g)
    BY <2>1, <2>2
  <2> QED BY <2>3, HalvesDiffer
<1>10. \A c \in ToOther, d \in ToMe, half \in {1, 2} :
         \A k \in 1 .. Len(Bytes(c)) : Bytes(c)[k] # Half(d, half)
  <2> SUFFICES ASSUME NEW c \in ToOther, NEW d \in ToMe, NEW half \in {1, 2},
                      NEW k \in 1 .. Len(Bytes(c)), Bytes(c)[k] = Half(d, half)
               PROVE  FALSE
    OBVIOUS
  <2>1. Bytes(c)[k] \notin N
    BY <1>2
  <2>2. PICK b \in {Me, Letter} : Bytes(c) = <<Other, SETPOINT, One, b, Half(c, 1), Half(c, 2)>>
    BY MessageBytes
  <2>3. Bytes(c)[k] \in N \cup {Half(c, 1), Half(c, 2)}
    <3>1. k \in 1 .. 6
      BY <1>8
    <3> QED BY <2>2, <3>1
  <2>4. \E g \in {1, 2} : Half(d, half) = Half(c, g)
    BY <2>1, <2>3
  <2>5. c = d
    BY <2>4, HalvesDiffer
  <2>6. c.addr = Other
    BY MessageBytes
  <2>7. d.addr = Me
    BY MessageBytes DEF Ping, Set, Content
  <2> QED BY <2>5, <2>6, <2>7, NamesDiffer
<1> QED BY <1>6, <1>7, <1>8, <1>9, <1>10

\* What is put on the line.
LEMMA SumsPut ==
    ASSUME LinkKnown, SumsSent, NEW bytes \in Seq(Token), line' = line \o bytes,
           \A j \in 1 .. Len(sent) : \E i \in 1 .. Len(sent') : sent'[i] = sent[j],
           \A k \in 1 .. Len(bytes), c \in ToMe, half \in {1, 2} :
              bytes[k] = Half(c, half) => \E j \in 1 .. Len(sent') : sent'[j] = c
    PROVE  line' \in Seq(Token) /\ SumsSent'
<1>1. line \in Seq(Token)
  BY DEF LinkKnown
<1>2. /\ line' \in Seq(Token) /\ Len(line') = Len(line) + Len(bytes)
      /\ \A k \in 1 .. Len(line) + Len(bytes) :
            line'[k] = IF k <= Len(line) THEN line[k] ELSE bytes[k - Len(line)]
  BY <1>1, ConcatProperties
<1>3. ASSUME NEW k \in 1 .. Len(line'), NEW c \in ToMe, NEW half \in {1, 2}, line'[k] = Half(c, half)
      PROVE  \E j \in 1 .. Len(sent') : sent'[j] = c
  <2>1. CASE k <= Len(line)
    <3>1. k \in 1 .. Len(line) /\ line[k] = Half(c, half)
      BY <1>1, <1>2, <1>3, <2>1
    <3>2. \E j \in 1 .. Len(sent) : sent[j] = c
      BY <3>1 DEF SumsSent
    <3> QED BY <3>2
  <2>2. CASE ~(k <= Len(line))
    <3>1. k - Len(line) \in 1 .. Len(bytes) /\ bytes[k - Len(line)] = Half(c, half)
      BY <1>1, <1>2, <1>3, <2>2
    <3> QED BY <3>1
  <2> QED BY <2>1, <2>2
<1>4. SumsSent'
  BY <1>3 DEF SumsSent
<1> QED BY <1>2, <1>4

\* What is left of the line was there, or is the silence after it.
LEMMA SumsLeft ==
    ASSUME LinkKnown, SumsSent, sent' = sent,
           \A k \in 1 .. Len(line') : line'[k] = Silence \/ \E j \in 1 .. Len(line) : line'[k] = line[j]
    PROVE  SumsSent'
<1>1. ASSUME NEW k \in 1 .. Len(line'), NEW c \in ToMe, NEW half \in {1, 2}, line'[k] = Half(c, half)
      PROVE  \E j \in 1 .. Len(sent') : sent'[j] = c
  <2>1. IsByte(Half(c, half))
    BY ChecksumIsByte
  <2>2. line'[k] # Silence
    BY <1>1, <2>1 DEF IsByte, Idle
  <2>3. \E j \in 1 .. Len(line) : line[j] = Half(c, half)
    BY <1>1, <2>2
  <2> QED BY <2>3 DEF SumsSent
<1> QED BY <1>1 DEF SumsSent

\* What is left of the line without its first k places.
LEMMA Suffix ==
    ASSUME NEW s \in Seq(Token), NEW k \in 0 .. Len(s)
    PROVE  /\ SubSeq(s, k + 1, Len(s)) \in Seq(Token)
           /\ Len(SubSeq(s, k + 1, Len(s))) = Len(s) - k
           /\ \A i \in 1 .. Len(s) - k : SubSeq(s, k + 1, Len(s))[i] = s[k + i]
<1>1. \A i \in k + 1 .. Len(s) : s[i] \in Token
  OBVIOUS
<1> QED BY <1>1, SubSeqProperties

\* What a read leaves of the line.
LEMMA ReadLeaves ==
    ASSUME line \in Seq(Token), NEW w \in {1, 2}, NEW r \in Read(w)
    PROVE  /\ r.rest \in Seq(Token)
           /\ \A k \in 1 .. Len(r.rest) :
                 r.rest[k] = Silence \/ \E j \in 1 .. Len(line) : r.rest[k] = line[j]
<1>1. \/ r.rest = <<Silence>>
      \/ \E k \in 1 .. Len(line) : r.rest = SubSeq(line, k + 1, Len(line))
  BY ReadOne, ReadTwo
<1>2. CASE r.rest = <<Silence>>
  BY <1>2, NamesAreTokens
<1>3. CASE \E k \in 1 .. Len(line) : r.rest = SubSeq(line, k + 1, Len(line))
  <2>1. PICK k \in 1 .. Len(line) : r.rest = SubSeq(line, k + 1, Len(line))
    BY <1>3
  <2>2. /\ r.rest \in Seq(Token) /\ Len(r.rest) = Len(line) - k
        /\ \A i \in 1 .. Len(line) - k : r.rest[i] = line[k + i]
    BY <2>1, Suffix
  <2>3. \A i \in 1 .. Len(line) - k : k + i \in 1 .. Len(line)
    OBVIOUS
  <2> QED BY <2>2, <2>3
<1> QED BY <1>1, <1>2, <1>3

\* The master's actions.
LEMMA SentByMaster == SentInv /\ Master => SentInv'
<1> SUFFICES ASSUME SentInv, Master PROVE SentInv'
  OBVIOUS
<1> USE DEF SentInv
<1>1. /\ rpc' \in {"addr", "wait", "header", "data", "footer", "reply"}
      /\ header' \in [type : Token, size : {Zero, One}]
      /\ data' \in {<<t>> : t \in Token}
      /\ stale' \in BOOLEAN
      /\ served' \in Seq(Heard \cup {Typed, Stale})
  <2>1. UNCHANGED <<rpc, header, data, stale, served>>
    BY DEF Master, SendToMe, SendToOther, TypeLetter, FallSilent, Lose, Sends, Puts
  <2> QED BY <2>1 DEF LinkKnown
<1>2. asked' \in BOOLEAN /\ upset' \in BOOLEAN
  BY DEF LinkKnown, Master, SendToMe, SendToOther, TypeLetter, FallSilent, Lose, Sends, Puts
<1>3. /\ line' \in Seq(Token) /\ SumsSent' /\ sent' \in Seq(ToMe \cup {Typed})
      /\ \A j \in 1 .. Len(sent) : \E i \in 1 .. Len(sent') : sent'[i] = sent[j]
  <2>1. line \in Seq(Token) /\ sent \in Seq(ToMe \cup {Typed})
    BY DEF LinkKnown
  <2>2. \A c \in ToMe \cup {Typed} :
           sent' = Append(sent, c) =>
              /\ sent' \in Seq(ToMe \cup {Typed})
              /\ \A j \in 1 .. Len(sent) : \E i \in 1 .. Len(sent') : sent'[i] = sent[j]
              /\ \E i \in 1 .. Len(sent') : sent'[i] = c
    BY <2>1
  <2>3. /\ Letter \in Token /\ Gap \in Token /\ Silence \in Token
        /\ \A c \in ToMe, half \in {1, 2} :
              Half(c, half) # Letter /\ Half(c, half) # Gap /\ Half(c, half) # Silence
    <3>1. ToMe \subseteq Heard
      BY NamesAreTokens DEF ToMe, Heard
    <3>2. \A c \in ToMe, half \in {1, 2} : Half(c, half) \notin Range(Named)
      BY <3>1, ChecksumAssumption DEF Half
    <3> QED BY <3>2, NamesAreTokens
  <2>4. CASE SendToMe
    <3>1. PICK c \in ToMe, gap \in {<<>>, <<Gap>>} : line' = line \o (Bytes(c) \o gap) /\ sent' = Append(sent, c)
      BY <2>4 DEF SendToMe, Sends, Puts
    <3>2. Bytes(c) \in Seq(Token) /\ gap \in Seq(Token)
      <4>1. gap \in Seq(Token)
        <5>1. <<>> \in Seq(Token) /\ <<Gap>> \in Seq(Token)
          BY <2>3, EmptySeq
        <5> QED BY <5>1
      <4>2. Bytes(c) \in Seq(Token)
        BY MessageTokens, MessageBytes, Zenon
      <4> QED BY <4>1, <4>2
    <3>3. /\ Bytes(c) \o gap \in Seq(Token) /\ Len(Bytes(c) \o gap) = Len(Bytes(c)) + Len(gap)
          /\ \A k \in 1 .. Len(Bytes(c)) + Len(gap) :
                (Bytes(c) \o gap)[k] = IF k <= Len(Bytes(c)) THEN Bytes(c)[k] ELSE gap[k - Len(Bytes(c))]
      BY <3>2, ConcatProperties
    <3>4. ASSUME NEW k \in 1 .. Len(Bytes(c) \o gap), NEW d \in ToMe, NEW half \in {1, 2},
                 (Bytes(c) \o gap)[k] = Half(d, half)
          PROVE  c = d
      <4>1. \A j \in 1 .. Len(gap) : gap[j] = Gap
        <5>1. CASE gap = <<>>
          BY <5>1
        <5>2. CASE gap = <<Gap>>
          BY <5>2
        <5> QED BY <3>1, <5>1, <5>2
      <4>2. CASE k <= Len(Bytes(c))
        BY <3>2, <3>3, <3>4, <4>2, MessageTokens
      <4>3. CASE ~(k <= Len(Bytes(c)))
        <5>1. k - Len(Bytes(c)) \in 1 .. Len(gap)
          BY <3>2, <3>3, <4>3
        <5> QED BY <2>3, <3>3, <3>4, <4>1, <4>3, <5>1
      <4> QED BY <4>2, <4>3
    <3>5. /\ sent' \in Seq(ToMe \cup {Typed})
          /\ \A j \in 1 .. Len(sent) : \E i \in 1 .. Len(sent') : sent'[i] = sent[j]
          /\ \E i \in 1 .. Len(sent') : sent'[i] = c
      BY <2>2, <3>1
    <3>6. line' = line \o (Bytes(c) \o gap) /\ Bytes(c) \o gap \in Seq(Token)
      BY <3>1, <3>3
    <3>7. \A k \in 1 .. Len(Bytes(c) \o gap), d \in ToMe, half \in {1, 2} :
             (Bytes(c) \o gap)[k] = Half(d, half) => \E j \in 1 .. Len(sent') : sent'[j] = d
      BY <3>4, <3>5
    <3> QED BY <3>5, <3>6, <3>7, SumsPut
  <2>5. CASE SendToOther
    <3>1. PICK c \in ToOther : line' = line \o (Bytes(c) \o <<Gap>>) /\ sent' = sent
      BY <2>5 DEF SendToOther, Sends, Puts
    <3>2. Bytes(c) \in Seq(Token) /\ <<Gap>> \in Seq(Token) /\ Len(<<Gap>>) = 1
      BY <2>3, MessageTokens
    <3>3. /\ Bytes(c) \o <<Gap>> \in Seq(Token) /\ Len(Bytes(c) \o <<Gap>>) = Len(Bytes(c)) + 1
          /\ \A k \in 1 .. Len(Bytes(c)) + 1 :
                (Bytes(c) \o <<Gap>>)[k] = IF k <= Len(Bytes(c)) THEN Bytes(c)[k] ELSE <<Gap>>[k - Len(Bytes(c))]
      BY <3>2, ConcatProperties
    <3>4. ASSUME NEW k \in 1 .. Len(Bytes(c) \o <<Gap>>), NEW d \in ToMe, NEW half \in {1, 2},
                 (Bytes(c) \o <<Gap>>)[k] = Half(d, half)
          PROVE  FALSE
      <4>1. CASE k <= Len(Bytes(c))
        BY <3>2, <3>3, <3>4, <4>1, MessageTokens
      <4>2. CASE ~(k <= Len(Bytes(c)))
        <5>1. k - Len(Bytes(c)) = 1
          BY <3>2, <3>3, <4>2
        <5> QED BY <2>3, <3>3, <3>4, <4>2, <5>1
      <4> QED BY <4>1, <4>2
    <3> QED BY <2>1, <3>1, <3>3, <3>4, SumsPut
  <2>6. CASE TypeLetter
    <3>1. line' = line \o <<Letter>> /\ sent' = Append(sent, Typed)
      BY <2>6 DEF TypeLetter, Sends, Puts
    <3>2. <<Letter>> \in Seq(Token) /\ \A k \in 1 .. Len(<<Letter>>) : <<Letter>>[k] = Letter
      BY <2>3
    <3> QED BY <2>2, <2>3, <3>1, <3>2, SumsPut
  <2>7. CASE FallSilent
    <3>1. line' = line \o <<Silence>> /\ sent' = sent
      BY <2>7 DEF FallSilent, Puts
    <3>2. <<Silence>> \in Seq(Token) /\ \A k \in 1 .. Len(<<Silence>>) : <<Silence>>[k] = Silence
      BY <2>3
    <3> QED BY <2>1, <2>3, <3>1, <3>2, SumsPut
  <2>8. CASE Lose
    <3>1. PICK a \in DOMAIN line, b \in DOMAIN line :
             a <= b /\ line' = SubSeq(line, 1, a - 1) \o SubSeq(line, b + 1, Len(line))
      BY <2>8 DEF Lose
    <3>2. sent' = sent
      BY <2>8 DEF Lose
    <3>3. a \in 1 .. Len(line) /\ b \in 1 .. Len(line) /\ Len(line) \in Nat
      BY <2>1
    <3> DEFINE p == SubSeq(line, 1, a - 1)
               q == SubSeq(line, b + 1, Len(line))
    <3>4. p \in Seq(Token) /\ Len(p) = a - 1 /\ \A i \in 1 .. a - 1 : p[i] = line[i]
      <4>1. \A i \in 1 .. a - 1 : line[i] \in Token
        BY <2>1, <3>3
      <4>2. a - 1 \in Int
        BY <3>3
      <4>3. /\ p \in Seq(Token) /\ Len(p) = (IF 1 <= a - 1 THEN (a - 1) - 1 + 1 ELSE 0)
            /\ \A i \in 1 .. (a - 1) - 1 + 1 : p[i] = line[1 + i - 1]
        BY <4>1, <4>2, SubSeqProperties
      <4> HIDE DEF p
      <4> QED BY <3>3, <4>3
    <3>5. q \in Seq(Token) /\ Len(q) = Len(line) - b /\ \A i \in 1 .. Len(line) - b : q[i] = line[b + i]
      <4>1. b \in 0 .. Len(line)
        BY <3>3
      <4> QED BY <2>1, <4>1, Suffix
    <3> HIDE DEF p, q
    <3>6. line' = p \o q
      BY <3>1 DEF p, q
    <3>7. /\ line' \in Seq(Token) /\ Len(line') = Len(p) + Len(q)
          /\ \A k \in 1 .. Len(p) + Len(q) : line'[k] = IF k <= Len(p) THEN p[k] ELSE q[k - Len(p)]
      BY <3>4, <3>5, <3>6, ConcatProperties
    <3>8. \A k \in 1 .. Len(line') : \E j \in 1 .. Len(line) : line'[k] = line[j]
      <4> TAKE k \in 1 .. Len(line')
      <4>0. k \in Int /\ 1 <= k /\ k <= Len(p) + Len(q)
        <5>1. Len(line') = Len(p) + Len(q)
          BY <3>7
        <5> QED BY <3>3, <3>4, <3>5, <5>1
      <4>1. CASE k <= Len(p)
        <5>1. k \in 1 .. a - 1
          BY <3>4, <4>0, <4>1
        <5>2. k \in 1 .. Len(line) /\ p[k] = line[k]
          BY <3>3, <3>4, <5>1
        <5>3. line'[k] = p[k]
          BY <3>3, <3>4, <3>5, <3>7, <4>0, <4>1
        <5> QED BY <5>2, <5>3
      <4>2. CASE ~(k <= Len(p))
        <5>1. k - Len(p) \in 1 .. Len(line) - b
          <6>1. Len(p) = a - 1 /\ Len(q) = Len(line) - b
            BY <3>4, <3>5
          <6>2. \A x, u, v, l \in Int :
                   ~(x <= u - 1) /\ x <= u - 1 + l - v => x - (u - 1) \in 1 .. l - v
            OBVIOUS
          <6>3. k \in Int /\ ~(k <= a - 1) /\ k <= a - 1 + Len(line) - b /\ a \in Int /\ b \in Int /\ Len(line) \in Int
            <7>1. a \in Int /\ b \in Int /\ Len(line) \in Int
              BY <3>3
            <7> QED BY <4>0, <4>2, <6>1, <7>1
          <6> QED BY <6>1, <6>2, <6>3
        <5>2. b + (k - Len(p)) \in 1 .. Len(line)
          BY <3>3, <5>1
        <5>3. line'[k] = q[k - Len(p)]
          BY <3>3, <3>4, <3>5, <3>7, <4>0, <4>2
        <5> QED BY <3>5, <5>1, <5>2, <5>3
      <4> QED BY <4>1, <4>2
    <3>9. SumsSent'
      BY <3>2, <3>8, SumsLeft
    <3> QED BY <2>1, <3>2, <3>7, <3>9
  <2> QED BY <2>4, <2>5, <2>6, <2>7, <2>8 DEF Master
<1>4. OnlySentIsServed'
  <2>1. UNCHANGED served
    BY DEF Master, SendToMe, SendToOther, TypeLetter, FallSilent, Lose, Sends, Puts
  <2>2. served \in Seq(Heard \cup {Typed, Stale}) /\ sent \in Seq(ToMe \cup {Typed})
    BY DEF LinkKnown
  <2>3. DOMAIN sent = 1 .. Len(sent) /\ DOMAIN sent' = 1 .. Len(sent')
    BY <1>3, <2>2
  <2>4. OnlySentIsServed
    OBVIOUS
  <2> QED BY <1>3, <2>1, <2>3, <2>4 DEF OnlySentIsServed
<1>5. LinkKnown'
  BY <1>1, <1>2, <1>3 DEF LinkKnown
<1> QED BY <1>3, <1>4, <1>5

\* The reads of a message: where their bytes come from.
LEMMA BytesRead ==
    ASSUME line \in Seq(Token), NEW w \in {1, 2}, NEW r \in Read(w)
    PROVE  /\ w = 1 => r.bytes = <<>> \/ \E t \in Token : r.bytes = <<t>>
           /\ w = 2 => \/ r.bytes = <<>>
                       \/ \E t \in Token : r.bytes = <<t>>
                       \/ \E t, u \in Token, j, k \in 1 .. Len(line) :
                             r.bytes = <<t, u>> /\ t = line[j] /\ u = line[k]
<1>1. \A k \in 1 .. Len(line) : line[k] \in Token
  OBVIOUS
<1>2. CASE w = 1
  <2>1. r \in Read(1)
    BY <1>2
  <2>2. r.bytes = <<>> \/ \E k \in 1 .. Len(line) : r.bytes = <<line[k]>>
    BY <2>1, ReadOne
  <2> QED BY <1>1, <1>2, <2>2
<1>3. CASE w = 2
  <2>1. r \in Read(2)
    BY <1>3
  <2>2. \/ r.bytes = <<>>
        \/ \E k \in 1 .. Len(line) : r.bytes = <<line[k]>>
        \/ \E j, k \in 1 .. Len(line) : r.bytes = <<line[j], line[k]>>
    BY <2>1, ReadTwo
  <2> QED BY <1>1, <1>3, <2>2
<1> QED BY <1>2, <1>3

\* The board's reads; what it serves from them is in ReadFooter.
LEMMA SentByReads ==
    SentInv /\ (ReadAddr \/ Resynchronise \/ WaitIdle \/ ReadHeader \/ ReadData \/ Reply) => SentInv'
<1> SUFFICES ASSUME SentInv, ReadAddr \/ Resynchronise \/ WaitIdle \/ ReadHeader \/ ReadData \/ Reply
             PROVE  SentInv'
  OBVIOUS
<1> USE DEF SentInv
<1>0. /\ line \in Seq(Token) /\ rpc \in {"addr", "wait", "header", "data", "footer", "reply"}
      /\ header \in [type : Token, size : {Zero, One}] /\ data \in {<<t>> : t \in Token}
      /\ stale \in BOOLEAN /\ asked \in BOOLEAN /\ upset \in BOOLEAN
      /\ sent \in Seq(ToMe \cup {Typed}) /\ served \in Seq(Heard \cup {Typed, Stale})
  BY DEF LinkKnown
<1>1. CASE Resynchronise
  <2>1. /\ line' = <<>> /\ sent' = <<>> /\ served' = <<>> /\ asked' = FALSE /\ upset' = FALSE
        /\ UNCHANGED <<rpc, header, data, stale>>
    BY <1>1 DEF Resynchronise
  <2>2. /\ line' \in Seq(Token) /\ sent' \in Seq(ToMe \cup {Typed})
        /\ served' \in Seq(Heard \cup {Typed, Stale})
    BY <2>1, EmptySeq
  <2>3. asked' \in BOOLEAN /\ upset' \in BOOLEAN
    BY <2>1
  <2>4. LinkKnown'
    BY <1>0, <2>1, <2>2, <2>3 DEF LinkKnown
  <2>5. SumsSent' /\ OnlySentIsServed'
    BY <2>1 DEF SumsSent, OnlySentIsServed
  <2> QED BY <2>4, <2>5
<1>2. CASE ReadAddr
  <2>1. line # <<>> /\ line' = Tail(line) /\ UNCHANGED <<header, data, sent, asked, upset>>
    BY <1>2 DEF ReadAddr
  <2>2. line' \in Seq(Token) /\ Len(line') = Len(line) - 1 /\ \A k \in 1 .. Len(line') : line'[k] = line[k + 1]
    BY <1>0, <2>1, HeadTailProperties
  <2>3. SumsSent'
    <3>1. \A k \in 1 .. Len(line') : k + 1 \in 1 .. Len(line)
      BY <1>0, <2>2
    <3> QED BY <2>1, <2>2, <3>1, SumsLeft
  <2>4. served' = served \/ served' = Append(served, Typed)
    BY <1>2 DEF ReadAddr
  <2>5. served' \in Seq(Heard \cup {Typed, Stale}) /\ OnlySentIsServed'
    <3>1. CASE served' = served
      BY <1>0, <2>1, <3>1 DEF OnlySentIsServed
    <3>2. CASE served' = Append(served, Typed)
      <4>1. /\ served' \in Seq(Heard \cup {Typed, Stale}) /\ DOMAIN served' = 1 .. Len(served) + 1
            /\ served'[Len(served) + 1] = Typed /\ \A k \in 1 .. Len(served) : served'[k] = served[k]
        BY <1>0, <3>2
      <4>2. DOMAIN served = 1 .. Len(served) /\ Len(served) \in Nat
        BY <1>0
      <4>3. \A k \in DOMAIN served' : k = Len(served) + 1 \/ k \in DOMAIN served
        BY <4>1, <4>2
      <4> QED BY <2>1, <4>1, <4>2, <4>3 DEF OnlySentIsServed
    <3> QED BY <2>4, <3>1, <3>2
  <2>6. rpc' \in {"addr", "wait", "header", "data", "footer", "reply"} /\ stale' \in BOOLEAN
    BY <1>0, <1>2 DEF ReadAddr, IgnoreMessage
  <2>7. LinkKnown'
    BY <1>0, <2>1, <2>2, <2>5, <2>6 DEF LinkKnown
  <2> QED BY <2>3, <2>5, <2>7
<1>3. CASE WaitIdle
  <2>1. PICK k \in DOMAIN line : line' = SubSeq(line, IF line[k] = Gap THEN k + 1 ELSE k, Len(line))
    BY <1>3 DEF WaitIdle
  <2>2. k \in 1 .. Len(line) /\ Len(line) \in Nat
    BY <1>0
  <2>3. \E j \in 0 .. Len(line) : line' = SubSeq(line, j + 1, Len(line))
    <3>1. CASE line[k] = Gap
      BY <2>1, <2>2, <3>1
    <3>2. CASE line[k] # Gap
      <4>1. k - 1 \in 0 .. Len(line) /\ (k - 1) + 1 = k
        BY <2>2
      <4> QED BY <2>1, <3>2, <4>1
    <3> QED BY <3>1, <3>2
  <2>4. PICK j \in 0 .. Len(line) : line' = SubSeq(line, j + 1, Len(line))
    BY <2>3
  <2>5. /\ line' \in Seq(Token) /\ Len(line') = Len(line) - j
        /\ \A i \in 1 .. Len(line) - j : line'[i] = line[j + i]
    BY <1>0, <2>4, Suffix
  <2>6. UNCHANGED <<header, data, stale, sent, served, asked, upset>> /\ rpc' = "addr"
    BY <1>3 DEF WaitIdle
  <2>7. SumsSent'
    <3>1. \A i \in 1 .. Len(line') : j + i \in 1 .. Len(line)
      BY <2>2, <2>5
    <3> QED BY <2>5, <2>6, <3>1, SumsLeft
  <2>8. LinkKnown' /\ OnlySentIsServed'
    BY <1>0, <2>5, <2>6 DEF LinkKnown, OnlySentIsServed
  <2> QED BY <2>7, <2>8
<1>4. CASE ReadHeader
  <2>1. PICK r \in Read(2) :
           /\ line' = r.rest
           /\ stale' = (r.bytes = <<>>)
           /\ IF ~Accepted(r, 2) THEN Fail
              ELSE IF r.bytes = <<>> THEN \E h \in StaleHeader : AfterHeader(h)
              ELSE AfterHeader([type |-> r.bytes[1], size |-> r.bytes[2]])
    BY <1>4 DEF ReadHeader
  <2>2. UNCHANGED <<sent, asked, upset>>
    BY <1>4 DEF ReadHeader
  <2>3. line' \in Seq(Token) /\ SumsSent'
    BY <1>0, <2>1, <2>2, ReadLeaves, SumsLeft
  <2>4. UNCHANGED <<data, served>>
    BY <2>1 DEF Fail, AfterHeader
  <2>5. rpc' \in {"addr", "wait", "header", "data", "footer", "reply"}
    BY <2>1 DEF Fail, AfterHeader
  <2>6. header' \in [type : Token, size : {Zero, One}]
    <3>1. ASSUME NEW h, AfterHeader(h), h \in [type : Token, size : Token]
          PROVE  header' \in [type : Token, size : {Zero, One}]
      <4>1. CASE h.size \in {Zero, One}
        BY <3>1, <4>1 DEF AfterHeader
      <4>2. CASE h.size \notin {Zero, One}
        BY <1>0, <3>1, <4>2 DEF AfterHeader, Fail
      <4> QED BY <4>1, <4>2
    <3>2. CASE ~Accepted(r, 2)
      BY <1>0, <2>1, <3>2 DEF Fail
    <3>3. CASE Accepted(r, 2) /\ r.bytes = <<>>
      <4>1. PICK h \in StaleHeader : AfterHeader(h)
        BY <2>1, <3>3
      <4>2. h \in [type : Token, size : Token]
        BY NamesAreTokens DEF StaleHeader
      <4> QED BY <3>1, <4>1, <4>2
    <3>4. CASE Accepted(r, 2) /\ r.bytes # <<>>
      <4>1. PICK t \in Token, u \in Token : r.bytes = <<t, u>>
        <5>1. \A t : Len(<<t>>) # 2 /\ Len(<<t>>) # 0
          OBVIOUS
        <5>2. ~ \E t \in Token : r.bytes = <<t>>
          BY <3>4, <5>1 DEF Accepted
        <5>3. \E t, u \in Token : r.bytes = <<t, u>>
          BY <1>0, <2>1, <3>4, <5>2, BytesRead
        <5> QED BY <5>3
      <4>2. AfterHeader([type |-> t, size |-> u])
        BY <2>1, <3>4, <4>1
      <4>3. [type |-> t, size |-> u] \in [type : Token, size : Token]
        OBVIOUS
      <4> QED BY <3>1, <4>2, <4>3
    <3> QED BY <3>2, <3>3, <3>4
  <2>7. stale' \in BOOLEAN
    BY <2>1
  <2>8. LinkKnown'
    BY <1>0, <2>2, <2>3, <2>4, <2>5, <2>6, <2>7 DEF LinkKnown
  <2>9. OnlySentIsServed'
    BY <2>2, <2>4 DEF OnlySentIsServed
  <2> QED BY <2>3, <2>8, <2>9
<1>5. CASE ReadData
  <2>1. PICK r \in Read(1) :
           /\ line' = r.rest
           /\ stale' = (stale \/ r.bytes = <<>>)
           /\ data' = IF r.bytes = <<>> THEN data ELSE r.bytes
           /\ rpc' = IF Accepted(r, 1) THEN "footer" ELSE "addr"
    BY <1>5 DEF ReadData
  <2>2. UNCHANGED <<header, sent, served, asked, upset>>
    BY <1>5 DEF ReadData
  <2>3. line' \in Seq(Token) /\ SumsSent'
    <3>1. /\ line' \in Seq(Token)
          /\ \A k \in 1 .. Len(line') :
                line'[k] = Silence \/ \E j \in 1 .. Len(line) : line'[k] = line[j]
      BY <1>0, <2>1, ReadLeaves
    <3>2. SumsSent'
      BY <1>0, <2>2, <3>1, SumsLeft
    <3> QED BY <3>1, <3>2
  <2>4. data' \in {<<t>> : t \in Token}
    <3>1. r.bytes = <<>> \/ \E t \in Token : r.bytes = <<t>>
      BY <1>0, <2>1, BytesRead
    <3> QED BY <1>0, <2>1, <3>1
  <2>5. stale' \in BOOLEAN /\ rpc' \in {"addr", "wait", "header", "data", "footer", "reply"}
    BY <2>1
  <2>6. LinkKnown'
    BY <1>0, <2>2, <2>3, <2>4, <2>5 DEF LinkKnown
  <2>7. OnlySentIsServed'
    BY <2>2 DEF OnlySentIsServed
  <2> QED BY <2>3, <2>6, <2>7
<1>6. CASE Reply
  <2>1. PICK j \in 0 .. Len(line) : line' = SubSeq(line, j + 1, Len(line))
    BY <1>6 DEF Reply
  <2>2. /\ line' \in Seq(Token) /\ Len(line') = Len(line) - j
        /\ \A i \in 1 .. Len(line) - j : line'[i] = line[j + i]
    BY <1>0, <2>1, Suffix
  <2>3. /\ UNCHANGED <<header, data, stale, sent, served, upset>>
        /\ rpc' = "addr" /\ asked' = FALSE
    BY <1>6 DEF Reply
  <2>4. SumsSent'
    <3>1. \A i \in 1 .. Len(line') : j + i \in 1 .. Len(line)
      BY <1>0, <2>2
    <3> QED BY <2>2, <2>3, <3>1, SumsLeft
  <2>5. LinkKnown' /\ OnlySentIsServed'
    BY <1>0, <2>2, <2>3 DEF LinkKnown, OnlySentIsServed
  <2> QED BY <2>4, <2>5
<1> QED BY <1>1, <1>2, <1>3, <1>4, <1>5, <1>6

\* What the board makes of a message.
LEMMA ReceivedIsHeard == LinkKnown => Received \in Heard /\ Received.addr = Me
<1> SUFFICES ASSUME LinkKnown PROVE Received \in Heard /\ Received.addr = Me
  OBVIOUS
<1>1. header.type \in Token
  BY DEF LinkKnown
<1>2. (IF header.size = Zero THEN <<>> ELSE data) \in {<<>>} \cup {<<b>> : b \in Token}
  BY DEF LinkKnown
<1>3. \A type \in Token, body \in {<<>>} \cup {<<b>> : b \in Token} : Content(Me, type, body) \in Heard
  BY DEF Heard
<1>4. Received \in Heard
  BY <1>1, <1>2, <1>3 DEF Received
<1>5. Received.addr = Me
  BY DEF Received, Content
<1> QED BY <1>4, <1>5

\* Only a message sent to this board has its checksum on the line.
LEMMA VerifiedIsSent ==
    ASSUME SentInv, NEW k \in 1 .. Len(line), line[k] = Half(Received, 1)
    PROVE  Received \in ToMe /\ \E j \in 1 .. Len(sent) : sent[j] = Received
<1> USE DEF SentInv
<1>1. Received \in Heard /\ Received.addr = Me
  BY ReceivedIsHeard
<1>2. line[k] \in Token
  BY DEF LinkKnown
<1>3. Half(Received, 1) \notin Range(Named)
  BY <1>1, ChecksumAssumption DEF Half
<1>4. PICK c \in ToMe \cup ToOther, half \in {1, 2} : Half(Received, 1) = Half(c, half)
  BY <1>2, <1>3 DEF Token, Half
<1>5. Received = c
  BY <1>4, HalvesDiffer
<1>6. c \in ToMe
  BY <1>1, <1>5, MessageBytes, NamesDiffer
<1>7. \E j \in 1 .. Len(sent) : sent[j] = Received
  BY <1>5, <1>6 DEF SumsSent
<1> QED BY <1>5, <1>6, <1>7

\* A message is served only after its whole checksum was read.
LEMMA SentByFooter == SentInv /\ ReadFooter => SentInv'
<1> SUFFICES ASSUME SentInv, ReadFooter PROVE SentInv'
  OBVIOUS
<1> USE DEF SentInv
<1>0. /\ line \in Seq(Token)
      /\ header \in [type : Token, size : {Zero, One}] /\ data \in {<<t>> : t \in Token}
      /\ stale \in BOOLEAN /\ asked \in BOOLEAN /\ upset \in BOOLEAN
      /\ sent \in Seq(ToMe \cup {Typed}) /\ served \in Seq(Heard \cup {Typed, Stale})
  BY DEF LinkKnown
<1>1. PICK r \in Read(2) :
         /\ line' = r.rest
         /\ stale' = (stale \/ r.bytes = <<>>)
         /\ \/ Accepted(r, 2) /\ Verified(r) /\ served' = Append(served, IF stale' THEN Stale ELSE Received)
            \/ UNCHANGED served
  BY DEF ReadFooter
<1>2. UNCHANGED <<header, data, sent, asked, upset>> /\ rpc' \in {"addr", "reply"}
  BY DEF ReadFooter
<1>3. line' \in Seq(Token) /\ SumsSent'
  BY <1>0, <1>1, <1>2, ReadLeaves, SumsLeft
<1>4. stale' \in BOOLEAN
  BY <1>1
<1>5. served' \in Seq(Heard \cup {Typed, Stale}) /\ OnlySentIsServed'
  <2>1. CASE UNCHANGED served
    BY <1>0, <1>2, <2>1 DEF OnlySentIsServed
  <2>2. CASE Verified(r) /\ served' = Append(served, IF stale' THEN Stale ELSE Received)
    <3> DEFINE m == IF stale' THEN Stale ELSE Received
    <3>1. m \in Heard \cup {Typed, Stale}
      BY ReceivedIsHeard
    <3>2. m = Stale \/ \E j \in DOMAIN sent : m = sent[j]
      <4>1. CASE stale'
        BY <4>1
      <4>2. CASE ~stale'
        <5>1. r.bytes # <<>>
          BY <1>0, <1>1, <4>2
        <5>2. r.bytes = <<Half(Received, 1), Half(Received, 2)>>
          BY <2>2, <5>1 DEF Verified, FootersFor, Footer, Half
        <5>3. \E k \in 1 .. Len(line) : line[k] = Half(Received, 1)
          <6>1. \/ \E t \in Token : r.bytes = <<t>>
                \/ \E t, u \in Token, j, k \in 1 .. Len(line) :
                      r.bytes = <<t, u>> /\ t = line[j] /\ u = line[k]
            BY <1>0, <1>1, <5>1, BytesRead
          <6>2. Len(r.bytes) = 2 /\ r.bytes[1] = Half(Received, 1)
            BY <5>2
          <6>3. \A t : Len(<<t>>) # 2
            OBVIOUS
          <6>4. \E t, u \in Token, j, k \in 1 .. Len(line) : r.bytes = <<t, u>> /\ t = line[j] /\ u = line[k]
            BY <6>1, <6>2, <6>3
          <6> QED BY <6>2, <6>4
        <5>4. \E j \in 1 .. Len(sent) : sent[j] = Received
          BY <5>3, VerifiedIsSent
        <5>5. DOMAIN sent = 1 .. Len(sent)
          BY <1>0
        <5> QED BY <4>2, <5>4, <5>5
      <4> QED BY <4>1, <4>2
    <3> HIDE DEF m
    <3>3. served' = Append(served, m)
      BY <2>2 DEF m
    <3>4. /\ served' \in Seq(Heard \cup {Typed, Stale}) /\ DOMAIN served' = 1 .. Len(served) + 1
          /\ served'[Len(served) + 1] = m /\ \A k \in 1 .. Len(served) : served'[k] = served[k]
      BY <1>0, <3>1, <3>3
    <3>5. DOMAIN served = 1 .. Len(served) /\ Len(served) \in Nat
      BY <1>0
    <3>6. \A k \in DOMAIN served' : k = Len(served) + 1 \/ k \in DOMAIN served
      BY <3>4, <3>5
    <3>7. OnlySentIsServed'
      <4>1. ASSUME NEW k \in DOMAIN served', served'[k] \notin {Typed, Stale}
            PROVE  \E j \in DOMAIN sent' : served'[k] = sent'[j]
        <5>1. CASE k = Len(served) + 1
          BY <1>2, <3>2, <3>4, <4>1, <5>1
        <5>2. CASE k \in DOMAIN served
          BY <1>2, <3>4, <3>5, <4>1, <5>2 DEF OnlySentIsServed
        <5> QED BY <3>6, <5>1, <5>2
      <4> QED BY <4>1 DEF OnlySentIsServed
    <3> QED BY <3>4, <3>7
  <2> QED BY <1>1, <2>1, <2>2
<1>6. LinkKnown'
  BY <1>0, <1>2, <1>3, <1>4, <1>5 DEF LinkKnown
<1> QED BY <1>3, <1>5, <1>6

\* Every step keeps the invariant.
LEMMA SentStep == SentInv /\ [LinkNext]_linkVars => SentInv'
<1> SUFFICES ASSUME SentInv, [LinkNext]_linkVars PROVE SentInv'
  OBVIOUS
<1>1. CASE LinkNext
  BY <1>1, SentByMaster, SentByReads, SentByFooter DEF LinkNext, Board
<1>2. CASE UNCHANGED linkVars
  BY <1>2 DEF linkVars, SentInv, LinkKnown, SumsSent, OnlySentIsServed
<1> QED BY <1>1, <1>2

\* No message in an envelope is served that the master did not send to this
\* board, but what a read completed without a byte, however the board has come
\* to read where no message begins (comm.c:87-128).
THEOREM OnlySent == LinkSpec => []OnlySentIsServed
<1>1. LinkSpec => []SentInv
  BY SentInit, SentStep, PTL DEF LinkSpec
<1>2. SentInv => OnlySentIsServed
  BY DEF SentInv
<1> QED BY <1>1, <1>2, PTL

(***************************************************************************)
(* In step                                                                 *)
(***************************************************************************)

\* s is a prefix of t.
Grows(s, t) == Len(s) <= Len(t) /\ \A k \in 1 .. Len(s) : t[k] = s[k]

\* Numbers of messages, by place of the line.
Counts == [Nat -> Nat]

\* The places of the line where one of its pieces stands: B are the places between pieces,
\* and f counts the messages m to this board before each.
Chunks(s, m, B, f) ==
  { b \in Nat :
    \/ /\ s[b + 1] = Me /\ s[b + 2] = PING /\ s[b + 3] = Zero
       /\ s[b + 4] = Half(Ping, 1) /\ s[b + 5] = Half(Ping, 2)
       /\ b + 5 \in B /\ f[b + 5] = f[b] + 1 /\ m[f[b] + 1] = Ping
    \/ /\ s[b + 1] = Me /\ s[b + 2] = SETPOINT /\ s[b + 3] = One /\ s[b + 4] = Letter
       /\ s[b + 5] = Half(Set, 1) /\ s[b + 6] = Half(Set, 2)
       /\ b + 6 \in B /\ f[b + 6] = f[b] + 1 /\ m[f[b] + 1] = Set
    \/ /\ s[b + 1] = Other /\ \A j \in 2 .. 6 : IsByte(s[b + j])
       /\ s[b + 7] = Gap
       /\ b + 7 \in B /\ f[b + 7] = f[b]
    \/ /\ s[b + 1] = Letter
       /\ b + 1 \in B /\ f[b + 1] = f[b] + 1 /\ m[f[b] + 1] = Typed
    \/ /\ s[b + 1] \in Idle
       /\ b + 1 \in B /\ f[b + 1] = f[b] }

\* The line s is cut into pieces that hold the messages m between them.
Framing(s, m, B, f) ==
    /\ B \subseteq 0 .. Len(s) /\ Len(s) \in B /\ f[Len(s)] = Len(m)
    /\ \A b \in B : f[b] <= Len(m)
    /\ \A b \in B : b # Len(s) => b \in Chunks(s, m, B, f)

\* What stands after place c of s stands after place b of t.
Alike(s, m, B, f, c, t, w, C, g, b) ==
    /\ b \in Nat /\ c \in Nat /\ g[b] = f[c]
    /\ \A j \in 1 .. 7 : c + j \in B =>
          /\ b + j \in C /\ g[b + j] = f[c + j]
          /\ \A i \in 1 .. j : t[b + i] = s[c + i]
          /\ f[c + j] = f[c] + 1 => w[f[c] + 1] = m[f[c] + 1]

\* What stands alike is a piece alike.
LEMMA ChunkMoves ==
    ASSUME NEW s, NEW t, NEW m, NEW w, NEW B, NEW C, NEW f, NEW g, NEW b, NEW c,
           Alike(s, m, B, f, c, t, w, C, g, b), c \in Chunks(s, m, B, f)
    PROVE  b \in Chunks(t, w, C, g)
<1> USE DEF Alike
<1>1. CASE /\ s[c + 1] = Me /\ s[c + 2] = PING /\ s[c + 3] = Zero
           /\ s[c + 4] = Half(Ping, 1) /\ s[c + 5] = Half(Ping, 2)
           /\ c + 5 \in B /\ f[c + 5] = f[c] + 1 /\ m[f[c] + 1] = Ping
  <2>1. /\ b + 5 \in C /\ g[b + 5] = g[b] + 1 /\ w[g[b] + 1] = Ping
        /\ \A i \in 1 .. 5 : t[b + i] = s[c + i]
    BY <1>1
  <2>2. /\ t[b + 1] = s[c + 1] /\ t[b + 2] = s[c + 2] /\ t[b + 3] = s[c + 3]
        /\ t[b + 4] = s[c + 4] /\ t[b + 5] = s[c + 5]
    BY <2>1
  <2> QED BY <1>1, <2>1, <2>2 DEF Chunks
<1>2. CASE /\ s[c + 1] = Me /\ s[c + 2] = SETPOINT /\ s[c + 3] = One /\ s[c + 4] = Letter
           /\ s[c + 5] = Half(Set, 1) /\ s[c + 6] = Half(Set, 2)
           /\ c + 6 \in B /\ f[c + 6] = f[c] + 1 /\ m[f[c] + 1] = Set
  <2>1. /\ b + 6 \in C /\ g[b + 6] = g[b] + 1 /\ w[g[b] + 1] = Set
        /\ \A i \in 1 .. 6 : t[b + i] = s[c + i]
    BY <1>2
  <2>2. /\ t[b + 1] = s[c + 1] /\ t[b + 2] = s[c + 2] /\ t[b + 3] = s[c + 3]
        /\ t[b + 4] = s[c + 4] /\ t[b + 5] = s[c + 5] /\ t[b + 6] = s[c + 6]
    BY <2>1
  <2> QED BY <1>2, <2>1, <2>2 DEF Chunks
<1>3. CASE /\ s[c + 1] = Other /\ \A j \in 2 .. 6 : IsByte(s[c + j])
           /\ s[c + 7] = Gap
           /\ c + 7 \in B /\ f[c + 7] = f[c]
  <2>1. b + 7 \in C /\ g[b + 7] = g[b] /\ \A i \in 1 .. 7 : t[b + i] = s[c + i]
    BY <1>3
  <2>2. t[b + 1] = s[c + 1] /\ t[b + 7] = s[c + 7] /\ \A j \in 2 .. 6 : t[b + j] = s[c + j]
    BY <2>1
  <2> QED BY <1>3, <2>1, <2>2 DEF Chunks
<1>4. CASE /\ s[c + 1] = Letter
           /\ c + 1 \in B /\ f[c + 1] = f[c] + 1 /\ m[f[c] + 1] = Typed
  <2>1. b + 1 \in C /\ g[b + 1] = g[b] + 1 /\ w[g[b] + 1] = Typed /\ t[b + 1] = s[c + 1]
    BY <1>4
  <2> QED BY <1>4, <2>1 DEF Chunks
<1>5. CASE s[c + 1] \in Idle /\ c + 1 \in B /\ f[c + 1] = f[c]
  <2>1. b + 1 \in C /\ g[b + 1] = g[b] /\ t[b + 1] = s[c + 1]
    BY <1>5
  <2> QED BY <1>5, <2>1 DEF Chunks
<1> QED BY <1>1, <1>2, <1>3, <1>4, <1>5 DEF Chunks

\* A piece stays where it is when the line and the messages sent grow.
LEMMA ChunkStays ==
    ASSUME NEW s \in Seq(Token), NEW t \in Seq(Token), Grows(s, t),
           NEW m \in Seq(ToMe \cup {Typed}), NEW w \in Seq(ToMe \cup {Typed}), Grows(m, w),
           NEW B \in SUBSET Nat, NEW C \in SUBSET Nat, B \subseteq C,
           NEW f \in Counts, NEW g \in Counts, \A b \in B : g[b] = f[b],
           B \subseteq 0 .. Len(s), \A b \in B : f[b] <= Len(m),
           NEW b \in B, b \in Chunks(s, m, B, f)
    PROVE  b \in Chunks(t, w, C, g)
<1>1. \A k \in 1 .. 7 : b + k \in B =>
         /\ b + k \in C /\ g[b + k] = f[b + k]
         /\ \A j \in 1 .. k : t[b + j] = s[b + j]
         /\ f[b + k] = f[b] + 1 => w[f[b] + 1] = m[f[b] + 1]
  <2> TAKE k \in 1 .. 7
  <2> HAVE b + k \in B
  <2>1. b + k <= Len(s) /\ b \in Nat /\ Len(s) \in Nat
    OBVIOUS
  <2>2. \A j \in 1 .. k : b + j \in 1 .. Len(s)
    BY <2>1
  <2>3. \A j \in 1 .. k : t[b + j] = s[b + j]
    BY <2>2 DEF Grows
  <2>4. ASSUME f[b + k] = f[b] + 1 PROVE w[f[b] + 1] = m[f[b] + 1]
    <3>1. f[b] \in Nat
      BY <2>1 DEF Counts
    <3>2. f[b] + 1 <= Len(m) /\ Len(m) \in Nat
      BY <2>1, <2>4
    <3>3. f[b] + 1 \in 1 .. Len(m)
      BY <3>1, <3>2
    <3> QED BY <3>3 DEF Grows
  <2> QED BY <2>3, <2>4
<1>2. g[b] = f[b] /\ b \in Nat
  OBVIOUS
<1>3. Alike(s, m, B, f, b, t, w, C, g, b)
  BY <1>1, <1>2 DEF Alike
<1> QED BY <1>3, ChunkMoves

\* The places of s and one more, the end of t.
More(t, w, B, f, C, g) ==
    /\ C \in SUBSET Nat /\ g \in Counts
    /\ B \subseteq C /\ Len(t) \in C /\ \A b \in C : b \in B \/ b = Len(t)
    /\ \A b \in B : g[b] = f[b]
    /\ g[Len(t)] = Len(w)

\* A place can be added at the end.
LEMMA MorePlaces ==
    ASSUME NEW t \in Seq(Token), NEW w \in Seq(ToMe \cup {Typed}),
           NEW B \in SUBSET Nat, NEW f \in Counts, Len(t) \notin B
    PROVE  \E C, g : More(t, w, B, f, C, g)
<1> DEFINE C == B \cup {Len(t)}
           g == [f EXCEPT ![Len(t)] = Len(w)]
<1>1. Len(t) \in Nat /\ Len(w) \in Nat
  OBVIOUS
<1>2. C \in SUBSET Nat /\ B \subseteq C /\ Len(t) \in C /\ \A b \in C : b \in B \/ b = Len(t)
  BY <1>1
<1>3. g \in Counts /\ g[Len(t)] = Len(w)
  BY <1>1 DEF Counts
<1>4. \A b \in B : g[b] = f[b]
  BY DEF Counts
<1> HIDE DEF C, g
<1>5. More(t, w, B, f, C, g)
  BY <1>2, <1>3, <1>4 DEF More
<1> QED BY <1>5

\* A message more on the line.
LEMMA FrameGrows ==
    ASSUME NEW s \in Seq(Token), NEW t \in Seq(Token), Grows(s, t), Len(s) < Len(t),
           NEW m \in Seq(ToMe \cup {Typed}), NEW w \in Seq(ToMe \cup {Typed}), Grows(m, w),
           NEW B \in SUBSET Nat, NEW f \in Counts, Framing(s, m, B, f),
           NEW C, NEW g, More(t, w, B, f, C, g), Len(s) \in Chunks(t, w, C, g)
    PROVE  Framing(t, w, C, g)
<1>0. /\ C \in SUBSET Nat /\ g \in Counts
      /\ B \subseteq C /\ Len(t) \in C /\ \A b \in C : b \in B \/ b = Len(t)
      /\ \A b \in B : g[b] = f[b]
      /\ g[Len(t)] = Len(w)
  BY DEF More
<1>1. Len(s) \in Nat /\ Len(t) \in Nat /\ Len(m) \in Nat /\ Len(w) \in Nat /\ Len(m) <= Len(w)
  BY DEF Grows
<1>2. B \subseteq 0 .. Len(s) /\ Len(s) \in B /\ f[Len(s)] = Len(m) /\ \A b \in B : f[b] <= Len(m)
  BY DEF Framing
<1>3. C \subseteq 0 .. Len(t)
  <2>1. Len(s) <= Len(t)
    BY DEF Grows
  <2>2. 0 .. Len(s) \subseteq 0 .. Len(t) /\ Len(t) \in 0 .. Len(t)
    BY <1>1, <2>1
  <2> QED BY <1>0, <1>2, <2>2
<1>4. \A b \in C : g[b] <= Len(w)
  <2> TAKE b \in C
  <2>1. CASE b = Len(t)
    BY <1>0, <1>1, <2>1
  <2>2. CASE b \in B
    <3>1. g[b] = f[b] /\ f[b] <= Len(m) /\ f[b] \in Nat
      BY <1>0, <1>2, <2>2 DEF Counts
    <3> QED BY <1>1, <3>1
  <2> QED BY <1>0, <2>1, <2>2
<1>5. ASSUME NEW b \in B, b # Len(s) PROVE b \in Chunks(t, w, C, g)
  <2>1. b \in Chunks(s, m, B, f)
    BY <1>5 DEF Framing
  <2>2. B \subseteq 0 .. Len(s) /\ \A a \in B : f[a] <= Len(m)
    BY <1>2
  <2> QED BY <1>0, <2>1, <2>2, ChunkStays
<1>6. \A b \in C : b # Len(t) => b \in Chunks(t, w, C, g)
  BY <1>0, <1>5
<1> QED BY <1>0, <1>3, <1>4, <1>6 DEF Framing

\* The line without its first places.
LEMMA FrameDrops ==
    ASSUME NEW s \in Seq(Token), NEW k \in 0 .. Len(s), NEW t, t = SubSeq(s, k + 1, Len(s)),
           NEW m \in Seq(ToMe \cup {Typed}),
           NEW B \in SUBSET Nat, NEW f \in Counts, Framing(s, m, B, f),
           NEW C \in SUBSET Nat, NEW g \in Counts,
           \A b \in Nat : b \in C <=> k + b \in B,
           \A b \in Nat : g[b] = f[k + b]
    PROVE  Framing(t, m, C, g)
<1>1. /\ t \in Seq(Token) /\ Len(t) = Len(s) - k
      /\ \A i \in 1 .. Len(s) - k : t[i] = s[k + i]
  BY Suffix
<1>2. Len(s) \in Nat /\ k \in Nat /\ k <= Len(s) /\ Len(t) \in Nat /\ k + Len(t) = Len(s)
  BY <1>1
<1>3. B \subseteq 0 .. Len(s) /\ Len(s) \in B /\ f[Len(s)] = Len(m) /\ \A b \in B : f[b] <= Len(m)
  BY DEF Framing
<1>4. \A b \in C : k + b \in B /\ g[b] = f[k + b] /\ b \in Nat
  OBVIOUS
<1>5. C \subseteq 0 .. Len(t)
  <2>1. ASSUME NEW b \in C PROVE b \in 0 .. Len(t)
    <3>1. k + b <= Len(s) /\ b \in Nat
      BY <1>2, <1>3, <1>4
    <3> QED BY <1>2, <3>1
  <2> QED BY <2>1
<1>6. Len(t) \in C /\ g[Len(t)] = Len(m)
  BY <1>2, <1>3
<1>7. \A b \in C : g[b] <= Len(m)
  BY <1>3, <1>4
<1>8. ASSUME NEW b \in C, b # Len(t) PROVE b \in Chunks(t, m, C, g)
  <2>1. b \in Nat /\ k + b \in B /\ g[b] = f[k + b] /\ k + b # Len(s) /\ k + b \in Nat
    BY <1>2, <1>4, <1>8
  <2>2. PICK c : c = k + b
    OBVIOUS
  <2>3. b \in Nat /\ c \in Nat /\ c \in B /\ g[b] = f[c] /\ c \in Chunks(s, m, B, f)
    BY <2>1, <2>2 DEF Framing
  <2>4. \A j \in 1 .. 7 : c + j \in B =>
           /\ b + j \in C /\ g[b + j] = f[c + j]
           /\ \A i \in 1 .. j : t[b + i] = s[c + i]
           /\ f[c + j] = f[c] + 1 => m[f[c] + 1] = m[f[c] + 1]
    <3> TAKE j \in 1 .. 7
    <3> HAVE c + j \in B
    <3>1. c + j = k + (b + j) /\ b + j \in Nat
      BY <1>2, <2>2, <2>3
    <3>2. b + j \in C /\ g[b + j] = f[c + j]
      BY <3>1
    <3>3. c + j <= Len(s)
      BY <1>2, <1>3, <2>3
    <3>4. \A i \in 1 .. j : b + i \in 1 .. Len(s) - k /\ k + (b + i) = c + i
      BY <1>2, <2>2, <2>3, <3>3
    <3>5. \A i \in 1 .. j : t[b + i] = s[c + i]
      BY <1>1, <3>4
    <3> QED BY <3>2, <3>5
  <2>5. Alike(s, m, B, f, c, t, m, C, g, b)
    BY <2>3, <2>4 DEF Alike
  <2> QED BY <2>3, <2>5, ChunkMoves
<1> QED BY <1>5, <1>6, <1>7, <1>8 DEF Framing

\* The places can be counted from a later one.
LEMMA FewerPlaces ==
    \A B \in SUBSET Nat, f \in Counts, k \in Nat :
       \E C \in SUBSET Nat, g \in Counts :
          \A b \in Nat : (b \in C <=> k + b \in B) /\ g[b] = f[k + b]
<1> TAKE B \in SUBSET Nat, f \in Counts, k \in Nat
<1> DEFINE C == {b \in Nat : k + b \in B}
           g == [b \in Nat |-> f[k + b]]
<1>1. C \in SUBSET Nat /\ \A b \in Nat : b \in C <=> k + b \in B
  OBVIOUS
<1>2. \A b \in Nat : f[k + b] \in Nat
  <2>1. \A b \in Nat : k + b \in Nat
    OBVIOUS
  <2> QED BY <2>1 DEF Counts
<1>3. g \in Counts
  BY <1>2 DEF Counts
<1>4. \A b \in Nat : g[b] = f[k + b]
  OBVIOUS
<1> HIDE DEF C, g
<1> QED BY <1>1, <1>3, <1>4

\* The message c is the next to be served, and ends at place k.
Due(B, f, k, c) == k \in B /\ f[k] = Len(served) + 1 /\ sent[Len(served) + 1] = c

\* Where the board is in the message it reads.
Ahead(B, f) ==
    /\ rpc \in {"addr", "reply"} => 0 \in B /\ f[0] = Len(served)
    /\ rpc = "wait" => \E k \in B : /\ k > 0 /\ line[k] = Gap /\ f[k] = Len(served)
                                   /\ \A j \in 1 .. k - 1 : IsByte(line[j])
    /\ rpc = "header" =>
          \/ /\ line[1] = PING /\ line[2] = Zero
             /\ line[3] = Half(Ping, 1) /\ line[4] = Half(Ping, 2) /\ Due(B, f, 4, Ping)
          \/ /\ line[1] = SETPOINT /\ line[2] = One /\ line[3] = Letter
             /\ line[4] = Half(Set, 1) /\ line[5] = Half(Set, 2) /\ Due(B, f, 5, Set)
    /\ rpc = "data" =>
          /\ header = [type |-> SETPOINT, size |-> One] /\ ~stale
          /\ line[1] = Letter /\ line[2] = Half(Set, 1) /\ line[3] = Half(Set, 2) /\ Due(B, f, 3, Set)
    /\ rpc = "footer" =>
          /\ Received \in ToMe /\ ~stale
          /\ line[1] = Half(Received, 1) /\ line[2] = Half(Received, 2) /\ Due(B, f, 2, Received)

\* The i-th message is answered, and its answer has not ended.
Pending(i) ==
    \/ i > Len(served) /\ sent[i].type \in Answered
    \/ rpc = "reply" /\ i = Len(served)

\* Nothing but idle time follows a message until its answer has ended.
Waits(B, f) ==
    \A b \in B : Pending(f[b]) => \A k \in b .. Len(line) : k \in B /\ f[k] = f[b]

\* The master knows of the answers to come.
AskedFor == \A i \in 0 .. Len(sent) : Pending(i) => asked

\* As long as nothing is lost the board reads what is framed.
InFrame ==
    ~upset => /\ Grows(served, sent) /\ AskedFor
              /\ \E B \in SUBSET Nat, f \in Counts :
                    Framing(line, sent, B, f) /\ Ahead(B, f) /\ Waits(B, f)

\* What holds as long as nothing is lost.
StepInv == SentInv /\ InFrame

\* What the board reads next does not change when the line grows.
LEMMA AheadStays ==
    ASSUME line \in Seq(Token), line' \in Seq(Token), Grows(line, line'),
           sent \in Seq(ToMe \cup {Typed}), sent' \in Seq(ToMe \cup {Typed}), Grows(sent, sent'),
           Len(served) \in Nat,
           UNCHANGED <<rpc, header, data, stale, served>>,
           NEW B \in SUBSET Nat, NEW f \in Counts, Framing(line, sent, B, f), Ahead(B, f),
           NEW C \in SUBSET Nat, NEW g \in Counts, B \subseteq C, \A b \in B : g[b] = f[b]
    PROVE  Ahead(C, g)'
<1>1. \A b \in B : /\ b \in C /\ g[b] = f[b]
                   /\ \A i \in 1 .. b : line'[i] = line[i]
                   /\ f[b] = Len(served) + 1 => sent'[Len(served) + 1] = sent[Len(served) + 1]
  <2> TAKE b \in B
  <2>1. b \in 0 .. Len(line) /\ f[b] <= Len(sent)
    BY DEF Framing
  <2>2. \A i \in 1 .. b : i \in 1 .. Len(line)
    BY <2>1
  <2>3. \A i \in 1 .. b : line'[i] = line[i]
    BY <2>2 DEF Grows
  <2>4. ASSUME f[b] = Len(served) + 1 PROVE sent'[Len(served) + 1] = sent[Len(served) + 1]
    <3>1. Len(served) + 1 \in 1 .. Len(sent)
      BY <2>1, <2>4
    <3> QED BY <3>1 DEF Grows
  <2> QED BY <2>3, <2>4
<1>2. \A k \in B : \A c : Due(B, f, k, c) => Due(C, g, k, c)'
  BY <1>1 DEF Due
<1>3. ASSUME rpc' \in {"addr", "reply"} PROVE 0 \in C /\ g[0] = Len(served')
  BY <1>1, <1>3 DEF Ahead
<1>4. ASSUME rpc' = "wait"
      PROVE  \E k \in C : /\ k > 0 /\ line'[k] = Gap /\ g[k] = Len(served')
                          /\ \A j \in 1 .. k - 1 : IsByte(line'[j])
  <2>1. PICK k \in B : /\ k > 0 /\ line[k] = Gap /\ f[k] = Len(served)
                       /\ \A j \in 1 .. k - 1 : IsByte(line[j])
    BY <1>4 DEF Ahead
  <2>2. k \in 1 .. k /\ \A j \in 1 .. k - 1 : j \in 1 .. k
    BY <2>1
  <2>3. k \in C /\ line'[k] = Gap /\ g[k] = Len(served') /\ \A j \in 1 .. k - 1 : line'[j] = line[j]
    BY <1>1, <2>1, <2>2
  <2> QED BY <2>1, <2>3
<1>5. ASSUME rpc' = "header"
      PROVE  \/ /\ line'[1] = PING /\ line'[2] = Zero
                /\ line'[3] = Half(Ping, 1) /\ line'[4] = Half(Ping, 2) /\ Due(C, g, 4, Ping)'
             \/ /\ line'[1] = SETPOINT /\ line'[2] = One /\ line'[3] = Letter
                /\ line'[4] = Half(Set, 1) /\ line'[5] = Half(Set, 2) /\ Due(C, g, 5, Set)'
  <2>1. CASE /\ line[1] = PING /\ line[2] = Zero
             /\ line[3] = Half(Ping, 1) /\ line[4] = Half(Ping, 2) /\ Due(B, f, 4, Ping)
    <3>1. 4 \in B
      BY <2>1 DEF Due
    <3>2. /\ line'[1] = line[1] /\ line'[2] = line[2] /\ line'[3] = line[3] /\ line'[4] = line[4]
      BY <1>1, <3>1
    <3>3. Due(C, g, 4, Ping)'
      BY <1>2, <2>1, <3>1
    <3> QED BY <2>1, <3>2, <3>3
  <2>2. CASE /\ line[1] = SETPOINT /\ line[2] = One /\ line[3] = Letter
             /\ line[4] = Half(Set, 1) /\ line[5] = Half(Set, 2) /\ Due(B, f, 5, Set)
    <3>1. 5 \in B
      BY <2>2 DEF Due
    <3>2. /\ line'[1] = line[1] /\ line'[2] = line[2] /\ line'[3] = line[3] /\ line'[4] = line[4]
          /\ line'[5] = line[5]
      BY <1>1, <3>1
    <3>3. Due(C, g, 5, Set)'
      BY <1>2, <2>2, <3>1
    <3> QED BY <2>2, <3>2, <3>3
  <2> QED BY <1>5, <2>1, <2>2 DEF Ahead
<1>6. ASSUME rpc' = "data"
      PROVE  /\ header' = [type |-> SETPOINT, size |-> One] /\ ~stale'
             /\ line'[1] = Letter /\ line'[2] = Half(Set, 1) /\ line'[3] = Half(Set, 2) /\ Due(C, g, 3, Set)'
  <2>1. /\ header = [type |-> SETPOINT, size |-> One] /\ ~stale
        /\ line[1] = Letter /\ line[2] = Half(Set, 1) /\ line[3] = Half(Set, 2) /\ Due(B, f, 3, Set)
    BY <1>6 DEF Ahead
  <2>2. 3 \in B
    BY <2>1 DEF Due
  <2>3. line'[1] = line[1] /\ line'[2] = line[2] /\ line'[3] = line[3]
    <3>1. \A i \in 1 .. 3 : line'[i] = line[i]
      BY <1>1, <2>2
    <3> QED BY <3>1
  <2>4. Due(C, g, 3, Set)'
    BY <1>2, <2>1, <2>2
  <2> QED BY <2>1, <2>3, <2>4
<1>7. ASSUME rpc' = "footer"
      PROVE  /\ Received' \in ToMe /\ ~stale'
             /\ line'[1] = Half(Received', 1) /\ line'[2] = Half(Received', 2) /\ Due(C, g, 2, Received)'
  <2>1. /\ Received \in ToMe /\ ~stale
        /\ line[1] = Half(Received, 1) /\ line[2] = Half(Received, 2) /\ Due(B, f, 2, Received)
    BY <1>7 DEF Ahead
  <2>2. 2 \in B
    BY <2>1 DEF Due
  <2>3. /\ line'[1] = line[1] /\ line'[2] = line[2]
    BY <1>1, <2>2
  <2>4. Received' = Received
    BY DEF Received
  <2>5. Due(C, g, 2, Received)'
    BY <1>1, <2>1, <2>2, <2>4 DEF Due
  <2> QED BY <2>1, <2>3, <2>4, <2>5
<1> QED BY <1>3, <1>4, <1>5, <1>6, <1>7 DEF Ahead

\* A sequence with another one after it.
LEMMA GrowsByConcat ==
    ASSUME NEW S, NEW s \in Seq(S), NEW u \in Seq(S)
    PROVE  /\ s \o u \in Seq(S) /\ Grows(s, s \o u) /\ Len(s \o u) = Len(s) + Len(u)
           /\ \A k \in 1 .. Len(u) : (s \o u)[Len(s) + k] = u[k]
<1>1. /\ s \o u \in Seq(S) /\ Len(s \o u) = Len(s) + Len(u)
      /\ \A k \in 1 .. Len(s) + Len(u) : (s \o u)[k] = IF k <= Len(s) THEN s[k] ELSE u[k - Len(s)]
  BY ConcatProperties
<1>2. Len(s) \in Nat /\ Len(u) \in Nat
  OBVIOUS
<1>3. \A k \in 1 .. Len(s) : (s \o u)[k] = s[k]
  BY <1>1, <1>2
<1>4. \A k \in 1 .. Len(u) : (s \o u)[Len(s) + k] = u[k]
  <2> TAKE k \in 1 .. Len(u)
  <2>1. Len(s) + k \in 1 .. Len(s) + Len(u) /\ ~(Len(s) + k <= Len(s)) /\ (Len(s) + k) - Len(s) = k
    BY <1>2
  <2> QED BY <1>1, <2>1
<1>5. Len(s) <= Len(s \o u)
  BY <1>1, <1>2
<1> QED BY <1>1, <1>3, <1>4, <1>5 DEF Grows

\* t is s with u after it.
Added(s, u, t) ==
    /\ t \in Seq(Token) /\ Grows(s, t) /\ Len(t) = Len(s) + Len(u)
    /\ \A k \in 1 .. Len(u) : t[Len(s) + k] = u[k]

\* A concatenation adds its second part.
LEMMA ConcatAdds ==
    ASSUME NEW s \in Seq(Token), NEW u \in Seq(Token)
    PROVE  Added(s, u, s \o u)
BY GrowsByConcat DEF Added

\* A piece of the line, with the message to this board it may be.
Piece(u, m, w) ==
    \/ /\ \/ Len(u) = 5 /\ w = Append(m, Ping) /\ u = Bytes(Ping)
          \/ Len(u) = 6 /\ w = Append(m, Set) /\ u = Bytes(Set)
          \/ Len(u) = 1 /\ w = Append(m, Typed) /\ u = <<Letter>>
    \/ /\ w = m
       /\ \/ Len(u) = 1 /\ u[1] \in Idle
          \/ Len(u) = 7 /\ u[1] = Other /\ u[7] = Gap /\ \A j \in 2 .. 6 : IsByte(u[j])

\* One more piece.
LEMMA FrameAdds ==
    ASSUME NEW s \in Seq(Token), NEW u \in Seq(Token), NEW t, Added(s, u, t),
           NEW m \in Seq(ToMe \cup {Typed}), NEW w \in Seq(ToMe \cup {Typed}), Grows(m, w),
           Piece(u, m, w),
           NEW B \in SUBSET Nat, NEW f \in Counts, Framing(s, m, B, f)
    PROVE  \E C, g : More(t, w, B, f, C, g) /\ Framing(t, w, C, g)
<1>0. t \in Seq(Token) /\ Grows(s, t) /\ Len(u) > 0
  <2>1. t \in Seq(Token) /\ Grows(s, t)
    BY DEF Added
  <2>2. Len(u) = 5 \/ Len(u) = 6 \/ Len(u) = 1 \/ Len(u) = 7
    BY Zenon DEF Piece
  <2>3. \A x : x = 5 \/ x = 6 \/ x = 1 \/ x = 7 => x > 0
    OBVIOUS
  <2>4. Len(u) > 0
    BY <2>2, <2>3, Zenon
  <2> QED BY <2>1, <2>4
<1>1. Len(t) = Len(s) + Len(u) /\ \A k \in 1 .. Len(u) : t[Len(s) + k] = u[k]
  BY DEF Added
<1>2. Len(s) \in Nat /\ Len(t) \in Nat /\ Len(m) \in Nat /\ Len(w) \in Nat /\ Len(s) < Len(t)
  BY <1>0, <1>1
<1>3. B \subseteq 0 .. Len(s) /\ Len(s) \in B /\ f[Len(s)] = Len(m)
  BY DEF Framing
<1>4. Len(t) \notin B
  BY <1>2, <1>3
<1>a. PICK C, g : More(t, w, B, f, C, g)
  BY <1>0, <1>4, MorePlaces
<1>5. /\ C \in SUBSET Nat /\ g \in Counts
      /\ B \subseteq C /\ Len(t) \in C /\ \A b \in B : g[b] = f[b]
      /\ g[Len(t)] = Len(w)
  BY <1>a DEF More
<1>6. g[Len(s)] = Len(m)
  BY <1>3, <1>5
<1>7. Len(s) \in Chunks(t, w, C, g)
  <2> DEFINE l == Len(s)
  <2>1. l \in Nat /\ g[l] = Len(m)
    BY <1>2, <1>6
  <2>2. l + Len(u) \in C /\ g[l + Len(u)] = Len(w)
    BY <1>1, <1>5
  <2>3. \A k \in 1 .. Len(u) : t[l + k] = u[k]
    BY <1>1
  <2> HIDE DEF l
  <2>4. CASE Len(u) = 5 /\ w = Append(m, Ping) /\ u = Bytes(Ping)
    <3>1. Len(w) = g[l] + 1 /\ w[g[l] + 1] = Ping
      BY <1>2, <2>1, <2>4
    <3>2. u[1] = Me /\ u[2] = PING /\ u[3] = Zero /\ u[4] = Half(Ping, 1) /\ u[5] = Half(Ping, 2)
      BY <2>4, MessageBytes
    <3>3. t[l + 1] = u[1] /\ t[l + 2] = u[2] /\ t[l + 3] = u[3] /\ t[l + 4] = u[4] /\ t[l + 5] = u[5]
      BY <2>3, <2>4
    <3>4. l + 5 \in C /\ g[l + 5] = g[l] + 1
      BY <2>2, <2>4, <3>1
    <3> QED BY <2>1, <3>1, <3>2, <3>3, <3>4 DEF Chunks, l
  <2>5. CASE Len(u) = 6 /\ w = Append(m, Set) /\ u = Bytes(Set)
    <3>1. Len(w) = g[l] + 1 /\ w[g[l] + 1] = Set
      BY <1>2, <2>1, <2>5
    <3>2. /\ u[1] = Me /\ u[2] = SETPOINT /\ u[3] = One /\ u[4] = Letter
          /\ u[5] = Half(Set, 1) /\ u[6] = Half(Set, 2)
      BY <2>5, MessageBytes
    <3>3. /\ t[l + 1] = u[1] /\ t[l + 2] = u[2] /\ t[l + 3] = u[3] /\ t[l + 4] = u[4] /\ t[l + 5] = u[5]
          /\ t[l + 6] = u[6]
      BY <2>3, <2>5
    <3>4. l + 6 \in C /\ g[l + 6] = g[l] + 1
      BY <2>2, <2>5, <3>1
    <3> QED BY <2>1, <3>1, <3>2, <3>3, <3>4 DEF Chunks, l
  <2>6. CASE Len(u) = 1 /\ w = Append(m, Typed) /\ u = <<Letter>>
    <3>1. Len(w) = g[l] + 1 /\ w[g[l] + 1] = Typed
      BY <1>2, <2>1, <2>6
    <3>2. t[l + 1] = Letter
      BY <2>3, <2>6
    <3>3. l + 1 \in C /\ g[l + 1] = g[l] + 1
      BY <2>2, <2>6, <3>1
    <3> QED BY <2>1, <3>1, <3>2, <3>3 DEF Chunks, l
  <2>7. CASE w = m /\ Len(u) = 1 /\ u[1] \in Idle
    <3>1. t[l + 1] \in Idle
      BY <2>3, <2>7
    <3>2. l + 1 \in C /\ g[l + 1] = g[l]
      BY <2>1, <2>2, <2>7
    <3> QED BY <2>1, <3>1, <3>2 DEF Chunks, l
  <2>8. CASE w = m /\ Len(u) = 7 /\ u[1] = Other /\ u[7] = Gap /\ \A j \in 2 .. 6 : IsByte(u[j])
    <3>1. \A k \in 1 .. 7 : t[l + k] = u[k]
      BY <2>3, <2>8
    <3>2. t[l + 1] = Other /\ t[l + 7] = Gap /\ \A j \in 2 .. 6 : IsByte(t[l + j])
      BY <2>8, <3>1
    <3>3. l + 7 \in C /\ g[l + 7] = g[l]
      BY <2>1, <2>2, <2>8
    <3> QED BY <2>1, <3>2, <3>3 DEF Chunks, l
  <2> QED BY <2>4, <2>5, <2>6, <2>7, <2>8 DEF Piece
<1>8. Framing(t, w, C, g)
  <2>1. Len(s) < Len(t)
    BY <1>2
  <2> QED BY <1>0, <1>a, <1>7, <2>1, FrameGrows
<1> QED BY <1>a, <1>8

\* An append leaves the sequence a prefix of the new one.
LEMMA AppendGrows ==
    ASSUME NEW S, NEW s \in Seq(S), NEW x \in S
    PROVE  Append(s, x) \in Seq(S) /\ Grows(s, Append(s, x)) /\ Grows(s, s)
<1>1. /\ Append(s, x) \in Seq(S) /\ Len(Append(s, x)) = Len(s) + 1
      /\ \A k \in 1 .. Len(s) : Append(s, x)[k] = s[k]
  OBVIOUS
<1>2. Len(s) \in Nat
  OBVIOUS
<1> QED BY <1>1, <1>2 DEF Grows

\* The places of t from a on are new, and come after all the messages w.
Beyond(t, w, B, f, C, g, a) ==
    /\ C \in SUBSET Nat /\ g \in Counts
    /\ \A b \in B : b \in C /\ g[b] = f[b]
    /\ a \in Nat
    /\ \A b \in C : b \in B \/ b \in a .. Len(t)
    /\ \A k \in a .. Len(t) : k \in C /\ g[k] = Len(w)

\* One piece more.
LEMMA BeyondMore ==
    ASSUME NEW t \in Seq(Token), NEW w, NEW B, NEW f, NEW C, NEW g, More(t, w, B, f, C, g)
    PROVE  Beyond(t, w, B, f, C, g, Len(t))
<1>1. Len(t) \in Nat /\ \A k \in Len(t) .. Len(t) : k = Len(t)
  OBVIOUS
<1> QED BY <1>1 DEF More, Beyond

\* And another one without a message.
LEMMA BeyondIdle ==
    ASSUME NEW u \in Seq(Token), NEW t \in Seq(Token), Len(t) = Len(u) + 1, NEW w,
           NEW B, NEW f, NEW C, NEW g, More(u, w, B, f, C, g), NEW D, NEW h, More(t, w, C, g, D, h)
    PROVE  Beyond(t, w, B, f, D, h, Len(u))
<1>1. Len(u) \in Nat /\ Len(t) \in Nat
  OBVIOUS
<1>2. \A k \in Len(u) .. Len(t) : k = Len(u) \/ k = Len(t)
  BY <1>1
<1>3. Len(u) \in Len(u) .. Len(t) /\ Len(t) \in Len(u) .. Len(t)
  BY <1>1
<1>4. D \in SUBSET Nat /\ h \in Counts /\ \A b \in B : b \in D /\ h[b] = f[b]
  BY DEF More
<1>5. \A b \in D : b \in B \/ b \in Len(u) .. Len(t)
  BY <1>3 DEF More
<1>6. /\ Len(u) \in D /\ h[Len(u)] = Len(w)
      /\ Len(t) \in D /\ h[Len(t)] = Len(w)
  BY DEF More
<1>7. \A k \in Len(u) .. Len(t) : k \in D /\ h[k] = Len(w)
  BY <1>2, <1>6
<1> QED BY <1>1, <1>4, <1>5, <1>7 DEF Beyond

\* What the master sends does not change which of the earlier messages are answered.
LEMMA PendingGrows ==
    ASSUME sent \in Seq(ToMe \cup {Typed}), Grows(sent, sent'), Len(served) \in Nat,
           UNCHANGED <<rpc, served>>
    PROVE  \A i \in 0 .. Len(sent) : Pending(i)' => Pending(i)
<1> SUFFICES ASSUME NEW i \in 0 .. Len(sent), Pending(i)' PROVE Pending(i)
  OBVIOUS
<1>1. CASE i > Len(served') /\ sent'[i].type \in Answered
  <2>1. i \in 1 .. Len(sent)
    BY <1>1
  <2>2. sent'[i] = sent[i]
    BY <2>1 DEF Grows
  <2> QED BY <1>1, <2>2 DEF Pending
<1>2. CASE rpc' = "reply" /\ i = Len(served')
  BY <1>2 DEF Pending
<1> QED BY <1>1, <1>2 DEF Pending

\* What the master adds to the line comes after every answer.
LEMMA WaitsByMaster ==
    ASSUME line \in Seq(Token), line' \in Seq(Token),
           sent \in Seq(ToMe \cup {Typed}), sent' \in Seq(ToMe \cup {Typed}), Grows(sent, sent'),
           Len(served) \in Nat, UNCHANGED <<rpc, served>>,
           NEW B \in SUBSET Nat, NEW f \in Counts, Framing(line, sent, B, f), Waits(B, f),
           NEW C, NEW g, NEW a, Beyond(line', sent', B, f, C, g, a),
           \/ \A i \in 0 .. Len(sent) : ~Pending(i)
           \/ sent' = sent /\ Len(line') = Len(line) + 1 /\ a = Len(line')
    PROVE  Waits(C, g)'
<1>1. Len(line) \in Nat /\ Len(line') \in Nat /\ Len(sent) \in Nat /\ Len(sent') \in Nat
  OBVIOUS
<1>2. \A b \in B : b \in Nat /\ b <= Len(line) /\ f[b] \in Nat /\ f[b] <= Len(sent)
  BY DEF Framing, Counts
<1>3. \A i \in 0 .. Len(sent) : Pending(i)' => Pending(i)
  BY PendingGrows
<1>a. /\ \A b \in B : b \in C /\ g[b] = f[b]
      /\ \A b \in C : b \in B \/ b \in a .. Len(line')
      /\ \A k \in a .. Len(line') : k \in C /\ g[k] = Len(sent')
      /\ a \in Nat /\ C \in SUBSET Nat
  BY DEF Beyond
<1> SUFFICES ASSUME NEW b \in C, Pending(g[b])', NEW k \in b .. Len(line')
             PROVE  k \in C /\ g[k] = g[b]
  BY DEF Waits
<1>4. CASE b \in B
  <2>1. g[b] = f[b] /\ f[b] \in 0 .. Len(sent) /\ Pending(f[b])
    <3>1. g[b] = f[b] /\ f[b] \in 0 .. Len(sent)
      BY <1>1, <1>2, <1>4, <1>a
    <3>2. Pending(f[b])'
      BY <3>1
    <3> QED BY <1>3, <3>1, <3>2
  <2>2. sent' = sent /\ Len(line') = Len(line) + 1 /\ a = Len(line')
    BY <2>1
  <2>3. \A i \in b .. Len(line) : i \in B /\ f[i] = f[b]
    BY <1>4, <2>1 DEF Waits
  <2>4. CASE k \in b .. Len(line)
    BY <1>a, <2>1, <2>3, <2>4
  <2>5. CASE k = Len(line')
    <3>1. f[Len(line)] = f[b] /\ f[Len(line)] = Len(sent)
      <4>1. Len(line) \in b .. Len(line)
        BY <1>1, <1>2, <1>4
      <4> QED BY <2>3, <4>1 DEF Framing
    <3>2. k \in a .. Len(line')
      BY <1>1, <2>2, <2>5
    <3>3. k \in C /\ g[k] = Len(sent')
      BY <1>a, <3>2
    <3> QED BY <2>1, <2>2, <3>1, <3>3
  <2>6. k \in b .. Len(line) \/ k = Len(line')
    BY <1>1, <1>2, <1>4, <2>2
  <2> QED BY <2>4, <2>5, <2>6
<1>5. CASE b \in a .. Len(line')
  <2>1. k \in a .. Len(line')
    BY <1>1, <1>5, <1>a
  <2> QED BY <1>5, <1>a, <2>1
<1> QED BY <1>4, <1>5, <1>a

\* The master remembers what it asked.
LEMMA AskedByMaster ==
    ASSUME sent \in Seq(ToMe \cup {Typed}), served \in Seq(Heard \cup {Typed, Stale}), asked \in BOOLEAN,
           Grows(served, sent), AskedFor, SendToMe \/ SendToOther \/ TypeLetter \/ FallSilent
    PROVE  AskedFor'
<1>1. UNCHANGED <<rpc, served>> /\ Len(served) \in Nat /\ Len(sent) \in Nat /\ Len(served) <= Len(sent)
  BY DEF SendToMe, SendToOther, TypeLetter, FallSilent, Sends, Puts, Grows
<1>2. CASE SendToOther \/ FallSilent
  <2>1. sent' = sent /\ asked' = asked
    BY <1>2 DEF SendToOther, FallSilent
  <2> QED BY <1>1, <2>1 DEF AskedFor, Pending
<1>3. CASE TypeLetter
  BY <1>3 DEF TypeLetter, AskedFor
<1>4. CASE SendToMe
  <2>1. PICK c \in ToMe : sent' = Append(sent, c) /\ asked' = (asked \/ c.type \in Answered)
    BY <1>4 DEF SendToMe
  <2>2. /\ Grows(sent, sent') /\ Len(sent') = Len(sent) + 1 /\ sent'[Len(sent) + 1] = c
    <3>1. Grows(sent, sent')
      BY <2>1, AppendGrows
    <3> QED BY <2>1, <3>1
  <2>3. ASSUME NEW i \in 0 .. Len(sent'), Pending(i)' PROVE asked'
    <3>1. CASE i \in 0 .. Len(sent)
      <4>1. Pending(i)
        BY <1>1, <2>2, <2>3, <3>1, PendingGrows
      <4> QED BY <2>1, <3>1, <4>1 DEF AskedFor
    <3>2. CASE i = Len(sent) + 1
      <4>1. i # Len(served')
        BY <1>1, <3>2
      <4>2. sent'[i].type \in Answered
        BY <2>3, <4>1 DEF Pending
      <4> QED BY <2>1, <2>2, <3>2, <4>2
    <3> QED BY <1>1, <2>2, <3>1, <3>2
  <2> QED BY <2>3 DEF AskedFor
<1> QED BY <1>2, <1>3, <1>4

\* The master keeps the line in frame.
LEMMA FrameByMaster == StepInv /\ Master => InFrame'
<1> SUFFICES ASSUME StepInv, Master, ~upset' PROVE InFrame'
  BY DEF InFrame
<1>0. /\ line \in Seq(Token) /\ sent \in Seq(ToMe \cup {Typed}) /\ served \in Seq(Heard \cup {Typed, Stale})
      /\ line' \in Seq(Token) /\ sent' \in Seq(ToMe \cup {Typed}) /\ Len(served) \in Nat
  BY SentByMaster DEF StepInv, SentInv, LinkKnown
<1>1. UNCHANGED <<rpc, header, data, stale, served>>
  BY DEF Master, SendToMe, SendToOther, TypeLetter, FallSilent, Lose, Sends, Puts
<1>2. SendToMe \/ SendToOther \/ TypeLetter \/ FallSilent
  BY DEF Master, Lose
<1>3. ~upset /\ (SendToMe \/ SendToOther \/ TypeLetter => ~asked)
  <2>1. upset \in BOOLEAN /\ asked \in BOOLEAN
    BY DEF StepInv, SentInv, LinkKnown
  <2>2. SendToMe \/ SendToOther \/ TypeLetter => upset' = (upset \/ asked)
    BY DEF SendToMe, SendToOther, TypeLetter, Sends
  <2>3. FallSilent => upset' = upset
    BY DEF FallSilent
  <2> QED BY <1>2, <2>1, <2>2, <2>3
<1>4. PICK B \in SUBSET Nat, f \in Counts : Framing(line, sent, B, f) /\ Ahead(B, f) /\ Waits(B, f)
  BY <1>3 DEF StepInv, InFrame
<1>5. Grows(served, sent) /\ AskedFor
  BY <1>3 DEF StepInv, InFrame
<1>6. /\ Me \in Token /\ Letter \in Token /\ Gap \in Token /\ Silence \in Token
      /\ Ping \in ToMe /\ Set \in ToMe
      /\ <<Gap>> \in Seq(Token) /\ Len(<<Gap>>) = 1 /\ <<Gap>>[1] \in Idle
      /\ <<Letter>> \in Seq(Token) /\ Len(<<Letter>>) = 1
      /\ <<Silence>> \in Seq(Token) /\ Len(<<Silence>>) = 1 /\ <<Silence>>[1] \in Idle
  BY NamesAreTokens, MessageBytes DEF Idle
<1>7. Grows(sent, sent') /\ Grows(line, line')
  <2>1. sent' = sent \/ \E c \in ToMe \cup {Typed} : sent' = Append(sent, c)
    BY <1>2 DEF SendToMe, SendToOther, TypeLetter, FallSilent, Sends, Puts
  <2>2. Grows(sent, sent)
    BY <1>0 DEF Grows
  <2>3. Grows(sent, sent')
    BY <1>0, <2>1, <2>2, AppendGrows
  <2>4. \E u \in Seq(Token) : line' = line \o u
    <3>1. CASE SendToMe
      <4>1. PICK c \in ToMe, gap \in {<<>>, <<Gap>>} : line' = line \o (Bytes(c) \o gap)
        BY <3>1 DEF SendToMe, Sends, Puts
      <4>2. Bytes(c) \in Seq(Token) /\ gap \in Seq(Token)
        <5>1. <<>> \in Seq(Token)
          BY EmptySeq
        <5>2. gap \in Seq(Token)
          BY <1>6, <5>1
        <5>3. Bytes(c) \in Seq(Token)
          BY MessageBytes, MessageTokens, Zenon
        <5> QED BY <5>2, <5>3
      <4>3. Bytes(c) \o gap \in Seq(Token)
        BY <4>2, ConcatProperties
      <4> QED BY <4>1, <4>3
    <3>2. CASE SendToOther
      <4>1. PICK c \in ToOther : line' = line \o (Bytes(c) \o <<Gap>>)
        BY <3>2 DEF SendToOther, Sends, Puts
      <4>2. Bytes(c) \o <<Gap>> \in Seq(Token)
        BY <1>6, MessageTokens, ConcatProperties
      <4> QED BY <4>1, <4>2
    <3>3. CASE TypeLetter
      BY <1>6, <3>3 DEF TypeLetter, Sends, Puts
    <3>4. CASE FallSilent
      BY <1>6, <3>4 DEF FallSilent, Puts
    <3> QED BY <1>2, <3>1, <3>2, <3>3, <3>4
  <2>5. Grows(line, line')
    BY <1>0, <2>4, GrowsByConcat
  <2> QED BY <2>3, <2>5
<1>8. \E C, g, a : /\ Beyond(line', sent', B, f, C, g, a) /\ Framing(line', sent', C, g)
                   /\ asked => sent' = sent /\ Len(line') = Len(line) + 1 /\ a = Len(line')
  <2>1. CASE SendToMe
    <3>1. PICK c \in ToMe, gap \in {<<>>, <<Gap>>} : line' = line \o (Bytes(c) \o gap) /\ sent' = Append(sent, c)
      BY <2>1 DEF SendToMe, Sends, Puts
    <3>2. Bytes(c) \in Seq(Token) /\ Piece(Bytes(c), sent, sent')
      <4>1. CASE c = Ping
        BY <3>1, <4>1, MessageTokens DEF Piece
      <4>2. CASE c = Set
        BY <3>1, <4>2, MessageTokens DEF Piece
      <4> QED BY <4>1, <4>2, MessageBytes
    <3>3. PICK u : u = line \o Bytes(c)
      OBVIOUS
    <3>4. Added(line, Bytes(c), u) /\ u \in Seq(Token)
      BY <1>0, <3>2, <3>3, ConcatAdds DEF Added
    <3>5. PICK C, g : More(u, sent', B, f, C, g) /\ Framing(u, sent', C, g)
      BY <1>0, <1>4, <1>7, <3>2, <3>4, FrameAdds
    <3>6. CASE gap = <<>>
      <4>1. line' = u
        BY <3>1, <3>2, <3>3, <3>6, ConcatEmptySeq
      <4>2. Beyond(u, sent', B, f, C, g, Len(u))
        BY <1>0, <3>4, <3>5, BeyondMore
      <4> QED BY <1>3, <2>1, <3>5, <4>1, <4>2
    <3>7. CASE gap = <<Gap>>
      <4>1. line' = u \o <<Gap>>
        BY <1>0, <1>6, <3>1, <3>2, <3>3, <3>7, ConcatAssociative
      <4>2. Added(u, <<Gap>>, line') /\ Len(line') = Len(u) + 1
        BY <1>6, <3>4, <4>1, ConcatAdds DEF Added
      <4>3. Grows(sent', sent') /\ Piece(<<Gap>>, sent', sent')
        BY <1>0, <1>6 DEF Grows, Piece
      <4>4. C \in SUBSET Nat /\ g \in Counts
        BY <3>5 DEF More
      <4>5. PICK D, h : More(line', sent', C, g, D, h) /\ Framing(line', sent', D, h)
        BY <1>0, <1>6, <3>4, <3>5, <4>2, <4>3, <4>4, FrameAdds
      <4>6. Beyond(line', sent', B, f, D, h, Len(u))
        BY <1>0, <3>4, <3>5, <4>2, <4>5, BeyondIdle
      <4> QED BY <1>3, <2>1, <4>5, <4>6
    <3> QED BY <3>1, <3>6, <3>7
  <2>2. CASE SendToOther
    <3>1. PICK c \in ToOther : line' = line \o (Bytes(c) \o <<Gap>>) /\ sent' = sent
      BY <2>2 DEF SendToOther, Sends, Puts
    <3>2. Bytes(c) \in Seq(Token) /\ Len(Bytes(c)) = 6
      BY MessageTokens
    <3>3. PICK u : u = Bytes(c) \o <<Gap>>
      OBVIOUS
    <3>4. /\ u \in Seq(Token) /\ Len(u) = 7
          /\ (\A k \in 1 .. 6 : u[k] = Bytes(c)[k]) /\ u[7] = Gap
      <4>1. Added(Bytes(c), <<Gap>>, u)
        BY <1>6, <3>2, <3>3, ConcatAdds
      <4>2. /\ u \in Seq(Token) /\ Grows(Bytes(c), u) /\ Len(u) = 6 + 1
            /\ \A k \in 1 .. 1 : u[6 + k] = <<Gap>>[k]
        BY <1>6, <3>2, <4>1 DEF Added
      <4> QED BY <3>2, <4>2 DEF Grows
    <3>5. u[1] = Other /\ u[7] = Gap /\ \A j \in 2 .. 6 : IsByte(u[j])
      <4>1. PICK b \in {Me, Letter} : Bytes(c) = <<Other, SETPOINT, One, b, Half(c, 1), Half(c, 2)>>
        BY MessageBytes
      <4>2. IsByte(Half(c, 1)) /\ IsByte(Half(c, 2))
        BY ChecksumIsByte
      <4>3. IsByte(SETPOINT) /\ IsByte(One) /\ IsByte(b)
        BY NamesDiffer DEF IsByte, Idle
      <4>4. /\ u[1] = Other /\ u[2] = SETPOINT /\ u[3] = One /\ u[4] = b
            /\ u[5] = Half(c, 1) /\ u[6] = Half(c, 2)
        BY <3>4, <4>1
      <4>5. ASSUME NEW j \in 2 .. 6 PROVE IsByte(u[j])
        <5>1. j = 2 \/ j = 3 \/ j = 4 \/ j = 5 \/ j = 6
          OBVIOUS
        <5> QED BY <4>2, <4>3, <4>4, <5>1
      <4> QED BY <3>4, <4>4, <4>5
    <3>6. Added(line, u, line') /\ Piece(u, sent, sent')
      <4>1. Added(line, u, line')
        BY <1>0, <3>1, <3>3, <3>4, ConcatAdds
      <4>2. Piece(u, sent, sent')
        BY <3>1, <3>4, <3>5 DEF Piece
      <4> QED BY <4>1, <4>2
    <3>7. PICK C, g : More(line', sent', B, f, C, g) /\ Framing(line', sent', C, g)
      BY <1>0, <1>4, <1>7, <3>4, <3>6, FrameAdds
    <3>8. Beyond(line', sent', B, f, C, g, Len(line'))
      BY <1>0, <3>7, BeyondMore
    <3> QED BY <1>3, <2>2, <3>7, <3>8
  <2>3. CASE TypeLetter
    <3>1. line' = line \o <<Letter>> /\ sent' = Append(sent, Typed)
      BY <2>3 DEF TypeLetter, Sends, Puts
    <3>2. Added(line, <<Letter>>, line') /\ Piece(<<Letter>>, sent, sent')
      BY <1>0, <1>6, <3>1, ConcatAdds DEF Piece
    <3>3. PICK C, g : More(line', sent', B, f, C, g) /\ Framing(line', sent', C, g)
      BY <1>0, <1>4, <1>6, <1>7, <3>2, FrameAdds
    <3>4. Beyond(line', sent', B, f, C, g, Len(line'))
      BY <1>0, <3>3, BeyondMore
    <3> QED BY <1>3, <2>3, <3>3, <3>4
  <2>4. CASE FallSilent
    <3>1. line' = line \o <<Silence>> /\ sent' = sent
      BY <2>4 DEF FallSilent, Puts
    <3>2. Added(line, <<Silence>>, line') /\ Piece(<<Silence>>, sent, sent')
      BY <1>0, <1>6, <3>1, ConcatAdds DEF Piece
    <3>3. PICK C, g : More(line', sent', B, f, C, g) /\ Framing(line', sent', C, g)
      BY <1>0, <1>4, <1>6, <1>7, <3>2, FrameAdds
    <3>4. Beyond(line', sent', B, f, C, g, Len(line'))
      BY <1>0, <3>3, BeyondMore
    <3>5. Len(line') = Len(line) + 1
      BY <1>6, <3>2 DEF Added
    <3> QED BY <3>1, <3>3, <3>4, <3>5
  <2> QED BY <1>2, <2>1, <2>2, <2>3, <2>4
<1>9. PICK C, g, a : /\ Beyond(line', sent', B, f, C, g, a) /\ Framing(line', sent', C, g)
                     /\ asked => sent' = sent /\ Len(line') = Len(line) + 1 /\ a = Len(line')
  BY <1>8
<1>10. C \in SUBSET Nat /\ g \in Counts /\ B \subseteq C /\ \A b \in B : g[b] = f[b]
  BY <1>9 DEF Beyond
<1>11. Ahead(C, g)'
  <2>1. Framing(line, sent, B, f) /\ Ahead(B, f)
    BY <1>4
  <2>2. Grows(line, line') /\ Grows(sent, sent') /\ UNCHANGED <<rpc, header, data, stale, served>>
    BY <1>1, <1>7
  <2>3. /\ line \in Seq(Token) /\ sent \in Seq(ToMe \cup {Typed})
        /\ line' \in Seq(Token) /\ sent' \in Seq(ToMe \cup {Typed}) /\ Len(served) \in Nat
    BY <1>0
  <2>4. /\ B \in SUBSET Nat /\ f \in Counts
        /\ C \in SUBSET Nat /\ g \in Counts /\ B \subseteq C
    BY <1>10
  <2>5. \A b \in B : g[b] = f[b]
    BY <1>10
  <2> QED BY <2>1, <2>2, <2>3, <2>4, <2>5, AheadStays
<1>12. Grows(served', sent')
  <2>1. served' = served /\ Grows(served, sent) /\ Grows(sent, sent')
    BY <1>0, <1>1, <1>5, <1>7
  <2>2. Len(served) \in Nat /\ Len(sent) \in Nat /\ Len(sent') \in Nat
    BY <1>0
  <2>3. Len(served) <= Len(sent')
    BY <2>1, <2>2 DEF Grows
  <2>4. ASSUME NEW k \in 1 .. Len(served) PROVE sent'[k] = served[k]
    <3>1. k \in 1 .. Len(sent)
      BY <2>1, <2>2 DEF Grows
    <3> QED BY <2>1, <3>1 DEF Grows
  <2> QED BY <2>1, <2>3, <2>4 DEF Grows
<1>13. Waits(C, g)'
  <2>1. \/ \A i \in 0 .. Len(sent) : ~Pending(i)
        \/ sent' = sent /\ Len(line') = Len(line) + 1 /\ a = Len(line')
    BY <1>5, <1>9 DEF AskedFor
  <2>2. Framing(line, sent, B, f) /\ Waits(B, f) /\ Beyond(line', sent', B, f, C, g, a)
    BY <1>4, <1>9
  <2> QED BY <1>0, <1>1, <1>7, <2>1, <2>2, WaitsByMaster
<1>14. AskedFor'
  <2>1. served \in Seq(Heard \cup {Typed, Stale}) /\ asked \in BOOLEAN
    BY DEF StepInv, SentInv, LinkKnown
  <2> QED BY <1>0, <1>2, <1>5, <2>1, AskedByMaster
<1> QED BY <1>9, <1>10, <1>11, <1>12, <1>13, <1>14 DEF InFrame

\* t is what follows the first k places of s.
After(k, s, t) ==
    /\ k \in 0 .. Len(s) /\ t = SubSeq(s, k + 1, Len(s))

\* The places of the line are those that were k further.
Shifted(k, B, f, C, g) ==
    /\ C \in SUBSET Nat /\ g \in Counts
    /\ \A b \in Nat : (b \in C <=> k + b \in B) /\ g[b] = f[k + b]

\* What stands at each place of the rest of the line.
LEMMA AfterIs ==
    ASSUME NEW s \in Seq(Token), NEW t, NEW k, After(k, s, t)
    PROVE  \A i \in 1 .. Len(s) - k : t[i] = s[k + i]
BY Suffix DEF After

\* What is left behind a place between two pieces is framed.
LEMMA FrameAfter ==
    ASSUME NEW s \in Seq(Token), NEW t, NEW k, After(k, s, t), NEW m \in Seq(ToMe \cup {Typed}),
           NEW B \in SUBSET Nat, NEW f \in Counts, Framing(s, m, B, f)
    PROVE  \E C, g : Shifted(k, B, f, C, g) /\ Framing(t, m, C, g)
<1>1. k \in Nat /\ k \in 0 .. Len(s) /\ t = SubSeq(s, k + 1, Len(s))
  BY DEF After
<1>2. PICK C \in SUBSET Nat, g \in Counts : \A b \in Nat : (b \in C <=> k + b \in B) /\ g[b] = f[k + b]
  BY <1>1, FewerPlaces
<1>3. Framing(t, m, C, g)
  <2>1. \A b \in Nat : b \in C <=> k + b \in B
    BY <1>2
  <2>2. \A b \in Nat : g[b] = f[k + b]
    BY <1>2
  <2> QED BY <1>1, <2>1, <2>2, FrameDrops
<1>4. Shifted(k, B, f, C, g)
  BY <1>2 DEF Shifted
<1> QED BY <1>3, <1>4

\* What the board takes off the line, it takes before the answers to come.
LEMMA WaitsAfter ==
    ASSUME line \in Seq(Token), line' \in Seq(Token), sent' = sent, asked' = asked,
           NEW B \in SUBSET Nat, NEW f \in Counts, Framing(line, sent, B, f), Waits(B, f), AskedFor,
           NEW C, NEW g, NEW k, After(k, line, line'), Shifted(k, B, f, C, g),
           \A i \in 0 .. Len(sent) : Pending(i)' => Pending(i)
    PROVE  Waits(C, g)' /\ AskedFor'
<1>1. k \in Nat /\ Len(line) \in Nat /\ Len(line') = Len(line) - k
  BY Suffix DEF After
<1>2. C \in SUBSET Nat /\ \A b \in Nat : (b \in C <=> k + b \in B) /\ g[b] = f[k + b]
  BY DEF Shifted
<1>3. AskedFor'
  BY DEF AskedFor
<1>4. ASSUME NEW b \in C, Pending(g[b])', NEW i \in b .. Len(line')
      PROVE  i \in C /\ g[i] = g[b]
  <2>1. b \in Nat /\ k + b \in B /\ g[b] = f[k + b]
    BY <1>2
  <2>2. f[k + b] \in 0 .. Len(sent)
    <3>1. k + b \in B /\ k + b \in Nat
      BY <1>1, <2>1
    <3>2. f[k + b] <= Len(sent) /\ f[k + b] \in Nat
      BY <3>1 DEF Framing, Counts
    <3> QED BY <3>2
  <2>3. Pending(f[k + b])'
    BY <1>4, <2>1
  <2>4. Pending(f[k + b])
    BY <2>2, <2>3
  <2>5. \A j \in k + b .. Len(line) : j \in B /\ f[j] = f[k + b]
    BY <2>1, <2>4 DEF Waits
  <2>6. i \in Nat /\ k + i \in k + b .. Len(line)
    BY <1>1, <1>4, <2>1
  <2>7. k + i \in B /\ f[k + i] = f[k + b]
    BY <2>5, <2>6
  <2> QED BY <1>2, <2>1, <2>6, <2>7
<1>5. Waits(C, g)'
  BY <1>4 DEF Waits
<1> QED BY <1>3, <1>5

\* No answer begins in a step that serves nothing.
LEMMA PendingStays ==
    ASSUME UNCHANGED <<sent, served>>, rpc' # "reply"
    PROVE  \A i \in 0 .. Len(sent) : Pending(i)' => Pending(i)
BY DEF Pending

\* The answer to the message just served was pending before.
LEMMA PendingServed ==
    ASSUME Len(served) \in Nat, sent' = sent, Len(served') = Len(served) + 1,
           rpc' = "reply" => sent[Len(served) + 1].type \in Answered
    PROVE  \A i \in 0 .. Len(sent) : Pending(i)' => Pending(i)
<1> SUFFICES ASSUME NEW i \in 0 .. Len(sent), Pending(i)' PROVE Pending(i)
  OBVIOUS
<1>1. CASE i > Len(served') /\ sent[i].type \in Answered
  BY <1>1 DEF Pending
<1>2. CASE rpc' = "reply" /\ i = Len(served')
  BY <1>2 DEF Pending
<1> QED BY <1>1, <1>2 DEF Pending

\* The first byte of a piece.
LEMMA FrameByAddr == StepInv /\ ReadAddr => InFrame'
<1> SUFFICES ASSUME StepInv, ReadAddr, ~upset' PROVE InFrame'
  BY DEF InFrame
<1>0. /\ line \in Seq(Token) /\ sent \in Seq(ToMe \cup {Typed}) /\ served \in Seq(Heard \cup {Typed, Stale})
      /\ Len(line) \in Nat /\ Len(sent) \in Nat /\ Len(served) \in Nat
  BY DEF StepInv, SentInv, LinkKnown
<1>1. /\ rpc = "addr" /\ line # <<>> /\ line[1] # Silence /\ line' = Tail(line) /\ ~upset
      /\ stale' = FALSE /\ UNCHANGED <<header, data, sent>>
  BY DEF ReadAddr
<1>2. Grows(served, sent)
  BY <1>1 DEF StepInv, InFrame
<1>3. PICK B \in SUBSET Nat, f \in Counts : Framing(line, sent, B, f) /\ Ahead(B, f) /\ Waits(B, f)
  BY <1>1 DEF StepInv, InFrame
<1>4. Len(line) >= 1
  BY <1>0, <1>1, EmptySeq
<1>5. After(1, line, line')
  <2>1. line' = SubSeq(line, 2, Len(line))
    BY <1>0, <1>1, TailIsSubSeq
  <2>2. 1 \in 0 .. Len(line)
    BY <1>0, <1>4
  <2> QED BY <2>1, <2>2 DEF After
<1>6. 0 \in B /\ f[0] = Len(served) /\ \A b \in B : b <= Len(line) /\ f[b] <= Len(sent)
  BY <1>1, <1>3 DEF Ahead, Framing
<1>a. PICK C, g : Shifted(1, B, f, C, g) /\ Framing(line', sent, C, g)
  BY <1>0, <1>3, <1>5, FrameAfter
<1>b. C \in SUBSET Nat /\ g \in Counts /\ Framing(line', sent', C, g)
  BY <1>1, <1>a DEF Shifted
<1>w. (\A i \in 0 .. Len(sent) : Pending(i)' => Pending(i)) => Waits(C, g)' /\ AskedFor'
  <2>1. line' \in Seq(Token)
    BY <1>0, <1>5, Suffix DEF After
  <2>2. AskedFor /\ sent' = sent /\ asked' = asked
    BY <1>1 DEF StepInv, InFrame, ReadAddr
  <2>3. /\ Framing(line, sent, B, f) /\ Waits(B, f)
        /\ After(1, line, line') /\ Shifted(1, B, f, C, g)
    BY <1>3, <1>5, <1>a
  <2> QED BY <1>0, <2>1, <2>2, <2>3, WaitsAfter
<1>7. /\ (0 \in C <=> 1 \in B) /\ (4 \in C <=> 5 \in B) /\ (5 \in C <=> 6 \in B) /\ (6 \in C <=> 7 \in B)
      /\ g[0] = f[1] /\ g[4] = f[5] /\ g[5] = f[6] /\ g[6] = f[7]
  <2>1. \A b \in Nat : (b \in C <=> 1 + b \in B) /\ g[b] = f[1 + b]
    BY <1>a DEF Shifted
  <2> QED BY <2>1
<1>c. \A i \in 1 .. Len(line) - 1 : line'[i] = line[1 + i]
  <2>1. line \in Seq(Token)
    BY <1>0
  <2> QED BY <1>5, <2>1, AfterIs
<1>8. \A b \in B, i \in Nat : i >= 1 /\ i < b => line'[i] = line[1 + i]
  <2> SUFFICES ASSUME NEW b \in B, NEW i \in Nat, i >= 1, i < b PROVE line'[i] = line[1 + i]
    OBVIOUS
  <2>1. b \in Nat /\ b <= Len(line)
    BY <1>6
  <2>2. i \in 1 .. Len(line) - 1
    BY <1>0, <2>1
  <2> QED BY <1>c, <2>2
<1>9. 0 \in Chunks(line, sent, B, f)
  BY <1>0, <1>3, <1>4, <1>6 DEF Framing
<1>10. \/ /\ line[1] = Me /\ line[2] = PING /\ line[3] = Zero
          /\ line[4] = Half(Ping, 1) /\ line[5] = Half(Ping, 2)
          /\ 5 \in B /\ f[5] = f[0] + 1 /\ sent[f[0] + 1] = Ping
       \/ /\ line[1] = Me /\ line[2] = SETPOINT /\ line[3] = One /\ line[4] = Letter
          /\ line[5] = Half(Set, 1) /\ line[6] = Half(Set, 2)
          /\ 6 \in B /\ f[6] = f[0] + 1 /\ sent[f[0] + 1] = Set
       \/ /\ line[1] = Other /\ (\A j \in 2 .. 6 : IsByte(line[j]))
          /\ line[7] = Gap
          /\ 7 \in B /\ f[7] = f[0]
       \/ /\ line[1] = Letter
          /\ 1 \in B /\ f[1] = f[0] + 1 /\ sent[f[0] + 1] = Typed
       \/ line[1] \in Idle /\ 1 \in B /\ f[1] = f[0]
  BY <1>9 DEF Chunks
<1>11. CASE /\ line[1] = Me /\ line[2] = PING /\ line[3] = Zero
            /\ line[4] = Half(Ping, 1) /\ line[5] = Half(Ping, 2)
            /\ 5 \in B /\ f[5] = f[0] + 1 /\ sent[f[0] + 1] = Ping
  <2>1. rpc' = "header" /\ served' = served
    BY <1>11, NamesDiffer DEF ReadAddr
  <2>2. \A i \in 1 .. 4 : line'[i] = line[1 + i]
    BY <1>8, <1>11
  <2>3. line'[1] = PING /\ line'[2] = Zero /\ line'[3] = Half(Ping, 1) /\ line'[4] = Half(Ping, 2)
    BY <1>11, <2>2
  <2>4. Due(C, g, 4, Ping)'
    BY <1>1, <1>6, <1>7, <1>11, <2>1 DEF Due
  <2>5. Ahead(C, g)'
    BY <2>1, <2>3, <2>4 DEF Ahead
  <2>6. Grows(served', sent')
    BY <1>1, <1>2, <2>1
  <2>7. Waits(C, g)' /\ AskedFor'
    BY <1>1, <1>w, <2>1, PendingStays
  <2> QED BY <1>b, <2>5, <2>6, <2>7 DEF InFrame
<1>12. CASE /\ line[1] = Me /\ line[2] = SETPOINT /\ line[3] = One /\ line[4] = Letter
            /\ line[5] = Half(Set, 1) /\ line[6] = Half(Set, 2)
            /\ 6 \in B /\ f[6] = f[0] + 1 /\ sent[f[0] + 1] = Set
  <2>1. rpc' = "header" /\ served' = served
    BY <1>12, NamesDiffer DEF ReadAddr
  <2>2. \A i \in 1 .. 5 : line'[i] = line[1 + i]
    BY <1>8, <1>12
  <2>3. /\ line'[1] = SETPOINT /\ line'[2] = One /\ line'[3] = Letter
        /\ line'[4] = Half(Set, 1) /\ line'[5] = Half(Set, 2)
    BY <1>12, <2>2
  <2>4. Due(C, g, 5, Set)'
    BY <1>1, <1>6, <1>7, <1>12, <2>1 DEF Due
  <2>5. Ahead(C, g)'
    BY <2>1, <2>3, <2>4 DEF Ahead
  <2>6. Grows(served', sent')
    BY <1>1, <1>2, <2>1
  <2>7. Waits(C, g)' /\ AskedFor'
    BY <1>1, <1>w, <2>1, PendingStays
  <2> QED BY <1>b, <2>5, <2>6, <2>7 DEF InFrame
<1>13. CASE /\ line[1] = Other /\ (\A j \in 2 .. 6 : IsByte(line[j]))
            /\ line[7] = Gap
            /\ 7 \in B /\ f[7] = f[0]
  <2>1. rpc' = "wait" /\ served' = served
    BY <1>13, NamesDiffer DEF ReadAddr, IgnoreMessage
  <2>2. \A i \in 1 .. 6 : line'[i] = line[1 + i]
    BY <1>8, <1>13
  <2>3. line'[6] = Gap
    BY <1>13, <2>2
  <2>4. \A j \in 1 .. 5 : IsByte(line'[j])
    <3> TAKE j \in 1 .. 5
    <3>1. 1 + j \in 2 .. 6 /\ line'[j] = line[1 + j]
      BY <2>2
    <3> QED BY <1>13, <3>1
  <2>5. 6 \in C /\ g[6] = Len(served)
    BY <1>6, <1>7, <1>13
  <2>6. \E k \in C : /\ k > 0 /\ line'[k] = Gap /\ g[k] = Len(served')
                     /\ \A j \in 1 .. k - 1 : IsByte(line'[j])
    BY <2>1, <2>3, <2>4, <2>5
  <2>7. Ahead(C, g)'
    BY <2>1, <2>6 DEF Ahead
  <2>8. Grows(served', sent')
    BY <1>1, <1>2, <2>1
  <2>9. Waits(C, g)' /\ AskedFor'
    BY <1>1, <1>w, <2>1, PendingStays
  <2> QED BY <1>b, <2>7, <2>8, <2>9 DEF InFrame
<1>14. CASE /\ line[1] = Letter
            /\ 1 \in B /\ f[1] = f[0] + 1 /\ sent[f[0] + 1] = Typed
  <2>1. rpc' = "reply" /\ served' = Append(served, Typed)
    BY <1>1, <1>14 DEF ReadAddr
  <2>2. /\ Len(served') = Len(served) + 1 /\ served'[Len(served) + 1] = Typed
        /\ \A k \in 1 .. Len(served) : served'[k] = served[k]
    BY <1>0, <2>1
  <2>3. 0 \in C /\ g[0] = Len(served')
    BY <1>6, <1>7, <1>14, <2>2
  <2>4. Ahead(C, g)'
    BY <2>1, <2>3 DEF Ahead
  <2>5. Len(served) + 1 <= Len(sent) /\ sent[Len(served) + 1] = Typed
    BY <1>6, <1>14
  <2>6. \A k \in 1 .. Len(served') : sent[k] = served'[k]
    BY <1>0, <1>2, <2>2, <2>5 DEF Grows
  <2>7. Grows(served', sent')
    BY <1>1, <2>2, <2>5, <2>6 DEF Grows
  <2>8. Waits(C, g)' /\ AskedFor'
    <3>1. sent[Len(served) + 1].type \in Answered
      BY <2>5 DEF Typed, Content, Answered
    <3>2. \A i \in 0 .. Len(sent) : Pending(i)' => Pending(i)
      BY <1>0, <1>1, <2>2, <3>1, PendingServed
    <3> QED BY <1>w, <3>2
  <2> QED BY <1>b, <2>4, <2>7, <2>8 DEF InFrame
<1>15. CASE line[1] \in Idle /\ 1 \in B /\ f[1] = f[0]
  <2>1. line[1] = Gap
    BY <1>1, <1>15 DEF Idle
  <2>2. rpc' = "addr" /\ served' = served
    BY <2>1, NamesDiffer DEF ReadAddr
  <2>3. 0 \in C /\ g[0] = Len(served')
    BY <1>6, <1>7, <1>15, <2>2
  <2>4. Ahead(C, g)'
    BY <2>2, <2>3 DEF Ahead
  <2>5. Grows(served', sent')
    BY <1>1, <1>2, <2>2
  <2>6. Waits(C, g)' /\ AskedFor'
    BY <1>1, <1>w, <2>2, PendingStays
  <2> QED BY <1>b, <2>4, <2>5, <2>6 DEF InFrame
<1> QED BY <1>10, <1>11, <1>12, <1>13, <1>14, <1>15

\* The silence after the messages.
LEMMA FrameBySilence == StepInv /\ Resynchronise => InFrame'
<1> SUFFICES ASSUME StepInv, Resynchronise PROVE InFrame'
  OBVIOUS
<1>1. line' = <<>> /\ sent' = <<>> /\ served' = <<>> /\ rpc' = "addr"
  BY DEF Resynchronise
<1>2. PICK f \in Counts : \A b \in Nat : f[b] = 0
  <2> DEFINE f == [b \in Nat |-> 0]
  <2>1. f \in Counts /\ \A b \in Nat : f[b] = 0
    BY DEF Counts
  <2> HIDE DEF f
  <2> QED BY <2>1
<1>3. Framing(line', sent', {0}, f)
  BY <1>1, <1>2 DEF Framing
<1>4. Ahead({0}, f)'
  BY <1>1, <1>2 DEF Ahead
<1>5. Grows(served', sent')
  BY <1>1 DEF Grows
<1>6. {0} \in SUBSET Nat
  OBVIOUS
<1>7. Waits({0}, f)' /\ AskedFor'
  BY <1>1, <1>2 DEF Waits, AskedFor, Pending
<1> QED BY <1>3, <1>4, <1>5, <1>6, <1>7 DEF InFrame

\* The wait for the end of another board's message.
LEMMA FrameByWait == StepInv /\ WaitIdle => InFrame'
<1> SUFFICES ASSUME StepInv, WaitIdle, ~upset' PROVE InFrame'
  BY DEF InFrame
<1>0. /\ line \in Seq(Token) /\ sent \in Seq(ToMe \cup {Typed})
      /\ Len(line) \in Nat /\ DOMAIN line = 1 .. Len(line)
  BY DEF StepInv, SentInv, LinkKnown
<1>1. rpc = "wait" /\ rpc' = "addr" /\ ~upset /\ UNCHANGED <<sent, served>>
  BY DEF WaitIdle
<1>2. PICK B \in SUBSET Nat, f \in Counts : Framing(line, sent, B, f) /\ Ahead(B, f) /\ Waits(B, f)
  BY <1>1 DEF StepInv, InFrame
<1>3. PICK k \in B : /\ k > 0 /\ line[k] = Gap /\ f[k] = Len(served)
                     /\ \A j \in 1 .. k - 1 : IsByte(line[j])
  BY <1>1, <1>2 DEF Ahead
<1>4. PICK i \in 1 .. Len(line) :
         /\ line[i] \in Idle /\ \A j \in 1 .. i - 1 : IsByte(line[j])
         /\ line' = SubSeq(line, IF line[i] = Gap THEN i + 1 ELSE i, Len(line))
  BY <1>0 DEF WaitIdle
<1>5. k \in 1 .. Len(line)
  BY <1>2, <1>3 DEF Framing
<1>6. i = k
  <2>1. ~IsByte(line[k]) /\ ~IsByte(line[i])
    BY <1>3, <1>4 DEF IsByte, Idle
  <2>2. ~(k < i)
    BY <1>4, <1>5, <2>1
  <2>3. ~(i < k)
    BY <1>3, <1>4, <1>5, <2>1
  <2> QED BY <1>5, <2>2, <2>3
<1>7. After(k, line, line')
  <2>1. line' = SubSeq(line, k + 1, Len(line))
    BY <1>3, <1>4, <1>6
  <2>2. k \in 0 .. Len(line)
    BY <1>5
  <2> QED BY <2>1, <2>2 DEF After
<1>8. PICK C, g : Shifted(k, B, f, C, g) /\ Framing(line', sent, C, g)
  BY <1>0, <1>2, <1>7, FrameAfter
<1>9. C \in SUBSET Nat /\ g \in Counts /\ Framing(line', sent', C, g)
  BY <1>1, <1>8 DEF Shifted
<1>10. 0 \in C /\ g[0] = Len(served')
  <2>1. (0 \in C <=> k + 0 \in B) /\ g[0] = f[k + 0]
    BY <1>8 DEF Shifted
  <2>2. k + 0 = k
    BY <1>5
  <2> QED BY <1>1, <1>3, <2>1, <2>2
<1>11. Ahead(C, g)'
  BY <1>1, <1>10 DEF Ahead
<1>12. Grows(served', sent')
  BY <1>1 DEF StepInv, InFrame
<1>w. (\A j \in 0 .. Len(sent) : Pending(j)' => Pending(j)) => Waits(C, g)' /\ AskedFor'
  <2>1. line' \in Seq(Token)
    BY <1>0, <1>7, Suffix DEF After
  <2>2. AskedFor /\ sent' = sent /\ asked' = asked
    BY <1>1 DEF StepInv, InFrame, WaitIdle
  <2>3. /\ Framing(line, sent, B, f) /\ Waits(B, f)
        /\ After(k, line, line') /\ Shifted(k, B, f, C, g)
    BY <1>2, <1>7, <1>8
  <2> QED BY <1>0, <2>1, <2>2, <2>3, WaitsAfter
<1>13. Waits(C, g)' /\ AskedFor'
  BY <1>1, <1>w, PendingStays
<1> QED BY <1>9, <1>11, <1>12, <1>13 DEF InFrame

\* The header.
LEMMA FrameByHeader == StepInv /\ ReadHeader => InFrame'
<1> SUFFICES ASSUME StepInv, ReadHeader, ~upset' PROVE InFrame'
  BY DEF InFrame
<1>0. /\ line \in Seq(Token) /\ sent \in Seq(ToMe \cup {Typed}) /\ Len(line) \in Nat
  BY DEF StepInv, SentInv, LinkKnown
<1>1. rpc = "header" /\ ~upset /\ sent' = sent
  BY DEF ReadHeader
<1>2. PICK B \in SUBSET Nat, f \in Counts : Framing(line, sent, B, f) /\ Ahead(B, f) /\ Waits(B, f)
  BY <1>1 DEF StepInv, InFrame
<1>3. \A b \in B : b \in Nat /\ b <= Len(line)
  BY <1>2 DEF Framing
<1>4. \/ /\ line[1] = PING /\ line[2] = Zero
         /\ line[3] = Half(Ping, 1) /\ line[4] = Half(Ping, 2) /\ Due(B, f, 4, Ping)
      \/ /\ line[1] = SETPOINT /\ line[2] = One /\ line[3] = Letter
         /\ line[4] = Half(Set, 1) /\ line[5] = Half(Set, 2) /\ Due(B, f, 5, Set)
  BY <1>1, <1>2 DEF Ahead
<1>5. Len(line) >= 4
  <2>1. 4 \in B \/ 5 \in B
    BY <1>4 DEF Due
  <2> QED BY <1>0, <1>3, <2>1
<1>6. IsByte(line[1]) /\ IsByte(line[2])
  BY <1>4, NamesDiffer DEF IsByte, Idle
<1>7. PICK r \in Read(2) :
         /\ line' = r.rest
         /\ stale' = (r.bytes = <<>>)
         /\ IF ~Accepted(r, 2) THEN Fail
            ELSE IF r.bytes = <<>> THEN \E h \in StaleHeader : AfterHeader(h)
            ELSE AfterHeader([type |-> r.bytes[1], size |-> r.bytes[2]])
  BY DEF ReadHeader
<1>8. r.bytes = <<line[1], line[2]>> /\ r.rest = SubSeq(line, 3, Len(line))
  <2>1. Len(line) >= 2
    BY <1>0, <1>5
  <2> QED BY <1>0, <1>6, <1>7, <2>1, ReadsNextBytes
<1>9. Len(r.bytes) = 2 /\ r.bytes[1] = line[1] /\ r.bytes[2] = line[2] /\ r.bytes # <<>>
  BY <1>8
<1>10. AfterHeader([type |-> line[1], size |-> line[2]]) /\ ~stale'
  <2>1. Accepted(r, 2)
    BY <1>9 DEF Accepted
  <2> QED BY <1>7, <1>9, <2>1
<1>11. After(2, line, line')
  <2>1. line' = SubSeq(line, 3, Len(line))
    BY <1>7, <1>8
  <2>2. 2 \in 0 .. Len(line)
    BY <1>0, <1>5
  <2> QED BY <2>1, <2>2 DEF After
<1>12. PICK C, g : Shifted(2, B, f, C, g) /\ Framing(line', sent, C, g)
  BY <1>0, <1>2, <1>11, FrameAfter
<1>13. C \in SUBSET Nat /\ g \in Counts /\ Framing(line', sent', C, g)
  BY <1>1, <1>12 DEF Shifted
<1>w. (\A i \in 0 .. Len(sent) : Pending(i)' => Pending(i)) => Waits(C, g)' /\ AskedFor'
  <2>1. line' \in Seq(Token)
    BY <1>0, <1>11, Suffix DEF After
  <2>2. AskedFor /\ sent' = sent /\ asked' = asked
    BY <1>1 DEF StepInv, InFrame, ReadHeader
  <2>3. /\ Framing(line, sent, B, f) /\ Waits(B, f)
        /\ After(2, line, line') /\ Shifted(2, B, f, C, g)
    BY <1>2, <1>11, <1>12
  <2> QED BY <1>0, <2>1, <2>2, <2>3, WaitsAfter
<1>14. (2 \in C <=> 4 \in B) /\ (3 \in C <=> 5 \in B) /\ g[2] = f[4] /\ g[3] = f[5]
  <2>1. \A b \in Nat : (b \in C <=> 2 + b \in B) /\ g[b] = f[2 + b]
    BY <1>12 DEF Shifted
  <2> QED BY <2>1
<1>15. \A i \in 1 .. Len(line) - 2 : line'[i] = line[2 + i]
  BY <1>0, <1>11, AfterIs
<1>16. CASE /\ line[1] = PING /\ line[2] = Zero
            /\ line[3] = Half(Ping, 1) /\ line[4] = Half(Ping, 2) /\ Due(B, f, 4, Ping)
  <2>1. /\ header' = [type |-> PING, size |-> Zero] /\ rpc' = "footer"
        /\ UNCHANGED <<data, served>>
    BY <1>10, <1>16 DEF AfterHeader
  <2>2. Received' = Ping
    BY <2>1 DEF Received, Ping
  <2>3. line'[1] = Half(Ping, 1) /\ line'[2] = Half(Ping, 2)
    <3>1. 1 \in 1 .. Len(line) - 2 /\ 2 \in 1 .. Len(line) - 2
      BY <1>0, <1>5
    <3> QED BY <1>15, <1>16, <3>1
  <2>4. Due(C, g, 2, Ping)'
    BY <1>1, <1>14, <1>16, <2>1 DEF Due
  <2>5. Ping \in ToMe
    BY MessageBytes
  <2>6. Ahead(C, g)'
    BY <1>10, <2>1, <2>2, <2>3, <2>4, <2>5 DEF Ahead, Due
  <2>7. Grows(served', sent')
    BY <1>1, <2>1 DEF StepInv, InFrame
  <2>8. Waits(C, g)' /\ AskedFor'
    BY <1>1, <1>w, <2>1, PendingStays
  <2> QED BY <1>13, <2>6, <2>7, <2>8 DEF InFrame
<1>17. CASE /\ line[1] = SETPOINT /\ line[2] = One /\ line[3] = Letter
            /\ line[4] = Half(Set, 1) /\ line[5] = Half(Set, 2) /\ Due(B, f, 5, Set)
  <2>1. /\ header' = [type |-> SETPOINT, size |-> One] /\ rpc' = "data"
        /\ UNCHANGED <<data, served>>
    BY <1>10, <1>17, NamesDiffer DEF AfterHeader
  <2>2. 5 \in B
    BY <1>17 DEF Due
  <2>3. line'[1] = Letter /\ line'[2] = Half(Set, 1) /\ line'[3] = Half(Set, 2)
    <3>1. 5 <= Len(line)
      BY <1>3, <2>2
    <3>2. 1 \in 1 .. Len(line) - 2 /\ 2 \in 1 .. Len(line) - 2 /\ 3 \in 1 .. Len(line) - 2
      BY <1>0, <3>1
    <3> QED BY <1>15, <1>17, <3>2
  <2>4. Due(C, g, 3, Set)'
    BY <1>1, <1>14, <1>17, <2>1 DEF Due
  <2>5. Ahead(C, g)'
    BY <1>10, <2>1, <2>3, <2>4 DEF Ahead
  <2>6. Grows(served', sent')
    BY <1>1, <2>1 DEF StepInv, InFrame
  <2>7. Waits(C, g)' /\ AskedFor'
    BY <1>1, <1>w, <2>1, PendingStays
  <2> QED BY <1>13, <2>5, <2>6, <2>7 DEF InFrame
<1> QED BY <1>4, <1>16, <1>17

\* The data.
LEMMA FrameByData == StepInv /\ ReadData => InFrame'
<1> SUFFICES ASSUME StepInv, ReadData, ~upset' PROVE InFrame'
  BY DEF InFrame
<1>0. /\ line \in Seq(Token) /\ sent \in Seq(ToMe \cup {Typed}) /\ Len(line) \in Nat
  BY DEF StepInv, SentInv, LinkKnown
<1>1. rpc = "data" /\ ~upset /\ UNCHANGED <<header, sent, served>>
  BY DEF ReadData
<1>2. PICK B \in SUBSET Nat, f \in Counts : Framing(line, sent, B, f) /\ Ahead(B, f) /\ Waits(B, f)
  BY <1>1 DEF StepInv, InFrame
<1>3. /\ header = [type |-> SETPOINT, size |-> One] /\ ~stale
      /\ line[1] = Letter /\ line[2] = Half(Set, 1) /\ line[3] = Half(Set, 2) /\ Due(B, f, 3, Set)
  BY <1>1, <1>2 DEF Ahead
<1>4. Len(line) >= 3
  <2>1. 3 \in B
    BY <1>3 DEF Due
  <2> QED BY <1>0, <1>2, <2>1 DEF Framing
<1>5. PICK r \in Read(1) :
         /\ line' = r.rest
         /\ stale' = (stale \/ r.bytes = <<>>)
         /\ data' = IF r.bytes = <<>> THEN data ELSE r.bytes
         /\ rpc' = IF Accepted(r, 1) THEN "footer" ELSE "addr"
  BY DEF ReadData
<1>6. r.bytes = <<Letter>> /\ r.rest = SubSeq(line, 2, Len(line))
  <2>1. IsByte(line[1])
    BY <1>3, NamesDiffer DEF IsByte, Idle
  <2>2. line # <<>>
    BY <1>4
  <2>3. r.bytes = <<line[1]>> /\ r.rest = SubSeq(line, 2, Len(line))
    BY <1>0, <1>5, <2>1, <2>2, ReadsNextByte
  <2> QED BY <1>3, <2>3
<1>7. r.bytes # <<>> /\ Len(r.bytes) = 1
  BY <1>6
<1>8. data' = <<Letter>> /\ rpc' = "footer" /\ ~stale'
  <2>1. Accepted(r, 1)
    BY <1>7 DEF Accepted
  <2> QED BY <1>3, <1>5, <1>6, <1>7, <2>1
<1>9. Received' = Set
  BY <1>1, <1>3, <1>8, NamesDiffer DEF Received, Set
<1>10. After(1, line, line')
  <2>1. line' = SubSeq(line, 2, Len(line))
    BY <1>5, <1>6
  <2>2. 1 \in 0 .. Len(line)
    BY <1>0, <1>4
  <2> QED BY <2>1, <2>2 DEF After
<1>11. PICK C, g : Shifted(1, B, f, C, g) /\ Framing(line', sent, C, g)
  BY <1>0, <1>2, <1>10, FrameAfter
<1>12. C \in SUBSET Nat /\ g \in Counts /\ Framing(line', sent', C, g)
  BY <1>1, <1>11 DEF Shifted
<1>13. (2 \in C <=> 3 \in B) /\ g[2] = f[3]
  <2>1. \A b \in Nat : (b \in C <=> 1 + b \in B) /\ g[b] = f[1 + b]
    BY <1>11 DEF Shifted
  <2> QED BY <2>1
<1>14. line'[1] = Half(Set, 1) /\ line'[2] = Half(Set, 2)
  <2>1. \A i \in 1 .. Len(line) - 1 : line'[i] = line[1 + i]
    BY <1>0, <1>10, AfterIs
  <2>2. 1 \in 1 .. Len(line) - 1 /\ 2 \in 1 .. Len(line) - 1
    BY <1>0, <1>4
  <2> QED BY <1>3, <2>1, <2>2
<1>15. Due(C, g, 2, Set)'
  BY <1>1, <1>3, <1>13 DEF Due
<1>16. Set \in ToMe
  BY MessageBytes
<1>17. Ahead(C, g)'
  BY <1>8, <1>9, <1>14, <1>15, <1>16 DEF Ahead, Due
<1>18. Grows(served', sent')
  BY <1>1 DEF StepInv, InFrame
<1>w. (\A i \in 0 .. Len(sent) : Pending(i)' => Pending(i)) => Waits(C, g)' /\ AskedFor'
  <2>1. line' \in Seq(Token)
    BY <1>0, <1>10, Suffix DEF After
  <2>2. AskedFor /\ sent' = sent /\ asked' = asked
    BY <1>1 DEF StepInv, InFrame, ReadData
  <2>3. /\ Framing(line, sent, B, f) /\ Waits(B, f)
        /\ After(1, line, line') /\ Shifted(1, B, f, C, g)
    BY <1>2, <1>10, <1>11
  <2> QED BY <1>0, <2>1, <2>2, <2>3, WaitsAfter
<1>19. Waits(C, g)' /\ AskedFor'
  BY <1>1, <1>8, <1>w, PendingStays
<1> QED BY <1>12, <1>17, <1>18, <1>19 DEF InFrame

\* The footer.
LEMMA FrameByFooter == StepInv /\ ReadFooter => InFrame'
<1> SUFFICES ASSUME StepInv, ReadFooter, ~upset' PROVE InFrame'
  BY DEF InFrame
<1>0. /\ line \in Seq(Token) /\ sent \in Seq(ToMe \cup {Typed}) /\ Len(line) \in Nat
      /\ served \in Seq(Heard \cup {Typed, Stale}) /\ Len(served) \in Nat /\ Len(sent) \in Nat
  BY DEF StepInv, SentInv, LinkKnown
<1>1. rpc = "footer" /\ ~upset /\ UNCHANGED <<header, data, sent>>
  BY DEF ReadFooter
<1>2. PICK B \in SUBSET Nat, f \in Counts : Framing(line, sent, B, f) /\ Ahead(B, f) /\ Waits(B, f)
  BY <1>1 DEF StepInv, InFrame
<1>3. /\ Received \in ToMe /\ ~stale
      /\ line[1] = Half(Received, 1) /\ line[2] = Half(Received, 2) /\ Due(B, f, 2, Received)
  BY <1>1, <1>2 DEF Ahead
<1>4. Len(line) >= 2 /\ f[2] <= Len(sent)
  <2>1. 2 \in B
    BY <1>3 DEF Due
  <2> QED BY <1>0, <1>2, <2>1 DEF Framing
<1>5. PICK r \in Read(2) :
         /\ line' = r.rest
         /\ stale' = (stale \/ r.bytes = <<>>)
         /\ \/ /\ Accepted(r, 2) /\ Verified(r)
               /\ served' = Append(served, IF stale' THEN Stale ELSE Received)
               /\ rpc' = IF header.type \in Answered THEN "reply" ELSE "addr"
            \/ (~Verified(r) \/ r.bytes = <<>>) /\ UNCHANGED served /\ rpc' = "addr"
  BY DEF ReadFooter
<1>6. r.bytes = <<Half(Received, 1), Half(Received, 2)>> /\ r.rest = SubSeq(line, 3, Len(line))
  <2>1. IsByte(line[1]) /\ IsByte(line[2])
    BY <1>3, ChecksumIsByte
  <2>2. r.bytes = <<line[1], line[2]>> /\ r.rest = SubSeq(line, 3, Len(line))
    BY <1>0, <1>4, <1>5, <2>1, ReadsNextBytes
  <2> QED BY <1>3, <2>2
<1>7. r.bytes # <<>> /\ Verified(r)
  <2>1. r.bytes # <<>>
    BY <1>6
  <2>2. r.bytes \in FootersFor(Received)
    BY <1>6 DEF FootersFor, Footer, Half
  <2> QED BY <2>1, <2>2 DEF Verified
<1>8. /\ served' = Append(served, Received)
      /\ rpc' = IF header.type \in Answered THEN "reply" ELSE "addr"
  BY <1>3, <1>5, <1>7
<1>9. /\ Len(served') = Len(served) + 1 /\ served'[Len(served) + 1] = Received
      /\ \A k \in 1 .. Len(served) : served'[k] = served[k]
  BY <1>0, <1>8
<1>10. After(2, line, line')
  <2>1. line' = SubSeq(line, 3, Len(line))
    BY <1>5, <1>6
  <2>2. 2 \in 0 .. Len(line)
    BY <1>0, <1>4
  <2> QED BY <2>1, <2>2 DEF After
<1>11. PICK C, g : Shifted(2, B, f, C, g) /\ Framing(line', sent, C, g)
  BY <1>0, <1>2, <1>10, FrameAfter
<1>12. C \in SUBSET Nat /\ g \in Counts /\ Framing(line', sent', C, g)
  BY <1>1, <1>11 DEF Shifted
<1>13. 0 \in C /\ g[0] = Len(served')
  <2>1. (0 \in C <=> 2 + 0 \in B) /\ g[0] = f[2 + 0]
    BY <1>11 DEF Shifted
  <2>2. 2 \in B /\ f[2] = Len(served')
    BY <1>3, <1>9 DEF Due
  <2> QED BY <2>1, <2>2
<1>14. Ahead(C, g)'
  BY <1>8, <1>13 DEF Ahead
<1>15. Grows(served', sent')
  <2>1. Grows(served, sent)
    BY <1>1 DEF StepInv, InFrame
  <2>2. Len(served) + 1 <= Len(sent) /\ sent[Len(served) + 1] = Received
    BY <1>3, <1>4 DEF Due
  <2>3. \A k \in 1 .. Len(served') : sent[k] = served'[k]
    BY <1>0, <1>9, <2>1, <2>2 DEF Grows
  <2> QED BY <1>1, <1>9, <2>2, <2>3 DEF Grows
<1>w. (\A i \in 0 .. Len(sent) : Pending(i)' => Pending(i)) => Waits(C, g)' /\ AskedFor'
  <2>1. line' \in Seq(Token)
    BY <1>0, <1>10, Suffix DEF After
  <2>2. AskedFor /\ sent' = sent /\ asked' = asked
    BY <1>1 DEF StepInv, InFrame, ReadFooter
  <2>3. /\ Framing(line, sent, B, f) /\ Waits(B, f)
        /\ After(2, line, line') /\ Shifted(2, B, f, C, g)
    BY <1>2, <1>10, <1>11
  <2> QED BY <1>0, <2>1, <2>2, <2>3, WaitsAfter
<1>16. Waits(C, g)' /\ AskedFor'
  <2>1. sent[Len(served) + 1] = Received /\ Received.type = header.type
    BY <1>3 DEF Due, Received, Content
  <2>2. rpc' = "reply" => sent[Len(served) + 1].type \in Answered
    BY <1>8, <2>1
  <2>3. \A i \in 0 .. Len(sent) : Pending(i)' => Pending(i)
    BY <1>0, <1>1, <1>9, <2>2, PendingServed
  <2> QED BY <1>w, <2>3
<1> QED BY <1>12, <1>14, <1>15, <1>16 DEF InFrame

\* The answer: nothing but idle time is on the line.
LEMMA FrameByReply == StepInv /\ Reply => InFrame'
<1> SUFFICES ASSUME StepInv, Reply, ~upset' PROVE InFrame'
  BY DEF InFrame
<1>0. /\ line \in Seq(Token) /\ sent \in Seq(ToMe \cup {Typed}) /\ Len(line) \in Nat
      /\ Len(served) \in Nat /\ Len(sent) \in Nat
  BY DEF StepInv, SentInv, LinkKnown
<1>1. rpc = "reply" /\ rpc' = "addr" /\ ~upset /\ UNCHANGED <<sent, served>>
  BY DEF Reply
<1>2. PICK B \in SUBSET Nat, f \in Counts : Framing(line, sent, B, f) /\ Ahead(B, f) /\ Waits(B, f)
  BY <1>1 DEF StepInv, InFrame
<1>3. PICK k \in 0 .. Len(line) : line' = SubSeq(line, k + 1, Len(line))
  BY DEF Reply
<1>4. \A i \in 0 .. Len(line) : i \in B /\ f[i] = Len(served)
  <2>1. 0 \in B /\ f[0] = Len(served)
    BY <1>1, <1>2 DEF Ahead
  <2>2. Pending(f[0])
    BY <1>1, <2>1 DEF Pending
  <2> QED BY <1>2, <2>1, <2>2 DEF Waits
<1>5. Len(served) = Len(sent)
  <2>1. Len(line) \in 0 .. Len(line)
    BY <1>0
  <2> QED BY <1>2, <1>4, <2>1 DEF Framing
<1>6. After(k, line, line')
  BY <1>3 DEF After
<1>7. PICK C, g : Shifted(k, B, f, C, g) /\ Framing(line', sent, C, g)
  BY <1>0, <1>2, <1>6, FrameAfter
<1>8. C \in SUBSET Nat /\ g \in Counts /\ Framing(line', sent', C, g)
  BY <1>1, <1>7 DEF Shifted
<1>9. 0 \in C /\ g[0] = Len(served')
  <2>1. (0 \in C <=> k + 0 \in B) /\ g[0] = f[k + 0]
    BY <1>7 DEF Shifted
  <2>2. k + 0 = k
    OBVIOUS
  <2> QED BY <1>1, <1>4, <2>1, <2>2
<1>10. Ahead(C, g)'
  BY <1>1, <1>9 DEF Ahead
<1>11. \A i \in 0 .. Len(sent') : ~Pending(i)'
  BY <1>0, <1>1, <1>5 DEF Pending
<1>12. AskedFor'
  BY <1>11 DEF AskedFor
<1>13. Waits(C, g)'
  <2>1. \A b \in C : g[b] \in 0 .. Len(sent')
    BY <1>0, <1>1, <1>8 DEF Framing, Counts
  <2> QED BY <1>11, <2>1 DEF Waits
<1>14. Grows(served', sent')
  BY <1>1 DEF StepInv, InFrame
<1> QED BY <1>8, <1>10, <1>12, <1>13, <1>14 DEF InFrame

\* The empty line is framed.
LEMMA StepInit == LinkInit => StepInv
<1> SUFFICES ASSUME LinkInit PROVE StepInv
  OBVIOUS
<1>1. line = <<>> /\ sent = <<>> /\ served = <<>> /\ rpc = "addr"
  BY DEF LinkInit
<1>2. PICK f \in Counts : \A b \in Nat : f[b] = 0
  <2> DEFINE f == [b \in Nat |-> 0]
  <2>1. f \in Counts /\ \A b \in Nat : f[b] = 0
    BY DEF Counts
  <2> HIDE DEF f
  <2> QED BY <2>1
<1>3. Framing(line, sent, {0}, f)
  BY <1>1, <1>2 DEF Framing
<1>4. Ahead({0}, f)
  BY <1>1, <1>2 DEF Ahead
<1>5. Grows(served, sent)
  BY <1>1 DEF Grows
<1>6. {0} \in SUBSET Nat
  OBVIOUS
<1>7. Waits({0}, f) /\ AskedFor
  BY <1>1, <1>2 DEF Waits, AskedFor, Pending
<1>8. InFrame
  BY <1>3, <1>4, <1>5, <1>6, <1>7 DEF InFrame
<1> QED BY <1>8, SentInit DEF StepInv

\* Every step keeps the line framed, or loses bytes.
LEMMA StepStep == StepInv /\ [LinkNext]_linkVars => StepInv'
<1> SUFFICES ASSUME StepInv, [LinkNext]_linkVars PROVE StepInv'
  OBVIOUS
<1>1. SentInv'
  BY SentStep DEF StepInv
<1>2. InFrame'
  <2>1. CASE LinkNext
    BY <2>1, FrameByMaster, FrameByAddr, FrameBySilence, FrameByWait, FrameByHeader, FrameByData, FrameByFooter,
       FrameByReply
    DEF LinkNext, Board
  <2>2. CASE UNCHANGED linkVars
    <3>1. InFrame' <=> InFrame
      BY <2>2 DEF linkVars, InFrame, Ahead, Due, Received, Waits, AskedFor, Pending
    <3> QED BY <3>1 DEF StepInv
  <2> QED BY <2>1, <2>2
<1> QED BY <1>1, <1>2 DEF StepInv

\* As long as no byte is lost, and the master waits for the answers it asks for,
\* the messages served are those sent, in order, and all of them when the line
\* is empty, whatever passes for other boards between them (comm.c:62-134,
\* rs485.c:79-105).
THEOREM StaysInStep == LinkSpec => []InStep
<1>1. LinkSpec => []StepInv
  BY StepInit, StepStep, PTL DEF LinkSpec
<1>2. StepInv => InStep
  <2> SUFFICES ASSUME StepInv, ~upset
               PROVE  IsPrefix(served, sent) /\ (line = <<>> /\ rpc = "addr" => served = sent)
    BY DEF InStep
  <2> DEFINE S == Heard \cup ToMe \cup {Typed, Stale}
  <2>1. served \in Seq(S) /\ sent \in Seq(S) /\ Len(served) \in Nat /\ Len(sent) \in Nat
    <3>1. served \in Seq(Heard \cup {Typed, Stale}) /\ sent \in Seq(ToMe \cup {Typed})
      BY DEF StepInv, SentInv, LinkKnown
    <3>2. (Heard \cup {Typed, Stale}) \subseteq S /\ (ToMe \cup {Typed}) \subseteq S
      OBVIOUS
    <3> QED BY <3>1, <3>2, SeqMonotonic
  <2> HIDE DEF S
  <2>2. Len(served) <= Len(sent) /\ \A k \in 1 .. Len(served) : sent[k] = served[k]
    BY DEF StepInv, InFrame, Grows
  <2>3. SubSeq(served, 1, Len(served)) = SubSeq(sent, 1, Len(served))
    <3> DEFINE p == SubSeq(served, 1, Len(served))
               q == SubSeq(sent, 1, Len(served))
    <3>1. \A k \in 1 .. Len(served) : served[k] \in S /\ sent[k] \in S
      BY <2>1, <2>2
    <3>2. p \in Seq(S) /\ Len(p) = Len(served) /\ \A k \in 1 .. Len(served) : p[k] = served[k]
      <4>1. p = served
        BY <2>1, SubSeqFull
      <4> QED BY <2>1, <4>1
    <3>3. /\ q \in Seq(S) /\ Len(q) = (IF 1 <= Len(served) THEN Len(served) - 1 + 1 ELSE 0)
          /\ \A k \in 1 .. Len(served) - 1 + 1 : q[k] = sent[1 + k - 1]
      BY <2>1, <3>1, SubSeqProperties
    <3> HIDE DEF p, q
    <3>4. Len(q) = Len(served) /\ \A k \in 1 .. Len(served) : q[k] = sent[k]
      BY <2>1, <3>3
    <3>5. \A k \in 1 .. Len(p) : p[k] = q[k]
      BY <2>2, <3>2, <3>4
    <3>6. p = q
      BY <3>2, <3>3, <3>4, <3>5, SeqEqual
    <3> QED BY <3>6 DEF p, q
  <2>4. IsPrefix(served, sent)
    BY <2>2, <2>3 DEF IsPrefix
  <2>5. ASSUME line = <<>>, rpc = "addr" PROVE served = sent
    <3>1. PICK B \in SUBSET Nat, f \in Counts : Framing(line, sent, B, f) /\ Ahead(B, f) /\ Waits(B, f)
      BY DEF StepInv, InFrame
    <3>2. f[0] = Len(served)
      BY <2>5, <3>1 DEF Ahead
    <3>3. f[0] = Len(sent)
      BY <2>5, <3>1 DEF Framing
    <3> QED BY <2>1, <2>2, <3>2, <3>3, SeqEqual
  <2> QED BY <2>4, <2>5
<1> QED BY <1>1, <1>2, PTL

=============================================================================
