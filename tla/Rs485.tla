------------------------------- MODULE Rs485 -------------------------------
(***************************************************************************)
(* The serial driver of actuator/rs485.c.  The main thread reads and       *)
(* writes through DMA and sleeps on the binary semaphore `ready', which    *)
(* the callbacks of the UART driver signal: at the end of a reception, at  *)
(* the end of a transmission, and at any reception error.                  *)
(*                                                                         *)
(* The semaphore does not say what it was signalled for.  A signal nobody  *)
(* waits for stays and ends the next operation before it has begun: such   *)
(* an operation is called spoiled here.                                    *)
(*                                                                         *)
(* A woken thread runs later, so callbacks may come in between; one that   *)
(* finds the semaphore signalled runs on with the system locked, so none   *)
(* can.  Waiting for an idle line changes nothing this module tells apart. *)
(***************************************************************************)
EXTENDS Integers

CONSTANT MaxLen     \* longest read or write

ASSUME MaxLenAssumption == MaxLen \in Nat \ {0}

VARIABLES
    ready,     \* the semaphore is signalled
    e,         \* an error was reported since data last came in whole
    pc,        \* where readt or writet is
    n,         \* the number of bytes asked for, then the value returned
    err,       \* result of the wait: "OK" or "TIMEOUT"
    spoiled,   \* history: the semaphore was signalled when it was waited for
    fresh,     \* history: no operation has ended since rs485Start
    faulty,    \* history: the line has misbehaved, in one of four ways: a
               \* reception error, a message that stops short, a byte nobody
               \* waits for, a write not given the time it takes
    moved,     \* history: bytes received or sent for the latest operation
    rx,        \* bytes the receive DMA still waits for, 0 when stopped
    tx,        \* bytes the transmit DMA has still to fetch, 0 when stopped
    tc,        \* transmission complete: nothing left in the UART
    txend,     \* the end of the transmit DMA has not been reported yet
    txen       \* GPIOB_RS485_TXEN: this board drives the bus

semVars == <<ready, e>>
opVars == <<n, err, spoiled, fresh, faulty>>
rxVars == <<moved, rx>>
txVars == <<tx, tc, txend, txen>>
rs485Vars == <<semVars, pc, opVars, rxVars, txVars>>

Rs485TypeOK ==
    /\ ready \in BOOLEAN /\ e \in BOOLEAN
    /\ pc \in {"idle", "waitRx", "endRx", "waitTx", "drainTx", "endTx"}
    /\ n \in 0 .. MaxLen
    /\ err \in {"OK", "TIMEOUT"}
    /\ spoiled \in BOOLEAN /\ fresh \in BOOLEAN /\ faulty \in BOOLEAN
    /\ moved \in 0 .. MaxLen
    /\ rx \in 0 .. MaxLen
    /\ tx \in 0 .. MaxLen
    /\ tc \in BOOLEAN /\ txend \in BOOLEAN /\ txen \in BOOLEAN

\* rs485ObjectInit: chBSemInit(&ready, FALSE) makes the semaphore signalled.
Rs485Init ==
    /\ ready = TRUE /\ e = FALSE
    /\ pc = "idle" /\ n = 0 /\ err = "OK"
    /\ spoiled = FALSE /\ fresh = TRUE /\ faulty = FALSE
    /\ moved = 0 /\ rx = 0
    /\ tx = 0 /\ tc = TRUE /\ txend = FALSE /\ txen = FALSE

(***************************************************************************)
(* The semaphore                                                           *)
(***************************************************************************)

\* chBSemSignalI: hands over to the thread that waits, or is remembered.
Signal ==
    CASE pc = "waitRx" -> pc' = "endRx" /\ err' = "OK" /\ UNCHANGED ready
      [] pc = "waitTx" -> pc' = "drainTx" /\ err' = "OK" /\ UNCHANGED ready
      [] OTHER -> ready' = TRUE /\ UNCHANGED <<pc, err>>

\* The start of chBSemWaitTimeoutS: sleep, or run on if it is signalled.
Wait(asleep, awake) ==
    /\ pc' = IF ready THEN awake ELSE asleep
    /\ spoiled' = ready
    /\ ready' = FALSE
    /\ err' = "OK"

\* Callbacks are held off while the system is locked, and one held off runs
\* as soon as it is unlocked.
Interruptible == pc \in {"idle", "waitRx", "waitTx"} \/ ~spoiled
Unlocked == pc = "idle" /\ ~txend

(***************************************************************************)
(* readt                                                                   *)
(***************************************************************************)

\* Mutant: the receive DMA waits for one byte more.
StartReadOneMore ==
    /\ Unlocked
    /\ n' \in 1 .. MaxLen
    /\ rx' = n' + 1
    /\ moved' = 0
    /\ Wait("waitRx", "endRx")
    /\ UNCHANGED <<e, fresh, faulty, txVars>>

StartRead ==
    /\ Unlocked
    /\ n' \in 1 .. MaxLen
    /\ rx' = n'               \* uartStartReceiveI, whatever went on before
    /\ moved' = 0
    /\ Wait("waitRx", "endRx")
    /\ UNCHANGED <<e, fresh, faulty, txVars>>

ReadTimeout ==
    /\ pc = "waitRx"
    /\ faulty' = TRUE
    /\ err' = "TIMEOUT"
    /\ pc' = "endRx"
    /\ UNCHANGED <<semVars, n, spoiled, fresh, rxVars, txVars>>

\* uartStopReceiveI returns the number of bytes not received.
EndRead ==
    /\ pc = "endRx"
    /\ pc' = "idle"
    /\ fresh' = FALSE
    /\ IF err # "OK" \/ e
         THEN n' = rx /\ rx' = 0
         ELSE UNCHANGED <<n, rx>>
    /\ UNCHANGED <<semVars, err, spoiled, faulty, moved, txVars>>

(***************************************************************************)
(* writet                                                                  *)
(***************************************************************************)

\* Mutant: answers before anything has been read.
StartWriteAtOnce ==
    /\ Unlocked
    /\ n' \in 1 .. MaxLen
    /\ tx' = n' /\ tc' = FALSE
    /\ txen' = TRUE
    /\ moved' = 0
    /\ Wait("waitTx", "drainTx")
    /\ UNCHANGED <<e, fresh, faulty, rx, txend>>

\* main.c reads first.  The UART is empty, so the DMA hands it the first byte
\* before the processor can look at the status register.
StartWrite ==
    /\ Unlocked /\ ~fresh
    /\ n' \in 1 .. MaxLen
    /\ tx' = n' /\ tc' = FALSE
    /\ txen' = TRUE
    /\ moved' = 0
    /\ Wait("waitTx", "drainTx")
    /\ UNCHANGED <<e, fresh, faulty, rx, txend>>

WriteTimeout ==
    /\ pc = "waitTx"
    /\ faulty' = TRUE          \* the firmware writes without a timeout
    /\ err' = "TIMEOUT"
    /\ pc' = "endTx"
    /\ UNCHANGED <<semVars, n, spoiled, fresh, rxVars, txVars>>

\* Mutant: releases the bus when the DMA has fetched the last byte.
EndWriteEarly ==
    /\ pc = "drainTx"
    /\ pc' = "idle"
    /\ fresh' = FALSE
    /\ txen' = FALSE
    /\ UNCHANGED <<semVars, n, err, spoiled, faulty, rxVars, tx, tc, txend>>

EndWrite ==
    /\ pc = "drainTx"
    /\ tc
    /\ pc' = "idle"
    /\ fresh' = FALSE
    /\ txen' = FALSE
    /\ UNCHANGED <<semVars, n, err, spoiled, faulty, rxVars, tx, tc, txend>>

\* uartStopSendI returns the number of bytes not sent.
StopWrite ==
    /\ pc = "endTx"
    /\ pc' = "idle"
    /\ fresh' = FALSE
    /\ n' = tx /\ tx' = 0 /\ txend' = FALSE
    /\ txen' = FALSE
    /\ UNCHANGED <<semVars, err, spoiled, faulty, rxVars, tc>>

Rs485Thread ==
    \/ StartRead \/ ReadTimeout \/ EndRead
    \/ StartWrite \/ WriteTimeout \/ EndWrite \/ StopWrite

(***************************************************************************)
(* The UART, its DMA and the callbacks                                     *)
(***************************************************************************)

\* writet turns the receiver off while it transmits.
Receiving == ~txen /\ Interruptible

\* A byte for the receive DMA; the last one ends in rxend_cb.  A byte that
\* finds the DMA stopped is dropped, for there is no rxchar_cb.
ByteReceived ==
    /\ Receiving
    /\ faulty' = (faulty \/ pc # "waitRx")
    /\ rx > 0
    /\ rx' = rx - 1
    /\ moved' = IF pc = "idle" THEN moved ELSE moved + 1
    /\ IF rx' = 0 THEN Signal /\ e' = FALSE ELSE UNCHANGED <<semVars, pc, err>>
    /\ UNCHANGED <<n, spoiled, fresh, txVars>>

\* Mutant: signals but does not record the error.
rxerr_cb_forgets ==
    /\ Receiving
    /\ faulty' = TRUE
    /\ Signal
    /\ UNCHANGED <<e, n, spoiled, fresh, rxVars, txVars>>

rxerr_cb ==
    /\ Receiving
    /\ faulty' = TRUE
    /\ Signal
    /\ e' = TRUE
    /\ UNCHANGED <<n, spoiled, fresh, rxVars, txVars>>

ByteFetched ==
    /\ tx > 0
    /\ tx' = tx - 1
    /\ moved' = moved + 1
    /\ txend' = (tx' = 0)
    /\ UNCHANGED <<semVars, pc, opVars, rx, tc, txen>>

\* Mutant: does not signal.
txend1_cb_silent ==
    /\ txend /\ Interruptible
    /\ txend' = FALSE
    /\ UNCHANGED <<semVars, pc, opVars, rxVars, tx, tc, txen>>

txend1_cb ==
    /\ txend /\ Interruptible
    /\ txend' = FALSE
    /\ Signal
    /\ UNCHANGED <<e, n, spoiled, fresh, faulty, rxVars, tx, tc, txen>>

LastByteSent ==
    /\ tx = 0 /\ ~tc
    /\ tc' = TRUE
    /\ UNCHANGED <<semVars, pc, opVars, rxVars, tx, txend, txen>>

Rs485Next ==
    \/ Rs485Thread
    \/ ByteReceived \/ rxerr_cb
    \/ ByteFetched \/ txend1_cb \/ LastByteSent

Rs485Spec == Rs485Init /\ [][Rs485Next]_rs485Vars

\* The UART sends what it is given, its interrupts are served, and the main
\* thread goes on with a write it has begun.
Rs485Fairness ==
    /\ WF_rs485Vars(ByteFetched) /\ WF_rs485Vars(txend1_cb) /\ WF_rs485Vars(LastByteSent)
    /\ WF_rs485Vars(EndWrite) /\ WF_rs485Vars(StopWrite)

Rs485FairSpec == Rs485Spec /\ Rs485Fairness

(***************************************************************************)
(* Properties                                                              *)
(***************************************************************************)

\* A write that does not time out keeps the bus until its last byte has left
\* the UART, even when a stale signal ends the wait at once: the loop over
\* USART_SR_TC makes up for it (rs485.c:93-103).
WholeBeforeRelease ==
    [][(txen /\ ~txen' /\ err = "OK") => moved = n /\ tc]_rs485Vars

\* A read that reports success and did not find the semaphore signalled has
\* all its bytes and has stopped the DMA, whatever errors, timeouts and late
\* bytes came before it or between its wake-up and its return
\* (rs485.c:27-59,118-126).
UnspoiledReadIsWhole ==
    (pc = "endRx" /\ err = "OK" /\ ~e /\ ~spoiled) => moved = n /\ rx = 0

\* The board never keeps the bus: every write ends, spoiled or not.
BusIsReleased == txen ~> ~txen

\* As long as the line has not misbehaved only the first operation, the read
\* of main.c:155, is spoiled: it takes the signal the semaphore starts with,
\* and no write or read leaves a new one behind (rs485.c:19-34,92-103,176).
OnlyFirstIsSpoiled ==
    [][(pc = "idle" /\ pc' # "idle" /\ ~fresh /\ ~faulty) => ~spoiled']_rs485Vars

\* "return number of bytes received" (rs485.c:129): also when the read timed
\* out.
ReturnsBytesReceived ==
    [][(pc = "endRx" /\ pc' = "idle" /\ err = "TIMEOUT") => n' = moved']_rs485Vars
=============================================================================
