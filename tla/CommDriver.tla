----------------------------- MODULE CommDriver -----------------------------
(***************************************************************************)
(* The command loop of the main thread: commHandle, comm_lld_receive and   *)
(* comm_lld_service of actuator/comm.c, with commtestMotion of commtest.c. *)
(*                                                                         *)
(* cpc is the place in the loop; the motion thread, of higher priority,    *)
(* may run between any two of these steps.  A store through a null pointer *)
(* is undefined: on this microcontroller address 0 is flash, so it is      *)
(* either ignored or traps.                                                *)
(***************************************************************************)
EXTENDS SetpointBuffers

CONSTANTS
    IsPurr,        \* addrIsPurr()
    Payload,       \* what a buffer may hold once a SETPOINT was received in it
    SmoothSlots,   \* slot sequences MSGTYPE_SMOOTH may compute
    Leftover,      \* slots a buffer may still hold from its last use
    TestHold,      \* setpoint of the first message of commtestMotion
    TestDelay, TestLoop, TestSlots   \* fields of the second one

ASSUME IsPurrAssumption == IsPurr \in BOOLEAN
\* The last part of each is a restriction of the model to what fits a buffer:
\* the code checks neither the n of a SETPOINT nor that of a SMOOTH, whose
\* sequence outgrows the buffer from 12700 ms on (comm.c:249-257).
ASSUME PayloadAssumption ==
    /\ Payload \subseteq Message
    /\ \A m \in Payload : AsReceived(m) /\ Len(m.slots) <= SlotRoom
ASSUME SmoothAssumption ==
    /\ SmoothSlots \subseteq Seq(Slot) /\ Leftover \subseteq Slot
    /\ \A s \in SmoothSlots : Len(s) \in 1 .. SlotRoom
ASSUME TestAssumption ==
    /\ TestHold \in Setpoint
    /\ TestDelay \in U16 /\ TestLoop \in U16 /\ TestSlots \in Seq(Slot)

VARIABLES
    cpc,      \* where commHandle is
    cmd,      \* header.type, "NONE" between commands
    buf,      \* the message data buffer of commHandle, *dp in service
    aux,      \* interval_setpoints in SMOOTH, sb in commtestMotion
    fault     \* what stores through a null pointer have done so far

commVars == <<cpc, cmd, buf, aux, fault>>

HumanCommand == {"SLEEP", "PING", "TEST", "VALUE"}
\* OTHER is a type byte the service switch does not know.
Command == HumanCommand \cup {"SETPID", "SETPOINT", "SMOOTH", "OTHER"}

CommPC == {"idle", "data", "footer", "service", "reset", "post",
           "smoothPost", "testPost", "test2", "testPost2", "finish"}

InitComm ==
    /\ cpc = "idle" /\ cmd = "NONE"
    /\ buf = NULL /\ aux = NULL
    /\ fault = "none"

CommTypeOK ==
    /\ cpc \in CommPC
    /\ cmd \in Command \cup {"NONE"}
    /\ buf \in Buffer \cup {NULL}
    /\ aux \in Buffer \cup {NULL}
    /\ fault \in {"none", "ignored", "trapped"}

\* The loop of MSGTYPE_SMOOTH ends before slot n - 1 and the target goes to slot
\* n, so a message of n + 1 slots, n > 0, has one more than was written; its
\* value is the one the buffer held before (comm.c:249-259).
SmoothMessage ==
    {[delay |-> 0, loop |-> 1,
      slots |-> [s EXCEPT ![Len(s) - 1] = left],
      given |-> DOMAIN s \ {Len(s) - 1}] : s \in SmoothSlots, left \in Leftover}

TestFirst ==
    [delay |-> 0, loop |-> LOOP_INFINITE,
     slots |-> <<[duration |-> LOOP_INFINITE, setpoint |-> TestHold]>>,
     given |-> 1 .. 1]

TestSecond == [delay |-> TestDelay, loop |-> TestLoop, slots |-> TestSlots,
               given |-> DOMAIN TestSlots]

\* Fill the message at p, which may be null.
Store(p, m) ==
    IF p = NULL
      THEN /\ fault' \in {"ignored", "trapped"}
           /\ UNCHANGED heap
      ELSE /\ heap' = [heap EXCEPT ![p] = m]
           /\ UNCHANGED fault

\* if (buf != NULL) chPoolFree(buf)
FreeBuf ==
    /\ buf' = NULL
    /\ IF buf # NULL THEN chPoolFree(buf) ELSE UNCHANGED <<pool, heap>>

(***************************************************************************)
(* comm_lld_receive                                                        *)
(***************************************************************************)

\* A single-byte command: no size, no footer.
ReceiveHuman ==
    /\ cpc = "idle"
    /\ cmd' \in HumanCommand
    /\ cpc' = "service"
    /\ UNCHANGED <<bufferVars, buf, aux, fault>>

\* A header addressed to this board with size 0.
ReceiveHeader ==
    /\ cpc = "idle"
    /\ cmd' \in Command
    /\ cpc' = "footer"
    /\ UNCHANGED <<bufferVars, buf, aux, fault>>

\* A header with data to follow: a buffer is allocated, or the command fails
\* and commHandle starts over.
ReceiveSizedHeader ==
    /\ cpc = "idle"
    /\ chPoolAlloc(buf')
    /\ IF buf' = NULL
         THEN UNCHANGED <<cpc, cmd>>
         ELSE cmd' \in Command /\ cpc' = "data"
    /\ UNCHANGED <<mbox, heap, aux, fault>>

\* Only the data of a SETPOINT is read as a setpoint message later, with all
\* the slots its n announces, received or not.
ReceiveData ==
    /\ cpc = "data"
    /\ cpc' = "footer"
    /\ IF cmd = "SETPOINT"
         THEN \E m \in Payload : heap' = [heap EXCEPT ![buf] = m]
         ELSE UNCHANGED heap
    /\ UNCHANGED <<pool, mbox, cmd, buf, aux, fault>>

ReceiveFooter ==
    /\ cpc = "footer"
    /\ cpc' = "service"
    /\ UNCHANGED <<bufferVars, cmd, buf, aux, fault>>

\* Mutant: returns without freeing what it received.
ReceiveErrorLeaks ==
    /\ cpc \in {"data", "footer"}
    /\ buf' = NULL
    /\ cpc' = "idle" /\ cmd' = "NONE"
    /\ UNCHANGED <<bufferVars, aux, fault>>

\* The data or the footer timed out, or the checksum is wrong.
ReceiveError ==
    /\ cpc \in {"data", "footer"}
    /\ FreeBuf
    /\ cpc' = "idle" /\ cmd' = "NONE"
    /\ UNCHANGED <<mbox, aux, fault>>

(***************************************************************************)
(* comm_lld_service                                                        *)
(***************************************************************************)

ServiceSleep ==
    /\ cpc = "service" /\ cmd = "SLEEP"
    /\ cpc' = "reset"
    /\ IF buf = NULL THEN chPoolAlloc(buf') ELSE UNCHANGED <<pool, buf>>
    /\ Store(buf', StopMessage)
    /\ UNCHANGED <<mbox, cmd, aux>>

SleepReset ==
    /\ cpc = "reset"
    /\ cpc' = "post"
    /\ chMBReset
    /\ UNCHANGED <<pool, heap, cmd, buf, aux, fault>>

\* Mutant: forgets that the message now belongs to the motion driver.
SleepPostKeeps ==
    /\ cpc = "post"
    /\ cpc' = "finish"
    /\ chMBPost(buf)
    /\ UNCHANGED <<pool, heap, cmd, buf, aux, fault>>

\* The post of SLEEP: ownership passes to the motion driver if it succeeds.
\* The post and *dp = NULL are one step here and in the other posts: only the
\* main thread reads *dp, so nobody can tell a motion thread that runs between
\* the two from one that runs after them.
SleepPost ==
    /\ cpc = "post"
    /\ cpc' = "finish"
    /\ chMBPost(buf)
    /\ buf' = IF MailboxHasRoom THEN NULL ELSE buf
    /\ UNCHANGED <<pool, heap, cmd, aux, fault>>

\* Mutant: frees in commHandle what it has posted.
ServiceSetpointKeeps ==
    /\ cpc = "service" /\ cmd = "SETPOINT"
    /\ cpc' = "finish"
    /\ IF buf # NULL THEN chMBPost(buf) ELSE UNCHANGED mbox
    /\ UNCHANGED <<pool, heap, cmd, buf, aux, fault>>

ServiceSetpoint ==
    /\ cpc = "service" /\ cmd = "SETPOINT"
    /\ cpc' = "finish"
    /\ IF buf # NULL
         THEN /\ chMBPost(buf)
              /\ buf' = IF MailboxHasRoom THEN NULL ELSE buf
         ELSE UNCHANGED <<mbox, buf>>
    /\ UNCHANGED <<pool, heap, cmd, aux, fault>>

ServiceSmooth ==
    /\ cpc = "service" /\ cmd = "SMOOTH"
    /\ IF buf = NULL \/ IsPurr
         THEN /\ cpc' = "finish"
              /\ UNCHANGED <<pool, heap, aux, fault>>
         ELSE /\ cpc' = "smoothPost"
              /\ chPoolAlloc(aux')
              /\ \E m \in SmoothMessage : Store(aux', m)
    /\ UNCHANGED <<mbox, cmd, buf>>

\* interval_setpoints is posted but it is *dp that is forgotten.
SmoothPost ==
    /\ cpc = "smoothPost"
    /\ cpc' = "finish"
    /\ chMBPost(aux)
    /\ buf' = IF MailboxHasRoom THEN NULL ELSE buf
    /\ aux' = NULL
    /\ UNCHANGED <<pool, heap, cmd, fault>>

\* PING, VALUE, SETPID and unknown types leave the buffers alone.
ServiceOther ==
    /\ cpc = "service" /\ cmd \in {"PING", "VALUE", "SETPID", "OTHER"}
    /\ cpc' = "finish"
    /\ UNCHANGED <<bufferVars, cmd, buf, aux, fault>>

(***************************************************************************)
(* commtestMotion: allocate, fill and post two messages in turn            *)
(***************************************************************************)

\* Mutant: does not fill the message.
TestAllocUnfilled(m, posting, skipping) ==
    /\ chPoolAlloc(aux')
    /\ cpc' = IF aux' # NULL THEN posting ELSE skipping
    /\ UNCHANGED <<mbox, heap, cmd, buf, fault>>

TestAlloc(m, posting, skipping) ==
    /\ chPoolAlloc(aux')
    /\ IF aux' # NULL
         THEN /\ heap' = [heap EXCEPT ![aux'] = m]
              /\ cpc' = posting
         ELSE /\ cpc' = skipping
              /\ UNCHANGED heap
    /\ UNCHANGED <<mbox, cmd, buf, fault>>

\* TIME_INFINITE: wait for room.
TestPost(next) ==
    /\ MailboxHasRoom
    /\ chMBPost(aux)
    /\ aux' = NULL
    /\ cpc' = next
    /\ UNCHANGED <<pool, heap, cmd, buf, fault>>

ServiceTest ==
    \/ cpc = "service" /\ cmd = "TEST" /\ TestAlloc(TestFirst, "testPost", "test2")
    \/ cpc = "testPost" /\ TestPost("test2")
    \/ cpc = "test2" /\ TestAlloc(TestSecond, "testPost2", "finish")
    \/ cpc = "testPost2" /\ TestPost("finish")

(***************************************************************************)
(* commHandle                                                              *)
(***************************************************************************)

\* Free the buffer unless the service passed it on, and start over.
Finish ==
    /\ cpc = "finish"
    /\ FreeBuf
    /\ cpc' = "idle" /\ cmd' = "NONE"
    /\ UNCHANGED <<mbox, aux, fault>>

ReceiveCommand == ReceiveHuman \/ ReceiveHeader \/ ReceiveSizedHeader

\* Everything commHandle does once it has read the first byte of a command.
HandleCommand ==
    \/ ReceiveData \/ ReceiveFooter \/ ReceiveError
    \/ ServiceSleep \/ SleepReset \/ SleepPost
    \/ ServiceSetpoint \/ ServiceSmooth \/ SmoothPost
    \/ ServiceOther \/ ServiceTest \/ Finish
=============================================================================
