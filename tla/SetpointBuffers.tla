-------------------------- MODULE SetpointBuffers --------------------------
(***************************************************************************)
(* The storage the comm driver (main thread) and the motion driver share:  *)
(* the pool of setpoint buffers and the mailbox that carries pointers to   *)
(* them, declared in actuator/main.c and used through the ChibiOS calls    *)
(* chPoolAlloc, chPoolFree, chMBPost, chMBFetch and chMBReset.  Each call   *)
(* is a critical section of the kernel, so each is one operator here.      *)
(*                                                                         *)
(* A buffer holds a setpoint message or, before it is filled and again     *)
(* after it is freed, nothing a reader may rely on.  Reading such a buffer *)
(* yields any value of the field's type.                                   *)
(*                                                                         *)
(* A message says itself how many slots it has, and nobody compares that   *)
(* number with what was stored: slots are all those its n counts, `given`  *)
(* is a history of the ones the command that filled the buffer wrote, and  *)
(* the others hold what the buffer held before.  A buffer is 1 KB: SlotRoom*)
(* bounds the messages of this model, because what lies behind it is the   *)
(* memory of other buffers.                                                *)
(***************************************************************************)
EXTENDS Integers, Sequences, FiniteSets

CONSTANTS
    Buffer,        \* the SETPOINT_BUF_COUNT objects of sp_memory_pool
    NULL,          \* the null pointer
    Unwritten,     \* the content of a buffer nobody has filled
    MailboxSize,   \* the length of sp_mailbox_buf
    MaxU16,        \* largest uint16_t, 0xffff
    SlotRoom,      \* slots one buffer has room for, 254 in 1 KB
    Setpoint       \* the setpoint values the properties tell apart

LOOP_INFINITE == MaxU16

U16 == 0 .. MaxU16

\* uint16_t subtraction of one, which wraps below zero.
DecrementU16(k) == IF k = 0 THEN MaxU16 ELSE k - 1

Slot == [duration : U16, setpoint : Setpoint]

\* msgtype_setpoint_t; slots are numbered from 1 here.
Message == [delay : U16, loop : U16, slots : Seq(Slot), given : SUBSET Nat]

\* What a master sends: it may announce more slots than it sends (comm.c:90-95
\* checks the size of the data against the buffer, not n against the data).
AsReceived(m) == \E r \in 0 .. Len(m.slots) : m.given = 1 .. r

\* What MSGTYPE_SMOOTH leaves: every slot but the last but one.
AsSmoothed(m) == m.given = DOMAIN m.slots \ {Len(m.slots) - 1}

\* The message comm_lld_service builds for MSGTYPE_SLEEP.
StopMessage ==
    [delay |-> 0, loop |-> 0, slots |-> <<[duration |-> 0, setpoint |-> 0]>>,
     given |-> 1 .. 1]

ASSUME BufferAssumption == NULL \notin Buffer /\ IsFiniteSet(Buffer)
ASSUME MaxU16Assumption == MaxU16 \in Nat \ {0}
ASSUME RoomAssumption == SlotRoom \in Nat \ {0}
ASSUME SetpointAssumption == 0 \in Setpoint
ASSUME MailboxAssumption ==        \* both are SETPOINT_BUF_COUNT in main.c
    MailboxSize \in Nat \ {0} /\ Cardinality(Buffer) <= MailboxSize
ASSUME UnwrittenAssumption == Unwritten \notin Message

VARIABLES
    pool,    \* buffers on the free list of sp_memory_pool
    mbox,    \* pointers in sp_mailbox, oldest first
    heap     \* what each buffer contains

bufferVars == <<pool, mbox, heap>>

InitBuffers ==
    /\ pool = Buffer
    /\ mbox = <<>>
    /\ heap = [b \in Buffer |-> Unwritten]

BuffersTypeOK ==
    /\ pool \subseteq Buffer
    /\ mbox \in Seq(Buffer \cup {NULL})
    /\ heap \in [Buffer -> Message \cup {Unwritten}]

(***************************************************************************)
(* Pool                                                                    *)
(***************************************************************************)

\* What chPoolAlloc may return: NULL exactly when the free list is empty.
Allocatable == IF pool = {} THEN {NULL} ELSE pool

chPoolAlloc(b) ==
    /\ b \in Allocatable
    /\ pool' = pool \ {b}

\* The free list link overwrites the object, so its content is gone.
chPoolFree(b) ==
    /\ pool' = pool \cup {b}
    /\ heap' = [heap EXCEPT ![b] = Unwritten]

(***************************************************************************)
(* Mailbox                                                                 *)
(***************************************************************************)

MailboxHasRoom == Len(mbox) < MailboxSize

\* TIME_IMMEDIATE: a full mailbox refuses the message.
chMBPost(p) == mbox' = IF MailboxHasRoom THEN Append(mbox, p) ELSE mbox

chMBFetch(p) ==
    /\ mbox # <<>>
    /\ p = Head(mbox)
    /\ mbox' = Tail(mbox)

\* The pointers are forgotten; the buffers they name are not freed.
chMBReset == mbox' = <<>>

Queued == {mbox[i] : i \in DOMAIN mbox} \ {NULL}

NonNull(p) == IF p = NULL THEN {} ELSE {p}

Distinct(p, q) == p = NULL \/ p # q

QueuedOnce == \A i, j \in DOMAIN mbox : i # j => Distinct(mbox[i], mbox[j])

(***************************************************************************)
(* Reading a field of the message at p: the set of values a read may give  *)
(***************************************************************************)

IsWritten(p) == p \in Buffer /\ heap[p] # Unwritten

DelayAt(p) == IF IsWritten(p) THEN {heap[p].delay} ELSE U16

LoopAt(p) == IF IsWritten(p) THEN {heap[p].loop} ELSE U16

CountAt(p) == IF IsWritten(p) THEN {Len(heap[p].slots)} ELSE U16

\* Slot i counts from 0, as in C; past the end the bytes are arbitrary.
SlotAt(p, i) ==
    IF IsWritten(p) /\ i < Len(heap[p].slots) THEN {heap[p].slots[i + 1]}
                                              ELSE Slot
=============================================================================
