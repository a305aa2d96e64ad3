---------------------------- MODULE MotionProofs ----------------------------
(***************************************************************************)
(* Facts about the buffers, the mailbox and the steps of driver_thread     *)
(* that the proofs about the actuator and about starting and stopping the  *)
(* motion driver share.                                                    *)
(***************************************************************************)
EXTENDS MotionDriver, TLAPS, FiniteSetTheorems, SequenceTheorems, WellFoundedInduction

(***************************************************************************)
(* Reading a field of a message gives a value of the field's type          *)
(***************************************************************************)

LEMMA ReadTypes ==
    ASSUME BuffersTypeOK, NEW p, NEW i \in Nat
    PROVE  /\ DelayAt(p) \subseteq U16
           /\ LoopAt(p) \subseteq U16
           /\ CountAt(p) \subseteq Nat
           /\ SlotAt(p, i) \subseteq Slot
<1>1. CASE IsWritten(p)
  <2>1. heap[p] \in Message
    BY <1>1 DEF BuffersTypeOK, IsWritten
  <2>2. heap[p].slots \in Seq(Slot) /\ heap[p].delay \in U16 /\ heap[p].loop \in U16
    BY <2>1 DEF Message
  <2>3. i < Len(heap[p].slots) => heap[p].slots[i + 1] \in Slot
    BY <2>2, ElementOfSeq
  <2> QED BY <1>1, <2>2, <2>3 DEF DelayAt, LoopAt, CountAt, SlotAt
<1>2. CASE ~IsWritten(p)
  BY <1>2, MaxU16Assumption DEF DelayAt, LoopAt, CountAt, SlotAt, U16
<1> QED BY <1>1, <1>2

(***************************************************************************)
(* Types                                                                   *)
(***************************************************************************)

LEMMA MotionStepTypes ==
    ASSUME BuffersTypeOK, MotionTypeOK, MotionStep
    PROVE  BuffersTypeOK' /\ MotionTypeOK'
<1>1. CASE WaitReady
  BY <1>1 DEF WaitReady, bufferVars, cursorVars, BuffersTypeOK, MotionTypeOK, MotionPC
<1>2. CASE LoadNextsp
  <2>1. CASE nextsp = NULL /\ mbox # <<>>
    <3>1. mbox' \in Seq(Buffer \cup {NULL}) /\ nextsp' \in Buffer \cup {NULL}
      BY <1>2, <2>1 DEF LoadNextsp, chMBFetch, BuffersTypeOK
    <3>2. delay' \in U16
      BY <1>2, <2>1, ReadTypes DEF LoadNextsp
    <3> QED BY <1>2, <3>1, <3>2 DEF LoadNextsp, cursorVars, BuffersTypeOK, MotionTypeOK, MotionPC
  <2>2. CASE ~(nextsp = NULL /\ mbox # <<>>)
    BY <1>2, <2>2 DEF LoadNextsp, cursorVars, BuffersTypeOK, MotionTypeOK, MotionPC
  <2> QED BY <2>1, <2>2
<1>3. CASE ActivateSpAfterDelay
  <2>1. CASE nextsp # NULL /\ delay = 0
    <3>1. BuffersTypeOK'
      BY <1>3, <2>1 DEF ActivateSpAfterDelay, ReplaceSp, FreeSp, chPoolFree, BuffersTypeOK, MotionTypeOK
    <3>2. loop' \in U16 /\ duration' \in U16 /\ setpoint' \in Setpoint
      BY <1>3, <2>1, ReadTypes DEF ActivateSpAfterDelay, ReplaceSp, LoadSpData, Slot
    <3> QED BY <1>3, <2>1, <3>1, <3>2 DEF ActivateSpAfterDelay, ReplaceSp, MotionTypeOK, MotionPC
  <2>2. CASE ~(nextsp # NULL /\ delay = 0)
    BY <1>3, <2>2, MaxU16Assumption
    DEF ActivateSpAfterDelay, U16, cursorVars, BuffersTypeOK, MotionTypeOK, MotionPC
  <2> QED BY <2>1, <2>2
<1>4. CASE FreeSpIfEmpty
  BY <1>4 DEF FreeSpIfEmpty, FreeSp, chPoolFree, cursorVars, BuffersTypeOK, MotionTypeOK, MotionPC
<1>5. CASE HasNoUpdate
  BY <1>5 DEF HasNoUpdate, FreeSp, chPoolFree, cursorVars, BuffersTypeOK, MotionTypeOK, MotionPC
<1>6. CASE HasUpdate
  BY <1>6 DEF HasUpdate, bufferVars, cursorVars, BuffersTypeOK, MotionTypeOK, MotionPC
<1>7. CASE Reset
  BY <1>7 DEF Reset, bufferVars, cursorVars, BuffersTypeOK, MotionTypeOK, MotionPC
<1>8. CASE WillRender
  BY <1>8 DEF WillRender, bufferVars, cursorVars, BuffersTypeOK, MotionTypeOK, MotionPC
<1>9. CASE Render
  BY <1>9, ReadTypes, MaxU16Assumption DEF Render, NextSlot, LoadSpData, DecrementU16, Slot, U16, bufferVars, cursorVars, BuffersTypeOK, MotionTypeOK, MotionPC
<1> QED BY <1>1, <1>2, <1>3, <1>4, <1>5, <1>6, <1>7, <1>8, <1>9 DEF MotionStep

(***************************************************************************)
(* The mailbox                                                             *)
(***************************************************************************)

LEMMA QueuedUnchanged ==
    ASSUME UNCHANGED mbox
    PROVE  Queued' = Queued /\ QueuedOnce' = QueuedOnce
BY DEF Queued, QueuedOnce, Distinct

\* A post adds one pointer to the mailbox, or none when it is full.
LEMMA PostQueues ==
    ASSUME BuffersTypeOK, QueuedOnce, NEW p \in Buffer \cup {NULL}, p \notin Queued, chMBPost(p)
    PROVE  /\ QueuedOnce'
           /\ Queued' = IF MailboxHasRoom THEN Queued \cup NonNull(p) ELSE Queued
<1>1. CASE MailboxHasRoom
  <2> DEFINE n == Len(mbox)
  <2>1. n \in Nat /\ DOMAIN mbox = 1 .. n
    BY DEF BuffersTypeOK
  <2>2. /\ mbox' = Append(mbox, p)
        /\ DOMAIN mbox' = 1 .. n + 1
        /\ mbox'[n + 1] = p
        /\ \A i \in 1 .. n : mbox'[i] = mbox[i]
    BY <1>1, <2>1 DEF chMBPost, BuffersTypeOK
  <2>3. \A i \in 1 .. n : mbox[i] # p \/ p = NULL
    BY <2>1 DEF Queued
  <2>4. QueuedOnce'
    BY <2>1, <2>2, <2>3 DEF QueuedOnce, Distinct
  <2>5. Queued' = Queued \cup NonNull(p)
    BY <2>1, <2>2 DEF Queued, NonNull
  <2> QED BY <1>1, <2>4, <2>5
<1>2. CASE ~MailboxHasRoom
  BY <1>2, QueuedUnchanged DEF chMBPost
<1> QED BY <1>1, <1>2

\* A fetch removes the oldest pointer, which was in the mailbox only once.
LEMMA FetchDequeues ==
    ASSUME BuffersTypeOK, QueuedOnce, NEW p, chMBFetch(p)
    PROVE  /\ QueuedOnce'
           /\ Queued' \subseteq Queued
           /\ p # NULL => p \in Queued /\ p \notin Queued'
<1> DEFINE n == Len(mbox)
<1>1. n \in Nat \ {0} /\ DOMAIN mbox = 1 .. n
  BY DEF BuffersTypeOK, chMBFetch
<1>2. /\ p = mbox[1]
      /\ DOMAIN mbox' = 1 .. n - 1
      /\ \A i \in 1 .. n - 1 : mbox'[i] = mbox[i + 1]
  BY <1>1 DEF chMBFetch, BuffersTypeOK
<1>3. QueuedOnce'
  BY <1>1, <1>2 DEF QueuedOnce, Distinct
<1>4. Queued' \subseteq Queued
  BY <1>1, <1>2 DEF Queued
<1>5. p = NULL \/ p \in Queued
  BY <1>1, <1>2 DEF Queued
<1>6. p = NULL \/ p \notin Queued'
  BY <1>1, <1>2 DEF Queued, QueuedOnce, Distinct
<1> QED BY <1>3, <1>4, <1>5, <1>6

\* What is fetched is what the mailbox no longer names.
LEMMA FetchLeavesRest ==
    ASSUME BuffersTypeOK, NEW p, chMBFetch(p)
    PROVE  Queued = Queued' \cup NonNull(p)
<1> DEFINE n == Len(mbox)
<1>1. n \in Nat \ {0} /\ DOMAIN mbox = 1 .. n
  BY DEF BuffersTypeOK, chMBFetch
<1>2. /\ p = mbox[1]
      /\ DOMAIN mbox' = 1 .. n - 1
      /\ \A i \in 1 .. n - 1 : mbox'[i] = mbox[i + 1]
  BY <1>1 DEF chMBFetch, BuffersTypeOK
<1>3. Queued' \cup NonNull(p) \subseteq Queued
  BY <1>1, <1>2 DEF Queued, NonNull
<1>4. ASSUME NEW i \in 1 .. n, mbox[i] # NULL PROVE mbox[i] \in Queued' \cup NonNull(p)
  <2>1. CASE i = 1
    BY <1>2, <1>4, <2>1 DEF NonNull
  <2>2. CASE i # 1
    <3>1. i - 1 \in 1 .. n - 1 /\ mbox'[i - 1] = mbox[i]
      BY <1>1, <1>2, <2>2
    <3> QED BY <1>2, <1>4, <3>1 DEF Queued
  <2> QED BY <2>1, <2>2
<1> QED BY <1>1, <1>3, <1>4 DEF Queued

\* A mailbox of distinct buffers, and one buffer that is not in it, leave the
\* mailbox shorter than the number of buffers.
LEMMA OneMoreFits ==
    ASSUME BuffersTypeOK, QueuedOnce, \A i \in DOMAIN mbox : mbox[i] # NULL,
           NEW p \in Buffer, p \notin Queued
    PROVE  MailboxHasRoom
<1> DEFINE n == Len(mbox)
           f == [i \in 1 .. n + 1 |-> IF i <= n THEN mbox[i] ELSE p]
<1>1. n \in Nat /\ DOMAIN mbox = 1 .. n /\ \A i \in 1 .. n : mbox[i] \in Buffer
  BY DEF BuffersTypeOK
<1>2. \A i \in 1 .. n : mbox[i] # p
  BY <1>1 DEF Queued
<1>3. f \in Injection(1 .. n + 1, Buffer)
  <2>1. f \in [1 .. n + 1 -> Buffer]
    BY <1>1
  <2>2. \A i, j \in 1 .. n + 1 : f[i] = f[j] => i = j
    BY <1>1, <1>2 DEF QueuedOnce, Distinct
  <2> QED BY <2>1, <2>2 DEF Injection, IsInjective
<1>4. Cardinality(1 .. n + 1) <= Cardinality(Buffer)
  BY <1>3, FS_Injection, BufferAssumption
<1>5. Cardinality(1 .. n + 1) = n + 1
  BY <1>1, FS_Interval
<1> QED
  BY <1>1, <1>4, <1>5, MailboxAssumption, BufferAssumption, FS_CardinalityType DEF MailboxHasRoom

(***************************************************************************)
(* Numbers: induction, repetition, and the ticks of several passes         *)
(***************************************************************************)

\* A set of numbers that is not empty has a smallest one.
LEMMA Smallest ==
    ASSUME NEW T \in SUBSET Nat, T # {}
    PROVE  \E x \in T : \A y \in T : x <= y
<1> DEFINE R == {p \in Nat \X Nat : p[1] < p[2]}
<1>1. IsWellFoundedOn(R, Nat)
  <2>1. R = OpToRel(<, Nat)
    BY DEF OpToRel
  <2> QED BY <2>1, NatLessThanWellFounded
<1> HIDE DEF R
<1>2. PICK x \in T : \A y \in T : <<y, x>> \notin R
  BY <1>1, WFMin
<1>3. \A y \in T : ~(y < x)
  <2> TAKE y \in T
  <2>1. <<y, x>> \in Nat \X Nat /\ <<y, x>>[1] = y /\ <<y, x>>[2] = x
    OBVIOUS
  <2> QED BY <1>2, <2>1 DEF R
<1> QED BY <1>2, <1>3

\* What holds of 0, and of a number's successor if of the number, up to n,
\* holds of all numbers up to n.
LEMMA UpTo ==
    ASSUME NEW n \in Nat, NEW S, 0 \in S, \A k \in 0 .. n - 1 : k \in S => k + 1 \in S
    PROVE  0 .. n \subseteq S
<1> SUFFICES ASSUME ~(0 .. n \subseteq S) PROVE FALSE
  OBVIOUS
<1> DEFINE T == {k \in 0 .. n : k \notin S}
<1>1. T \in SUBSET Nat /\ T # {}
  OBVIOUS
<1>2. PICK x \in T : \A y \in T : x <= y
  BY <1>1, Smallest
<1>3. x # 0 /\ x \in 0 .. n /\ x \notin S
  BY <1>2
<1>4. x - 1 \in 0 .. n - 1 /\ x - 1 \in 0 .. n /\ ~(x <= x - 1)
  BY <1>3
<1>5. x - 1 \in S
  BY <1>2, <1>4
<1>6. x - 1 + 1 = x
  BY <1>3
<1> QED BY <1>3, <1>4, <1>5, <1>6

\* f repeats the steps up to the k-th, from a.
Repeats(f, a, step, k) == f[0] = a /\ \A j \in 1 .. k : f[j] = step[j][f[j - 1]]

\* Steps can be repeated from any beginning.
LEMMA Repeatable ==
    ASSUME NEW A, NEW a \in A, NEW n \in Nat, NEW step \in [1 .. n -> [A -> A]]
    PROVE  \E f \in [0 .. n -> A] : Repeats(f, a, step, n)
<1> DEFINE S == {k \in 0 .. n : \E f \in [0 .. k -> A] : Repeats(f, a, step, k)}
<1>1. 0 \in S
  <2> DEFINE f == [j \in 0 .. 0 |-> a]
  <2>1. f \in [0 .. 0 -> A] /\ f[0] = a
    OBVIOUS
  <2> HIDE DEF f
  <2>2. Repeats(f, a, step, 0)
    BY <2>1 DEF Repeats
  <2>3. \E g \in [0 .. 0 -> A] : Repeats(g, a, step, 0)
    BY <2>1, <2>2
  <2>4. 0 \in 0 .. n
    OBVIOUS
  <2> QED BY <2>3, <2>4
<1>2. ASSUME NEW k \in 0 .. n - 1, k \in S PROVE k + 1 \in S
  <2>1. PICK f \in [0 .. k -> A] : Repeats(f, a, step, k)
    BY <1>2
  <2> DEFINE g == [j \in 0 .. k + 1 |-> IF j = k + 1 THEN step[k + 1][f[k]] ELSE f[j]]
  <2>2. k + 1 \in 1 .. n /\ k \in 0 .. k /\ k \in Nat
    OBVIOUS
  <2>3. step[k + 1] \in [A -> A] /\ f[k] \in A
    BY <2>2
  <2>4. step[k + 1][f[k]] \in A
    BY <2>3
  <2>5. g \in [0 .. k + 1 -> A]
    BY <2>2, <2>4
  <2>6. g[k + 1] = step[k + 1][f[k]] /\ \A j \in 0 .. k : g[j] = f[j]
    BY <2>2
  <2> HIDE DEF g
  <2>7. Repeats(g, a, step, k + 1)
    <3>1. g[0] = a
      BY <2>1, <2>2, <2>6 DEF Repeats
    <3>2. ASSUME NEW j \in 1 .. k + 1 PROVE g[j] = step[j][g[j - 1]]
      <4>1. CASE j = k + 1
        <5>1. j - 1 = k /\ g[k] = f[k]
          BY <2>2, <2>6, <4>1
        <5> QED BY <2>6, <4>1, <5>1
      <4>2. CASE j # k + 1
        <5>1. j \in 1 .. k /\ j \in 0 .. k /\ j - 1 \in 0 .. k
          BY <2>2, <4>2
        <5> QED BY <2>1, <2>6, <5>1 DEF Repeats
      <4> QED BY <4>1, <4>2
    <3> QED BY <3>1, <3>2 DEF Repeats
  <2>8. \E h \in [0 .. k + 1 -> A] : Repeats(h, a, step, k + 1)
    BY <2>5, <2>7
  <2>9. k + 1 \in 0 .. n
    OBVIOUS
  <2> QED BY <2>8, <2>9
<1> HIDE DEF S
<1>3. n \in S
  <2>1. 0 .. n \subseteq S
    BY <1>1, <1>2, UpTo
  <2> QED BY <2>1
<1> QED BY <1>3 DEF S

\* A number below n counts from 0; the next one counts from 1.
LEMMA IndexFacts ==
    ASSUME NEW n \in Nat, NEW k \in 0 .. n - 1
    PROVE  k \in Nat /\ k < n /\ k + 1 \in 1 .. n /\ k \in 0 .. n
OBVIOUS

\* With a pass left, fewer ticks have been played than all passes take.
LEMMA PassesLeft ==
    ASSUME NEW L \in Nat, NEW l \in 1 .. L, NEW T \in Nat \ {0}, NEW r \in 0 .. T - 1
    PROVE  (L - l) * T + r < L * T
<1>1. (L - l) * T = L * T - l * T
  OBVIOUS
<1>2. l * T >= T
  OBVIOUS
<1> QED BY <1>1, <1>2

\* One pass more is the ticks of one pass more.
LEMMA OneMorePass ==
    ASSUME NEW q \in Nat, NEW T \in Nat
    PROVE  (q + 1) * T = q * T + T
OBVIOUS

\* What remains of whole passes and the start of another.
LEMMA Remainder ==
    ASSUME NEW q \in Nat, NEW T \in Nat \ {0}, NEW r \in 0 .. T - 1
    PROVE  (q * T + r) % T = r
OBVIOUS

\* The start of a pass is what remains of it, and nothing remains of a whole one.
LEMMA PassRemainder ==
    ASSUME NEW T \in Nat \ {0}, NEW r \in 0 .. T - 1
    PROVE  r % T = r /\ T % T = 0
OBVIOUS

\* With no pass left, no fewer ticks have been played than all passes take.
LEMMA AllPasses ==
    ASSUME NEW L \in Nat, NEW T \in Nat, NEW r \in Nat
    PROVE  (L - 0) * T + r >= L * T
<1>1. L - 0 = L /\ L * T \in Nat
  OBVIOUS
<1> QED BY <1>1
=============================================================================
