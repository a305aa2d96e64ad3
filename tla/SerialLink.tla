----------------------------- MODULE SerialLink -----------------------------
(***************************************************************************)
(* How comm_lld_receive of actuator/comm.c cuts the bytes of the RS-485    *)
(* line into messages.                                                     *)
(*                                                                         *)
(* The line is shared: the master addresses one board after another, or    *)
(* types one-letter commands.  A board that reads another's address skips  *)
(* to the next idle character time; one that loses bytes goes on reading   *)
(* in the middle of a message.  Reads after the first byte time out, and a *)
(* read that times out before its first byte counts as complete            *)
(* (uartStopReceiveI returns the number of bytes NOT received), with       *)
(* whatever its destination held before.                                   *)
(*                                                                         *)
(* The line carries one direction at a time.  A board that answers mutes   *)
(* its receiver until the line is idle, and hears nothing while it sends:  *)
(* what the master sends before the answer has ended may be swallowed.     *)
(* The answers of other boards are not on the modelled line.               *)
(*                                                                         *)
(* Bytes are tokens: types and sizes that matter, and for a footer the     *)
(* content it was computed from, as if no two contents had one checksum.   *)
(***************************************************************************)
EXTENDS Integers, SequencesExt

CONSTANTS
    Me, Other,      \* board addresses
    Letter,         \* a human-testable command that is answered, MSGTYPE_TEST say
    PING, SETPOINT, \* types of messages in an envelope, answered and not
    Zero, One,      \* sizes; any other byte is too large a size
    Gap,            \* idle for a character, shorter than every timeout
    Silence,        \* idle for longer than all timeouts together
    MaxSent,        \* bounds the messages between two silences
    MaxLine         \* bounds the bytes on the line

ASSUME BoundAssumption == MaxSent \in Nat /\ MaxLine \in Nat

\* The bytes these names stand for are different.
Named == <<Me, Other, Letter, PING, SETPOINT, Zero, One, Gap, Silence>>
ASSUME ByteAssumption == IsInjective(Named)

VARIABLES
    line,       \* what is on the line: bytes, Gap and Silence
    rpc,        \* the read comm_lld_receive is in, or the answer being sent
    header,     \* type and size
    data,       \* the data buffer
    stale,      \* history: a read of this message was complete without a byte
    sent,       \* history: the messages sent to this board since the silence
    served,     \* history: the messages this board has served since then
    asked,      \* history: the master sent what is answered, and no answer has ended since
    upset,      \* history: bytes were lost since then, or the master did not wait
    count       \* messages since then, for the bound

linkVars == <<line, rpc, header, data, stale, sent, served, asked, upset, count>>

Idle == {Gap, Silence}

(***************************************************************************)
(* The master                                                              *)
(***************************************************************************)

Content(addr, type, body) == [addr |-> addr, type |-> type, body |-> body]

Footer(content) == << <<content, 1>>, <<content, 2>> >>

Bytes(content) ==
    <<content.addr, content.type, IF content.body = <<>> THEN Zero ELSE One>>
        \o content.body \o Footer(content)

ToMe == {Content(Me, PING, <<>>), Content(Me, SETPOINT, <<Letter>>)}

\* Other boards' messages may hold anything.
ToOther == {Content(Other, SETPOINT, <<b>>) : b \in {Me, Letter}}

Typed == Content(Letter, Letter, <<>>)

\* The types comm_lld_service prints an answer to.
Answered == {PING, Letter}

\* What may be on the line, and what this board may make of it.
Token == Range(Named) \cup {<<c, half>> : c \in ToMe \cup ToOther, half \in {1, 2}}
Heard == {Content(Me, type, body) : type \in Token, body \in {<<>>} \cup {<<b>> : b \in Token}}

\* No checksum is mistaken for one of the other bytes.
ASSUME ChecksumAssumption ==
    \A c \in Heard \cup ToOther, half \in {1, 2} : <<c, half>> \notin Range(Named)

Has(token) == token \in {line[k] : k \in DOMAIN line}

Puts(bytes) ==
    /\ ~Has(Silence)
    /\ line' = line \o bytes
    /\ UNCHANGED <<rpc, header, data, stale, served>>

\* The master need not wait for the answer to what it asked.
Sends(bytes) ==
    /\ count < MaxSent /\ count' = count + 1
    /\ Len(line) + Len(bytes) <= MaxLine
    /\ Puts(bytes)
    /\ upset' = (upset \/ asked)

SendToMe ==
    \E c \in ToMe, gap \in {<<>>, <<Gap>>} :
        /\ Sends(Bytes(c) \o gap) /\ sent' = Append(sent, c)
        /\ asked' = (asked \/ c.type \in Answered)

\* The next message comes after a gap, or it would be skipped too.
SendToOther == \E c \in ToOther : Sends(Bytes(c) \o <<Gap>>) /\ UNCHANGED <<sent, asked>>

TypeLetter == Sends(<<Letter>>) /\ sent' = Append(sent, Typed) /\ asked' = TRUE

FallSilent == Puts(<<Silence>>) /\ UNCHANGED <<sent, asked, upset, count>>

\* One burst of bytes between two silences is lost: to noise, or because it
\* came while no reception was armed.
Lose ==
    /\ ~upset /\ ~Has(Silence)
    /\ \E a, b \in DOMAIN line :
         a <= b /\ line' = SubSeq(line, 1, a - 1) \o SubSeq(line, b + 1, Len(line))
    /\ upset' = TRUE
    /\ UNCHANGED <<rpc, header, data, stale, sent, served, asked, count>>

(***************************************************************************)
(* Reads of the RS-485 driver                                              *)
(***************************************************************************)

IsByte(token) == token \notin Idle

\* The bytes among the first `last' places of the line are those at these places.
BytesAt(places, last) ==
    /\ \A m \in DOMAIN places : IsByte(line[places[m]]) /\ places[m] <= last
    /\ \A m \in DOMAIN places \ {1} : places[m - 1] < places[m]
    /\ \A k \in 1 .. last : IsByte(line[k]) => \E m \in DOMAIN places : places[m] = k

Taken(places) == [m \in DOMAIN places |-> line[places[m]]]

\* The outcomes of a read of n bytes: complete with the n-th, or timed out in
\* the silence with fewer.  None while it still waits.
Complete(n) ==
    {[bytes |-> Taken(places), rest |-> SubSeq(line, places[n] + 1, Len(line))] :
        places \in {f \in [1 .. n -> DOMAIN line] : BytesAt(f, f[n])}}

TimedOut(n) ==
    {[bytes |-> Taken(places), rest |-> <<Silence>>] :
        places \in UNION {{f \in [1 .. k -> DOMAIN line] : Has(Silence) /\ BytesAt(f, Len(line))} : k \in 0 .. n - 1}}

Read(n) == Complete(n) \cup TimedOut(n)

\* The count of a read that timed out is what it did not receive.
Accepted(r, n) == Len(r.bytes) = n \/ Len(r.bytes) = 0

(***************************************************************************)
(* comm_lld_receive, and comm_lld_service of what it returns               *)
(***************************************************************************)

Fail == rpc' = "addr" /\ UNCHANGED <<header, data, served>>

\* Mutant: goes on with the next byte.
ReadsOn == "addr"

\* rs485Wait.
IgnoreMessage == "wait"

\* The first byte is waited for without a timeout.
ReadAddr ==
    /\ rpc = "addr" /\ line # <<>> /\ line[1] # Silence
    /\ line' = Tail(line)
    /\ IF line[1] = Letter
         THEN served' = Append(served, Typed) /\ rpc' = "reply"
         ELSE /\ rpc' = IF line[1] = Gap THEN "addr"
                        ELSE IF line[1] = Me THEN "header" ELSE IgnoreMessage
              /\ UNCHANGED served
    /\ stale' = FALSE
    /\ UNCHANGED <<header, data, sent, asked, upset, count>>

\* The silence passes without a byte: the messages after it start afresh.
Resynchronise ==
    /\ rpc = "addr" /\ line = <<Silence>>
    /\ line' = <<>>
    /\ sent' = <<>> /\ served' = <<>> /\ asked' = FALSE /\ upset' = FALSE /\ count' = 0
    /\ UNCHANGED <<rpc, header, data, stale>>

\* The idle line ends the wait; it stays silent for what is read next.
WaitIdle ==
    /\ rpc = "wait"
    /\ \E k \in DOMAIN line :
         /\ line[k] \in Idle /\ \A j \in 1 .. k - 1 : IsByte(line[j])
         /\ line' = SubSeq(line, IF line[k] = Gap THEN k + 1 ELSE k, Len(line))
    /\ rpc' = "addr"
    /\ UNCHANGED <<header, data, stale, sent, served, asked, upset, count>>

\* What the header may hold when nothing was received.
StaleHeader == {[type |-> PING, size |-> Zero], [type |-> SETPOINT, size |-> One]}

AfterHeader(h) ==
    IF h.size \in {Zero, One}
      THEN /\ header' = h
           /\ rpc' = IF h.size = Zero THEN "footer" ELSE "data"
           /\ UNCHANGED <<data, served>>
      ELSE Fail

ReadHeader ==
    /\ rpc = "header"
    /\ \E r \in Read(2) :
         /\ line' = r.rest
         /\ stale' = (r.bytes = <<>>)
         /\ IF ~Accepted(r, 2) THEN Fail
            ELSE IF r.bytes = <<>> THEN \E h \in StaleHeader : AfterHeader(h)
            ELSE AfterHeader([type |-> r.bytes[1], size |-> r.bytes[2]])
    /\ UNCHANGED <<sent, asked, upset, count>>

ReadData ==
    /\ rpc = "data"
    /\ \E r \in Read(1) :
         /\ line' = r.rest
         /\ stale' = (stale \/ r.bytes = <<>>)
         /\ data' = IF r.bytes = <<>> THEN data ELSE r.bytes
         /\ rpc' = IF Accepted(r, 1) THEN "footer" ELSE "addr"
    /\ UNCHANGED <<header, sent, served, asked, upset, count>>

\* Mutant: the checksum leaves out the address.
FooterOfAnyBoard(content) ==
    {Footer([content EXCEPT !.addr = a]) : a \in {Me, Other}}

\* History: what was put together from a read without a byte.
Stale == Content(Me, Silence, <<>>)

\* The footers that verify.
FootersFor(content) == {Footer(content)}

Received == Content(Me, header.type, IF header.size = Zero THEN <<>> ELSE data)

\* A footer read without a byte may hold the right checksum or not.
Verified(r) == r.bytes = <<>> \/ r.bytes \in FootersFor(Received)

ReadFooter ==
    /\ rpc = "footer"
    /\ \E r \in Read(2) :
         /\ line' = r.rest
         /\ stale' = (stale \/ r.bytes = <<>>)
         /\ \/ /\ Accepted(r, 2) /\ Verified(r)
               /\ served' = Append(served, IF stale' THEN Stale ELSE Received)
               /\ rpc' = IF header.type \in Answered THEN "reply" ELSE "addr"
            \/ (~Verified(r) \/ r.bytes = <<>>) /\ UNCHANGED served /\ rpc' = "addr"
    /\ UNCHANGED <<header, data, sent, asked, upset, count>>

\* writet, for every byte of the answer: the receiver is muted until the line
\* is idle, and off while the byte is sent.  An answer is shorter than a silence.
Reply ==
    /\ rpc = "reply"
    /\ \E k \in 0 .. Len(line) :
         /\ \A j \in 1 .. k : line[j] # Silence
         /\ k < Len(line) => \E j \in 1 .. k + 1 : line[j] \in Idle
         /\ line' = SubSeq(line, k + 1, Len(line))
    /\ rpc' = "addr" /\ asked' = FALSE
    /\ UNCHANGED <<header, data, stale, sent, served, upset, count>>

(***************************************************************************)
(* Specification                                                           *)
(***************************************************************************)

LinkInit ==
    /\ line = <<>> /\ rpc = "addr"
    /\ header = [type |-> PING, size |-> Zero] /\ data = <<Letter>>
    /\ stale = FALSE
    /\ sent = <<>> /\ served = <<>> /\ asked = FALSE /\ upset = FALSE /\ count = 0

Master == SendToMe \/ SendToOther \/ TypeLetter \/ FallSilent \/ Lose

Board ==
    \/ ReadAddr \/ Resynchronise \/ WaitIdle
    \/ ReadHeader \/ ReadData \/ ReadFooter \/ Reply

LinkNext == Master \/ Board

LinkSpec == LinkInit /\ [][LinkNext]_linkVars

(***************************************************************************)
(* Properties                                                              *)
(***************************************************************************)

\* As long as the line loses no byte, and the master sends nothing before the
\* answer to what it asked has ended, the board serves exactly the messages sent
\* to it, in order, whatever the other boards' messages between them contain; a
\* silence brings it back in step after any loss (comm.c:62-134, rs485.c:79-105).
InStep ==
    ~upset => /\ IsPrefix(served, sent)
              /\ line = <<>> /\ rpc = "addr" => served = sent

\* Even out of step, when data bytes are read as addresses and letters, nothing
\* in an envelope is served that the master did not send to this board, except
\* what a read completed without a byte left over (comm.c:87-128).
OnlySentIsServed ==
    \A k \in DOMAIN served :
        served[k] \notin {Typed, Stale} => \E j \in DOMAIN sent : served[k] = sent[j]
=============================================================================
