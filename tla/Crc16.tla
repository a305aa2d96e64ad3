------------------------------- MODULE Crc16 -------------------------------
(***************************************************************************)
(* The checksum of actuator/crc16.c: a table turns the low byte of the     *)
(* register and the next byte of the message into the next register.       *)
(*                                                                         *)
(* A sender computes it over the bytes it sends, the board over those it   *)
(* receives, in which a burst of at most two adjacent bytes may differ.    *)
(***************************************************************************)
EXTENDS Integers, Bitwise

CONSTANTS
    Sample,     \* the bytes sent after the first one, and during the burst
    MaxBytes    \* bounds the length of a message

ASSUME SampleAssumption == Sample \subseteq 0 .. 255 /\ MaxBytes \in Nat

VARIABLES
    sender,     \* crc16_t of the sender
    receiver,   \* crc16_t of the receiver
    reference,  \* the sender's, computed bit by bit
    length,     \* bytes so far
    burst       \* history: the places of the bytes that differed

crcVars == <<sender, receiver, reference, length, burst>>

tab == <<
    \h0000, \h9705, \h2e01, \hb904, \h5c02, \hcb07, \h7203, \he506,
    \hb804, \h2f01, \h9605, \h0100, \he406, \h7303, \hca07, \h5d02,
    \h7003, \he706, \h5e02, \hc907, \h2c01, \hbb04, \h0200, \h9505,
    \hc807, \h5f02, \he606, \h7103, \h9405, \h0300, \hba04, \h2d01,
    \he006, \h7703, \hce07, \h5902, \hbc04, \h2b01, \h9205, \h0500,
    \h5802, \hcf07, \h7603, \he106, \h0400, \h9305, \h2a01, \hbd04,
    \h9005, \h0700, \hbe04, \h2901, \hcc07, \h5b02, \he206, \h7503,
    \h2801, \hbf04, \h0600, \h9105, \h7403, \he306, \h5a02, \hcd07,
    \hc007, \h5702, \hee06, \h7903, \h9c05, \h0b00, \hb204, \h2501,
    \h7803, \hef06, \h5602, \hc107, \h2401, \hb304, \h0a00, \h9d05,
    \hb004, \h2701, \h9e05, \h0900, \hec06, \h7b03, \hc207, \h5502,
    \h0800, \h9f05, \h2601, \hb104, \h5402, \hc307, \h7a03, \hed06,
    \h2001, \hb704, \h0e00, \h9905, \h7c03, \heb06, \h5202, \hc507,
    \h9805, \h0f00, \hb604, \h2101, \hc407, \h5302, \hea06, \h7d03,
    \h5002, \hc707, \h7e03, \he906, \h0c00, \h9b05, \h2201, \hb504,
    \he806, \h7f03, \hc607, \h5102, \hb404, \h2301, \h9a05, \h0d00,
    \h8005, \h1700, \hae04, \h3901, \hdc07, \h4b02, \hf206, \h6503,
    \h3801, \haf04, \h1600, \h8105, \h6403, \hf306, \h4a02, \hdd07,
    \hf006, \h6703, \hde07, \h4902, \hac04, \h3b01, \h8205, \h1500,
    \h4802, \hdf07, \h6603, \hf106, \h1400, \h8305, \h3a01, \had04,
    \h6003, \hf706, \h4e02, \hd907, \h3c01, \hab04, \h1200, \h8505,
    \hd807, \h4f02, \hf606, \h6103, \h8405, \h1300, \haa04, \h3d01,
    \h1000, \h8705, \h3e01, \ha904, \h4c02, \hdb07, \h6203, \hf506,
    \ha804, \h3f01, \h8605, \h1100, \hf406, \h6303, \hda07, \h4d02,
    \h4002, \hd707, \h6e03, \hf906, \h1c00, \h8b05, \h3201, \ha504,
    \hf806, \h6f03, \hd607, \h4102, \ha404, \h3301, \h8a05, \h1d00,
    \h3001, \ha704, \h1e00, \h8905, \h6c03, \hfb06, \h4202, \hd507,
    \h8805, \h1f00, \ha604, \h3101, \hd407, \h4302, \hfa06, \h6d03,
    \ha004, \h3701, \h8e05, \h1900, \hfc06, \h6b03, \hd207, \h4502,
    \h1800, \h8f05, \h3601, \ha104, \h4402, \hd307, \h6a03, \hfd06,
    \hd007, \h4702, \hfe06, \h6903, \h8c05, \h1b00, \ha204, \h3501,
    \h6803, \hff06, \h4602, \hd107, \h3401, \ha304, \h1a00, \h8d05 >>

Lo(v) == v % 256
Hi(v) == v \div 256

\* Mutant: forgets the high byte.
UpdateLo(v, byte) == tab[(Lo(v) ^^ byte) + 1]

crc16Update(v, byte) == tab[(Lo(v) ^^ byte) + 1] ^^ Hi(v)

\* crc16Reset
CrcInit ==
    /\ sender = \hffff /\ receiver = \hffff /\ reference = \hffff
    /\ length = 0 /\ burst = {}

(***************************************************************************)
(* The reference: division by the polynomial 0x8005, low bit first         *)
(***************************************************************************)

Shifted(v) == IF v % 2 = 1 THEN (v \div 2) ^^ \h8005 ELSE v \div 2

BitByBit(v, byte) ==
    LET after[k \in 0 .. 8] == IF k = 0 THEN v ^^ byte ELSE Shifted(after[k - 1])
    IN  after[8]

(***************************************************************************)
(* crc16UpdateN of both, byte by byte                                      *)
(***************************************************************************)

Feed(sentByte, receivedByte) ==
    /\ length < MaxBytes /\ length' = length + 1
    /\ sender' = crc16Update(sender, sentByte)
    /\ receiver' = crc16Update(receiver, receivedByte)
    /\ reference' = BitByBit(reference, sentByte)

\* The first byte is any, so that the whole table is used.
Same ==
    /\ \E b \in IF length = 0 THEN 0 .. 255 ELSE Sample : Feed(b, b)
    /\ UNCHANGED burst

\* The first byte of a message may become any other one.
Differ ==
    /\ burst \subseteq {length - 1} /\ burst' = burst \cup {length}
    /\ \E b \in Sample :
         \E r \in (IF length = 0 THEN 0 .. 255 ELSE Sample) \ {b} : Feed(b, r)

Finished == length = MaxBytes /\ UNCHANGED crcVars

CrcNext == Same \/ Differ \/ Finished

CrcSpec == CrcInit /\ [][CrcNext]_crcVars

(***************************************************************************)
(* Properties                                                              *)
(***************************************************************************)

\* The value that is sent and compared.
crc16Value(v) == \hffff - v

\* Byte by byte the table computes a cyclic redundancy check, so that a burst
\* within two bytes is never mistaken for the message that was sent, however
\* the message goes on (crc16.c:25-73, comm.c:117-128).
DetectsBursts ==
    /\ sender = reference
    /\ burst # {} => crc16Value(receiver) # crc16Value(sender)
=============================================================================
