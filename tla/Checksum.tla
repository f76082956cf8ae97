------------------------------- MODULE Checksum -------------------------------
(***************************************************************************)
(* in_cksum of SimplePing.m, which makes the checksum of a ping and checks *)
(* that of a reply: 16-bit words of the host's byte order are added in an  *)
(* int32_t, the carries are folded in twice, and the result is inverted    *)
(* and truncated.  The host is little-endian, as every iOS device is.      *)
(*                                                                         *)
(* A byte has Byte values and a word Byte * Byte; the arithmetic is the    *)
(* same in any base, so small ones can be checked in full.                 *)
(***************************************************************************)
EXTENDS Integers, Sequences

CONSTANTS
  Byte,        \* 2^8
  MaxLength    \* bytes of the longest buffer: 65535, what readData receives

Word == Byte * Byte

\* INT32_MAX, the largest number of a signed accumulator two words wide
MaxSum == ((Word * Word) \div 2) - 1

ASSUME ChecksumAssumption ==
  /\ Byte \in Nat /\ Byte >= 2
  /\ MaxLength \in Nat /\ MaxLength < Word

VARIABLES
  buffer,   \* the bytes
  cursor,   \* how many bytes have been added as words
  sum,
  step,     \* the part of in_cksum that runs next
  answer

vars == <<buffer, cursor, sum, step, answer>>

Bytes == 0 .. Byte - 1
Words == 0 .. Word - 1
Steps == {"add", "mopUp", "foldHigh", "foldCarry", "answer", "done"}

TypeOK ==
  /\ buffer \in Seq(Bytes) /\ Len(buffer) <= MaxLength
  /\ cursor \in 0 .. Len(buffer)
  /\ sum \in Nat
  /\ step \in Steps
  /\ answer \in Words

Init ==
  /\ buffer \in UNION {[1 .. n -> Bytes] : n \in 0 .. MaxLength}
  /\ cursor = 0 /\ sum = 0 /\ step = "add" /\ answer = 0

bytesLeft == Len(buffer) - cursor

\* mutant: the cursor moves by a byte and the words overlap
addWordBytewise ==
  /\ step = "add" /\ bytesLeft > 1
  /\ sum' = sum + buffer[cursor + 1] + Byte * buffer[cursor + 2]
  /\ cursor' = cursor + 1
  /\ UNCHANGED <<buffer, step, answer>>

\* while (bytesLeft > 1): one more word
addWord ==
  /\ step = "add" /\ bytesLeft > 1
  /\ sum' = sum + buffer[cursor + 1] + Byte * buffer[cursor + 2]
  /\ cursor' = cursor + 2
  /\ UNCHANGED <<buffer, step, answer>>

\* The loop ends; an odd byte is added as the first byte of a word.
mopUp ==
  /\ step = "add" /\ bytesLeft <= 1
  /\ sum' = IF bytesLeft = 1 THEN sum + buffer[cursor + 1] ELSE sum
  /\ step' = "foldHigh"
  /\ UNCHANGED <<buffer, cursor, answer>>

\* sum = (sum >> 16) + (sum & 0xffff)
foldHigh ==
  /\ step = "foldHigh"
  /\ sum' = (sum \div Word) + (sum % Word)
  /\ step' = "foldCarry"
  /\ UNCHANGED <<buffer, cursor, answer>>

\* mutant: the carry of the first fold is not added
foldCarryDropped ==
  /\ step = "foldCarry"
  /\ step' = "answer"
  /\ UNCHANGED <<buffer, cursor, sum, answer>>

\* sum += (sum >> 16)
foldCarry ==
  /\ step = "foldCarry"
  /\ sum' = sum + (sum \div Word)
  /\ step' = "answer"
  /\ UNCHANGED <<buffer, cursor, answer>>

\* mutant: the inverted sum is not truncated
invertWide ==
  /\ step = "answer"
  /\ answer' = Word - 1 - sum
  /\ step' = "done"
  /\ UNCHANGED <<buffer, cursor, sum>>

\* answer = (uint16_t) ~sum
invert ==
  /\ step = "answer"
  /\ answer' = Word - 1 - (sum % Word)
  /\ step' = "done"
  /\ UNCHANGED <<buffer, cursor, sum>>

Next == addWord \/ mopUp \/ foldHigh \/ foldCarry \/ invert

Spec == Init /\ [][Next]_vars

-----------------------------------------------------------------------------
(* Properties *)

\* The int32_t never overflows, which would be undefined behaviour, for any
\* packet that readData can receive.
AccumulatorFits == sum <= MaxSum

\* RFC 1071: the words of the network's byte order are added with end-around
\* carry, a missing last byte counts as 0, and the sum is inverted.
endAround(a, b) == IF a + b >= Word THEN a + b - Word + 1 ELSE a + b
networkWord(i) ==
  (Byte * buffer[2 * i - 1]) + (IF 2 * i <= Len(buffer) THEN buffer[2 * i] ELSE 0)
networkSum[i \in 0 .. (Len(buffer) + 1) \div 2] ==
  IF i = 0 THEN 0 ELSE endAround(networkSum[i - 1], networkWord(i))
swapped(word) == (Byte * (word % Byte)) + (word \div Byte)

\* The number in_cksum returns, stored as the host stores a word, is the checksum
\* the network expects, as the comment in pingPacketWithType says: two folds are
\* enough, and adding in the wrong byte order only swaps the result.
AnswerIsNetworkChecksum ==
  step = "done" =>
    swapped(answer) = Word - 1 - networkSum[(Len(buffer) + 1) \div 2]
=============================================================================
