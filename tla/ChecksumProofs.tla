----------------------------- MODULE ChecksumProofs ----------------------------
(***************************************************************************)
(* in_cksum keeps its types, never overflows its accumulator and returns   *)
(* the checksum the network expects, for every base and for every packet   *)
(* up to the length that readData can receive.                             *)
(*                                                                         *)
(* The words of the host are those of the network with their bytes         *)
(* swapped. Swapping multiplies by the base modulo Word - 1, and a fold    *)
(* leaves a sum what it was modulo Word - 1, so the two sums stay the same *)
(* number but for the swap.                                                *)
(***************************************************************************)
EXTENDS Checksum, WellFoundedInduction, TLAPS

\* What the accumulator holds before each part of in_cksum.  While words are added
\* it is at most a full word for every two bytes; after the first fold it is at
\* most a word and a half.
Accumulated ==
  /\ step = "add" => 2 * sum <= cursor * (Word - 1)
  /\ step = "foldCarry" => 2 * sum <= 3 * Word - 3

\* w is the sum of the network's words when s is that of the host's: they are the same
\* number modulo Word - 1 but for the swapped bytes, and 0 together.
Represents(s, w) ==
  /\ w \in Words /\ (w = 0 <=> s = 0)
  /\ \E m \in Int : Byte * s = w + (Word - 1) * m

\* What the accumulator has to do with the network's sum before each part of in_cksum.
\* The words are added from the start, two bytes at a time.
Networked ==
  LET whole == networkSum[(Len(buffer) + 1) \div 2] IN
  /\ step = "add" => \E k \in Nat : cursor = 2 * k /\ Represents(sum, networkSum[k])
  /\ step \in {"foldHigh", "foldCarry"} => Represents(sum, whole)
  /\ step = "answer" => Represents(sum % Word, whole)
  /\ AnswerIsNetworkChecksum

\* The inductive invariant of in_cksum.
IInv == TypeOK /\ Accumulated /\ AccumulatorFits

\* Word is at least 4 and twice a Byte.
LEMMA WordIsLarge == Word \in Nat /\ Word >= 4 /\ Word >= 2 * Byte
  BY ChecksumAssumption, SMT DEF Word

\* Twice the limit is the square of Word, rounded.
LEMMA LimitIsLarge ==
  MaxSum \in Int /\ 2 * MaxSum >= Word * Word - 3 /\ 2 * MaxSum <= Word * Word - 2
<1> DEFINE S == Word * Word
<1>1. S \in Nat
  BY WordIsLarge, SMT
<1>2. MaxSum = (S \div 2) - 1
  BY DEF MaxSum
<1> HIDE DEF S
<1>3. MaxSum \in Int /\ 2 * MaxSum >= S - 3 /\ 2 * MaxSum <= S - 2
  BY <1>1, <1>2, SMT
<1> QED BY <1>3 DEF S

\* The words of a buffer add up to less than the limit.
LEMMA WordsFit ==
  ASSUME NEW c \in Nat, NEW s \in Nat, c <= Word - 1, 2 * s <= c * (Word - 1)
  PROVE  s <= MaxSum
<1>1. c * (Word - 1) <= (Word - 1) * (Word - 1)
  BY WordIsLarge, SMT
<1>2. (Word - 1) * (Word - 1) = Word * Word - 2 * Word + 1
  BY WordIsLarge, SMT
<1> DEFINE S == Word * Word
           T == c * (Word - 1)
<1>3. S \in Int /\ T \in Int /\ T <= S - 2 * Word + 1 /\ 2 * s <= T
  BY <1>1, <1>2, WordIsLarge, SMT
<1>4. 2 * MaxSum >= S - 3 /\ MaxSum \in Int
  BY LimitIsLarge
<1> HIDE DEF S, T
<1> QED BY <1>3, <1>4, WordIsLarge, SMT

\* So do the words and an odd byte, which needs a byte the words have not used.
LEMMA OddByteFits ==
  ASSUME NEW c \in Nat, NEW s \in Nat, NEW b \in Bytes,
         c <= Word - 2, 2 * s <= c * (Word - 1)
  PROVE  s + b <= MaxSum
<1>1. c * (Word - 1) <= (Word - 2) * (Word - 1)
  BY WordIsLarge, SMT
<1>2. (Word - 2) * (Word - 1) = Word * Word - 3 * Word + 2
  BY WordIsLarge, SMT
<1> DEFINE S == Word * Word
           T == c * (Word - 1)
<1>3. S \in Int /\ T \in Int /\ T <= S - 3 * Word + 2 /\ 2 * s <= T
  BY <1>1, <1>2, WordIsLarge, SMT
<1>4. 2 * MaxSum >= S - 3 /\ MaxSum \in Int
  BY LimitIsLarge
<1>5. b \in Nat /\ b <= Byte - 1 /\ Byte \in Nat /\ Byte >= 2
  BY ChecksumAssumption DEF Bytes
<1> HIDE DEF S, T
<1> QED BY <1>3, <1>4, <1>5, WordIsLarge, SMT

\* Quotient and remainder of a number by Word.
LEMMA Division ==
  ASSUME NEW s \in Nat
  PROVE  /\ s \div Word \in Nat /\ s % Word \in 0 .. Word - 1
         /\ s = Word * (s \div Word) + (s % Word)
  BY WordIsLarge, SMT

\* The first fold leaves at most a word and a half.
LEMMA FoldHighFits ==
  ASSUME NEW s \in Nat, s <= MaxSum
  PROVE  /\ (s \div Word) + (s % Word) \in Nat
         /\ 2 * ((s \div Word) + (s % Word)) <= 3 * Word - 3
         /\ (s \div Word) + (s % Word) <= MaxSum
<1> DEFINE q == s \div Word
           r == s % Word
<1>1. q \in Nat /\ r \in 0 .. Word - 1 /\ s = Word * q + r
  BY Division
<1> HIDE DEF q, r
<1>2. q + r <= s
  BY <1>1, WordIsLarge, SMT
<1>3. 2 * q <= Word - 1
  <2>1. SUFFICES ASSUME 2 * q >= Word PROVE FALSE
    BY <1>1, WordIsLarge, SMT
  <2>2. Word * (2 * q) >= Word * Word
    BY <1>1, <2>1, WordIsLarge, SMT
  <2>3. Word * (2 * q) = 2 * (Word * q)
    BY <1>1, WordIsLarge, SMT
  <2> DEFINE S == Word * Word
             P == Word * q
  <2>4. S \in Int /\ P \in Int /\ 2 * P >= S /\ s >= P
    BY <1>1, <2>2, <2>3, WordIsLarge, SMT
  <2>5. 2 * MaxSum <= S - 2 /\ MaxSum \in Int
    BY LimitIsLarge
  <2> HIDE DEF S, P
  <2> QED BY <2>4, <2>5, SMT
<1>4. 2 * (q + r) <= 3 * Word - 3 /\ q + r \in Nat
  BY <1>1, <1>3, WordIsLarge, SMT
<1>5. q + r <= MaxSum
  BY <1>1, <1>2, LimitIsLarge, SMT
<1> QED BY <1>4, <1>5 DEF q, r

\* The second fold adds at most 1.
LEMMA FoldCarryFits ==
  ASSUME NEW s \in Nat, 2 * s <= 3 * Word - 3
  PROVE  s + (s \div Word) \in Nat /\ s + (s \div Word) <= MaxSum
<1> DEFINE q == s \div Word
           r == s % Word
<1>1. q \in Nat /\ r \in 0 .. Word - 1 /\ s = Word * q + r
  BY Division
<1> HIDE DEF q, r
<1>2. q <= 1
  <2>1. SUFFICES ASSUME q >= 2 PROVE FALSE
    BY <1>1, SMT
  <2>2. Word * q >= 2 * Word
    BY <1>1, <2>1, WordIsLarge, SMT
  <2> DEFINE P == Word * q
  <2>3. P \in Int /\ P >= 2 * Word /\ s >= P
    BY <1>1, <2>2, WordIsLarge, SMT
  <2> HIDE DEF P
  <2> QED BY <2>3, WordIsLarge, SMT
<1>3. Word * Word >= 4 * Word
  BY WordIsLarge, SMT
<1> DEFINE S == Word * Word
<1>4. S \in Int /\ S >= 4 * Word /\ 2 * MaxSum >= S - 3 /\ MaxSum \in Int
  BY <1>3, LimitIsLarge, WordIsLarge, SMT
<1> HIDE DEF S
<1>5. s + q <= MaxSum
  BY <1>1, <1>2, <1>4, WordIsLarge, SMT
<1> QED BY <1>1, <1>5 DEF q

-----------------------------------------------------------------------------
(* The steps *)

LEMMA InitInv == Init => IInv
<1> SUFFICES ASSUME Init PROVE IInv
  OBVIOUS
<1>1. PICK n \in 0 .. MaxLength : buffer \in [1 .. n -> Bytes]
  BY DEF Init
<1>2. buffer \in Seq(Bytes) /\ Len(buffer) = n /\ n \in Nat
  BY <1>1, ChecksumAssumption, SMT
<1>3. TypeOK
  BY <1>2, WordIsLarge, ChecksumAssumption, SMT DEF Init, TypeOK, Steps, Words
<1>4. Accumulated
  BY WordIsLarge, SMT DEF Init, Accumulated
<1>5. AccumulatorFits
  BY LimitIsLarge, WordIsLarge, WordsFit, SMT DEF Init, AccumulatorFits
<1> QED BY <1>3, <1>4, <1>5 DEF IInv

LEMMA AddWordInv == IInv /\ addWord => IInv'
<1> SUFFICES ASSUME IInv, addWord PROVE IInv'
  OBVIOUS
<1> DEFINE w == buffer[cursor + 1] + Byte * buffer[cursor + 2]
<1>1. cursor \in Nat /\ sum \in Nat /\ cursor + 2 <= Len(buffer)
  BY SMT DEF IInv, TypeOK, addWord, bytesLeft
<1>2. buffer[cursor + 1] \in Bytes /\ buffer[cursor + 2] \in Bytes
  BY <1>1 DEF IInv, TypeOK
<1>3. w \in Nat /\ w <= Word - 1
  <2>1. ASSUME NEW a \in Bytes, NEW b \in Bytes
        PROVE  a + Byte * b \in Nat /\ a + Byte * b <= Word - 1
    <3>1. Byte * b <= Byte * (Byte - 1)
      BY <2>1, ChecksumAssumption, SMT DEF Bytes
    <3> QED BY <2>1, <3>1, ChecksumAssumption, SMT DEF Bytes, Word
  <2> QED BY <1>2, <2>1
<1> HIDE DEF w
<1>4. sum' = sum + w /\ cursor' = cursor + 2 /\ UNCHANGED <<buffer, step, answer>>
  BY <1>1, <1>2, ChecksumAssumption, SMT DEF addWord, w, Bytes
<1>5. TypeOK'
  BY <1>1, <1>3, <1>4, SMT DEF IInv, TypeOK
<1>6. 2 * sum' <= cursor' * (Word - 1)
  <2>1. 2 * sum <= cursor * (Word - 1)
    BY DEF IInv, Accumulated, addWord
  <2>2. (cursor + 2) * (Word - 1) = cursor * (Word - 1) + 2 * (Word - 1)
    BY <1>1, WordIsLarge, SMT
  <2> DEFINE T == cursor * (Word - 1)
  <2>3. T \in Int /\ 2 * sum <= T /\ cursor' * (Word - 1) = T + 2 * (Word - 1)
    BY <1>1, <1>4, <2>1, <2>2, WordIsLarge, SMT
  <2> HIDE DEF T
  <2> QED BY <1>1, <1>3, <1>4, <2>3, WordIsLarge, SMT
<1>7. Accumulated'
  BY <1>4, <1>6 DEF Accumulated, addWord
<1>8. AccumulatorFits'
  <2>1. cursor' \in Nat /\ sum' \in Nat /\ cursor' <= Word - 1
    BY <1>1, <1>3, <1>4, ChecksumAssumption, WordIsLarge, SMT DEF IInv, TypeOK
  <2> QED BY <2>1, <1>6, WordsFit DEF AccumulatorFits
<1> QED BY <1>5, <1>7, <1>8 DEF IInv

LEMMA MopUpInv == IInv /\ mopUp => IInv'
<1> SUFFICES ASSUME IInv, mopUp PROVE IInv'
  OBVIOUS
<1>1. /\ cursor \in Nat /\ sum \in Nat /\ cursor <= Len(buffer)
      /\ Len(buffer) \in Nat /\ Len(buffer) <= Word - 1
  BY ChecksumAssumption, WordIsLarge, SMT DEF IInv, TypeOK
<1>2. 2 * sum <= cursor * (Word - 1)
  BY DEF IInv, Accumulated, mopUp
<1>3. sum' \in Nat /\ sum' <= MaxSum
  <2>1. CASE bytesLeft = 1
    <3>1. buffer[cursor + 1] \in Bytes /\ cursor <= Word - 2
      BY <1>1, <2>1, WordIsLarge, SMT DEF IInv, TypeOK, bytesLeft
    <3>2. sum + buffer[cursor + 1] <= MaxSum
      BY <1>1, <1>2, <3>1, OddByteFits
    <3> QED BY <1>1, <2>1, <3>1, <3>2, ChecksumAssumption, SMT DEF mopUp, Bytes
  <2>2. CASE bytesLeft # 1
    <3>1. sum <= MaxSum
      BY DEF IInv, AccumulatorFits
    <3> QED BY <1>1, <2>2, <3>1 DEF mopUp
  <2> QED BY <2>1, <2>2
<1>4. TypeOK'
  BY <1>3 DEF IInv, TypeOK, mopUp, Steps
<1> QED BY <1>3, <1>4 DEF IInv, Accumulated, AccumulatorFits, mopUp

LEMMA FoldHighInv == IInv /\ foldHigh => IInv'
<1> SUFFICES ASSUME IInv, foldHigh PROVE IInv'
  OBVIOUS
<1>1. /\ sum' \in Nat /\ 2 * sum' <= 3 * Word - 3 /\ sum' <= MaxSum
  BY FoldHighFits DEF IInv, TypeOK, AccumulatorFits, foldHigh
<1>2. TypeOK'
  BY <1>1 DEF IInv, TypeOK, foldHigh, Steps
<1> QED BY <1>1, <1>2 DEF IInv, Accumulated, AccumulatorFits, foldHigh

LEMMA FoldCarryInv == IInv /\ foldCarry => IInv'
<1> SUFFICES ASSUME IInv, foldCarry PROVE IInv'
  OBVIOUS
<1>1. sum' \in Nat /\ sum' <= MaxSum
  BY FoldCarryFits DEF IInv, TypeOK, Accumulated, foldCarry
<1>2. TypeOK'
  BY <1>1 DEF IInv, TypeOK, foldCarry, Steps
<1> QED BY <1>1, <1>2 DEF IInv, Accumulated, AccumulatorFits, foldCarry

LEMMA InvertInv == IInv /\ invert => IInv'
<1> SUFFICES ASSUME IInv, invert PROVE IInv'
  OBVIOUS
<1>1. sum % Word \in 0 .. Word - 1
  BY Division DEF IInv, TypeOK
<1>2. answer' \in Words
  BY <1>1, WordIsLarge, SMT DEF invert, Words
<1>3. TypeOK'
  BY <1>2 DEF IInv, TypeOK, invert, Steps
<1> QED BY <1>3 DEF IInv, Accumulated, AccumulatorFits, invert

\* in_cksum keeps the inductive invariant, whatever the base and the packet.
THEOREM ChecksumInvariant == Spec => []IInv
<1>1. IInv /\ [Next]_vars => IInv'
  <2> SUFFICES ASSUME IInv, [Next]_vars PROVE IInv'
    OBVIOUS
  <2>1. CASE addWord   BY <2>1, AddWordInv
  <2>2. CASE mopUp     BY <2>2, MopUpInv
  <2>3. CASE foldHigh  BY <2>3, FoldHighInv
  <2>4. CASE foldCarry BY <2>4, FoldCarryInv
  <2>5. CASE invert    BY <2>5, InvertInv
  <2>6. CASE UNCHANGED vars
    BY <2>6 DEF IInv, TypeOK, Accumulated, AccumulatorFits, vars
  <2> QED BY <2>1, <2>2, <2>3, <2>4, <2>5, <2>6 DEF Next
<1> QED BY InitInv, <1>1, PTL DEF Spec

\* The variables of in_cksum keep their types; the cursor stays in the buffer.
THEOREM ChecksumTypes == Spec => []TypeOK
<1>1. IInv => TypeOK
  BY DEF IInv
<1> QED BY ChecksumInvariant, <1>1, PTL

\* The int32_t accumulator of in_cksum never overflows.
THEOREM NoOverflow == Spec => []AccumulatorFits
<1>1. IInv => AccumulatorFits
  BY DEF IInv
<1> QED BY ChecksumInvariant, <1>1, PTL

-----------------------------------------------------------------------------
(* The sum of the network's words *)

\* There is a function that adds the first k words, whatever k, so networkSum is one.
LEMMA NetworkSumUnfolds ==
  ASSUME Len(buffer) \in Nat
  PROVE  networkSum = [i \in 0 .. (Len(buffer) + 1) \div 2 |->
                         IF i = 0 THEN 0 ELSE endAround(networkSum[i - 1], networkWord(i))]
<1> DEFINE Adds(f, k) ==
             f = [i \in 0 .. k |-> IF i = 0 THEN 0 ELSE endAround(f[i - 1], networkWord(i))]
           fails == {k \in Nat : ~\E f : Adds(f, k)}
           last == (Len(buffer) + 1) \div 2
<1>1. \E f : Adds(f, 0)
  <2> DEFINE f == [i \in 0 .. 0 |-> 0]
  <2>1. \A i \in 0 .. 0 : i = 0
    OBVIOUS
  <2>2. Adds(f, 0)
    BY <2>1
  <2> QED BY <2>2
<1>2. ASSUME NEW k \in Nat, NEW f, Adds(f, k) PROVE \E g : Adds(g, k + 1)
  <2> DEFINE e == endAround(f[k], networkWord(k + 1))
             g == [i \in 0 .. k + 1 |-> IF i = k + 1 THEN e ELSE f[i]]
  <2> HIDE DEF e
  <2>1. ASSUME NEW i \in 0 .. k + 1
        PROVE  g[i] = IF i = 0 THEN 0 ELSE endAround(g[i - 1], networkWord(i))
    <3>1. CASE i = k + 1
      <4>1. g[i] = e /\ i # 0 /\ i - 1 = k /\ k \in 0 .. k + 1 /\ k # k + 1
        BY <3>1
      <4>2. g[i - 1] = f[k]
        BY <4>1
      <4> QED BY <3>1, <4>1, <4>2 DEF e
    <3>2. CASE i # k + 1
      <4>1. i \in 0 .. k
        BY <3>2
      <4>2. g[i] = f[i]
        BY <3>2
      <4>3. f[i] = IF i = 0 THEN 0 ELSE endAround(f[i - 1], networkWord(i))
        BY <1>2, <4>1
      <4>4. i # 0 => g[i - 1] = f[i - 1]
        BY <4>1
      <4> QED BY <4>2, <4>3, <4>4
    <3> QED BY <3>1, <3>2
  <2>2. DOMAIN g = 0 .. k + 1
    OBVIOUS
  <2>3. g = [i \in 0 .. k + 1 |-> g[i]]
    BY <2>2
  <2>4. Adds(g, k + 1)
    BY <2>1, <2>3
  <2> QED BY <2>4
<1>3. fails = {}
  <2>1. SUFFICES ASSUME fails # {} PROVE FALSE
    OBVIOUS
  <2>2. PICK m \in fails : \A k \in fails : <<k, m>> \notin OpToRel(<, Nat)
    BY <2>1, WFMin, NatLessThanWellFounded
  <2>3. \A k \in fails : ~(k < m)
    BY <2>2 DEF OpToRel
  <2>4. m # 0
    BY <1>1, <2>2
  <2>5. m - 1 \in Nat /\ m - 1 < m /\ m - 1 + 1 = m
    <3>1. m \in Nat
      BY <2>2
    <3> HIDE DEF fails
    <3> QED BY <2>4, <3>1
  <2>6. m - 1 \notin fails
    BY <2>3, <2>5
  <2>7. PICK f : Adds(f, m - 1)
    BY <2>5, <2>6
  <2>8. \E g : Adds(g, m)
    <3> HIDE DEF Adds
    <3>1. \E g : Adds(g, m - 1 + 1)
      BY <1>2, <2>5, <2>7
    <3> QED BY <2>5, <3>1
  <2> QED BY <2>2, <2>8
<1>4. last \in Nat
  OBVIOUS
<1>5. \E f : Adds(f, last)
  BY <1>3, <1>4
<1>6. networkSum = CHOOSE f : Adds(f, last)
  BY DEF networkSum
<1>7. Adds(networkSum, last)
  BY <1>5, <1>6, Zenon
<1> QED
  BY <1>7

-----------------------------------------------------------------------------
(* Byte order *)

\* A word and its bytes.
LEMMA BytesOfAWord ==
  ASSUME NEW r \in Words
  PROVE  \E h \in Bytes, l \in Bytes : r = Byte * h + l /\ r \div Byte = h /\ r % Byte = l
<1> DEFINE h == r \div Byte
           l == r % Byte
<1>1. r \in Nat /\ Byte \in Nat /\ Byte >= 2
  BY ChecksumAssumption DEF Words, Word
<1>2. h \in Nat /\ l \in 0 .. Byte - 1 /\ r = Byte * h + l
  BY <1>1, SMT
<1>3. r <= Byte * Byte - 1
  BY <1>1, SMT DEF Words, Word
<1> HIDE DEF h, l
<1>4. h <= Byte - 1
  <2>1. SUFFICES ASSUME h >= Byte PROVE FALSE
    BY <1>1, <1>2, SMT
  <2>2. Byte * h >= Byte * Byte
    BY <1>1, <1>2, <2>1, SMT
  <2> DEFINE P == Byte * h
             S == Byte * Byte
  <2>3. P \in Int /\ S \in Int /\ P >= S /\ r = P + l /\ r <= S - 1
    BY <1>1, <1>2, <1>3, <2>2, SMT
  <2> HIDE DEF P, S
  <2> QED BY <1>2, <2>3, SMT
<1>5. h \in Bytes /\ l \in Bytes
  BY <1>1, <1>2, <1>4, SMT DEF Bytes
<1> QED BY <1>2, <1>5 DEF h, l

\* Two bytes make a word, in either order.
LEMMA WordOfBytes ==
  ASSUME NEW a \in Bytes, NEW b \in Bytes
  PROVE  Byte * a + b \in Words
<1>1. Byte * a <= Byte * (Byte - 1)
  BY ChecksumAssumption, SMT DEF Bytes
<1>2. Byte * (Byte - 1) = Word - Byte
  BY ChecksumAssumption, SMT DEF Word
<1>3. Byte * a \in Nat
  BY ChecksumAssumption, SMT DEF Bytes
<1> DEFINE P == Byte * a
<1>4. P \in Nat /\ P <= Word - Byte /\ b \in Nat /\ b <= Byte - 1
  BY <1>1, <1>2, <1>3, ChecksumAssumption DEF Bytes
<1> HIDE DEF P
<1>5. P + b \in Words
  BY <1>4, WordIsLarge, ChecksumAssumption, SMT DEF Words
<1> QED BY <1>5 DEF P

\* A quotient and a remainder are the only ones.
LEMMA OneQuotient ==
  ASSUME NEW h \in Bytes, NEW l \in Bytes
  PROVE  (Byte * h + l) \div Byte = h /\ (Byte * h + l) % Byte = l
<1> DEFINE r == Byte * h + l
<1>1. r \in Words
  BY WordOfBytes
<1>2. PICK g \in Bytes, k \in Bytes : r = Byte * g + k /\ r \div Byte = g /\ r % Byte = k
  BY <1>1, BytesOfAWord
<1>3. Byte \in Nat /\ Byte >= 2 /\ h \in Nat /\ g \in Nat /\ l \in 0 .. Byte - 1 /\ k \in 0 .. Byte - 1
  BY ChecksumAssumption DEF Bytes
<1>4. Byte * h + l = Byte * g + k
  BY <1>2
<1>5. Byte * (h - g) = k - l
  BY <1>3, <1>4, SMT
<1>6. h = g
  <2>1. CASE h - g >= 1
    <3>1. Byte * (h - g) >= Byte
      BY <1>3, <2>1, SMT
    <3> QED BY <1>3, <1>5, <3>1, SMT
  <2>2. CASE h - g <= -1
    <3>1. Byte * (h - g) <= -Byte
      BY <1>3, <2>2, SMT
    <3> QED BY <1>3, <1>5, <3>1, SMT
  <2> QED BY <1>3, <2>1, <2>2, SMT
<1>7. k = l
  BY <1>3, <1>5, <1>6, SMT
<1> QED BY <1>2, <1>6, <1>7

\* One word more, of bytes a and b: the host adds a + Byte * b, the network Byte * a + b.
LEMMA AddRepresents ==
  ASSUME NEW s \in Nat, NEW w, Represents(s, w), NEW a \in Bytes, NEW b \in Bytes
  PROVE  Represents(s + a + Byte * b, endAround(w, Byte * a + b))
<1> DEFINE n == Byte * a + b
           t == s + a + Byte * b
           v == endAround(w, n)
<1>1. w \in Words /\ (w = 0 <=> s = 0)
  BY DEF Represents
<1>2. PICK m \in Int : Byte * s = w + (Word - 1) * m
  BY DEF Represents
<1>3. n \in Words /\ Byte * b \in Nat /\ a \in Nat /\ b \in Nat /\ Byte \in Nat /\ Byte >= 2
  BY WordOfBytes, ChecksumAssumption, SMT DEF Bytes
<1>4. n = 0 <=> a = 0 /\ b = 0
  BY <1>3, SMT
<1>5. t = 0 <=> s = 0 /\ a = 0 /\ b = 0
  BY <1>3, SMT
<1>6. Byte * t = w + (Word - 1) * m + n + (Word - 1) * b
  <2>1. Byte * t = Byte * s + Byte * a + Byte * (Byte * b)
    BY <1>3, SMT
  <2>2. Byte * (Byte * b) = Word * b
    BY <1>3, SMT DEF Word
  <2>3. Word * b = (Word - 1) * b + b
    BY <1>3, WordIsLarge, SMT
  <2> DEFINE A == Byte * a
             B == (Word - 1) * b
             M == (Word - 1) * m
  <2>4. A \in Int /\ B \in Int /\ M \in Int
    BY <1>3, WordIsLarge, SMT
  <2>5. Byte * t = w + M + A + (B + b)
    BY <1>2, <2>1, <2>2, <2>3
  <2>6. n = A + b
    OBVIOUS
  <2> HIDE DEF A, B, M, n, t
  <2>7. Byte * t = w + M + n + B
    BY <1>1, <1>3, <2>4, <2>5, <2>6, WordIsLarge, SMT DEF Words
  <2> QED BY <2>7 DEF B, M
<1> HIDE DEF n, t
<1>7. v \in Words /\ (v = 0 <=> w = 0 /\ n = 0)
  BY <1>1, <1>3, WordIsLarge, SMT DEF endAround, Words
<1>8. \E k \in Int : Byte * t = v + (Word - 1) * k
  <2>1. CASE w + n >= Word
    <3>1. v = w + n - (Word - 1)
      BY <1>1, <1>3, <2>1, WordIsLarge, SMT DEF endAround, Words
    <3>2. (Word - 1) * (m + b + 1) = (Word - 1) * m + (Word - 1) * b + (Word - 1)
      BY <1>3, WordIsLarge, SMT
    <3> DEFINE B == (Word - 1) * b
               M == (Word - 1) * m
    <3>3. B \in Int /\ M \in Int
      BY <1>3, WordIsLarge, SMT
    <3>4. Byte * t = w + M + n + B /\ (Word - 1) * (m + b + 1) = M + B + (Word - 1)
      BY <1>6, <3>2
    <3> HIDE DEF B, M, v
    <3>5. Byte * t = v + (Word - 1) * (m + b + 1)
      BY <1>1, <1>3, <3>1, <3>3, <3>4, WordIsLarge, SMT DEF Words
    <3>6. m + b + 1 \in Int
      BY <1>3
    <3> QED BY <3>5, <3>6
  <2>2. CASE ~(w + n >= Word)
    <3>1. v = w + n
      BY <2>2 DEF endAround
    <3>2. (Word - 1) * (m + b) = (Word - 1) * m + (Word - 1) * b
      BY <1>3, WordIsLarge, SMT
    <3> DEFINE B == (Word - 1) * b
               M == (Word - 1) * m
    <3>3. B \in Int /\ M \in Int
      BY <1>3, WordIsLarge, SMT
    <3>4. Byte * t = w + M + n + B /\ (Word - 1) * (m + b) = M + B
      BY <1>6, <3>2
    <3> HIDE DEF B, M, v
    <3>5. Byte * t = v + (Word - 1) * (m + b)
      BY <1>1, <1>3, <3>1, <3>3, <3>4, WordIsLarge, SMT DEF Words
    <3>6. m + b \in Int
      BY <1>3
    <3> QED BY <3>5, <3>6
  <2> QED BY <2>1, <2>2
<1>9. v \in Words /\ (v = 0 <=> t = 0)
  BY <1>1, <1>4, <1>5, <1>7
<1> HIDE DEF v
<1>10. Represents(t, v)
  BY <1>8, <1>9 DEF Represents
<1> QED BY <1>10 DEF t, v, n

\* A carry that is added at the other end changes nothing.
LEMMA FoldRepresents ==
  ASSUME NEW s \in Nat, NEW w, Represents(s, w)
  PROVE  Represents((s \div Word) + (s % Word), w)
<1> DEFINE q == s \div Word
           r == s % Word
<1>1. q \in Nat /\ r \in Nat /\ s = Word * q + r
  BY Division
<1>2. PICK m \in Int : Byte * s = w + (Word - 1) * m
  BY DEF Represents
<1>3. w \in Nat /\ w \in Words /\ (w = 0 <=> s = 0)
  BY WordIsLarge DEF Represents, Words
<1>4. Byte \in Nat
  BY ChecksumAssumption
<1> HIDE DEF q, r
<1>5. s = 0 <=> q + r = 0
  <2>1. Word * q \in Nat /\ (Word * q = 0 <=> q = 0)
    BY <1>1, WordIsLarge, SMT
  <2> QED BY <1>1, <2>1
<1>6. s = (q + r) + (Word - 1) * q
  BY <1>1, WordIsLarge, SMT
<1>7. Byte * s = Byte * (q + r) + (Word - 1) * (Byte * q)
  BY <1>1, <1>4, <1>6, WordIsLarge, SMT
<1>8. (Word - 1) * (m - Byte * q) = (Word - 1) * m - (Word - 1) * (Byte * q)
  BY <1>1, <1>4, WordIsLarge, SMT
<1>9. Byte * (q + r) = w + (Word - 1) * (m - Byte * q)
  <2> DEFINE A == Byte * (q + r)
             B == (Word - 1) * (Byte * q)
             M == (Word - 1) * m
  <2>1. A \in Int /\ B \in Int /\ M \in Int
    BY <1>1, <1>4, WordIsLarge, SMT
  <2>2. w + M = A + B
    BY <1>2, <1>7
  <2> HIDE DEF A, B, M
  <2>3. A = w + (M - B)
    BY <1>3, <2>1, <2>2
  <2> QED BY <1>8, <2>3 DEF A, B, M
<1>10. m - Byte * q \in Int
  BY <1>1, <1>4
<1>11. Represents(q + r, w)
  BY <1>3, <1>5, <1>9, <1>10 DEF Represents
<1> QED BY <1>11 DEF q, r

\* The second fold, truncated, is the same as another one of its kind.
LEMMA CarryFolds ==
  ASSUME NEW s \in Nat, 2 * s <= 3 * Word - 3
  PROVE  (s + (s \div Word)) % Word = (s \div Word) + (s % Word)
<1> DEFINE q == s \div Word
           r == s % Word
<1>1. q \in Nat /\ r \in 0 .. Word - 1 /\ s = Word * q + r
  BY Division
<1> HIDE DEF q, r
<1>2. q <= 1
  <2>1. SUFFICES ASSUME q >= 2 PROVE FALSE
    BY <1>1, SMT
  <2>2. Word * q >= 2 * Word
    BY <1>1, <2>1, WordIsLarge, SMT
  <2> DEFINE P == Word * q
  <2>3. P \in Int /\ P >= 2 * Word /\ s >= P
    BY <1>1, <2>2, WordIsLarge, SMT
  <2> HIDE DEF P
  <2> QED BY <2>3, WordIsLarge, SMT
<1> SUFFICES (s + q) % Word = q + r
  BY DEF q, r
<1>3. CASE q = 0
  <2>1. s + q = r /\ q + r = r
    BY <1>1, <1>3, WordIsLarge, SMT
  <2>2. r % Word = r
    BY <1>1, WordIsLarge, SMT
  <2> QED BY <2>1, <2>2
<1>4. CASE q = 1
  <2>1. s = Word + r
    BY <1>1, <1>4, WordIsLarge, SMT
  <2>2. r + 1 \in 0 .. Word - 1
    BY <1>1, <2>1, WordIsLarge, SMT
  <2>3. (Word + (r + 1)) % Word = r + 1
    BY <2>2, WordIsLarge, SMT
  <2>4. s + q = Word + (r + 1) /\ q + r = r + 1
    BY <1>1, <1>4, <2>1, WordIsLarge, SMT
  <2> QED BY <2>3, <2>4
<1>5. q = 0 \/ q = 1
  BY <1>1, <1>2, SMT
<1> QED BY <1>3, <1>4, <1>5

\* Words that represent the same sum and are 0 together are the same.
LEMMA SameResidue ==
  ASSUME NEW x \in Words, NEW w \in Words, x = 0 <=> w = 0,
         NEW k \in Int, x - w = (Word - 1) * k
  PROVE  x = w
<1>1. x \in Nat /\ w \in Nat /\ x <= Word - 1 /\ w <= Word - 1
  BY WordIsLarge DEF Words
<1>2. CASE k = 0
  BY <1>1, <1>2, WordIsLarge, SMT
<1>3. CASE k >= 1
  <2>1. (Word - 1) * k >= Word - 1
    BY <1>3, WordIsLarge, SMT
  <2> QED BY <1>1, <2>1, WordIsLarge, SMT
<1>4. CASE k <= -1
  <2>1. (Word - 1) * k <= -(Word - 1)
    BY <1>4, WordIsLarge, SMT
  <2> QED BY <1>1, <2>1, WordIsLarge, SMT
<1> QED BY <1>2, <1>3, <1>4

\* What is returned is the inverted sum of the network's words, with its bytes swapped.
LEMMA AnswerSwapped ==
  ASSUME NEW r \in Words, NEW w, Represents(r, w)
  PROVE  swapped(Word - 1 - r) = Word - 1 - w
<1>1. PICK h \in Bytes, l \in Bytes : r = Byte * h + l
  BY BytesOfAWord
<1> DEFINE x == Byte * l + h
           top == Byte - 1 - h
           low == Byte - 1 - l
<1>2. top \in Bytes /\ low \in Bytes /\ h \in Nat /\ l \in Nat /\ Byte \in Nat /\ Byte >= 2
  BY ChecksumAssumption, SMT DEF Bytes
<1>3. /\ Byte * top = Word - Byte - Byte * h
      /\ Byte * low = Word - Byte - Byte * l
  BY <1>2, SMT DEF Word
<1>4. Byte * h \in Nat /\ Byte * l \in Nat
  BY <1>2, SMT
<1>5. Word - 1 - r = Byte * top + low
  <2> DEFINE A == Byte * h
             T == Byte * top
  <2>1. r = A + l /\ T = Word - Byte - A /\ A \in Nat
    BY <1>1, <1>3, <1>4
  <2> HIDE DEF A, T
  <2>2. Word - 1 - r = T + low
    BY <1>2, <2>1, WordIsLarge, SMT
  <2> QED BY <2>2 DEF T
<1>6. swapped(Word - 1 - r) = Byte * low + top
  <2>1. (Byte * top + low) \div Byte = top /\ (Byte * top + low) % Byte = low
    BY <1>2, OneQuotient
  <2> HIDE DEF top, low
  <2> QED BY <1>5, <2>1 DEF swapped
<1>7. Byte * low + top = Word - 1 - x
  <2> DEFINE B == Byte * l
             L == Byte * low
  <2>1. x = B + h /\ L = Word - Byte - B /\ B \in Nat
    BY <1>3, <1>4
  <2> HIDE DEF B, L, x
  <2>2. L + top = Word - 1 - x
    BY <1>2, <2>1, WordIsLarge, SMT
  <2> QED BY <2>2 DEF L
<1>8. x \in Words
  BY WordOfBytes
<1>9. x = 0 <=> r = 0
  BY <1>1, <1>2, SMT
<1>10. w \in Words /\ (w = 0 <=> r = 0)
  BY DEF Represents
<1>11. PICK m \in Int : Byte * r = w + (Word - 1) * m
  BY DEF Represents
<1>12. Byte * r = x + (Word - 1) * h
  <2>1. Byte * r = Byte * (Byte * h) + Byte * l
    BY <1>1, <1>2, SMT
  <2>2. Byte * (Byte * h) = (Word - 1) * h + h
    BY <1>2, SMT DEF Word
  <2> DEFINE H == (Word - 1) * h
             B == Byte * l
  <2>3. H \in Int /\ B \in Nat /\ Byte * r = H + h + B /\ x = B + h
    BY <1>2, <1>4, <2>1, <2>2, WordIsLarge, SMT
  <2> HIDE DEF H, B, x
  <2>4. Byte * r = x + H
    BY <1>2, <2>3
  <2> QED BY <2>4 DEF H
<1>13. x - w = (Word - 1) * (m - h)
  <2> DEFINE H == (Word - 1) * h
             M == (Word - 1) * m
  <2>1. (Word - 1) * (m - h) = M - H /\ M \in Int /\ H \in Int
    BY <1>2, WordIsLarge, SMT
  <2>2. w + M = x + H
    BY <1>11, <1>12
  <2>3. x \in Int /\ w \in Int
    BY <1>8, <1>10, WordIsLarge DEF Words
  <2> HIDE DEF H, M, x
  <2>4. x - w = M - H
    BY <2>1, <2>2, <2>3
  <2> QED BY <2>1, <2>4
<1>14. x = w
  <2>1. m - h \in Int
    BY <1>2
  <2> HIDE DEF x
  <2> QED BY <1>8, <1>9, <1>10, <1>13, <2>1, SameResidue
<1> QED BY <1>6, <1>7, <1>14

-----------------------------------------------------------------------------
(* The accumulator and the network's sum *)

\* No step changes the buffer, nor what the network's sum is.
LEMMA SameNetworkSum ==
  ASSUME buffer' = buffer
  PROVE  networkSum' = networkSum /\ Len(buffer)' = Len(buffer)
  BY DEF networkSum, networkWord

LEMMA NetworkedInit == Init => Networked
<1> SUFFICES ASSUME Init PROVE Networked
  OBVIOUS
<1>1. step = "add" /\ cursor = 0 /\ sum = 0
  BY DEF Init
<1>2. Len(buffer) \in Nat
  BY InitInv DEF IInv, TypeOK
<1>3. networkSum[0] = 0
  <2>1. 0 \in 0 .. (Len(buffer) + 1) \div 2
    BY <1>2
  <2> QED BY <1>2, <2>1, NetworkSumUnfolds
<1>4. Represents(0, 0)
  <2>1. Byte * 0 = 0 + (Word - 1) * 0 /\ 0 \in Words
    BY ChecksumAssumption, WordIsLarge, SMT DEF Words
  <2> QED BY <2>1 DEF Represents
<1>5. cursor = 2 * 0 /\ Represents(sum, networkSum[0])
  BY <1>1, <1>3, <1>4
<1> QED BY <1>1, <1>5 DEF Networked, AnswerIsNetworkChecksum

\* One word more of both.
LEMMA OneWordMore ==
  ASSUME TypeOK, NEW k \in Nat, cursor = 2 * k, Represents(sum, networkSum[k]), cursor < Len(buffer),
         NEW b \in Bytes, b = (IF cursor + 2 <= Len(buffer) THEN buffer[cursor + 2] ELSE 0)
  PROVE  Represents(sum + buffer[cursor + 1] + Byte * b, networkSum[k + 1])
<1>1. Len(buffer) \in Nat /\ sum \in Nat /\ buffer \in Seq(Bytes)
  BY DEF TypeOK
<1> DEFINE n == Len(buffer)
<1>2. cursor + 1 \in 1 .. n /\ k + 1 \in 0 .. (n + 1) \div 2
  <2> HIDE DEF n
  <2>1. n \in Nat /\ 2 * k < n
    BY <1>1 DEF n
  <2> QED BY <2>1
<1>3. buffer[cursor + 1] \in Bytes
  BY <1>1, <1>2
<1>4. networkSum[k + 1] = endAround(networkSum[k], networkWord(k + 1))
  <2>1. k + 1 # 0 /\ k + 1 - 1 = k
    OBVIOUS
  <2> QED BY <1>1, <1>2, <2>1, NetworkSumUnfolds
<1>5. networkWord(k + 1) = Byte * buffer[cursor + 1] + b
  <2>1. 2 * (k + 1) - 1 = cursor + 1 /\ 2 * (k + 1) = cursor + 2
    OBVIOUS
  <2> QED BY <2>1 DEF networkWord
<1> QED BY <1>1, <1>3, <1>4, <1>5, AddRepresents

LEMMA NetworkedAdd == IInv /\ Networked /\ addWord => Networked'
<1> SUFFICES ASSUME IInv, Networked, addWord PROVE Networked'
  OBVIOUS
<1>1. PICK k \in Nat : cursor = 2 * k /\ Represents(sum, networkSum[k])
  BY DEF Networked, addWord
<1>2. /\ cursor + 2 <= Len(buffer) /\ cursor < Len(buffer) /\ buffer[cursor + 2] \in Bytes
  <2>1. Len(buffer) \in Nat /\ cursor \in Nat /\ buffer \in Seq(Bytes)
    BY DEF IInv, TypeOK
  <2>2. cursor + 2 <= Len(buffer) /\ cursor < Len(buffer)
    BY <2>1 DEF addWord, bytesLeft
  <2> QED BY <2>1, <2>2
<1>3. Represents(sum + buffer[cursor + 1] + Byte * buffer[cursor + 2], networkSum[k + 1])
  BY <1>1, <1>2, OneWordMore DEF IInv
<1>4. /\ sum' = sum + buffer[cursor + 1] + Byte * buffer[cursor + 2]
      /\ cursor' = cursor + 2 /\ buffer' = buffer /\ step' = "add"
  BY DEF addWord
<1>5. networkSum' = networkSum
  BY <1>4, SameNetworkSum
<1>6. k + 1 \in Nat /\ cursor' = 2 * (k + 1)
  BY <1>1, <1>4
<1> QED BY <1>3, <1>4, <1>5, <1>6 DEF Networked, AnswerIsNetworkChecksum

LEMMA NetworkedMopUp == IInv /\ Networked /\ mopUp => Networked'
<1> SUFFICES ASSUME IInv, Networked, mopUp PROVE Networked'
  OBVIOUS
<1>1. PICK k \in Nat : cursor = 2 * k /\ Represents(sum, networkSum[k])
  BY DEF Networked, mopUp
<1>2. /\ Len(buffer) \in Nat /\ cursor \in Nat /\ cursor <= Len(buffer) /\ bytesLeft <= 1
      /\ buffer \in Seq(Bytes) /\ sum \in Nat
  BY DEF IInv, TypeOK, mopUp
<1>3. step' = "foldHigh" /\ buffer' = buffer
      /\ sum' = IF bytesLeft = 1 THEN sum + buffer[cursor + 1] ELSE sum
  BY DEF mopUp
<1>4. Represents(sum', networkSum[(Len(buffer) + 1) \div 2])
  <2>1. CASE bytesLeft = 1
    <3>1. Len(buffer) = 2 * k + 1
      BY <1>1, <1>2, <2>1 DEF bytesLeft
    <3>2. (Len(buffer) + 1) \div 2 = k + 1 /\ cursor < Len(buffer) /\ ~(cursor + 2 <= Len(buffer))
      BY <1>1, <1>2, <3>1
    <3>3. 0 \in Bytes /\ Byte * 0 = 0
      BY ChecksumAssumption, SMT DEF Bytes
    <3>4. Represents(sum + buffer[cursor + 1] + Byte * 0, networkSum[k + 1])
      BY <1>1, <3>2, <3>3, OneWordMore DEF IInv
    <3>5. sum + buffer[cursor + 1] + Byte * 0 = sum + buffer[cursor + 1]
      <4>1. buffer[cursor + 1] \in Bytes
        BY <1>1, <1>2, <3>1
      <4>2. buffer[cursor + 1] \in Int
        BY <4>1, ChecksumAssumption DEF Bytes
      <4> QED BY <1>2, <3>3, <4>2
    <3> QED BY <1>3, <2>1, <3>2, <3>4, <3>5
  <2>2. CASE bytesLeft # 1
    <3>1. Len(buffer) = 2 * k
      BY <1>1, <1>2, <2>2 DEF bytesLeft
    <3>2. (Len(buffer) + 1) \div 2 = k
      BY <3>1
    <3> QED BY <1>1, <1>3, <2>2, <3>2
  <2> QED BY <2>1, <2>2
<1>5. networkSum' = networkSum /\ Len(buffer)' = Len(buffer)
  BY <1>3, SameNetworkSum
<1> QED BY <1>3, <1>4, <1>5 DEF Networked, AnswerIsNetworkChecksum

LEMMA NetworkedFold == IInv /\ Networked /\ (foldHigh \/ foldCarry) => Networked'
<1> SUFFICES ASSUME IInv, Networked, foldHigh \/ foldCarry PROVE Networked'
  OBVIOUS
<1>1. buffer' = buffer /\ sum \in Nat
  BY DEF foldHigh, foldCarry, IInv, TypeOK
<1>2. networkSum' = networkSum /\ Len(buffer)' = Len(buffer)
  BY <1>1, SameNetworkSum
<1>3. Represents(sum, networkSum[(Len(buffer) + 1) \div 2])
  BY DEF foldHigh, foldCarry, Networked
<1>4. Represents((sum \div Word) + (sum % Word), networkSum[(Len(buffer) + 1) \div 2])
  BY <1>1, <1>3, FoldRepresents
<1>5. CASE foldHigh
  BY <1>2, <1>4, <1>5 DEF foldHigh, Networked, AnswerIsNetworkChecksum
<1>6. CASE foldCarry
  <2>1. sum' % Word = (sum \div Word) + (sum % Word)
    BY <1>1, <1>6, CarryFolds DEF foldCarry, IInv, Accumulated
  <2> QED BY <1>2, <1>4, <1>6, <2>1 DEF foldCarry, Networked, AnswerIsNetworkChecksum
<1> QED BY <1>5, <1>6

LEMMA NetworkedInvert == IInv /\ Networked /\ invert => Networked'
<1> SUFFICES ASSUME IInv, Networked, invert PROVE Networked'
  OBVIOUS
<1>1. buffer' = buffer /\ step = "answer" /\ step' = "done" /\ answer' = Word - 1 - (sum % Word)
  BY DEF invert
<1>2. networkSum' = networkSum /\ Len(buffer)' = Len(buffer)
  BY <1>1, SameNetworkSum
<1>3. sum % Word \in Words
  BY Division DEF IInv, TypeOK, Words
<1>4. swapped(Word - 1 - (sum % Word)) = Word - 1 - networkSum[(Len(buffer) + 1) \div 2]
  BY <1>1, <1>3, AnswerSwapped DEF Networked
<1>5. swapped(answer') = Word - 1 - networkSum[(Len(buffer) + 1) \div 2]
  BY <1>1, <1>4
<1>6. AnswerIsNetworkChecksum'
  BY <1>2, <1>5 DEF AnswerIsNetworkChecksum, swapped
<1> QED BY <1>1, <1>6 DEF Networked

\* What in_cksum returns is the checksum that the network expects, for packets of every
\* length, of an even or odd number of bytes: two folds are enough, and the words that a
\* little-endian host adds give the network's sum with its bytes swapped.
THEOREM AnswersForTheNetwork == Spec => []AnswerIsNetworkChecksum
<1>1. IInv /\ Networked /\ [Next]_vars => Networked'
  <2> SUFFICES ASSUME IInv, Networked, [Next]_vars PROVE Networked'
    OBVIOUS
  <2>1. CASE UNCHANGED vars
    <3>1. networkSum' = networkSum /\ Len(buffer)' = Len(buffer)
      BY <2>1, SameNetworkSum DEF vars
    <3>2. step' = step /\ sum' = sum /\ answer' = answer /\ cursor' = cursor
      BY <2>1 DEF vars
    <3> QED BY <3>1, <3>2 DEF Networked, AnswerIsNetworkChecksum, swapped
  <2> QED
    BY <2>1, NetworkedAdd, NetworkedMopUp, NetworkedFold, NetworkedInvert DEF Next
<1>2. Networked => AnswerIsNetworkChecksum
  BY DEF Networked
<1> QED BY NetworkedInit, ChecksumInvariant, <1>1, <1>2, PTL DEF Spec
=============================================================================
