------------------------------ MODULE HashProofs ------------------------------
(***************************************************************************)
(* Proofs about the hashes.                                                *)
(*                                                                         *)
(* SipHash, for every stream and every way to cut it: the properties       *)
(* speak of the kept bytes as clod_sip64_finalise reads them.  Inductive   *)
(* is what clod_sip64_add relies on: the words and the kept bytes are the  *)
(* stream so far.                                                          *)
(*                                                                         *)
(* The checksums, for every data: a byte through the table is eight bits   *)
(* through the division.  Related says how far the two registers differ    *)
(* after each of the eight bits.                                           *)
(***************************************************************************)
EXTENDS SipHash, Crc, NatLemmas, SequenceTheorems, TLAPS

\* The number of bytes that were mixed in.
Mixed == 8 * Len(words)

WordsAreStream == \A k \in 1 .. Len(words), j \in 0 .. 7 : words[k][j] = Stream[8 * (k - 1) + j]
KeptIsStream == \A j \in 0 .. 6 : j < remaining => buf[j] = Stream[Mixed + j]

IInv ==
  /\ SipTypeOK
  /\ fed = Mixed + remaining
  /\ data_size = fed % 32
  /\ WordsAreStream
  /\ KeptIsStream

\* Division by the constants of siphash.c.
LEMMA DivBy8 ==
  ASSUME NEW q \in Nat, NEW r \in 0 .. 7
  PROVE  (8 * q + r) \div 8 = q /\ (8 * q + r) % 8 = r
BY SMT

LEMMA SizeBits ==
  ASSUME NEW n \in Nat, NEW size \in Nat
  PROVE  /\ ((n % 32) + size) % 32 = (n + size) % 32
         /\ n % 32 \in 0 .. 31
BY SMT

LEMMA Turns ==
  ASSUME NEW n \in Nat
  PROVE  n \div 8 \in Nat /\ n - 8 * (n \div 8) \in 0 .. 7
BY SMT

\* The piece lies in the stream.
LEMMA InType ==
  ASSUME SipTypeOK, NEW size \in Nat, fed + size <= MaxFed, NEW i \in 0 .. size - 1
  PROVE  In(size)[i] = Stream[fed + i] /\ In(size)[i] \in Bytes
BY SipAssumption DEF SipTypeOK, In

--------------------------------------------------------------------------------

\* set_data_size keeps the lower bits of the length.
LEMMA CountStep ==
  ASSUME IInv, NEW size \in Nat, fed \in Nat, fed' = fed + size, Count(size)
  PROVE  data_size' = fed' % 32 /\ data_size' \in 0 .. 31
<1>1. ((fed % 32) + size) % 32 = (fed + size) % 32 /\ (fed + size) % 32 \in 0 .. 31
  BY SizeBits
<1> QED BY <1>1 DEF Count, IInv

\* Adding less than a word keeps its bytes behind the others.
LEMMA KeepStep ==
  ASSUME IInv, NEW size \in Nat, size > 0, fed + size <= MaxFed, fed' = fed + size, Count(size), sip64_keep(size)
  PROVE  IInv'
<1>1. SipTypeOK /\ WordsAreStream
  BY DEF IInv
<1>2. KeptIsStream
  BY DEF IInv
<1>3. fed = Mixed + remaining
  BY DEF IInv
<1>4. /\ remaining \in 0 .. 7 /\ remaining' = remaining + size /\ remaining' \in 0 .. 7
      /\ words' = words /\ words \in Seq(Word) /\ Mixed \in Nat /\ Mixed' = Mixed
      /\ fed \in Nat /\ fed' \in 0 .. MaxFed
  BY <1>1, SipAssumption DEF sip64_keep, SipTypeOK, Mixed
<1>5. data_size' = fed' % 32 /\ data_size' \in 0 .. 31
  BY <1>4, CountStep
<1>6. \A j \in 0 .. 6 : buf'[j] = IF j >= remaining /\ j < remaining + size THEN In(size)[j - remaining] ELSE buf[j]
  BY DEF sip64_keep
<1>7. \A j \in 0 .. 6 : j >= remaining /\ j < remaining + size =>
        In(size)[j - remaining] = Stream[Mixed + j] /\ In(size)[j - remaining] \in Bytes
  <2> SUFFICES ASSUME NEW j \in 0 .. 6, j >= remaining, j < remaining + size
               PROVE  In(size)[j - remaining] = Stream[Mixed + j] /\ In(size)[j - remaining] \in Bytes
    OBVIOUS
  <2>1. j - remaining \in 0 .. size - 1 /\ fed + (j - remaining) = Mixed + j
    BY <1>3, <1>4
  <2> QED BY <1>1, <2>1, InType
<1>8. buf' \in [0 .. 6 -> Bytes]
  BY <1>1, <1>7 DEF sip64_keep, SipTypeOK
<1>9. SipTypeOK'
  BY <1>4, <1>5, <1>8 DEF SipTypeOK
<1>10. fed' = Mixed' + remaining'
  BY <1>3, <1>4
<1>11. WordsAreStream'
  BY <1>1, <1>4 DEF WordsAreStream
<1>12. KeptIsStream'
  <2> SUFFICES ASSUME NEW j \in 0 .. 6, j < remaining + size PROVE buf'[j] = Stream[Mixed + j]
    BY <1>4 DEF KeptIsStream
  <2>1. CASE j < remaining
    <3>1. buf'[j] = buf[j]
      BY <2>1, <1>4, <1>6
    <3>2. buf[j] = Stream[Mixed + j]
      BY <2>1, <1>2 DEF KeptIsStream
    <3> QED BY <3>1, <3>2
  <2>2. CASE j >= remaining
    BY <2>2, <1>4, <1>6, <1>7
  <2> QED BY <2>1, <2>2, <1>4
<1> QED BY <1>5, <1>9, <1>10, <1>11, <1>12 DEF IInv

\* Adding more mixes in the kept bytes with the first of the piece, and then
\* its bytes in groups of eight, and keeps those that are left over.
LEMMA WordsStep ==
  ASSUME IInv, NEW size \in Nat, fed + size <= MaxFed, fed' = fed + size, Count(size), sip64_words(size)
  PROVE  IInv'
<1> DEFINE off == 8 - remaining
           turns == (size - off) \div 8
           rest == off + 8 * turns
           next == [k \in 1 .. turns |-> read_uint64(In(size), off + 8 * (k - 1), 8)]
           n == Len(words)
<1>1. SipTypeOK
  BY DEF IInv
<1>2. WordsAreStream
  BY DEF IInv
<1>3. KeptIsStream
  BY DEF IInv
<1>4. fed = Mixed + remaining
  BY DEF IInv
<1>5. /\ words' = words \o <<FirstWord(size)>> \o next
      /\ remaining' = size - rest
      /\ buf' = [j \in 0 .. 6 |-> IF j < size - rest THEN In(size)[rest + j] ELSE buf[j]]
      /\ remaining + size >= 8
  BY DEF sip64_words
<1>6. /\ remaining \in 0 .. 7 /\ words \in Seq(Word) /\ n \in Nat /\ Mixed \in Nat /\ Mixed = 8 * n
      /\ fed \in Nat /\ fed' \in 0 .. MaxFed
      /\ buf \in [0 .. 6 -> Bytes]
  BY <1>1, SipAssumption DEF SipTypeOK, Mixed
<1> HIDE DEF next, n
<1>7. off \in 1 .. 8 /\ size - off \in Nat
  BY <1>5, <1>6
<1>8. turns \in Nat /\ size - rest \in 0 .. 7 /\ rest \in Nat /\ rest <= size
  <2> HIDE DEF off
  <2>1. turns \in Nat /\ (size - off) - 8 * turns \in 0 .. 7
    BY <1>7, Turns
  <2> HIDE DEF turns
  <2> QED BY <1>7, <2>1
<1> HIDE DEF turns
<1>9. data_size' = fed' % 32 /\ data_size' \in 0 .. 31
  BY <1>6, CountStep
<1>10. \A j \in 0 .. 7 : j < remaining => buf[j] \in Bytes /\ buf[j] = Stream[Mixed + j]
  <2> SUFFICES ASSUME NEW j \in 0 .. 7, j < remaining PROVE buf[j] \in Bytes /\ buf[j] = Stream[Mixed + j]
    OBVIOUS
  <2>1. j \in 0 .. 6
    BY <1>6
  <2> QED BY <2>1, <1>3, <1>6 DEF KeptIsStream
<1>11. \A j \in 0 .. 7 : j >= remaining => In(size)[j - remaining] \in Bytes /\ In(size)[j - remaining] = Stream[Mixed + j]
  <2> SUFFICES ASSUME NEW j \in 0 .. 7, j >= remaining
               PROVE  In(size)[j - remaining] \in Bytes /\ In(size)[j - remaining] = Stream[Mixed + j]
    OBVIOUS
  <2>1. j - remaining \in 0 .. size - 1 /\ fed + (j - remaining) = Mixed + j
    BY <1>4, <1>5, <1>6
  <2> QED BY <1>1, <2>1, InType
<1>12. FirstWord(size) = [j \in 0 .. 7 |-> IF j < remaining THEN buf[j] ELSE In(size)[j - remaining]]
  <2>1. \A j \in 0 .. 7 : j < remaining => read_uint64(buf, 0, remaining)[j] = buf[j]
    BY <1>6 DEF read_uint64
  <2>2. \A j \in 0 .. 7 : j >= remaining =>
          read_uint64(In(size), 0, 8 - remaining)[j - remaining] = In(size)[j - remaining]
    BY <1>6 DEF read_uint64
  <2>3. \A j \in 0 .. 7 : j < remaining \/ j >= remaining
    BY <1>6
  <2> QED BY <1>6, <2>1, <2>2, <2>3 DEF FirstWord
<1>13. FirstWord(size) \in Word /\ \A j \in 0 .. 7 : FirstWord(size)[j] = Stream[Mixed + j]
  <2>1. \A j \in 0 .. 7 : j < remaining \/ j >= remaining
    BY <1>6
  <2> QED BY <1>10, <1>11, <1>12, <2>1 DEF Word
<1>14. \A k \in 1 .. turns : next[k] \in Word /\ \A j \in 0 .. 7 : next[k][j] = Stream[8 * (n + k) + j]
  <2> SUFFICES ASSUME NEW k \in 1 .. turns
               PROVE  next[k] \in Word /\ \A j \in 0 .. 7 : next[k][j] = Stream[8 * (n + k) + j]
    OBVIOUS
  <2>1. next[k] = [j \in 0 .. 7 |-> In(size)[off + 8 * (k - 1) + j]]
    BY DEF read_uint64, next
  <2>2. ASSUME NEW j \in 0 .. 7
        PROVE  In(size)[off + 8 * (k - 1) + j] \in Bytes /\ In(size)[off + 8 * (k - 1) + j] = Stream[8 * (n + k) + j]
    <3> DEFINE i == off + 8 * (k - 1) + j
    <3>1. i \in 0 .. size - 1
      BY <1>6, <1>7, <1>8
    <3>2. fed + i = 8 * (n + k) + j
      BY <1>4, <1>6, <1>8
    <3> HIDE DEF i
    <3>3. In(size)[i] \in Bytes /\ In(size)[i] = Stream[8 * (n + k) + j]
      BY <1>1, <3>1, <3>2, InType
    <3> QED BY <3>3 DEF i
  <2> QED BY <2>1, <2>2 DEF Word
<1>15. next \in Seq(Word) /\ Len(next) = turns
  <2>1. next \in [1 .. turns -> Word]
    BY <1>14 DEF next
  <2> QED BY <2>1, <1>8
<1> DEFINE first == words \o <<FirstWord(size)>>
<1>16. /\ first \in Seq(Word) /\ Len(first) = n + 1 /\ first[n + 1] = FirstWord(size)
       /\ \A k \in 1 .. n : first[k] = words[k]
  BY <1>6, <1>13 DEF n
<1>17. words' = first \o next
  BY <1>5
<1> HIDE DEF first
<1>18. /\ words' \in Seq(Word) /\ Len(words') = n + 1 + turns
       /\ \A k \in 1 .. n + 1 : words'[k] = first[k]
       /\ \A k \in 1 .. turns : words'[n + 1 + k] = next[k]
  <2>1. first \o next \in Seq(Word) /\ Len(first \o next) = (n + 1) + turns
    BY <1>15, <1>16
  <2>2. \A k \in 1 .. n + 1 : (first \o next)[k] = first[k]
    BY <1>6, <1>15, <1>16
  <2>3. \A k \in 1 .. turns : (first \o next)[n + 1 + k] = next[k]
    <3> SUFFICES ASSUME NEW k \in 1 .. turns PROVE (first \o next)[n + 1 + k] = next[k]
      OBVIOUS
    <3>1. n + 1 + k \in 1 .. Len(first) + Len(next) /\ n + 1 + k > Len(first) /\ (n + 1 + k) - Len(first) = k
      BY <1>6, <1>8, <1>15, <1>16
    <3>2. (first \o next)[n + 1 + k] = next[(n + 1 + k) - Len(first)]
      BY <3>1, <1>15, <1>16, ConcatProperties
    <3> QED BY <3>1, <3>2
  <2> QED BY <1>6, <1>8, <1>17, <2>1, <2>2, <2>3
<1>19. Mixed' = 8 * (n + 1 + turns) /\ Mixed' \in Nat
  BY <1>6, <1>8, <1>18 DEF Mixed
<1>20. fed' = Mixed' + remaining'
  BY <1>4, <1>5, <1>6, <1>8, <1>19
<1>21. WordsAreStream'
  <2> SUFFICES ASSUME NEW k \in 1 .. n + 1 + turns, NEW j \in 0 .. 7
               PROVE  words'[k][j] = Stream[8 * (k - 1) + j]
    BY <1>18 DEF WordsAreStream
  <2>1. CASE k \in 1 .. n
    <3>1. words'[k] = words[k]
      BY <2>1, <1>6, <1>16, <1>18
    <3>2. words[k][j] = Stream[8 * (k - 1) + j]
      BY <2>1, <1>2 DEF WordsAreStream, n
    <3> QED BY <3>1, <3>2
  <2>2. CASE k = n + 1
    <3>1. words'[k] = FirstWord(size)
      BY <2>2, <1>6, <1>16, <1>18
    <3>2. 8 * (k - 1) = Mixed
      BY <2>2, <1>6
    <3> QED BY <3>1, <3>2, <1>13
  <2>3. CASE k > n + 1
    <3> DEFINE i == k - (n + 1)
    <3>1. i \in 1 .. turns /\ k = n + 1 + i
      BY <2>3, <1>6, <1>8
    <3>2. 8 * (n + i) + j = 8 * (k - 1) + j
      BY <1>6
    <3> HIDE DEF i
    <3>3. words'[k] = next[i]
      BY <3>1, <1>18
    <3>4. next[i][j] = Stream[8 * (n + i) + j]
      BY <3>1, <1>14
    <3> QED BY <3>2, <3>3, <3>4
  <2> QED BY <2>1, <2>2, <2>3, <1>6, <1>8
<1>22. \A j \in 0 .. 6 : j < size - rest => In(size)[rest + j] \in Bytes /\ In(size)[rest + j] = Stream[Mixed' + j]
  <2> SUFFICES ASSUME NEW j \in 0 .. 6, j < size - rest
               PROVE  In(size)[rest + j] \in Bytes /\ In(size)[rest + j] = Stream[Mixed' + j]
    OBVIOUS
  <2>1. rest + j \in 0 .. size - 1 /\ fed + (rest + j) = Mixed' + j
    BY <1>4, <1>6, <1>8, <1>19
  <2> HIDE DEF rest
  <2> QED BY <1>1, <2>1, InType
<1> HIDE DEF rest
<1>23. buf' \in [0 .. 6 -> Bytes]
  BY <1>5, <1>6, <1>22
<1>24. KeptIsStream'
  BY <1>5, <1>22 DEF KeptIsStream
<1>25. SipTypeOK'
  BY <1>5, <1>6, <1>8, <1>9, <1>18, <1>23 DEF SipTypeOK
<1> QED BY <1>9, <1>20, <1>21, <1>24, <1>25 DEF IInv

LEMMA Inductive ==
  SipSpec => []IInv
<1>1. clod_sip64_init => IInv
  BY SipAssumption DEF clod_sip64_init, IInv, SipTypeOK, WordsAreStream, KeptIsStream, Mixed
<1>2. IInv /\ [SipNext]_sipVars => IInv'
  <2> SUFFICES ASSUME IInv, [SipNext]_sipVars PROVE IInv'
    OBVIOUS
  <2>1. CASE UNCHANGED sipVars
    BY <2>1 DEF sipVars, IInv, SipTypeOK, WordsAreStream, KeptIsStream, Mixed
  <2>2. ASSUME NEW size \in Pieces, clod_sip64_add(size) PROVE IInv'
    <3>1. size \in Nat
      BY SipAssumption
    <3> QED BY <2>2, <3>1, KeepStep, WordsStep DEF clod_sip64_add
  <2> QED BY <2>1, <2>2 DEF SipNext
<1> QED BY <1>1, <1>2, PTL DEF SipSpec

--------------------------------------------------------------------------------

\* The fields of clod_sip64_state keep within their bits.
THEOREM SipTypeCorrect == SipSpec => []SipTypeOK
<1>1. IInv => SipTypeOK
  BY DEF IInv
<1> QED BY <1>1, Inductive, PTL

\* clod_sip64_add in any pieces and clod_sip64 at once hash the same words
\* (siphash.c), for every stream of every length.
THEOREM StreamingCorrect == SipSpec => []StreamingIsOneShot
<1>1. IInv => StreamingIsOneShot
  <2> SUFFICES ASSUME IInv PROVE StreamingIsOneShot
    OBVIOUS
  <2>1. remaining \in 0 .. 7 /\ Len(words) \in Nat /\ fed = 8 * Len(words) + remaining
    BY DEF IInv, SipTypeOK, Mixed
  <2>2. fed \div 8 = Len(words) /\ fed % 8 = remaining
    BY <2>1, DivBy8
  <2>3. \A j \in 0 .. 7 : j < remaining => buf[j] = Stream[8 * Len(words) + j]
    <3>1. \A j \in 0 .. 7 : j < remaining => j \in 0 .. 6
      BY <2>1
    <3>2. KeptIsStream
      BY DEF IInv
    <3> QED BY <3>1, <3>2 DEF KeptIsStream, Mixed
  <2>4. LastWord.bytes = [j \in 0 .. 7 |-> IF j < remaining THEN buf[j] ELSE 0] /\ LastWord.size = data_size
    BY DEF LastWord, read_uint64
  <2>5. LastWord.bytes = [j \in 0 .. 7 |-> IF j < fed % 8 THEN Stream[8 * (fed \div 8) + j] ELSE 0]
    BY <2>2, <2>3, <2>4
  <2> QED BY <2>2, <2>4, <2>5 DEF IInv, WordsAreStream, StreamingIsOneShot
<1> QED BY <1>1, Inductive, PTL

--------------------------------------------------------------------------------
(* The checksums, bit by bit. *)

LEMMA XorBit ==
  ASSUME NEW a, NEW b, NEW x
  PROVE  x \in Xor(a, b) <=> ~(x \in a <=> x \in b)
BY DEF Xor

LEMMA LowBit ==
  ASSUME NEW w, NEW bits, NEW x
  PROVE  x \in Low(w, bits) <=> x \in w /\ x \in 0 .. bits - 1
BY DEF Low

LEMMA ShlBit ==
  ASSUME NEW w \in SUBSET Nat, NEW n \in Nat, NEW x \in Int
  PROVE  x \in Shl(w, n) <=> x - n \in w
<1>1. x \in Shl(w, n) => x - n \in w
  BY DEF Shl
<1>2. x - n \in w => x \in Shl(w, n)
  <2>1. x = (x - n) + n
    OBVIOUS
  <2> QED BY <2>1 DEF Shl
<1> QED BY <1>1, <1>2

LEMMA ShrBit ==
  ASSUME NEW w \in SUBSET Nat, NEW n \in Nat, NEW x \in Int
  PROVE  x \in Shr(w, n) <=> x >= 0 /\ x + n \in w
<1>1. x \in Shr(w, n) => x >= 0 /\ x + n \in w
  BY DEF Shr
<1>2. x >= 0 /\ x + n \in w => x \in Shr(w, n)
  <2>1. x = (x + n) - n /\ (x >= 0 => x + n >= n)
    OBVIOUS
  <2> QED BY <2>1 DEF Shr
<1> QED BY <1>1, <1>2

LEMMA ReflectBit ==
  ASSUME NEW w, NEW bits \in Nat, NEW x \in Int
  PROVE  x \in reflect(w, bits) <=> x \in 0 .. bits - 1 /\ bits - 1 - x \in w
<1>1. x \in reflect(w, bits) => x \in 0 .. bits - 1 /\ bits - 1 - x \in w
  <2> SUFFICES ASSUME x \in reflect(w, bits) PROVE x \in 0 .. bits - 1 /\ bits - 1 - x \in w
    OBVIOUS
  <2>1. PICK i \in Low(w, bits) : x = bits - 1 - i
    BY DEF reflect
  <2>2. i \in w /\ i \in 0 .. bits - 1 /\ i = bits - 1 - x
    BY <2>1, LowBit
  <2> QED BY <2>2
<1>2. x \in 0 .. bits - 1 /\ bits - 1 - x \in w => x \in reflect(w, bits)
  <2> SUFFICES ASSUME x \in 0 .. bits - 1, bits - 1 - x \in w PROVE x \in reflect(w, bits)
    OBVIOUS
  <2>1. bits - 1 - x \in Low(w, bits) /\ x = bits - 1 - (bits - 1 - x)
    BY LowBit
  <2> QED BY <2>1 DEF reflect
<1> QED BY <1>1, <1>2

\* The sets are sets of numbers.
LEMMA XorType ==
  ASSUME NEW a \in SUBSET Nat, NEW b \in SUBSET Nat
  PROVE  Xor(a, b) \in SUBSET Nat
BY DEF Xor

LEMMA ShlType ==
  ASSUME NEW w \in SUBSET Nat, NEW n \in Nat
  PROVE  Shl(w, n) \in SUBSET Nat
BY DEF Shl

LEMMA ShrType ==
  ASSUME NEW w \in SUBSET Nat, NEW n \in Nat
  PROVE  Shr(w, n) \in SUBSET Nat
BY DEF Shr

LEMMA ReflectType ==
  ASSUME NEW w, NEW bits \in Nat
  PROVE  reflect(w, bits) \in SUBSET (0 .. bits - 1)
<1>1. Low(w, bits) \in SUBSET (0 .. bits - 1)
  BY DEF Low
<1> QED BY <1>1 DEF reflect

--------------------------------------------------------------------------------
(* The loops of table_gen and of the definition, turn by turn. *)

\* The details of a checksum, as far as the argument needs them.
Detail(d) ==
  /\ d.bits \in Nat /\ d.bits >= 8
  /\ d.polynomial \in SUBSET (0 .. d.bits - 1)

LEMMA StepBitBit ==
  ASSUME NEW d, Detail(d), NEW w \in SUBSET Nat
  PROVE  /\ StepBit(w, d) \in SUBSET Nat
         /\ \A x \in Int : x \in StepBit(w, d) <=> (x - 1 \in w <=> ~(d.bits - 1 \in w /\ x \in d.polynomial))
<1> DEFINE p == d.polynomial
           s == Shl(w, 1)
<1>1. p \in SUBSET Nat /\ s \in SUBSET Nat /\ Xor(s, p) \in SUBSET Nat
  <2>1. p \in SUBSET Nat
    BY DEF Detail
  <2>2. s \in SUBSET Nat
    BY ShlType
  <2> HIDE DEF p, s
  <2> QED BY <2>1, <2>2, XorType
<1>2. \A x \in Int : (x \in s <=> x - 1 \in w) /\ (x \in Xor(s, p) <=> ~(x \in s <=> x \in p))
  BY ShlBit, XorBit
<1>3. StepBit(w, d) = IF d.bits - 1 \in w THEN Xor(s, p) ELSE s
  BY DEF StepBit
<1> HIDE DEF s
<1> QED BY <1>1, <1>2, <1>3

LEMMA DivideBitBit ==
  ASSUME NEW d, Detail(d), NEW w \in SUBSET (0 .. d.bits - 1), NEW bit \in BOOLEAN
  PROVE  /\ DivideBit(w, bit, d) \in SUBSET (0 .. d.bits - 1)
         /\ \A x \in 0 .. d.bits - 1 :
              x \in DivideBit(w, bit, d) <=> (x - 1 \in w <=> ~(((d.bits - 1 \in w) # bit) /\ x \in d.polynomial))
<1> DEFINE p == IF (d.bits - 1 \in w) # bit THEN d.polynomial ELSE {}
           s == Low(Shl(w, 1), d.bits)
<1>1. w \in SUBSET Nat /\ d.bits \in Nat /\ p \in SUBSET (0 .. d.bits - 1)
  BY DEF Detail
<1>2. \A x \in 0 .. d.bits - 1 : x \in s <=> x - 1 \in w
  BY <1>1, ShlBit, LowBit
<1>3. s \in SUBSET (0 .. d.bits - 1)
  BY DEF Low
<1>4. DivideBit(w, bit, d) = Xor(s, p)
  BY DEF DivideBit
<1>5. \A x \in 0 .. d.bits - 1 : x \in p <=> ((d.bits - 1 \in w) # bit) /\ x \in d.polynomial
  OBVIOUS
<1> HIDE DEF s, p
<1>6. Xor(s, p) \in SUBSET (0 .. d.bits - 1)
  BY <1>1, <1>3 DEF Xor
<1> QED BY <1>2, <1>4, <1>5, <1>6, XorBit

\* The eight turns of table_gen have intermediate values.
LEMMA StepLoop ==
  ASSUME NEW d, Detail(d), NEW w \in SUBSET Nat
  PROVE  \E step \in [0 .. 8 -> SUBSET Nat] :
            /\ step[0] = w
            /\ \A n \in 1 .. 8 : step[n] = StepBit(step[n - 1], d)
            /\ StepBits(w, d) = step[8]
<1> DEFINE V == SUBSET Nat
           G == [p \in V \X (1 .. 8) |-> StepBit(p[1], d)]
           P(g) == g = [n \in 0 .. 8 |-> IF n = 0 THEN w ELSE StepBit(g[n - 1], d)]
           c == CHOOSE g : P(g)
<1>1. \A v \in V : StepBit(v, d) \in V
  BY StepBitBit
<1>2. G \in [V \X (1 .. 8) -> V]
  BY <1>1
<1>3. \A v \in V, n \in 1 .. 8 : G[<<v, n>>] = StepBit(v, d)
  OBVIOUS
<1>4. PICK f : ComputedFrom(f, V, w, 8, G)
  <2> HIDE DEF V, G
  <2>1. w \in V /\ 8 \in Nat
    BY DEF V
  <2> QED BY <1>2, <2>1, RecursiveFunction
<1> HIDE DEF V, G
<1>5. f \in [0 .. 8 -> V] /\ f[0] = w /\ \A n \in 1 .. 8 : f[n] = StepBit(f[n - 1], d)
  <2>1. \A n \in 1 .. 8 : f[n - 1] \in V
    BY <1>4 DEF ComputedFrom
  <2> QED BY <1>3, <1>4, <2>1 DEF ComputedFrom
<1>6. P(f)
  <2>1. f = [n \in 0 .. 8 |-> f[n]]
    BY <1>5
  <2> QED BY <1>5, <2>1
<1>7. StepBits(w, d) = c[8]
  BY DEF StepBits
<1>8. P(c)
  <2> HIDE DEF P
  <2> QED BY <1>6, Zenon
<1> HIDE DEF c
<1>9. c[0] = w /\ \A n \in 1 .. 8 : c[n] = StepBit(c[n - 1], d)
  BY <1>8
<1>10. c = f
  <2>1. c[0] = f[0]
    BY <1>5, <1>9
  <2>2. \A n \in 1 .. 8 : c[n - 1] = f[n - 1] => c[n] = f[n]
    BY <1>5, <1>9
  <2>3. c[1] = f[1] /\ c[2] = f[2] /\ c[3] = f[3] /\ c[4] = f[4]
    BY <2>1, <2>2
  <2>4. c[5] = f[5] /\ c[6] = f[6] /\ c[7] = f[7] /\ c[8] = f[8]
    BY <2>2, <2>3
  <2>5. c = [n \in 0 .. 8 |-> c[n]] /\ f = [n \in 0 .. 8 |-> f[n]]
    BY <1>5, <1>8
  <2> QED BY <2>1, <2>3, <2>4, <2>5
<1> QED BY <1>5, <1>7, <1>9, <1>10 DEF V

\* So has the division by one byte.
DivideTurns(register, w, byte, d) ==
  /\ register \in [0 .. 8 -> SUBSET (0 .. d.bits - 1)]
  /\ register[0] = w
  /\ \A n \in 1 .. 8 : register[n] = DivideBit(register[n - 1], DataBit(byte, n, d), d)
  /\ Divided(w, byte, d) = register[8]

LEMMA DivideLoop ==
  ASSUME NEW d, Detail(d), NEW w \in SUBSET (0 .. d.bits - 1), NEW byte
  PROVE  \E register : DivideTurns(register, w, byte, d)
<1> DEFINE V == SUBSET (0 .. d.bits - 1)
           G == [p \in V \X (1 .. 8) |-> DivideBit(p[1], DataBit(byte, p[2], d), d)]
           P(g) == g = [n \in 0 .. 8 |-> IF n = 0 THEN w ELSE DivideBit(g[n - 1], DataBit(byte, n, d), d)]
           c == CHOOSE g : P(g)
<1>1. \A v \in V, n \in 1 .. 8 : DivideBit(v, DataBit(byte, n, d), d) \in V
  <2> SUFFICES ASSUME NEW v \in V, NEW n \in 1 .. 8 PROVE DivideBit(v, DataBit(byte, n, d), d) \in V
    OBVIOUS
  <2>1. DataBit(byte, n, d) \in BOOLEAN
    BY DEF DataBit
  <2> QED BY <2>1, DivideBitBit
<1>2. G \in [V \X (1 .. 8) -> V]
  BY <1>1
<1>3. \A v \in V, n \in 1 .. 8 : G[<<v, n>>] = DivideBit(v, DataBit(byte, n, d), d)
  OBVIOUS
<1>4. PICK f : ComputedFrom(f, V, w, 8, G)
  <2> HIDE DEF V, G
  <2>1. w \in V /\ 8 \in Nat
    BY DEF V
  <2> QED BY <1>2, <2>1, RecursiveFunction
<1> HIDE DEF V, G
<1>5. f \in [0 .. 8 -> V] /\ f[0] = w /\ \A n \in 1 .. 8 : f[n] = DivideBit(f[n - 1], DataBit(byte, n, d), d)
  <2>1. \A n \in 1 .. 8 : f[n - 1] \in V
    BY <1>4 DEF ComputedFrom
  <2> QED BY <1>3, <1>4, <2>1 DEF ComputedFrom
<1>6. P(f)
  <2>1. f = [n \in 0 .. 8 |-> f[n]]
    BY <1>5
  <2> QED BY <1>5, <2>1
<1>7. Divided(w, byte, d) = c[8]
  BY DEF Divided
<1>8. P(c)
  <2> HIDE DEF P
  <2> QED BY <1>6, Zenon
<1> HIDE DEF c
<1>9. c[0] = w /\ \A n \in 1 .. 8 : c[n] = DivideBit(c[n - 1], DataBit(byte, n, d), d)
  BY <1>8
<1>10. c = f
  <2>1. c[0] = f[0]
    BY <1>5, <1>9
  <2>2. \A n \in 1 .. 8 : c[n - 1] = f[n - 1] => c[n] = f[n]
    BY <1>5, <1>9
  <2>3. c[1] = f[1] /\ c[2] = f[2] /\ c[3] = f[3] /\ c[4] = f[4]
    BY <2>1, <2>2
  <2>4. c[5] = f[5] /\ c[6] = f[6] /\ c[7] = f[7] /\ c[8] = f[8]
    BY <2>2, <2>3
  <2>5. c = [n \in 0 .. 8 |-> c[n]] /\ f = [n \in 0 .. 8 |-> f[n]]
    BY <1>5, <1>8
  <2> QED BY <2>1, <2>3, <2>4, <2>5
<1> QED BY <1>5, <1>7, <1>9, <1>10 DEF V, DivideTurns

\* The bits of the byte in the order in which they are divided.
Ordered(byte, d) == IF d.reflect THEN reflect(byte, 8) ELSE byte

\* What the two loops have to do with each other: the register of table_gen
\* is that of the division, less the bits of w that the byte has not reached.
Related(st, reg, w, b, bits, n) ==
  \A x \in 0 .. bits - 1 :
     x \in st <=> (x \in reg <=> (x - (bits - 8) - n \in b <=> (x - n \in w /\ x - n < bits - 8)))

LEMMA RelatedInit ==
  ASSUME NEW bits \in Nat, bits >= 8, NEW w \in SUBSET (0 .. bits - 1), NEW b \in SUBSET (0 .. 7)
  PROVE  Related(Shl(Xor(Shr(w, bits - 8), b), bits - 8), w, w, b, bits, 0)
<1> DEFINE r == Shr(w, bits - 8)
           y == Xor(r, b)
           k == bits - 8
<1>1. w \in SUBSET Nat /\ b \in SUBSET Nat /\ k \in Nat
  OBVIOUS
<1>2. r \in SUBSET Nat
  BY <1>1, ShrType
<1>3. y \in SUBSET Nat
  <2> HIDE DEF r
  <2> QED BY <1>1, <1>2, XorType
<1>4. ASSUME NEW x \in 0 .. bits - 1
      PROVE  x \in Shl(y, k) <=> (x \in w <=> (x - k - 0 \in b <=> (x - 0 \in w /\ x - 0 < k)))
  <2>1. x \in Shl(y, k) <=> x - k \in y
    <3> HIDE DEF y, k
    <3> QED BY <1>1, <1>3, ShlBit
  <2>2. x - k \in y <=> ~(x - k \in r <=> x - k \in b)
    BY XorBit
  <2>3. x - k \in r <=> x - k >= 0 /\ (x - k) + k \in w
    BY <1>1, ShrBit
  <2>4. (x - k) + k = x /\ x - 0 = x /\ x - k - 0 = x - k
    BY <1>1
  <2>5. x - k \in b => x - k >= 0
    BY <1>1
  <2>6. x \in Shl(y, k) <=> ~((x - k >= 0 /\ x \in w) <=> x - k \in b)
    <3> HIDE DEF y, k, r
    <3> QED BY <2>1, <2>2, <2>3, <2>4
  <2>7. x - k >= 0 <=> ~(x < k)
    BY <1>1
  <2> HIDE DEF y, k
  <2> QED BY <2>4, <2>5, <2>6, <2>7
<1> QED BY <1>4 DEF Related

LEMMA RelatedStep ==
  ASSUME NEW d, Detail(d), NEW w \in SUBSET (0 .. d.bits - 1), NEW b \in SUBSET (0 .. 7),
         NEW st \in SUBSET Nat, NEW reg \in SUBSET (0 .. d.bits - 1), NEW n \in 1 .. 8,
         NEW bit \in BOOLEAN, bit <=> 8 - n \in b,
         Related(st, reg, w, b, d.bits, n - 1)
  PROVE  Related(StepBit(st, d), DivideBit(reg, bit, d), w, b, d.bits, n)
<1> DEFINE top == d.bits - 1
<1>1. d.bits \in Nat /\ d.bits >= 8 /\ top \in 0 .. d.bits - 1
  BY DEF Detail
<1>2. top \in st <=> ((top \in reg) # bit)
  <2>1. top - (d.bits - 8) - (n - 1) = 8 - n
    BY <1>1
  <2>2. ~(top - (n - 1) < d.bits - 8)
    BY <1>1
  <2>3. top \in st <=> (top \in reg <=> (top - (d.bits - 8) - (n - 1) \in b <=> (top - (n - 1) \in w /\ top - (n - 1) < d.bits - 8)))
    BY <1>1 DEF Related
  <2> QED BY <2>1, <2>2, <2>3
<1>3. ASSUME NEW x \in 0 .. d.bits - 1
      PROVE  x \in StepBit(st, d) <=> (x \in DivideBit(reg, bit, d) <=>
                (x - (d.bits - 8) - n \in b <=> (x - n \in w /\ x - n < d.bits - 8)))
  <2>1. x \in StepBit(st, d) <=> (x - 1 \in st <=> ~(top \in st /\ x \in d.polynomial))
    <3>1. x \in Int
      BY <1>1
    <3> QED BY <3>1, StepBitBit
  <2>2. x \in DivideBit(reg, bit, d) <=> (x - 1 \in reg <=> ~(((top \in reg) # bit) /\ x \in d.polynomial))
    BY DivideBitBit
  <2>3. x - 1 \in st <=> (x - 1 \in reg <=> (x - (d.bits - 8) - n \in b <=> (x - n \in w /\ x - n < d.bits - 8)))
    <3>1. CASE x = 0
      <4>1. x - 1 \notin st /\ x - 1 \notin reg
        BY <3>1
      <4>2. x - (d.bits - 8) - n \notin b /\ x - n \notin w
        BY <1>1, <3>1
      <4> QED BY <4>1, <4>2
    <3>2. CASE x # 0
      <4>1. x - 1 \in 0 .. d.bits - 1
        BY <1>1, <3>2
      <4>2. (x - 1) - (d.bits - 8) - (n - 1) = x - (d.bits - 8) - n /\ (x - 1) - (n - 1) = x - n
        BY <1>1
      <4> QED BY <4>1, <4>2 DEF Related
    <3> QED BY <3>1, <3>2
  <2> HIDE DEF top
  <2> QED BY <1>2, <2>1, <2>2, <2>3
<1> QED BY <1>3 DEF Related

\* A byte through the table is eight bits through the division.
LEMMA TableIsDivision ==
  ASSUME NEW d, Detail(d), d.reflect \in BOOLEAN,
         NEW w \in SUBSET (0 .. d.bits - 1), NEW byte \in SUBSET (0 .. 7)
  PROVE  LET s == StepBits(Shl(Xor(Shr(w, d.bits - 8), Ordered(byte, d)), d.bits - 8), d)
         IN  /\ Divided(w, byte, d) \in SUBSET (0 .. d.bits - 1)
             /\ \A x \in 0 .. d.bits - 1 : x \in Divided(w, byte, d) <=> ~(x \in s <=> x - 8 \in w)
<1> DEFINE b == Ordered(byte, d)
           first == Shl(Xor(Shr(w, d.bits - 8), b), d.bits - 8)
<1>1. d.bits \in Nat /\ d.bits >= 8 /\ d.bits - 8 \in Nat
  BY DEF Detail
<1>2. b \in SUBSET (0 .. 7)
  <2>1. reflect(byte, 8) \in SUBSET (0 .. 8 - 1)
    BY ReflectType
  <2> QED BY <2>1 DEF Ordered
<1>3. \A n \in 1 .. 8 : DataBit(byte, n, d) \in BOOLEAN /\ (DataBit(byte, n, d) <=> 8 - n \in b)
  <2> SUFFICES ASSUME NEW n \in 1 .. 8
               PROVE  DataBit(byte, n, d) \in BOOLEAN /\ (DataBit(byte, n, d) <=> 8 - n \in b)
    OBVIOUS
  <2>1. 8 - n \in 0 .. 8 - 1 /\ 8 - 1 - (8 - n) = n - 1
    OBVIOUS
  <2>2. 8 - n \in reflect(byte, 8) <=> n - 1 \in byte
    BY <2>1, ReflectBit
  <2> QED BY <2>2 DEF DataBit, Ordered
<1> HIDE DEF b
<1>4. first \in SUBSET Nat
  <2> DEFINE r == Shr(w, d.bits - 8)
             y == Xor(r, b)
  <2>1. w \in SUBSET Nat /\ b \in SUBSET Nat
    BY <1>1, <1>2
  <2>2. r \in SUBSET Nat
    BY <1>1, <2>1, ShrType
  <2> HIDE DEF r
  <2>3. y \in SUBSET Nat
    BY <2>1, <2>2, XorType
  <2> HIDE DEF y
  <2>4. Shl(y, d.bits - 8) \in SUBSET Nat
    BY <1>1, <2>3, ShlType
  <2> QED BY <2>4 DEF y, r
<1>5. Related(first, w, w, b, d.bits, 0)
  BY <1>1, <1>2, RelatedInit
<1> HIDE DEF first
<1>6. PICK st \in [0 .. 8 -> SUBSET Nat] :
         /\ st[0] = first
         /\ \A n \in 1 .. 8 : st[n] = StepBit(st[n - 1], d)
         /\ StepBits(first, d) = st[8]
  BY <1>4, StepLoop
<1>7. PICK reg : DivideTurns(reg, w, byte, d)
  BY DivideLoop
<1> DEFINE R(n) == Related(st[n], reg[n], w, b, d.bits, n)
<1>8. ASSUME NEW n \in 1 .. 8, R(n - 1) PROVE R(n)
  <2>1. st[n - 1] \in SUBSET Nat /\ reg[n - 1] \in SUBSET (0 .. d.bits - 1)
    BY <1>6, <1>7 DEF DivideTurns
  <2>2. Related(StepBit(st[n - 1], d), DivideBit(reg[n - 1], DataBit(byte, n, d), d), w, b, d.bits, n)
    BY <1>2, <1>3, <1>8, <2>1, RelatedStep
  <2> QED BY <1>6, <1>7, <2>2 DEF DivideTurns
<1>9. R(0)
  BY <1>5, <1>6, <1>7 DEF DivideTurns
<1>10. R(8)
  <2> HIDE DEF R
  <2>1. R(1) /\ R(2) /\ R(3) /\ R(4)
    BY <1>8, <1>9
  <2> QED BY <1>8, <2>1
<1>11. \A x \in 0 .. d.bits - 1 :
          x \in st[8] <=> (x \in reg[8] <=> (x - (d.bits - 8) - 8 \in b <=> (x - 8 \in w /\ x - 8 < d.bits - 8)))
  BY <1>10 DEF Related
<1>12. ASSUME NEW x \in 0 .. d.bits - 1 PROVE x \in reg[8] <=> ~(x \in st[8] <=> x - 8 \in w)
  <2>1. x - (d.bits - 8) - 8 \notin b /\ x - 8 < d.bits - 8
    BY <1>1, <1>2
  <2> QED BY <1>11, <2>1
<1>13. Shl(Xor(Shr(w, d.bits - 8), Ordered(byte, d)), d.bits - 8) = first
  BY DEF first, b
<1> QED BY <1>6, <1>7, <1>12, <1>13 DEF DivideTurns

--------------------------------------------------------------------------------
(* The five clod_<alg>_add. *)

\* The entry is looked up as the checksums that are not reflected do.
LEMMA DirectAdd ==
  ASSUME NEW d, Detail(d), d.reflect = FALSE,
         NEW w \in SUBSET (0 .. d.bits - 1), NEW byte \in SUBSET (0 .. 7)
  PROVE  /\ Divided(w, byte, d) \in SUBSET (0 .. d.bits - 1)
         /\ Divided(w, byte, d) = Xor(table_gen(Xor(Shr(w, d.bits - 8), byte), d), Low(Shl(w, 8), d.bits))
<1> DEFINE i == Xor(Shr(w, d.bits - 8), byte)
           s == StepBits(Shl(i, d.bits - 8), d)
           q == Divided(w, byte, d)
           t == table_gen(i, d)
           l == Low(Shl(w, 8), d.bits)
<1>1. Ordered(byte, d) = byte
  BY DEF Ordered
<1>2. q \in SUBSET (0 .. d.bits - 1) /\ \A x \in 0 .. d.bits - 1 : x \in q <=> ~(x \in s <=> x - 8 \in w)
  BY <1>1, TableIsDivision
<1>3. t = Low(s, d.bits)
  BY DEF table_gen
<1>4. w \in SUBSET Nat /\ d.bits \in Nat
  BY DEF Detail
<1>5. ASSUME NEW x \in 0 .. d.bits - 1 PROVE x \in q <=> x \in Xor(t, l)
  <2>1. x \in t <=> x \in s
    <3> HIDE DEF s, t
    <3> QED BY <1>3, LowBit
  <2>2. x \in l <=> x - 8 \in w
    BY <1>4, LowBit, ShlBit
  <2> HIDE DEF t, l, s, q
  <2> QED BY <1>2, <2>1, <2>2, XorBit
<1>6. t \in SUBSET (0 .. d.bits - 1) /\ l \in SUBSET (0 .. d.bits - 1)
  BY <1>3 DEF Low
<1>7. q = Xor(t, l)
  <2> HIDE DEF t, l, s, q
  <2>1. Xor(t, l) \in SUBSET (0 .. d.bits - 1)
    BY <1>6 DEF Xor
  <2> QED BY <1>2, <1>5, <2>1
<1> QED BY <1>2, <1>7

\* The entry is looked up as the reflected checksums do.
LEMMA ReflectedAdd ==
  ASSUME NEW d, Detail(d), d.reflect = TRUE,
         NEW w \in SUBSET (0 .. d.bits - 1), NEW byte \in SUBSET (0 .. 7)
  PROVE  /\ Divided(w, byte, d) \in SUBSET (0 .. d.bits - 1)
         /\ reflect(Divided(w, byte, d), d.bits) =
              Xor(table_gen(Xor(Low(reflect(w, d.bits), 8), byte), d), Shr(reflect(w, d.bits), 8))
<1> DEFINE v == reflect(w, d.bits)
           i == Xor(Low(v, 8), byte)
           b == reflect(byte, 8)
           first == Shl(Xor(Shr(w, d.bits - 8), b), d.bits - 8)
           s == StepBits(first, d)
           q == Divided(w, byte, d)
           t == table_gen(i, d)
           r == Shr(v, 8)
<1>1. Ordered(byte, d) = b
  BY DEF Ordered
<1>2. q \in SUBSET (0 .. d.bits - 1) /\ \A x \in 0 .. d.bits - 1 : x \in q <=> ~(x \in s <=> x - 8 \in w)
  BY <1>1, TableIsDivision
<1>3. w \in SUBSET Nat /\ d.bits \in Nat /\ d.bits - 8 \in Nat /\ byte \in SUBSET Nat
  BY DEF Detail
<1>4. v \in SUBSET (0 .. d.bits - 1) /\ b \in SUBSET (0 .. 8 - 1)
  BY <1>3, ReflectType
<1>5. v \in SUBSET Nat /\ b \in SUBSET Nat
  BY <1>3, <1>4
<1>6. \A x \in Int : /\ x \in v <=> x \in 0 .. d.bits - 1 /\ d.bits - 1 - x \in w
                     /\ x \in b <=> x \in 0 .. 8 - 1 /\ 8 - 1 - x \in byte
  BY <1>3, ReflectBit
<1> HIDE DEF v, b
\* The index, shifted to the top in the order of the bits, is where table_gen begins.
<1>7. first = reflect(i, d.bits)
  <2> DEFINE h == Shr(w, d.bits - 8)
             y == Xor(h, b)
  <2>1. h \in SUBSET Nat
    BY <1>3, ShrType
  <2>2. y \in SUBSET Nat
    <3> HIDE DEF h
    <3> QED BY <1>5, <2>1, XorType
  <2>3. first \in SUBSET Nat
    <3> HIDE DEF y
    <3>1. Shl(y, d.bits - 8) \in SUBSET Nat
      BY <1>3, <2>2, ShlType
    <3> QED BY <3>1 DEF y
  <2>4. reflect(i, d.bits) \in SUBSET (0 .. d.bits - 1)
    <3> HIDE DEF i
    <3> QED BY <1>3, ReflectType
  <2>5. ASSUME NEW x \in Nat PROVE x \in first <=> x - (d.bits - 8) \in y
    <3> HIDE DEF y
    <3>1. x \in Int
      OBVIOUS
    <3>2. x \in Shl(y, d.bits - 8) <=> x - (d.bits - 8) \in y
      BY <1>3, <2>2, <3>1, ShlBit
    <3> QED BY <3>2 DEF y
  <2>6. ASSUME NEW x \in Nat PROVE x \in first <=> x \in reflect(i, d.bits)
    <3> DEFINE k == x - (d.bits - 8)
               z == d.bits - 1 - x
    <3>1. k \in Int /\ z \in Int /\ k + (d.bits - 8) = x /\ 8 - 1 - k = z /\ d.bits - 1 - z = x
      BY <1>3
    <3>2. k \in h <=> k >= 0 /\ x \in w
      BY <1>3, <3>1, ShrBit
    <3>3. k \in b <=> k \in 0 .. 8 - 1 /\ z \in byte
      BY <1>6, <3>1
    <3>4. k \in y <=> ~(k \in h <=> k \in b)
      BY XorBit
    <3>5. x \in reflect(i, d.bits) <=> x \in 0 .. d.bits - 1 /\ z \in i
      <4> HIDE DEF i
      <4>1. x \in Int
        OBVIOUS
      <4> QED BY <1>3, <4>1, ReflectBit
    <3>6. z \in i <=> ~(z \in Low(v, 8) <=> z \in byte)
      BY XorBit
    <3>7. z \in Low(v, 8) <=> z \in 0 .. d.bits - 1 /\ x \in w /\ z \in 0 .. 8 - 1
      BY <1>6, <3>1, LowBit
    <3>8. /\ z \in byte => z \in 0 .. 7
          /\ x \in w => x \in 0 .. d.bits - 1
          /\ z \in 0 .. 7 <=> k \in 0 .. 7
          /\ z \in 0 .. 7 => x \in 0 .. d.bits - 1 /\ z \in 0 .. d.bits - 1
          /\ k >= 0 /\ x \in 0 .. d.bits - 1 => k \in 0 .. 7
          /\ k \in 0 .. 7 => k >= 0
      BY <1>3
    <3> HIDE DEF first, h, y, i, k, z
    <3>9. x \in first <=> k \in y
      BY <2>5 DEF k
    <3> QED BY <3>2, <3>3, <3>4, <3>5, <3>6, <3>7, <3>8, <3>9
  <2>7. reflect(i, d.bits) \in SUBSET Nat
    BY <1>3, <2>4
  <2> HIDE DEF first, i
  <2> QED BY <2>3, <2>6, <2>7
<1> HIDE DEF first, i
<1>8. t = reflect(s, d.bits)
  BY <1>7 DEF table_gen
<1> HIDE DEF s, q
<1>9. t \in SUBSET (0 .. d.bits - 1) /\ r \in SUBSET Nat
  <2>1. reflect(s, d.bits) \in SUBSET (0 .. d.bits - 1)
    BY <1>3, ReflectType
  <2>2. r \in SUBSET Nat
    BY <1>5, ShrType
  <2> QED BY <1>8, <2>1, <2>2
<1> HIDE DEF t
<1>10. \A x \in Nat : x \in r <=> x + 8 \in 0 .. d.bits - 1 /\ d.bits - 1 - (x + 8) \in w
  <2> SUFFICES ASSUME NEW x \in Nat
               PROVE  x \in r <=> x + 8 \in 0 .. d.bits - 1 /\ d.bits - 1 - (x + 8) \in w
    OBVIOUS
  <2>1. x \in r <=> x + 8 \in v
    BY <1>5, ShrBit
  <2> QED BY <1>6, <2>1
<1> HIDE DEF r
<1>11. ASSUME NEW x \in Nat PROVE x \in reflect(q, d.bits) <=> x \in Xor(t, r)
  <2> DEFINE z == d.bits - 1 - x
  <2>1. x \in Int /\ z \in Int /\ d.bits - 1 - (x + 8) = z - 8
    BY <1>3
  <2>2. x \in reflect(q, d.bits) <=> x \in 0 .. d.bits - 1 /\ z \in q
    BY <1>3, <2>1, ReflectBit
  <2>3. x \in t <=> x \in 0 .. d.bits - 1 /\ z \in s
    BY <1>3, <1>8, <2>1, ReflectBit
  <2>4. x \in r <=> x + 8 \in 0 .. d.bits - 1 /\ z - 8 \in w
    BY <1>10, <2>1
  <2>5. x \in Xor(t, r) <=> ~(x \in t <=> x \in r)
    BY XorBit
  <2>6. /\ x \in 0 .. d.bits - 1 => z \in 0 .. d.bits - 1
        /\ x + 8 \in 0 .. d.bits - 1 => x \in 0 .. d.bits - 1
        /\ x \in 0 .. d.bits - 1 /\ z - 8 \in w => x + 8 \in 0 .. d.bits - 1
    BY <1>3
  <2> HIDE DEF z
  <2> QED BY <1>2, <2>2, <2>3, <2>4, <2>5, <2>6
<1>12. reflect(q, d.bits) \in SUBSET Nat /\ Xor(t, r) \in SUBSET Nat
  <2>1. reflect(q, d.bits) \in SUBSET (0 .. d.bits - 1)
    BY <1>3, ReflectType
  <2>2. t \in SUBSET Nat
    BY <1>3, <1>9
  <2> QED BY <1>3, <1>9, <2>1, <2>2, XorType
<1>13. reflect(q, d.bits) = Xor(t, r)
  BY <1>11, <1>12
<1> QED BY <1>2, <1>13 DEF q, t, r, i, v

LEMMA HexType ==
  ASSUME NEW digits, NEW n \in Nat, Len(digits) = n
  PROVE  Hex(digits) \in SUBSET (0 .. 4 * n - 1)
BY DEF Hex

\* The table of crc_tables_generate.c: the polynomials fit their checksums.
LEMMA DetailsType ==
  ASSUME NEW a \in Algs
  PROVE  Detail(details[a]) /\ details[a].reflect \in BOOLEAN
<1>1. a \in {"crc64", "crc32", "crc24", "crc16", "crc8"}
  BY DEF Algs, details
<1>2. CASE a = "crc64"
  <2>1. Hex(<<4, 2, 15, 0, 14, 1, 14, 11, 10, 9, 14, 10, 3, 6, 9, 3>>) \in SUBSET (0 .. 4 * 16 - 1)
    BY HexType
  <2>2. details[a] = [bits |-> 64, reflect |-> FALSE, polynomial |-> Hex(<<4, 2, 15, 0, 14, 1, 14, 11, 10, 9, 14, 10, 3, 6, 9, 3>>)]
    BY <1>2 DEF details
  <2> QED BY <2>1, <2>2 DEF Detail
<1>3. CASE a = "crc32"
  <2>1. Hex(<<0, 4, 12, 1, 1, 13, 11, 7>>) \in SUBSET (0 .. 4 * 8 - 1)
    BY HexType
  <2>2. details[a] = [bits |-> 32, reflect |-> TRUE, polynomial |-> Hex(<<0, 4, 12, 1, 1, 13, 11, 7>>)]
    BY <1>3 DEF details
  <2> QED BY <2>1, <2>2 DEF Detail
<1>4. CASE a = "crc24"
  <2>1. Hex(<<8, 6, 4, 12, 15, 11>>) \in SUBSET (0 .. 4 * 6 - 1)
    BY HexType
  <2>2. details[a] = [bits |-> 24, reflect |-> FALSE, polynomial |-> Hex(<<8, 6, 4, 12, 15, 11>>)]
    BY <1>4 DEF details
  <2> QED BY <2>1, <2>2 DEF Detail
<1>5. CASE a = "crc16"
  <2>1. Hex(<<1, 0, 2, 1>>) \in SUBSET (0 .. 4 * 4 - 1)
    BY HexType
  <2>2. details[a] = [bits |-> 16, reflect |-> TRUE, polynomial |-> Hex(<<1, 0, 2, 1>>)]
    BY <1>5 DEF details
  <2> QED BY <2>1, <2>2 DEF Detail
<1>6. CASE a = "crc8"
  <2>1. Hex(<<0, 7>>) \in SUBSET (0 .. 4 * 2 - 1)
    BY HexType
  <2>2. details[a] = [bits |-> 8, reflect |-> FALSE, polynomial |-> Hex(<<0, 7>>)]
    BY <1>6 DEF details
  <2> QED BY <2>1, <2>2 DEF Detail
<1> QED BY <1>1, <1>2, <1>3, <1>4, <1>5, <1>6

LEMMA DetailsBits ==
  /\ details["crc64"] = details.crc64 /\ details.crc64.bits = 64 /\ details.crc64.reflect = FALSE
  /\ details["crc32"] = details.crc32 /\ details.crc32.bits = 32 /\ details.crc32.reflect = TRUE
  /\ details["crc24"] = details.crc24 /\ details.crc24.bits = 24 /\ details.crc24.reflect = FALSE
  /\ details["crc16"] = details.crc16 /\ details.crc16.bits = 16 /\ details.crc16.reflect = TRUE
  /\ details["crc8"] = details.crc8 /\ details.crc8.bits = 8 /\ details.crc8.reflect = FALSE
  /\ Algs = {"crc64", "crc32", "crc24", "crc16", "crc8"}
BY DEF details, Algs

\* One byte added by the loop of each function is the byte divided.
LEMMA AddIsDivision ==
  ASSUME NEW a \in Algs, NEW byte \in SUBSET (0 .. 7), NEW w \in SUBSET (0 .. details[a].bits - 1)
  PROVE  /\ Divided(w, byte, details[a]) \in SUBSET (0 .. details[a].bits - 1)
         /\ details[a].reflect =>
              clod_crc_add(a, reflect(w, details[a].bits), byte) = reflect(Divided(w, byte, details[a]), details[a].bits)
         /\ ~details[a].reflect => clod_crc_add(a, w, byte) = Divided(w, byte, details[a])
<1> DEFINE d == details[a]
           t == table_gen(Xor(Shr(w, d.bits - 8), byte), d)
<1>1. Detail(d)
  BY DetailsType
<1>2. d.reflect = TRUE =>
        /\ Divided(w, byte, d) \in SUBSET (0 .. d.bits - 1)
        /\ reflect(Divided(w, byte, d), d.bits) =
             Xor(table_gen(Xor(Low(reflect(w, d.bits), 8), byte), d), Shr(reflect(w, d.bits), 8))
  <2> HIDE DEF d
  <2> QED BY <1>1, ReflectedAdd DEF d
<1>3. d.reflect = FALSE =>
        /\ Divided(w, byte, d) \in SUBSET (0 .. d.bits - 1)
        /\ Divided(w, byte, d) = Xor(t, Low(Shl(w, 8), d.bits))
  <2> HIDE DEF d
  <2> QED BY <1>1, DirectAdd DEF d
<1>4. CASE a = "crc64"
  <2>1. clod_crc_add(a, w, byte) = Xor(table_gen(Xor(Shr(w, 56), byte), d), Low(Shl(w, 8), 64))
    BY <1>4, DetailsBits DEF clod_crc_add, clod_crc64_add
  <2>2. d.bits = 64 /\ d.reflect = FALSE /\ d.bits - 8 = 56
    BY <1>4, DetailsBits
  <2> HIDE DEF d
  <2> QED BY <1>3, <2>1, <2>2 DEF d
<1>5. CASE a = "crc32"
  <2>1. clod_crc_add(a, reflect(w, d.bits), byte) =
          Xor(table_gen(Xor(Low(reflect(w, d.bits), 8), byte), d), Shr(reflect(w, d.bits), 8))
    BY <1>5, DetailsBits DEF clod_crc_add, clod_crc32_add
  <2>2. d.reflect = TRUE
    BY <1>5, DetailsBits
  <2> HIDE DEF d
  <2> QED BY <1>2, <2>1, <2>2 DEF d
<1>6. CASE a = "crc24"
  <2>1. d.bits = 24 /\ d.reflect = FALSE /\ d.bits - 8 = 16
    BY <1>6, DetailsBits
  <2>2. Low(w, 24) = w
    BY <2>1 DEF Low
  <2>3. t = Low(StepBits(Shl(Xor(Shr(w, d.bits - 8), byte), d.bits - 8), d), d.bits)
    BY <2>1 DEF table_gen
  <2>4. t \in SUBSET (0 .. 23)
    BY <2>1, <2>3 DEF Low
  <2>5. clod_crc_add(a, w, byte) = Low(Xor(t, Shl(w, 8)), 24)
    BY <1>6, <2>1, <2>2, DetailsBits DEF clod_crc_add, clod_crc24_add
  <2> HIDE DEF t, d
  <2>6. Low(Xor(t, Shl(w, 8)), 24) = Xor(t, Low(Shl(w, 8), 24))
    <3> DEFINE l == Shl(w, 8)
    <3> HIDE DEF l
    <3>1. \A x : x \in t => x \in 0 .. 24 - 1
      <4>1. 24 - 1 = 23
        OBVIOUS
      <4>2. t \in SUBSET (0 .. 24 - 1)
        BY <2>4, <4>1
      <4> QED BY <4>2, Zenon
    <3>2. ASSUME NEW x PROVE x \in Low(Xor(t, l), 24) <=> x \in Xor(t, Low(l, 24))
      <4>1. x \in Low(Xor(t, l), 24) <=> x \in Xor(t, l) /\ x \in 0 .. 24 - 1
        BY LowBit, Zenon
      <4>2. x \in Xor(t, l) <=> ~(x \in t <=> x \in l)
        BY XorBit, Zenon
      <4>3. x \in Xor(t, Low(l, 24)) <=> ~(x \in t <=> x \in Low(l, 24))
        BY XorBit, Zenon
      <4>4. x \in Low(l, 24) <=> x \in l /\ x \in 0 .. 24 - 1
        BY LowBit, Zenon
      <4> QED BY <3>1, <4>1, <4>2, <4>3, <4>4
    <3>3. Low(Xor(t, l), 24) = Xor(t, Low(l, 24))
      BY <3>2, Zenon
    <3> QED BY <3>3 DEF l
  <2> QED BY <1>3, <2>1, <2>5, <2>6 DEF d
<1>7. CASE a = "crc16"
  <2>1. clod_crc_add(a, reflect(w, d.bits), byte) =
          Xor(table_gen(Xor(Low(reflect(w, d.bits), 8), byte), d), Shr(reflect(w, d.bits), 8))
    BY <1>7, DetailsBits DEF clod_crc_add, clod_crc16_add
  <2>2. d.reflect = TRUE
    BY <1>7, DetailsBits
  <2> HIDE DEF d
  <2> QED BY <1>2, <2>1, <2>2 DEF d
<1>8. CASE a = "crc8"
  <2>1. d.bits = 8 /\ d.reflect = FALSE /\ d.bits - 8 = 0 /\ w \in SUBSET (0 .. 7)
    BY <1>8, DetailsBits
  <2>2. clod_crc_add(a, w, byte) = Xor(table_gen(Xor(Low(w, 8), byte), d), Shr(w, 8))
    BY <1>8, DetailsBits DEF clod_crc_add, clod_crc8_add
  <2>3. Low(w, 8) = w /\ Shr(w, 0) = w
    <3>1. Low(w, 8) = w
      BY <2>1 DEF Low
    <3>2. Shr(w, 0) \in SUBSET Nat /\ w \in SUBSET Nat
      BY <2>1, ShrType
    <3>3. \A x \in Nat : x \in Shr(w, 0) <=> x \in w
      BY <3>2, ShrBit
    <3> QED BY <3>1, <3>2, <3>3
  <2>4. Shr(w, 8) = {} /\ Low(Shl(w, 8), 8) = {}
    BY <2>1 DEF Low, Shr, Shl
  <2> HIDE DEF d
  <2> QED BY <1>3, <2>1, <2>2, <2>3, <2>4 DEF d
<1> QED BY <1>4, <1>5, <1>6, <1>7, <1>8, DetailsBits

\* The register of the division keeps its width.
CrcInv ==
  /\ alg \in Algs
  /\ ref \in SUBSET (0 .. details[alg].bits - 1)
  /\ CrcIsRemainder

LEMMA CrcInductive == CrcSpec => []CrcInv
<1>1. CrcInit => CrcInv
  <2> SUFFICES ASSUME CrcInit PROVE CrcInv
    OBVIOUS
  <2> DEFINE bits == details[alg].bits
  <2>1. alg \in Algs /\ crc = 0 .. bits - 1 /\ ref = 0 .. bits - 1
    BY DEF CrcInit, clod_crc_init
  <2>2. bits \in Nat
    BY <2>1, DetailsType DEF Detail
  <2> HIDE DEF bits
  <2>3. reflect(0 .. bits - 1, bits) = 0 .. bits - 1
    <3>1. reflect(0 .. bits - 1, bits) \in SUBSET (0 .. bits - 1)
      BY <2>2, ReflectType
    <3>2. \A x \in 0 .. bits - 1 : x \in reflect(0 .. bits - 1, bits)
      BY <2>2, ReflectBit
    <3> QED BY <3>1, <3>2
  <2> QED BY <2>1, <2>3 DEF bits, CrcInv, CrcIsRemainder
<1>2. CrcInv /\ [CrcNext]_crcVars => CrcInv'
  <2> SUFFICES ASSUME CrcInv, [CrcNext]_crcVars PROVE CrcInv'
    OBVIOUS
  <2>1. CASE CrcNext
    <3>1. PICK byte \in Data : crc' = clod_crc_add(alg, crc, byte) /\ ref' = Divided(ref, byte, details[alg]) /\ alg' = alg
      BY <2>1 DEF CrcNext
    <3>2. byte \in SUBSET (0 .. 7) /\ alg \in Algs /\ ref \in SUBSET (0 .. details[alg].bits - 1) /\ CrcIsRemainder
      BY CrcAssumption DEF CrcInv
    <3>3. /\ Divided(ref, byte, details[alg]) \in SUBSET (0 .. details[alg].bits - 1)
          /\ details[alg].reflect =>
               clod_crc_add(alg, reflect(ref, details[alg].bits), byte) = reflect(Divided(ref, byte, details[alg]), details[alg].bits)
          /\ ~details[alg].reflect => clod_crc_add(alg, ref, byte) = Divided(ref, byte, details[alg])
      BY <3>2, AddIsDivision
    <3>4. CASE details[alg].reflect
      BY <3>1, <3>2, <3>3, <3>4 DEF CrcInv, CrcIsRemainder
    <3>5. CASE ~details[alg].reflect
      BY <3>1, <3>2, <3>3, <3>5 DEF CrcInv, CrcIsRemainder
    <3> QED BY <3>4, <3>5
  <2>2. CASE UNCHANGED crcVars
    BY <2>2 DEF CrcInv, CrcIsRemainder, crcVars
  <2> QED BY <2>1, <2>2
<1> QED BY <1>1, <1>2, PTL DEF CrcSpec

\* Each of the five loops of crc.c over the tables of crc_tables_generate.c
\* computes the checksum of its polynomial, for data of any bytes and any length.
THEOREM CrcCorrect == CrcSpec => []CrcIsRemainder
<1>1. CrcInv => CrcIsRemainder
  BY DEF CrcInv
<1> QED BY <1>1, CrcInductive, PTL
================================================================================
