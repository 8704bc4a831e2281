------------------------------- MODULE NbtProofs -------------------------------
(***************************************************************************)
(* nbt.c, for every document, buffer, width of a byte and sequence of      *)
(* edits: the data are what nbt.h describes until a call departs from it,  *)
(* what the traversals return is exact, and the counter of free bytes      *)
(* never promises too much.                                                *)
(***************************************************************************)
EXTENDS NbtEditor, NatLemmas

Byte == 0 .. ByteValues - 1

--------------------------------------------------------------------------------
(* Types and numbers                                                       *)

\* The numbers that stand for the types.
LEMMA TypeCodes ==
    /\ NBT.ZERO = 0 /\ NBT.STRING = 8 /\ NBT.LIST = 9 /\ NBT.COMPOUND = 10
    /\ Fixed = 1 .. 6
    /\ Arrays = {7, 11, 12}
    /\ Types = 0 .. 12
<1>1. Len(payload_zero_sizes) = 12
  BY DEF payload_zero_sizes
<1>2. Types = 0 .. 12
  BY <1>1 DEF Types
<1>3. Fixed = 1 .. 6
  BY DEF Fixed, NBT
<1> QED BY <1>2, <1>3 DEF NBT, Arrays

\* The sizes of payloads of zero bytes.
LEMMA ZeroSizes ==
    /\ \A t : t \notin 1 .. 12 => type_zero_size(t) = 0
    /\ type_zero_size(1) = 1 /\ type_zero_size(2) = 2 /\ type_zero_size(3) = 4 /\ type_zero_size(4) = 8
    /\ type_zero_size(5) = 4 /\ type_zero_size(6) = 8
    /\ type_zero_size(7) = 4 /\ type_zero_size(11) = 4 /\ type_zero_size(12) = 4
    /\ type_zero_size(8) = 2 /\ type_zero_size(9) = 5 /\ type_zero_size(10) = 1
<1>1. DOMAIN payload_zero_sizes = 1 .. 12
  BY DEF payload_zero_sizes
<1>2. \A t : t \notin 1 .. 12 => type_zero_size(t) = 0
  BY <1>1 DEF type_zero_size
<1>3. \A t \in 1 .. 12 : type_zero_size(t) = payload_zero_sizes[t]
  BY <1>1 DEF type_zero_size
<1> HIDE DEF type_zero_size
<1> QED BY <1>2, <1>3 DEF payload_zero_sizes

LEMMA ZeroSizeType ==
    \A t : /\ type_zero_size(t) \in 0 .. 8
           /\ type_valid(t) <=> t \in 1 .. 12
<1>1. \A t \in 1 .. 12 : t \in {1, 2, 3, 4, 5, 6, 7, 8, 9, 10, 11, 12}
  OBVIOUS
<1>2. \A t \in 1 .. 12 : type_zero_size(t) \in 1 .. 8
  BY <1>1, ZeroSizes
<1> QED BY <1>2, ZeroSizes DEF type_valid

LEMMA ElemSizes == ElemSize(7) = 1 /\ ElemSize(11) = 4 /\ ElemSize(12) = 8
BY DEF ElemSize, NBT

LEMMA PairsType ==
    /\ Pairs \in Nat /\ Pairs >= 169 /\ Pairs * Pairs \in Nat
    /\ Pairs = ByteValues * ByteValues
<1>1. ByteValues * ByteValues >= 13 * 13
  <2>1. \A b \in Nat : b >= 13 => b * b >= 13 * b
    OBVIOUS
  <2> QED BY <2>1, NbtAssumption
<1> QED BY <1>1, NbtAssumption DEF Pairs

\* What is less than b * c has a quotient less than c.
LEMMA DivBound ==
    ASSUME NEW b \in Nat, b > 0, NEW c \in Nat, NEW n \in Nat, n < b * c
    PROVE  n \div b < c
<1>1. n = b * (n \div b) + (n % b) /\ n \div b \in Nat /\ n % b \in 0 .. b - 1
  BY ModRange
<1> DEFINE q == n \div b
           r == n % b
<1> HIDE DEF q, r
<1>2. SUFFICES ASSUME q >= c PROVE FALSE
  BY <1>1 DEF q
<1>3. q \in Nat /\ r \in Nat /\ n = b * q + r
  BY <1>1 DEF q, r
<1>4. b * q >= b * c
  <2>1. \A k \in Nat : b * k >= 0
    OBVIOUS
  <2>2. q - c \in Nat /\ b * q = b * c + b * (q - c)
    BY <1>2, <1>3
  <2> QED BY <2>1, <2>2
<1> QED BY <1>3, <1>4

\* What is less than n is its own remainder.
LEMMA SmallMod ==
    ASSUME NEW n \in Nat, n > 0, NEW x \in 0 .. n - 1
    PROVE  x % n = x
<1>1. x = n * 0 + x
  OBVIOUS
<1> QED BY <1>1, ModUnique

LEMMA WordSmall ==
    ASSUME NEW x \in Nat, x < SizeLimit
    PROVE  Word(x) = x
BY SmallMod, NbtAssumption, PairsType DEF Word

LEMMA WordType == \A x \in Int : Word(x) \in Nat
<1>1. SizeLimit \in Nat /\ SizeLimit > 0
  BY NbtAssumption, PairsType
<1>2. \A x \in Int, n \in Nat : n > 0 => x % n \in 0 .. n - 1
  OBVIOUS
<1> QED BY <1>1, <1>2 DEF Word

--------------------------------------------------------------------------------
(* Bytes in data                                                           *)

\* The bytes b are in the data d at p.
Holds(d, p, b) == p \in Nat /\ p + Len(b) <= Len(d) /\ \A i \in 1 .. Len(b) : d[p + i] = b[i]

\* Data: bytes.
LEMMA TextFacts ==
    ASSUME NEW d \in Text
    PROVE  /\ Len(d) \in Nat /\ DOMAIN d = 1 .. Len(d)
           /\ \A i \in 1 .. Len(d) : d[i] \in Nat /\ d[i] < ByteValues
BY NbtAssumption DEF Text

\* c is a and b behind it.
IsJoin(c, a, b) ==
  /\ c \in Text /\ Len(c) = Len(a) + Len(b)
  /\ \A i \in 1 .. Len(a) : c[i] = a[i]
  /\ \A i \in 1 .. Len(b) : c[Len(a) + i] = b[i]

LEMMA ConcatText ==
    ASSUME NEW a \in Text, NEW b \in Text
    PROVE  IsJoin(a \o b, a, b)
BY DEF Text, IsJoin

LEMMA JoinLength ==
    ASSUME NEW a \in Text, NEW b \in Text, NEW c, IsJoin(c, a, b)
    PROVE  /\ Len(a) \in Nat /\ Len(b) \in Nat /\ Len(c) \in Nat /\ c \in Text
           /\ Len(c) = Len(a) + Len(b)
<1>1. Len(a) \in Nat /\ Len(b) \in Nat
  BY TextFacts
<1> QED BY <1>1 DEF IsJoin

LEMMA AtType ==
    ASSUME NEW d \in Text, NEW p \in Nat
    PROVE  At(d, p) \in Nat
<1>1. CASE p < Len(d)
  <2>1. p + 1 \in 1 .. Len(d)
    BY <1>1, TextFacts
  <2> QED BY <2>1, <1>1, TextFacts DEF At
<1>2. CASE ~(p < Len(d))
  <2>1. Some \in Nat
    <3>1. \E n \in Nat : TRUE
      OBVIOUS
    <3> QED BY <3>1 DEF Some
  <2> QED BY <2>1, <1>2 DEF At
<1> QED BY <1>1, <1>2

LEMMA HoldsAt ==
    ASSUME NEW d \in Text, NEW b \in Text, NEW p, Holds(d, p, b), NEW i \in 0 .. Len(b) - 1
    PROVE  At(d, p + i) = b[i + 1]
<1>1. p \in Nat /\ Len(b) \in Nat /\ Len(d) \in Nat /\ i \in Nat /\ i + 1 \in 1 .. Len(b)
  BY TextFacts DEF Holds
<1>2. p + i < Len(d) /\ d[p + (i + 1)] = b[i + 1] /\ p + (i + 1) = (p + i) + 1
  BY <1>1 DEF Holds
<1> QED BY <1>2 DEF At

LEMMA HoldsConcat ==
    ASSUME NEW d \in Text, NEW a \in Text, NEW b \in Text, NEW p, Holds(d, p, a \o b)
    PROVE  Holds(d, p, a) /\ Holds(d, p + Len(a), b)
<1>1. Len(a) \in Nat /\ Len(b) \in Nat /\ p \in Nat /\ Len(a \o b) = Len(a) + Len(b) /\ Len(d) \in Nat
  BY TextFacts DEF Holds, Text
<1>2. p + (Len(a) + Len(b)) <= Len(d)
  BY <1>1 DEF Holds
<1>3. ASSUME NEW i \in 1 .. Len(a) PROVE d[p + i] = a[i]
  <2>1. i \in 1 .. Len(a \o b)
    BY <1>1
  <2>2. (a \o b)[i] = a[i]
    BY <1>1 DEF Text
  <2> QED BY <2>1, <2>2 DEF Holds
<1>4. ASSUME NEW i \in 1 .. Len(b) PROVE d[(p + Len(a)) + i] = b[i]
  <2>1. Len(a) + i \in 1 .. Len(a \o b) /\ p + (Len(a) + i) = (p + Len(a)) + i
    BY <1>1
  <2>2. (a \o b)[Len(a) + i] = b[i]
    BY <1>1 DEF Text
  <2> QED BY <2>1, <2>2 DEF Holds
<1> QED BY <1>1, <1>2, <1>3, <1>4 DEF Holds

LEMMA HoldsSub ==
    ASSUME NEW d \in Text, NEW b \in Text, NEW p, Holds(d, p, b)
    PROVE  SubSeq(d, p + 1, p + Len(b)) = b
<1>1. Len(b) \in Nat /\ p \in Nat /\ Len(d) \in Nat /\ p + Len(b) <= Len(d) /\ b = [i \in 1 .. Len(b) |-> b[i]]
  BY TextFacts DEF Holds, Text
<1>2. SubSeq(d, p + 1, p + Len(b)) = [i \in 1 .. Len(b) |-> d[p + i]]
  <2>1. SubSeq(d, p + 1, p + Len(b)) = [i \in 1 .. (p + Len(b)) - (p + 1) + 1 |-> d[i + (p + 1) - 1]]
    BY <1>1 DEF Text
  <2>2. (p + Len(b)) - (p + 1) + 1 = Len(b) /\ \A i \in 1 .. Len(b) : i + (p + 1) - 1 = p + i
    BY <1>1
  <2> QED BY <2>1, <2>2
<1>3. \A i \in 1 .. Len(b) : d[p + i] = b[i]
  BY DEF Holds
<1> QED BY <1>1, <1>2, <1>3

\* Data hold themselves.
LEMMA HoldsAll ==
    ASSUME NEW d \in Text
    PROVE  Holds(d, 0, d)
BY TextFacts DEF Holds

--------------------------------------------------------------------------------
(* Numbers of two and of four bytes                                        *)

LEMMA Halves ==
    ASSUME NEW b \in Nat, b > 0, NEW c \in Nat, NEW n \in Nat, n < b * c
    PROVE  /\ n \div b \in 0 .. c - 1 /\ (n \div b) % c = n \div b
           /\ n % b \in 0 .. b - 1
           /\ (n \div b) * b + (n % b) = n
<1>1. n = b * (n \div b) + (n % b) /\ n \div b \in Nat /\ n % b \in 0 .. b - 1
  BY ModRange
<1>2. n \div b < c
  BY DivBound
<1>3. n \div b \in 0 .. c - 1 /\ c > 0
  BY <1>1, <1>2
<1>4. (n \div b) % c = n \div b
  BY <1>3, SmallMod
<1>5. \A q \in Nat : b * q = q * b
  OBVIOUS
<1> QED BY <1>1, <1>3, <1>4, <1>5

LEMMA Enc16 ==
    ASSUME NEW n \in 0 .. Pairs - 1
    PROVE  /\ beu16_enc(n) \in Text /\ Len(beu16_enc(n)) = 2
           /\ beu16_enc(n)[1] = n \div ByteValues
           /\ beu16_enc(n)[1] * ByteValues + beu16_enc(n)[2] = n
<1>1. n \in Nat /\ n < ByteValues * ByteValues /\ ByteValues \in Nat /\ ByteValues > 0
  BY PairsType, NbtAssumption
<1>2. /\ n \div ByteValues \in Byte /\ (n \div ByteValues) % ByteValues = n \div ByteValues
      /\ n % ByteValues \in Byte
      /\ (n \div ByteValues) * ByteValues + (n % ByteValues) = n
  BY <1>1, Halves DEF Byte
<1> DEFINE q == n \div ByteValues
           r == n % ByteValues
<1>3. beu16_enc(n) = <<q, r>>
  BY <1>2 DEF beu16_enc
<1>4. q \in Byte /\ r \in Byte /\ q * ByteValues + r = n
  BY <1>2
<1> HIDE DEF q, r
<1>5. <<q, r>> \in Seq(Byte) /\ Len(<<q, r>>) = 2 /\ <<q, r>>[1] = q /\ <<q, r>>[2] = r
  BY <1>4
<1>6. Text = Seq(Byte)
  BY DEF Text, Byte
<1> QED BY <1>3, <1>4, <1>5, <1>6 DEF q

LEMMA Dec16 ==
    ASSUME NEW d \in Text, NEW n \in 0 .. Pairs - 1, NEW p, Holds(d, p, beu16_enc(n))
    PROVE  /\ beu16_dec(d, p) = n
           /\ At(d, p) = n \div ByteValues
<1>1. p \in Nat /\ p + 0 = p
  BY DEF Holds
<1>2. At(d, p + 0) = beu16_enc(n)[0 + 1] /\ At(d, p + 1) = beu16_enc(n)[1 + 1]
  BY Enc16, HoldsAt
<1> QED BY <1>1, <1>2, Enc16 DEF beu16_dec

\* The numbers that lists and arrays count to.
LEMMA LengthBound ==
    /\ MaxLength \in Nat /\ MaxLength < Pairs * Pairs
    /\ \A n \in 0 .. MaxLength : n < Pairs * ((ByteValues \div 2) * ByteValues)
<1> DEFINE h == ByteValues \div 2
<1>1. h \in Nat /\ h >= 1 /\ h <= ByteValues /\ ByteValues \in Nat /\ Pairs \in Nat /\ Pairs >= 1
  BY NbtAssumption, PairsType
<1> HIDE DEF h
<1>2. h * ByteValues \in Nat /\ h * ByteValues >= 1 /\ h * ByteValues <= Pairs
  <2>1. \A b \in Nat, k \in Nat : k >= 1 => k * b >= b
    OBVIOUS
  <2>2. \A b \in Nat, k, l \in Nat : k <= l => k * b <= l * b
    <3>1. ASSUME NEW b \in Nat, NEW k \in Nat, NEW l \in Nat, k <= l PROVE k * b <= l * b
      <4>1. l * b = k * b + (l - k) * b /\ l - k \in Nat
        BY <3>1
      <4>2. (l - k) * b >= 0
        BY <4>1
      <4> QED BY <4>1, <4>2
    <3> QED BY <3>1
  <2>3. h * ByteValues >= ByteValues /\ h * ByteValues <= ByteValues * ByteValues /\ ByteValues >= 1
    BY <1>1, <2>1, <2>2, NbtAssumption
  <2> QED BY <2>3, <1>1, PairsType
<1> DEFINE c == h * ByteValues
<1> HIDE DEF c
<1>3. c \in Nat /\ c >= 1 /\ c <= Pairs
  BY <1>2 DEF c
<1>4. c * Pairs \in Nat /\ c * Pairs >= 1 /\ c * Pairs <= Pairs * Pairs /\ Pairs * c = c * Pairs
  <2>1. Pairs * Pairs = c * Pairs + (Pairs - c) * Pairs /\ Pairs - c \in Nat
    BY <1>1, <1>3
  <2>2. (Pairs - c) * Pairs >= 0
    BY <2>1, <1>1
  <2>3. c * Pairs = Pairs + (c - 1) * Pairs /\ c - 1 \in Nat
    BY <1>1, <1>3
  <2>4. (c - 1) * Pairs >= 0
    BY <2>3, <1>1
  <2>5. c * Pairs \in Nat /\ Pairs * c = c * Pairs
    BY <1>1, <1>3
  <2> QED BY <2>1, <2>2, <2>3, <2>4, <2>5, <1>1
<1>5. MaxLength = c * Pairs - 1
  BY DEF MaxLength, c, h
<1> QED BY <1>4, <1>5, PairsType DEF c, h

LEMMA Enc32 ==
    ASSUME NEW n \in 0 .. MaxLength
    PROVE  /\ n \div Pairs \in 0 .. Pairs - 1 /\ n % Pairs \in 0 .. Pairs - 1
           /\ (n \div Pairs) * Pairs + (n % Pairs) = n
           /\ (n \div Pairs) \div ByteValues < ByteValues \div 2
           /\ bei32_enc(n) = beu16_enc(n \div Pairs) \o beu16_enc(n % Pairs)
           /\ bei32_enc(n) \in Text /\ Len(bei32_enc(n)) = 4
<1>1. n \in Nat /\ n < Pairs * Pairs /\ n < Pairs * ((ByteValues \div 2) * ByteValues) /\ Pairs \in Nat /\ Pairs > 0
  BY LengthBound, PairsType
<1>2. /\ n \div Pairs \in 0 .. Pairs - 1 /\ (n \div Pairs) % Pairs = n \div Pairs
      /\ n % Pairs \in 0 .. Pairs - 1
      /\ (n \div Pairs) * Pairs + (n % Pairs) = n
  BY <1>1, Halves
<1>3. (n \div Pairs) \div ByteValues < ByteValues \div 2
  <2>1. ByteValues \div 2 \in Nat /\ ByteValues \in Nat /\ ByteValues > 0
    BY NbtAssumption
  <2>2. (ByteValues \div 2) * ByteValues \in Nat /\ (ByteValues \div 2) * ByteValues = ByteValues * (ByteValues \div 2)
    BY <2>1
  <2>3. n \div Pairs < (ByteValues \div 2) * ByteValues
    BY <1>1, <2>2, DivBound
  <2> QED BY <1>2, <2>1, <2>2, <2>3, DivBound
<1>4. bei32_enc(n) = beu16_enc(n \div Pairs) \o beu16_enc(n % Pairs)
  BY <1>2 DEF bei32_enc
<1> DEFINE hi == n \div Pairs
           lo == n % Pairs
<1>5. beu16_enc(hi) \in Text /\ Len(beu16_enc(hi)) = 2 /\ beu16_enc(lo) \in Text /\ Len(beu16_enc(lo)) = 2
  BY <1>2, Enc16
<1> HIDE DEF hi, lo
<1>6. beu16_enc(hi) \o beu16_enc(lo) \in Text /\ Len(beu16_enc(hi) \o beu16_enc(lo)) = 4
  <2>1. IsJoin(beu16_enc(hi) \o beu16_enc(lo), beu16_enc(hi), beu16_enc(lo))
    BY <1>5, ConcatText
  <2> QED BY <2>1, <1>5 DEF IsJoin
<1> QED BY <1>2, <1>3, <1>4, <1>6 DEF hi, lo

LEMMA Dec32 ==
    ASSUME NEW d \in Text, NEW n \in 0 .. MaxLength, NEW p, Holds(d, p, bei32_enc(n))
    PROVE  beu32_dec(d, p) = n /\ bei32_dec(d, p) = n
<1> DEFINE hi == n \div Pairs
           lo == n % Pairs
<1>1. /\ hi \in 0 .. Pairs - 1 /\ lo \in 0 .. Pairs - 1 /\ hi * Pairs + lo = n
      /\ hi \div ByteValues < ByteValues \div 2
      /\ bei32_enc(n) = beu16_enc(hi) \o beu16_enc(lo)
  BY Enc32
<1> HIDE DEF hi, lo
<1>2. Holds(d, p, beu16_enc(hi) \o beu16_enc(lo))
  BY <1>1
<1>3. beu16_enc(hi) \in Text /\ beu16_enc(lo) \in Text /\ Len(beu16_enc(hi)) = 2
  BY <1>1, Enc16
<1>4. Holds(d, p, beu16_enc(hi)) /\ Holds(d, p + 2, beu16_enc(lo))
  BY <1>2, <1>3, HoldsConcat
<1>5. beu16_dec(d, p) = hi /\ At(d, p) = hi \div ByteValues /\ beu16_dec(d, p + 2) = lo
  BY <1>1, <1>4, Dec16
<1>6. beu32_dec(d, p) = n
  BY <1>5, <1>1 DEF beu32_dec
<1> QED BY <1>5, <1>6, <1>1 DEF bei32_dec

LEMMA DecTypes ==
    ASSUME NEW d \in Text, NEW p \in Nat
    PROVE  beu16_dec(d, p) \in Nat /\ beu32_dec(d, p) \in Nat /\ bei32_dec(d, p) \in Int
<1>1. ByteValues \in Nat /\ Pairs \in Nat /\ Pairs * Pairs \in Nat
  BY NbtAssumption, PairsType
<1>2. \A q \in Nat : At(d, q) \in Nat
  BY AtType
<1>3. p + 1 \in Nat /\ p + 2 \in Nat /\ (p + 2) + 1 \in Nat
  OBVIOUS
<1>4. At(d, p) \in Nat /\ At(d, p + 1) \in Nat /\ At(d, p + 2) \in Nat /\ At(d, (p + 2) + 1) \in Nat
  BY <1>2, <1>3
<1>5. \A x, y, z \in Nat : x * y + z \in Nat
  OBVIOUS
<1>6. beu16_dec(d, p) \in Nat /\ beu16_dec(d, p + 2) \in Nat
  BY <1>1, <1>4, <1>5 DEF beu16_dec
<1>7. beu32_dec(d, p) \in Nat
  BY <1>1, <1>5, <1>6 DEF beu32_dec
<1> QED BY <1>1, <1>6, <1>7 DEF bei32_dec

--------------------------------------------------------------------------------
(* Sequences of bytes one behind the other                                 *)

\* c[i] are the first i of them.
IsJoined(c, f, n) ==
  /\ c[0] = <<>>
  /\ \A i \in 0 .. n : c[i] \in Text
  /\ \A i \in 1 .. n : IsJoin(c[i], c[i - 1], f[i])

LEMMA JoinedFacts ==
    ASSUME NEW n \in Nat, NEW f, \A i \in 1 .. n : f[i] \in Text
    PROVE  IsJoined(Joined(f, n), f, n)
<1> DEFINE G == [x \in Text \X (1 .. n) |-> x[1] \o f[x[2]]]
           P(c) == c = [i \in 0 .. n |-> IF i = 0 THEN <<>> ELSE c[i - 1] \o f[i]]
<1>1. <<>> \in Text
  BY DEF Text
<1>2. G \in [Text \X (1 .. n) -> Text]
  <2>1. ASSUME NEW x \in Text \X (1 .. n) PROVE x[1] \o f[x[2]] \in Text
    <3>1. x[1] \in Text /\ f[x[2]] \in Text
      OBVIOUS
    <3>2. IsJoin(x[1] \o f[x[2]], x[1], f[x[2]])
      BY <3>1, ConcatText
    <3> QED BY <3>2 DEF IsJoin
  <2> QED BY <2>1
<1>3. \A v \in Text, i \in 1 .. n : G[<<v, i>>] = v \o f[i]
  OBVIOUS
<1> HIDE DEF G
<1>4. PICK c : ComputedFrom(c, Text, <<>>, n, G)
  BY <1>1, <1>2, RecursiveFunction
<1>5. c \in [0 .. n -> Text] /\ c[0] = <<>> /\ \A i \in 1 .. n : c[i] = c[i - 1] \o f[i]
  <2>1. c \in [0 .. n -> Text] /\ c[0] = <<>> /\ \A i \in 1 .. n : c[i] = G[<<c[i - 1], i>>]
    BY <1>4 DEF ComputedFrom
  <2>2. \A i \in 1 .. n : c[i - 1] \in Text
    BY <2>1
  <2> QED BY <2>1, <2>2, <1>3
<1>6. P(c)
  <2>1. \A i \in 0 .. n : c[i] = IF i = 0 THEN <<>> ELSE c[i - 1] \o f[i]
    BY <1>5
  <2>2. c = [i \in 0 .. n |-> c[i]]
    BY <1>5
  <2> QED BY <2>1, <2>2
<1>7. Joined(f, n) = CHOOSE e : P(e)
  BY DEF Joined
<1>8. P(CHOOSE e : P(e))
  <2> HIDE DEF P
  <2> QED BY <1>6, Zenon
<1> DEFINE e == Joined(f, n)
<1>9. P(e)
  <2> HIDE DEF P
  <2> QED BY <1>7, <1>8
<1> HIDE DEF e
<1>10. DOMAIN e = 0 .. n /\ e[0] = <<>> /\ \A i \in 1 .. n : e[i] = e[i - 1] \o f[i]
  BY <1>9
<1>11. \A i \in 0 .. n : e[i] \in Text
  <2> DEFINE S == {i \in 0 .. n : e[i] \in Text}
  <2>1. 0 \in S
    BY <1>10, <1>1
  <2>2. ASSUME NEW i \in 1 .. n, i - 1 \in S PROVE i \in S
    <3>1. IsJoin(e[i - 1] \o f[i], e[i - 1], f[i])
      BY <2>2, ConcatText
    <3> QED BY <3>1, <1>10 DEF IsJoin
  <2> HIDE DEF S
  <2>3. \A i \in 0 .. n : i \in S
    BY <2>1, <2>2, BoundedInduction
  <2> QED BY <2>3 DEF S
<1>12. ASSUME NEW i \in 1 .. n PROVE IsJoin(e[i], e[i - 1], f[i])
  <2>1. IsJoin(e[i - 1] \o f[i], e[i - 1], f[i])
    <3>1. e[i - 1] \in Text /\ f[i] \in Text
      BY <1>11
    <3> QED BY <3>1, ConcatText
  <2> QED BY <2>1, <1>10
<1>13. IsJoined(e, f, n)
  BY <1>10, <1>11, <1>12 DEF IsJoined
<1> QED BY <1>13 DEF e

LEMMA HoldsJoin ==
    ASSUME NEW d \in Text, NEW a \in Text, NEW b \in Text, NEW c, IsJoin(c, a, b), NEW p, Holds(d, p, c)
    PROVE  Holds(d, p, a) /\ Holds(d, p + Len(a), b)
<1>1. Len(a) \in Nat /\ Len(b) \in Nat /\ p \in Nat /\ Len(c) = Len(a) + Len(b) /\ Len(d) \in Nat
  BY TextFacts DEF Holds, IsJoin
<1>2. p + (Len(a) + Len(b)) <= Len(d)
  BY <1>1 DEF Holds
<1>3. ASSUME NEW i \in 1 .. Len(a) PROVE d[p + i] = a[i]
  <2>1. i \in 1 .. Len(c)
    BY <1>1
  <2> QED BY <2>1 DEF Holds, IsJoin
<1>4. ASSUME NEW i \in 1 .. Len(b) PROVE d[(p + Len(a)) + i] = b[i]
  <2>1. Len(a) + i \in 1 .. Len(c) /\ p + (Len(a) + i) = (p + Len(a)) + i
    BY <1>1
  <2> QED BY <2>1 DEF Holds, IsJoin
<1> QED BY <1>1, <1>2, <1>3, <1>4 DEF Holds

\* The lengths add up.
LEMMA JoinedLengths ==
    ASSUME NEW n \in Nat, NEW f, \A i \in 1 .. n : f[i] \in Text, NEW c, IsJoined(c, f, n)
    PROVE  /\ Len(c[0]) = 0
           /\ \A i \in 1 .. n : Len(c[i]) = Len(c[i - 1]) + Len(f[i])
           /\ \A i \in 0 .. n : Len(c[i]) \in Nat /\ Len(c[i]) <= Len(c[n])
<1>1. Len(c[0]) = 0
  BY DEF IsJoined
<1>2. \A i \in 1 .. n : Len(c[i]) = Len(c[i - 1]) + Len(f[i]) /\ Len(f[i]) \in Nat
  BY TextFacts DEF IsJoined, IsJoin
<1>3. \A i \in 0 .. n : Len(c[i]) \in Nat
  BY TextFacts DEF IsJoined
<1>4. \A i \in 0 .. n : Len(c[i]) <= Len(c[n])
  <2> DEFINE S == {k \in 0 .. n : Len(c[n - k]) <= Len(c[n])}
  <2>1. 0 \in S
    BY <1>3
  <2>2. ASSUME NEW k \in 1 .. n, k - 1 \in S PROVE k \in S
    <3> DEFINE j == n - (k - 1)
    <3>1. Len(c[j]) <= Len(c[n]) /\ j \in 1 .. n /\ j - 1 = n - k /\ j - 1 \in 0 .. n /\ j \in 0 .. n /\ k \in 0 .. n
      BY <2>2
    <3> HIDE DEF j
    <3>2. Len(c[j]) = Len(c[j - 1]) + Len(f[j]) /\ Len(f[j]) \in Nat
      BY <3>1, <1>2
    <3>3. Len(c[j - 1]) \in Nat /\ Len(c[n]) \in Nat /\ Len(c[j]) \in Nat
      BY <3>1, <1>3
    <3>4. \A x, y, z, l \in Nat : x <= y /\ x = z + l => z <= y
      OBVIOUS
    <3>5. Len(c[j - 1]) <= Len(c[n])
      BY <3>1, <3>2, <3>3, <3>4
    <3>6. Len(c[n - k]) <= Len(c[n])
      BY <3>1, <3>5
    <3> QED BY <3>6
  <2> HIDE DEF S
  <2>3. \A k \in 0 .. n : k \in S
    BY <2>1, <2>2, BoundedInduction
  <2>4. ASSUME NEW i \in 0 .. n PROVE Len(c[i]) <= Len(c[n])
    <3>1. n - i \in 0 .. n /\ n - (n - i) = i
      OBVIOUS
    <3> QED BY <3>1, <2>3 DEF S
  <2> QED BY <2>4
<1> QED BY <1>1, <1>2, <1>3, <1>4

\* Each is in the data behind the ones before it.
LEMMA HoldsJoined ==
    ASSUME NEW d \in Text, NEW n \in Nat, NEW f, \A i \in 1 .. n : f[i] \in Text, NEW c, IsJoined(c, f, n),
           NEW p, Holds(d, p, c[n])
    PROVE  \A i \in 1 .. n : Holds(d, p + Len(c[i - 1]), f[i])
<1> DEFINE S == {k \in 0 .. n : Holds(d, p, c[n - k])}
<1>1. 0 \in S
  OBVIOUS
<1>2. \A i \in 1 .. n : c[i] \in Text /\ c[i - 1] \in Text /\ IsJoin(c[i], c[i - 1], f[i])
  BY DEF IsJoined
<1>3. ASSUME NEW k \in 1 .. n, k - 1 \in S PROVE k \in S
  <2>1. Holds(d, p, c[n - (k - 1)]) /\ n - (k - 1) \in 1 .. n /\ (n - (k - 1)) - 1 = n - k
    BY <1>3
  <2>2. Holds(d, p, c[n - k])
    BY <2>1, <1>2, HoldsJoin
  <2> QED BY <2>2
<1> HIDE DEF S
<1>4. \A k \in 0 .. n : k \in S
  BY <1>1, <1>3, BoundedInduction
<1>5. ASSUME NEW i \in 1 .. n PROVE Holds(d, p + Len(c[i - 1]), f[i])
  <2>1. n - i \in 0 .. n /\ n - (n - i) = i
    OBVIOUS
  <2>2. Holds(d, p, c[i])
    BY <2>1, <1>4 DEF S
  <2> QED BY <2>2, <1>2, HoldsJoin
<1> QED BY <1>5

--------------------------------------------------------------------------------
(* Nodes and their bytes                                                   *)

Top == Depth + MaxEdits

LEMMA TopType == Top \in Nat /\ Depth \in 0 .. Top
BY EditorAssumption DEF Top

LEMMA LevelsDef ==
    /\ Levels[0] = NodesAbove({<<>>})
    /\ \A k \in 1 .. Top : Levels[k] = NodesAbove(Seq(Levels[k - 1]))
<1> DEFINE B(f, k) == NodesAbove(IF k = 0 THEN {<<>>} ELSE Seq(f[k - 1]))
           P(f) == f = [k \in 0 .. Top |-> B(f, k)]
           Q(f, n) == f = [k \in 0 .. n |-> f[k]] /\ \A k \in 0 .. n : f[k] = B(f, k)
           S == {n \in 0 .. Top : \E f : Q(f, n)}
<1>1. 0 \in S
  <2>1. Q([k \in 0 .. 0 |-> NodesAbove({<<>>})], 0)
    OBVIOUS
  <2>2. 0 \in 0 .. Top
    BY TopType
  <2> HIDE DEF Q
  <2>3. \E f : Q(f, 0)
    BY <2>1
  <2> QED BY <2>2, <2>3
<1>2. ASSUME NEW n \in 1 .. Top, n - 1 \in S PROVE n \in S
  <2>1. PICK f : Q(f, n - 1)
    BY <1>2
  <2> DEFINE g == [k \in 0 .. n |-> IF k = n THEN NodesAbove(Seq(f[n - 1])) ELSE f[k]]
  <2>2. g = [k \in 0 .. n |-> g[k]] /\ g[n] = NodesAbove(Seq(f[n - 1])) /\ \A k \in 0 .. n - 1 : g[k] = f[k]
    OBVIOUS
  <2> HIDE DEF g
  <2>3. ASSUME NEW k \in 0 .. n PROVE g[k] = B(g, k)
    <3>1. CASE k = n
      BY <3>1, <2>2
    <3>2. CASE k \in 0 .. n - 1 /\ k # 0
      <4>1. f[k] = NodesAbove(Seq(f[k - 1]))
        BY <3>2, <2>1
      <4>2. k - 1 \in 0 .. n - 1
        BY <3>2
      <4>3. g[k] = f[k] /\ g[k - 1] = f[k - 1]
        BY <3>2, <4>2, <2>2
      <4> QED BY <4>1, <4>3, <3>2
    <3>3. CASE k \in 0 .. n - 1 /\ k = 0
      <4>1. g[k] = f[k] /\ f[k] = B(f, k)
        BY <3>3, <2>1, <2>2
      <4> QED BY <4>1, <3>3
    <3> QED BY <3>1, <3>2, <3>3
  <2>4. Q(g, n)
    BY <2>2, <2>3
  <2> HIDE DEF Q
  <2> QED BY <2>4
<1>3. \E f : P(f)
  <2>1. Top \in S
    <3> HIDE DEF S
    <3> QED BY <1>1, <1>2, TopType, BoundedInduction
  <2>2. PICK f : Q(f, Top)
    BY <2>1
  <2> QED BY <2>2
<1>4. P(CHOOSE f : P(f))
  <2> HIDE DEF P
  <2> QED BY <1>3, Zenon
<1>5. Levels = CHOOSE f : P(f)
  BY DEF Levels, Top
<1>6. P(Levels)
  <2> HIDE DEF P
  <2> QED BY <1>4, <1>5
<1> QED BY <1>6, TopType

LEMMA NodesAboveGrow ==
    ASSUME NEW S, NEW T, S \subseteq T
    PROVE  NodesAbove(S) \subseteq NodesAbove(T)
BY DEF NodesAbove

LEMMA LevelsGrow == \A k \in 1 .. Top : Levels[k - 1] \subseteq Levels[k]
<1> DEFINE S == {k \in 0 .. Top : k > 0 => Levels[k - 1] \subseteq Levels[k]}
<1>1. 0 \in S
  BY TopType
<1>2. ASSUME NEW k \in 1 .. Top, k - 1 \in S PROVE k \in S
  <2>1. Levels[k] = NodesAbove(Seq(Levels[k - 1]))
    BY LevelsDef
  <2>2. CASE k = 1
    <3>1. NodesAbove({<<>>}) \subseteq NodesAbove(Seq(Levels[k - 1]))
      <4>1. {<<>>} \subseteq Seq(Levels[k - 1])
        OBVIOUS
      <4> QED BY <4>1, NodesAboveGrow
    <3>2. Levels[k - 1] = NodesAbove({<<>>})
      BY <2>2, LevelsDef
    <3>3. Levels[k - 1] \subseteq Levels[k]
      BY <3>1, <3>2, <2>1, Zenon
    <3> QED BY <3>3
  <2>3. CASE k > 1
    <3>1. k - 1 \in 1 .. Top /\ Levels[k - 1] = NodesAbove(Seq(Levels[(k - 1) - 1]))
      <4> DEFINE j == k - 1
      <4>1. j \in 1 .. Top
        BY <2>3, TopType
      <4> HIDE DEF j
      <4>2. Levels[j] = NodesAbove(Seq(Levels[j - 1]))
        BY <4>1, LevelsDef
      <4> QED BY <4>1, <4>2 DEF j
    <3>2. Levels[(k - 1) - 1] \subseteq Levels[k - 1]
      BY <1>2, <3>1
    <3>3. Seq(Levels[(k - 1) - 1]) \subseteq Seq(Levels[k - 1])
      BY <3>2
    <3>4. Levels[k - 1] \subseteq Levels[k]
      BY <3>1, <3>3, <2>1, NodesAboveGrow
    <3> QED BY <3>4
  <2> QED BY <2>2, <2>3
<1> HIDE DEF S
<1>3. \A k \in 0 .. Top : k \in S
  BY <1>1, <1>2, TopType, BoundedInduction
<1> QED BY <1>3 DEF S

\* What fits below fits further up.
LEMMA LevelsOrder ==
    ASSUME NEW i \in 0 .. Top, NEW j \in 0 .. Top, i <= j
    PROVE  Levels[i] \subseteq Levels[j]
<1> DEFINE S == {k \in 0 .. j - i : Levels[i] \subseteq Levels[i + k]}
<1>1. 0 \in S
  OBVIOUS
<1>2. ASSUME NEW k \in 1 .. j - i, k - 1 \in S PROVE k \in S
  <2>1. i + k \in 1 .. Top /\ (i + k) - 1 = i + (k - 1)
    BY TopType
  <2>2. Levels[(i + k) - 1] \subseteq Levels[i + k]
    BY <2>1, LevelsGrow
  <2> QED BY <1>2, <2>1, <2>2
<1> HIDE DEF S
<1>3. j - i \in Nat
  OBVIOUS
<1>4. j - i \in S
  BY <1>1, <1>2, <1>3, BoundedInduction
<1>5. i + (j - i) = j
  OBVIOUS
<1> QED BY <1>4, <1>5 DEF S

LEMMA InNodes ==
    ASSUME NEW k \in 0 .. Top
    PROVE  Levels[k] \subseteq Nodes
BY LevelsOrder, TopType DEF Nodes, Top

LEMMA NodeFacts ==
    ASSUME NEW k \in 0 .. Top, NEW node \in Levels[k]
    PROVE  /\ node.name \in Text /\ node.raw \in Text /\ node.type \in 0 .. 12 /\ node.elem \in 0 .. 12
           /\ node = Node(node.name, node.type, node.raw, node.elem, node.items)
           /\ Len(node.name) \in Nat /\ Len(node.name) < Pairs
           /\ Len(node.items) \in Nat /\ DOMAIN node.items = 1 .. Len(node.items)
           /\ node.items = [i \in 1 .. Len(node.items) |-> node.items[i]]
           /\ WellFormed(node)
<1> DEFINE Lists(S) == \A s \in S : Len(s) \in Nat /\ DOMAIN s = 1 .. Len(s) /\ s = [i \in 1 .. Len(s) |-> s[i]]
<1>1. PICK S : node \in NodesAbove(S) /\ Lists(S)
  <2>1. CASE k = 0
    <3>1. Lists({<<>>})
      OBVIOUS
    <3>2. node \in NodesAbove({<<>>})
      BY <2>1, LevelsDef
    <3> HIDE DEF Lists
    <3> QED BY <3>1, <3>2
  <2>2. CASE k # 0
    <3>1. Lists(Seq(Levels[k - 1]))
      OBVIOUS
    <3>2. node \in NodesAbove(Seq(Levels[k - 1]))
      BY <2>2, LevelsDef
    <3> HIDE DEF Lists
    <3> QED BY <3>1, <3>2
  <2> QED BY <2>1, <2>2
<1>2. node \in [name : Text, type : Types, raw : Text, elem : Types, items : S] /\ WellFormed(node)
  BY <1>1 DEF NodesAbove
<1>3. node.name \in Text /\ node.raw \in Text /\ node.type \in 0 .. 12 /\ node.elem \in 0 .. 12 /\ node.items \in S
  BY <1>2, TypeCodes
<1>4. node = [name |-> node.name, type |-> node.type, raw |-> node.raw, elem |-> node.elem, items |-> node.items]
  BY <1>2
<1>5. Len(node.name) \in Nat
  BY <1>3, TextFacts
<1>6. Len(node.name) < Pairs
  BY <1>2 DEF WellFormed
<1> QED BY <1>1, <1>2, <1>3, <1>4, <1>5, <1>6 DEF Node

LEMMA NodeItems ==
    ASSUME NEW k \in 0 .. Top, NEW node \in Levels[k], NEW i \in 1 .. Len(node.items)
    PROVE  k > 0 /\ node.items[i] \in Levels[k - 1]
<1>1. CASE k = 0
  <2>1. node \in NodesAbove({<<>>})
    BY <1>1, LevelsDef
  <2>2. node.items = <<>>
    BY <2>1 DEF NodesAbove
  <2> QED BY <2>2
<1>2. CASE k # 0
  <2>1. node \in NodesAbove(Seq(Levels[k - 1])) /\ k > 0
    BY <1>2, LevelsDef
  <2>2. node.items \in Seq(Levels[k - 1])
    BY <2>1 DEF NodesAbove
  <2> QED BY <2>1, <2>2
<1> QED BY <1>1, <1>2

\* The parts of a payload, and the tags of a compound.
Parts(node) == [i \in DOMAIN node.items |-> PayloadBytes[node.items[i]]]
Tags(node) == [i \in DOMAIN node.items |-> TagBytes(node.items[i])]

LEMMA PayloadBytesDef == \A node \in Nodes : PayloadBytes[node] = PayloadOf(node, Parts(node))
<1> DEFINE B(f, n) == PayloadOf(n, [i \in DOMAIN n.items |-> f[n.items[i]]])
           P(f) == f = [n \in Nodes |-> B(f, n)]
           Q(f, k) == f = [n \in Levels[k] |-> f[n]] /\ \A n \in Levels[k] : f[n] = B(f, n)
           S == {k \in 0 .. Top : \E f : Q(f, k)}
<1>1. 0 \in S
  <2> DEFINE f == [n \in Levels[0] |-> PayloadOf(n, [i \in DOMAIN n.items |-> <<>>])]
  <2>1. f = [n \in Levels[0] |-> f[n]] /\ \A n \in Levels[0] : f[n] = PayloadOf(n, [i \in DOMAIN n.items |-> <<>>])
    OBVIOUS
  <2> HIDE DEF f
  <2>2. ASSUME NEW n \in Levels[0] PROVE f[n] = B(f, n)
    <3>1. DOMAIN n.items = {}
      <4>1. 0 \in 0 .. Top
        BY TopType
      <4>2. Len(n.items) \in Nat /\ DOMAIN n.items = 1 .. Len(n.items)
        BY <4>1, NodeFacts
      <4>3. \A i \in 1 .. Len(n.items) : FALSE
        BY <4>1, NodeItems
      <4> QED BY <4>2, <4>3
    <3>2. [i \in DOMAIN n.items |-> <<>>] = [i \in DOMAIN n.items |-> f[n.items[i]]]
      BY <3>1
    <3> QED BY <2>1, <3>2
  <2>3. Q(f, 0)
    BY <2>1, <2>2
  <2>4. 0 \in 0 .. Top
    BY TopType
  <2> HIDE DEF Q
  <2> QED BY <2>3, <2>4
<1>2. ASSUME NEW k \in 1 .. Top, k - 1 \in S PROVE k \in S
  <2>1. PICK f : Q(f, k - 1)
    BY <1>2
  <2> DEFINE g == [n \in Levels[k] |-> B(f, n)]
  <2>2. g = [n \in Levels[k] |-> g[n]] /\ \A n \in Levels[k] : g[n] = B(f, n)
    OBVIOUS
  <2> HIDE DEF g
  <2>3. ASSUME NEW n \in Levels[k - 1] PROVE g[n] = f[n]
    <3>1. n \in Levels[k]
      BY LevelsGrow
    <3>2. f[n] = B(f, n)
      BY <2>1
    <3> QED BY <3>1, <3>2, <2>2
  <2>4. ASSUME NEW n \in Levels[k] PROVE g[n] = B(g, n)
    <3>1. k \in 0 .. Top
      BY TopType
    <3>2. DOMAIN n.items = 1 .. Len(n.items)
      BY <3>1, NodeFacts
    <3>3. \A i \in DOMAIN n.items : n.items[i] \in Levels[k - 1]
      BY <3>1, <3>2, NodeItems
    <3>4. [i \in DOMAIN n.items |-> g[n.items[i]]] = [i \in DOMAIN n.items |-> f[n.items[i]]]
      BY <3>3, <2>3
    <3> QED BY <3>4, <2>2
  <2>5. Q(g, k)
    BY <2>2, <2>4
  <2> HIDE DEF Q
  <2> QED BY <2>5
<1>3. \E f : P(f)
  <2>1. Top \in S
    <3> HIDE DEF S
    <3> QED BY <1>1, <1>2, TopType, BoundedInduction
  <2>2. PICK f : Q(f, Top)
    BY <2>1
  <2>3. f = [n \in Nodes |-> f[n]] /\ \A n \in Nodes : f[n] = B(f, n)
    BY <2>2 DEF Nodes, Top
  <2>4. P(f)
    BY <2>3
  <2> HIDE DEF P
  <2> QED BY <2>4
<1>4. P(CHOOSE f : P(f))
  <2> HIDE DEF P
  <2> QED BY <1>3, Zenon
<1>5. PayloadBytes = CHOOSE f : P(f)
  BY DEF PayloadBytes
<1>6. P(PayloadBytes)
  <2> HIDE DEF P
  <2> QED BY <1>4, <1>5
<1> QED BY <1>6 DEF Parts

\* The header of a tag, and that of a list.
TagHead(node) == <<node.type>> \o beu16_enc(Len(node.name)) \o node.name
ListHead(elem, length) == <<elem>> \o bei32_enc(length)

LEMMA ByteText == \A b \in 0 .. 12 : <<b>> \in Text /\ Len(<<b>>) = 1 /\ <<b>>[1] = b
<1>1. \A b \in 0 .. 12 : b \in 0 .. ByteValues - 1
  BY NbtAssumption
<1>2. \A b \in 0 .. ByteValues - 1 : <<b>> \in Seq(0 .. ByteValues - 1) /\ Len(<<b>>) = 1 /\ <<b>>[1] = b
  OBVIOUS
<1> QED BY <1>1, <1>2 DEF Text

LEMMA ZerosText ==
    ASSUME NEW n \in Nat
    PROVE  /\ zeros(n) \in Text /\ Len(zeros(n)) = n
           /\ \A i \in 1 .. n : zeros(n)[i] = 0
<1>1. 0 \in 0 .. ByteValues - 1
  BY NbtAssumption
<1>2. [i \in 1 .. n |-> 0] \in Seq(0 .. ByteValues - 1)
  BY <1>1
<1>3. Len([i \in 1 .. n |-> 0]) = n
  OBVIOUS
<1> QED BY <1>2, <1>3 DEF Text, zeros

LEMMA TagHeadFacts ==
    ASSUME NEW k \in 0 .. Top, NEW node \in Levels[k]
    PROVE  /\ TagHead(node) \in Text /\ Len(TagHead(node)) = 3 + Len(node.name)
           /\ <<node.type>> \o beu16_enc(Len(node.name)) \in Text
           /\ IsJoin(TagHead(node), <<node.type>> \o beu16_enc(Len(node.name)), node.name)
           /\ IsJoin(<<node.type>> \o beu16_enc(Len(node.name)), <<node.type>>, beu16_enc(Len(node.name)))
           /\ beu16_enc(Len(node.name)) \in Text /\ Len(beu16_enc(Len(node.name))) = 2
           /\ <<node.type>> \in Text /\ Len(<<node.type>>) = 1
<1>1. node.type \in 0 .. 12 /\ Len(node.name) \in 0 .. Pairs - 1 /\ node.name \in Text
  <2>1. node.type \in 0 .. 12 /\ node.name \in Text /\ Len(node.name) \in Nat /\ Len(node.name) < Pairs
    BY NodeFacts
  <2> QED BY <2>1, PairsType
<1>2. <<node.type>> \in Text /\ Len(<<node.type>>) = 1
  BY <1>1, ByteText
<1>3. beu16_enc(Len(node.name)) \in Text /\ Len(beu16_enc(Len(node.name))) = 2
  BY <1>1, Enc16
<1>4. IsJoin(<<node.type>> \o beu16_enc(Len(node.name)), <<node.type>>, beu16_enc(Len(node.name)))
  BY <1>2, <1>3, ConcatText
<1>5. <<node.type>> \o beu16_enc(Len(node.name)) \in Text /\ Len(<<node.type>> \o beu16_enc(Len(node.name))) = 3
  BY <1>2, <1>3, <1>4 DEF IsJoin
<1>6. IsJoin(TagHead(node), <<node.type>> \o beu16_enc(Len(node.name)), node.name)
  BY <1>1, <1>5, ConcatText DEF TagHead
<1>7. TagHead(node) \in Text /\ Len(TagHead(node)) = 3 + Len(node.name)
  BY <1>5, <1>6 DEF IsJoin
<1> QED BY <1>2, <1>3, <1>4, <1>5, <1>6, <1>7

LEMMA ListHeadFacts ==
    ASSUME NEW elem \in 0 .. 12, NEW length \in 0 .. MaxLength
    PROVE  /\ ListHead(elem, length) \in Text /\ Len(ListHead(elem, length)) = 5
           /\ IsJoin(ListHead(elem, length), <<elem>>, bei32_enc(length))
           /\ <<elem>> \in Text /\ Len(<<elem>>) = 1
           /\ bei32_enc(length) \in Text /\ Len(bei32_enc(length)) = 4
<1>1. <<elem>> \in Text /\ Len(<<elem>>) = 1
  BY ByteText
<1>2. bei32_enc(length) \in Text /\ Len(bei32_enc(length)) = 4
  BY Enc32
<1>3. IsJoin(ListHead(elem, length), <<elem>>, bei32_enc(length))
  BY <1>1, <1>2, ConcatText DEF ListHead
<1> QED BY <1>1, <1>2, <1>3 DEF IsJoin

\* What the bytes of a node's payload are made of.
FixedShape(node, bytes) == node.type \in 0 .. 6 => bytes = node.raw /\ Len(bytes) = type_zero_size(node.type)
ArrayShape(node, bytes) ==
  node.type \in Arrays =>
    \E length \in 0 .. MaxLength :
      Len(node.raw) = length * ElemSize(node.type) /\ IsJoin(bytes, bei32_enc(length), node.raw)
StringShape(node, bytes) ==
  node.type = 8 => Len(node.raw) \in 0 .. Pairs - 1 /\ IsJoin(bytes, beu16_enc(Len(node.raw)), node.raw)
ListShape(node, bytes) ==
  node.type = 9 =>
    /\ Len(node.items) \in 0 .. MaxLength
    /\ IsJoined(Joined(Parts(node), Len(node.items)), Parts(node), Len(node.items))
    /\ IsJoin(bytes, ListHead(node.elem, Len(node.items)), Joined(Parts(node), Len(node.items))[Len(node.items)])
CompoundShape(node, bytes) ==
  node.type = 10 =>
    /\ IsJoined(Joined(Tags(node), Len(node.items)), Tags(node), Len(node.items))
    /\ IsJoin(bytes, Joined(Tags(node), Len(node.items))[Len(node.items)], <<0>>)
Shape(node, bytes) ==
  /\ bytes \in Text
  /\ FixedShape(node, bytes) /\ ArrayShape(node, bytes) /\ StringShape(node, bytes)
  /\ ListShape(node, bytes) /\ CompoundShape(node, bytes)

\* A payload is behind its tag's header.
LEMMA TagJoin ==
    ASSUME NEW k \in 0 .. Top, NEW node \in Levels[k], PayloadBytes[node] \in Text
    PROVE  /\ IsJoin(TagBytes(node), TagHead(node), PayloadBytes[node])
           /\ TagBytes(node) \in Text
<1>1. IsJoin(TagHead(node) \o PayloadBytes[node], TagHead(node), PayloadBytes[node])
  BY TagHeadFacts, ConcatText
<1>2. TagBytes(node) = TagHead(node) \o PayloadBytes[node]
  BY DEF TagBytes, Tagged, TagHead
<1> QED BY <1>1, <1>2 DEF IsJoin

LEMMA PayloadCases ==
    ASSUME NEW node, NEW parts
    PROVE  /\ node.type \in 0 .. 6 => PayloadOf(node, parts) = node.raw
           /\ node.type \in Arrays =>
                PayloadOf(node, parts) = bei32_enc(Len(node.raw) \div ElemSize(node.type)) \o node.raw
           /\ node.type = 8 => PayloadOf(node, parts) = beu16_enc(Len(node.raw)) \o node.raw
           /\ node.type = 9 =>
                PayloadOf(node, parts) = ListHead(node.elem, Len(node.items)) \o Concat(parts, Len(node.items))
           /\ node.type = 10 =>
                PayloadOf(node, parts) =
                  Concat([i \in DOMAIN node.items |-> Tagged(node.items[i], parts[i])], Len(node.items)) \o <<0>>
<1>1. NBT.ZERO = 0 /\ NBT.STRING = 8 /\ NBT.LIST = 9 /\ NBT.COMPOUND = 10 /\ Arrays = {7, 11, 12}
  BY TypeCodes
<1> DEFINE A == bei32_enc(Len(node.raw) \div ElemSize(node.type)) \o node.raw
           B == beu16_enc(Len(node.raw)) \o node.raw
           C == ListHead(node.elem, Len(node.items)) \o Concat(parts, Len(node.items))
           D == Concat([i \in DOMAIN node.items |-> Tagged(node.items[i], parts[i])], Len(node.items)) \o <<0>>
<1>2. PayloadOf(node, parts) =
        CASE node.type \in Arrays -> A [] node.type = NBT.STRING -> B [] node.type = NBT.LIST -> C
          [] node.type = NBT.COMPOUND -> D [] OTHER -> node.raw
  BY <1>1, Zenon DEF PayloadOf, ListHead
<1> HIDE DEF A, B, C, D
<1>3. /\ node.type \in 0 .. 6 => PayloadOf(node, parts) = node.raw
      /\ node.type \in Arrays => PayloadOf(node, parts) = A
      /\ node.type = 8 => PayloadOf(node, parts) = B
      /\ node.type = 9 => PayloadOf(node, parts) = C
      /\ node.type = 10 => PayloadOf(node, parts) = D
  BY <1>1, <1>2
<1> QED BY <1>3, Zenon DEF A, B, C, D

\* The shape of the payloads of nodes whose items have payloads.
LEMMA ShapeStep ==
    ASSUME NEW k \in 0 .. Top, NEW node \in Levels[k], NEW bytes, bytes = PayloadOf(node, Parts(node)),
           \A i \in 1 .. Len(node.items) : PayloadBytes[node.items[i]] \in Text
    PROVE  Shape(node, bytes)
<1> DEFINE n == Len(node.items)
<1>1. /\ node.type \in 0 .. 12 /\ node.elem \in 0 .. 12 /\ node.raw \in Text /\ Len(node.raw) \in Nat
      /\ n \in Nat /\ DOMAIN node.items = 1 .. n /\ WellFormed(node)
  BY NodeFacts, TextFacts
<1>2. NBT.ZERO = 0 /\ NBT.STRING = 8 /\ NBT.LIST = 9 /\ NBT.COMPOUND = 10 /\ Fixed = 1 .. 6 /\ Arrays = {7, 11, 12}
  BY TypeCodes
<1>3. CASE node.type \in 0 .. 6
  <2>1. bytes = node.raw
    BY <1>3, PayloadCases
  <2>2. Len(node.raw) = type_zero_size(node.type)
    BY <1>1, <1>2, <1>3 DEF WellFormed
  <2> QED BY <1>1, <1>2, <1>3, <2>1, <2>2, SMTT(30)
          DEF Shape, FixedShape, ArrayShape, StringShape, ListShape, CompoundShape
<1>4. CASE node.type \in Arrays
  <2>1. PICK length \in 0 .. Len(node.raw) : length <= MaxLength /\ Len(node.raw) = length * ElemSize(node.type)
    BY <1>1, <1>4 DEF WellFormed
  <2>2. length \in 0 .. MaxLength
    BY <2>1, <1>1, LengthBound
  <2>3. Len(node.raw) \div ElemSize(node.type) = length
    <3>1. ElemSize(node.type) \in {1, 4, 8}
      BY <1>2, <1>4, ElemSizes
    <3>2. \A m \in Nat : (m * 1) \div 1 = m /\ (m * 4) \div 4 = m /\ (m * 8) \div 8 = m
      OBVIOUS
    <3> QED BY <2>1, <3>1, <3>2
  <2>4. bytes = bei32_enc(length) \o node.raw
    BY <1>4, <2>3, PayloadCases
  <2>5. IsJoin(bytes, bei32_enc(length), node.raw)
    BY <1>1, <2>2, <2>4, Enc32, ConcatText
  <2>6. ArrayShape(node, bytes) /\ bytes \in Text
    BY <2>1, <2>2, <2>5 DEF ArrayShape, IsJoin
  <2> QED BY <1>2, <1>4, <2>6 DEF Shape, FixedShape, StringShape, ListShape, CompoundShape
<1>5. CASE node.type = 8
  <2>1. Len(node.raw) \in 0 .. Pairs - 1
    BY <1>1, <1>2, <1>5, PairsType DEF WellFormed
  <2>2. bytes = beu16_enc(Len(node.raw)) \o node.raw
    BY <1>5, PayloadCases
  <2>3. IsJoin(bytes, beu16_enc(Len(node.raw)), node.raw)
    BY <1>1, <2>1, <2>2, Enc16, ConcatText
  <2>4. StringShape(node, bytes) /\ bytes \in Text
    BY <2>1, <2>3 DEF StringShape, IsJoin
  <2> QED BY <1>2, <1>5, <2>4 DEF Shape, FixedShape, ArrayShape, ListShape, CompoundShape
<1>6. CASE node.type = 9
  <2>1. n \in 0 .. MaxLength
    BY <1>1, <1>2, <1>6, LengthBound DEF WellFormed
  <2>2. bytes = ListHead(node.elem, n) \o Joined(Parts(node), n)[n]
    BY <1>6, PayloadCases DEF Concat
  <2>3. \A i \in 1 .. n : Parts(node)[i] \in Text
    BY <1>1 DEF Parts
  <2>4. IsJoined(Joined(Parts(node), n), Parts(node), n)
    BY <1>1, <2>3, JoinedFacts
  <2>5. Joined(Parts(node), n)[n] \in Text
    BY <1>1, <2>4 DEF IsJoined
  <2>6. IsJoin(bytes, ListHead(node.elem, n), Joined(Parts(node), n)[n])
    BY <1>1, <2>1, <2>2, <2>5, ListHeadFacts, ConcatText
  <2>7. ListShape(node, bytes) /\ bytes \in Text
    BY <2>1, <2>4, <2>6 DEF ListShape, IsJoin
  <2> QED BY <1>2, <1>6, <2>7 DEF Shape, FixedShape, ArrayShape, StringShape, CompoundShape
<1>7. CASE node.type = 10
  <2>1. [i \in DOMAIN node.items |-> Tagged(node.items[i], Parts(node)[i])] = Tags(node)
    BY DEF Tags, Parts, TagBytes
  <2>2. bytes = Joined(Tags(node), n)[n] \o <<0>>
    BY <1>7, <2>1, PayloadCases DEF Concat
  <2>3. ASSUME NEW i \in 1 .. n PROVE Tags(node)[i] \in Text
    <3>1. k > 0 /\ node.items[i] \in Levels[k - 1] /\ PayloadBytes[node.items[i]] \in Text
      BY NodeItems
    <3>2. k - 1 \in 0 .. Top
      BY <3>1, TopType
    <3>3. TagBytes(node.items[i]) \in Text
      BY <3>1, <3>2, TagJoin
    <3> QED BY <1>1, <3>3 DEF Tags
  <2>4. IsJoined(Joined(Tags(node), n), Tags(node), n)
    BY <1>1, <2>3, JoinedFacts
  <2>5. Joined(Tags(node), n)[n] \in Text /\ <<0>> \in Text
    BY <1>1, <2>4, ByteText DEF IsJoined
  <2>6. IsJoin(bytes, Joined(Tags(node), n)[n], <<0>>)
    BY <2>2, <2>5, ConcatText
  <2>7. CompoundShape(node, bytes) /\ bytes \in Text
    BY <2>4, <2>6 DEF CompoundShape, IsJoin
  <2> QED BY <1>2, <1>7, <2>7 DEF Shape, FixedShape, ArrayShape, StringShape, ListShape
<1>8. node.type \in 0 .. 6 \/ node.type \in Arrays \/ node.type = 8 \/ node.type = 9 \/ node.type = 10
  BY <1>1, <1>2
<1> QED BY <1>3, <1>4, <1>5, <1>6, <1>7, <1>8

LEMMA Shapes == \A k \in 0 .. Top : \A node \in Levels[k] : Shape(node, PayloadBytes[node])
<1> DEFINE S == {k \in 0 .. Top : \A node \in Levels[k] : Shape(node, PayloadBytes[node])}
<1>1. ASSUME NEW k \in 0 .. Top, NEW node \in Levels[k], \A i \in 1 .. Len(node.items) : PayloadBytes[node.items[i]] \in Text
      PROVE  Shape(node, PayloadBytes[node])
  <2>1. PayloadBytes[node] = PayloadOf(node, Parts(node))
    BY InNodes, PayloadBytesDef
  <2> QED BY <1>1, <2>1, ShapeStep
<1>2. 0 \in S
  <2>1. 0 \in 0 .. Top
    BY TopType
  <2>2. ASSUME NEW node \in Levels[0] PROVE \A i \in 1 .. Len(node.items) : FALSE
    BY <2>1, NodeItems
  <2> QED BY <1>1, <2>1, <2>2
<1>3. ASSUME NEW k \in 1 .. Top, k - 1 \in S PROVE k \in S
  <2>1. k \in 0 .. Top
    OBVIOUS
  <2>2. ASSUME NEW node \in Levels[k], NEW i \in 1 .. Len(node.items) PROVE PayloadBytes[node.items[i]] \in Text
    <3>1. node.items[i] \in Levels[k - 1]
      BY <2>1, NodeItems
    <3> QED BY <1>3, <3>1 DEF Shape
  <2> QED BY <1>1, <2>1, <2>2
<1> HIDE DEF S
<1>4. \A k \in 0 .. Top : k \in S
  BY <1>2, <1>3, TopType, BoundedInduction
<1> QED BY <1>4 DEF S

\* A payload of a valid type has a byte or more.
LEMMA PayloadNotEmpty ==
    ASSUME NEW k \in 0 .. Top, NEW node \in Levels[k], node.type \in 1 .. 12
    PROVE  Len(PayloadBytes[node]) >= 1
<1> DEFINE bytes == PayloadBytes[node]
<1>1. Shape(node, bytes)
  BY Shapes
<1>2. Arrays = {7, 11, 12} /\ bytes \in Text /\ node.raw \in Text /\ node.elem \in 0 .. 12
  BY <1>1, NodeFacts, TypeCodes DEF Shape
<1> SUFFICES Len(bytes) >= 1
  OBVIOUS
<1> HIDE DEF bytes
<1>3. CASE node.type \in 1 .. 6
  <2>1. Len(bytes) = type_zero_size(node.type)
    BY <1>1, <1>3 DEF Shape, FixedShape
  <2>2. type_zero_size(node.type) \in 0 .. 8 /\ type_zero_size(node.type) # 0
    BY <1>3, ZeroSizeType DEF type_valid
  <2> QED BY <2>1, <2>2
<1>4. CASE node.type \in Arrays
  <2>1. PICK length \in 0 .. MaxLength : IsJoin(bytes, bei32_enc(length), node.raw)
    BY <1>1, <1>4 DEF Shape, ArrayShape
  <2>2. bei32_enc(length) \in Text /\ Len(bei32_enc(length)) = 4
    BY Enc32
  <2>3. Len(bytes) = Len(bei32_enc(length)) + Len(node.raw) /\ Len(node.raw) \in Nat
    BY <2>1, <2>2, <1>2, JoinLength
  <2> QED BY <2>2, <2>3
<1>5. CASE node.type = 8
  <2>1. Len(node.raw) \in 0 .. Pairs - 1 /\ IsJoin(bytes, beu16_enc(Len(node.raw)), node.raw)
    BY <1>1, <1>5 DEF Shape, StringShape
  <2>2. beu16_enc(Len(node.raw)) \in Text /\ Len(beu16_enc(Len(node.raw))) = 2
    BY <2>1, Enc16
  <2>3. Len(bytes) = Len(beu16_enc(Len(node.raw))) + Len(node.raw) /\ Len(node.raw) \in Nat
    BY <2>1, <2>2, <1>2, JoinLength
  <2> QED BY <2>2, <2>3
<1>6. CASE node.type = 9
  <2> DEFINE n == Len(node.items)
             rest == Joined(Parts(node), n)[n]
  <2>1. n \in 0 .. MaxLength /\ IsJoined(Joined(Parts(node), n), Parts(node), n) /\ IsJoin(bytes, ListHead(node.elem, n), rest)
    BY <1>1, <1>6 DEF Shape, ListShape
  <2>2. rest \in Text
    BY <2>1, LengthBound DEF IsJoined
  <2>3. ListHead(node.elem, n) \in Text /\ Len(ListHead(node.elem, n)) = 5
    BY <2>1, <1>2, ListHeadFacts
  <2> HIDE DEF rest, n
  <2>4. Len(bytes) = Len(ListHead(node.elem, n)) + Len(rest) /\ Len(rest) \in Nat
    BY <2>1, <2>2, <2>3, JoinLength
  <2> QED BY <2>3, <2>4
<1>7. CASE node.type = 10
  <2> DEFINE n == Len(node.items)
             rest == Joined(Tags(node), n)[n]
  <2>1. IsJoined(Joined(Tags(node), n), Tags(node), n) /\ IsJoin(bytes, rest, <<0>>)
    BY <1>1, <1>7 DEF Shape, CompoundShape
  <2>2. n \in Nat
    BY NodeFacts
  <2>3. rest \in Text
    BY <2>1, <2>2 DEF IsJoined
  <2>4. <<0>> \in Text /\ Len(<<0>>) = 1
    BY ByteText
  <2> HIDE DEF rest, n
  <2>5. Len(bytes) = Len(rest) + Len(<<0>>) /\ Len(rest) \in Nat
    BY <2>1, <2>3, <2>4, JoinLength
  <2> QED BY <2>4, <2>5
<1>8. node.type \in 1 .. 6 \/ node.type \in Arrays \/ node.type = 8 \/ node.type = 9 \/ node.type = 10
  BY <1>2
<1> QED BY <1>3, <1>4, <1>5, <1>6, <1>7, <1>8

\* Parts of one length are together as long as that length times their number.
LEMMA EqualLengths ==
    ASSUME NEW n \in Nat, NEW f, \A i \in 1 .. n : f[i] \in Text, NEW c, IsJoined(c, f, n),
           NEW z \in Nat, \A i \in 1 .. n : Len(f[i]) = z
    PROVE  Len(c[n]) = n * z
<1> DEFINE S == {i \in 0 .. n : Len(c[i]) = i * z}
<1>0. Len(c[0]) = 0 /\ \A i \in 1 .. n : Len(c[i]) = Len(c[i - 1]) + Len(f[i])
  BY JoinedLengths, ZenonT(30)
<1>1. 0 \in S
  <2>1. Len(c[0]) = 0 * z /\ 0 \in 0 .. n
    BY <1>0
  <2> QED BY <2>1
<1>2. ASSUME NEW i \in 1 .. n, i - 1 \in S PROVE i \in S
  <2>1. Len(c[i]) = Len(c[i - 1]) + z /\ Len(c[i - 1]) = (i - 1) * z
    BY <1>2, <1>0
  <2>2. (i - 1) * z + z = i * z
    OBVIOUS
  <2>3. Len(c[i]) = i * z
    BY <2>1, <2>2
  <2> QED BY <2>3
<1> HIDE DEF S
<1>3. \A i \in 0 .. n : i \in S
  BY <1>1, <1>2, BoundedInduction
<1> QED BY <1>3 DEF S

--------------------------------------------------------------------------------
(* clod_nbt_payload_size                                                   *)

LEMMA SizeResultsType ==
    ASSUME NEW rest \in SizeResults
    PROVE  /\ \A p, type \in Nat : rest.payload[p][type] \in Nat
           /\ \A p, n, size \in Nat : rest.list[p][n][size] \in Nat
           /\ \A p, size \in Nat : rest.compound[p][size] \in Nat
<1>1. /\ rest.payload \in [Nat -> [Nat -> Nat]]
      /\ rest.list \in [Nat -> [Nat -> [Nat -> Nat]]]
      /\ rest.compound \in [Nat -> [Nat -> Nat]]
  BY DEF SizeResults
<1> DEFINE a == rest.payload
           b == rest.list
           c == rest.compound
<1>2. a \in [Nat -> [Nat -> Nat]] /\ b \in [Nat -> [Nat -> [Nat -> Nat]]] /\ c \in [Nat -> [Nat -> Nat]]
  BY <1>1
<1> HIDE DEF a, b, c
<1>3. \A p \in Nat : a[p] \in [Nat -> Nat] /\ b[p] \in [Nat -> [Nat -> Nat]] /\ c[p] \in [Nat -> Nat]
  BY <1>2
<1>4. \A p, n \in Nat : b[p][n] \in [Nat -> Nat]
  BY <1>3
<1>5. \A p, type \in Nat : a[p][type] \in Nat /\ c[p][type] \in Nat
  BY <1>3
<1>6. \A p, n, size \in Nat : b[p][n][size] \in Nat
  BY <1>4
<1> QED BY <1>5, <1>6 DEF a, b, c

\* What a call returns, if it does.
LEMMA PassedFacts ==
  /\ NEVER \in Nat
  /\ \A n, size \in Nat : Passed(n, size) \in Nat
  /\ \A n, size \in Nat : size < SizeLimit => size # NEVER /\ Passed(n, size) = Word(n + size)
<1>1. SizeLimit \in Nat /\ NEVER = SizeLimit
  BY NbtAssumption DEF NEVER
<1>2. ASSUME NEW n \in Nat, NEW size \in Nat
      PROVE  /\ Passed(n, size) \in Nat
             /\ size < SizeLimit => size # NEVER /\ Passed(n, size) = Word(n + size)
  <2>1. Word(n + size) \in Nat
    BY WordType
  <2>2. size < SizeLimit => size # NEVER
    BY <1>1
  <2> QED BY <1>1, <2>1, <2>2 DEF Passed
<1> QED BY <1>1, <1>2

LEMMA ListTurnType ==
    ASSUME NEW d \in Text, NEW rest \in SizeResults, NEW p \in Nat, NEW n \in Nat, NEW size \in Nat
    PROVE  ListTurn(rest, d, p, n, size) \in Nat
<1>1. At(d, p) \in Nat /\ p + size \in Nat
  BY AtType
<1>2. rest.payload[p + size][At(d, p)] \in Nat
  BY <1>1, SizeResultsType
<1>3. Word(size + n * type_zero_size(At(d, p))) \in Nat
  <2>1. type_zero_size(At(d, p)) \in Nat
    BY ZeroSizeType
  <2>2. \A z \in Nat : size + n * z \in Int
    OBVIOUS
  <2> QED BY <2>1, <2>2, WordType
<1>4. Word(size + rest.payload[p + size][At(d, p)]) \in Nat
  BY <1>2, WordType
<1>5. n # 0 => rest.list[p][n - 1][Word(size + rest.payload[p + size][At(d, p)])] \in Nat
  BY <1>4, SizeResultsType
<1> QED BY <1>2, <1>3, <1>5 DEF ListTurn

LEMMA CompoundTurnType ==
    ASSUME NEW d \in Text, NEW rest \in SizeResults, NEW p \in Nat, NEW size \in Nat
    PROVE  CompoundTurn(rest, d, p, size) \in Nat
<1> DEFINE name_size == beu16_dec(d, p + size + 1)
<1>1. p + size \in Nat /\ p + size + 1 \in Nat
  OBVIOUS
<1>2. name_size \in Nat /\ At(d, p + size) \in Nat
  BY <1>1, AtType, DecTypes
<1>3. p + size + 3 + name_size \in Nat
  BY <1>1, <1>2
<1>4. rest.payload[p + size + 3 + name_size][At(d, p + size)] \in Nat
  BY <1>2, <1>3, SizeResultsType
<1> DEFINE x == rest.payload[p + size + 3 + name_size][At(d, p + size)]
<1> DEFINE next == Passed(size + 3 + name_size, x)
<1>5. next \in Nat /\ NEVER \in Nat
  <2>1. size + 3 + name_size \in Nat /\ x \in Nat
    BY <1>2, <1>4
  <2> HIDE DEF x, name_size
  <2> QED BY <2>1, PassedFacts
<1>6. rest.compound[p][next] \in Nat
  BY <1>5, SizeResultsType
<1> HIDE DEF next
<1> QED BY <1>5, <1>6 DEF CompoundTurn, next

LEMMA SizeCallType ==
    ASSUME NEW d \in Text, NEW rest \in SizeResults, NEW p \in Nat, NEW type \in Nat
    PROVE  SizeCall(rest, d, p, type) \in Nat
<1>1. type_zero_size(type) \in Nat
  BY ZeroSizeType
<1>2. type \in Arrays => ArraySize(d, p, type) \in Nat
  <2>1. SUFFICES ASSUME type \in Arrays PROVE ArraySize(d, p, type) \in Nat
    OBVIOUS
  <2>2. bei32_dec(d, p) * ElemSize(type) \in Int
    <3>1. ElemSize(type) \in {1, 4, 8}
      BY <2>1, TypeCodes, ElemSizes
    <3>2. \A x \in Int : x * 1 \in Int /\ x * 4 \in Int /\ x * 8 \in Int
      OBVIOUS
    <3> QED BY <3>1, <3>2, DecTypes
  <2> DEFINE size == Word(bei32_dec(d, p) * ElemSize(type))
  <2>3. size \in Nat
    BY <2>2, WordType
  <2>4. Word(4 + size) \in Nat
    <3> HIDE DEF size
    <3> QED BY <2>3, WordType
  <2> QED BY <2>4 DEF ArraySize
<1>3. StringSize(d, p) \in Nat
  BY DecTypes DEF StringSize
<1>4. rest.list[p][Word(bei32_dec(d, p + 1))][5] \in Nat
  <2>1. bei32_dec(d, p + 1) \in Int
    BY DecTypes
  <2>2. Word(bei32_dec(d, p + 1)) \in Nat
    BY <2>1, WordType
  <2> QED BY <2>2, SizeResultsType
<1>5. rest.compound[p][0] \in Nat
  BY SizeResultsType
<1> QED BY <1>1, <1>2, <1>3, <1>4, <1>5, PassedFacts DEF SizeCall

LEMMA SizeResultsFromType ==
    ASSUME NEW d \in Text, NEW rest \in SizeResults
    PROVE  SizeResultsFrom(rest, d) \in SizeResults
<1> DEFINE a == [p \in Nat |-> [type \in Nat |-> SizeCall(rest, d, p, type)]]
           b == [p \in Nat |-> [n \in Nat |-> [size \in Nat |-> ListTurn(rest, d, p, n, size)]]]
           c == [p \in Nat |-> [size \in Nat |-> CompoundTurn(rest, d, p, size)]]
<1>1. a \in [Nat -> [Nat -> Nat]]
  BY SizeCallType
<1>2. b \in [Nat -> [Nat -> [Nat -> Nat]]]
  BY ListTurnType
<1>3. c \in [Nat -> [Nat -> Nat]]
  BY CompoundTurnType
<1>4. SizeResultsFrom(rest, d) = [payload |-> a, list |-> b, compound |-> c]
  BY DEF SizeResultsFrom
<1> HIDE DEF a, b, c
<1> QED BY <1>1, <1>2, <1>3, <1>4 DEF SizeResults

\* What calls and turns of loops return at each depth.
LEMMA SizesByDepthDef ==
    ASSUME NEW d \in Text
    PROVE  /\ Depths(d) \in Nat /\ Depths(d) = 2 * Len(d) + 8
           /\ \A k \in 0 .. Depths(d) : SizesByDepth(d)[k] \in SizeResults
           /\ \A k \in 1 .. Depths(d) : SizesByDepth(d)[k] = SizeResultsFrom(SizesByDepth(d)[k - 1], d)
<1> DEFINE N == Depths(d)
           first == CHOOSE results_0 \in SizeResults : TRUE
           G == [x \in SizeResults \X (1 .. N) |-> SizeResultsFrom(x[1], d)]
           P(r) == r = [k \in 0 .. N |-> IF k = 0 THEN first ELSE SizeResultsFrom(r[k - 1], d)]
<1>1. N \in Nat /\ N = 2 * Len(d) + 8
  BY TextFacts DEF Depths
<1>2. first \in SizeResults
  <2> DEFINE none == [payload |-> [p \in Nat |-> [type \in Nat |-> 0]],
                      list |-> [p \in Nat |-> [n \in Nat |-> [size \in Nat |-> 0]]],
                      compound |-> [p \in Nat |-> [size \in Nat |-> 0]]]
  <2>1. none \in SizeResults
    BY DEF SizeResults
  <2> HIDE DEF none
  <2> QED BY <2>1
<1>3. G \in [SizeResults \X (1 .. N) -> SizeResults]
  BY SizeResultsFromType
<1>4. \A v \in SizeResults, i \in 1 .. N : G[<<v, i>>] = SizeResultsFrom(v, d)
  OBVIOUS
<1> HIDE DEF G, first, N
<1>5. PICK r : ComputedFrom(r, SizeResults, first, N, G)
  BY <1>1, <1>2, <1>3, RecursiveFunction
<1>6. /\ r \in [0 .. N -> SizeResults] /\ r[0] = first
      /\ \A i \in 1 .. N : r[i] = SizeResultsFrom(r[i - 1], d)
  <2>1. r \in [0 .. N -> SizeResults] /\ r[0] = first /\ \A i \in 1 .. N : r[i] = G[<<r[i - 1], i>>]
    BY <1>5 DEF ComputedFrom
  <2>2. \A i \in 1 .. N : r[i - 1] \in SizeResults
    BY <2>1, <1>1
  <2> QED BY <2>1, <2>2, <1>4
<1>7. P(r)
  <2>1. \A i \in 0 .. N : r[i] = IF i = 0 THEN first ELSE SizeResultsFrom(r[i - 1], d)
    BY <1>6
  <2>2. r = [i \in 0 .. N |-> r[i]]
    BY <1>6
  <2> QED BY <2>1, <2>2
<1>8. SizesByDepth(d) = CHOOSE e : P(e)
  BY DEF SizesByDepth, N, first
<1>9. P(CHOOSE e : P(e))
  <2> HIDE DEF P
  <2> QED BY <1>7, Zenon
<1> DEFINE e == SizesByDepth(d)
<1>10. P(e)
  <2> HIDE DEF P
  <2> QED BY <1>8, <1>9
<1> HIDE DEF e
<1>11. e[0] = first /\ \A i \in 1 .. N : e[i] = SizeResultsFrom(e[i - 1], d)
  BY <1>10, <1>1
<1>12. \A i \in 0 .. N : e[i] \in SizeResults
  <2> DEFINE S == {i \in 0 .. N : e[i] \in SizeResults}
  <2>1. 0 \in S
    BY <1>1, <1>2, <1>11
  <2>2. ASSUME NEW i \in 1 .. N, i - 1 \in S PROVE i \in S
    <3>1. SizeResultsFrom(e[i - 1], d) \in SizeResults
      BY <2>2, SizeResultsFromType
    <3> QED BY <3>1, <1>11
  <2> HIDE DEF S
  <2>3. \A i \in 0 .. N : i \in S
    BY <1>1, <2>1, <2>2, BoundedInduction
  <2> QED BY <2>3 DEF S
<1> QED BY <1>1, <1>11, <1>12 DEF e, N

\* One call or turn in terms of those further in.
LEMMA SizesByDepthStep ==
    ASSUME NEW d \in Text, NEW k \in 1 .. Depths(d)
    PROVE  /\ \A p, type \in Nat : SizesByDepth(d)[k].payload[p][type] = SizeCall(SizesByDepth(d)[k - 1], d, p, type)
           /\ \A p, n, size \in Nat :
                SizesByDepth(d)[k].list[p][n][size] = ListTurn(SizesByDepth(d)[k - 1], d, p, n, size)
           /\ \A p, size \in Nat :
                SizesByDepth(d)[k].compound[p][size] = CompoundTurn(SizesByDepth(d)[k - 1], d, p, size)
<1> DEFINE rest == SizesByDepth(d)[k - 1]
           r == SizesByDepth(d)[k]
<1>1. r = SizeResultsFrom(rest, d)
  BY SizesByDepthDef
<1> HIDE DEF rest, r
<1>2. /\ r.payload = [p \in Nat |-> [type \in Nat |-> SizeCall(rest, d, p, type)]]
      /\ r.list = [p \in Nat |-> [n \in Nat |-> [size \in Nat |-> ListTurn(rest, d, p, n, size)]]]
      /\ r.compound = [p \in Nat |-> [size \in Nat |-> CompoundTurn(rest, d, p, size)]]
  BY <1>1 DEF SizeResultsFrom
<1>3. \A p, type \in Nat : r.payload[p][type] = SizeCall(rest, d, p, type)
  BY <1>2
<1>4. \A p, n, size \in Nat : r.list[p][n][size] = ListTurn(rest, d, p, n, size)
  BY <1>2
<1>5. \A p, size \in Nat : r.compound[p][size] = CompoundTurn(rest, d, p, size)
  BY <1>2
<1> QED BY <1>3, <1>4, <1>5 DEF rest, r

LEMMA PayloadSizeType ==
    ASSUME NEW d \in Text, NEW p \in Nat, NEW type \in Nat
    PROVE  payload_size(d, p, type) \in Nat
<1>1. SizesByDepth(d)[Depths(d)] \in SizeResults
  BY SizesByDepthDef
<1> QED BY <1>1, SizeResultsType DEF payload_size

--------------------------------------------------------------------------------
(* Where the parts of tags, lists and compounds are                        *)

Size(node) == Len(PayloadBytes[node])
PartsEnd(node, i) == Len(Joined(Parts(node), Len(node.items))[i])
TagsEnd(node, i) == Len(Joined(Tags(node), Len(node.items))[i])

LEMMA PayloadText ==
    ASSUME NEW k \in 0 .. Top, NEW node \in Levels[k]
    PROVE  /\ PayloadBytes[node] \in Text /\ Size(node) \in Nat
           /\ TagBytes(node) \in Text /\ IsJoin(TagBytes(node), TagHead(node), PayloadBytes[node])
           /\ Len(TagBytes(node)) = 3 + Len(node.name) + Size(node)
<1>1. PayloadBytes[node] \in Text
  BY Shapes DEF Shape
<1>2. Size(node) \in Nat
  BY <1>1, TextFacts DEF Size
<1>3. TagBytes(node) \in Text /\ IsJoin(TagBytes(node), TagHead(node), PayloadBytes[node])
  BY <1>1, TagJoin
<1>4. TagHead(node) \in Text /\ Len(TagHead(node)) = 3 + Len(node.name)
  BY TagHeadFacts
<1>5. Len(TagBytes(node)) = 3 + Len(node.name) + Size(node)
  BY <1>1, <1>3, <1>4, JoinLength DEF Size
<1> QED BY <1>1, <1>2, <1>3, <1>5

LEMMA ListLayout ==
    ASSUME NEW k \in 0 .. Top, NEW node \in Levels[k], node.type = 9
    PROVE  /\ Len(node.items) \in 0 .. MaxLength
           /\ PartsEnd(node, 0) = 0
           /\ \A i \in 0 .. Len(node.items) : PartsEnd(node, i) \in Nat /\ PartsEnd(node, i) <= PartsEnd(node, Len(node.items))
           /\ \A i \in 1 .. Len(node.items) :
                /\ k > 0 /\ node.items[i] \in Levels[k - 1] /\ node.items[i].type = node.elem
                /\ PartsEnd(node, i) = PartsEnd(node, i - 1) + Size(node.items[i])
           /\ Size(node) = 5 + PartsEnd(node, Len(node.items))
           /\ node.elem \in 0 .. 6 => Size(node) = 5 + Len(node.items) * type_zero_size(node.elem)
<1> DEFINE n == Len(node.items)
           f == Parts(node)
           c == Joined(f, n)
<1>1. /\ n \in 0 .. MaxLength /\ IsJoined(c, f, n) /\ IsJoin(PayloadBytes[node], ListHead(node.elem, n), c[n])
  BY Shapes DEF Shape, ListShape
<1>2. n \in Nat /\ DOMAIN node.items = 1 .. n /\ node.elem \in 0 .. 12 /\ WellFormed(node)
  BY NodeFacts
<1>3. \A i \in 1 .. n : f[i] = PayloadBytes[node.items[i]]
  BY <1>2 DEF Parts
<1>4. ASSUME NEW i \in 1 .. n
      PROVE  /\ k > 0 /\ node.items[i] \in Levels[k - 1] /\ node.items[i].type = node.elem
             /\ f[i] \in Text /\ Len(f[i]) = Size(node.items[i])
             /\ node.elem \in 0 .. 6 => Len(f[i]) = type_zero_size(node.elem)
  <2>1. k > 0 /\ node.items[i] \in Levels[k - 1]
    BY NodeItems
  <2>2. k - 1 \in 0 .. Top
    BY <2>1, TopType
  <2>3. node.items[i].type = node.elem
    BY <1>2, TypeCodes DEF WellFormed
  <2>4. Shape(node.items[i], PayloadBytes[node.items[i]])
    BY <2>1, <2>2, Shapes
  <2>5. node.elem \in 0 .. 6 => Len(f[i]) = type_zero_size(node.elem)
    BY <1>3, <2>3, <2>4 DEF Shape, FixedShape
  <2> QED BY <2>1, <2>3, <2>4, <2>5, <1>3 DEF Shape, Size
<1> HIDE DEF f
<1>5. /\ Len(c[0]) = 0
      /\ \A i \in 1 .. n : Len(c[i]) = Len(c[i - 1]) + Len(f[i])
      /\ \A i \in 0 .. n : Len(c[i]) \in Nat /\ Len(c[i]) <= Len(c[n])
  BY <1>1, <1>2, <1>4, JoinedLengths
<1>6. node.elem \in 0 .. 6 => Len(c[n]) = n * type_zero_size(node.elem)
  <2>1. SUFFICES ASSUME node.elem \in 0 .. 6 PROVE Len(c[n]) = n * type_zero_size(node.elem)
    OBVIOUS
  <2> DEFINE z == type_zero_size(node.elem)
  <2>2. z \in Nat /\ (\A i \in 1 .. n : f[i] \in Text) /\ (\A i \in 1 .. n : Len(f[i]) = z)
    BY <1>4, <2>1, ZeroSizeType, SMTT(30)
  <2> HIDE DEF z, c, n
  <2>3. Len(c[n]) = n * z
    BY <1>1, <1>2, <2>2, EqualLengths
  <2> QED BY <2>3 DEF z
<1>7. Size(node) = 5 + Len(c[n])
  <2>1. ListHead(node.elem, n) \in Text /\ Len(ListHead(node.elem, n)) = 5
    BY <1>1, <1>2, ListHeadFacts
  <2>2. c[n] \in Text
    BY <1>1, <1>2 DEF IsJoined
  <2> QED BY <1>1, <2>1, <2>2, JoinLength DEF Size
<1>8. \A i : PartsEnd(node, i) = Len(c[i])
  BY DEF PartsEnd, f
<1> HIDE DEF c, n
<1>9. PartsEnd(node, 0) = 0 /\ Size(node) = 5 + PartsEnd(node, n)
  BY <1>5, <1>7, <1>8
<1>10. \A i \in 0 .. n : PartsEnd(node, i) \in Nat /\ PartsEnd(node, i) <= PartsEnd(node, n)
  BY <1>5, <1>8
<1>11. \A i \in 1 .. n : PartsEnd(node, i) = PartsEnd(node, i - 1) + Size(node.items[i])
  BY <1>4, <1>5, <1>8
<1>12. node.elem \in 0 .. 6 => Size(node) = 5 + n * type_zero_size(node.elem)
  BY <1>6, <1>7
<1> QED BY <1>1, <1>4, <1>9, <1>10, <1>11, <1>12 DEF n

LEMMA CompoundLayout ==
    ASSUME NEW k \in 0 .. Top, NEW node \in Levels[k], node.type = 10
    PROVE  /\ Len(node.items) \in Nat
           /\ TagsEnd(node, 0) = 0
           /\ \A i \in 0 .. Len(node.items) : TagsEnd(node, i) \in Nat /\ TagsEnd(node, i) <= TagsEnd(node, Len(node.items))
           /\ \A i \in 1 .. Len(node.items) :
                /\ k > 0 /\ node.items[i] \in Levels[k - 1] /\ node.items[i].type \in 1 .. 12
                /\ Len(node.items[i].name) \in Nat /\ Size(node.items[i]) \in Nat /\ Size(node.items[i]) >= 1
                /\ TagsEnd(node, i) = TagsEnd(node, i - 1) + (3 + Len(node.items[i].name) + Size(node.items[i]))
           /\ Size(node) = TagsEnd(node, Len(node.items)) + 1
<1> DEFINE n == Len(node.items)
           f == Tags(node)
           c == Joined(f, n)
<1>1. IsJoined(c, f, n) /\ IsJoin(PayloadBytes[node], c[n], <<0>>)
  BY Shapes DEF Shape, CompoundShape
<1>2. n \in Nat /\ DOMAIN node.items = 1 .. n /\ WellFormed(node)
  BY NodeFacts
<1>3. \A i \in 1 .. n : f[i] = TagBytes(node.items[i])
  BY <1>2 DEF Tags
<1>4. ASSUME NEW i \in 1 .. n
      PROVE  /\ k > 0 /\ node.items[i] \in Levels[k - 1] /\ node.items[i].type \in 1 .. 12
             /\ f[i] \in Text /\ Len(f[i]) = 3 + Len(node.items[i].name) + Size(node.items[i])
             /\ Len(node.items[i].name) \in Nat /\ Size(node.items[i]) \in Nat /\ Size(node.items[i]) >= 1
  <2>1. k > 0 /\ node.items[i] \in Levels[k - 1]
    BY NodeItems
  <2>2. k - 1 \in 0 .. Top
    BY <2>1, TopType
  <2>3. type_valid(node.items[i].type)
    BY <1>2, TypeCodes DEF WellFormed
  <2>4. node.items[i].type \in 1 .. 12
    BY <2>3, ZeroSizeType
  <2>5. /\ TagBytes(node.items[i]) \in Text /\ Size(node.items[i]) \in Nat
        /\ Len(TagBytes(node.items[i])) = 3 + Len(node.items[i].name) + Size(node.items[i])
    BY <2>1, <2>2, PayloadText
  <2>6. Len(node.items[i].name) \in Nat
    BY <2>1, <2>2, NodeFacts
  <2>7. Size(node.items[i]) >= 1
    BY <2>1, <2>2, <2>4, PayloadNotEmpty DEF Size
  <2> QED BY <1>3, <2>1, <2>4, <2>5, <2>6, <2>7
<1> HIDE DEF f
<1>5. /\ Len(c[0]) = 0
      /\ \A i \in 1 .. n : Len(c[i]) = Len(c[i - 1]) + Len(f[i])
      /\ \A i \in 0 .. n : Len(c[i]) \in Nat /\ Len(c[i]) <= Len(c[n])
  BY <1>1, <1>2, <1>4, JoinedLengths
<1>6. Size(node) = Len(c[n]) + 1
  <2>1. <<0>> \in Text /\ Len(<<0>>) = 1
    BY ByteText
  <2>2. c[n] \in Text
    BY <1>1, <1>2 DEF IsJoined
  <2> QED BY <1>1, <2>1, <2>2, JoinLength DEF Size
<1>7. \A i : TagsEnd(node, i) = Len(c[i])
  BY DEF TagsEnd, f
<1> HIDE DEF c, n
<1>8. TagsEnd(node, 0) = 0 /\ Size(node) = TagsEnd(node, n) + 1
  BY <1>5, <1>6, <1>7
<1>9. \A i \in 0 .. n : TagsEnd(node, i) \in Nat /\ TagsEnd(node, i) <= TagsEnd(node, n)
  BY <1>5, <1>7
<1>10. \A i \in 1 .. n : TagsEnd(node, i) = TagsEnd(node, i - 1) + (3 + Len(node.items[i].name) + Size(node.items[i]))
  BY <1>4, <1>5, <1>7
<1> QED BY <1>2, <1>4, <1>8, <1>9, <1>10 DEF n

LEMMA TagAt ==
    ASSUME NEW d \in Text, NEW k \in 0 .. Top, NEW node \in Levels[k], NEW t, Holds(d, t, TagBytes(node))
    PROVE  /\ t \in Nat /\ t + (3 + Len(node.name) + Size(node)) <= Len(d)
           /\ At(d, t) = node.type
           /\ beu16_dec(d, t + 1) = Len(node.name)
           /\ Holds(d, t + 3, node.name)
           /\ Holds(d, t + (3 + Len(node.name)), PayloadBytes[node])
<1> DEFINE len == Len(node.name)
           three == <<node.type>> \o beu16_enc(len)
<1>1. /\ TagHead(node) \in Text /\ Len(TagHead(node)) = 3 + len
      /\ three \in Text
      /\ IsJoin(TagHead(node), three, node.name)
      /\ IsJoin(three, <<node.type>>, beu16_enc(len))
      /\ beu16_enc(len) \in Text /\ Len(beu16_enc(len)) = 2
      /\ <<node.type>> \in Text /\ Len(<<node.type>>) = 1
  BY TagHeadFacts
<1>2. /\ PayloadBytes[node] \in Text /\ IsJoin(TagBytes(node), TagHead(node), PayloadBytes[node])
      /\ Len(TagBytes(node)) = 3 + len + Size(node)
  BY PayloadText
<1>3. node.name \in Text /\ len \in Nat /\ len < Pairs /\ node.type \in 0 .. 12
  BY NodeFacts
<1>4. t \in Nat /\ t + (3 + len + Size(node)) <= Len(d)
  BY <1>2 DEF Holds
<1> HIDE DEF three, len
<1>5. Holds(d, t, TagHead(node)) /\ Holds(d, t + (3 + len), PayloadBytes[node])
  <2>1. Holds(d, t, TagHead(node)) /\ Holds(d, t + Len(TagHead(node)), PayloadBytes[node])
    BY <1>1, <1>2, HoldsJoin
  <2> QED BY <2>1, <1>1
<1>6. Len(three) = 3
  <2> DEFINE one == <<node.type>>
             two == beu16_enc(len)
  <2>1. one \in Text /\ Len(one) = 1 /\ two \in Text /\ Len(two) = 2 /\ IsJoin(three, one, two)
    BY <1>1
  <2> HIDE DEF one, two
  <2>2. Len(three) = Len(one) + Len(two)
    BY <2>1, JoinLength
  <2> QED BY <2>1, <2>2
<1>7. Holds(d, t, three) /\ Holds(d, t + 3, node.name)
  <2>1. Holds(d, t, three) /\ Holds(d, t + Len(three), node.name)
    BY <1>1, <1>3, <1>5, HoldsJoin
  <2> QED BY <2>1, <1>6
<1>8. Holds(d, t, <<node.type>>) /\ Holds(d, t + 1, beu16_enc(len))
  <2>1. Holds(d, t, <<node.type>>) /\ Holds(d, t + Len(<<node.type>>), beu16_enc(len))
    BY <1>1, <1>7, HoldsJoin
  <2> QED BY <2>1, <1>1
<1>9. At(d, t) = node.type
  <2>1. At(d, t + 0) = <<node.type>>[0 + 1]
    <3>1. 0 \in 0 .. Len(<<node.type>>) - 1
      BY <1>1
    <3> QED BY <1>1, <1>8, <3>1, HoldsAt
  <2>2. t + 0 = t /\ <<node.type>>[0 + 1] = node.type
    BY <1>4
  <2> QED BY <2>1, <2>2
<1>10. beu16_dec(d, t + 1) = len
  <2>1. len \in 0 .. Pairs - 1
    BY <1>3, PairsType
  <2> QED BY <2>1, <1>8, Dec16
<1> QED BY <1>4, <1>5, <1>7, <1>9, <1>10 DEF len

LEMMA ListAt ==
    ASSUME NEW d \in Text, NEW k \in 0 .. Top, NEW node \in Levels[k], node.type = 9, NEW p, Holds(d, p, PayloadBytes[node])
    PROVE  /\ p \in Nat /\ p + Size(node) <= Len(d)
           /\ At(d, p) = node.elem
           /\ bei32_dec(d, p + 1) = Len(node.items) /\ beu32_dec(d, p + 1) = Len(node.items)
           /\ \A i \in 1 .. Len(node.items) : Holds(d, p + 5 + PartsEnd(node, i - 1), PayloadBytes[node.items[i]])
<1> DEFINE n == Len(node.items)
           f == Parts(node)
           c == Joined(f, n)
           head == ListHead(node.elem, n)
<1>1. /\ n \in 0 .. MaxLength /\ IsJoined(c, f, n) /\ IsJoin(PayloadBytes[node], head, c[n])
  BY Shapes DEF Shape, ListShape
<1>2. n \in Nat /\ DOMAIN node.items = 1 .. n /\ node.elem \in 0 .. 12
  BY NodeFacts
<1>3. \A i \in 1 .. n : f[i] = PayloadBytes[node.items[i]]
  BY <1>2 DEF Parts
<1>4. ASSUME NEW i \in 1 .. n PROVE f[i] \in Text
  <2>1. k > 0 /\ node.items[i] \in Levels[k - 1]
    BY NodeItems
  <2>2. k - 1 \in 0 .. Top
    BY <2>1, TopType
  <2> QED BY <1>3, <2>1, <2>2, PayloadText
<1>5. \A i : PartsEnd(node, i) = Len(c[i])
  BY DEF PartsEnd
<1>6. p \in Nat /\ p + Size(node) <= Len(d)
  BY DEF Holds, Size
<1> HIDE DEF f, c
<1>7. c[n] \in Text
  BY <1>1, <1>2 DEF IsJoined
<1>8. /\ head \in Text /\ Len(head) = 5 /\ IsJoin(head, <<node.elem>>, bei32_enc(n))
      /\ <<node.elem>> \in Text /\ Len(<<node.elem>>) = 1
      /\ bei32_enc(n) \in Text
  BY <1>1, <1>2, ListHeadFacts
<1> HIDE DEF head, n
<1>9. Holds(d, p, head) /\ Holds(d, p + 5, c[n])
  <2>1. Holds(d, p, head) /\ Holds(d, p + Len(head), c[n])
    BY <1>1, <1>7, <1>8, HoldsJoin
  <2> QED BY <2>1, <1>8
<1>10. Holds(d, p, <<node.elem>>) /\ Holds(d, p + 1, bei32_enc(n))
  <2>1. Holds(d, p, <<node.elem>>) /\ Holds(d, p + Len(<<node.elem>>), bei32_enc(n))
    BY <1>8, <1>9, HoldsJoin
  <2> QED BY <2>1, <1>8
<1>11. At(d, p) = node.elem
  <2>1. At(d, p + 0) = <<node.elem>>[0 + 1]
    <3>1. 0 \in 0 .. Len(<<node.elem>>) - 1
      BY <1>8
    <3> QED BY <1>8, <1>10, <3>1, HoldsAt
  <2>2. p + 0 = p /\ <<node.elem>>[0 + 1] = node.elem
    BY <1>6
  <2> QED BY <2>1, <2>2
<1>12. bei32_dec(d, p + 1) = n /\ beu32_dec(d, p + 1) = n
  BY <1>1, <1>10, Dec32
<1>13. ASSUME NEW i \in 1 .. n PROVE Holds(d, p + 5 + PartsEnd(node, i - 1), PayloadBytes[node.items[i]])
  <2>1. Holds(d, p + 5 + Len(c[i - 1]), f[i])
    BY <1>1, <1>2, <1>4, <1>9, HoldsJoined
  <2> QED BY <2>1, <1>3, <1>5
<1> QED BY <1>6, <1>11, <1>12, <1>13 DEF n

LEMMA CompoundAt ==
    ASSUME NEW d \in Text, NEW k \in 0 .. Top, NEW node \in Levels[k], node.type = 10, NEW p, Holds(d, p, PayloadBytes[node])
    PROVE  /\ p \in Nat /\ p + Size(node) <= Len(d)
           /\ At(d, p + TagsEnd(node, Len(node.items))) = 0
           /\ \A i \in 1 .. Len(node.items) : Holds(d, p + TagsEnd(node, i - 1), TagBytes(node.items[i]))
<1> DEFINE n == Len(node.items)
           f == Tags(node)
           c == Joined(f, n)
<1>1. IsJoined(c, f, n) /\ IsJoin(PayloadBytes[node], c[n], <<0>>)
  BY Shapes DEF Shape, CompoundShape
<1>2. n \in Nat /\ DOMAIN node.items = 1 .. n
  BY NodeFacts
<1>3. \A i \in 1 .. n : f[i] = TagBytes(node.items[i])
  BY <1>2 DEF Tags
<1>4. ASSUME NEW i \in 1 .. n PROVE f[i] \in Text
  <2>1. k > 0 /\ node.items[i] \in Levels[k - 1]
    BY NodeItems
  <2>2. k - 1 \in 0 .. Top
    BY <2>1, TopType
  <2> QED BY <1>3, <2>1, <2>2, PayloadText
<1>5. \A i : TagsEnd(node, i) = Len(c[i])
  BY DEF TagsEnd
<1>6. p \in Nat /\ p + Size(node) <= Len(d)
  BY DEF Holds, Size
<1> HIDE DEF f, c, n
<1>7. c[n] \in Text /\ <<0>> \in Text /\ Len(<<0>>) = 1
  BY <1>1, <1>2, ByteText DEF IsJoined
<1>8. Holds(d, p, c[n]) /\ Holds(d, p + Len(c[n]), <<0>>)
  BY <1>1, <1>7, HoldsJoin
<1>9. At(d, p + TagsEnd(node, n)) = 0
  <2>1. At(d, (p + Len(c[n])) + 0) = <<0>>[0 + 1]
    <3>1. 0 \in 0 .. Len(<<0>>) - 1
      BY <1>7
    <3> QED BY <1>7, <1>8, <3>1, HoldsAt
  <2>2. (p + Len(c[n])) + 0 = p + Len(c[n]) /\ <<0>>[0 + 1] = 0
    BY <1>6, <1>7, TextFacts
  <2> QED BY <2>1, <2>2, <1>5
<1>10. ASSUME NEW i \in 1 .. n PROVE Holds(d, p + TagsEnd(node, i - 1), TagBytes(node.items[i]))
  <2>1. Holds(d, p + Len(c[i - 1]), f[i])
    BY <1>1, <1>2, <1>4, <1>8, HoldsJoined
  <2> QED BY <2>1, <1>3, <1>5
<1> QED BY <1>6, <1>9, <1>10 DEF n

--------------------------------------------------------------------------------
(* clod_nbt_payload_size returns the sizes of payloads                     *)

\* All of a size_t is enough for offsets into these data.
LEMMA SmallWords ==
    ASSUME NEW d \in Text, Len(d) < SizeLimit
    PROVE  /\ \A x \in Nat : x <= Len(d) => Word(x) = x
           /\ \A p \in Nat : p <= Len(d) => available(d, p) = Len(d) - p
<1>1. Len(d) \in Nat /\ SizeLimit \in Nat
  BY TextFacts, NbtAssumption
<1>2. \A x \in Nat : x <= Len(d) => x < SizeLimit
  BY <1>1
<1>3. \A x \in Nat : x <= Len(d) => Word(x) = x
  BY <1>2, WordSmall
<1> QED BY <1>3 DEF available

LEMMA CompoundTurnEnd ==
    ASSUME NEW d \in Text, Len(d) < SizeLimit, NEW rest, NEW p \in Nat, NEW size \in Nat,
           At(d, p + size) = 0, p + (size + 1) <= Len(d)
    PROVE  CompoundTurn(rest, d, p, size) = size + 1
<1>1. Len(d) \in Nat /\ p <= Len(d)
  BY TextFacts
<1>2. available(d, p) = Len(d) - p
  BY <1>1, SmallWords
<1>3. Word(size + 1) = size + 1
  <2>1. size + 1 \in Nat /\ size + 1 <= Len(d)
    BY <1>1
  <2> QED BY <2>1, SmallWords
<1>4. ~(available(d, p) < size + 1)
  BY <1>1, <1>2
<1>5. ~type_valid(At(d, p + size))
  BY ZeroSizeType
<1> QED BY <1>3, <1>4, <1>5, TypeCodes DEF CompoundTurn

\* Enough depth for a payload returns its size.
SizedAt(d, node) ==
  \A p : Holds(d, p, PayloadBytes[node]) =>
    \A m \in Size(node) + 2 .. Depths(d) : SizesByDepth(d)[m].payload[p][node.type] = Size(node)

LEMMA ListSized ==
    ASSUME NEW d \in Text, Len(d) < SizeLimit, NEW k \in 0 .. Top, NEW node \in Levels[k],
           node.type = 9, node.elem \in 1 .. 12,
           \A i \in 1 .. Len(node.items) : SizedAt(d, node.items[i]),
           NEW p, Holds(d, p, PayloadBytes[node]), NEW m \in 1 .. Depths(d), m >= Size(node) - 2
    PROVE  SizesByDepth(d)[m].list[p][Len(node.items)][5] = Size(node)
<1> DEFINE n == Len(node.items)
           L == Size(node)
           off(i) == 5 + PartsEnd(node, i)
           N == Depths(d)
           r == SizesByDepth(d)
<1>1. /\ n \in Nat /\ L \in Nat /\ p \in Nat /\ p + L <= Len(d) /\ Len(d) \in Nat /\ N \in Nat
      /\ At(d, p) = node.elem
  <2>1. n \in Nat /\ L \in Nat /\ Len(d) \in Nat
    BY ListLayout, LengthBound, PayloadText, TextFacts
  <2>2. p \in Nat /\ p + L <= Len(d) /\ At(d, p) = node.elem
    BY ListAt
  <2>3. N \in Nat
    BY SizesByDepthDef
  <2> QED BY <2>1, <2>2, <2>3
<1>2. /\ off(0) = 5 /\ L = off(n)
      /\ \A i \in 0 .. n : off(i) \in Nat /\ off(i) <= L
      /\ \A i \in 1 .. n : off(i) = off(i - 1) + Size(node.items[i])
  <2> DEFINE e(i) == PartsEnd(node, i)
  <2>1. /\ e(0) = 0 /\ L = 5 + e(n)
        /\ \A i \in 0 .. n : e(i) \in Nat /\ e(i) <= e(n)
        /\ \A i \in 1 .. n : e(i) = e(i - 1) + Size(node.items[i])
    BY ListLayout
  <2>2. \A i \in 1 .. n : node.items[i] \in Levels[k - 1] /\ k > 0
    BY ListLayout
  <2>3. \A i \in 1 .. n : Size(node.items[i]) \in Nat
    <3>1. k > 0 => k - 1 \in 0 .. Top
      BY TopType
    <3> QED BY <2>2, <3>1, PayloadText
  <2> HIDE DEF e, n, L
  <2>4. \A i \in 1 .. n : 5 + e(i) = 5 + e(i - 1) + Size(node.items[i])
    <3>1. ASSUME NEW i \in 1 .. n PROVE 5 + e(i) = 5 + e(i - 1) + Size(node.items[i])
      <4>1. i - 1 \in 0 .. n
        BY <1>1
      <4>2. e(i - 1) \in Nat /\ Size(node.items[i]) \in Nat /\ e(i) = e(i - 1) + Size(node.items[i])
        BY <4>1, <2>1, <2>3
      <4> QED BY <4>2
    <3> QED BY <3>1
  <2>5. n \in 0 .. n
    BY <1>1
  <2>6. \A i \in 0 .. n : 5 + e(i) \in Nat /\ 5 + e(i) <= L
    BY <2>1, <2>5
  <2>7. 5 + e(0) = 5
    BY <2>1
  <2> QED BY <2>1, <2>4, <2>6, <2>7 DEF e
<1>3. \A i \in 1 .. n :
        /\ node.items[i].type = node.elem /\ Size(node.items[i]) \in Nat /\ Size(node.items[i]) >= 1
        /\ Holds(d, p + off(i - 1), PayloadBytes[node.items[i]])
  <2>1. ASSUME NEW i \in 1 .. n
        PROVE  node.items[i].type = node.elem /\ Size(node.items[i]) \in Nat /\ Size(node.items[i]) >= 1
    <3>1. k > 0 /\ node.items[i] \in Levels[k - 1] /\ node.items[i].type = node.elem
      BY ListLayout
    <3>2. k - 1 \in 0 .. Top
      BY <3>1, TopType
    <3>3. Size(node.items[i]) \in Nat
      BY <3>1, <3>2, PayloadText
    <3>4. Size(node.items[i]) >= 1
      BY <3>1, <3>2, PayloadNotEmpty DEF Size
    <3> QED BY <3>1, <3>3, <3>4
  <2>2. ASSUME NEW i \in 1 .. n PROVE Holds(d, p + off(i - 1), PayloadBytes[node.items[i]])
    <3>1. Holds(d, p + 5 + PartsEnd(node, i - 1), PayloadBytes[node.items[i]])
      BY ListAt
    <3>2. PartsEnd(node, i - 1) \in Nat
      <4>1. i - 1 \in 0 .. n
        BY <1>1
      <4> QED BY <4>1, ListLayout
    <3>3. p + 5 + PartsEnd(node, i - 1) = p + off(i - 1)
      BY <3>2, <1>1
    <3> QED BY <3>1, <3>3
  <2> QED BY <2>1, <2>2
<1>4. \A q \in 1 .. N : \A a, b, c \in Nat : r[q].list[a][b][c] = ListTurn(r[q - 1], d, a, b, c)
  BY SizesByDepthStep
<1>5. CASE node.elem \in 1 .. 6
  <2>1. L = 5 + n * type_zero_size(node.elem)
    BY <1>5, ListLayout
  <2>2. L <= Len(d)
    BY <1>1
  <2>3. Word(L) = L
    BY <1>1, <2>2, SmallWords
  <2>4. ListTurn(r[m - 1], d, p, n, 5) = L
    <3> HIDE DEF L, r, n
    <3> QED BY <1>1, <1>5, <2>1, <2>3, TypeCodes DEF ListTurn
  <2>5. r[m].list[p][n][5] = ListTurn(r[m - 1], d, p, n, 5)
    <3>1. 5 \in Nat /\ m \in 1 .. N /\ n \in Nat /\ p \in Nat
      BY <1>1
    <3> QED BY <3>1, <1>4, Zenon
  <2> QED BY <2>4, <2>5
<1>6. CASE node.elem \notin 1 .. 6
  <2> DEFINE S == {left \in 0 .. n : \A q \in 1 .. N : q >= L - off(n - left) + 3 => r[q].list[p][left][off(n - left)] = L}
  <2> HIDE DEF L, off, N, r, n
  <2>1. At(d, p) \notin Fixed
    BY <1>1, <1>6, TypeCodes
  <2>2. 0 \in S
    <3>1. ASSUME NEW q \in 1 .. N PROVE r[q].list[p][0][off(n)] = L
      <4>1. r[q].list[p][0][L] = ListTurn(r[q - 1], d, p, 0, L)
        <5>1. 0 \in Nat /\ p \in Nat /\ L \in Nat
          BY <1>1
        <5> QED BY <5>1, <1>4, Zenon
      <4>2. ListTurn(r[q - 1], d, p, 0, L) = L
        BY <2>1 DEF ListTurn
      <4> QED BY <4>1, <4>2, <1>2
    <3>2. n - 0 = n
      BY <1>1
    <3>3. \A q \in 1 .. N : q >= L - off(n - 0) + 3 => r[q].list[p][0][off(n - 0)] = L
      BY <3>1, <3>2, Zenon
    <3>4. 0 \in 0 .. n
      BY <1>1
    <3> QED BY <3>3, <3>4, Zenon
  <2>3. ASSUME NEW left \in 1 .. n, left - 1 \in S PROVE left \in S
    <3> DEFINE i == (n - left) + 1
               s == Size(node.items[i])
               a == off(n - left)
               b == off(i)
    <3>1. i \in 1 .. n /\ i - 1 = n - left /\ n - (left - 1) = i /\ i \in 0 .. n /\ n - left \in 0 .. n
      BY <1>1
    <3>2. /\ a \in Nat /\ b \in Nat /\ b <= L /\ b = a + s
          /\ node.items[i].type = node.elem /\ s \in Nat /\ s >= 1
          /\ Holds(d, p + a, PayloadBytes[node.items[i]])
      BY <3>1, <1>2, <1>3
    <3>3. \A q \in 1 .. N : q >= L - b + 3 => r[q].list[p][left - 1][b] = L
      BY <2>3, <3>1
    <3>4. SizedAt(d, node.items[i])
      BY <3>1 DEF n
    <3>5. \A q \in s + 2 .. N : r[q].payload[p + a][node.elem] = s
      BY <3>2, <3>4 DEF SizedAt, r, N
    <3> HIDE DEF i, s, a, b
    <3>6. ASSUME NEW q \in 1 .. N, q >= L - a + 3 PROVE r[q].list[p][left][a] = L
      <4>1. q - 1 \in s + 2 .. N /\ q - 1 \in 1 .. N /\ q - 1 >= L - b + 3
        <5>1. \A x, l, u, v, w, z \in Nat :
                x \in 1 .. z /\ x >= l - u + 3 /\ v = u + w /\ v <= l /\ w >= 1
                  => x - 1 \in w + 2 .. z /\ x - 1 \in 1 .. z /\ x - 1 >= l - v + 3
          OBVIOUS
        <5>2. q \in Nat /\ q \in 1 .. N
          BY <1>1
        <5> QED BY <5>1, <5>2, <3>2, <3>6, <1>1
      <4>2. r[q - 1].payload[p + a][node.elem] = s /\ r[q - 1].list[p][left - 1][b] = L
        BY <4>1, <3>3, <3>5
      <4>3. a <= Len(d) /\ a + s <= Len(d) /\ left \in Nat /\ left # 0
        BY <3>2, <1>1
      <4>4. ListTurn(r[q - 1], d, p, left, a) = r[q - 1].list[p][left - 1][a + s]
        <5> DEFINE rest == r[q - 1]
        <5>1. rest.payload[p + a][At(d, p)] = s
          BY <4>2, <1>1
        <5> HIDE DEF rest
        <5>2. p \in Nat /\ left \in Nat /\ a \in Nat /\ s \in Nat /\ left # 0 /\ a <= Len(d)
          BY <1>1, <3>2, <4>3
        <5>3. s # 0 /\ a + s <= Len(d)
          BY <3>2, <4>3
        <5>4. s # NEVER
          <6>1. s < SizeLimit
            BY <1>1, <5>2, <5>3, NbtAssumption
          <6> QED BY <5>2, <6>1, PassedFacts
        <5>5. ListTurn(rest, d, p, left, a) = rest.list[p][left - 1][a + s]
          <6>1. Word(a + s) = a + s
            BY <5>2, <5>3, SmallWords
          <6> QED BY <2>1, <5>1, <5>2, <5>3, <5>4, <6>1 DEF ListTurn
        <5> QED BY <5>5 DEF rest
      <4>5. r[q].list[p][left][a] = ListTurn(r[q - 1], d, p, left, a)
        <5>1. p \in Nat /\ left \in Nat /\ a \in Nat
          BY <1>1, <3>2, <4>3
        <5> QED BY <5>1, <1>4, Zenon
      <4> QED BY <4>2, <4>4, <4>5, <3>2
    <3> QED BY <3>6 DEF a
  <2> HIDE DEF S
  <2>4. n \in S
    <3>1. \A left \in 0 .. n : left \in S
      BY <1>1, <2>2, <2>3, BoundedInduction
    <3> QED BY <3>1, <1>1
  <2>5. n - n = 0
    BY <1>1
  <2>6. \A q \in 1 .. N : q >= L - 5 + 3 => r[q].list[p][n][5] = L
    BY <2>4, <2>5, <1>2 DEF S
  <2>7. m \in 1 .. N /\ m >= L - 5 + 3
    BY <1>1 DEF N, L
  <2>8. r[m].list[p][n][5] = L
    BY <2>6, <2>7
  <2> QED BY <2>8 DEF r, n, L
<1> QED BY <1>5, <1>6

LEMMA CompoundSized ==
    ASSUME NEW d \in Text, Len(d) < SizeLimit, NEW k \in 0 .. Top, NEW node \in Levels[k], node.type = 10,
           \A i \in 1 .. Len(node.items) : SizedAt(d, node.items[i]),
           NEW p, Holds(d, p, PayloadBytes[node]), NEW m \in 1 .. Depths(d), m >= Size(node) + 1
    PROVE  SizesByDepth(d)[m].compound[p][0] = Size(node)
<1> DEFINE n == Len(node.items)
           L == Size(node)
           off(i) == TagsEnd(node, i)
           N == Depths(d)
           r == SizesByDepth(d)
<1>1. n \in Nat /\ L \in Nat /\ p \in Nat /\ p + L <= Len(d) /\ Len(d) \in Nat /\ N \in Nat
  BY CompoundLayout, CompoundAt, PayloadText, TextFacts, SizesByDepthDef
<1>2. /\ off(0) = 0 /\ L = off(n) + 1 /\ At(d, p + off(n)) = 0
      /\ \A i \in 0 .. n : off(i) \in Nat /\ off(i) <= off(n)
  BY CompoundLayout, CompoundAt
<1>3. \A i \in 1 .. n :
        /\ node.items[i].type \in 1 .. 12
        /\ Len(node.items[i].name) \in Nat /\ Size(node.items[i]) \in Nat
        /\ off(i) = off(i - 1) + (3 + Len(node.items[i].name) + Size(node.items[i]))
  BY CompoundLayout
<1>4. ASSUME NEW i \in 1 .. n
      PROVE  /\ At(d, p + off(i - 1)) = node.items[i].type
             /\ beu16_dec(d, p + off(i - 1) + 1) = Len(node.items[i].name)
             /\ Holds(d, p + off(i - 1) + 3 + Len(node.items[i].name), PayloadBytes[node.items[i]])
  <2> DEFINE item == node.items[i]
             t == p + off(i - 1)
  <2>1. k > 0 /\ item \in Levels[k - 1] /\ Holds(d, t, TagBytes(item))
    BY CompoundLayout, CompoundAt
  <2>2. k - 1 \in 0 .. Top
    BY <2>1, TopType
  <2>3. Len(item.name) \in Nat
    BY <1>3
  <2> HIDE DEF item, t
  <2>4. /\ t \in Nat /\ At(d, t) = item.type /\ beu16_dec(d, t + 1) = Len(item.name)
        /\ Holds(d, t + (3 + Len(item.name)), PayloadBytes[item])
    BY <2>1, <2>2, TagAt
  <2>5. t + (3 + Len(item.name)) = t + 3 + Len(item.name)
    <3>1. \A x, y \in Nat : x + (3 + y) = x + 3 + y
      OBVIOUS
    <3> QED BY <3>1, <2>3, <2>4
  <2> QED BY <2>4, <2>5 DEF item, t
<1>5. \A q \in 1 .. N : \A a, b \in Nat : r[q].compound[a][b] = CompoundTurn(r[q - 1], d, a, b)
  BY SizesByDepthStep
<1> DEFINE S == {left \in 0 .. n : \A q \in 1 .. N : q >= L - off(n - left) + 1 => r[q].compound[p][off(n - left)] = L}
<1> HIDE DEF L, off, N, r, n
<1>6. 0 \in S
  <2> DEFINE a == off(n)
  <2>1. a \in Nat /\ L = a + 1 /\ At(d, p + a) = 0 /\ p + (a + 1) <= Len(d)
    <3>1. n \in 0 .. n
      BY <1>1
    <3> QED BY <3>1, <1>1, <1>2
  <2> HIDE DEF a
  <2>2. ASSUME NEW q \in 1 .. N PROVE r[q].compound[p][a] = L
    <3>1. r[q].compound[p][a] = CompoundTurn(r[q - 1], d, p, a)
      <4>1. p \in Nat /\ a \in Nat
        BY <1>1, <2>1
      <4> QED BY <4>1, <1>5, Zenon
    <3>2. CompoundTurn(r[q - 1], d, p, a) = a + 1
      BY <1>1, <2>1, CompoundTurnEnd
    <3> QED BY <3>1, <3>2, <2>1
  <2>3. n - 0 = n
    BY <1>1
  <2> QED BY <2>2, <2>3, <1>1 DEF a
<1>7. ASSUME NEW left \in 1 .. n, left - 1 \in S PROVE left \in S
  <2> DEFINE i == (n - left) + 1
             item == node.items[i]
             s == Size(item)
             len == Len(item.name)
             a == off(n - left)
             b == off(i)
  <2>1. i \in 1 .. n /\ i - 1 = n - left /\ n - (left - 1) = i /\ i \in 0 .. n /\ n - left \in 0 .. n
    BY <1>1
  <2>2. /\ a \in Nat /\ b \in Nat /\ b < L /\ b = a + (3 + len + s)
        /\ item.type \in 1 .. 12 /\ s \in Nat /\ len \in Nat
        /\ At(d, p + a) = item.type /\ beu16_dec(d, p + a + 1) = len
        /\ Holds(d, p + a + 3 + len, PayloadBytes[item])
    <3>1. b \in Nat /\ b <= off(n) /\ off(n) \in Nat
      BY <2>1, <1>1, <1>2, SMTT(30)
    <3>2. a \in Nat /\ L = off(n) + 1
      BY <2>1, <1>2
    <3>3. item.type \in 1 .. 12 /\ s \in Nat /\ len \in Nat /\ b = a + (3 + len + s)
      BY <2>1, <1>3
    <3>4. At(d, p + a) = item.type /\ beu16_dec(d, p + a + 1) = len /\ Holds(d, p + a + 3 + len, PayloadBytes[item])
      BY <2>1, <1>4
    <3>5. b < L
      <4> HIDE DEF b
      <4> QED BY <3>1, <3>2
    <3> QED BY <3>1, <3>2, <3>3, <3>4, <3>5
  <2>3. \A q \in 1 .. N : q >= L - b + 1 => r[q].compound[p][b] = L
    BY <1>7, <2>1
  <2>4. SizedAt(d, item)
    BY <2>1, SMTT(30) DEF n
  <2>5. \A q \in s + 2 .. N : r[q].payload[p + a + 3 + len][item.type] = s
    BY <2>2, <2>4 DEF SizedAt, r, N
  <2> HIDE DEF i, item, s, len, a, b
  <2>6. ASSUME NEW q \in 1 .. N, q >= L - a + 1 PROVE r[q].compound[p][a] = L
    <3>1. q - 1 \in s + 2 .. N /\ q - 1 \in 1 .. N /\ q - 1 >= L - b + 1
      <4>1. \A x, l, u, v, w, e, z \in Nat :
              x \in 1 .. z /\ x >= l - u + 1 /\ v = u + (3 + e + w) /\ v < l
                => x - 1 \in w + 2 .. z /\ x - 1 \in 1 .. z /\ x - 1 >= l - v + 1
        OBVIOUS
      <4>2. q \in Nat /\ q \in 1 .. N
        BY <1>1
      <4> QED BY <4>1, <4>2, <2>2, <2>6, <1>1
    <3> DEFINE rest == r[q - 1]
    <3>2. rest.payload[p + a + 3 + len][item.type] = s /\ rest.compound[p][b] = L
      BY <3>1, <2>3, <2>5
    <3>3. r[q].compound[p][a] = CompoundTurn(rest, d, p, a)
      <4>1. p \in Nat /\ a \in Nat
        BY <1>1, <2>2
      <4> QED BY <4>1, <1>5, Zenon
    <3> HIDE DEF rest
    <3>4. p + (a + 3 + len + s) <= Len(d) /\ b = a + 3 + len + s
      <4>1. \A u, w, e \in Nat : u + (3 + e + w) = u + 3 + e + w
        OBVIOUS
      <4>2. b = a + 3 + len + s
        BY <4>1, <2>2
      <4>3. p + b <= Len(d)
        BY <2>2, <1>1, SMTT(30)
      <4> QED BY <4>2, <4>3
    <3>5. CompoundTurn(rest, d, p, a) = rest.compound[p][a + 3 + len + s]
      <4> DEFINE type == item.type
             payload == p + a + 3 + len
      <4>1. type \in 1 .. 12 /\ At(d, p + a) = type /\ payload = p + a + 3 + len /\ rest.payload[payload][type] = s
        BY <2>2, <3>2
      <4> HIDE DEF type, payload
      <4>2. p \in Nat /\ a \in Nat /\ len \in Nat /\ s \in Nat /\ beu16_dec(d, p + a + 1) = len
        BY <1>1, <2>2
      <4>3. b = a + 3 + len + s /\ p + b <= Len(d)
        BY <3>4
      <4>4. available(d, p) = Len(d) - p
        <5>1. p <= Len(d)
          BY <1>1
        <5> QED BY <5>1, <1>1, SmallWords
      <4>5. Word(a + 3) = a + 3 /\ Word(a + 3 + len) = a + 3 + len /\ Word(b) = b
        <5>1. a + 3 \in Nat /\ a + 3 + len \in Nat /\ b \in Nat
          BY <4>2, <2>2
        <5>2. a + 3 <= b /\ a + 3 + len <= b /\ b <= Len(d)
          BY <4>2, <4>3, <1>1, <2>2
        <5>3. a + 3 <= Len(d) /\ a + 3 + len <= Len(d)
          BY <5>1, <5>2, <1>1
        <5> QED BY <5>1, <5>2, <5>3, SmallWords
      <4>6. available(d, p) >= a + 3 /\ ~(available(d, p) < a + 3 + len)
        <5> DEFINE D == Len(d)
        <5>1. D \in Nat /\ b \in Nat /\ p + b <= D
          BY <4>3, <1>1, <2>2
        <5> HIDE DEF D
        <5>2. a + 3 <= b /\ a + 3 + len <= b
          BY <4>2, <4>3
        <5>3. b <= D - p
          BY <4>2, <5>1
        <5>4. available(d, p) = D - p
          BY <4>4 DEF D
        <5> QED BY <5>1, <5>2, <5>3, <5>4, <4>2
      <4>7. type_valid(At(d, p + a))
        BY <4>1, ZeroSizeType
      <4> DEFINE next == Passed(a + 3 + len, s)
      <4>8. next = b /\ next # NEVER
        <5>1. s < SizeLimit /\ b < SizeLimit /\ b \in Nat /\ a + 3 + len \in Nat
          BY <4>2, <4>3, <1>1, <2>2, NbtAssumption
        <5>2. b # NEVER
          BY <5>1, PassedFacts
        <5>3. next = Word(a + 3 + len + s)
          BY <5>1, <4>2, PassedFacts
        <5> QED BY <5>2, <5>3, <4>3, <4>5
      <4>9. CompoundTurn(rest, d, p, a) = rest.compound[p][next]
        <5> DEFINE u == Passed(a + 3 + beu16_dec(d, p + a + 1), rest.payload[p + a + 3 + beu16_dec(d, p + a + 1)][At(d, p + a)])
        <5>1. u = next
          BY <4>1, <4>2
        <5> HIDE DEF u, next
        <5> QED BY <4>1, <4>2, <4>5, <4>6, <4>7, <4>8, <5>1 DEF CompoundTurn, u
      <4> QED BY <4>3, <4>8, <4>9
    <3> QED BY <3>2, <3>3, <3>4, <3>5
  <2> QED BY <2>6 DEF a
<1> HIDE DEF S
<1>8. n \in S
  <2>1. \A left \in 0 .. n : left \in S
    BY <1>1, <1>6, <1>7, BoundedInduction
  <2> QED BY <2>1, <1>1
<1>9. n - n = 0 /\ L - 0 = L
  BY <1>1
<1>10. \A q \in 1 .. N : q >= L + 1 => r[q].compound[p][0] = L
  BY <1>8, <1>9, <1>2 DEF S
<1>11. r[m].compound[p][0] = L
  BY <1>10 DEF N, L
<1> QED BY <1>11 DEF r, L

\* A call for a payload, when those for the items return their sizes.
LEMMA SizeStep ==
    ASSUME NEW d \in Text, Len(d) < SizeLimit, NEW k \in 0 .. Top, NEW node \in Levels[k], node.type \in 1 .. 12,
           node.type = 10 => \A i \in 1 .. Len(node.items) : SizedAt(d, node.items[i]),
           node.type = 9 /\ node.elem # 0 => \A i \in 1 .. Len(node.items) : SizedAt(d, node.items[i])
    PROVE  SizedAt(d, node)
<1> SUFFICES ASSUME NEW p, Holds(d, p, PayloadBytes[node]), NEW m \in Size(node) + 2 .. Depths(d)
             PROVE  SizesByDepth(d)[m].payload[p][node.type] = Size(node)
  BY DEF SizedAt
<1> DEFINE L == Size(node)
           P == PayloadBytes[node]
           type == node.type
           r == SizesByDepth(d)
           raw == node.raw
<1>1. L \in Nat /\ p \in Nat /\ p + L <= Len(d) /\ Len(d) \in Nat /\ Depths(d) \in Nat /\ Len(P) = L
  BY PayloadText, TextFacts, SizesByDepthDef DEF Holds, Size
<1>2. m \in 1 .. Depths(d) /\ m - 1 \in 1 .. Depths(d) /\ m - 1 >= L + 1
  BY <1>1
<1>3. r[m].payload[p][type] = SizeCall(r[m - 1], d, p, type)
  <2>0. \A x \in 1 .. 12 : x \in Nat
    OBVIOUS
  <2>1. m \in 1 .. Depths(d) /\ p \in Nat /\ type \in Nat
    BY <1>1, <1>2, <2>0, Zenon
  <2>2. \A a, b \in Nat : r[m].payload[a][b] = SizeCall(r[m - 1], d, a, b)
    BY <2>1, SizesByDepthStep
  <2> HIDE DEF r
  <2> QED BY <2>1, <2>2, Zenon
<1>4. /\ NBT.ZERO = 0 /\ NBT.STRING = 8 /\ NBT.LIST = 9 /\ NBT.COMPOUND = 10
      /\ Fixed = 1 .. 6 /\ Arrays = {7, 11, 12}
  BY TypeCodes
<1>5. available(d, p) = Len(d) - p /\ available(d, p) >= L
  BY <1>1, SmallWords
<1>6. Shape(node, P)
  BY Shapes
<1>7. raw \in Text /\ Len(raw) \in Nat /\ node.elem \in 0 .. 12 /\ P \in Text
  BY NodeFacts, TextFacts, PayloadText
<1>8. SUFFICES SizeCall(r[m - 1], d, p, type) = L
  BY <1>3
<1>9. CASE type \in 1 .. 6
  <2>1. L = type_zero_size(type)
    BY <1>6, <1>9, <1>1 DEF Shape, FixedShape
  <2> QED BY <2>1, <1>4, <1>9, SMTT(30) DEF SizeCall
<1>10. CASE type \in Arrays
  <2>1. PICK length \in 0 .. MaxLength : Len(raw) = length * ElemSize(type) /\ IsJoin(P, bei32_enc(length), raw)
    BY <1>6, <1>10 DEF Shape, ArrayShape
  <2>2. bei32_enc(length) \in Text /\ Len(bei32_enc(length)) = 4
    BY Enc32
  <2>3. L = 4 + Len(raw)
    BY <1>1, <1>7, <2>1, <2>2, JoinLength, ZenonT(30)
  <2>4. Holds(d, p, bei32_enc(length))
    BY <1>7, <2>1, <2>2, HoldsJoin
  <2>5. bei32_dec(d, p) = length
    BY <2>4, Dec32
  <2>6. Word(bei32_dec(d, p) * ElemSize(type)) = Len(raw)
    <3>1. Len(raw) <= Len(d)
      <4> HIDE DEF L, raw
      <4> QED BY <2>3, <1>1, <1>7
    <3> QED BY <3>1, <2>1, <2>5, <1>7, SmallWords
  <2>7. Word(4 + Len(raw)) = L
    <3>1. 4 + Len(raw) \in Nat /\ 4 + Len(raw) <= Len(d) /\ 4 + Len(raw) = L
      <4> HIDE DEF L, raw
      <4> QED BY <2>3, <1>1, <1>7
    <3> QED BY <3>1, SmallWords
  <2>8. ~(available(d, p) < 4) /\ ~(available(d, p) < L)
    <3> HIDE DEF L, raw
    <3> QED BY <1>1, <1>5, <1>7, <2>3
  <2>9. ArraySize(d, p, type) = L
    BY <2>6, <2>7, <2>8 DEF ArraySize
  <2> QED BY <2>9, <1>4, <1>10 DEF SizeCall
<1>11. CASE type = 8
  <2>1. Len(raw) \in 0 .. Pairs - 1 /\ IsJoin(P, beu16_enc(Len(raw)), raw)
    BY <1>6, <1>11 DEF Shape, StringShape
  <2>2. beu16_enc(Len(raw)) \in Text /\ Len(beu16_enc(Len(raw))) = 2
    BY <2>1, Enc16
  <2>3. L = 2 + Len(raw)
    BY <1>1, <1>7, <2>1, <2>2, JoinLength
  <2>4. Holds(d, p, beu16_enc(Len(raw)))
    BY <1>7, <2>1, <2>2, HoldsJoin
  <2>5. beu16_dec(d, p) = Len(raw)
    BY <2>1, <2>4, Dec16
  <2>6. ~(available(d, p) < 2) /\ ~(available(d, p) < 2 + Len(raw))
    <3> HIDE DEF L, raw
    <3> QED BY <1>1, <1>5, <1>7, <2>3
  <2>7. StringSize(d, p) = L
    BY <2>3, <2>5, <2>6 DEF StringSize
  <2> QED BY <2>7, <1>4, <1>11 DEF SizeCall
<1>12. CASE type = 9
  <2> DEFINE n == Len(node.items)
  <2>1. n \in 0 .. MaxLength /\ L = 5 + PartsEnd(node, n) /\ PartsEnd(node, n) \in Nat
        /\ (node.elem = 0 => L = 5 + n * type_zero_size(0))
    <3>1. /\ n \in 0 .. MaxLength /\ L = 5 + PartsEnd(node, n)
          /\ (node.elem \in 0 .. 6 => L = 5 + n * type_zero_size(node.elem))
          /\ \A i \in 0 .. n : PartsEnd(node, i) \in Nat
      BY <1>12, ListLayout
    <3>2. n \in 0 .. n
      BY <3>1, LengthBound
    <3> QED BY <3>1, <3>2
  <2>2. At(d, p) = node.elem /\ bei32_dec(d, p + 1) = n
    BY <1>12, ListAt
  <2>3. ~(available(d, p) < 5)
    <3> HIDE DEF L
    <3> QED BY <1>1, <1>5, <2>1
  <2>4. Word(n) = n
    <3>1. n \in Nat /\ n < SizeLimit
      BY <2>1, LengthBound, NbtAssumption, PairsType
    <3> QED BY <3>1, WordSmall
  <2>7. ~Endless(d, p)
    <3>1. n \in Nat
      BY <2>1, LengthBound
    <3> HIDE DEF n
    <3> QED BY <3>1, <2>2 DEF Endless
  <2>5. CASE node.elem = 0
    <3>1. L = 5
      <4>1. n \in Nat /\ type_zero_size(0) = 0
        <5>1. n \in Nat
          BY <2>1, LengthBound
        <5>2. type_zero_size(0) = 0
          <6>1. 0 \notin 1 .. 12
            OBVIOUS
          <6> QED BY <6>1, ZeroSizes
        <5> QED BY <5>1, <5>2
      <4> HIDE DEF L, n
      <4> QED BY <4>1, <2>1, <2>5
    <3> HIDE DEF L, r
    <3> QED BY <3>1, <1>4, <1>12, <2>2, <2>3, <2>5 DEF SizeCall
  <2>6. CASE node.elem # 0
    <3>1. node.elem \in 1 .. 12
      BY <2>6, <1>7
    <3>2. m - 1 >= Size(node) - 2
      BY <1>1, <1>2
    <3>3. SizesByDepth(d)[m - 1].list[p][Len(node.items)][5] = Size(node)
      BY <1>2, <1>12, <2>6, <3>1, <3>2, ListSized
    <3>4. type_valid(node.elem)
      BY <3>1, ZeroSizeType
    <3>5. r[m - 1].list[p][n][5] = L
      BY <3>3
    <3> HIDE DEF L, r, n
    <3> QED BY <3>4, <3>5, <1>4, <1>12, <2>2, <2>3, <2>4, <2>6, <2>7 DEF SizeCall
  <2> QED BY <2>5, <2>6
<1>13. CASE type = 10
  <2>1. SizesByDepth(d)[m - 1].compound[p][0] = Size(node)
    BY <1>2, <1>13, CompoundSized
  <2>2. r[m - 1].compound[p][0] = L
    BY <2>1
  <2> HIDE DEF L, r
  <2> QED BY <2>2, <1>4, <1>13 DEF SizeCall
<1>14. type \in 1 .. 6 \/ type \in Arrays \/ type = 8 \/ type = 9 \/ type = 10
  BY <1>4
<1> QED BY <1>9, <1>10, <1>11, <1>12, <1>13, <1>14

LEMMA Sized ==
    ASSUME NEW d \in Text, Len(d) < SizeLimit
    PROVE  \A k \in 0 .. Top : \A node \in Levels[k] : node.type \in 1 .. 12 => SizedAt(d, node)
<1> DEFINE S == {k \in 0 .. Top : \A node \in Levels[k] : node.type \in 1 .. 12 => SizedAt(d, node)}
<1>1. ASSUME NEW k \in 0 .. Top, k > 0 => k - 1 \in S, NEW node \in Levels[k], node.type \in 1 .. 12
      PROVE  SizedAt(d, node)
  <2>1. ASSUME node.type = 10, NEW i \in 1 .. Len(node.items) PROVE SizedAt(d, node.items[i])
    <3>1. k > 0 /\ node.items[i] \in Levels[k - 1] /\ node.items[i].type \in 1 .. 12
      BY <2>1, CompoundLayout
    <3> QED BY <1>1, <3>1
  <2>2. ASSUME node.type = 9, node.elem # 0, NEW i \in 1 .. Len(node.items) PROVE SizedAt(d, node.items[i])
    <3>1. k > 0 /\ node.items[i] \in Levels[k - 1] /\ node.items[i].type = node.elem
      BY <2>2, ListLayout
    <3>2. node.elem \in 1 .. 12
      <4>1. node.elem \in 0 .. 12
        BY NodeFacts
      <4> QED BY <4>1, <2>2
    <3> QED BY <1>1, <3>1, <3>2
  <2> QED BY <1>1, <2>1, <2>2, SizeStep
<1>2. 0 \in S
  BY <1>1, TopType
<1>3. ASSUME NEW k \in 1 .. Top, k - 1 \in S PROVE k \in S
  <2>1. k \in 0 .. Top
    OBVIOUS
  <2> QED BY <1>1, <1>3, <2>1
<1> HIDE DEF S
<1>4. \A k \in 0 .. Top : k \in S
  BY <1>2, <1>3, TopType, BoundedInduction
<1> QED BY <1>4 DEF S

\* The size of a payload is what the code takes it for.
LEMMA PayloadSized ==
    ASSUME NEW d \in Text, Len(d) < SizeLimit, NEW k \in 0 .. Top, NEW node \in Levels[k], node.type \in 1 .. 12,
           NEW p, Holds(d, p, PayloadBytes[node])
    PROVE  payload_size(d, p, node.type) = Size(node)
<1>1. SizedAt(d, node)
  BY Sized
<1>2. Size(node) \in Nat /\ p \in Nat /\ p + Size(node) <= Len(d) /\ Len(d) \in Nat
  BY PayloadText, TextFacts DEF Holds, Size
<1>3. Depths(d) \in Nat /\ Depths(d) = 2 * Len(d) + 8
  BY SizesByDepthDef
<1>4. Depths(d) \in Size(node) + 2 .. Depths(d)
  BY <1>2, <1>3
<1> QED BY <1>1, <1>4 DEF SizedAt, payload_size

--------------------------------------------------------------------------------
(* Iterations                                                              *)

LEMMA WalksDef ==
    ASSUME NEW d \in Text, NEW p, NEW type
    PROVE  /\ Calls(d) \in Nat /\ Calls(d) = Pairs * Pairs + Len(d) + 1
           /\ \A k \in 0 .. Calls(d) : \A next \in Nexts :
                WalksFrom(d, p, type)[k][next] =
                  <<next.iter>> \o (IF next.more /\ k > 0
                                    THEN WalksFrom(d, p, type)[k - 1][iter_next(d, p, type, next.iter)] ELSE <<>>)
<1> DEFINE N == Calls(d)
           B(f, k) == [next \in Nexts |->
             <<next.iter>> \o (IF next.more /\ k > 0 THEN f[k - 1][iter_next(d, p, type, next.iter)] ELSE <<>>)]
           P(f) == f = [k \in 0 .. N |-> B(f, k)]
           Q(f, n) == f = [k \in 0 .. n |-> f[k]] /\ \A k \in 0 .. n : f[k] = B(f, k)
           S == {n \in 0 .. N : \E f : Q(f, n)}
<1>0. N \in Nat /\ N = Pairs * Pairs + Len(d) + 1
  BY PairsType, TextFacts DEF Calls
<1> HIDE DEF N
<1>1. 0 \in S
  <2> DEFINE f == [k \in 0 .. 0 |-> [next \in Nexts |-> <<next.iter>> \o <<>>]]
  <2>1. f = [k \in 0 .. 0 |-> f[k]] /\ f[0] = [next \in Nexts |-> <<next.iter>> \o <<>>]
    OBVIOUS
  <2> HIDE DEF f
  <2>2. B(f, 0) = [next \in Nexts |-> <<next.iter>> \o <<>>]
    OBVIOUS
  <2>3. \A k \in 0 .. 0 : k = 0
    OBVIOUS
  <2>4. Q(f, 0)
    <3> HIDE DEF B
    <3> QED BY <2>1, <2>2, <2>3
  <2>5. 0 \in 0 .. N
    BY <1>0
  <2> HIDE DEF Q
  <2> QED BY <2>4, <2>5
<1>2. ASSUME NEW n \in 1 .. N, n - 1 \in S PROVE n \in S
  <2>1. PICK f : Q(f, n - 1)
    BY <1>2
  <2> DEFINE g == [k \in 0 .. n |-> IF k = n THEN B(f, n) ELSE f[k]]
  <2>2. g = [k \in 0 .. n |-> g[k]] /\ g[n] = B(f, n) /\ \A k \in 0 .. n - 1 : g[k] = f[k]
    <3> HIDE DEF B
    <3> QED BY <1>0
  <2> HIDE DEF g
  <2>3. ASSUME NEW k \in 0 .. n PROVE g[k] = B(g, k)
    <3>1. CASE k = 0
      <4>1. g[k] = B(f, k)
        <5> HIDE DEF B
        <5> QED BY <3>1, <2>1, <2>2
      <4>2. B(f, k) = B(g, k)
        BY <3>1
      <4> QED BY <4>1, <4>2
    <3>2. CASE k # 0
      <4>1. g[k] = B(f, k)
        <5> HIDE DEF B
        <5>1. k = n \/ k \in 0 .. n - 1
          OBVIOUS
        <5> QED BY <5>1, <2>1, <2>2
      <4>2. f[k - 1] = g[k - 1]
        <5>1. k - 1 \in 0 .. n - 1
          BY <3>2
        <5> QED BY <5>1, <2>2
      <4>3. B(f, k) = B(g, k)
        BY <4>2
      <4> QED BY <4>1, <4>3
    <3> QED BY <3>1, <3>2
  <2>4. Q(g, n)
    <3> HIDE DEF B
    <3> QED BY <2>2, <2>3
  <2>5. n \in 0 .. N
    BY <1>0
  <2> HIDE DEF Q
  <2> QED BY <2>4, <2>5
<1>3. \E f : P(f)
  <2>1. \A n \in 0 .. N : n \in S
    <3> HIDE DEF S
    <3> QED BY <1>0, <1>1, <1>2, BoundedInduction
  <2>2. N \in S
    <3> HIDE DEF S
    <3> QED BY <2>1, <1>0
  <2>3. PICK f : Q(f, N)
    <3> HIDE DEF Q
    <3> QED BY <2>2
  <2>4. P(f)
    <3> HIDE DEF B
    <3> QED BY <2>3
  <2> HIDE DEF P
  <2> QED BY <2>4
<1>4. P(CHOOSE f : P(f))
  <2> HIDE DEF P
  <2> QED BY <1>3, Zenon
<1>5. WalksFrom(d, p, type) = CHOOSE f : P(f)
  BY DEF WalksFrom, N
<1> DEFINE w == WalksFrom(d, p, type)
<1>6. P(w)
  <2> HIDE DEF P
  <2> QED BY <1>4, <1>5
<1> HIDE DEF w
<1>7. \A k \in 0 .. N : w[k] = B(w, k)
  <2> HIDE DEF B
  <2> QED BY <1>6
<1>8. ASSUME NEW k \in 0 .. N, NEW next \in Nexts
      PROVE  w[k][next] = <<next.iter>> \o (IF next.more /\ k > 0 THEN w[k - 1][iter_next(d, p, type, next.iter)] ELSE <<>>)
  <2>1. w[k] = B(w, k)
    BY <1>7
  <2> QED BY <2>1, Zenon
<1> QED BY <1>0, <1>8 DEF w, N

\* The iterators over a compound: at its tags, and at its end.
ItemAt(p, node, i) ==
  [tag |-> p + TagsEnd(node, i - 1),
   payload |-> p + TagsEnd(node, i - 1) + (3 + Len(node.items[i].name)),
   size |-> 3 + Len(node.items[i].name) + Size(node.items[i]), type |-> node.items[i].type, index |-> i - 1]
EndAt(p, node) == [tag |-> p + Size(node), payload |-> NULL, size |-> 0, type |-> 0, index |-> Len(node.items)]
NextAt(p, node, i) ==
  IF i < Len(node.items) THEN [more |-> TRUE, iter |-> ItemAt(p, node, i + 1)] ELSE [more |-> FALSE, iter |-> EndAt(p, node)]

\* Records that differ from an iterator in some fields.
LEMMA EndFields ==
    ASSUME NEW it \in Iters, NEW tag
    PROVE  iter_end(it, tag) =
             [more |-> FALSE, iter |-> [tag |-> tag, payload |-> NULL, size |-> 0, type |-> 0, index |-> it.index]]
<1> DEFINE a == [it EXCEPT !.tag = tag]
           b == [a EXCEPT !.payload = NULL]
           c == [b EXCEPT !.size = 0]
           e == [c EXCEPT !.type = NBT.ZERO]
<1>1. a = [tag |-> tag, payload |-> it.payload, size |-> it.size, type |-> it.type, index |-> it.index]
  BY DEF Iters
<1>2. [it EXCEPT !.tag = tag, !.payload = NULL, !.size = 0, !.type = NBT.ZERO] = e
  OBVIOUS
<1> HIDE DEF a
<1>3. b = [tag |-> tag, payload |-> NULL, size |-> it.size, type |-> it.type, index |-> it.index]
  BY <1>1
<1> HIDE DEF b
<1>4. c = [tag |-> tag, payload |-> NULL, size |-> 0, type |-> it.type, index |-> it.index]
  BY <1>3
<1> HIDE DEF c
<1>5. e = [tag |-> tag, payload |-> NULL, size |-> 0, type |-> NBT.ZERO, index |-> it.index]
  BY <1>4
<1> HIDE DEF e
<1>6. NBT.ZERO = 0
  BY TypeCodes
<1> QED BY <1>2, <1>5, <1>6 DEF iter_end

Found(it, payload, type) == [it EXCEPT !.payload = payload, !.type = type]
FoundNext(it, payload, size, type) ==
  [more |-> TRUE, iter |-> [tag |-> it.tag, payload |-> payload, size |-> size, type |-> type, index |-> it.index]]

LEMMA ItemFields ==
    ASSUME NEW it \in Iters, NEW payload, NEW type, NEW header, NEW size, size # 0, size # NEVER
    PROVE  iter_at(Found(it, payload, type), header, size) = FoundNext(it, payload, Word(header + size), type)
<1> DEFINE a == [it EXCEPT !.payload = payload]
           b == [a EXCEPT !.type = type]
           c == [b EXCEPT !.size = Word(header + size)]
<1>1. a = [tag |-> it.tag, payload |-> payload, size |-> it.size, type |-> it.type, index |-> it.index]
  BY DEF Iters
<1>2. Found(it, payload, type) = b
  BY DEF Found
<1> HIDE DEF a
<1>3. b = [tag |-> it.tag, payload |-> payload, size |-> it.size, type |-> type, index |-> it.index]
  BY <1>1
<1> HIDE DEF b
<1>4. c = [tag |-> it.tag, payload |-> payload, size |-> Word(header + size), type |-> type, index |-> it.index]
  BY <1>3
<1> HIDE DEF c
<1>5. c = [Found(it, payload, type) EXCEPT !.size = Word(header + size)]
  BY <1>2 DEF c
<1> QED BY <1>4, <1>5 DEF iter_at, FoundNext

LEMMA ItemType ==
    ASSUME NEW k \in 0 .. Top, NEW node \in Levels[k], node.type = 10, NEW p \in Nat
    PROVE  /\ \A i \in 1 .. Len(node.items) : ItemAt(p, node, i) \in Iters /\ ItemAt(p, node, i).payload # NULL
           /\ EndAt(p, node) \in Iters
           /\ \A i \in 0 .. Len(node.items) : NextAt(p, node, i) \in Nexts
<1> DEFINE n == Len(node.items)
<1>1. n \in Nat /\ Size(node) \in Nat
  BY NodeFacts, PayloadText
<1>2. ASSUME NEW i \in 1 .. n PROVE ItemAt(p, node, i) \in Iters /\ ItemAt(p, node, i).payload # NULL
  <2> DEFINE t == TagsEnd(node, i - 1)
             len == Len(node.items[i].name)
             s == Size(node.items[i])
  <2>1. t \in Nat
    <3>1. i - 1 \in 0 .. n
      BY <1>1
    <3> QED BY <3>1, CompoundLayout
  <2>2. len \in Nat /\ s \in Nat /\ node.items[i].type \in 1 .. 12
    BY CompoundLayout
  <2>3. ItemAt(p, node, i) = [tag |-> p + t, payload |-> p + t + (3 + len), size |-> 3 + len + s,
                              type |-> node.items[i].type, index |-> i - 1]
    BY DEF ItemAt
  <2> HIDE DEF t, len, s
  <2>4. p + t \in Nat /\ p + t + (3 + len) \in Nat /\ 3 + len + s \in Nat /\ i - 1 \in Nat /\ node.items[i].type \in Nat
    BY <2>1, <2>2, <1>1, SMTT(30)
  <2>5. p + t + (3 + len) # NULL
    BY <2>4, NbtAssumption
  <2> QED BY <2>3, <2>4, <2>5 DEF Iters
<1>3. EndAt(p, node) \in Iters
  <2>1. p + Size(node) \in Nat
    BY <1>1
  <2> QED BY <1>1, <2>1 DEF EndAt, Iters
<1>4. ASSUME NEW i \in 0 .. n PROVE NextAt(p, node, i) \in Nexts
  <2>1. CASE i < n
    <3>1. i + 1 \in 1 .. n
      BY <2>1, <1>1
    <3> QED BY <1>2, <2>1, <3>1 DEF NextAt, Nexts
  <2>2. CASE ~(i < n)
    BY <1>3, <2>2 DEF NextAt, Nexts
  <2> QED BY <2>1, <2>2
<1> QED BY <1>2, <1>3, <1>4

\* The code finds a tag behind the first j, or the end.
LEMMA IterTagAt ==
    ASSUME NEW d \in Text, Len(d) < SizeLimit, NEW k \in 0 .. Top, NEW node \in Levels[k], node.type = 10,
           NEW p, Holds(d, p, PayloadBytes[node]), NEW j \in 0 .. Len(node.items),
           NEW it \in Iters, it.tag = p + TagsEnd(node, j), it.index = j
    PROVE  iter_tag(d, it, tag_payload(d, it.tag)) = NextAt(p, node, j)
<1> DEFINE n == Len(node.items)
           tag == it.tag
<1>1. /\ n \in Nat /\ p \in Nat /\ p + Size(node) <= Len(d) /\ Len(d) \in Nat
      /\ Size(node) = TagsEnd(node, n) + 1 /\ TagsEnd(node, j) \in Nat /\ TagsEnd(node, j) <= TagsEnd(node, n)
      /\ TagsEnd(node, n) \in Nat
  <2>1. n \in Nat
    BY CompoundLayout
  <2>2. n \in 0 .. n
    BY <2>1
  <2> QED BY <2>1, <2>2, CompoundLayout, CompoundAt, TextFacts
<1>2. tag \in Nat /\ tag + 1 <= Len(d)
  BY <1>1
<1>3. available(d, tag) = Len(d) - tag
  BY <1>1, <1>2, SmallWords
<1>4. ~(available(d, tag) < 1)
  <2> HIDE DEF tag
  <2> QED BY <1>1, <1>2, <1>3
<1>5. CASE j = n
  <2>1. At(d, tag) = 0
    BY <1>5, CompoundAt
  <2>2. iter_tag(d, it, tag_payload(d, tag)) = iter_end(it, tag + 1)
    BY <1>4, <2>1, TypeCodes DEF iter_tag
  <2>3. tag + 1 = p + Size(node)
    BY <1>1, <1>5
  <2>4. iter_end(it, tag + 1) = [more |-> FALSE, iter |-> EndAt(p, node)]
    <3> DEFINE q == tag + 1
    <3>1. q = p + Size(node)
      BY <2>3
    <3> HIDE DEF q
    <3>2. iter_end(it, q) =
            [more |-> FALSE, iter |-> [tag |-> q, payload |-> NULL, size |-> 0, type |-> 0, index |-> it.index]]
      BY EndFields
    <3>3. EndAt(p, node) = [tag |-> q, payload |-> NULL, size |-> 0, type |-> 0, index |-> it.index]
      BY <3>1, <1>5 DEF EndAt
    <3> QED BY <3>2, <3>3 DEF q
  <2> QED BY <2>2, <2>4, <1>5 DEF NextAt
<1>6. CASE j < n
  <2> DEFINE i == j + 1
             item == node.items[i]
             len == Len(item.name)
             s == Size(item)
             payload == tag + (3 + len)
  <2>1. i \in 1 .. n /\ i - 1 = j
    BY <1>1, <1>6
  <2>2. /\ k > 0 /\ item \in Levels[k - 1] /\ item.type \in 1 .. 12 /\ len \in Nat /\ s \in Nat /\ s >= 1
        /\ Holds(d, tag, TagBytes(item))
    <3>1. /\ k > 0 /\ item \in Levels[k - 1] /\ item.type \in 1 .. 12 /\ len \in Nat /\ s \in Nat /\ s >= 1
      BY <2>1, CompoundLayout
    <3>2. Holds(d, tag, TagBytes(item))
      BY <2>1, CompoundAt
    <3> QED BY <3>1, <3>2
  <2>3. k - 1 \in 0 .. Top
    BY <2>2, TopType
  <2> HIDE DEF i, item, tag
  <2>4. /\ tag + (3 + len + s) <= Len(d) /\ At(d, tag) = item.type /\ beu16_dec(d, tag + 1) = len
        /\ Holds(d, tag + (3 + len), PayloadBytes[item])
    BY <2>2, <2>3, TagAt
  <2>5. payload_size(d, payload, item.type) = s
    BY <2>2, <2>3, <2>4, PayloadSized
  <2> HIDE DEF len, s
  <2>6. tag_payload(d, tag) = payload
    <3>1. available(d, tag) >= 3 /\ available(d, tag) >= 3 + len /\ tag + 3 + len = payload
      BY <1>1, <1>2, <1>3, <2>2, <2>4, SMTT(30)
    <3>2. type_valid(At(d, tag))
      BY <2>2, <2>4, ZeroSizeType
    <3>3. HasHeader(d, tag)
      BY <3>1, <3>2, <2>4 DEF HasHeader
    <3> QED BY <3>1, <3>3, <2>4 DEF tag_payload
  <2>7. payload \in Nat /\ payload # NULL /\ payload - tag = 3 + len
    <3>1. payload \in Nat /\ payload - tag = 3 + len
      BY <1>2, <2>2
    <3> QED BY <3>1, NbtAssumption
  <2>8. Word(3 + len + s) = 3 + len + s
    <3>1. 3 + len + s \in Nat /\ 3 + len + s <= Len(d)
      BY <1>1, <1>2, <2>2, <2>4
    <3> QED BY <3>1, SmallWords
  <2> HIDE DEF payload
  <2>9. item.type # NBT.ZERO /\ s # 0 /\ s # NEVER
    <3>1. item.type # NBT.ZERO /\ s # 0
      BY <2>2, TypeCodes, SMTT(30)
    <3>2. s < SizeLimit
      BY <1>1, <1>2, <2>2, <2>4, NbtAssumption
    <3> QED BY <3>1, <3>2, <2>2, PassedFacts
  <2>10. iter_tag(d, it, payload) = iter_at(Found(it, payload, item.type), 3 + len, s)
    BY <1>4, <2>4, <2>5, <2>7, <2>9 DEF iter_tag, tag, Found
  <2> DEFINE header == 3 + len
             size == Word(header + s)
  <2>11. size = 3 + len + s
    BY <2>8
  <2>12. ItemAt(p, node, i) = [tag |-> tag, payload |-> payload, size |-> size, type |-> item.type, index |-> j]
    BY <2>1, <2>11 DEF ItemAt, tag, payload, item, len, s
  <2>13. iter_at(Found(it, payload, item.type), header, s) = FoundNext(it, payload, size, item.type)
    <3> HIDE DEF header
    <3> QED BY <2>9, ItemFields
  <2>14. FoundNext(it, payload, size, item.type) = [more |-> TRUE, iter |-> ItemAt(p, node, i)]
    <3> HIDE DEF size
    <3> QED BY <2>12 DEF tag, FoundNext
  <2>15. iter_tag(d, it, payload) = [more |-> TRUE, iter |-> ItemAt(p, node, i)]
    BY <2>10, <2>13, <2>14
  <2> QED BY <1>6, <2>6, <2>15 DEF NextAt, i, tag
<1> QED BY <1>1, <1>5, <1>6

Moved(iter, tag, index) == [iter EXCEPT !.tag = tag, !.index = index]
IsMoved(it, tag, index) == it \in Iters /\ it.tag = tag /\ it.index = index

LEMMA MovedFields ==
    ASSUME NEW iter \in Iters, NEW tag \in Nat, NEW index \in Nat
    PROVE  IsMoved(Moved(iter, tag, index), tag, index)
<1> DEFINE a == [iter EXCEPT !.tag = tag]
           b == [a EXCEPT !.index = index]
<1>1. a = [tag |-> tag, payload |-> iter.payload, size |-> iter.size, type |-> iter.type, index |-> iter.index]
  BY DEF Iters
<1>2. Moved(iter, tag, index) = b
  BY DEF Moved
<1> HIDE DEF a
<1>3. b = [tag |-> tag, payload |-> iter.payload, size |-> iter.size, type |-> iter.type, index |-> index]
  BY <1>1
<1>4. iter.payload \in Nat \cup {NULL} /\ iter.size \in Nat /\ iter.type \in Nat
  BY DEF Iters
<1> HIDE DEF b
<1>5. b \in Iters /\ b.tag = tag /\ b.index = index
  BY <1>3, <1>4 DEF Iters
<1> QED BY <1>2, <1>5 DEF IsMoved

LEMMA IterZero == ITER_ZERO \in Iters /\ ITER_ZERO.payload = NULL
<1>1. NBT.ZERO \in Nat
  BY TypeCodes
<1> QED BY <1>1 DEF ITER_ZERO, Iters

\* The iterations of a compound, call by call.
LEMMA NextInCompound ==
    ASSUME NEW d \in Text, Len(d) < SizeLimit, NEW k \in 0 .. Top, NEW node \in Levels[k], node.type = 10,
           NEW p, Holds(d, p, PayloadBytes[node])
    PROVE  /\ iter_next(d, p, 10, ITER_ZERO) = NextAt(p, node, 0)
           /\ \A j \in 1 .. Len(node.items) : iter_next(d, p, 10, ItemAt(p, node, j)) = NextAt(p, node, j)
<1> DEFINE n == Len(node.items)
<1>1. n \in Nat /\ p \in Nat /\ TagsEnd(node, 0) = 0 /\ \A i \in 0 .. n : TagsEnd(node, i) \in Nat
  BY CompoundLayout, CompoundAt
<1>2. ASSUME NEW iter \in Iters, NEW j \in 0 .. n,
             iter.payload = NULL => j = 0,
             iter.payload # NULL => iter.tag + iter.size = p + TagsEnd(node, j) /\ iter.index + 1 = j
      PROVE  iter_compound(d, p, iter) = NextAt(p, node, j)
  <2> DEFINE tag == IF iter.payload = NULL THEN p ELSE iter.tag + iter.size
             index == IF iter.payload = NULL THEN 0 ELSE iter.index + 1
             it == Moved(iter, tag, index)
  <2>1. tag = p + TagsEnd(node, j) /\ index = j
    <3>1. p + 0 = p
      BY <1>1
    <3> QED BY <1>1, <1>2, <3>1
  <2>2. tag \in Nat /\ index \in Nat
    <3>1. TagsEnd(node, j) \in Nat
      BY <1>1
    <3> QED BY <1>1, <2>1, <3>1
  <2>3. iter_compound(d, p, iter) = iter_tag(d, it, tag_payload(d, tag))
    BY DEF iter_compound, Moved
  <2> HIDE DEF tag, index
  <2> HIDE DEF it
  <2>4. it \in Iters /\ it.tag = tag /\ it.index = index
    <3>1. IsMoved(Moved(iter, tag, index), tag, index)
      BY <2>2, MovedFields
    <3> QED BY <3>1 DEF it, IsMoved
  <2>5. it.tag = p + TagsEnd(node, j) /\ it.index = j
    BY <2>1, <2>4
  <2>6. iter_tag(d, it, tag_payload(d, it.tag)) = NextAt(p, node, j)
    BY <2>4, <2>5, IterTagAt
  <2> QED BY <2>3, <2>4, <2>6
<1>3. \A iter : iter_next(d, p, 10, iter) = iter_compound(d, p, iter)
  BY TypeCodes DEF iter_next
<1>4. iter_compound(d, p, ITER_ZERO) = NextAt(p, node, 0)
  <2>1. 0 \in 0 .. n
    BY <1>1
  <2> QED BY <1>2, <2>1, IterZero
<1>5. ASSUME NEW j \in 1 .. n PROVE iter_compound(d, p, ItemAt(p, node, j)) = NextAt(p, node, j)
  <2> DEFINE iter == ItemAt(p, node, j)
  <2>1. iter \in Iters /\ iter.payload # NULL
    BY <1>1, ItemType
  <2>2. iter.tag = p + TagsEnd(node, j - 1) /\ iter.size = 3 + Len(node.items[j].name) + Size(node.items[j]) /\ iter.index = j - 1
    BY DEF ItemAt
  <2>3. /\ Len(node.items[j].name) \in Nat /\ Size(node.items[j]) \in Nat
        /\ TagsEnd(node, j) = TagsEnd(node, j - 1) + (3 + Len(node.items[j].name) + Size(node.items[j]))
    BY CompoundLayout
  <2>4. TagsEnd(node, j - 1) \in Nat
    <3>1. j - 1 \in 0 .. n
      BY <1>1
    <3> QED BY <3>1, <1>1
  <2> HIDE DEF iter
  <2>5. iter.tag + iter.size = p + TagsEnd(node, j) /\ iter.index + 1 = j /\ j \in 0 .. n
    <3> DEFINE t == TagsEnd(node, j - 1)
               len == Len(node.items[j].name)
               s == Size(node.items[j])
    <3>1. t \in Nat /\ len \in Nat /\ s \in Nat /\ TagsEnd(node, j) = t + (3 + len + s)
      BY <2>3, <2>4
    <3>2. iter.tag = p + t /\ iter.size = 3 + len + s
      BY <2>2
    <3> HIDE DEF t, len, s
    <3>3. (p + t) + (3 + len + s) = p + (t + (3 + len + s))
      BY <3>1, <1>1
    <3> QED BY <3>1, <3>2, <3>3, <2>2, <1>1
  <2> QED BY <1>2, <2>1, <2>5 DEF iter
<1> QED BY <1>3, <1>4, <1>5

\* w are the iterators from tag j on.
RestOfWalk(w, p, node, j) ==
  /\ Len(w) = Len(node.items) - j + 1 /\ DOMAIN w = 1 .. Len(w) /\ w \in Seq(Iters)
  /\ \A i \in 1 .. Len(node.items) - j : w[i] = ItemAt(p, node, j + i)
  /\ w[Len(w)] = EndAt(p, node)

LEMMA ConsFacts ==
    ASSUME NEW V, NEW v \in V, NEW s \in Seq(V)
    PROVE  /\ <<v>> \o s \in Seq(V) /\ Len(<<v>> \o s) = Len(s) + 1 /\ DOMAIN (<<v>> \o s) = 1 .. Len(s) + 1
           /\ (<<v>> \o s)[1] = v
           /\ \A i \in 1 .. Len(s) : (<<v>> \o s)[i + 1] = s[i]
OBVIOUS

LEMMA CompoundWalk ==
    ASSUME NEW d \in Text, Len(d) < SizeLimit, NEW k \in 0 .. Top, NEW node \in Levels[k], node.type = 10,
           NEW p, Holds(d, p, PayloadBytes[node])
    PROVE  RestOfWalk(Walk(d, p, 10), p, node, 0)
<1> DEFINE n == Len(node.items)
           N == Calls(d)
           W == WalksFrom(d, p, 10)
<1>1. n \in Nat /\ N \in Nat /\ n <= N /\ p \in Nat
  <2> DEFINE S == {i \in 0 .. n : i <= TagsEnd(node, i)}
             e(i) == TagsEnd(node, i)
  <2>1. n \in Nat /\ p \in Nat /\ p + Size(node) <= Len(d) /\ Size(node) = e(n) + 1 /\ Len(d) \in Nat
    BY CompoundLayout, CompoundAt, TextFacts
  <2>2. 0 \in S
    BY <2>1, CompoundLayout
  <2>3. ASSUME NEW i \in 1 .. n, i - 1 \in S PROVE i \in S
    <3> DEFINE len == Len(node.items[i].name)
               s == Size(node.items[i])
    <3>1. len \in Nat /\ s \in Nat /\ e(i) = e(i - 1) + (3 + len + s)
      BY CompoundLayout
    <3>2. i - 1 \in 0 .. n
      BY <2>1
    <3>3. i - 1 <= e(i - 1) /\ e(i - 1) \in Nat
      BY <2>3, <3>2, CompoundLayout
    <3> HIDE DEF len, s, e
    <3>4. i <= e(i)
      BY <3>1, <3>3
    <3> QED BY <3>4 DEF e
  <2> HIDE DEF S
  <2>4. \A i \in 0 .. n : i \in S
    BY <2>1, <2>2, <2>3, BoundedInduction
  <2>5. n <= e(n) /\ e(n) \in Nat
    <3>1. n \in 0 .. n
      BY <2>1
    <3>2. n \in S
      BY <2>4, <3>1
    <3> QED BY <3>1, <3>2, CompoundLayout DEF S
  <2>6. N \in Nat /\ N >= Len(d)
    <3>1. N = Pairs * Pairs + Len(d) + 1 /\ N \in Nat
      BY WalksDef
    <3> HIDE DEF N
    <3> QED BY <3>1, PairsType, <2>1
  <2> HIDE DEF N, e, n
  <2> QED BY <2>1, <2>5, <2>6
<1>2. \A i \in 0 .. n : NextAt(p, node, i) \in Nexts
  BY <1>1, ItemType
<1>3. \A q \in 0 .. N : \A next \in Nexts :
        W[q][next] = <<next.iter>> \o (IF next.more /\ q > 0 THEN W[q - 1][iter_next(d, p, 10, next.iter)] ELSE <<>>)
  BY WalksDef
<1>4. /\ iter_next(d, p, 10, ITER_ZERO) = NextAt(p, node, 0)
      /\ \A j \in 1 .. n : iter_next(d, p, 10, ItemAt(p, node, j)) = NextAt(p, node, j)
  BY NextInCompound
<1>5. EndAt(p, node) \in Iters /\ \A i \in 1 .. n : ItemAt(p, node, i) \in Iters
  BY <1>1, ItemType
<1> HIDE DEF N, W
<1> DEFINE S == {left \in 0 .. n : \A q \in left .. N : RestOfWalk(W[q][NextAt(p, node, n - left)], p, node, n - left)}
<1>6. 0 \in S
  <2>1. ASSUME NEW q \in 0 .. N PROVE RestOfWalk(W[q][NextAt(p, node, n)], p, node, n)
    <3> DEFINE next == NextAt(p, node, n)
    <3>1. next = [more |-> FALSE, iter |-> EndAt(p, node)] /\ next \in Nexts
      <4>1. ~(n < n) /\ n \in 0 .. n
        BY <1>1
      <4>2. next \in Nexts
        BY <4>1, <1>2, Zenon
      <4> QED BY <4>1, <4>2 DEF NextAt
    <3> HIDE DEF next
    <3>2. next.more = FALSE /\ next.iter = EndAt(p, node)
      BY <3>1
    <3>3. W[q][next] = <<EndAt(p, node)>> \o <<>>
      BY <3>1, <3>2, <1>3
    <3> DEFINE w == W[q][next]
               v == EndAt(p, node)
    <3>4. w = <<v>> \o <<>>
      BY <3>3
    <3>5. v \in Iters /\ <<>> \in Seq(Iters) /\ Len(<<>>) = 0
      BY <1>5
    <3> HIDE DEF w, v
    <3>6. w \in Seq(Iters) /\ Len(w) = 1 /\ DOMAIN w = 1 .. 1 /\ w[1] = v
      BY <3>4, <3>5
    <3> QED BY <3>6, <1>1 DEF RestOfWalk, w, v, next
  <2>2. n - 0 = n
    BY <1>1
  <2> QED BY <2>1, <2>2, <1>1
<1>7. ASSUME NEW left \in 1 .. n, left - 1 \in S PROVE left \in S
  <2> DEFINE j == n - left
  <2>1. j \in 0 .. n /\ j < n /\ n - (left - 1) = j + 1 /\ j + 1 \in 1 .. n /\ left = n - j
    BY <1>1
  <2>2. \A q \in left - 1 .. N : RestOfWalk(W[q][NextAt(p, node, j + 1)], p, node, j + 1)
    BY <1>7, <2>1
  <2> HIDE DEF j
  <2>3. ASSUME NEW q \in left .. N PROVE RestOfWalk(W[q][NextAt(p, node, j)], p, node, j)
    <3> DEFINE next == NextAt(p, node, j)
               v == ItemAt(p, node, j + 1)
               u == W[q - 1][NextAt(p, node, j + 1)]
               w == W[q][next]
    <3>1. next \in Nexts /\ next.more = TRUE /\ next.iter = v
      BY <2>1, <1>2 DEF NextAt
    <3>2. q \in 0 .. N /\ q > 0 /\ q - 1 \in left - 1 .. N
      BY <1>1
    <3>3. RestOfWalk(u, p, node, j + 1)
      BY <2>2, <3>2
    <3>4. iter_next(d, p, 10, v) = NextAt(p, node, j + 1)
      BY <1>4, <2>1
    <3> HIDE DEF next, v
    <3>5. w = <<v>> \o u
      BY <3>1, <3>2, <3>4, <1>3
    <3>6. v \in Iters /\ u \in Seq(Iters) /\ Len(u) = n - (j + 1) + 1
      BY <1>5, <2>1, <3>3 DEF RestOfWalk, v
    <3> HIDE DEF u, w
    <3>7. /\ w \in Seq(Iters) /\ Len(w) = Len(u) + 1 /\ DOMAIN w = 1 .. Len(u) + 1 /\ w[1] = v
          /\ \A i \in 1 .. Len(u) : w[i + 1] = u[i]
      BY <3>5, <3>6, ConsFacts
    <3>8. Len(u) = n - j /\ Len(w) = n - j + 1 /\ Len(u) >= 1 /\ Len(u) \in Nat
      BY <3>6, <3>7, <2>1, <1>1
    <3>9. ASSUME NEW i \in 1 .. n - j PROVE w[i] = ItemAt(p, node, j + i)
      <4>1. CASE i = 1
        BY <4>1, <3>7 DEF v
      <4>2. CASE i # 1
        <5>1. i - 1 \in 1 .. Len(u) /\ (i - 1) + 1 = i /\ i - 1 \in 1 .. n - (j + 1) /\ (j + 1) + (i - 1) = j + i
          BY <4>2, <3>8, <2>1, <1>1
        <5>2. w[(i - 1) + 1] = u[i - 1]
          BY <5>1, <3>7
        <5>3. u[i - 1] = ItemAt(p, node, (j + 1) + (i - 1))
          BY <5>1, <3>3 DEF RestOfWalk
        <5> QED BY <5>1, <5>2, <5>3
      <4> QED BY <4>1, <4>2
    <3>10. w[Len(w)] = EndAt(p, node)
      <4>1. Len(u) \in 1 .. Len(u) /\ Len(w) = Len(u) + 1
        BY <3>7, <3>8
      <4>2. w[Len(u) + 1] = u[Len(u)]
        BY <4>1, <3>7
      <4> QED BY <4>1, <4>2, <3>3 DEF RestOfWalk
    <3> QED BY <3>7, <3>8, <3>9, <3>10 DEF RestOfWalk, w, next
  <2> QED BY <2>3 DEF j
<1> HIDE DEF S
<1>8. \A left \in 0 .. n : left \in S
  BY <1>1, <1>6, <1>7, BoundedInduction
<1>9. n \in S /\ n - n = 0 /\ N \in n .. N
  BY <1>1, <1>8
<1>10. RestOfWalk(W[N][NextAt(p, node, 0)], p, node, 0)
  BY <1>9 DEF S
<1>11. Walk(d, p, 10) = W[N][NextAt(p, node, 0)]
  BY <1>4 DEF Walk, W, N
<1> QED BY <1>10, <1>11

\* The header and the size of a tag.
LEMMA HeaderAt ==
    ASSUME NEW d \in Text, Len(d) < SizeLimit, NEW k \in 0 .. Top, NEW node \in Levels[k], node.type \in 1 .. 12,
           NEW t, Holds(d, t, TagBytes(node))
    PROVE  /\ t \in Nat /\ Len(node.name) \in Nat
           /\ tag_payload(d, t) = t + (3 + Len(node.name))
           /\ tag_name(d, t) = node.name
           /\ tag_size(d, t) = 3 + Len(node.name) + Size(node)
<1> DEFINE len == Len(node.name)
           s == Size(node)
           payload == t + (3 + len)
<1>1. /\ t \in Nat /\ t + (3 + len + s) <= Len(d) /\ At(d, t) = node.type /\ beu16_dec(d, t + 1) = len
      /\ Holds(d, t + 3, node.name) /\ Holds(d, payload, PayloadBytes[node])
  BY TagAt
<1>2. len \in Nat /\ s \in Nat /\ Len(d) \in Nat /\ node.name \in Text
  BY NodeFacts, PayloadText, TextFacts
<1>3. payload_size(d, payload, node.type) = s
  BY <1>1, PayloadSized
<1> HIDE DEF len, s
<1>4. t <= Len(d)
  BY <1>1, <1>2
<1>5. available(d, t) = Len(d) - t
  BY <1>1, <1>4, SmallWords
<1>6. available(d, t) >= 3 /\ available(d, t) >= 3 + len /\ t + 3 + len = payload
  BY <1>1, <1>2, <1>5
<1>7. HasHeader(d, t)
  <2>1. type_valid(At(d, t))
    BY <1>1, ZeroSizeType
  <2> QED BY <1>1, <1>6, <2>1 DEF HasHeader
<1> HIDE DEF payload
<1>8. tag_payload(d, t) = payload
  BY <1>1, <1>6, <1>7 DEF tag_payload
<1>9. tag_name(d, t) = node.name
  <2>1. SubSeq(d, (t + 3) + 1, (t + 3) + len) = node.name
    BY <1>1, <1>2, HoldsSub DEF len
  <2>2. (t + 3) + 1 = t + 4 /\ (t + 3) + len = t + 3 + len
    BY <1>1, <1>2
  <2>3. SubSeq(d, t + 4, t + 3 + len) = node.name
    BY <2>1, <2>2
  <2> QED BY <1>1, <1>7, <2>3 DEF tag_name
<1>10. tag_size(d, t) = 3 + len + s
  <2>1. Word(3 + len + s) = 3 + len + s
    <3>1. 3 + len + s \in Nat /\ 3 + len + s <= Len(d)
      BY <1>1, <1>2
    <3> QED BY <3>1, SmallWords
  <2>2. Passed(3 + len, s) = 3 + len + s
    <3>1. s < SizeLimit /\ 3 + len \in Nat
      BY <1>1, <1>2, NbtAssumption
    <3> QED BY <3>1, <2>1, <1>2, PassedFacts
  <2> QED BY <1>1, <1>3, <1>7, <1>8, <2>2 DEF tag_size
<1> QED BY <1>1, <1>2, <1>8, <1>9, <1>10 DEF len, s, payload

\* A name is the name of one tag.
LEMMA NamedOne ==
    ASSUME NEW k \in 0 .. Top, NEW node \in Levels[k], node.type = 10, NEW name
    PROVE  /\ Named(node, name) = {i \in 1 .. Len(node.items) : node.items[i].name = name}
           /\ \A i, j \in Named(node, name) : i = j
<1>1. DOMAIN node.items = 1 .. Len(node.items) /\ WellFormed(node)
  BY NodeFacts
<1>2. node.type = NBT.COMPOUND
  BY TypeCodes
<1>3. Named(node, name) = {i \in 1 .. Len(node.items) : node.items[i].name = name}
  BY <1>1, <1>2 DEF Named
<1>4. \A i, j \in DOMAIN node.items : node.items[i].name = node.items[j].name => i = j
  BY <1>1, <1>2, Zenon DEF WellFormed
<1> QED BY <1>1, <1>3, <1>4

\* The iterators of a walk over a compound.
LEMMA WalkAt ==
    ASSUME NEW d \in Text, Len(d) < SizeLimit, NEW k \in 0 .. Top, NEW node \in Levels[k], node.type = 10,
           NEW p, Holds(d, p, PayloadBytes[node])
    PROVE  /\ Len(node.items) \in Nat /\ Len(Walk(d, p, 10)) = Len(node.items) + 1 /\ Len(Walk(d, p, 10)) - 1 = Len(node.items)
           /\ \A i \in 1 .. Len(node.items) : Walk(d, p, 10)[i] = ItemAt(p, node, i)
           /\ \A i \in 1 .. Len(node.items) : tag_name(d, Walk(d, p, 10)[i].tag) = node.items[i].name
           /\ Walk(d, p, 10)[Len(Walk(d, p, 10))] = EndAt(p, node)
<1> DEFINE n == Len(node.items)
           w == Walk(d, p, 10)
<1>1. n \in Nat
  BY CompoundLayout
<1>2. RestOfWalk(w, p, node, 0)
  BY CompoundWalk
<1> HIDE DEF w
<1>3. Len(w) = n + 1 /\ Len(w) - 1 = n
  BY <1>1, <1>2 DEF RestOfWalk
<1>4. \A i \in 1 .. n : w[i] = ItemAt(p, node, i)
  <2>1. \A i \in 1 .. n - 0 : w[i] = ItemAt(p, node, 0 + i)
    BY <1>2 DEF RestOfWalk
  <2>2. ASSUME NEW i \in 1 .. n PROVE w[i] = ItemAt(p, node, i)
    <3>1. i \in 1 .. n - 0 /\ 0 + i = i
      BY <1>1
    <3> QED BY <2>1, <3>1
  <2> QED BY <2>2
<1>5. ASSUME NEW i \in 1 .. n PROVE tag_name(d, w[i].tag) = node.items[i].name
  <2> DEFINE t == p + TagsEnd(node, i - 1)
             item == node.items[i]
  <2>1. w[i].tag = t
    <3>1. ItemAt(p, node, i).tag = t
      BY DEF ItemAt
    <3>2. w[i] = ItemAt(p, node, i)
      BY <1>4
    <3> QED BY <3>1, <3>2
  <2>2. k > 0 /\ item \in Levels[k - 1] /\ item.type \in 1 .. 12 /\ Holds(d, t, TagBytes(item))
    BY CompoundLayout, CompoundAt
  <2>3. k - 1 \in 0 .. Top
    BY <2>2, TopType
  <2> HIDE DEF t, item
  <2>4. tag_name(d, t) = item.name
    BY <2>2, <2>3, HeaderAt
  <2> QED BY <2>1, <2>4 DEF item
<1>6. w[Len(w)] = EndAt(p, node)
  BY <1>2 DEF RestOfWalk
<1> QED BY <1>1, <1>3, <1>4, <1>5, <1>6 DEF w

\* A search finds the one tag of that name, or the end.
HitAt(p, node, i) == [hit |-> TRUE, iter |-> ItemAt(p, node, i)]
MissAt(p, node) == [hit |-> FALSE, iter |-> EndAt(p, node)]
LEMMA SearchAt ==
    ASSUME NEW d \in Text, Len(d) < SizeLimit, NEW k \in 0 .. Top, NEW node \in Levels[k], node.type = 10,
           NEW p, Holds(d, p, PayloadBytes[node]), NEW name
    PROVE  /\ Named(node, name) = {} => compound_search(d, p, name) = MissAt(p, node)
           /\ \A j \in Named(node, name) : compound_search(d, p, name) = HitAt(p, node, j)
<1> DEFINE n == Len(node.items)
           w == Walk(d, p, 10)
           hits == {i \in 1 .. Len(w) - 1 : tag_name(d, w[i].tag) = name}
<1>1. compound_search(d, p, name) = FirstNamed(d, w, name)
  BY TypeCodes DEF compound_search
<1>2. Len(w) - 1 = n
  BY WalkAt
<1>3. \A i \in 1 .. n : w[i] = ItemAt(p, node, i)
  BY WalkAt
<1>4. \A i \in 1 .. n : tag_name(d, w[i].tag) = node.items[i].name
  BY WalkAt
<1>5. w[Len(w)] = EndAt(p, node)
  BY WalkAt
<1> HIDE DEF w
<1>6. hits = Named(node, name)
  <2>1. Named(node, name) = {i \in 1 .. n : node.items[i].name = name}
    BY NamedOne
  <2> QED BY <1>2, <1>4, <2>1
<1>7. FirstNamed(d, w, name) =
        IF hits = {} THEN [hit |-> FALSE, iter |-> w[Len(w)]]
        ELSE [hit |-> TRUE, iter |-> w[CHOOSE i \in hits : \A j \in hits : i <= j]]
  BY Zenon DEF FirstNamed
<1> HIDE DEF hits
<1>8. ASSUME Named(node, name) = {} PROVE compound_search(d, p, name) = MissAt(p, node)
  BY <1>1, <1>6, <1>7, <1>5, <1>8 DEF MissAt
<1>9. ASSUME NEW j \in Named(node, name) PROVE compound_search(d, p, name) = HitAt(p, node, j)
  <2> DEFINE c == CHOOSE i \in hits : \A h \in hits : i <= h
  <2>1. \A i, h \in hits : i = h
    BY <1>6, NamedOne
  <2>2. j \in hits /\ j \in 1 .. n
    BY <1>6, NamedOne
  <2>3. \A h \in hits : j <= h
    BY <2>1, <2>2
  <2>4. c \in hits
    BY <2>2, <2>3
  <2>5. c = j
    BY <2>1, <2>2, <2>4
  <2> HIDE DEF c
  <2>6. compound_search(d, p, name) = [hit |-> TRUE, iter |-> w[c]]
    BY <1>1, <1>7, <2>2 DEF c
  <2> QED BY <2>2, <2>5, <2>6, <1>3 DEF HitAt
<1> QED BY <1>8, <1>9

--------------------------------------------------------------------------------
(* Paths                                                                   *)

\* The nodes and the tags on a path, and the nodes of a changed document, step by step.
LEMMA NodesAlongDef ==
    ASSUME NEW node, NEW path, NEW N \in Nat, Len(path) = N
    PROVE  /\ NodesAlong(node, path)[0] = node
           /\ \A i \in 1 .. N : NodesAlong(node, path)[i] = Child(NodesAlong(node, path)[i - 1], path[i])
<1> DEFINE B(f, k) == IF k = 0 THEN node ELSE Child(f[k - 1], path[k])
           P(f) == f = [k \in 0 .. N |-> B(f, k)]
           Q(f, n) == f = [k \in 0 .. n |-> f[k]] /\ \A k \in 0 .. n : f[k] = B(f, k)
           S == {n \in 0 .. N : \E f : Q(f, n)}
<1>1. 0 \in S
  <2>1. Q([k \in 0 .. 0 |-> node], 0)
    OBVIOUS
  <2> HIDE DEF Q
  <2>2. \E f : Q(f, 0)
    BY <2>1
  <2> QED BY <2>2
<1>2. ASSUME NEW n \in 1 .. N, n - 1 \in S PROVE n \in S
  <2>1. PICK f : Q(f, n - 1)
    BY <1>2
  <2> DEFINE g == [k \in 0 .. n |-> IF k = n THEN Child(f[n - 1], path[n]) ELSE f[k]]
  <2>2. g = [k \in 0 .. n |-> g[k]] /\ g[n] = Child(f[n - 1], path[n]) /\ \A k \in 0 .. n - 1 : g[k] = f[k]
    OBVIOUS
  <2> HIDE DEF g
  <2>3. ASSUME NEW k \in 0 .. n PROVE g[k] = B(g, k)
    <3>1. CASE k = n
      <4>1. n - 1 \in 0 .. n - 1 /\ n # 0
        OBVIOUS
      <4>2. g[n - 1] = f[n - 1] /\ g[n] = Child(f[n - 1], path[n])
        BY <4>1, <2>2
      <4> QED BY <3>1, <4>1, <4>2
    <3>2. CASE k \in 0 .. n - 1 /\ k # 0
      <4>1. f[k] = Child(f[k - 1], path[k])
        BY <3>2, <2>1
      <4>2. k - 1 \in 0 .. n - 1
        BY <3>2
      <4>3. g[k] = f[k] /\ g[k - 1] = f[k - 1]
        BY <3>2, <4>2, <2>2
      <4> QED BY <4>1, <4>3, <3>2
    <3>3. CASE k \in 0 .. n - 1 /\ k = 0
      <4>1. g[k] = f[k] /\ f[k] = B(f, k)
        BY <3>3, <2>1, <2>2
      <4> QED BY <4>1, <3>3
    <3> QED BY <3>1, <3>2, <3>3
  <2>4. Q(g, n)
    BY <2>2, <2>3
  <2> HIDE DEF Q
  <2> QED BY <2>4
<1>3. \E f : P(f)
  <2>1. N \in S
    <3> HIDE DEF S
    <3> QED BY <1>1, <1>2, BoundedInduction
  <2>2. PICK f : Q(f, N)
    BY <2>1
  <2>3. P(f)
    BY <2>2
  <2> HIDE DEF P
  <2> QED BY <2>3
<1>4. P(CHOOSE f : P(f))
  <2> HIDE DEF P
  <2> QED BY <1>3, Zenon
<1>5. NodesAlong(node, path) = CHOOSE f : P(f)
  BY DEF NodesAlong
<1>6. P(NodesAlong(node, path))
  <2> HIDE DEF P
  <2> QED BY <1>4, <1>5
<1> QED BY <1>6

LEMMA TagsAlongDef ==
    ASSUME NEW d, NEW path, NEW N \in Nat, Len(path) = N
    PROVE  /\ TagsAlong(d, path)[0] = 0
           /\ \A i \in 1 .. N : TagsAlong(d, path)[i] = FindStep(d, TagsAlong(d, path)[i - 1], path[i])
<1> DEFINE B(f, k) == IF k = 0 THEN 0 ELSE FindStep(d, f[k - 1], path[k])
           P(f) == f = [k \in 0 .. N |-> B(f, k)]
           Q(f, n) == f = [k \in 0 .. n |-> f[k]] /\ \A k \in 0 .. n : f[k] = B(f, k)
           S == {n \in 0 .. N : \E f : Q(f, n)}
<1>1. 0 \in S
  <2>1. Q([k \in 0 .. 0 |-> 0], 0)
    OBVIOUS
  <2> HIDE DEF Q
  <2>2. \E f : Q(f, 0)
    BY <2>1
  <2> QED BY <2>2
<1>2. ASSUME NEW n \in 1 .. N, n - 1 \in S PROVE n \in S
  <2>1. PICK f : Q(f, n - 1)
    BY <1>2
  <2> DEFINE g == [k \in 0 .. n |-> IF k = n THEN FindStep(d, f[n - 1], path[n]) ELSE f[k]]
  <2>2. g = [k \in 0 .. n |-> g[k]] /\ g[n] = FindStep(d, f[n - 1], path[n]) /\ \A k \in 0 .. n - 1 : g[k] = f[k]
    OBVIOUS
  <2> HIDE DEF g
  <2>3. ASSUME NEW k \in 0 .. n PROVE g[k] = B(g, k)
    <3>1. CASE k = n
      <4>1. n - 1 \in 0 .. n - 1 /\ n # 0
        OBVIOUS
      <4>2. g[n - 1] = f[n - 1] /\ g[n] = FindStep(d, f[n - 1], path[n])
        BY <4>1, <2>2
      <4> QED BY <3>1, <4>1, <4>2
    <3>2. CASE k \in 0 .. n - 1 /\ k # 0
      <4>1. f[k] = FindStep(d, f[k - 1], path[k])
        BY <3>2, <2>1
      <4>2. k - 1 \in 0 .. n - 1
        BY <3>2
      <4>3. g[k] = f[k] /\ g[k - 1] = f[k - 1]
        BY <3>2, <4>2, <2>2
      <4> QED BY <4>1, <4>3, <3>2
    <3>3. CASE k \in 0 .. n - 1 /\ k = 0
      <4>1. g[k] = f[k] /\ f[k] = B(f, k)
        BY <3>3, <2>1, <2>2
      <4> QED BY <4>1, <3>3
    <3> QED BY <3>1, <3>2, <3>3
  <2>4. Q(g, n)
    BY <2>2, <2>3
  <2> HIDE DEF Q
  <2> QED BY <2>4
<1>3. \E f : P(f)
  <2>1. N \in S
    <3> HIDE DEF S
    <3> QED BY <1>1, <1>2, BoundedInduction
  <2>2. PICK f : Q(f, N)
    BY <2>1
  <2>3. P(f)
    BY <2>2
  <2> HIDE DEF P
  <2> QED BY <2>3
<1>4. P(CHOOSE f : P(f))
  <2> HIDE DEF P
  <2> QED BY <1>3, Zenon
<1>5. TagsAlong(d, path) = CHOOSE f : P(f)
  BY DEF TagsAlong
<1>6. P(TagsAlong(d, path))
  <2> HIDE DEF P
  <2> QED BY <1>4, <1>5
<1> QED BY <1>6

LEMMA RebuiltDef ==
    ASSUME NEW node, NEW new, NEW path, NEW N \in Nat, Len(path) = N
    PROVE  /\ Rebuilt(node, path, new)[0] = new
           /\ \A i \in 1 .. N : Rebuilt(node, path, new)[i] = WithChild(NodesAlong(node, path)[N - i], path[N - i + 1], Rebuilt(node, path, new)[i - 1])
<1> DEFINE B(f, k) == IF k = 0 THEN new ELSE WithChild(NodesAlong(node, path)[N - k], path[N - k + 1], f[k - 1])
           P(f) == f = [k \in 0 .. N |-> B(f, k)]
           Q(f, n) == f = [k \in 0 .. n |-> f[k]] /\ \A k \in 0 .. n : f[k] = B(f, k)
           S == {n \in 0 .. N : \E f : Q(f, n)}
<1>1. 0 \in S
  <2>1. Q([k \in 0 .. 0 |-> new], 0)
    OBVIOUS
  <2> HIDE DEF Q
  <2>2. \E f : Q(f, 0)
    BY <2>1
  <2> QED BY <2>2
<1>2. ASSUME NEW n \in 1 .. N, n - 1 \in S PROVE n \in S
  <2>1. PICK f : Q(f, n - 1)
    BY <1>2
  <2> DEFINE g == [k \in 0 .. n |-> IF k = n THEN WithChild(NodesAlong(node, path)[N - n], path[N - n + 1], f[n - 1]) ELSE f[k]]
  <2>2. g = [k \in 0 .. n |-> g[k]] /\ g[n] = WithChild(NodesAlong(node, path)[N - n], path[N - n + 1], f[n - 1]) /\ \A k \in 0 .. n - 1 : g[k] = f[k]
    OBVIOUS
  <2> HIDE DEF g
  <2>3. ASSUME NEW k \in 0 .. n PROVE g[k] = B(g, k)
    <3>1. CASE k = n
      <4>1. n - 1 \in 0 .. n - 1 /\ n # 0
        OBVIOUS
      <4>2. g[n - 1] = f[n - 1] /\ g[n] = WithChild(NodesAlong(node, path)[N - n], path[N - n + 1], f[n - 1])
        BY <4>1, <2>2
      <4> QED BY <3>1, <4>1, <4>2
    <3>2. CASE k \in 0 .. n - 1 /\ k # 0
      <4>1. f[k] = WithChild(NodesAlong(node, path)[N - k], path[N - k + 1], f[k - 1])
        BY <3>2, <2>1
      <4>2. k - 1 \in 0 .. n - 1
        BY <3>2
      <4>3. g[k] = f[k] /\ g[k - 1] = f[k - 1]
        BY <3>2, <4>2, <2>2
      <4> QED BY <4>1, <4>3, <3>2
    <3>3. CASE k \in 0 .. n - 1 /\ k = 0
      <4>1. g[k] = f[k] /\ f[k] = B(f, k)
        BY <3>3, <2>1, <2>2
      <4> QED BY <4>1, <3>3
    <3> QED BY <3>1, <3>2, <3>3
  <2>4. Q(g, n)
    BY <2>2, <2>3
  <2> HIDE DEF Q
  <2> QED BY <2>4
<1>3. \E f : P(f)
  <2>1. N \in S
    <3> HIDE DEF S
    <3> QED BY <1>1, <1>2, BoundedInduction
  <2>2. PICK f : Q(f, N)
    BY <2>1
  <2>3. P(f)
    BY <2>2
  <2> HIDE DEF P
  <2> QED BY <2>3
<1>4. P(CHOOSE f : P(f))
  <2> HIDE DEF P
  <2> QED BY <1>3, Zenon
<1>5. Rebuilt(node, path, new) = CHOOSE f : P(f)
  BY DEF Rebuilt
<1>6. P(Rebuilt(node, path, new))
  <2> HIDE DEF P
  <2> QED BY <1>4, <1>5
<1> QED BY <1>6

\* Which of the items the child of a name is.
Index(node, name) == CHOOSE i \in Named(node, name) : TRUE

\* A step of the caller leads from a compound to its tag of that name.
LEMMA StepAt ==
    ASSUME NEW d \in Text, Len(d) < SizeLimit, NEW k \in 0 .. Top, NEW node \in Levels[k],
           NEW t, Holds(d, t, TagBytes(node)), NEW name, Named(node, name) # {}
    PROVE  /\ node.type = 10 /\ Index(node, name) \in 1 .. Len(node.items) /\ Index(node, name) \in Named(node, name)
           /\ Child(node, name) = node.items[Index(node, name)]
           /\ k > 0 /\ Child(node, name) \in Levels[k - 1] /\ Child(node, name).type \in 1 .. 12
           /\ FindStep(d, t, name) = t + (3 + Len(node.name)) + TagsEnd(node, Index(node, name) - 1)
           /\ Holds(d, FindStep(d, t, name), TagBytes(Child(node, name)))
<1> DEFINE j == Index(node, name)
           p == t + (3 + Len(node.name))
<1>1. node.type = 10
  BY TypeCodes DEF Named
<1>2. j \in Named(node, name)
  BY DEF Index
<1>3. j \in 1 .. Len(node.items)
  BY <1>1, <1>2, NamedOne
<1>4. Child(node, name) = node.items[j]
  BY DEF Child, Index
<1> HIDE DEF j
<1>5. k > 0 /\ node.items[j] \in Levels[k - 1] /\ node.items[j].type \in 1 .. 12
  BY <1>1, <1>3, CompoundLayout
<1>6. t \in Nat /\ At(d, t) = 10 /\ Holds(d, p, PayloadBytes[node])
  BY <1>1, TagAt
<1>7. tag_payload(d, t) = p
  BY <1>1, HeaderAt
<1> HIDE DEF p
<1>8. Holds(d, p + TagsEnd(node, j - 1), TagBytes(node.items[j]))
  BY <1>1, <1>3, <1>6, CompoundAt
<1>9. compound_search(d, p, name) = HitAt(p, node, j)
  BY <1>1, <1>2, <1>6, SearchAt, SMTT(30)
<1>10. FindStep(d, t, name) = p + TagsEnd(node, j - 1)
  <2>1. t # NULL /\ At(d, t) = NBT.COMPOUND
    BY <1>6, TypeCodes, NbtAssumption
  <2>2. FindStep(d, t, name) = compound_get(d, p, name)
    BY <1>7, <2>1 DEF FindStep
  <2>3. ItemAt(p, node, j).tag = p + TagsEnd(node, j - 1)
    BY DEF ItemAt
  <2> QED BY <1>9, <2>2, <2>3 DEF compound_get, TagOf, HitAt
<1> QED BY <1>1, <1>2, <1>3, <1>4, <1>5, <1>8, <1>10 DEF j, p

\* A path that the nodes have, and what is at its i-th step.
IsPath(node, path) ==
  Len(path) \in Nat /\ \A i \in 1 .. Len(path) : Named(NodesAlong(node, path)[i - 1], path[i]) # {}
OnPath(d, m, node, path, i) ==
  /\ i <= m /\ NodesAlong(node, path)[i] \in Levels[m - i] /\ NodesAlong(node, path)[i].type \in 1 .. 12
  /\ Holds(d, TagsAlong(d, path)[i], TagBytes(NodesAlong(node, path)[i]))

LEMMA PathsArePaths ==
    ASSUME NEW node, NEW path \in PathsFrom(node)
    PROVE  IsPath(node, path)
<1>1. PICK n \in 0 .. Depth : path \in [1 .. n -> Names]
  BY DEF PathsFrom
<1>2. n \in Nat
  BY TopType
<1>3. Len(path) = n
  BY <1>1, <1>2
<1> QED BY <1>2, <1>3, Zenon DEF PathsFrom, IsPath

LEMMA PathAt ==
    ASSUME NEW d \in Text, Len(d) < SizeLimit, NEW m \in 0 .. Top, NEW node \in Levels[m], node.type \in 1 .. 12,
           Holds(d, 0, TagBytes(node)), NEW path, IsPath(node, path)
    PROVE  \A i \in 0 .. Len(path) : OnPath(d, m, node, path, i)
<1> DEFINE N == Len(path)
           S == {i \in 0 .. N : OnPath(d, m, node, path, i)}
<1>1. N \in Nat /\ \A i \in 1 .. N : Named(NodesAlong(node, path)[i - 1], path[i]) # {}
  BY DEF IsPath
<1>2. /\ NodesAlong(node, path)[0] = node
      /\ \A i \in 1 .. N : NodesAlong(node, path)[i] = Child(NodesAlong(node, path)[i - 1], path[i])
  BY <1>1, NodesAlongDef
<1>3. /\ TagsAlong(d, path)[0] = 0
      /\ \A i \in 1 .. N : TagsAlong(d, path)[i] = FindStep(d, TagsAlong(d, path)[i - 1], path[i])
  BY <1>1, TagsAlongDef
<1> HIDE DEF N
<1>4. 0 \in S
  <2>1. 0 <= m /\ m - 0 = m
    BY TopType
  <2> QED BY <1>1, <1>2, <1>3, <2>1 DEF OnPath
<1>5. ASSUME NEW i \in 1 .. N, i - 1 \in S PROVE i \in S
  <2> DEFINE v == NodesAlong(node, path)[i - 1]
             t == TagsAlong(d, path)[i - 1]
             name == path[i]
             l == m - (i - 1)
  <2>1. i - 1 <= m /\ v \in Levels[l] /\ v.type \in 1 .. 12 /\ Holds(d, t, TagBytes(v))
    BY <1>5 DEF OnPath
  <2>2. l \in 0 .. Top /\ l - 1 = m - i
    BY <2>1, <1>1, TopType
  <2>3. NodesAlong(node, path)[i] = Child(v, name) /\ TagsAlong(d, path)[i] = FindStep(d, t, name) /\ Named(v, name) # {}
    BY <1>1, <1>2, <1>3
  <2>4. l > 0 => i <= m
    BY <1>1, TopType
  <2> HIDE DEF v, t, name, l
  <2>5. /\ l > 0 /\ Child(v, name) \in Levels[l - 1] /\ Child(v, name).type \in 1 .. 12
        /\ Holds(d, FindStep(d, t, name), TagBytes(Child(v, name)))
    BY <2>1, <2>2, <2>3, StepAt
  <2> QED BY <2>2, <2>3, <2>4, <2>5 DEF OnPath
<1> HIDE DEF S
<1>6. \A i \in 0 .. N : i \in S
  BY <1>1, <1>4, <1>5, BoundedInduction
<1> QED BY <1>6 DEF S, N

\* What a traversal of these bytes finds.
LEMMA ExactFor ==
    ASSUME data \in Text, Len(data) < SizeLimit, NEW k \in 0 .. Top, NEW node \in Levels[k], node.type \in 1 .. 12,
           NEW t, Holds(data, t, TagBytes(node))
    PROVE  ExactAt(node, tag_payload(data, t))
<1> DEFINE d == data
           p == t + (3 + Len(node.name))
           w == Walk(d, p, 10)
<1>1. t \in Nat /\ Len(node.name) \in Nat /\ tag_payload(d, t) = p
  BY HeaderAt
<1>2. Holds(d, p, PayloadBytes[node])
  BY TagAt
<1>3. p \in Nat /\ p # NULL
  BY <1>1, NbtAssumption
<1> HIDE DEF p
<1>4. payload_size(d, p, node.type) = Len(PayloadBytes[node])
  BY <1>2, PayloadSized DEF Size
<1>5. SubSeq(d, p + 1, p + Len(PayloadBytes[node])) = PayloadBytes[node]
  BY <1>2, PayloadText, HoldsSub
<1>6. ASSUME node.type = NBT.COMPOUND PROVE WalkExact(node, Walk(d, p, NBT.COMPOUND))
  <2>1. node.type = 10 /\ NBT.COMPOUND = 10
    BY <1>6, TypeCodes
  <2>2. /\ Len(node.items) \in Nat /\ Len(w) = Len(node.items) + 1 /\ w[Len(w)] = EndAt(p, node)
        /\ \A i \in 1 .. Len(node.items) : w[i] = ItemAt(p, node, i) /\ tag_name(d, w[i].tag) = node.items[i].name
    BY <1>2, <2>1, WalkAt
  <2>3. DOMAIN node.items = 1 .. Len(node.items)
    BY NodeFacts
  <2> HIDE DEF w
  <2>4. ASSUME NEW i \in 1 .. Len(node.items)
        PROVE  SubSeq(d, w[i].tag + 1, w[i].tag + w[i].size) = TagBytes(node.items[i])
    <3> DEFINE item == node.items[i]
               q == p + TagsEnd(node, i - 1)
    <3>1. k > 0 /\ item \in Levels[k - 1] /\ Holds(d, q, TagBytes(item))
      BY <1>2, <2>1, CompoundLayout, CompoundAt
    <3>2. k - 1 \in 0 .. Top
      BY <3>1, TopType
    <3> DEFINE it == ItemAt(p, node, i)
    <3>3. it.tag = q /\ it.size = 3 + Len(item.name) + Size(item)
      BY DEF ItemAt
    <3> HIDE DEF it
    <3>6. w[i] = it
      BY <2>2 DEF it
    <3> HIDE DEF item, q
    <3>4. TagBytes(item) \in Text /\ Len(TagBytes(item)) = 3 + Len(item.name) + Size(item)
      BY <3>1, <3>2, PayloadText
    <3>5. SubSeq(d, q + 1, q + Len(TagBytes(item))) = TagBytes(item)
      BY <3>1, <3>4, HoldsSub
    <3> QED BY <3>3, <3>4, <3>5, <3>6 DEF item
  <2>5. w[Len(w)].index = Len(node.items)
    <3>1. EndAt(p, node).index = Len(node.items)
      BY DEF EndAt
    <3> QED BY <2>2, <3>1
  <2>6. WalkExact(node, w)
    BY <2>2, <2>3, <2>4, <2>5 DEF WalkExact
  <2> QED BY <2>1, <2>6 DEF w
<1> QED BY <1>1, <1>3, <1>4, <1>5, <1>6 DEF ExactAt

LEMMA Traversal ==
    ASSUME data \in Text, Len(data) < SizeLimit, NEW m \in 0 .. Top, NEW node \in Levels[m], node.type = 10,
           data = TagBytes(node)
    PROVE  /\ tag_size(data, 0) = Len(data)
           /\ \A path \in PathsFrom(node) : ExactAt(NodeAt(node, path), PayloadAt(data, path))
<1>1. Holds(data, 0, TagBytes(node))
  BY HoldsAll
<1>2. tag_size(data, 0) = Len(data)
  <2>1. tag_size(data, 0) = 3 + Len(node.name) + Size(node)
    BY <1>1, HeaderAt
  <2>2. Len(TagBytes(node)) = 3 + Len(node.name) + Size(node)
    BY PayloadText
  <2> QED BY <2>1, <2>2
<1>3. ASSUME NEW path \in PathsFrom(node) PROVE ExactAt(NodeAt(node, path), PayloadAt(data, path))
  <2> DEFINE n == Len(path)
             v == NodesAlong(node, path)[n]
             t == TagsAlong(data, path)[n]
             l == m - n
  <2>1. IsPath(node, path) /\ n \in Nat
    BY PathsArePaths DEF IsPath
  <2>2. n \in 0 .. n
    BY <2>1
  <2>3. OnPath(data, m, node, path, n)
    BY <1>1, <2>1, <2>2, PathAt
  <2>4. n <= m /\ v \in Levels[l] /\ v.type \in 1 .. 12 /\ Holds(data, t, TagBytes(v))
    BY <2>3 DEF OnPath
  <2>5. l \in 0 .. Top
    BY <2>1, <2>4, TopType
  <2> HIDE DEF v, t, l, n
  <2>6. ExactAt(v, tag_payload(data, t))
    BY <2>4, <2>5, ExactFor
  <2> QED BY <2>6 DEF NodeAt, PayloadAt, v, t, n
<1> QED BY <1>2, <1>3

--------------------------------------------------------------------------------
(* Edits: bytes that are replaced                                          *)

\* e is d with the n bytes at q replaced by b.
Spliced(e, d, q, n, b) ==
  /\ e \in Text /\ d \in Text /\ b \in Text
  /\ q \in Nat /\ n \in Nat /\ q + n <= Len(d) /\ Len(e) = (Len(d) - n) + Len(b)
  /\ \A i \in 1 .. q : e[i] = d[i]
  /\ \A i \in 1 .. Len(b) : e[q + i] = b[i]
  /\ \A i \in 1 .. Len(d) - (q + n) : e[q + Len(b) + i] = d[q + n + i]

LEMMA TextEqual ==
    ASSUME NEW a \in Text, NEW b \in Text, Len(a) = Len(b), \A i \in 1 .. Len(a) : a[i] = b[i]
    PROVE  a = b
<1>1. a = [i \in 1 .. Len(a) |-> a[i]] /\ b = [i \in 1 .. Len(b) |-> b[i]]
  BY DEF Text
<1> QED BY <1>1

\* There is one such e.
LEMMA SplicedOne ==
    ASSUME NEW e, NEW f, NEW d, NEW q, NEW n, NEW b, Spliced(e, d, q, n, b), Spliced(f, d, q, n, b)
    PROVE  e = f
<1> DEFINE lb == Len(b)
           ld == Len(d)
           le == Len(e)
<1>1. /\ e \in Text /\ f \in Text /\ q \in Nat /\ n \in Nat /\ q + n <= ld /\ le = (ld - n) + lb
      /\ le = Len(f) /\ lb \in Nat /\ ld \in Nat
  BY TextFacts DEF Spliced
<1>2. ASSUME NEW i \in 1 .. le PROVE e[i] = f[i]
  <2>1. CASE i <= q
    <3>1. i \in 1 .. q
      BY <2>1, <1>1
    <3> QED BY <3>1 DEF Spliced
  <2>2. CASE i > q /\ i <= q + lb
    <3> DEFINE h == i - q
    <3>1. h \in 1 .. lb /\ q + h = i
      BY <2>2, <1>1
    <3> HIDE DEF h, lb
    <3>2. e[q + h] = b[h] /\ f[q + h] = b[h]
      BY <3>1 DEF Spliced, lb
    <3> QED BY <3>1, <3>2
  <2>3. CASE i > q + lb
    <3> DEFINE h == i - (q + lb)
    <3>1. h \in 1 .. ld - (q + n) /\ q + lb + h = i
      BY <2>3, <1>1
    <3> HIDE DEF h, lb, ld
    <3>2. e[q + lb + h] = d[q + n + h] /\ f[q + lb + h] = d[q + n + h]
      BY <3>1 DEF Spliced, lb, ld
    <3> QED BY <3>1, <3>2
  <2> QED BY <2>1, <2>2, <2>3, <1>1
<1> QED BY <1>1, <1>2, TextEqual

\* A splice behind a prefix.
LEMMA SplicedBehind ==
    ASSUME NEW e, NEW d, NEW q, NEW n, NEW b, Spliced(e, d, q, n, b),
           NEW a \in Text, NEW D, NEW E, IsJoin(D, a, d), IsJoin(E, a, e)
    PROVE  Spliced(E, D, Len(a) + q, n, b)
<1> DEFINE la == Len(a)
           lb == Len(b)
           ld == Len(d)
           le == Len(e)
           lD == Len(D)
           lE == Len(E)
<1>1. /\ e \in Text /\ d \in Text /\ b \in Text /\ q \in Nat /\ n \in Nat /\ q + n <= ld /\ le = (ld - n) + lb
      /\ la \in Nat /\ lb \in Nat /\ ld \in Nat /\ le \in Nat
  BY TextFacts DEF Spliced
<1>2. E \in Text /\ D \in Text /\ lD = la + ld /\ lE = la + le
  BY DEF IsJoin
<1>3. /\ \A i \in 1 .. q : e[i] = d[i]
      /\ \A i \in 1 .. lb : e[q + i] = b[i]
      /\ \A i \in 1 .. ld - (q + n) : e[q + lb + i] = d[q + n + i]
  BY DEF Spliced
<1>4. /\ \A i \in 1 .. la : D[i] = a[i] /\ E[i] = a[i]
      /\ \A i \in 1 .. ld : D[la + i] = d[i]
      /\ \A i \in 1 .. le : E[la + i] = e[i]
  BY DEF IsJoin
<1> HIDE DEF la, lb, ld, le, lD, lE
<1>5. la + q \in Nat /\ (la + q) + n <= lD /\ lE = (lD - n) + lb
  BY <1>1, <1>2
<1>6. ASSUME NEW i \in 1 .. la + q PROVE E[i] = D[i]
  <2>1. CASE i <= la
    <3>1. i \in 1 .. la
      BY <2>1, <1>1
    <3> QED BY <3>1, <1>4
  <2>2. CASE i > la
    <3> DEFINE h == i - la
    <3>1. h \in 1 .. q /\ h \in 1 .. ld /\ h \in 1 .. le /\ la + h = i
      BY <2>2, <1>1
    <3> HIDE DEF h
    <3>2. D[la + h] = d[h] /\ E[la + h] = e[h] /\ e[h] = d[h]
      BY <3>1, <1>3, <1>4
    <3> QED BY <3>1, <3>2
  <2> QED BY <2>1, <2>2, <1>1
<1>7. ASSUME NEW i \in 1 .. lb PROVE E[(la + q) + i] = b[i]
  <2>1. q + i \in 1 .. le /\ la + (q + i) = (la + q) + i
    BY <1>1
  <2>2. E[la + (q + i)] = e[q + i] /\ e[q + i] = b[i]
    BY <2>1, <1>3, <1>4
  <2> QED BY <2>1, <2>2
<1>8. ASSUME NEW i \in 1 .. lD - ((la + q) + n) PROVE E[(la + q) + lb + i] = D[(la + q) + n + i]
  <2>1. /\ i \in 1 .. ld - (q + n) /\ q + lb + i \in 1 .. le /\ q + n + i \in 1 .. ld
        /\ la + (q + lb + i) = (la + q) + lb + i /\ la + (q + n + i) = (la + q) + n + i
    BY <1>1, <1>2
  <2>2. E[la + (q + lb + i)] = e[q + lb + i] /\ D[la + (q + n + i)] = d[q + n + i]
    BY <2>1, <1>4
  <2>3. e[q + lb + i] = d[q + n + i]
    BY <2>1, <1>3
  <2> QED BY <2>1, <2>2, <2>3
<1> QED BY <1>1, <1>2, <1>5, <1>6, <1>7, <1>8 DEF Spliced, la, lb, lD, lE

\* A splice before a suffix.
LEMMA SplicedBefore ==
    ASSUME NEW e, NEW d, NEW q, NEW n, NEW b, Spliced(e, d, q, n, b),
           NEW z \in Text, NEW D, NEW E, IsJoin(D, d, z), IsJoin(E, e, z)
    PROVE  Spliced(E, D, q, n, b)
<1> DEFINE lz == Len(z)
           lb == Len(b)
           ld == Len(d)
           le == Len(e)
           lD == Len(D)
           lE == Len(E)
<1>1. /\ e \in Text /\ d \in Text /\ b \in Text /\ q \in Nat /\ n \in Nat /\ q + n <= ld /\ le = (ld - n) + lb
      /\ lz \in Nat /\ lb \in Nat /\ ld \in Nat /\ le \in Nat
  BY TextFacts DEF Spliced
<1>2. E \in Text /\ D \in Text /\ lD = ld + lz /\ lE = le + lz
  BY DEF IsJoin
<1>3. /\ \A i \in 1 .. q : e[i] = d[i]
      /\ \A i \in 1 .. lb : e[q + i] = b[i]
      /\ \A i \in 1 .. ld - (q + n) : e[q + lb + i] = d[q + n + i]
  BY DEF Spliced
<1>4. /\ \A i \in 1 .. ld : D[i] = d[i]
      /\ \A i \in 1 .. le : E[i] = e[i]
      /\ \A i \in 1 .. lz : D[ld + i] = z[i] /\ E[le + i] = z[i]
  BY DEF IsJoin
<1> HIDE DEF lz, lb, ld, le, lD, lE
<1>5. q + n <= lD /\ lE = (lD - n) + lb
  BY <1>1, <1>2
<1>6. ASSUME NEW i \in 1 .. q PROVE E[i] = D[i]
  <2>1. i \in 1 .. ld /\ i \in 1 .. le
    BY <1>1
  <2> QED BY <2>1, <1>3, <1>4
<1>7. ASSUME NEW i \in 1 .. lb PROVE E[q + i] = b[i]
  <2>1. q + i \in 1 .. le
    BY <1>1
  <2> QED BY <2>1, <1>3, <1>4
<1>8. ASSUME NEW i \in 1 .. lD - (q + n) PROVE E[q + lb + i] = D[q + n + i]
  <2>1. CASE i <= ld - (q + n)
    <3>1. i \in 1 .. ld - (q + n) /\ q + lb + i \in 1 .. le /\ q + n + i \in 1 .. ld
      BY <2>1, <1>1
    <3>2. E[q + lb + i] = e[q + lb + i] /\ D[q + n + i] = d[q + n + i]
      BY <3>1, <1>4
    <3>3. e[q + lb + i] = d[q + n + i]
      BY <3>1, <1>3
    <3> QED BY <3>2, <3>3
  <2>2. CASE i > ld - (q + n)
    <3> DEFINE h == i - (ld - (q + n))
    <3>1. h \in 1 .. lz /\ le + h = q + lb + i /\ ld + h = q + n + i
      BY <2>2, <1>1, <1>2
    <3> HIDE DEF h
    <3>2. E[le + h] = z[h] /\ D[ld + h] = z[h]
      BY <3>1, <1>4
    <3> QED BY <3>1, <3>2
  <2> QED BY <2>1, <2>2, <1>1
<1> QED BY <1>1, <1>2, <1>5, <1>6, <1>7, <1>8 DEF Spliced, lb, lD, lE

\* The splice that replaces everything, or takes out what is behind d.
LEMMA SplicedWhole ==
    ASSUME NEW e \in Text, NEW d \in Text
    PROVE  Spliced(e, d, 0, Len(d), e)
<1>1. Len(d) \in Nat /\ Len(e) \in Nat
  BY TextFacts
<1>2. 0 + Len(d) <= Len(d) /\ Len(e) = (Len(d) - Len(d)) + Len(e) /\ 1 .. Len(d) - (0 + Len(d)) = {} /\ 1 .. 0 = {}
  BY <1>1
<1>3. \A i \in 1 .. Len(e) : e[0 + i] = e[i]
  <2>1. \A i \in 1 .. Len(e) : 0 + i = i
    BY <1>1
  <2> QED BY <2>1
<1> QED BY <1>1, <1>2, <1>3 DEF Spliced

LEMMA SplicedOut ==
    ASSUME NEW a \in Text, NEW b \in Text, NEW c, IsJoin(c, a, b)
    PROVE  Spliced(a, c, Len(a), Len(b), <<>>)
<1>1. c \in Text /\ Len(a) \in Nat /\ Len(b) \in Nat /\ Len(c) = Len(a) + Len(b)
  BY JoinLength
<1>2. <<>> \in Text /\ Len(<<>>) = 0
  BY DEF Text
<1>3. /\ Len(a) + Len(b) <= Len(c) /\ Len(a) = (Len(c) - Len(b)) + Len(<<>>)
      /\ 1 .. Len(<<>>) = {} /\ 1 .. Len(c) - (Len(a) + Len(b)) = {}
  BY <1>1, <1>2
<1>4. \A i \in 1 .. Len(a) : a[i] = c[i]
  BY DEF IsJoin
<1> QED BY <1>1, <1>2, <1>3, <1>4 DEF Spliced

LEMMA JoinOne ==
    ASSUME NEW a \in Text, NEW b \in Text, NEW c, NEW e, IsJoin(c, a, b), IsJoin(e, a, b)
    PROVE  c = e
<1>1. /\ Len(a) \in Nat /\ Len(b) \in Nat /\ c \in Text /\ e \in Text
      /\ Len(c) = Len(a) + Len(b) /\ Len(e) = Len(a) + Len(b)
  BY JoinLength
<1>2. ASSUME NEW i \in 1 .. Len(c) PROVE c[i] = e[i]
  <2>1. CASE i <= Len(a)
    <3>1. i \in 1 .. Len(a)
      BY <2>1, <1>1
    <3> QED BY <3>1 DEF IsJoin
  <2>2. CASE i > Len(a)
    <3> DEFINE h == i - Len(a)
    <3>1. h \in 1 .. Len(b) /\ Len(a) + h = i
      BY <2>2, <1>1
    <3> HIDE DEF h
    <3>2. c[Len(a) + h] = b[h] /\ e[Len(a) + h] = b[h]
      BY <3>1 DEF IsJoin
    <3> QED BY <3>1, <3>2
  <2> QED BY <2>1, <2>2, <1>1
<1> QED BY <1>1, <1>2, TextEqual

\* A splice in the j-th of many.
LEMMA JoinedSpliced ==
    ASSUME NEW N \in Nat, NEW f, NEW g, \A i \in 1 .. N : f[i] \in Text, \A i \in 1 .. N : g[i] \in Text,
           NEW c, NEW h, IsJoined(c, f, N), IsJoined(h, g, N), NEW j \in 1 .. N, \A i \in 1 .. N : i # j => g[i] = f[i],
           NEW q, NEW n, NEW b, Spliced(g[j], f[j], q, n, b)
    PROVE  Spliced(h[N], c[N], Len(c[j - 1]) + q, n, b)
<1> DEFINE p == Len(c[j - 1]) + q
           S == {i \in 0 .. N : (i < j => h[i] = c[i]) /\ (i >= j => Spliced(h[i], c[i], p, n, b))}
<1>1. c[0] = h[0]
  BY DEF IsJoined
<1>2. \A i \in 0 .. N : c[i] \in Text /\ h[i] \in Text
  BY DEF IsJoined
<1>3. \A i \in 1 .. N : IsJoin(c[i], c[i - 1], f[i]) /\ IsJoin(h[i], h[i - 1], g[i])
  BY DEF IsJoined
<1>4. 0 \in S
  BY <1>1
<1>5. ASSUME NEW i \in 1 .. N, i - 1 \in S PROVE i \in S
  <2>1. /\ c[i - 1] \in Text /\ h[i - 1] \in Text /\ f[i] \in Text /\ g[i] \in Text
        /\ IsJoin(c[i], c[i - 1], f[i]) /\ IsJoin(h[i], h[i - 1], g[i])
    <3>1. i - 1 \in 0 .. N
      OBVIOUS
    <3> QED BY <3>1, <1>2, <1>3
  <2>2. CASE i < j
    <3>1. g[i] = f[i] /\ h[i - 1] = c[i - 1]
      BY <2>2, <1>5
    <3>2. h[i] = c[i]
      BY <2>1, <3>1, JoinOne
    <3> QED BY <2>2, <3>2
  <2>3. CASE i = j
    <3>1. h[i - 1] = c[i - 1]
      BY <2>3, <1>5
    <3>2. Spliced(h[i], c[i], p, n, b)
      BY <2>1, <2>3, <3>1, SplicedBehind
    <3> QED BY <2>3, <3>2
  <2>4. CASE i > j
    <3>1. g[i] = f[i] /\ Spliced(h[i - 1], c[i - 1], p, n, b)
      BY <2>4, <1>5
    <3> HIDE DEF p
    <3>2. Spliced(h[i], c[i], p, n, b)
      BY <2>1, <3>1, SplicedBefore
    <3> QED BY <2>4, <3>2 DEF p
  <2> QED BY <2>2, <2>3, <2>4
<1> HIDE DEF S
<1>6. \A i \in 0 .. N : i \in S
  BY <1>4, <1>5, BoundedInduction
<1>7. N \in S
  BY <1>6
<1> QED BY <1>7 DEF S

\* The j-th of many is left out.
LEMMA JoinedWithout ==
    ASSUME NEW N \in Nat, NEW f, NEW g, \A i \in 1 .. N : f[i] \in Text, NEW j \in 1 .. N,
           \A i \in 1 .. N - 1 : g[i] = IF i < j THEN f[i] ELSE f[i + 1],
           NEW c, NEW h, IsJoined(c, f, N), IsJoined(h, g, N - 1)
    PROVE  Spliced(h[N - 1], c[N], Len(c[j - 1]), Len(f[j]), <<>>)
<1> DEFINE p == Len(c[j - 1])
           n == Len(f[j])
           S == {i \in 0 .. N - 1 : (i <= j - 1 => h[i] = c[i]) /\ (i >= j - 1 => Spliced(h[i], c[i + 1], p, n, <<>>))}
<1>1. c[0] = h[0]
  BY DEF IsJoined
<1>2. (\A i \in 0 .. N : c[i] \in Text) /\ (\A i \in 0 .. N - 1 : h[i] \in Text)
  BY DEF IsJoined
<1>3. (\A i \in 1 .. N : IsJoin(c[i], c[i - 1], f[i])) /\ (\A i \in 1 .. N - 1 : IsJoin(h[i], h[i - 1], g[i]))
  BY DEF IsJoined
<1>4. Spliced(c[j - 1], c[j], p, n, <<>>)
  <2>1. c[j - 1] \in Text /\ f[j] \in Text /\ IsJoin(c[j], c[j - 1], f[j])
    BY <1>2, <1>3
  <2> QED BY <2>1, SplicedOut
<1> HIDE DEF p, n
<1>5. 0 \in S
  <2>1. 0 \in 0 .. N - 1
    OBVIOUS
  <2>2. CASE j = 1
    <3>1. j - 1 = 0 /\ 0 + 1 = j
      BY <2>2
    <3>2. Spliced(h[0], c[0 + 1], p, n, <<>>)
      BY <1>1, <1>4, <3>1
    <3> QED BY <1>1, <2>1, <3>2
  <2>3. CASE j # 1
    <3>1. ~(0 >= j - 1)
      BY <2>3
    <3> QED BY <1>1, <2>1, <3>1
  <2> QED BY <2>2, <2>3
<1>6. ASSUME NEW i \in 1 .. N - 1, i - 1 \in S PROVE i \in S
  <2>1. /\ c[i - 1] \in Text /\ h[i - 1] \in Text /\ c[i] \in Text /\ f[i] \in Text /\ f[i + 1] \in Text
        /\ IsJoin(c[i], c[i - 1], f[i]) /\ IsJoin(c[i + 1], c[i], f[i + 1]) /\ IsJoin(h[i], h[i - 1], g[i])
    <3>1. i - 1 \in 0 .. N /\ i - 1 \in 0 .. N - 1 /\ i \in 0 .. N /\ i \in 1 .. N /\ i + 1 \in 1 .. N /\ (i + 1) - 1 = i
      OBVIOUS
    <3> QED BY <3>1, <1>2, <1>3
  <2>2. CASE i <= j - 1
    <3>1. g[i] = f[i] /\ h[i - 1] = c[i - 1]
      <4>1. i < j /\ i - 1 <= j - 1
        BY <2>2
      <4> QED BY <4>1, <1>6
    <3>2. h[i] = c[i]
      BY <2>1, <3>1, JoinOne
    <3>3. i >= j - 1 => i = j - 1 /\ i + 1 = j
      BY <2>2
    <3> QED BY <2>2, <3>2, <3>3, <1>4
  <2>3. CASE i > j - 1
    <3>1. g[i] = f[i + 1] /\ Spliced(h[i - 1], c[i], p, n, <<>>)
      <4>1. ~(i < j) /\ i - 1 >= j - 1 /\ (i - 1) + 1 = i
        BY <2>3
      <4> QED BY <4>1, <1>6
    <3>2. Spliced(h[i], c[i + 1], p, n, <<>>)
      BY <2>1, <3>1, SplicedBefore
    <3> QED BY <2>3, <3>2
  <2> QED BY <2>2, <2>3
<1> HIDE DEF S
<1>7. \A i \in 0 .. N - 1 : i \in S
  <2>1. N - 1 \in Nat
    OBVIOUS
  <2> QED BY <2>1, <1>5, <1>6, BoundedInduction
<1>8. N - 1 \in S /\ N - 1 >= j - 1 /\ (N - 1) + 1 = N
  <2>1. N - 1 \in 0 .. N - 1 /\ N - 1 >= j - 1 /\ (N - 1) + 1 = N
    OBVIOUS
  <2> QED BY <1>7, <2>1
<1>9. Spliced(h[N - 1], c[(N - 1) + 1], p, n, <<>>)
  BY <1>8 DEF S
<1> QED BY <1>8, <1>9 DEF p, n

--------------------------------------------------------------------------------
(* Edits: documents that change                                            *)

LEMMA NodeIn ==
    ASSUME NEW k \in 0 .. Top, k < Top, NEW name \in Text, NEW type \in 0 .. 12, NEW raw \in Text, NEW elem \in 0 .. 12,
           NEW items \in Seq(Levels[k]), WellFormed(Node(name, type, raw, elem, items))
    PROVE  Node(name, type, raw, elem, items) \in Levels[k + 1]
<1>1. k + 1 \in 1 .. Top /\ (k + 1) - 1 = k
  BY TopType
<1>2. Levels[k + 1] = NodesAbove(Seq(Levels[k]))
  BY <1>1, LevelsDef
<1>3. Types = 0 .. 12
  BY TypeCodes
<1>4. Node(name, type, raw, elem, items) \in [name : Text, type : Types, raw : Text, elem : Types, items : Seq(Levels[k])]
  BY <1>3 DEF Node
<1> QED BY <1>2, <1>4 DEF NodesAbove

\* A node with other items.
LEMMA OtherItems ==
    ASSUME NEW k \in 0 .. Top, NEW node \in Levels[k], NEW items
    PROVE  [node EXCEPT !.items = items] = Node(node.name, node.type, node.raw, node.elem, items)
<1>1. node = Node(node.name, node.type, node.raw, node.elem, node.items)
  BY NodeFacts
<1> DEFINE a == node.name
           b == node.type
           c == node.raw
           e == node.elem
           f == node.items
<1>2. node = [name |-> a, type |-> b, raw |-> c, elem |-> e, items |-> f]
  BY <1>1 DEF Node
<1> HIDE DEF a, b, c, e, f
<1>3. [node EXCEPT !.items = items] = [name |-> a, type |-> b, raw |-> c, elem |-> e, items |-> items]
  BY <1>2
<1> QED BY <1>3 DEF Node, a, b, c, e

\* The items are of one level.
LEMMA ItemsIn ==
    ASSUME NEW k \in 0 .. Top, NEW node \in Levels[k]
    PROVE  /\ node.items \in Seq(Levels[k])
           /\ k > 0 => node.items \in Seq(Levels[k - 1])
<1> DEFINE n == Len(node.items)
           s == node.items
<1>1. n \in Nat /\ s = [i \in 1 .. n |-> s[i]]
  BY NodeFacts
<1>2. \A i \in 1 .. n : k > 0 /\ s[i] \in Levels[k - 1]
  BY NodeItems
<1>3. k > 0 => Levels[k - 1] \subseteq Levels[k]
  <2>1. k > 0 => k \in 1 .. Top
    BY TopType
  <2> QED BY <2>1, LevelsGrow
<1> HIDE DEF n, s
<1>4. \A i \in 1 .. n : s[i] \in Levels[k]
  BY <1>2, <1>3
<1>5. s \in Seq(Levels[k])
  BY <1>1, <1>4
<1>6. k > 0 => s \in Seq(Levels[k - 1])
  BY <1>1, <1>2
<1> QED BY <1>5, <1>6 DEF s

\* Compounds whose tags are distinct have a place among the documents.
LEMMA CompoundIn ==
    ASSUME NEW k \in 0 .. Top, NEW node \in Levels[k], node.type = 10, NEW l \in 0 .. Top, l < Top,
           NEW items \in Seq(Levels[l]),
           \A i \in 1 .. Len(items) : items[i].type \in 1 .. 12,
           \A i \in 1 .. Len(items) : \A j \in 1 .. Len(items) : items[i].name = items[j].name => i = j
    PROVE  Node(node.name, 10, node.raw, node.elem, items) \in Levels[l + 1]
<1> DEFINE new == Node(node.name, 10, node.raw, node.elem, items)
<1>1. node.name \in Text /\ node.raw \in Text /\ node.elem \in 0 .. 12 /\ Len(node.name) < Pairs
  BY NodeFacts
<1>2. DOMAIN items = 1 .. Len(items)
  OBVIOUS
<1>3. WellFormed(new)
  <2>1. new.name = node.name /\ new.type = 10 /\ new.items = items
    BY DEF Node
  <2>2. \A i \in 1 .. Len(items) : type_valid(items[i].type)
    BY ZeroSizeType
  <2>3. 10 \notin Fixed \cup {NBT.ZERO} /\ 10 \notin Arrays /\ 10 # NBT.STRING /\ 10 # NBT.LIST
    BY TypeCodes
  <2> HIDE DEF new
  <2>4. \A i \in DOMAIN new.items : /\ type_valid(new.items[i].type)
                                    /\ \A j \in DOMAIN new.items : new.items[i].name = new.items[j].name => i = j
    BY <2>1, <2>2, <1>2
  <2> QED BY <1>1, <2>1, <2>3, <2>4 DEF WellFormed
<1> QED BY <1>1, <1>3, NodeIn, SMTT(30)

\* The bytes of compounds of one name whose tags have such bytes.
LEMMA CompoundSpliced ==
    ASSUME NEW k \in 0 .. Top, NEW node \in Levels[k], node.type = 10, NEW l \in 0 .. Top, NEW new \in Levels[l], new.type = 10,
           new.name = node.name, NEW q, NEW n, NEW b,
           Spliced(Joined(Tags(new), Len(new.items))[Len(new.items)], Joined(Tags(node), Len(node.items))[Len(node.items)], q, n, b)
    PROVE  Spliced(TagBytes(new), TagBytes(node), (3 + Len(node.name)) + q, n, b)
<1> DEFINE e == Joined(Tags(new), Len(new.items))[Len(new.items)]
           d == Joined(Tags(node), Len(node.items))[Len(node.items)]
<1>1. IsJoin(PayloadBytes[node], d, <<0>>) /\ IsJoin(PayloadBytes[new], e, <<0>>)
  BY Shapes DEF Shape, CompoundShape
<1>2. <<0>> \in Text
  BY ByteText
<1> HIDE DEF e, d
<1>3. Spliced(PayloadBytes[new], PayloadBytes[node], q, n, b)
  BY <1>1, <1>2, SplicedBefore DEF e, d
<1>4. IsJoin(TagBytes(node), TagHead(node), PayloadBytes[node]) /\ IsJoin(TagBytes(new), TagHead(new), PayloadBytes[new])
  BY PayloadText
<1>5. TagHead(new) = TagHead(node)
  BY DEF TagHead
<1>6. TagHead(node) \in Text /\ Len(TagHead(node)) = 3 + Len(node.name)
  BY TagHeadFacts
<1> DEFINE head == TagHead(node)
<1>7. Spliced(TagBytes(new), TagBytes(node), Len(head) + q, n, b)
  <2>1. head \in Text /\ IsJoin(TagBytes(node), head, PayloadBytes[node]) /\ IsJoin(TagBytes(new), head, PayloadBytes[new])
    BY <1>4, <1>5, <1>6
  <2> HIDE DEF head
  <2> QED BY <1>3, <2>1, SplicedBehind
<1> QED BY <1>6, <1>7

\* The bytes of the tags of a compound.
LEMMA TagsText ==
    ASSUME NEW k \in 0 .. Top, NEW node \in Levels[k], node.type = 10
    PROVE  /\ Len(node.items) \in Nat
           /\ IsJoined(Joined(Tags(node), Len(node.items)), Tags(node), Len(node.items))
           /\ \A i \in 1 .. Len(node.items) : Tags(node)[i] = TagBytes(node.items[i]) /\ Tags(node)[i] \in Text
<1>1. Len(node.items) \in Nat /\ DOMAIN node.items = 1 .. Len(node.items)
  BY NodeFacts
<1>2. IsJoined(Joined(Tags(node), Len(node.items)), Tags(node), Len(node.items))
  BY Shapes DEF Shape, CompoundShape
<1>3. ASSUME NEW i \in 1 .. Len(node.items) PROVE Tags(node)[i] = TagBytes(node.items[i]) /\ Tags(node)[i] \in Text
  <2>1. k > 0 /\ node.items[i] \in Levels[k - 1]
    BY NodeItems
  <2>2. k - 1 \in 0 .. Top
    BY <2>1, TopType
  <2>3. TagBytes(node.items[i]) \in Text
    BY <2>1, <2>2, PayloadText
  <2> QED BY <1>1, <2>3 DEF Tags
<1> QED BY <1>1, <1>2, <1>3

\* A compound with `new' for its child of that name.
LEMMA ChildReplaced ==
    ASSUME NEW k \in 0 .. Top, k < Top, NEW node \in Levels[k], NEW name, Named(node, name) # {},
           NEW new \in Levels[k], new.name = Child(node, name).name, new.type = Child(node, name).type,
           NEW q, NEW n, NEW b, Spliced(TagBytes(new), TagBytes(Child(node, name)), q, n, b)
    PROVE  /\ WithChild(node, name, new) \in Levels[k + 1]
           /\ WithChild(node, name, new).name = node.name /\ WithChild(node, name, new).type = node.type
           /\ Spliced(TagBytes(WithChild(node, name, new)), TagBytes(node),
                      (3 + Len(node.name)) + (TagsEnd(node, Index(node, name) - 1) + q), n, b)
<1> DEFINE N == Len(node.items)
           j == Index(node, name)
           items == [i \in 1 .. N |-> IF i = j THEN new ELSE node.items[i]]
           v == Node(node.name, 10, node.raw, node.elem, items)
<1>1. node.type = 10 /\ N \in Nat
  BY TypeCodes, NodeFacts DEF Named
<1>2. j \in Named(node, name) /\ Child(node, name) = node.items[j]
  BY DEF Index, Child
<1>3. j \in 1 .. N /\ \A i \in Named(node, name) : i = j
  BY <1>1, <1>2, NamedOne
<1> HIDE DEF j
<1>4. DOMAIN node.items = 1 .. N
  BY NodeFacts
<1>5. WithChild(node, name, new) = v
  <2>1. [i \in DOMAIN node.items |-> IF i \in Named(node, name) THEN new ELSE node.items[i]] = items
    BY <1>2, <1>3, <1>4
  <2> HIDE DEF items
  <2>2. WithChild(node, name, new) = [node EXCEPT !.items = items]
    BY <2>1 DEF WithChild
  <2> QED BY <1>1, <2>2, OtherItems
<1>6. \A i \in 1 .. N : k > 0 /\ node.items[i] \in Levels[k] /\ node.items[i].type \in 1 .. 12
  <2>1. node.items \in Seq(Levels[k])
    BY ItemsIn
  <2>2. \A i \in 1 .. N : node.items[i] \in Levels[k]
    BY <2>1
  <2> QED BY <1>1, <2>2, CompoundLayout
<1>7. new.type \in 1 .. 12 /\ new.name = node.items[j].name
  BY <1>2, <1>3, <1>6
<1>8. items \in Seq(Levels[k]) /\ Len(items) = N
  BY <1>1, <1>6
<1>9. \A i \in 1 .. N : items[i].type \in 1 .. 12 /\ items[i].name = node.items[i].name
  BY <1>6, <1>7
<1>10. \A i \in 1 .. N : items[i] = IF i = j THEN new ELSE node.items[i]
  OBVIOUS
<1> HIDE DEF items
<1>11. \A i \in 1 .. Len(items) : \A h \in 1 .. Len(items) : items[i].name = items[h].name => i = h
  <2>1. WellFormed(node) /\ node.type = NBT.COMPOUND
    BY <1>1, NodeFacts, TypeCodes
  <2>2. \A i \in 1 .. N : \A h \in 1 .. N : node.items[i].name = node.items[h].name => i = h
    BY <2>1, <1>4, Zenon DEF WellFormed
  <2> QED BY <2>2, <1>8, <1>9
<1>12. v \in Levels[k + 1]
  BY <1>1, <1>8, <1>9, <1>11, CompoundIn
<1>13. v.name = node.name /\ v.type = 10 /\ v.items = items
  BY DEF Node
<1> HIDE DEF v
<1>14. k + 1 \in 0 .. Top
  BY TopType
<1> DEFINE F == Tags(node)
           G == Tags(v)
           c == Joined(F, N)
           h == Joined(G, N)
           e == TagsEnd(node, j - 1)
<1>15. IsJoined(c, F, N) /\ \A i \in 1 .. N : F[i] = TagBytes(node.items[i]) /\ F[i] \in Text
  BY <1>1, TagsText
<1>16. IsJoined(h, G, N) /\ \A i \in 1 .. N : G[i] = TagBytes(items[i]) /\ G[i] \in Text
  BY <1>8, <1>12, <1>13, <1>14, TagsText
<1>17. e = Len(c[j - 1])
  BY DEF TagsEnd
<1>18. Spliced(G[j], F[j], q, n, b) /\ \A i \in 1 .. N : i # j => G[i] = F[i]
  BY <1>2, <1>3, <1>10, <1>15, <1>16
<1>19. Spliced(h[N], c[N], e + q, n, b)
  <2> HIDE DEF F, G, c, h, e, N
  <2>1. \A i \in 1 .. N : F[i] \in Text
    BY <1>15
  <2>2. \A i \in 1 .. N : G[i] \in Text
    BY <1>16
  <2>3. \A i \in 1 .. N : i # j => G[i] = F[i]
    BY <1>18
  <2>4. N \in Nat /\ j \in 1 .. N
    BY <1>1, <1>3
  <2>5. Spliced(h[N], c[N], Len(c[j - 1]) + q, n, b)
    BY <2>1, <2>2, <2>3, <2>4, <1>15, <1>16, <1>18, JoinedSpliced
  <2> QED BY <2>5, <1>17
<1>20. Len(v.items) = N
  BY <1>8, <1>13
<1> HIDE DEF e
<1>21. Spliced(TagBytes(v), TagBytes(node), (3 + Len(node.name)) + (e + q), n, b)
  <2>1. Spliced(Joined(Tags(v), Len(v.items))[Len(v.items)], Joined(Tags(node), Len(node.items))[Len(node.items)], e + q, n, b)
    BY <1>19, <1>20
  <2> QED BY <2>1, <1>1, <1>12, <1>13, <1>14, CompoundSpliced
<1> QED BY <1>1, <1>5, <1>12, <1>13, <1>21 DEF e, j

\* A change of the node on a path changes the document there.
LEMMA ChangedAt ==
    ASSUME NEW d \in Text, Len(d) < SizeLimit, NEW m \in 0 .. Top, m < Top, NEW node \in Levels[m], node.type = 10,
           Holds(d, 0, TagBytes(node)), NEW path, IsPath(node, path),
           NEW new, new \in Levels[m - Len(path) + 1],
           new.name = NodeAt(node, path).name, new.type = NodeAt(node, path).type,
           NEW q, NEW n, NEW b, Spliced(TagBytes(new), TagBytes(NodeAt(node, path)), q, n, b)
    PROVE  /\ Changed(node, path, new) \in Levels[m + 1] /\ Changed(node, path, new).type = 10
           /\ Spliced(TagBytes(Changed(node, path, new)), TagBytes(node), TagsAlong(d, path)[Len(path)] + q, n, b)
<1> DEFINE N == Len(path)
           v(i) == NodesAlong(node, path)[i]
           t(i) == TagsAlong(d, path)[i]
           up(i) == Rebuilt(node, path, new)[i]
           Q(i) == /\ up(i) \in Levels[m - (N - i) + 1] /\ up(i).name = v(N - i).name /\ up(i).type = v(N - i).type
                   /\ Spliced(TagBytes(up(i)), TagBytes(v(N - i)), (t(N) + q) - t(N - i), n, b)
           S == {i \in 0 .. N : Q(i)}
<1>1. N \in Nat /\ \A i \in 1 .. N : Named(v(i - 1), path[i]) # {}
  BY DEF IsPath
<1>2. v(0) = node /\ \A i \in 1 .. N : v(i) = Child(v(i - 1), path[i])
  <2>1. N \in Nat /\ Len(path) = N
    BY <1>1
  <2> HIDE DEF N
  <2> QED BY <2>1, NodesAlongDef, SMTT(30)
<1>3. t(0) = 0 /\ \A i \in 1 .. N : t(i) = FindStep(d, t(i - 1), path[i])
  BY <1>1, TagsAlongDef
<1>4. up(0) = new /\ \A i \in 1 .. N : up(i) = WithChild(v(N - i), path[N - i + 1], up(i - 1))
  BY <1>1, RebuiltDef
<1>5. \A i \in 0 .. N : OnPath(d, m, node, path, i)
  BY PathAt, TypeCodes
<1>6. \A i \in 0 .. N : i <= m /\ v(i) \in Levels[m - i] /\ Holds(d, t(i), TagBytes(v(i)))
  BY <1>5 DEF OnPath
<1>7. \A i \in 0 .. N : t(i) \in Nat
  BY <1>6 DEF Holds
<1>8. q \in Nat
  BY DEF Spliced
<1>9. new.name = v(N).name /\ new.type = v(N).type /\ Spliced(TagBytes(new), TagBytes(v(N)), q, n, b) /\ new \in Levels[m - N + 1]
  BY DEF NodeAt
<1> HIDE DEF N, v, t, up
<1>10. 0 \in S
  <2>1. N - 0 = N /\ N \in 0 .. N
    BY <1>1
  <2>2. (t(N) + q) - t(N) = q
    BY <1>7, <1>8, <2>1
  <2> QED BY <1>1, <1>4, <1>9, <2>1, <2>2
<1>11. ASSUME NEW i \in 1 .. N, i - 1 \in S PROVE i \in S
  <2> DEFINE a == N - i
             w == v(a)
             name == path[a + 1]
             k == m - a
             u == up(i - 1)
             o == (t(N) + q) - t(a + 1)
  <2>1. a \in 0 .. N /\ a + 1 \in 1 .. N /\ (a + 1) - 1 = a /\ N - (i - 1) = a + 1 /\ N - i + 1 = a + 1
    BY <1>1
  <2>2. /\ u \in Levels[m - (a + 1) + 1] /\ u.name = v(a + 1).name /\ u.type = v(a + 1).type
        /\ Spliced(TagBytes(u), TagBytes(v(a + 1)), o, n, b)
    BY <1>11, <2>1
  <2>3. up(i) = WithChild(w, name, u) /\ v(a + 1) = Child(w, name) /\ Named(w, name) # {} /\ t(a + 1) = FindStep(d, t(a), name)
    BY <1>1, <1>2, <1>3, <1>4, <2>1
  <2>4. a <= m /\ w \in Levels[k] /\ Holds(d, t(a), TagBytes(w)) /\ t(a) \in Nat /\ t(a + 1) \in Nat /\ t(N) \in Nat
    <3>1. a + 1 \in 0 .. N /\ N \in 0 .. N
      BY <1>1, <2>1
    <3> QED BY <1>6, <1>7, <2>1, <3>1
  <2>5. k \in 0 .. Top /\ k < Top /\ m - (a + 1) + 1 = k
    BY <2>1, <2>4, TopType, SMTT(30)
  <2> HIDE DEF a, w, name, k, u, o
  <2>6. t(a + 1) = t(a) + (3 + Len(w.name)) + TagsEnd(w, Index(w, name) - 1)
    BY <2>3, <2>4, <2>5, StepAt
  <2>7. /\ up(i) \in Levels[k + 1] /\ up(i).name = w.name /\ up(i).type = w.type
        /\ Spliced(TagBytes(up(i)), TagBytes(w), (3 + Len(w.name)) + (TagsEnd(w, Index(w, name) - 1) + o), n, b)
    BY <2>2, <2>3, <2>4, <2>5, ChildReplaced
  <2>8. (3 + Len(w.name)) + (TagsEnd(w, Index(w, name) - 1) + o) = (t(N) + q) - t(a)
    <3>1. Len(w.name) \in Nat /\ TagsEnd(w, Index(w, name) - 1) \in Nat
      <4>1. w.type = 10 /\ Index(w, name) \in 1 .. Len(w.items) /\ Len(w.items) \in Nat
        BY <2>3, <2>4, <2>5, StepAt, NodeFacts
      <4>2. Index(w, name) - 1 \in 0 .. Len(w.items)
        BY <4>1
      <4> QED BY <2>4, <2>5, <4>1, <4>2, CompoundLayout, NodeFacts
    <3> DEFINE x == Len(w.name)
               y == TagsEnd(w, Index(w, name) - 1)
               z == t(a)
               r == t(N)
               s == t(a + 1)
    <3>2. x \in Nat /\ y \in Nat /\ z \in Nat /\ r \in Nat /\ s = z + (3 + x) + y /\ o = (r + q) - s
      BY <2>4, <2>6, <3>1 DEF o
    <3> HIDE DEF x, y, z, r, s
    <3>3. (3 + x) + (y + o) = (r + q) - z
      BY <3>2, <1>8
    <3> QED BY <3>3 DEF x, y, z, r
  <2>9. m - (N - i) + 1 = k + 1
    BY DEF k, a
  <2> QED BY <2>7, <2>8, <2>9 DEF a, w
<1> HIDE DEF S
<1>12. \A i \in 0 .. N : i \in S
  BY <1>1, <1>10, <1>11, BoundedInduction
<1>13. N \in S /\ N - N = 0 /\ m - 0 + 1 = m + 1
  BY <1>1, <1>12, TopType
<1>14. (t(N) + q) - 0 = t(N) + q
  BY <1>1, <1>7, <1>8
<1>15. Q(N)
  BY <1>13 DEF S
<1>16. up(N) \in Levels[m + 1] /\ up(N).type = 10 /\ Spliced(TagBytes(up(N)), TagBytes(node), t(N) + q, n, b)
  BY <1>15, <1>13, <1>14, <1>2, <1>3
<1> QED BY <1>16 DEF Changed, up, t, N

LEMMA RemovedItem ==
    ASSUME NEW V, NEW s \in Seq(V), NEW j \in 1 .. Len(s)
    PROVE  /\ RemoveAt(s, j) \in Seq(V) /\ Len(RemoveAt(s, j)) = Len(s) - 1
           /\ \A i \in 1 .. Len(s) - 1 : RemoveAt(s, j)[i] = IF i < j THEN s[i] ELSE s[i + 1]
<1> DEFINE n == Len(s)
           a == SubSeq(s, 1, j - 1)
           b == SubSeq(s, j + 1, n)
           c == RemoveAt(s, j)
<1>1. n \in Nat
  OBVIOUS
<1>2. a \in Seq(V) /\ Len(a) = j - 1 /\ \A i \in 1 .. j - 1 : a[i] = s[i]
  OBVIOUS
<1>3. b \in Seq(V) /\ Len(b) = n - j /\ \A i \in 1 .. n - j : b[i] = s[i + j]
  OBVIOUS
<1>4. c = a \o b
  BY DEF RemoveAt
<1> HIDE DEF a, b, c
<1>5. c \in Seq(V) /\ Len(c) = n - 1 /\ (\A i \in 1 .. j - 1 : c[i] = a[i]) /\ \A i \in j .. n - 1 : c[i] = b[i - (j - 1)]
  BY <1>1, <1>2, <1>3, <1>4, SMTT(30)
<1>6. ASSUME NEW i \in 1 .. n - 1 PROVE c[i] = IF i < j THEN s[i] ELSE s[i + 1]
  <2>1. CASE i < j
    BY <2>1, <1>1, <1>2, <1>5
  <2>2. CASE ~(i < j)
    <3> DEFINE h == i - (j - 1)
    <3>1. h \in 1 .. n - j /\ h + j = i + 1 /\ i \in j .. n - 1
      BY <2>2, <1>1
    <3>2. b[h] = s[h + j] /\ c[i] = b[h]
      BY <3>1, <1>3, <1>5
    <3> QED BY <2>2, <3>1, <3>2
  <2> QED BY <2>1, <2>2
<1> QED BY <1>5, <1>6 DEF c

\* A compound without its child of that name.
LEMMA DeletedAt ==
    ASSUME NEW k \in 0 .. Top, k < Top, NEW node \in Levels[k], NEW name, Named(node, name) # {}
    PROVE  /\ DeletedFrom(node, name) \in Levels[k + 1]
           /\ DeletedFrom(node, name).name = node.name /\ DeletedFrom(node, name).type = node.type
           /\ Spliced(TagBytes(DeletedFrom(node, name)), TagBytes(node), (3 + Len(node.name)) + TagsEnd(node, Index(node, name) - 1),
                      Len(TagBytes(Child(node, name))), <<>>)
<1> DEFINE N == Len(node.items)
           j == Index(node, name)
           s == node.items
           items == RemoveAt(s, j)
           v == Node(node.name, 10, node.raw, node.elem, items)
<1>1. node.type = 10 /\ N \in Nat
  BY TypeCodes, NodeFacts DEF Named
<1>2. j \in Named(node, name) /\ Child(node, name) = s[j]
  BY DEF Index, Child
<1>3. j \in 1 .. N
  BY <1>1, <1>2, NamedOne
<1>4. DeletedFrom(node, name) = v
  <2>1. DeletedFrom(node, name) = [node EXCEPT !.items = items]
    BY DEF DeletedFrom, Index
  <2> HIDE DEF items
  <2> QED BY <2>1, <1>1, OtherItems
<1> HIDE DEF j
<1>5. s \in Seq(Levels[k])
  BY ItemsIn
<1>6. items \in Seq(Levels[k]) /\ Len(items) = N - 1 /\ \A i \in 1 .. N - 1 : items[i] = IF i < j THEN s[i] ELSE s[i + 1]
  BY <1>3, <1>5, RemovedItem
<1> HIDE DEF items
<1>7. \A i \in 1 .. N : s[i].type \in 1 .. 12
  BY <1>1, CompoundLayout
<1>8. \A i \in 1 .. Len(items) : items[i].type \in 1 .. 12
  BY <1>1, <1>6, <1>7, SMTT(30)
<1>9. \A i \in 1 .. Len(items) : \A h \in 1 .. Len(items) : items[i].name = items[h].name => i = h
  <2>1. WellFormed(node) /\ node.type = NBT.COMPOUND /\ DOMAIN node.items = 1 .. N
    BY <1>1, NodeFacts, TypeCodes
  <2>2. \A i \in 1 .. N : \A h \in 1 .. N : s[i].name = s[h].name => i = h
    BY <2>1, Zenon DEF WellFormed
  <2> DEFINE at(i) == IF i < j THEN i ELSE i + 1
  <2>3. \A i \in 1 .. N - 1 : at(i) \in 1 .. N /\ items[i] = s[at(i)]
    BY <1>1, <1>3, <1>6
  <2>4. \A i, h \in 1 .. N - 1 : at(i) = at(h) => i = h
    BY <1>1, <1>3
  <2> HIDE DEF at
  <2>5. ASSUME NEW i \in 1 .. N - 1, NEW h \in 1 .. N - 1, items[i].name = items[h].name PROVE i = h
    <3>1. s[at(i)].name = s[at(h)].name
      BY <2>3, <2>5
    <3>2. at(i) = at(h)
      BY <2>2, <2>3, <3>1
    <3> QED BY <2>4, <3>2
  <2> QED BY <2>5, <1>6
<1>10. v \in Levels[k + 1]
  BY <1>1, <1>6, <1>8, <1>9, CompoundIn
<1>11. v.name = node.name /\ v.type = 10 /\ v.items = items /\ Len(v.items) = N - 1
  BY <1>6 DEF Node
<1> HIDE DEF v
<1>12. k + 1 \in 0 .. Top
  BY TopType
<1> DEFINE F == Tags(node)
           G == Tags(v)
           c == Joined(F, N)
           h == Joined(G, N - 1)
           e == TagsEnd(node, j - 1)
<1>13. IsJoined(c, F, N) /\ \A i \in 1 .. N : F[i] = TagBytes(s[i]) /\ F[i] \in Text
  BY <1>1, TagsText
<1>14. IsJoined(h, G, N - 1) /\ \A i \in 1 .. N - 1 : G[i] = TagBytes(items[i]) /\ G[i] \in Text
  BY <1>10, <1>11, <1>12, TagsText
<1>15. e = Len(c[j - 1])
  BY DEF TagsEnd
<1>16. \A i \in 1 .. N - 1 : G[i] = IF i < j THEN F[i] ELSE F[i + 1]
  <2>1. \A i \in 1 .. N - 1 : i \in 1 .. N /\ i + 1 \in 1 .. N
    BY <1>1
  <2> HIDE DEF F, G
  <2> QED BY <2>1, <1>6, <1>13, <1>14
<1>17. F[j] = TagBytes(Child(node, name))
  BY <1>2, <1>3, <1>13
<1>18. Spliced(h[N - 1], c[N], e, Len(F[j]), <<>>)
  <2> HIDE DEF F, G, c, h, e, N, s
  <2>1. \A i \in 1 .. N : F[i] \in Text
    BY <1>13
  <2>2. N \in Nat /\ j \in 1 .. N
    BY <1>1, <1>3
  <2>3. Spliced(h[N - 1], c[N], Len(c[j - 1]), Len(F[j]), <<>>)
    BY <2>1, <2>2, <1>13, <1>14, <1>16, JoinedWithout
  <2> QED BY <2>3, <1>15
<1> HIDE DEF e
<1>19. Spliced(TagBytes(v), TagBytes(node), (3 + Len(node.name)) + e, Len(F[j]), <<>>)
  <2>1. Spliced(Joined(Tags(v), Len(v.items))[Len(v.items)], Joined(Tags(node), Len(node.items))[Len(node.items)], e, Len(F[j]), <<>>)
    BY <1>11, <1>18
  <2> HIDE DEF F
  <2> QED BY <2>1, <1>1, <1>10, <1>11, <1>12, CompoundSpliced
<1> QED BY <1>1, <1>4, <1>10, <1>11, <1>17, <1>19 DEF e, j

--------------------------------------------------------------------------------
(* Edits: lists of zeros                                                   *)

AllZero(x) == x \in Text /\ Len(x) \in Nat /\ \A i \in 1 .. Len(x) : x[i] = 0

LEMMA ZerosJoin ==
    ASSUME NEW a, NEW b, AllZero(a), AllZero(b), NEW c, IsJoin(c, a, b)
    PROVE  AllZero(c)
<1>1. /\ Len(a) \in Nat /\ Len(b) \in Nat /\ c \in Text /\ Len(c) = Len(a) + Len(b)
  BY DEF AllZero, IsJoin
<1>2. ASSUME NEW i \in 1 .. Len(c) PROVE c[i] = 0
  <2>1. CASE i <= Len(a)
    <3>1. i \in 1 .. Len(a)
      BY <2>1, <1>1
    <3> QED BY <3>1 DEF IsJoin, AllZero
  <2>2. CASE i > Len(a)
    <3> DEFINE h == i - Len(a)
    <3>1. h \in 1 .. Len(b) /\ Len(a) + h = i
      BY <2>2, <1>1
    <3> HIDE DEF h
    <3>2. c[Len(a) + h] = b[h] /\ b[h] = 0
      BY <3>1 DEF IsJoin, AllZero
    <3> QED BY <3>1, <3>2
  <2> QED BY <2>1, <2>2, <1>1
<1> QED BY <1>1, <1>2 DEF AllZero

LEMMA NoZeros == AllZero(<<>>) /\ Len(<<>>) = 0 /\ AllZero(<<0>>) /\ Len(<<0>>) = 1
BY ByteText DEF AllZero, Text

LEMMA ZeroEnc ==
    /\ AllZero(beu16_enc(0)) /\ Len(beu16_enc(0)) = 2
    /\ AllZero(bei32_enc(0)) /\ Len(bei32_enc(0)) = 4
<1>1. 0 \in 0 .. Pairs - 1 /\ Pairs \in Nat /\ Pairs > 0
  BY PairsType
<1>2. AllZero(beu16_enc(0)) /\ Len(beu16_enc(0)) = 2
  <2> DEFINE e == beu16_enc(0)
  <2>1. e \in Text /\ Len(e) = 2 /\ e[1] = 0 \div ByteValues /\ e[1] * ByteValues + e[2] = 0
    BY <1>1, Enc16
  <2>2. 0 \div ByteValues = 0 /\ ByteValues \in Nat
    BY NbtAssumption
  <2> HIDE DEF e
  <2>3. e[2] \in Nat
    BY <2>1, TextFacts, SMTT(30)
  <2>4. e[1] = 0
    BY <2>1, <2>2
  <2>5. e[2] = 0
    <3>1. 0 * ByteValues = 0
      BY <2>2
    <3> QED BY <2>1, <2>3, <2>4, <3>1
  <2>6. \A i \in 1 .. 2 : i = 1 \/ i = 2
    OBVIOUS
  <2>7. AllZero(e) /\ Len(e) = 2
    BY <2>1, <2>4, <2>5, <2>6 DEF AllZero
  <2> QED BY <2>7 DEF e
<1>3. AllZero(bei32_enc(0)) /\ Len(bei32_enc(0)) = 4
  <2>1. 0 \in 0 .. MaxLength
    BY LengthBound
  <2>2. 0 \div Pairs = 0 /\ 0 % Pairs = 0
    BY <1>1
  <2>3. bei32_enc(0) = beu16_enc(0 \div Pairs) \o beu16_enc(0 % Pairs) /\ Len(bei32_enc(0)) = 4
    BY <2>1, Enc32
  <2> DEFINE e == beu16_enc(0)
  <2>4. bei32_enc(0) = e \o e
    BY <2>2, <2>3
  <2>5. AllZero(e)
    BY <1>2
  <2> HIDE DEF e
  <2>6. IsJoin(e \o e, e, e)
    BY <2>5, ConcatText DEF AllZero
  <2>7. AllZero(e \o e)
    BY <2>5, <2>6, ZerosJoin
  <2> QED BY <2>3, <2>4, <2>7
<1> QED BY <1>2, <1>3

\* The elements of a new list are nodes, and zeros.
LEMMA ZeroNodeIn ==
    ASSUME NEW type \in 1 .. 12
    PROVE  /\ ZeroNode(<<>>, type) \in Levels[0] /\ ZeroNode(<<>>, type).type = type
           /\ AllZero(PayloadBytes[ZeroNode(<<>>, type)])
           /\ Len(PayloadBytes[ZeroNode(<<>>, type)]) = type_zero_size(type)
<1> DEFINE raw == IF type \in Fixed THEN zeros(type_zero_size(type)) ELSE <<>>
           v == ZeroNode(<<>>, type)
<1>1. v.name = <<>> /\ v.type = type /\ v.raw = raw /\ v.elem = 0 /\ v.items = <<>>
  BY TypeCodes DEF ZeroNode, Node
<1>2. type_zero_size(type) \in Nat
  BY ZeroSizeType
<1>3. <<>> \in Text /\ Len(<<>>) = 0 /\ DOMAIN <<>> = {}
  BY DEF Text
<1>4. raw \in Text /\ (type \in Fixed => Len(raw) = type_zero_size(type)) /\ (type \notin Fixed => raw = <<>>)
  BY <1>2, <1>3, ZerosText
<1>5. v \in [name : Text, type : Types, raw : Text, elem : Types, items : {<<>>}]
  <2>1. type \in Types /\ NBT.ZERO \in Types
    BY TypeCodes
  <2> HIDE DEF raw
  <2>2. v = Node(<<>>, type, raw, NBT.ZERO, <<>>)
    BY DEF ZeroNode, raw
  <2> QED BY <2>1, <2>2, <1>3, <1>4 DEF Node
<1> HIDE DEF raw, v
<1>6. WellFormed(v)
  <2>1. Len(v.name) < Pairs
    BY <1>1, <1>3, PairsType
  <2>2. v.type \in Fixed \cup {NBT.ZERO} => Len(v.raw) = type_zero_size(v.type)
    BY <1>1, <1>4, TypeCodes
  <2>3. v.type \in Arrays =>
          \E length \in 0 .. Len(v.raw) : length <= MaxLength /\ Len(v.raw) = length * ElemSize(v.type)
    <3> SUFFICES ASSUME type \in Arrays
                 PROVE  \E length \in 0 .. Len(v.raw) : length <= MaxLength /\ Len(v.raw) = length * ElemSize(type)
      BY <1>1
    <3>1. Len(v.raw) = 0
      BY <1>1, <1>3, <1>4, TypeCodes
    <3>2. 0 \in 0 .. Len(v.raw) /\ 0 <= MaxLength
      BY <3>1, LengthBound
    <3>3. 0 * ElemSize(type) = 0
      BY TypeCodes, ElemSizes
    <3> QED BY <3>1, <3>2, <3>3
  <2>4. v.type = NBT.STRING => Len(v.raw) < Pairs
    BY <1>1, <1>3, <1>4, TypeCodes, PairsType
  <2>5. Len(v.items) <= MaxLength /\ DOMAIN v.items = {}
    BY <1>1, <1>3, LengthBound
  <2> QED BY <2>1, <2>2, <2>3, <2>4, <2>5 DEF WellFormed
<1>7. v \in Levels[0]
  BY <1>5, <1>6, LevelsDef DEF NodesAbove
<1>8. 0 \in 0 .. Top
  BY TopType
<1> DEFINE bytes == PayloadBytes[v]
           parts == Parts(v)
<1>9. bytes = PayloadOf(v, parts)
  BY <1>7, <1>8, InNodes, PayloadBytesDef
<1>10. Shape(v, bytes)
  BY <1>7, <1>8, Shapes
<1> HIDE DEF bytes, parts
<1>11. CASE type \in Fixed
  <2>1. bytes = raw
    <3>1. v.type \in 0 .. 6
      BY <1>1, <1>11, TypeCodes
    <3>2. PayloadOf(v, parts) = v.raw
      BY <3>1, PayloadCases
    <3> QED BY <1>1, <1>9, <3>2
  <2>2. raw = zeros(type_zero_size(type))
    BY <1>11 DEF raw
  <2>3. AllZero(raw)
    BY <2>2, <1>2, ZerosText DEF AllZero
  <2> QED BY <1>1, <1>4, <1>7, <1>11, <2>1, <2>3 DEF v, bytes
<1>12. CASE type \in Arrays
  <2>1. type_zero_size(type) = 4 /\ type \notin Fixed /\ ElemSize(type) \in Nat /\ ElemSize(type) > 0
    BY <1>12, TypeCodes, ZeroSizes, ElemSizes
  <2>2. bytes = bei32_enc(0 \div ElemSize(type)) \o <<>>
    BY <1>1, <1>3, <1>4, <1>9, <1>12, <2>1, PayloadCases
  <2>3. 0 \div ElemSize(type) = 0
    BY <2>1
  <2>4. bytes = bei32_enc(0) \o <<>>
    BY <2>2, <2>3
  <2>5. AllZero(bytes) /\ Len(bytes) = 4
    <3> DEFINE e == bei32_enc(0)
    <3>1. AllZero(e) /\ Len(e) = 4
      BY ZeroEnc
    <3> HIDE DEF e
    <3>2. IsJoin(e \o <<>>, e, <<>>)
      BY <3>1, <1>3, ConcatText DEF AllZero
    <3>3. AllZero(e \o <<>>) /\ Len(e \o <<>>) = 4
      BY <3>1, <3>2, <1>3, NoZeros, ZerosJoin DEF IsJoin
    <3> QED BY <3>3, <2>4 DEF e
  <2> QED BY <1>1, <1>7, <2>1, <2>5 DEF v, bytes
<1>13. CASE type = 8
  <2>1. type_zero_size(type) = 2 /\ type \notin Fixed
    BY <1>13, TypeCodes, ZeroSizes
  <2>2. bytes = beu16_enc(0) \o <<>>
    BY <1>1, <1>3, <1>4, <1>9, <1>13, <2>1, PayloadCases
  <2>3. AllZero(bytes) /\ Len(bytes) = 2
    <3> DEFINE e == beu16_enc(0)
    <3>1. AllZero(e) /\ Len(e) = 2
      BY ZeroEnc
    <3> HIDE DEF e
    <3>2. IsJoin(e \o <<>>, e, <<>>)
      BY <3>1, <1>3, ConcatText DEF AllZero
    <3>3. AllZero(e \o <<>>) /\ Len(e \o <<>>) = 2
      BY <3>1, <3>2, <1>3, NoZeros, ZerosJoin DEF IsJoin
    <3> QED BY <3>3, <2>2 DEF e
  <2> QED BY <1>1, <1>7, <2>1, <2>3 DEF v, bytes
<1>14. CASE type = 9
  <2>1. type_zero_size(type) = 5
    BY <1>14, ZeroSizes
  <2> DEFINE head == ListHead(0, 0)
             c == Joined(parts, 0)
             e == bei32_enc(0)
  <2>2. IsJoin(bytes, head, c[0]) /\ c[0] = <<>>
    <3>1. ListShape(v, bytes) /\ v.type = 9 /\ v.elem = 0 /\ Len(v.items) = 0
      BY <1>1, <1>3, <1>10, <1>14 DEF Shape
    <3> QED BY <3>1 DEF ListShape, IsJoined, parts
  <2>3. IsJoin(head, <<0>>, e) /\ Len(head) = 5
    BY LengthBound, ListHeadFacts
  <2>4. AllZero(e)
    BY ZeroEnc
  <2> HIDE DEF head, c, e
  <2>5. AllZero(head)
    BY <2>3, <2>4, NoZeros, ZerosJoin
  <2>6. AllZero(bytes) /\ Len(bytes) = 5
    <3>1. IsJoin(bytes, head, <<>>)
      BY <2>2
    <3>2. AllZero(bytes)
      BY <3>1, <2>5, NoZeros, ZerosJoin
    <3>3. Len(bytes) = Len(head) + Len(<<>>)
      BY <3>1 DEF IsJoin
    <3> QED BY <3>2, <3>3, <2>3, NoZeros
  <2> QED BY <1>1, <1>7, <2>1, <2>6 DEF v, bytes
<1>15. CASE type = 10
  <2>1. type_zero_size(type) = 1
    BY <1>15, ZeroSizes
  <2> DEFINE c == Joined(Tags(v), 0)
  <2>2. IsJoin(bytes, c[0], <<0>>) /\ c[0] = <<>>
    <3>1. CompoundShape(v, bytes) /\ v.type = 10 /\ Len(v.items) = 0
      BY <1>1, <1>3, <1>10, <1>15 DEF Shape
    <3> QED BY <3>1 DEF CompoundShape, IsJoined
  <2> HIDE DEF c
  <2>3. AllZero(bytes) /\ Len(bytes) = 1
    BY <2>2, NoZeros, ZerosJoin DEF IsJoin
  <2> QED BY <1>1, <1>7, <2>1, <2>3 DEF v, bytes
<1> QED BY <1>11, <1>12, <1>13, <1>14, <1>15, TypeCodes

\* The payload of a list of `length' zeros of that type.
ZeroList(bytes, type, length) ==
  /\ bytes \in Text /\ Len(bytes) = 5 + length * type_zero_size(type)
  /\ \E x \in Text : AllZero(x) /\ Len(x) = length * type_zero_size(type) /\ IsJoin(bytes, ListHead(type, length), x)

\* A list of another type.
LEMMA RetypedAt ==
    ASSUME NEW k \in 0 .. Top, k < Top, NEW node \in Levels[k], node.type = 9,
           NEW type \in 1 .. 12, type # node.elem, NEW length \in 0 .. MaxLength
    PROVE  /\ Resized(node, type, length) \in Levels[k + 1]
           /\ Resized(node, type, length).name = node.name /\ Resized(node, type, length).type = node.type
           /\ ZeroList(PayloadBytes[Resized(node, type, length)], type, length)
           /\ Spliced(TagBytes(Resized(node, type, length)), TagBytes(node), (3 + Len(node.name)) + 0, Size(node),
                      PayloadBytes[Resized(node, type, length)])
<1> DEFINE zero == ZeroNode(<<>>, type)
           items == [i \in 1 .. length |-> zero]
           v == Node(node.name, 9, node.raw, type, items)
<1>1. length \in Nat
  BY LengthBound
<1>2. zero \in Levels[0] /\ zero.type = type /\ AllZero(PayloadBytes[zero]) /\ Len(PayloadBytes[zero]) = type_zero_size(type)
  BY ZeroNodeIn
<1>3. Resized(node, type, length) = v
  <2> DEFINE new == [i \in 1 .. length |-> IF i <= Len(<<>>) THEN <<>>[i] ELSE zero]
  <2>1. new = items
    <3>1. \A i \in 1 .. length : ~(i <= Len(<<>>))
      OBVIOUS
    <3> HIDE DEF zero
    <3> QED BY <3>1
  <2>2. type # NBT.ZERO
    BY TypeCodes
  <2>3. Resized(node, type, length) = [node EXCEPT !.elem = type, !.items = new]
    BY <2>2, Zenon DEF Resized
  <2> HIDE DEF new, items
  <2> DEFINE a == [node EXCEPT !.elem = type]
             n1 == node.name
             n2 == node.raw
             n3 == node.elem
             n4 == node.items
  <2>4. node = [name |-> n1, type |-> 9, raw |-> n2, elem |-> n3, items |-> n4]
    <3>1. node = Node(node.name, node.type, node.raw, node.elem, node.items)
      BY NodeFacts
    <3> QED BY <3>1 DEF Node
  <2>5. [node EXCEPT !.elem = type, !.items = items] = [a EXCEPT !.items = items]
    OBVIOUS
  <2> HIDE DEF n1, n2, n3, n4
  <2>6. a = [name |-> n1, type |-> 9, raw |-> n2, elem |-> type, items |-> n4]
    BY <2>4
  <2> HIDE DEF a
  <2>7. [a EXCEPT !.items = items] = [name |-> n1, type |-> 9, raw |-> n2, elem |-> type, items |-> items]
    BY <2>6
  <2> QED BY <2>1, <2>3, <2>5, <2>7 DEF Node, n1, n2
<1> HIDE DEF zero
<1>4. zero \in Levels[k]
  <2>1. 0 \in 0 .. Top /\ 0 <= k
    BY TopType
  <2> QED BY <1>2, <2>1, LevelsOrder
<1>5. items \in Seq(Levels[k]) /\ Len(items) = length /\ DOMAIN items = 1 .. length
  BY <1>1, <1>4
<1>6. \A i \in 1 .. length : items[i] = zero
  OBVIOUS
<1> HIDE DEF items
<1>7. v.name = node.name /\ v.type = 9 /\ v.elem = type /\ v.items = items
  BY DEF Node
<1>8. node.name \in Text /\ node.raw \in Text /\ Len(node.name) < Pairs
  BY NodeFacts
<1>9. WellFormed(v)
  <2>1. 9 \notin Fixed \cup {NBT.ZERO} /\ 9 \notin Arrays /\ 9 # NBT.STRING /\ 9 # NBT.COMPOUND
    BY TypeCodes
  <2>2. Len(items) <= MaxLength /\ \A i \in DOMAIN items : items[i].type = type
    BY <1>2, <1>5, <1>6
  <2> HIDE DEF v
  <2> QED BY <1>7, <1>8, <2>1, <2>2 DEF WellFormed
<1>10. v \in Levels[k + 1]
  <2>1. type \in 0 .. 12
    OBVIOUS
  <2> QED BY <1>5, <1>8, <1>9, <2>1, NodeIn
<1> HIDE DEF v
<1>11. k + 1 \in 0 .. Top
  BY TopType
<1> DEFINE bytes == PayloadBytes[v]
           F == Parts(v)
           c == Joined(F, length)
           z == type_zero_size(type)
<1>12. bytes \in Text /\ IsJoined(c, F, length) /\ IsJoin(bytes, ListHead(type, length), c[length])
  <2>1. Shape(v, bytes)
    BY <1>10, <1>11, Shapes
  <2>2. bytes \in Text /\ ListShape(v, bytes)
    BY <2>1 DEF Shape
  <2> QED BY <2>2, <1>5, <1>7 DEF ListShape
<1>13. \A i \in 1 .. length : F[i] = PayloadBytes[zero]
  BY <1>5, <1>6, <1>7 DEF Parts
<1>14. \A i \in 1 .. length : F[i] \in Text /\ AllZero(F[i]) /\ Len(F[i]) = z
  BY <1>2, <1>13 DEF AllZero
<1>15. z \in Nat
  BY ZeroSizeType
<1> HIDE DEF F, c, z, bytes
<1>16. Len(c[length]) = length * z
  <2>1. SUFFICES ASSUME NEW n \in Nat, n = length PROVE Len(c[n]) = n * z
    BY <1>1
  <2>2. \A i \in 1 .. n : F[i] \in Text
    BY <1>14, <2>1
  <2>3. \A i \in 1 .. n : Len(F[i]) = z
    BY <1>14, <2>1
  <2>4. IsJoined(c, F, n)
    BY <1>12, <2>1
  <2> QED BY <2>2, <2>3, <2>4, <1>15, EqualLengths
<1>17. AllZero(c[length]) /\ c[length] \in Text
  <2> DEFINE S == {i \in 0 .. length : AllZero(c[i])}
  <2>1. 0 \in S
    BY <1>1, <1>12, NoZeros DEF IsJoined
  <2>2. ASSUME NEW i \in 1 .. length, i - 1 \in S PROVE i \in S
    <3>1. IsJoin(c[i], c[i - 1], F[i]) /\ AllZero(c[i - 1]) /\ AllZero(F[i])
      BY <1>12, <1>14, <2>2 DEF IsJoined
    <3>2. AllZero(c[i])
      BY <3>1, ZerosJoin
    <3> QED BY <3>2
  <2> HIDE DEF S
  <2>3. \A i \in 0 .. length : i \in S
    BY <1>1, <2>1, <2>2, BoundedInduction
  <2>4. length \in S
    BY <1>1, <2>3
  <2> QED BY <2>4 DEF S, AllZero
<1>18. ZeroList(bytes, type, length)
  <2> DEFINE head == ListHead(type, length)
             x == c[length]
  <2>1. Len(head) = 5
    BY ListHeadFacts
  <2>2. Len(x) = length * z
    BY <1>16
  <2> HIDE DEF head, x
  <2>3. Len(bytes) = 5 + length * z
    BY <2>1, <2>2, <1>12 DEF IsJoin, head, x
  <2>4. x \in Text /\ AllZero(x) /\ IsJoin(bytes, head, x)
    BY <1>12, <1>17 DEF head, x
  <2> QED BY <2>2, <2>3, <2>4, <1>12 DEF ZeroList, z, head
<1>19. Spliced(bytes, PayloadBytes[node], 0, Size(node), bytes)
  BY <1>12, PayloadText, SplicedWhole DEF Size
<1>20. Spliced(TagBytes(v), TagBytes(node), (3 + Len(node.name)) + 0, Size(node), bytes)
  <2> DEFINE head == TagHead(node)
  <2>1. IsJoin(TagBytes(node), head, PayloadBytes[node]) /\ IsJoin(TagBytes(v), TagHead(v), bytes)
    BY <1>10, <1>11, PayloadText DEF bytes
  <2>2. TagHead(v) = head
    BY <1>7 DEF TagHead
  <2>3. head \in Text /\ Len(head) = 3 + Len(node.name)
    BY TagHeadFacts
  <2> HIDE DEF head
  <2>4. Spliced(TagBytes(v), TagBytes(node), Len(head) + 0, Size(node), bytes)
    BY <1>19, <2>1, <2>2, <2>3, SplicedBehind
  <2> QED BY <2>3, <2>4
<1> QED BY <1>3, <1>7, <1>10, <1>18, <1>20 DEF bytes

--------------------------------------------------------------------------------
(* Edits: the buffer                                                       *)

Moves(r, m, dst, src, n) ==
  /\ r \in Text /\ Len(r) = Len(m)
  /\ \A i \in 1 .. Len(m) : r[i] = IF dst < i /\ i <= dst + n THEN m[src + i - dst] ELSE m[i]
Puts(r, m, p, b) ==
  /\ r \in Text /\ Len(r) = Len(m)
  /\ \A i \in 1 .. Len(m) : r[i] = IF p < i /\ i <= p + Len(b) THEN b[i - p] ELSE m[i]

LEMMA TextIs ==
    /\ Text = Seq(Byte)
    /\ \A m \in Text : /\ Len(m) \in Nat /\ DOMAIN m = 1 .. Len(m)
                       /\ \A i \in 1 .. Len(m) : m[i] \in Byte
<1>1. Text = Seq(Byte)
  BY DEF Text, Byte
<1>2. \A m \in Seq(Byte) : Len(m) \in Nat /\ DOMAIN m = 1 .. Len(m) /\ \A i \in 1 .. Len(m) : m[i] \in Byte
  OBVIOUS
<1> QED BY <1>1, <1>2

LEMMA MoveBytes ==
    ASSUME NEW m \in Text, NEW dst \in Nat, NEW src \in Nat, NEW n \in Nat, src + n <= Len(m)
    PROVE  Moves(memmove(m, dst, src, n), m, dst, src, n)
<1> DEFINE L == Len(m)
           r == [i \in 1 .. L |-> IF dst < i /\ i <= dst + n THEN m[src + i - dst] ELSE m[i]]
<1>1. L \in Nat /\ DOMAIN m = 1 .. L /\ \A i \in 1 .. L : m[i] \in Byte
  BY TextIs
<1>2. memmove(m, dst, src, n) = r
  BY <1>1 DEF memmove
<1>3. \A i \in 1 .. L : (IF dst < i /\ i <= dst + n THEN m[src + i - dst] ELSE m[i]) \in Byte
  <2>1. \A i \in 1 .. L : dst < i /\ i <= dst + n => src + i - dst \in 1 .. L
    BY <1>1
  <2> HIDE DEF L
  <2> QED BY <1>1, <2>1
<1>4. r \in Seq(Byte) /\ Len(r) = L
  <2> HIDE DEF L
  <2> QED BY <1>1, <1>3
<1>5. \A i \in 1 .. L : r[i] = IF dst < i /\ i <= dst + n THEN m[src + i - dst] ELSE m[i]
  OBVIOUS
<1> QED BY <1>2, <1>4, <1>5, TextIs DEF Moves

LEMMA PutBytes ==
    ASSUME NEW m \in Text, NEW p \in Nat, NEW b \in Text
    PROVE  Puts(Put(m, p, b), m, p, b)
<1> DEFINE L == Len(m)
           l == Len(b)
           r == [i \in 1 .. L |-> IF p < i /\ i <= p + l THEN b[i - p] ELSE m[i]]
<1>1. /\ L \in Nat /\ DOMAIN m = 1 .. L /\ \A i \in 1 .. L : m[i] \in Byte
      /\ l \in Nat /\ \A i \in 1 .. l : b[i] \in Byte
  BY TextIs
<1>2. Put(m, p, b) = r
  BY <1>1 DEF Put
<1>3. \A i \in 1 .. L : (IF p < i /\ i <= p + l THEN b[i - p] ELSE m[i]) \in Byte
  <2>1. \A i \in 1 .. L : p < i /\ i <= p + l => i - p \in 1 .. l
    BY <1>1
  <2> HIDE DEF L, l
  <2> QED BY <1>1, <2>1
<1>4. r \in Seq(Byte) /\ Len(r) = L
  <2> HIDE DEF L, l
  <2> QED BY <1>1, <1>3
<1>5. \A i \in 1 .. L : r[i] = IF p < i /\ i <= p + l THEN b[i - p] ELSE m[i]
  OBVIOUS
<1> QED BY <1>2, <1>4, <1>5, TextIs DEF Puts

LEMMA PutNothing ==
    ASSUME NEW m \in Text
    PROVE  Put(m, 0, <<>>) = m
<1>1. <<>> \in Text /\ Len(<<>>) = 0
  BY DEF Text
<1> DEFINE r == Put(m, 0, <<>>)
           none == <<>>
<1>2. r \in Text /\ Len(r) = Len(m) /\ \A i \in 1 .. Len(m) : r[i] = IF 0 < i /\ i <= 0 + Len(none) THEN none[i - 0] ELSE m[i]
  <2>1. Puts(r, m, 0, none)
    BY <1>1, PutBytes
  <2> HIDE DEF r, none
  <2> QED BY <2>1 DEF Puts
<1>3. Len(none) = 0
  BY <1>1
<1>4. \A i \in 1 .. Len(m) : ~(i <= 0 + Len(none))
  BY <1>3, TextFacts
<1> HIDE DEF r, none
<1>5. r = m
  BY <1>2, <1>4, TextEqual
<1> QED BY <1>5 DEF r

LEMMA FirstBytes ==
    ASSUME NEW m \in Text, NEW n \in 0 .. Len(m)
    PROVE  SubSeq(m, 1, n) \in Text /\ Len(SubSeq(m, 1, n)) = n /\ \A i \in 1 .. n : SubSeq(m, 1, n)[i] = m[i]
<1>1. m \in Seq(Byte) /\ Len(m) \in Nat
  BY TextIs
<1>2. SubSeq(m, 1, n) \in Seq(Byte) /\ Len(SubSeq(m, 1, n)) = n /\ \A i \in 1 .. n : SubSeq(m, 1, n)[i] = m[i]
  BY <1>1
<1> QED BY <1>2, TextIs

\* Bytes are moved over those that are taken out.
MemoryCut(m, e, p, size) == Put(Put(memmove(m, p, p + size, e - (p + size)), 0, <<>>), 0, <<>>)
IsCut(r, m, e, p, size) ==
  /\ r \in Text /\ Len(r) = Len(m) /\ e - size \in 0 .. Len(m)
  /\ Spliced(SubSeq(r, 1, e - size), SubSeq(m, 1, e), p, size, <<>>)
LEMMA CutBytes ==
    ASSUME NEW m \in Text, NEW e \in 0 .. Len(m), NEW p \in Nat, NEW size \in Nat, p + size <= e,
           NEW r, r = MemoryCut(m, e, p, size)
    PROVE  IsCut(r, m, e, p, size)
<1> DEFINE n == e - (p + size)
           L == Len(m)
           a == SubSeq(r, 1, e - size)
           b == SubSeq(m, 1, e)
           none == <<>>
<1>1. L \in Nat
  BY TextFacts
<1>2. n \in Nat /\ p + size \in Nat /\ (p + size) + n <= L /\ p + n = e - size /\ e - size \in 0 .. L
  BY <1>1
<1>3. r = memmove(m, p, p + size, n)
  <2> DEFINE s == memmove(m, p, p + size, n)
  <2>1. Moves(s, m, p, p + size, n)
    <3> HIDE DEF n
    <3> QED BY <1>2, MoveBytes
  <2> HIDE DEF s
  <2>2. Put(Put(s, 0, <<>>), 0, <<>>) = s
    BY <2>1, PutNothing DEF Moves
  <2> QED BY <2>2 DEF s, MemoryCut
<1>4. r \in Text /\ Len(r) = L /\ \A i \in 1 .. L : r[i] = IF p < i /\ i <= p + n THEN m[(p + size) + i - p] ELSE m[i]
  <2> HIDE DEF n
  <2>1. Moves(r, m, p, p + size, n)
    BY <1>2, <1>3, MoveBytes
  <2> QED BY <2>1 DEF Moves
<1>5. a \in Text /\ Len(a) = e - size /\ \A i \in 1 .. e - size : a[i] = r[i]
  BY <1>2, <1>4, FirstBytes
<1>6. b \in Text /\ Len(b) = e /\ \A i \in 1 .. e : b[i] = m[i]
  BY FirstBytes
<1>7. none \in Text /\ Len(none) = 0
  BY DEF Text
<1> HIDE DEF n, L, a, b, none
<1>8. ASSUME NEW i \in 1 .. p PROVE a[i] = b[i]
  <2>1. i \in 1 .. e - size /\ i \in 1 .. L /\ i \in 1 .. e /\ ~(p < i)
    BY <1>1, <1>2
  <2> QED BY <2>1, <1>4, <1>5, <1>6
<1>9. ASSUME NEW i \in 1 .. Len(b) - (p + size) PROVE a[p + Len(none) + i] = b[p + size + i]
  <2>1. /\ p + Len(none) + i = p + i /\ p + i \in 1 .. e - size /\ p + i \in 1 .. L /\ p < p + i /\ p + i <= p + n
        /\ (p + size) + (p + i) - p = p + size + i /\ p + size + i \in 1 .. e
    BY <1>1, <1>2, <1>6, <1>7
  <2>2. a[p + i] = r[p + i] /\ b[p + size + i] = m[p + size + i]
    BY <2>1, <1>5, <1>6
  <2>3. r[p + i] = m[(p + size) + (p + i) - p]
    BY <2>1, <1>4
  <2> QED BY <2>1, <2>2, <2>3
<1>10. p + size <= Len(b) /\ Len(a) = (Len(b) - size) + Len(none) /\ 1 .. Len(none) = {}
  BY <1>1, <1>2, <1>5, <1>6, <1>7
<1>11. Spliced(a, b, p, size, none)
  BY <1>5, <1>6, <1>7, <1>8, <1>9, <1>10 DEF Spliced
<1> QED BY <1>2, <1>4, <1>11 DEF a, b, L, none, IsCut

\* Bytes are moved, and a list of zeros is put where they were.
MemoryRetyped(m, e, p, old, size, type, length) ==
  Put(Put(memmove(m, p + size, p + old, e - (p + old)), p, zeros(size)), p, ListHead(type, length))
IsRetyped(r, m, e, p, old, size, bytes) ==
  /\ r \in Text /\ Len(r) = Len(m) /\ e + (size - old) \in 0 .. Len(m)
  /\ Spliced(SubSeq(r, 1, e + (size - old)), SubSeq(m, 1, e), p, old, bytes)
LEMMA RetypedBytes ==
    ASSUME NEW m \in Text, NEW e \in 0 .. Len(m), NEW p \in Nat, NEW old \in Nat, p + old <= e,
           NEW type \in 1 .. 12, NEW length \in 0 .. MaxLength, NEW bytes, ZeroList(bytes, type, length),
           NEW size \in Nat, size = Len(bytes), e + (size - old) <= Len(m),
           NEW r, r = MemoryRetyped(m, e, p, old, size, type, length)
    PROVE  IsRetyped(r, m, e, p, old, size, bytes)
<1> DEFINE n == e - (p + old)
           L == Len(m)
           E == e + (size - old)
           head == ListHead(type, length)
           z == zeros(size)
           s == memmove(m, p + size, p + old, n)
           t == Put(s, p, z)
           a == SubSeq(r, 1, E)
           b == SubSeq(m, 1, e)
<1>1. L \in Nat /\ size \in Nat /\ size >= 5 /\ Len(bytes) = size /\ bytes \in Text
  <2>1. PICK x \in Text : IsJoin(bytes, head, x)
    BY DEF ZeroList, head
  <2>2. Len(head) = 5
    <3>1. type \in 0 .. 12
      OBVIOUS
    <3> QED BY <3>1, ListHeadFacts
  <2>3. Len(x) \in Nat /\ Len(bytes) = Len(head) + Len(x) /\ bytes \in Text
    BY <2>1, TextFacts DEF IsJoin
  <2> HIDE DEF head
  <2> QED BY <2>2, <2>3, TextFacts
<1>2. /\ n \in Nat /\ p + old \in Nat /\ p + size \in Nat /\ (p + old) + n <= L /\ (p + size) + n = E /\ E \in 0 .. L
      /\ (p + old) + n = e /\ E = e + (size - old) /\ e \in Nat /\ e <= L
  BY <1>1
<1>3. s \in Text /\ Len(s) = L /\ \A i \in 1 .. L : s[i] = IF p + size < i /\ i <= (p + size) + n THEN m[(p + old) + i - (p + size)] ELSE m[i]
  <2> HIDE DEF n
  <2>1. Moves(s, m, p + size, p + old, n)
    BY <1>2, MoveBytes
  <2> HIDE DEF s
  <2> QED BY <2>1 DEF Moves
<1>4. z \in Text /\ Len(z) = size /\ \A i \in 1 .. size : z[i] = 0
  BY <1>1, ZerosText
<1>5. head \in Text /\ Len(head) = 5
  <2>1. type \in 0 .. 12
    OBVIOUS
  <2> QED BY <2>1, ListHeadFacts
<1>6. r = Put(t, p, head)
  BY DEF MemoryRetyped
<1> HIDE DEF s, z, head, n, E
<1>7. t \in Text /\ Len(t) = L /\ \A i \in 1 .. L : t[i] = IF p < i /\ i <= p + size THEN z[i - p] ELSE s[i]
  <2>1. Puts(t, s, p, z)
    BY <1>3, <1>4, PutBytes
  <2> HIDE DEF t
  <2> QED BY <2>1, <1>3, <1>4 DEF Puts
<1> HIDE DEF t
<1>8. r \in Text /\ Len(r) = L /\ \A i \in 1 .. L : r[i] = IF p < i /\ i <= p + 5 THEN head[i - p] ELSE t[i]
  <2>1. Puts(r, t, p, head)
    BY <1>5, <1>6, <1>7, PutBytes
  <2> QED BY <2>1, <1>5, <1>7 DEF Puts
<1>9. a \in Text /\ Len(a) = E /\ \A i \in 1 .. E : a[i] = r[i]
  BY <1>2, <1>8, FirstBytes
<1>10. b \in Text /\ Len(b) = e /\ \A i \in 1 .. e : b[i] = m[i]
  BY FirstBytes
<1> HIDE DEF L, a, b
<1>11. \A i \in 1 .. size : bytes[i] = IF i <= 5 THEN head[i] ELSE 0
  <2>1. PICK x \in Text : AllZero(x) /\ IsJoin(bytes, head, x)
    BY DEF ZeroList, head
  <2>2. Len(x) \in Nat /\ size = 5 + Len(x) /\ \A i \in 1 .. Len(x) : x[i] = 0
    BY <1>1, <1>5, <2>1 DEF AllZero, IsJoin
  <2>3. ASSUME NEW i \in 1 .. size, i > 5 PROVE bytes[i] = 0
    <3> DEFINE h == i - 5
    <3>1. h \in 1 .. Len(x) /\ 5 + h = i
      BY <2>2, <2>3, <1>1
    <3> HIDE DEF h
    <3>2. bytes[5 + h] = x[h] /\ x[h] = 0
      BY <2>1, <2>2, <3>1, <1>5 DEF IsJoin
    <3> QED BY <3>1, <3>2
  <2>4. ASSUME NEW i \in 1 .. size, i <= 5 PROVE bytes[i] = head[i]
    <3>1. i \in 1 .. 5
      BY <2>4, <1>1
    <3> QED BY <3>1, <2>1, <1>5 DEF IsJoin
  <2>5. \A i \in 1 .. size : i > 5 \/ i <= 5
    BY <1>1
  <2>6. \A i \in 1 .. size : i > 5 <=> ~(i <= 5)
    BY <1>1
  <2> QED BY <2>3, <2>4, <2>5, <2>6
<1>12. ASSUME NEW i \in 1 .. p PROVE a[i] = b[i]
  <2>1. i \in 1 .. E /\ i \in 1 .. L /\ i \in 1 .. e /\ ~(p < i) /\ ~(p + size < i)
    BY <1>1, <1>2
  <2>2. a[i] = r[i] /\ r[i] = t[i] /\ t[i] = s[i] /\ s[i] = m[i] /\ b[i] = m[i]
    BY <2>1, <1>3, <1>7, <1>8, <1>9, <1>10
  <2> QED BY <2>2
<1>13. ASSUME NEW i \in 1 .. Len(bytes) PROVE a[p + i] = bytes[i]
  <2>1. i \in 1 .. size /\ p + i \in 1 .. E /\ p + i \in 1 .. L /\ p < p + i /\ p + i <= p + size /\ (p + i) - p = i
    BY <1>1, <1>2
  <2>2. a[p + i] = r[p + i] /\ t[p + i] = z[i] /\ z[i] = 0
    <3>1. t[p + i] = z[(p + i) - p]
      BY <2>1, <1>7
    <3> QED BY <2>1, <3>1, <1>4, <1>9
  <2>3. CASE i <= 5
    <3>1. p + i <= p + 5
      BY <2>1, <2>3
    <3>2. r[p + i] = head[(p + i) - p]
      BY <2>1, <3>1, <1>8
    <3> QED BY <2>1, <2>2, <2>3, <3>2, <1>11
  <2>4. CASE ~(i <= 5)
    <3>1. ~(p + i <= p + 5)
      BY <2>1, <2>4
    <3>2. r[p + i] = t[p + i]
      BY <2>1, <3>1, <1>8
    <3> QED BY <2>1, <2>2, <2>4, <3>2, <1>11
  <2> QED BY <2>3, <2>4
<1>14. ASSUME NEW i \in 1 .. Len(b) - (p + old) PROVE a[p + Len(bytes) + i] = b[p + old + i]
  <2> DEFINE h == p + size + i
  <2>1. /\ p + Len(bytes) + i = h /\ h \in 1 .. E /\ h \in 1 .. L /\ ~(h <= p + 5) /\ ~(h <= p + size)
        /\ p + size < h /\ h <= (p + size) + n /\ (p + old) + h - (p + size) = p + old + i /\ p + old + i \in 1 .. e
    BY <1>1, <1>2, <1>10
  <2> HIDE DEF h
  <2>2. a[h] = r[h] /\ r[h] = t[h] /\ t[h] = s[h] /\ b[p + old + i] = m[p + old + i]
    BY <2>1, <1>7, <1>8, <1>9, <1>10
  <2>3. s[h] = m[(p + old) + h - (p + size)]
    BY <2>1, <1>3
  <2> QED BY <2>1, <2>2, <2>3
<1>15. p + old <= Len(b) /\ Len(a) = (Len(b) - old) + Len(bytes)
  <2>1. Len(a) = E /\ Len(b) = e /\ Len(bytes) = size
    BY <1>1, <1>9, <1>10
  <2>2. E = (e - old) + size
    BY <1>2
  <2> QED BY <2>1, <2>2, <1>2
<1>16. Spliced(a, b, p, old, bytes)
  BY <1>1, <1>9, <1>10, <1>12, <1>13, <1>14, <1>15 DEF Spliced
<1> QED BY <1>2, <1>8, <1>16 DEF a, b, L, E, IsRetyped

--------------------------------------------------------------------------------
(* Iterations over a list, whatever its bytes are                          *)

Counts(next) == next \in Nexts /\ (next.more => next.iter.payload \in Nat)

LEMMA CountedNext ==
    ASSUME NEW d \in Text, NEW p \in Nat, NEW header, NEW count, NEW type \in Nat, NEW iter \in Iters
    PROVE  Counts(iter_counted(d, p, header, count, type, iter))
<1> DEFINE first == [ITER_ZERO EXCEPT !.payload = p, !.type = type]
           later == [iter EXCEPT !.payload = iter.payload + iter.size, !.index = @ + 1]
           it == IF iter.payload = NULL THEN first ELSE later
           IsAt(i) == i \in Iters /\ i.payload \in Nat
<1>1. IsAt(first)
  <2> DEFINE a == [ITER_ZERO EXCEPT !.payload = p]
             b == [a EXCEPT !.type = type]
  <2>1. a = [tag |-> NULL, payload |-> p, size |-> 0, type |-> 0, index |-> 0]
    BY TypeCodes DEF ITER_ZERO
  <2>2. first = b
    OBVIOUS
  <2> HIDE DEF a
  <2>3. b = [tag |-> NULL, payload |-> p, size |-> 0, type |-> type, index |-> 0]
    BY <2>1
  <2> HIDE DEF b
  <2>4. b \in Iters /\ b.payload \in Nat
    BY <2>3 DEF Iters
  <2> QED BY <2>2, <2>4
<1>2. ASSUME iter.payload # NULL PROVE IsAt(later)
  <2> DEFINE q == iter.payload + iter.size
             i == iter.index + 1
             a == [iter EXCEPT !.payload = q]
             b == [a EXCEPT !.index = i]
  <2>1. /\ iter.payload \in Nat /\ iter.size \in Nat /\ iter.index \in Nat /\ iter.type \in Nat /\ iter.tag \in Nat \cup {NULL}
        /\ iter = [tag |-> iter.tag, payload |-> iter.payload, size |-> iter.size, type |-> iter.type, index |-> iter.index]
    BY <1>2 DEF Iters
  <2>2. q \in Nat /\ i \in Nat
    BY <2>1
  <2>3. later = b
    OBVIOUS
  <2> HIDE DEF q, i
  <2>4. a = [tag |-> iter.tag, payload |-> q, size |-> iter.size, type |-> iter.type, index |-> iter.index]
    BY <2>1
  <2> HIDE DEF a
  <2>5. b = [tag |-> iter.tag, payload |-> q, size |-> iter.size, type |-> iter.type, index |-> i]
    BY <2>4
  <2> HIDE DEF b
  <2>6. b \in Iters /\ b.payload \in Nat
    BY <2>1, <2>2, <2>5 DEF Iters
  <2> QED BY <2>3, <2>6
<1> HIDE DEF first, later
<1>3. IsAt(it)
  BY <1>1, <1>2
<1> HIDE DEF IsAt
<1>4. iter_counted(d, p, header, count, type, iter) =
        IF iter.payload = NULL /\ available(d, p) < header THEN iter_fail
        ELSE IF it.index >= count THEN iter_end(it, it.payload)
        ELSE iter_at(it, 0, payload_size(d, it.payload, type))
  BY DEF iter_counted, first, later
<1> HIDE DEF it
<1>5. it \in Iters /\ it.payload \in Nat
  BY <1>3 DEF IsAt
<1>6. Counts(iter_fail)
  BY IterZero DEF Counts, Nexts, iter_fail
<1>7. Counts(iter_end(it, it.payload))
  <2> DEFINE q == it.payload
             r == [tag |-> q, payload |-> NULL, size |-> 0, type |-> 0, index |-> it.index]
  <2>1. q \in Nat /\ it.index \in Nat
    BY <1>5 DEF Iters
  <2>2. iter_end(it, q) = [more |-> FALSE, iter |-> r]
    BY <1>5, EndFields
  <2>3. r \in Iters
    BY <2>1 DEF Iters
  <2> HIDE DEF q, r
  <2>4. Counts(iter_end(it, q))
    BY <2>2, <2>3 DEF Counts, Nexts
  <2> QED BY <2>4 DEF q
<1>8. Counts(iter_at(it, 0, payload_size(d, it.payload, type)))
  <2> DEFINE size == payload_size(d, it.payload, type)
             w == Word(0 + size)
             r == [it EXCEPT !.size = w]
  <2>1. size \in Nat
    BY <1>5, PayloadSizeType
  <2> HIDE DEF size
  <2>2. w \in Nat
    BY <2>1, WordType
  <2>3. iter_at(it, 0, size) \in {iter_fail, iter_never, [more |-> TRUE, iter |-> r]}
    BY DEF iter_at
  <2> HIDE DEF w
  <2>4. r \in Iters /\ r.payload = it.payload
    BY <1>5, <2>2 DEF Iters
  <2> HIDE DEF r
  <2>5. Counts([more |-> TRUE, iter |-> r])
    BY <1>5, <2>4 DEF Counts, Nexts
  <2>6. Counts(iter_never)
    <3> DEFINE q == [ITER_ZERO EXCEPT !.size = NEVER]
    <3>1. q \in Iters
      BY IterZero, PassedFacts DEF Iters
    <3> HIDE DEF q
    <3>2. Counts([more |-> FALSE, iter |-> q])
      BY <3>1 DEF Counts, Nexts
    <3> QED BY <3>2 DEF iter_never, q
  <2> QED BY <1>6, <2>3, <2>5, <2>6 DEF size
<1> QED BY <1>4, <1>6, <1>7, <1>8

CountedWalk(w) == w \in Seq(Iters) /\ Len(w) >= 1 /\ \A i \in 1 .. Len(w) - 1 : w[i].payload \in Nat

LEMMA ListWalk ==
    ASSUME NEW d \in Text, NEW p \in Nat
    PROVE  CountedWalk(Walk(d, p, 9))
<1> DEFINE N == Calls(d)
           W == WalksFrom(d, p, 9)
           to(iter) == iter_next(d, p, 9, iter)
           S == {k \in 0 .. N : \A next \in Nexts : Counts(next) => CountedWalk(W[k][next])}
<1>1. N \in Nat
  BY WalksDef
<1>2. \A k \in 0 .. N : \A next \in Nexts :
        W[k][next] = <<next.iter>> \o (IF next.more /\ k > 0 THEN W[k - 1][to(next.iter)] ELSE <<>>)
  BY WalksDef
<1>3. \A iter \in Iters : Counts(to(iter))
  <2>1. \A iter : to(iter) = iter_counted(d, p, 5, beu32_dec(d, p + 1), At(d, p), iter)
    BY TypeCodes DEF iter_next
  <2>2. At(d, p) \in Nat
    BY AtType
  <2> HIDE DEF to
  <2> QED BY <2>1, <2>2, CountedNext
<1> HIDE DEF N, W, to
<1>4. ASSUME NEW k \in 0 .. N, NEW next \in Nexts, Counts(next), ~(next.more /\ k > 0)
      PROVE  CountedWalk(W[k][next])
  <2> DEFINE v == next.iter
             w == W[k][next]
             e == <<>>
  <2>1. v \in Iters
    BY DEF Nexts
  <2>2. w = <<v>> \o e
    BY <1>2, <1>4
  <2>3. e \in Seq(Iters) /\ Len(e) = 0
    OBVIOUS
  <2> HIDE DEF v, w, e
  <2>4. w \in Seq(Iters) /\ Len(w) = 1
    BY <2>1, <2>2, <2>3
  <2> QED BY <2>4 DEF CountedWalk, w
<1>5. 0 \in S
  BY <1>1, <1>4
<1>6. ASSUME NEW k \in 1 .. N, k - 1 \in S PROVE k \in S
  <2>1. ASSUME NEW next \in Nexts, Counts(next), next.more PROVE CountedWalk(W[k][next])
    <3> DEFINE v == next.iter
               w == W[k][next]
               u == W[k - 1][to(v)]
    <3>1. v \in Iters /\ v.payload \in Nat
      BY <2>1 DEF Nexts, Counts
    <3>2. w = <<v>> \o u
      BY <1>1, <1>2, <2>1
    <3>3. CountedWalk(u)
      <4>1. Counts(to(v)) /\ to(v) \in Nexts
        BY <1>3, <3>1 DEF Counts
      <4> QED BY <4>1, <1>6
    <3> HIDE DEF v, w, u
    <3>4. u \in Seq(Iters) /\ Len(u) >= 1 /\ Len(u) \in Nat /\ \A i \in 1 .. Len(u) - 1 : u[i].payload \in Nat
      BY <3>3 DEF CountedWalk
    <3>5. w \in Seq(Iters) /\ Len(w) = Len(u) + 1 /\ w[1] = v /\ \A i \in 1 .. Len(u) : w[i + 1] = u[i]
      BY <3>1, <3>2, <3>4, ConsFacts
    <3>6. ASSUME NEW i \in 1 .. Len(w) - 1 PROVE w[i].payload \in Nat
      <4>1. CASE i = 1
        BY <4>1, <3>1, <3>5
      <4>2. CASE i # 1
        <5>1. i - 1 \in 1 .. Len(u) - 1 /\ i - 1 \in 1 .. Len(u) /\ (i - 1) + 1 = i
          BY <4>2, <3>4, <3>5
        <5>2. w[(i - 1) + 1] = u[i - 1] /\ u[i - 1].payload \in Nat
          BY <5>1, <3>4, <3>5
        <5> QED BY <5>1, <5>2
      <4> QED BY <4>1, <4>2
    <3> QED BY <3>4, <3>5, <3>6 DEF CountedWalk, w
  <2>2. \A next \in Nexts : Counts(next) => CountedWalk(W[k][next])
    <3>1. k \in 0 .. N
      OBVIOUS
    <3> QED BY <3>1, <2>1, <1>4
  <2> QED BY <2>2
<1> HIDE DEF S
<1>7. \A k \in 0 .. N : k \in S
  BY <1>1, <1>5, <1>6, BoundedInduction
<1>8. N \in S
  BY <1>1, <1>7
<1>9. Walk(d, p, 9) = W[N][to(ITER_ZERO)]
  BY DEF Walk, W, N, to
<1>10. Counts(to(ITER_ZERO)) /\ to(ITER_ZERO) \in Nexts
  BY <1>3, IterZero DEF Counts
<1> QED BY <1>8, <1>9, <1>10 DEF S

--------------------------------------------------------------------------------
(* The editor's invariant                                                  *)

\* The bytes of the buffer are those of a document, one level deeper with each
\* edit at most, as long as no call departed from nbt.h.
Intact ==
  /\ pc = "ok" /\ mem \in Text /\ Len(mem) = Capacity /\ end \in 0 .. Capacity /\ edits \in 0 .. MaxEdits
  /\ doc \in Levels[Depth + edits] /\ doc.type = NBT.COMPOUND /\ data = TagBytes(doc)
Counted == free \in Int /\ end \in Int /\ free <= Capacity - end
EditorInv == Counted /\ (departed \/ Intact)

\* What the data are then, and the level that the document is on.
LEMMA DataFacts ==
    ASSUME Intact
    PROVE  /\ Capacity \in Nat /\ Capacity < SizeLimit /\ end \in 0 .. Len(mem) /\ end \in Nat /\ end <= Capacity
           /\ data = SubSeq(mem, 1, end) /\ data \in Text /\ Len(data) = end /\ Len(data) < SizeLimit
           /\ Depth + edits \in 0 .. Top /\ doc.type = 10
           /\ \A x \in Nat : x <= end => Word(x) = x
           /\ \A p \in Nat : p <= end => available(data, p) = end - p
<1>1. Capacity \in Nat /\ Capacity < SizeLimit /\ Depth \in Nat /\ MaxEdits \in Nat
  BY EditorAssumption
<1>2. mem \in Text /\ end \in 0 .. Len(mem) /\ end \in Nat /\ end <= Capacity
  BY <1>1 DEF Intact
<1>3. data = SubSeq(mem, 1, end)
  BY DEF data
<1>4. data \in Text /\ Len(data) = end
  BY <1>2, <1>3, FirstBytes
<1>5. Len(data) < SizeLimit
  BY <1>1, <1>2, <1>4, NbtAssumption
<1>6. Depth + edits \in 0 .. Top
  BY <1>1 DEF Top, Intact
<1>7. doc.type = 10
  BY TypeCodes DEF Intact
<1>8. (\A x \in Nat : x <= Len(data) => Word(x) = x) /\ \A p \in Nat : p <= Len(data) => available(data, p) = Len(data) - p
  BY <1>4, <1>5, SmallWords
<1> QED BY <1>1, <1>2, <1>3, <1>4, <1>5, <1>6, <1>7, <1>8

\* Where a path of the document leads the caller: the level of the node there,
\* and its tag.
LevelAt(path) == (Depth + edits) - Len(path)
LastTag(path) == TagsAlong(data, path)[Len(path)]
Located(path, k, t) ==
  /\ IsPath(doc, path) /\ Len(path) <= Depth + edits /\ k = LevelAt(path) /\ k \in 0 .. Top
  /\ NodeAt(doc, path) \in Levels[k] /\ NodeAt(doc, path).type \in 1 .. 12
  /\ t = LastTag(path) /\ Holds(data, t, TagBytes(NodeAt(doc, path)))
  /\ PayloadAt(data, path) = t + (3 + Len(NodeAt(doc, path).name))

LEMMA PathFound ==
    ASSUME Intact, NEW path \in PathsFrom(doc)
    PROVE  Located(path, LevelAt(path), LastTag(path))
<1> DEFINE n == Len(path)
           m == Depth + edits
           k == m - n
           v == NodesAlong(doc, path)[n]
           t == TagsAlong(data, path)[n]
<1>1. IsPath(doc, path) /\ n \in Nat
  BY PathsArePaths DEF IsPath
<1>2. data \in Text /\ Len(data) < SizeLimit /\ m \in 0 .. Top /\ doc \in Levels[m] /\ doc.type \in 1 .. 12
  BY DataFacts DEF Intact
<1>3. Holds(data, 0, TagBytes(doc))
  BY <1>2, HoldsAll DEF Intact
<1>4. n \in 0 .. n
  BY <1>1
<1> HIDE DEF m
<1>5. OnPath(data, m, doc, path, n)
  BY <1>1, <1>2, <1>3, <1>4, PathAt
<1>6. n <= m /\ v \in Levels[k] /\ v.type \in 1 .. 12 /\ Holds(data, t, TagBytes(v))
  BY <1>5 DEF OnPath
<1>7. k \in 0 .. Top
  BY <1>1, <1>2, <1>6, TopType
<1> HIDE DEF n, k, v, t
<1>8. tag_payload(data, t) = t + (3 + Len(v.name))
  BY <1>2, <1>6, <1>7, HeaderAt
<1>9. NodeAt(doc, path) = v /\ PayloadAt(data, path) = tag_payload(data, t)
  BY DEF NodeAt, PayloadAt, v, t, n
<1>10. k = LevelAt(path) /\ t = LastTag(path)
  <2>1. k = LevelAt(path)
    BY Zenon DEF LevelAt, k, n, m
  <2>2. t = LastTag(path)
    BY Zenon DEF LastTag, t, n
  <2> QED BY <2>1, <2>2, Zenon
<1>11. Len(path) <= Depth + edits
  BY <1>6 DEF n, m
<1>12. Located(path, k, t)
  BY <1>1, <1>6, <1>7, <1>8, <1>9, <1>10, <1>11, Zenon DEF Located
<1> QED BY <1>10, <1>12, Zenon

\* The calls that change nothing but the counter and the result.
LEMMA NothingChanged ==
    ASSUME Intact, edits < MaxEdits, edits' = edits + 1, UNCHANGED <<mem, end, doc, pc, departed>>
    PROVE  Intact'
<1>1. data' = data
  BY DEF data
<1>2. edits' \in 0 .. MaxEdits /\ Depth + edits' \in 1 .. Top /\ (Depth + edits') - 1 = Depth + edits
  BY EditorAssumption DEF Top, Intact
<1>3. doc \in Levels[Depth + edits']
  <2>1. Levels[(Depth + edits') - 1] \subseteq Levels[Depth + edits']
    BY <1>2, LevelsGrow
  <2> QED BY <1>2, <2>1 DEF Intact
<1>4. TagBytes(doc)' = TagBytes(doc)
  OBVIOUS
<1> QED BY <1>1, <1>2, <1>3 DEF Intact

LEMMA CallRefused ==
    ASSUME Intact, edits < MaxEdits, edits' = edits + 1, Refuse, free' \in Int, free' <= Capacity - end
    PROVE  EditorInv'
<1>1. Intact'
  BY NothingChanged DEF Refuse
<1>2. Counted'
  BY DataFacts DEF Refuse, Counted
<1> QED BY <1>1, <1>2 DEF EditorInv

\* A change of the node at a path, and the same change of the bytes.
LEMMA CallKept ==
    ASSUME Intact, edits < MaxEdits, edits' = edits + 1, NEW path, NEW k, NEW t, Located(path, k, t),
           NEW new, new \in Levels[k + 1], new.name = NodeAt(doc, path).name, new.type = NodeAt(doc, path).type,
           NEW q, NEW n, NEW b, Spliced(TagBytes(new), TagBytes(NodeAt(doc, path)), q, n, b),
           pc' = pc, mem' \in Text, Len(mem') = Capacity, end' \in 0 .. Capacity, doc' = Changed(doc, path, new),
           Spliced(data', data, t + q, n, b)
    PROVE  Intact'
<1> DEFINE m == Depth + edits
<1>1. m \in 0 .. Top /\ m < Top /\ edits' \in 0 .. MaxEdits /\ Depth + edits' = m + 1
  BY EditorAssumption DEF Top, Intact
<1>2. data \in Text /\ Len(data) < SizeLimit /\ doc \in Levels[m] /\ doc.type = 10 /\ data = TagBytes(doc)
  BY DataFacts DEF Intact
<1>3. Holds(data, 0, TagBytes(doc))
  BY <1>2, HoldsAll
<1>4. IsPath(doc, path) /\ k = m - Len(path) /\ t = TagsAlong(data, path)[Len(path)]
  <2>1. IsPath(doc, path) /\ k = LevelAt(path) /\ t = LastTag(path)
    BY Zenon DEF Located
  <2>2. k = m - Len(path)
    BY <2>1, Zenon DEF LevelAt
  <2>3. t = TagsAlong(data, path)[Len(path)]
    BY <2>1, Zenon DEF LastTag
  <2> QED BY <2>1, <2>2, <2>3, Zenon
<1>5. new \in Levels[m - Len(path) + 1]
  BY <1>4
<1> DEFINE next == Changed(doc, path, new)
<1>6. /\ next \in Levels[m + 1] /\ next.type = 10
      /\ Spliced(TagBytes(next), TagBytes(doc), TagsAlong(data, path)[Len(path)] + q, n, b)
  <2> HIDE DEF m
  <2> QED BY <1>1, <1>2, <1>3, <1>4, <1>5, ChangedAt
<1> HIDE DEF next, m
<1>7. Spliced(TagBytes(next), data, t + q, n, b)
  BY <1>2, <1>4, <1>6
<1>8. data' = TagBytes(next)
  BY <1>7, SplicedOne
<1>9. doc' = next
  BY DEF next
<1>10. TagBytes(doc)' = TagBytes(next)
  BY <1>9 DEF TagBytes, Tagged
<1> QED BY <1>1, <1>6, <1>8, <1>9, <1>10, TypeCodes DEF Intact

--------------------------------------------------------------------------------
(* Every call keeps the invariant                                          *)

LEMMA CallMade ==
    ASSUME EditorInv, CanEdit
    PROVE  /\ Intact /\ Counted /\ edits < MaxEdits /\ edits' = edits + 1 /\ pc = "ok" /\ departed = FALSE
           /\ free \in Int /\ end \in Nat /\ Capacity \in Nat /\ free <= Capacity - end
<1>1. Intact /\ Counted /\ edits < MaxEdits /\ edits' = edits + 1 /\ pc = "ok"
  BY DEF EditorInv, CanEdit
<1>2. departed = FALSE
  BY DEF CanEdit
<1> QED BY <1>1, <1>2, DataFacts DEF Counted

\* Calls that succeed without a change.
LEMMA CallFound ==
    ASSUME EditorInv, CanEdit, UNCHANGED <<mem, end, free, doc, pc, departed>>
    PROVE  EditorInv'
<1>1. Intact'
  BY CallMade, NothingChanged
<1>2. Counted'
  BY CallMade DEF Counted
<1> QED BY <1>1, <1>2 DEF EditorInv

LEMMA MeasuredAdd ==
    ASSUME EditorInv, NEW name \in Names, NEW type, compound_add_measure(name, type)
    PROVE  EditorInv'
<1>1. CanEdit /\ Refuse
  BY DEF compound_add_measure
<1>2. Len(name) \in Nat /\ type_zero_size(type) \in 0 .. 8
  BY EditorAssumption, TextIs, ZeroSizeType
<1> DEFINE n == 3 + Len(name) + type_zero_size(type)
<1>3. (free' = free \/ free' = free - n) /\ n \in Nat
  BY <1>2 DEF compound_add_measure
<1> HIDE DEF n
<1>4. free' \in Int /\ free' <= Capacity - end
  BY <1>1, <1>2, <1>3, CallMade
<1> QED BY <1>1, <1>4, CallMade, CallRefused

LEMMA MeasuredResize ==
    ASSUME EditorInv, NEW type, NEW length \in Lengths, list_resize_measure(type, length)
    PROVE  EditorInv'
<1>1. CanEdit /\ Refuse /\ free' = free - length * type_zero_size(type)
  BY DEF list_resize_measure
<1>2. length \in Nat /\ type_zero_size(type) \in 0 .. 8
  BY EditorAssumption, LengthBound, ZeroSizeType
<1>3. length * type_zero_size(type) \in Nat
  <2>1. \A a, b \in Nat : a * b \in Nat
    OBVIOUS
  <2> QED BY <1>2, <2>1
<1> DEFINE n == length * type_zero_size(type)
<1>4. free' = free - n /\ n \in Nat
  BY <1>1, <1>3
<1> HIDE DEF n
<1>5. free' \in Int /\ free' <= Capacity - end
  BY <1>1, <1>4, CallMade
<1> QED BY <1>1, <1>5, CallMade, CallRefused

\* A new tag has bytes to write, and its space is what the counter loses.
LEMMA Added ==
    ASSUME EditorInv, CanEdit, NEW path, NEW name \in Names, NEW type \in 1 .. 12, NEW tag, AddAt(path, name, type, tag)
    PROVE  EditorInv'
<1> DEFINE n == Len(AddedTag(name, type))
<1>1. n \in Nat
  <2>1. name \in Text /\ zeros(type_zero_size(type)) \in Text
    BY EditorAssumption, ZeroSizeType, ZerosText
  <2>2. Len(name) \in Nat
    BY <2>1, TextIs
  <2>3. <<type>> \in Seq(Int) /\ beu16_enc(Len(name)) \in Seq(Int)
    <3>1. \A x \in Nat : (x \div ByteValues) % ByteValues \in Int /\ x % ByteValues \in Int
      BY NbtAssumption
    <3> QED BY <2>2, <3>1 DEF beu16_enc
  <2>4. name \in Seq(Int) /\ zeros(type_zero_size(type)) \in Seq(Int)
    BY <2>1, NbtAssumption DEF Text
  <2>5. AddedTag(name, type) \in Seq(Int)
    BY <2>3, <2>4 DEF AddedTag
  <2> QED BY <2>5
<1>2. free' = free - n
  BY DEF AddAt
<1>3. CASE ~Enough
  <2>1. Refuse
    BY <1>3 DEF AddAt
  <2> HIDE DEF n
  <2>2. free' \in Int /\ free' <= Capacity - end
    BY <1>1, <1>2, CallMade
  <2> QED BY <2>1, <2>2, CallMade, CallRefused
<1>4. CASE Enough
  <2>1. end' = end + n /\ departed' = TRUE
    BY <1>4 DEF AddAt, Promise
  <2> HIDE DEF n
  <2>2. Counted'
    BY <1>1, <1>2, <2>1, CallMade DEF Counted
  <2> QED BY <2>1, <2>2 DEF EditorInv
<1> QED BY <1>3, <1>4

LEMMA CalledAdd ==
    ASSUME EditorInv, NEW path, NEW name \in Names, NEW type, compound_add(path, name, type)
    PROVE  EditorInv'
<1> DEFINE found == compound_search(data, PayloadAt(data, path), name)
<1>1. CanEdit /\ AddFound(path, name, type, found)
  BY DEF compound_add
<1> HIDE DEF found
<1>2. CASE Refuse /\ free' = free
  BY <1>1, <1>2, CallMade, CallRefused
<1>3. CASE UNCHANGED <<mem, end, free, doc, pc, departed>>
  BY <1>1, <1>3, CallFound
<1>4. CASE type_valid(type) /\ AddAt(path, name, type, found.iter.tag)
  <2>1. type \in 1 .. 12
    BY <1>4, ZeroSizeType
  <2> QED BY <1>1, <1>4, <2>1, Added
<1> QED BY <1>1, <1>2, <1>3, <1>4 DEF AddFound

\* What a caller has in hand: the payload at a path.
LEMMA PayloadFound ==
    ASSUME EditorInv, CanEdit, NEW path \in PathsFrom(doc)
    PROVE  /\ data \in Text /\ Len(data) = end /\ Len(data) < SizeLimit /\ Capacity \in Nat /\ end <= Capacity
           /\ LevelAt(path) \in 0 .. Top /\ LevelAt(path) < Top /\ NodeAt(doc, path) \in Levels[LevelAt(path)]
           /\ PayloadAt(data, path) \in Nat /\ Holds(data, PayloadAt(data, path), PayloadBytes[NodeAt(doc, path)])
           /\ LastTag(path) \in Nat /\ Len(NodeAt(doc, path).name) \in Nat
           /\ PayloadAt(data, path) = LastTag(path) + (3 + Len(NodeAt(doc, path).name))
<1> DEFINE node == NodeAt(doc, path)
           k == LevelAt(path)
           t == LastTag(path)
           p == PayloadAt(data, path)
<1>1. Intact /\ Located(path, k, t)
  BY CallMade, PathFound
<1>2. data \in Text /\ Len(data) = end /\ Len(data) < SizeLimit /\ Capacity \in Nat /\ end <= Capacity
  BY <1>1, DataFacts
<1>3. k \in 0 .. Top /\ node \in Levels[k] /\ Holds(data, t, TagBytes(node)) /\ p = t + (3 + Len(node.name))
  BY <1>1, Zenon DEF Located
<1>4. k < Top
  <2>1. k = (Depth + edits) - Len(path) /\ Len(path) \in Nat
    BY <1>1, Zenon DEF Located, IsPath, LevelAt
  <2>2. Depth \in Nat /\ MaxEdits \in Nat /\ edits \in Nat /\ edits < MaxEdits
    BY <1>1, CallMade, EditorAssumption DEF Intact
  <2> HIDE DEF k
  <2> QED BY <2>1, <2>2 DEF Top
<1> HIDE DEF node, k, t, p
<1>5. t \in Nat /\ Holds(data, t + (3 + Len(node.name)), PayloadBytes[node]) /\ Len(node.name) \in Nat
  BY <1>2, <1>3, TagAt, NodeFacts
<1>6. p \in Nat
  BY <1>3, <1>5
<1> QED BY <1>2, <1>3, <1>4, <1>5, <1>6 DEF node, k, t, p

\* Bytes within the data are taken out of them.
LEMMA CutAt ==
    ASSUME Intact, NEW at \in Nat, NEW size \in Nat, at + size <= end, Cut(at, size)
    PROVE  /\ pc' = pc /\ mem' \in Text /\ Len(mem') = Capacity /\ end' \in 0 .. Capacity
           /\ end' = end - size /\ free' = free + size /\ Spliced(data', data, at, size, <<>>)
<1>1. /\ Capacity \in Nat /\ end \in Nat /\ end <= Capacity /\ mem \in Text /\ Len(mem) = Capacity
      /\ available(data, at) = end - at /\ \A x \in Nat : x <= end => Word(x) = x
  BY DataFacts DEF Intact
<1> DEFINE n == available(data, at) - size
           r == Put(Put(memmove(mem, at, at + size, Word(n)), 0, <<>>), 0, <<>>)
<1>2. n = end - (at + size) /\ Word(n) = n
  <2>1. n = end - (at + size) /\ n \in Nat /\ n <= end
    BY <1>1
  <2> HIDE DEF n
  <2> QED BY <1>1, <2>1
<1>3. at + size + Word(n) <= Capacity /\ at + Word(n) <= Capacity
  <2> HIDE DEF n
  <2> QED BY <1>1, <1>2
<1>4. pc' = pc /\ mem' = r /\ end' = end - size /\ free' = free + size
  <2> HIDE DEF r
  <2> QED BY <1>3 DEF Cut, Move, r
<1>5. r = MemoryCut(mem, end, at, size)
  <2> HIDE DEF n
  <2> QED BY <1>2 DEF MemoryCut
<1>6. /\ mem' \in Text /\ Len(mem') = Capacity /\ end' \in 0 .. Capacity
      /\ Spliced(SubSeq(mem', 1, end'), SubSeq(mem, 1, end), at, size, <<>>)
  <2> HIDE DEF r
  <2>1. end \in 0 .. Len(mem)
    BY <1>1
  <2>2. IsCut(r, mem, end, at, size)
    BY <1>1, <1>5, <2>1, CutBytes
  <2> QED BY <1>1, <1>4, <2>2 DEF IsCut
<1>7. data' = SubSeq(mem', 1, end') /\ data = SubSeq(mem, 1, end)
  BY DEF data
<1> QED BY <1>4, <1>6, <1>7

\* The bytes of a deleted tag are those of the child of that name.
LEMMA Deleted ==
    ASSUME EditorInv, CanEdit, NEW path \in PathsFrom(doc), NodeAt(doc, path).type = 10, NEW name, Named(NodeAt(doc, path), name) # {},
           DelFound(path, name, compound_search(data, PayloadAt(data, path), name))
    PROVE  EditorInv'
<1> DEFINE node == NodeAt(doc, path)
           k == LevelAt(path)
           t == LastTag(path)
           p == t + (3 + Len(node.name))
           j == Index(node, name)
           q == (3 + Len(node.name)) + TagsEnd(node, j - 1)
           size == Len(TagBytes(Child(node, name)))
           new == DeletedFrom(node, name)
<1>1. Intact /\ Located(path, k, t)
  BY CallMade, PathFound
<1>2. /\ data \in Text /\ Len(data) < SizeLimit /\ k \in 0 .. Top /\ k < Top
      /\ PayloadAt(data, path) \in Nat /\ Holds(data, PayloadAt(data, path), PayloadBytes[node])
      /\ t \in Nat /\ Len(node.name) \in Nat
  BY PayloadFound
<1>3. node \in Levels[k] /\ node.type = 10 /\ Holds(data, t, TagBytes(node)) /\ PayloadAt(data, path) = p
  BY <1>1, Zenon DEF Located
<1> HIDE DEF node, k, t
<1>4. Holds(data, p, PayloadBytes[node]) /\ t \in Nat /\ Len(node.name) \in Nat
  BY <1>2, <1>3
<1>5. /\ j \in 1 .. Len(node.items) /\ j \in Named(node, name) /\ Child(node, name) = node.items[j]
      /\ FindStep(data, t, name) = p + TagsEnd(node, j - 1)
      /\ Holds(data, FindStep(data, t, name), TagBytes(Child(node, name)))
      /\ k > 0 /\ Child(node, name) \in Levels[k - 1]
  BY <1>2, <1>3, StepAt DEF node
<1> DEFINE at == p + TagsEnd(node, j - 1)
<1>6. size = 3 + Len(node.items[j].name) + Size(node.items[j])
  <2>1. k - 1 \in 0 .. Top
    BY <1>2, <1>5, TopType
  <2> HIDE DEF j
  <2> QED BY <1>5, <2>1, PayloadText
<1>7. at \in Nat /\ size \in Nat /\ at + size <= end
  <2>1. Holds(data, at, TagBytes(Child(node, name))) /\ Len(data) = end
    BY <1>1, <1>5, DataFacts
  <2>2. TagBytes(Child(node, name)) \in Text
    BY <1>2, <1>5, TopType, PayloadText
  <2> HIDE DEF at, j
  <2> QED BY <2>1, <2>2, TextIs DEF Holds
<1> HIDE DEF size, at, new
<1>8. Cut(at, size) /\ doc' = Changed(doc, path, new) /\ departed' = departed
  <2> DEFINE found == compound_search(data, PayloadAt(data, path), name)
  <2>1. found = HitAt(p, node, j)
    <3> HIDE DEF p, j
    <3>1. found = compound_search(data, p, name)
      BY <1>3
    <3> HIDE DEF found
    <3>2. /\ data \in Text /\ Len(data) < SizeLimit /\ k \in 0 .. Top /\ node \in Levels[k] /\ node.type = 10
          /\ Holds(data, p, PayloadBytes[node]) /\ j \in Named(node, name)
      BY <1>2, <1>3, <1>4, <1>5, Zenon
    <3>3. compound_search(data, p, name) = HitAt(p, node, j)
      BY <3>2, SearchAt
    <3> QED BY <3>1, <3>3
  <2>2. found.hit = TRUE /\ found.iter.tag = at /\ found.iter.size = size
    BY <1>6, <2>1 DEF HitAt, ItemAt, at
  <2> HIDE DEF found
  <2>3. DelFound(path, name, found)
    BY DEF found
  <2> QED BY <2>2, <2>3 DEF DelFound, Promise, new, node
<1>9. /\ pc' = pc /\ mem' \in Text /\ Len(mem') = Capacity /\ end' \in 0 .. Capacity
      /\ end' = end - size /\ free' = free + size /\ Spliced(data', data, at, size, <<>>)
  BY <1>1, <1>7, <1>8, CutAt
<1>10. /\ new \in Levels[k + 1] /\ new.name = node.name /\ new.type = node.type
       /\ Spliced(TagBytes(new), TagBytes(node), q, size, <<>>)
  BY <1>2, <1>3, DeletedAt DEF new, size, node
<1>11. at = t + q
  <2>1. TagsEnd(node, j - 1) \in Nat
    <3> HIDE DEF j
    <3>1. Len(node.items) \in Nat /\ \A i \in 0 .. Len(node.items) : TagsEnd(node, i) \in Nat
      BY <1>2, <1>3, CompoundLayout
    <3>2. j - 1 \in 0 .. Len(node.items)
      BY <1>5, <3>1
    <3> QED BY <3>1, <3>2
  <2> HIDE DEF j
  <2> QED BY <1>4, <2>1 DEF at
<1> HIDE DEF q
<1>12. Intact'
  <2>1. edits < MaxEdits /\ edits' = edits + 1
    BY CallMade
  <2>2. new.name = NodeAt(doc, path).name /\ new.type = NodeAt(doc, path).type
    BY <1>10 DEF node
  <2>3. Spliced(TagBytes(new), TagBytes(NodeAt(doc, path)), q, size, <<>>)
    BY <1>10 DEF node
  <2>4. Spliced(data', data, t + q, size, <<>>)
    BY <1>9, <1>11
  <2> QED BY <1>1, <1>8, <1>9, <1>10, <2>1, <2>2, <2>3, <2>4, CallKept
<1>13. Counted'
  BY <1>7, <1>9, CallMade DEF Counted
<1> QED BY <1>12, <1>13 DEF EditorInv

LEMMA CalledDel ==
    ASSUME EditorInv, NEW path \in PathsFrom(doc), NEW name \in Names, compound_del(path, name)
    PROVE  EditorInv'
<1> DEFINE node == NodeAt(doc, path)
           p == PayloadAt(data, path)
           found == compound_search(data, p, name)
<1>1. CanEdit /\ node.type = 10 /\ DelFound(path, name, found)
  BY TypeCodes DEF compound_del
<1>2. CASE Named(node, name) # {}
  BY <1>1, <1>2, Deleted
<1>3. CASE Named(node, name) = {}
  <2>1. /\ data \in Text /\ Len(data) < SizeLimit /\ LevelAt(path) \in 0 .. Top
        /\ node \in Levels[LevelAt(path)] /\ Holds(data, p, PayloadBytes[node])
    BY <1>1, PayloadFound
  <2> HIDE DEF node, p
  <2>2. compound_search(data, p, name) = MissAt(p, node)
    BY <1>1, <1>3, <2>1, SearchAt
  <2>3. ~found.hit
    BY <2>2 DEF MissAt
  <2> HIDE DEF found
  <2>4. Refuse /\ free' = free
    BY <1>1, <2>3 DEF DelFound
  <2> QED BY <1>1, <2>4, CallMade, CallRefused
<1> QED BY <1>2, <1>3

\* An edit that departs from nbt.h still counts the bytes that the data gain.
LEMMA Departed ==
    ASSUME EditorInv, CanEdit, NEW n \in Int, free' = free - n, end' = end + n, departed' = TRUE
    PROVE  EditorInv'
<1>1. Counted'
  BY CallMade DEF Counted
<1> QED BY <1>1 DEF EditorInv

LEMMA Grown ==
    ASSUME EditorInv, CanEdit, NEW path, NEW p \in Nat, NEW length \in Lengths, NEW old_size,
           beu32_dec(data, p + 1) < length, list_grow(path, p, length, old_size)
    PROVE  EditorInv'
<1> DEFINE n == type_zero_size(At(data, p)) * (length - beu32_dec(data, p + 1))
<1>1. n \in Nat
  <2>1. type_zero_size(At(data, p)) \in Nat
    BY ZeroSizeType
  <2>2. length - beu32_dec(data, p + 1) \in Nat
    <3>1. length \in Nat /\ data \in Text /\ p + 1 \in Nat
      BY CallMade, DataFacts, EditorAssumption, LengthBound
    <3>2. beu32_dec(data, p + 1) \in Nat
      BY <3>1, DecTypes
    <3> QED BY <3>1, <3>2
  <2>3. \A a, b \in Nat : a * b \in Nat
    OBVIOUS
  <2> QED BY <2>1, <2>2, <2>3
<1> HIDE DEF n
<1>2. free' = free - n
  BY DEF list_grow, n
<1>3. CASE ~Enough
  <2>1. Refuse
    BY <1>3 DEF list_grow
  <2>2. free' \in Int /\ free' <= Capacity - end
    BY <1>1, <1>2, CallMade
  <2> QED BY <2>1, <2>2, CallMade, CallRefused
<1>4. CASE Enough
  <2>1. end' = end + n /\ departed' = TRUE
    BY <1>4 DEF list_grow, Promise, n
  <2> QED BY <1>1, <1>2, <2>1, Departed
<1> QED BY <1>3, <1>4

LEMMA Shrunk ==
    ASSUME EditorInv, CanEdit, NEW path, NEW p, NEW length, NEW walk, CountedWalk(walk), list_shrink(path, p, length, walk)
    PROVE  EditorInv'
<1> DEFINE last == walk[Len(walk)].tag
           cuts == {i \in 1 .. Len(walk) - 1 : walk[i].index = length}
           truncate == walk[CHOOSE i \in cuts : TRUE].payload
<1>1. CASE last = NULL \/ cuts = {}
  <2>1. Refuse /\ free' = free
    BY <1>1 DEF list_shrink
  <2> QED BY <2>1, CallMade, CallRefused
<1>2. CASE last # NULL /\ cuts # {}
  <2>1. last \in Nat
    <3>1. walk \in Seq(Iters) /\ Len(walk) \in 1 .. Len(walk)
      BY DEF CountedWalk
    <3>2. walk[Len(walk)] \in Iters
      BY <3>1
    <3> QED BY <1>2, <3>2 DEF Iters
  <2>2. truncate \in Nat
    <3>1. (CHOOSE i \in cuts : TRUE) \in cuts
      BY <1>2
    <3>2. (CHOOSE i \in cuts : TRUE) \in 1 .. Len(walk) - 1
      BY <3>1
    <3> QED BY <3>2 DEF CountedWalk
  <2>3. free' = free + (last - truncate) /\ end' = end - (last - truncate) /\ departed' = TRUE
    BY <1>2 DEF list_shrink, Promise
  <2> HIDE DEF last, truncate
  <2> DEFINE n == truncate - last
  <2>4. n \in Int /\ free' = free - n /\ end' = end + n
    BY <2>1, <2>2, <2>3, CallMade
  <2> HIDE DEF n
  <2> QED BY <2>3, <2>4, Departed
<1> QED BY <1>1, <1>2

\* A list that has room for the zeros of another type becomes these.
LEMMA ReplacedAt ==
    ASSUME Intact, NEW p \in Nat, NEW old \in Nat, p + old <= end, NEW type \in 1 .. 12, NEW length \in 0 .. MaxLength,
           NEW bytes, ZeroList(bytes, type, length), NEW size \in Nat, size = Len(bytes), end + (size - old) <= Capacity,
           Move(p + size, p + old, available(data, p) - old, p, zeros(size), p, ListHead(type, length)),
           end' = end + (size - old)
    PROVE  /\ pc' = pc /\ mem' \in Text /\ Len(mem') = Capacity /\ end' \in 0 .. Capacity
           /\ Spliced(data', data, p, old, bytes)
<1>1. /\ Capacity \in Nat /\ end \in Nat /\ end <= Capacity /\ mem \in Text /\ Len(mem) = Capacity
      /\ available(data, p) = end - p /\ \A x \in Nat : x <= end => Word(x) = x
  BY DataFacts, SMTT(30) DEF Intact
<1> DEFINE n == available(data, p) - old
           r == Put(Put(memmove(mem, p + size, p + old, Word(n)), p, zeros(size)), p, ListHead(type, length))
<1>2. n = end - (p + old) /\ Word(n) = n
  <2>1. n = end - (p + old) /\ n \in Nat /\ n <= end
    BY <1>1
  <2> HIDE DEF n
  <2> QED BY <1>1, <2>1
<1>3. p + old + Word(n) <= Capacity /\ p + size + Word(n) <= Capacity
  <2> HIDE DEF n
  <2> QED BY <1>1, <1>2
<1>4. pc' = pc /\ mem' = r
  <2> HIDE DEF r
  <2> QED BY <1>3 DEF Move, r
<1>5. r = MemoryRetyped(mem, end, p, old, size, type, length)
  <2> HIDE DEF n
  <2> QED BY <1>2 DEF MemoryRetyped
<1>6. IsRetyped(r, mem, end, p, old, size, bytes)
  <2> HIDE DEF r
  <2>1. end \in 0 .. Len(mem) /\ end + (size - old) <= Len(mem)
    BY <1>1
  <2> QED BY <1>1, <1>5, <2>1, RetypedBytes
<1> HIDE DEF r
<1>7. data' = SubSeq(mem', 1, end') /\ data = SubSeq(mem, 1, end)
  BY DEF data
<1> QED BY <1>1, <1>4, <1>6, <1>7 DEF IsRetyped

LEMMA Retyped ==
    ASSUME EditorInv, CanEdit, NEW path \in PathsFrom(doc), NodeAt(doc, path).type = 9, NEW type \in ListTypes, NEW length \in Lengths,
           type # NodeAt(doc, path).elem,
           list_retype(path, PayloadAt(data, path), type, length, Size(NodeAt(doc, path)))
    PROVE  EditorInv'
<1> DEFINE node == NodeAt(doc, path)
           k == LevelAt(path)
           t == LastTag(path)
           p == PayloadAt(data, path)
           q == (3 + Len(node.name)) + 0
           old == Size(node)
           size == 5 + length * type_zero_size(type)
           new == Resized(node, type, length)
           bytes == PayloadBytes[new]
<1>1. Intact /\ Located(path, k, t)
  BY CallMade, PathFound
<1>2. /\ data \in Text /\ Len(data) = end /\ Capacity \in Nat /\ end <= Capacity
      /\ k \in 0 .. Top /\ k < Top /\ node \in Levels[k] /\ node.type = 9
      /\ p \in Nat /\ Holds(data, p, PayloadBytes[node])
      /\ t \in Nat /\ Len(node.name) \in Nat /\ p = t + (3 + Len(node.name))
  BY PayloadFound
<1>3. type \in 0 .. 12 /\ length \in 0 .. MaxLength /\ size \in Nat
  <2>1. type \in 0 .. 12 /\ length \in 0 .. MaxLength
    BY EditorAssumption, TypeCodes
  <2>2. \A a, b \in Nat : 5 + a * b \in Nat
    OBVIOUS
  <2>3. length \in Nat /\ type_zero_size(type) \in Nat
    BY <2>1, LengthBound, ZeroSizeType
  <2> QED BY <2>1, <2>2, <2>3
<1>4. old \in Nat /\ old # 0 /\ p + old <= end
  <2> HIDE DEF node, k, p
  <2>1. Size(node) = 5 + PartsEnd(node, Len(node.items)) /\ Len(node.items) \in Nat
    BY <1>2, ListLayout, NodeFacts
  <2>2. PartsEnd(node, Len(node.items)) \in Nat
    <3>1. Len(node.items) \in 0 .. Len(node.items)
      BY <2>1
    <3> QED BY <1>2, <3>1, ListLayout
  <2>3. p + Size(node) <= Len(data)
    BY <1>2, ListAt
  <2> QED BY <1>2, <2>1, <2>2, <2>3, SMTT(30)
<1>5. free' = free - (size - old)
  BY <1>4 DEF list_retype
<1>6. CASE ~Enough
  <2>1. Refuse
    BY <1>4, <1>6 DEF list_retype
  <2> HIDE DEF size, old
  <2>2. free' \in Int /\ free' <= Capacity - end
    <3>1. size \in Nat /\ old \in Nat /\ Capacity \in Nat /\ end \in Nat /\ end <= Capacity /\ free \in Int
      BY <1>2, <1>3, <1>4, CallMade, Zenon
    <3>2. free' = free - (size - old) /\ ~(free' >= 0)
      BY <1>5, <1>6, Zenon DEF Enough
    <3> HIDE DEF node, p, t, k
    <3> QED BY <3>1, <3>2
  <2> QED BY <2>1, <2>2, CallMade, CallRefused
<1>7. CASE Enough
  <2>1. /\ Move(p + size, p + old, available(data, p) - old, p, zeros(size), p, ListHead(type, length))
        /\ end' = end + (size - old) /\ doc' = Changed(doc, path, new) /\ departed' = (type = 0)
    BY <1>4, <1>7, TypeCodes DEF list_retype, Promise, ListHead
  <2> HIDE DEF size, old, new, bytes
  <2>2. end + (size - old) <= Capacity
    BY <1>2, <1>3, <1>4, <1>5, <1>7, CallMade DEF Enough
  <2>3. CASE type = 0
    <3> DEFINE n == size - old
    <3>1. n \in Int
      BY <1>3, <1>4
    <3>2. free' = free - n /\ end' = end + n
      BY <1>5, <2>1, Zenon
    <3>3. departed' = TRUE
      BY <2>1, <2>3, Zenon
    <3> HIDE DEF n
    <3> QED BY <3>1, <3>2, <3>3, Departed
  <2>4. CASE type # 0
    <3>1. type \in 1 .. 12
      BY <1>3, <2>4
    <3>2. /\ new \in Levels[k + 1] /\ new.name = node.name /\ new.type = node.type
          /\ ZeroList(bytes, type, length)
          /\ Spliced(TagBytes(new), TagBytes(node), q, old, bytes)
      <4> HIDE DEF node, k
      <4> QED BY <1>2, <1>3, <3>1, RetypedAt DEF new, bytes, old, node
    <3>3. size = Len(bytes)
      BY <3>2 DEF ZeroList, size
    <3>4. /\ pc' = pc /\ mem' \in Text /\ Len(mem') = Capacity /\ end' \in 0 .. Capacity
          /\ Spliced(data', data, p, old, bytes)
      <4> HIDE DEF p
      <4> QED BY <1>1, <1>2, <1>3, <1>4, <2>1, <2>2, <3>1, <3>2, <3>3, ReplacedAt
    <3>5. p = t + q
      <4> HIDE DEF p, t, node
      <4> QED BY <1>2
    <3> HIDE DEF q
    <3>6. Intact'
      <4> HIDE DEF p, t, k
      <4>1. Spliced(data', data, t + q, old, bytes)
        BY <3>4, <3>5
      <4>2. edits < MaxEdits /\ edits' = edits + 1
        BY CallMade
      <4> QED BY <1>1, <2>1, <3>2, <3>4, <4>1, <4>2, CallKept
    <3>7. Counted'
      BY <1>3, <1>4, <1>5, <2>1, CallMade DEF Counted
    <3> QED BY <3>6, <3>7 DEF EditorInv
  <2> QED BY <2>3, <2>4
<1> QED BY <1>6, <1>7

LEMMA CalledResize ==
    ASSUME EditorInv, NEW path \in PathsFrom(doc), NEW type \in ListTypes, NEW length \in Lengths, list_resize(path, type, length)
    PROVE  EditorInv'
<1> DEFINE node == NodeAt(doc, path)
           p == PayloadAt(data, path)
           old_size == payload_size(data, p, NBT.LIST)
<1>1. CanEdit /\ node.type = 9 /\ ResizeAt(path, p, type, length)
  BY TypeCodes DEF list_resize
<1>2. /\ data \in Text /\ Len(data) < SizeLimit /\ LevelAt(path) \in 0 .. Top
      /\ node \in Levels[LevelAt(path)] /\ p \in Nat /\ Holds(data, p, PayloadBytes[node])
  BY <1>1, PayloadFound
<1>3. At(data, p) = node.elem
  <2> HIDE DEF node, p
  <2> QED BY <1>1, <1>2, ListAt
<1>4. old_size = Size(node)
  <2> HIDE DEF node, p
  <2>1. node.type \in 1 .. 12
    BY <1>1
  <2>2. payload_size(data, p, node.type) = Size(node)
    BY <1>2, <2>1, PayloadSized
  <2> QED BY <1>1, <2>2, TypeCodes
<1> HIDE DEF old_size, p
<1>5. CASE Refuse /\ free' = free
  BY <1>1, <1>5, CallMade, CallRefused
<1>6. CASE UNCHANGED <<mem, end, free, doc, pc, departed>>
  BY <1>1, <1>6, CallFound
<1>7. CASE At(data, p) # type /\ list_retype(path, p, type, length, old_size)
  BY <1>1, <1>3, <1>4, <1>7, Retyped DEF p
<1>8. CASE beu32_dec(data, p + 1) < length /\ list_grow(path, p, length, old_size)
  BY <1>1, <1>2, <1>8, Grown
<1>9. CASE list_shrink(path, p, length, Walk(data, p, NBT.LIST))
  BY <1>1, <1>2, <1>9, ListWalk, TypeCodes, Shrunk
<1> QED BY <1>1, <1>5, <1>6, <1>7, <1>8, <1>9 DEF ResizeAt, old_size

--------------------------------------------------------------------------------
(* The theorems                                                            *)

LEMMA EditorInit == Init => EditorInv
<1> SUFFICES ASSUME Init PROVE EditorInv
  OBVIOUS
<1> DEFINE b == TagBytes(doc)
           rest == [i \in 1 .. Capacity - end |-> ByteValues - 1]
<1>1. doc \in Levels[Depth] /\ doc.type = NBT.COMPOUND /\ Len(b) <= Capacity /\ Depth \in 0 .. Top
  BY EditorAssumption, TopType DEF Init
<1>2. b \in Text /\ Len(b) \in Nat
  <2>1. b \in Text
    BY <1>1, PayloadText
  <2> HIDE DEF b
  <2> QED BY <2>1, TextIs
<1>3. Capacity \in Nat /\ Depth \in Nat /\ MaxEdits \in Nat /\ ByteValues \in Nat /\ ByteValues >= 13
  BY EditorAssumption, NbtAssumption
<1>4. end = Len(b) /\ mem = b \o rest /\ free = Capacity - end /\ pc = "ok" /\ edits = 0
  BY DEF Init
<1> HIDE DEF b
<1>5. rest \in Text /\ Len(rest) = Capacity - end
  <2>1. Capacity - end \in Nat /\ ByteValues - 1 \in 0 .. ByteValues - 1
    BY <1>1, <1>2, <1>3, <1>4
  <2> QED BY <2>1 DEF Text
<1> HIDE DEF rest
<1>6. mem \in Text /\ Len(mem) = Capacity /\ \A i \in 1 .. Len(b) : mem[i] = b[i]
  <2>1. IsJoin(mem, b, rest)
    BY <1>2, <1>4, <1>5, ConcatText DEF IsJoin
  <2> QED BY <1>1, <1>2, <1>3, <1>4, <1>5, <2>1 DEF IsJoin
<1>7. data = b
  <2>1. data \in Text /\ Len(data) = end /\ \A i \in 1 .. end : data[i] = mem[i]
    <3>1. end \in 0 .. Len(mem) /\ mem \in Text
      BY <1>1, <1>2, <1>3, <1>4, <1>6
    <3>2. data = SubSeq(mem, 1, end)
      BY DEF data
    <3> QED BY <3>1, <3>2, FirstBytes
  <2> HIDE DEF data
  <2> QED BY <1>2, <1>4, <1>6, <2>1, TextEqual
<1>8. Depth + edits = Depth
  BY <1>3, <1>4
<1>9. Intact
  BY <1>1, <1>2, <1>3, <1>4, <1>6, <1>7, <1>8 DEF Intact, b
<1>10. Counted
  BY <1>2, <1>3, <1>4 DEF Counted
<1> QED BY <1>9, <1>10 DEF EditorInv

LEMMA EditorStutters == EditorInv /\ UNCHANGED vars => EditorInv'
<1> SUFFICES ASSUME EditorInv, UNCHANGED vars PROVE EditorInv'
  OBVIOUS
<1>1. UNCHANGED <<mem, end, free, doc, pc, departed, edits>>
  BY DEF vars
<1>2. data' = data
  BY <1>1 DEF data
<1>3. Counted'
  BY <1>1 DEF Counted, EditorInv
<1>4. ASSUME Intact PROVE Intact'
  BY <1>1, <1>2, <1>4 DEF Intact
<1> QED BY <1>1, <1>3, <1>4 DEF EditorInv

LEMMA EditorSteps == EditorInv /\ [Next]_vars => EditorInv'
<1> SUFFICES ASSUME EditorInv, [Next]_vars PROVE EditorInv'
  OBVIOUS
<1>1. ASSUME NEW name \in Names, NEW type \in AddTypes, compound_add_measure(name, type) PROVE EditorInv'
  BY <1>1, MeasuredAdd
<1>2. ASSUME NEW type \in ListTypes, NEW length \in Lengths, list_resize_measure(type, length) PROVE EditorInv'
  BY <1>2, MeasuredResize
<1>3. ASSUME NEW path \in PathsFrom(doc), NEW name \in Names, NEW type \in AddTypes, compound_add(path, name, type) PROVE EditorInv'
  BY <1>3, CalledAdd
<1>4. ASSUME NEW path \in PathsFrom(doc), NEW name \in Names, compound_del(path, name) PROVE EditorInv'
  BY <1>4, CalledDel
<1>5. ASSUME NEW path \in PathsFrom(doc), NEW type \in ListTypes, NEW length \in Lengths, list_resize(path, type, length) PROVE EditorInv'
  BY <1>5, CalledResize
<1>6. CASE UNCHANGED vars
  BY <1>6, EditorStutters
<1> QED BY <1>1, <1>2, <1>3, <1>4, <1>5, <1>6 DEF Next

\* What every step of the editor keeps (clod_nbt_compound_add,
\* clod_nbt_compound_del, clod_nbt_list_resize): the bytes of the buffer are
\* those of a document, until a call departs from nbt.h.
THEOREM EditorInvariant == Spec => []EditorInv
<1>1. Init => EditorInv
  BY EditorInit
<1>2. EditorInv /\ [Next]_vars => EditorInv'
  BY EditorSteps
<1> QED BY <1>1, <1>2, PTL DEF Spec

\* After any number of calls that delete, retype, find or refuse, the data are
\* the bytes of the document that nbt.h describes, and no memmove has left the
\* buffer (clod_nbt_compound_del, clod_nbt_list_resize).
THEOREM EditsKeepTheDocument == Spec => []DocumentIntact
<1>1. EditorInv => DocumentIntact
  BY DEF EditorInv, Intact, DocumentIntact
<1> QED BY <1>1, EditorInvariant, PTL

\* The counter of free bytes never promises space that is not there, whatever
\* is asked for (nbt.c, *free).
THEOREM FreeIsThere == Spec => []FreeNeverOverstated
<1>1. EditorInv => FreeNeverOverstated
  BY DEF EditorInv, Counted, FreeNeverOverstated
<1> QED BY <1>1, EditorInvariant, PTL

\* On every document, however deep and long, each node is found by its names,
\* at its bytes and with its size, and an iteration over a compound stands at
\* each of its tags, with their sizes (clod_nbt_payload_size,
\* clod_nbt_compound_get, clod_nbt_iter_next).
THEOREM TraversalsAreExact == Spec => []TraversalExact
<1>1. EditorInv => TraversalExact
  <2> SUFFICES ASSUME EditorInv, ~departed PROVE TraversalExact
    BY DEF TraversalExact
  <2>1. Intact
    BY DEF EditorInv
  <2>2. /\ data \in Text /\ Len(data) < SizeLimit /\ Len(data) = end /\ Depth + edits \in 0 .. Top
        /\ doc \in Levels[Depth + edits] /\ doc.type = 10 /\ data = TagBytes(doc)
    BY <2>1, DataFacts DEF Intact
  <2> DEFINE m == Depth + edits
  <2> HIDE DEF m
  <2>3. m \in 0 .. Top /\ doc \in Levels[m]
    BY <2>2 DEF m
  <2>4. /\ tag_size(data, 0) = Len(data)
        /\ \A path \in PathsFrom(doc) : ExactAt(NodeAt(doc, path), PayloadAt(data, path))
    BY <2>2, <2>3, Traversal
  <2> QED BY <2>2, <2>4 DEF TraversalExact
<1> QED BY <1>1, EditorInvariant, PTL
================================================================================
