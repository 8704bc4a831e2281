---------------------------------- MODULE Crc ----------------------------------
(***************************************************************************)
(* crc.c and the program that makes its tables: five checksums, computed   *)
(* byte by byte, against the division of polynomials bit by bit.           *)
(*                                                                         *)
(* A word is the set of the positions of its one bits, that is, of the     *)
(* exponents of a polynomial over the field of two elements.               *)
(***************************************************************************)
EXTENDS Integers, Sequences, FiniteSets

CONSTANTS
  Data,    \* the bytes that may be added
  MaxLen   \* bounds the length of the data

ASSUME CrcAssumption == MaxLen \in Nat /\ Data \subseteq SUBSET (0 .. 7)

VARIABLES
  alg,   \* the checksum that is computed
  crc,   \* clod_<alg>_add so far
  ref,   \* the remainder by bitwise division so far
  added  \* the number of bytes

crcVars == <<alg, crc, ref, added>>

Xor(a, b) == (a \ b) \cup (b \ a)
Low(w, bits) == w \cap 0 .. bits - 1
Shl(w, n) == {i + n : i \in w}
Shr(w, n) == {i - n : i \in {j \in w : j >= n}}

\* The word with these hexadecimal digits, from the highest one.
Hex(digits) ==
  {i \in 0 .. 4 * Len(digits) - 1 : (digits[Len(digits) - i \div 4] \div 2 ^ (i % 4)) % 2 = 1}

details ==
  [crc64 |-> [bits |-> 64, reflect |-> FALSE, polynomial |-> Hex(<<4, 2, 15, 0, 14, 1, 14, 11, 10, 9, 14, 10, 3, 6, 9, 3>>)],
   crc32 |-> [bits |-> 32, reflect |-> TRUE,  polynomial |-> Hex(<<0, 4, 12, 1, 1, 13, 11, 7>>)],
   crc24 |-> [bits |-> 24, reflect |-> FALSE, polynomial |-> Hex(<<8, 6, 4, 12, 15, 11>>)],
   crc16 |-> [bits |-> 16, reflect |-> TRUE,  polynomial |-> Hex(<<1, 0, 2, 1>>)],
   crc8  |-> [bits |-> 8,  reflect |-> FALSE, polynomial |-> Hex(<<0, 7>>)]]

Algs == DOMAIN details

reflect(w, bits) == {bits - 1 - i : i \in Low(w, bits)}

\* One turn of the loop in table_gen, and its eight turns.
StepBit(w, d) == IF d.bits - 1 \in w THEN Xor(Shl(w, 1), d.polynomial) ELSE Shl(w, 1)
StepBits(w, d) ==
  LET step[n \in 0 .. 8] == IF n = 0 THEN w ELSE StepBit(step[n - 1], d) IN step[8]

\* The table's entry for a byte.
table_gen(i, d) ==
  IF d.reflect THEN reflect(StepBits(reflect(i, d.bits), d), d.bits)
  ELSE Low(StepBits(Shl(i, d.bits - 8), d), d.bits)

\* A mutant of clod_crc24_add: the table is indexed as for a reflected checksum.
clod_crc24_add_low(w, byte) == Low(Xor(table_gen(Xor(Low(w, 8), byte), details.crc24), Shl(w, 8)), 24)

\* One turn of the loop of each clod_<alg>_add.
clod_crc64_add(w, byte) == Xor(table_gen(Xor(Shr(w, 56), byte), details.crc64), Low(Shl(w, 8), 64))
clod_crc32_add(w, byte) == Xor(table_gen(Xor(Low(w, 8), byte), details.crc32), Shr(w, 8))
clod_crc24_add(w, byte) == Low(Xor(table_gen(Xor(Shr(Low(w, 24), 16), byte), details.crc24), Shl(w, 8)), 24)
clod_crc16_add(w, byte) == Xor(table_gen(Xor(Low(w, 8), byte), details.crc16), Shr(w, 8))
clod_crc8_add(w, byte)  == Xor(table_gen(Xor(Low(w, 8), byte), details.crc8), Shr(w, 8))

clod_crc_add(a, w, byte) ==
  CASE a = "crc64" -> clod_crc64_add(w, byte)
    [] a = "crc32" -> clod_crc32_add(w, byte)
    [] a = "crc24" -> clod_crc24_add(w, byte)
    [] a = "crc16" -> clod_crc16_add(w, byte)
    [] a = "crc8"  -> clod_crc8_add(w, byte)

clod_crc_init(a) == 0 .. details[a].bits - 1

clod_crc_finalise(a, w) == Xor(w, 0 .. details[a].bits - 1)

--------------------------------------------------------------------------------
(* The definition of a checksum: a register of `bits' bits, into which the *)
(* data are shifted bit by bit, the lowest bit of a byte first if the      *)
(* checksum is a reflected one.                                            *)

DataBit(byte, n, d) == (IF d.reflect THEN n - 1 ELSE 8 - n) \in byte
DivideBit(w, bit, d) ==
  Xor(Low(Shl(w, 1), d.bits), IF (d.bits - 1 \in w) # bit THEN d.polynomial ELSE {})
Divided(w, byte, d) ==
  LET register[n \in 0 .. 8] ==
        IF n = 0 THEN w ELSE DivideBit(register[n - 1], DataBit(byte, n, d), d)
  IN register[8]

--------------------------------------------------------------------------------

CrcInit ==
  /\ alg \in Algs
  /\ crc = clod_crc_init(alg)
  /\ ref = 0 .. details[alg].bits - 1
  /\ added = 0

CrcNext ==
  /\ added < MaxLen
  /\ added' = added + 1
  /\ \E byte \in Data :
       /\ crc' = clod_crc_add(alg, crc, byte)
       /\ ref' = Divided(ref, byte, details[alg])
  /\ UNCHANGED alg

CrcSpec == CrcInit /\ [][CrcNext]_crcVars

--------------------------------------------------------------------------------
(* Properties *)

\* What the tables of crc_tables_generate.c and the loops of crc.c compute is
\* the checksum of the polynomial that hash.h names, reflected where it says so.
CrcIsRemainder == crc = IF details[alg].reflect THEN reflect(ref, details[alg].bits) ELSE ref
================================================================================
