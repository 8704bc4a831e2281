-------------------------------- MODULE SipHash --------------------------------
(***************************************************************************)
(* siphash.c: hashing a stream of bytes that arrives in pieces.            *)
(*                                                                         *)
(* The rounds mix one word after the other into the four lanes of the      *)
(* state, which are thus a function of the seed and of the words; the      *)
(* model keeps the words.  The bytes are Stream, of which the caller adds  *)
(* the next `size' at a time; as the code never looks at a byte's value,   *)
(* Stream may be anything.                                                 *)
(***************************************************************************)
EXTENDS Integers, Sequences

CONSTANTS
  Bytes,    \* the values of a byte
  MaxFed,   \* bounds the length of the stream
  Stream,   \* the bytes to be hashed
  Pieces    \* the sizes of the pieces

ASSUME SipAssumption ==
  /\ MaxFed \in Nat
  /\ 0 \in Bytes
  /\ Stream \in [0 .. MaxFed - 1 -> Bytes]
  /\ Pieces \subseteq Nat

VARIABLES
  fed,        \* the number of bytes added so far
  words,      \* the words mixed into _v0, _v1, _v2, _v3
  data_size,  \* the upper five bits of _size
  remaining,  \* the lower three bits of _size
  buf         \* _buf

sipVars == <<fed, words, data_size, remaining, buf>>

Word == [0 .. 7 -> Bytes]

\* read_uint64 of the n bytes at an offset, which fills up with zeros.
read_uint64(bytes, off, n) == [j \in 0 .. 7 |-> IF j < n THEN bytes[off + j] ELSE 0]

clod_sip64_init ==
  /\ fed = 0
  /\ words = <<>>
  /\ data_size = 0
  /\ remaining = 0
  /\ buf = [j \in 0 .. 6 |-> 0]

\* The bytes of the piece that is being added.
In(size) == [i \in 0 .. size - 1 |-> Stream[fed + i]]

\* Less than a word: the bytes are kept.
sip64_keep(size) ==
  /\ remaining + size < 8
  /\ buf' = [j \in 0 .. 6 |-> IF j >= remaining /\ j < remaining + size THEN In(size)[j - remaining] ELSE buf[j]]
  /\ remaining' = remaining + size
  /\ UNCHANGED words

\* The word made of the kept bytes and the first ones of the piece.
FirstWord(size) ==
  [j \in 0 .. 7 |-> IF j < remaining THEN read_uint64(buf, 0, remaining)[j]
                    ELSE read_uint64(In(size), 0, 8 - remaining)[j - remaining]]

\* A mutant of sip64_words: the tail is what would be left over if nothing had
\* been kept.
sip64_words_realigned(size) ==
  LET off == 8 - remaining
      turns == (size - off) \div 8
  IN /\ remaining + size >= 8
     /\ words' = words \o <<FirstWord(size)>> \o [k \in 1 .. turns |-> read_uint64(In(size), off + 8 * (k - 1), 8)]
     /\ remaining' = size % 8
     /\ buf' = [j \in 0 .. 6 |-> IF j < size % 8 THEN In(size)[8 * (size \div 8) + j] ELSE buf[j]]

\* The first word, those the loop finds, and the bytes that are left over.
sip64_words(size) ==
  LET off == 8 - remaining
      turns == (size - off) \div 8
      rest == off + 8 * turns
  IN /\ remaining + size >= 8
     /\ words' = words \o <<FirstWord(size)>> \o [k \in 1 .. turns |-> read_uint64(In(size), off + 8 * (k - 1), 8)]
     /\ remaining' = size - rest
     /\ buf' = [j \in 0 .. 6 |-> IF j < size - rest THEN In(size)[rest + j] ELSE buf[j]]

\* set_data_size, which keeps five bits.
Count(size) == data_size' = (data_size + size) % 32

\* An empty piece changes nothing.
clod_sip64_add(size) ==
  /\ fed + size <= MaxFed
  /\ size > 0
  /\ Count(size)
  /\ sip64_keep(size) \/ sip64_words(size)
  /\ fed' = fed + size

\* The last word of clod_sip64_finalise: the kept bytes and, above them, the size.
LastWord == [bytes |-> read_uint64(buf, 0, remaining), size |-> data_size]

SipNext == \E size \in Pieces : clod_sip64_add(size)

SipSpec == clod_sip64_init /\ [][SipNext]_sipVars

--------------------------------------------------------------------------------
(* Properties *)

\* The type invariant of clod_sip64_state.
SipTypeOK ==
  /\ fed \in 0 .. MaxFed
  /\ words \in Seq(Word)
  /\ data_size \in 0 .. 31
  /\ remaining \in 0 .. 7
  /\ buf \in [0 .. 6 -> Bytes]

\* However the stream is cut, the words that are mixed in are those of
\* clod_sip64 for the whole of it: its bytes in groups of eight, and last the
\* bytes left over with the length (hash.h: adding in pieces or at once).
StreamingIsOneShot ==
  /\ Len(words) = fed \div 8
  /\ \A k \in 1 .. Len(words), j \in 0 .. 7 : words[k][j] = Stream[8 * (k - 1) + j]
  /\ LastWord.bytes = [j \in 0 .. 7 |-> IF j < fed % 8 THEN Stream[8 * (fed \div 8) + j] ELSE 0]
  /\ LastWord.size = fed % 32
================================================================================
