------------------------------ MODULE RegionNames ------------------------------
(***************************************************************************)
(* How a region storage is configured, and which file and which chunk of   *)
(* it a position is: read_opts (region_open.c), filename_make (filename.c) *)
(* and vec_group (vmath.h).                                                *)
(*                                                                         *)
(* Text is a sequence of characters.  The limits are constants: 30, 14 and *)
(* 10 in filename.h.  A storage is opened with any options and asked for   *)
(* any positions; pos has coordinates for as many dimensions as there are. *)
(***************************************************************************)
EXTENDS Integers, Sequences

CONSTANTS
  CLOSED,       \* no storage
  PREFIX_MAX,   \* CLOD_REGION_PREFIX_MAX
  EXT_MAX,      \* EXTENSION_MAX
  DIMS_MAX,     \* CLOD_REGION_DIMENSIONS_MAX
  COORD_MAX,    \* the longest text of a coordinate: 20 for an int64_t
  Prefixes, Extensions,  \* texts for options; the empty one asks for the default
  Supported,    \* the compression methods whose libraries are compiled in
  Coordinates,  \* coordinates of positions
  GroupBits     \* vec_group's group_bits, which it limits to WordBits

\* The width of a coordinate and of an index.
WordBits == 64

ASSUME NamesAssumption ==
  /\ {PREFIX_MAX, EXT_MAX, DIMS_MAX, COORD_MAX, GroupBits} \subseteq Nat
  /\ DIMS_MAX >= 2 /\ GroupBits <= WordBits
  /\ Prefixes \cup Extensions \subseteq Seq(STRING)
  /\ Coordinates \subseteq Int

VARIABLES
  asked,  \* the options clod_region_open was called with
  opts,   \* the options of the storage, or CLOSED
  pos     \* the position that is looked for

namesVars == <<asked, opts, pos>>

FILENAME_MAX == PREFIX_MAX + 1 + DIMS_MAX * (COORD_MAX + 1) + EXT_MAX

RDONLY == 1
RDWR == 2

Positions == [1 .. DIMS_MAX -> Coordinates]

--------------------------------------------------------------------------------
(* read_opts: the fields are read in this order, and the first one that is *)
(* not valid ends the reading.                                             *)

fields == <<"version", "dims", "mode", "unix_fd", "prefix", "region_ext", "compression">>

\* Zero, "DEFAULT" and the empty text ask for the default.  chunk_ext is read
\* as region_ext is, and unix_file_perms is copied; nothing here uses them.
Options ==
  [version : {0, 1}, dims : 0 .. DIMS_MAX + 1, mode : {0, RDONLY, RDWR + 1}, unix_fd : {-1, 0},
   prefix : Prefixes, region_ext : Extensions, compression : {"DEFAULT", "ZLIB", "LZ4F"}]

Contains(text, char) == \E i \in DOMAIN text : text[i] = char

\* The texts begin with "region" and with "mca" or "mcr", here with a letter.
is_vanilla_compatible(o) == o.dims = 2 /\ Head(o.prefix) = "r" /\ Head(o.region_ext) = "m"

\* clod_region_open's memset.
Zeroed == [version |-> 0, dims |-> 0, mode |-> 0, unix_fd |-> 0, prefix |-> <<>>, region_ext |-> <<>>, compression |-> "DEFAULT"]

\* What valid fields become; the compression depends on what the others have
\* become.  With vanilla-compatible options, its default stays zero.
Taken(src) ==
  LET given == [src EXCEPT !.dims = IF @ = 0 THEN 2 ELSE @,
                           !.mode = IF @ = 0 THEN RDWR ELSE @,
                           !.prefix = IF @ = <<>> THEN <<"r">> ELSE @,
                           !.region_ext = IF @ = <<>> THEN <<"m">> ELSE @]
  IN [given EXCEPT !.compression =
        IF @ # "DEFAULT" \/ is_vanilla_compatible(given) THEN @
        ELSE IF "LZ4F" \in Supported THEN "LZ4F" ELSE "UNCOMPRESSED"]

Valid(src, field) ==
  CASE field = "version" -> src.version = 1
    [] field = "dims" -> src.dims <= DIMS_MAX
    [] field = "mode" -> src.mode \in {0, RDONLY, RDWR}
    [] field = "unix_fd" -> src.unix_fd >= 0
    [] field = "prefix" -> ~Contains(src.prefix, ".")
    [] field = "region_ext" -> TRUE
    [] field = "compression" ->
         IF src.compression # "DEFAULT" THEN src.compression \in Supported
         ELSE is_vanilla_compatible(Taken(src)) => "ZLIB" \in Supported

\* The field is valid, and those before it are.
Reached(src, field) ==
  \E n \in DOMAIN fields : fields[n] = field /\ \A i \in 1 .. n : Valid(src, fields[i])

\* What has been read when read_opts returns, and whether all fields were valid.
read_opts(src) ==
  [dst |-> [field \in DOMAIN Zeroed |-> IF Reached(src, field) THEN Taken(src)[field] ELSE Zeroed[field]],
   valid |-> Reached(src, "compression")]

--------------------------------------------------------------------------------
(* filename_make *)

\* A coordinate in decimal.
Digit(n) == <<"0", "1", "2", "3", "4", "5", "6", "7", "8", "9">>[n + 1]
Digits[n \in Nat] == IF n < 10 THEN <<Digit(n)>> ELSE Digits[n \div 10] \o <<Digit(n % 10)>>
Decimal(n) == IF n < 0 THEN <<"-">> \o Digits[-n] ELSE Digits[n]

\* The texts of the coordinates are no longer than filename.h reckons with.
ASSUME CoordAssumption == \A c \in Coordinates \cup {0} : Len(Decimal(c)) <= COORD_MAX

\* str_copy: up to the delimiter, and at most so many characters.
str_copy(text, max, delim) ==
  LET stops == {i \in 1 .. Len(text) : text[i] = delim \/ i > max} \cup {Len(text) + 1}
  IN SubSeq(text, 1, (CHOOSE i \in stops : \A j \in stops : i <= j) - 1)

\* A mutant of Coords: nothing separates the coordinates.
CoordsJoined(p, dims) ==
  LET c[n \in 0 .. dims] == IF n = 0 THEN <<>> ELSE c[n - 1] \o Decimal(p[n]) IN c[dims]

Coords(p, dims) ==
  LET c[n \in 0 .. dims] == IF n = 0 THEN <<>> ELSE c[n - 1] \o Decimal(p[n]) \o <<".">> IN c[dims]

\* A mutant of filename_make: the prefix may be of any length.
filename_make_long(o, p) == o.prefix \o o.prefix \o <<".">> \o Coords(p, o.dims) \o str_copy(o.region_ext, EXT_MAX, "")

\* The text before it is cut to the size of the buffer; its length is what the
\* assertion at the end is about.
filename_make(o, p) ==
  str_copy(o.prefix, PREFIX_MAX, ".") \o <<".">> \o Coords(p, o.dims) \o str_copy(o.region_ext, EXT_MAX, "")

--------------------------------------------------------------------------------
(* vec_group: coordinate i gives take_bits to the index.                   *)

\* mask64(n) + 1
pow2[n \in 0 .. GroupBits] == IF n = 0 THEN 1 ELSE 2 * pow2[n - 1]

\* A mutant of take_bits: every coordinate gives as many, rounded up.
take_bits_even(res_bits, dims, i) == (GroupBits + dims - 1) \div dims

take_bits(res_bits, dims, i) == (GroupBits - res_bits + dims - i) \div (dims - i + 1)

\* A coordinate shifted to the right.  By the width of the word or more, the
\* result is undefined in C: any number.
Undefined == CHOOSE n \in Int : TRUE
ShiftRight(n, bits) == IF bits < WordBits THEN n \div pow2[bits] ELSE Undefined

\* One turn of the loop.
group_turn(g, p, dims, i) ==
  LET take == take_bits(g.res_bits, dims, i)
  IN [res |-> g.res + (p[i] % pow2[take]) * pow2[g.res_bits],
      res_bits |-> g.res_bits + take,
      vec |-> [g.vec EXCEPT ![i] = ShiftRight(p[i], take)]]

\* The index of a position in its group, and the group.
vec_group(p, dims) ==
  LET loop[i \in 0 .. dims] ==
        IF i = 0 THEN [res |-> 0, res_bits |-> 0, vec |-> [n \in 1 .. dims |-> p[n]]]
        ELSE group_turn(loop[i - 1], p, dims, i)
  IN [res |-> loop[dims].res, vec |-> loop[dims].vec]

--------------------------------------------------------------------------------

NamesInit ==
  /\ asked \in Options
  /\ opts = CLOSED
  /\ pos = [i \in 1 .. DIMS_MAX |-> 0]

\* read_opts returns CLOD_REGION_INVALID_USAGE, which is 1, or true: never a
\* zero, for which clod_region_open looks.
clod_region_open ==
  /\ opts = CLOSED
  /\ opts' = read_opts(asked).dst
  /\ UNCHANGED <<asked, pos>>

\* region_file_open is asked for a position.
region_file_open ==
  /\ opts # CLOSED
  /\ pos' \in Positions
  /\ UNCHANGED <<asked, opts>>

NamesNext == clod_region_open \/ region_file_open

NamesSpec == NamesInit /\ [][NamesNext]_namesVars

--------------------------------------------------------------------------------
(* Properties *)

Opened == opts # CLOSED
Complete == Opened /\ read_opts(asked).valid

\* No name is cut: the buffer of REGION_FILENAME_MAX characters is long enough
\* for every position and for all options, the invalid ones that are half read
\* included (the assertions in filename_make).
NameFits == Opened => opts.dims <= DIMS_MAX /\ Len(filename_make(opts, pos)) <= FILENAME_MAX

\* Two positions never share a file: their names differ if a coordinate does
\* (filename_make with options that are valid).
NamesDistinct ==
  Complete =>
    LET name == filename_make(opts, pos)
    IN \A other \in Positions : filename_make(opts, other) = name => \A i \in 1 .. opts.dims : pos[i] = other[i]

\* Two positions in the same group have different indexes below 2^GroupBits,
\* however the bits divide among the dimensions, negative coordinates included
\* (vec_group).  With all bits of a word, which one dimension would have to give
\* alone, the shifts are not defined.
GroupingInvertible ==
  Complete /\ GroupBits < WordBits =>
    LET group == vec_group(pos, opts.dims)
    IN /\ group.res \in 0 .. pow2[GroupBits] - 1
       /\ \A other \in Positions :
            vec_group(other, opts.dims) = group => \A i \in 1 .. opts.dims : pos[i] = other[i]
================================================================================
