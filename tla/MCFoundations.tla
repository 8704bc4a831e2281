------------------------------ MODULE MCFoundations -----------------------------
(***************************************************************************)
(* What tables and region storages are built on: files, the directory,     *)
(* options and names, SipHash and the checksums.  They have no state in    *)
(* common, so a behaviour is one of one of them, and the others stay in an *)
(* initial state.                                                          *)
(***************************************************************************)
EXTENDS MappedFiles, Directory, RegionNames, SipHash, Crc, TLC

MCPrefixes == {<<>>, <<"p", "q">>, <<"r", ".">>}
MCExtensions == {<<>>, <<"x", ".", "y">>}
MCCoordinates == {-1, 1, 10, 11}
MCBytes == 0 .. MaxFed
MCStream == [i \in 0 .. MaxFed - 1 |-> i + 1]
MCData == {{}, {0}, {7}, {0, 7}, {1, 3, 4}, 0 .. 7}
Symmetry == Permutations(Files) \cup Permutations(Names) \cup Permutations(Iters)

\* The check values that are published for three of the checksums: those of
\* the digits from 1 to 9 in ASCII.  (The union of one word is that word;
\* written so, TLC has computed it before it goes on with the next digit.)
Checked(a) ==
  LET sum[n \in 0 .. 9] ==
        IF n = 0 THEN clod_crc_init(a) ELSE UNION {clod_crc_add(a, w, Hex(<<3, n>>)) : w \in {sum[n - 1]}}
  IN clod_crc_finalise(a, sum[9])

ASSUME CheckValues ==
  /\ Checked("crc64") = Hex(<<6, 2, 14, 12, 5, 9, 14, 3, 15, 1, 10, 4, 15, 0, 0, 10>>)
  /\ Checked("crc32") = Hex(<<12, 11, 15, 4, 3, 9, 2, 6>>)
  /\ Checked("crc16") = Hex(<<9, 0, 6, 14>>)

VARIABLE part

MCInit ==
  /\ part \in {"files", "directory", "names", "siphash", "crc"}
  /\ part # "files" => exists = {} /\ disk = [i \in Inodes |-> 0]
  /\ part # "directory" => entry = [n \in Names |-> "none"]
  /\ part # "names" => asked = [Zeroed EXCEPT !.version = 1]
  /\ part # "crc" => alg = "crc8"
  /\ Init
  /\ DirInit
  /\ NamesInit
  /\ clod_sip64_init
  /\ CrcInit

\* The callers of the hashes stop at the bounds, where nothing is left to do.
Stopped ==
  /\ \/ part = "siphash" /\ fed = MaxFed
     \/ part = "crc" /\ added = MaxLen
  /\ UNCHANGED <<sipVars, crcVars>>

MCNext ==
  /\ \/ part = "files" /\ Next /\ UNCHANGED <<dirVars, namesVars, sipVars, crcVars>>
     \/ part = "directory" /\ DirNext /\ UNCHANGED <<vars, namesVars, sipVars, crcVars>>
     \/ part = "names" /\ NamesNext /\ UNCHANGED <<vars, dirVars, sipVars, crcVars>>
     \/ part = "siphash" /\ SipNext /\ UNCHANGED <<vars, dirVars, namesVars, crcVars>>
     \/ part = "crc" /\ CrcNext /\ UNCHANGED <<vars, dirVars, namesVars, sipVars>>
     \/ Stopped /\ UNCHANGED <<vars, dirVars, namesVars>>
  /\ UNCHANGED part

MCSpec == MCInit /\ [][MCNext]_<<vars, dirVars, namesVars, sipVars, crcVars, part>>
================================================================================
