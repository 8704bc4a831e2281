---------------------------- MODULE PlatformProofs -----------------------------
(***************************************************************************)
(* Proofs about MappedFiles, for any finite set of file objects and any    *)
(* files, sizes and addresses, with and without mremap; about Directory,   *)
(* for any names, places and iterators; and about RegionNames, for any     *)
(* limits, options and coordinates.                                        *)
(*                                                                         *)
(* The invariants of MappedFiles are inductive together.  A truncation     *)
(* replaces the map of one open file object: Retarget is about what that   *)
(* preserves.  What is said of RegionNames is about its operators: the     *)
(* loops that write a number, a name and an index are followed a turn at a *)
(* time with BoundedInduction.                                             *)
(***************************************************************************)
EXTENDS MappedFiles, Directory, RegionNames, NatLemmas, FiniteSetTheorems, SequenceTheorems

IInv == TypeOK /\ OwnMap /\ EmptyHasNoMap /\ NothingLeaks

\* An address is one of a set of mappings if one of them is there.
LEMMA AddrsOfDef ==
  ASSUME NEW M, NEW x
  PROVE  x \in AddrsOf(M) <=> \E m \in M : m.addr = x
BY DEF AddrsOf

LEMMA AddrsOfUnion ==
  ASSUME NEW M, NEW N
  PROVE  AddrsOf(M \cup N) = AddrsOf(M) \cup AddrsOf(N)
BY DEF AddrsOf

LEMMA AddrsOfMapping ==
  ASSUME NEW a, NEW ino, NEW size
  PROVE  AddrsOf(Mapping(a, ino, size)) = {a} \ {NULL}
<1>1. CASE a = NULL
  BY <1>1 DEF AddrsOf, Mapping
<1>2. CASE a # NULL
  <2> DEFINE m == [addr |-> a, ino |-> ino, size |-> size]
  <2>1. m.addr = a
    OBVIOUS
  <2>2. Mapping(a, ino, size) = {m}
    BY <1>2 DEF Mapping
  <2> HIDE DEF m
  <2> QED BY <1>2, <2>1, <2>2 DEF AddrsOf
<1> QED BY <1>1, <1>2

\* What is known of an open file object.
LEMMA OpenFacts ==
  ASSUME TypeOK, NEW f \in Open
  PROVE  /\ f \in Files
         /\ file[f] \in FileStructs
         /\ file[f].map \in Addrs \cup {NULL}
         /\ file[f].size \in Sizes
         /\ file[f].ino \in Inodes
         /\ file[f].writeable \in BOOLEAN
BY DEF Open, TypeOK, FileStructs

\* The mapping of a file object is the only one at its address, and a munmap
\* that works takes that address away and no other.
LEMMA MunmapFacts ==
  ASSUME TypeOK, NEW f \in Open, NEW works \in BOOLEAN
  PROVE  /\ Munmap(f, works) \subseteq live
         /\ \A m \in live : m.addr # file[f].map => m \in Munmap(f, works)
         /\ works => AddrsOf(Munmap(f, works)) = AddrsOf(live) \ {file[f].map}
         /\ ~works => AddrsOf(Munmap(f, works)) = AddrsOf(live)
BY DEF Munmap, Own, AddrsOf

\* The file objects' maps, elementwise.
LEMMA LeakFacts ==
  ASSUME NothingLeaks, TypeOK
  PROVE  /\ \A x : x \in AddrsOf(live) <=> x \in stranded \/ (x # NULL /\ \E f \in Open : file[f].map = x)
         /\ stranded \subseteq AddrsOf(live)
BY DEF NothingLeaks

--------------------------------------------------------------------------------
(* Steps that replace the map of an open file object.                      *)

LEMMA Retarget ==
  ASSUME IInv, NEW f \in Open, NEW works \in BOOLEAN, NEW a, NEW size \in Sizes,
         a = NULL \/ a \in Addrs \ AddrsOf(Munmap(f, works)),
         SetFile(f, a, size),
         live' = Munmap(f, works) \cup Mapping(a, file[f].ino, size),
         stranded' = stranded \cup Lost(f, works),
         disk' = [disk EXCEPT ![file[f].ino] = size],
         exists' = exists, fds' = fds, res' \in Results
  PROVE  /\ TypeOK' /\ OwnMap' /\ NothingLeaks'
         /\ Open' = Open
         /\ file'[f].map = a /\ file'[f].size = size
         /\ \A g \in Open \ {f} : file'[g] = file[g]
<1> USE DEF IInv
<1>1. /\ f \in Files /\ file[f] \in FileStructs /\ file[f].ino \in Inodes
      /\ file[f].writeable \in BOOLEAN /\ file[f].map \in Addrs \cup {NULL}
  BY OpenFacts
<1>2. a \in Addrs \cup {NULL}
  OBVIOUS
<1>3. /\ file' \in [Files -> FileStructs \cup {NULL}]
      /\ file'[f] \in FileStructs
      /\ file'[f].map = a /\ file'[f].size = size /\ file'[f].ino = file[f].ino
      /\ \A g \in Files \ {f} : file'[g] = file[g]
  BY <1>1, <1>2 DEF TypeOK, FileStructs, SetFile
<1>4. Open' = Open
  BY <1>1, <1>3, NullAssumption DEF Open
<1>5. /\ Munmap(f, works) \subseteq live
      /\ \A m \in live : m.addr # file[f].map => m \in Munmap(f, works)
      /\ works => AddrsOf(Munmap(f, works)) = AddrsOf(live) \ {file[f].map}
      /\ ~works => AddrsOf(Munmap(f, works)) = AddrsOf(live)
  BY MunmapFacts
<1>6. Mapping(a, file[f].ino, size) \subseteq Mappings
  BY <1>1, <1>2 DEF Mapping, Mappings
<1>7. Lost(f, works) \subseteq Addrs
  BY <1>1 DEF Lost
<1>8. TypeOK'
  BY <1>1, <1>3, <1>5, <1>6, <1>7 DEF TypeOK
<1>9. \A g \in Open : g # f => file[g].ino # file[f].ino /\ (file[g].map # NULL => file[g].map # file[f].map)
  BY DEF OwnMap
<1>10. \A g \in Open : g # f => g \in Files /\ file'[g] = file[g] /\ file[g].map \in Addrs \cup {NULL}
  BY <1>3, OpenFacts
<1>11. \A g \in Open : g # f /\ file[g].map # NULL => file[g].map \in AddrsOf(Munmap(f, works))
  <2> SUFFICES ASSUME NEW g \in Open, g # f, file[g].map # NULL
               PROVE  file[g].map \in AddrsOf(Munmap(f, works))
    OBVIOUS
  <2>1. file[g].map \in AddrsOf(live)
    BY LeakFacts
  <2> QED BY <2>1, <1>5, <1>9
<1>12. OwnMap'
  <2>1. ASSUME NEW g \in Open, g # f
        PROVE  /\ file'[g].size = disk'[file'[g].ino]
               /\ file'[g].map # NULL =>
                    [addr |-> file'[g].map, ino |-> file'[g].ino, size |-> file'[g].size] \in live'
    <3>1. file'[g] = file[g] /\ file[g].ino # file[f].ino /\ file[g].ino \in Inodes
      BY <2>1, <1>9, <1>10, OpenFacts
    <3>2. file[g].size = disk[file[g].ino] /\ disk'[file[g].ino] = disk[file[g].ino]
      BY <3>1, <1>1 DEF OwnMap, TypeOK
    <3>3. ASSUME file[g].map # NULL
          PROVE  [addr |-> file[g].map, ino |-> file[g].ino, size |-> file[g].size] \in live'
      <4> DEFINE m == [addr |-> file[g].map, ino |-> file[g].ino, size |-> file[g].size]
      <4>1. m \in live /\ m.addr = file[g].map
        BY <3>3 DEF OwnMap
      <4> HIDE DEF m
      <4>2. m \in Munmap(f, works)
        BY <4>1, <1>5, <1>9, <2>1, <3>3
      <4> QED BY <4>2 DEF m
    <3> QED BY <3>1, <3>2, <3>3
  <2>2. /\ file'[f].size = disk'[file'[f].ino]
        /\ file'[f].map # NULL =>
             [addr |-> file'[f].map, ino |-> file'[f].ino, size |-> file'[f].size] \in live'
    BY <1>1, <1>3 DEF TypeOK, Mapping
  <2>3. \A g, h \in Open :
          g # h => file'[g].ino # file'[h].ino /\ (file'[g].map = file'[h].map => file'[g].map = NULL)
    <3>1. \A g \in Open : g # f => file'[g].ino # file'[f].ino /\ (file'[g].map = a => a = NULL)
      BY <1>3, <1>9, <1>10, <1>11
    <3> QED BY <1>3, <1>10, <3>1 DEF OwnMap
  <2>4. \A m, n \in live' : m.addr = n.addr => m = n
    <3>1. \A m \in Munmap(f, works) : m.addr \in AddrsOf(Munmap(f, works))
      BY AddrsOfDef
    <3>2. \A m \in Mapping(a, file[f].ino, size) :
            m = [addr |-> a, ino |-> file[f].ino, size |-> size] /\ m.addr = a /\ a # NULL
      BY DEF Mapping
    <3> QED BY <1>5, <3>1, <3>2 DEF OwnMap
  <2> QED BY <1>4, <2>1, <2>2, <2>3, <2>4 DEF OwnMap
<1>13. NothingLeaks'
  <2>1. AddrsOf(live') = AddrsOf(Munmap(f, works)) \cup ({a} \ {NULL})
    <3>1. AddrsOf(live') = AddrsOf(Munmap(f, works)) \cup AddrsOf(Mapping(a, file[f].ino, size))
      BY AddrsOfUnion
    <3>2. AddrsOf(Mapping(a, file[f].ino, size)) = {a} \ {NULL}
      BY AddrsOfMapping
    <3> QED BY <3>1, <3>2
  <2>2. file[f].map \notin stranded /\ stranded \subseteq Addrs
    BY DEF NothingLeaks, TypeOK
  <2>3. \A x : x \in AddrsOf(live) <=> x \in stranded \/ (x # NULL /\ \E g \in Open : file[g].map = x)
    BY LeakFacts
  <2>4. \A x : x \in AddrsOf(live') <=> x \in stranded' \/ (x # NULL /\ \E g \in Open : file'[g].map = x)
    <3> SUFFICES ASSUME NEW x
                 PROVE  x \in AddrsOf(live') <=> x \in stranded' \/ (x # NULL /\ \E g \in Open : file'[g].map = x)
      OBVIOUS
    <3>1. (\E g \in Open : file'[g].map = x) <=> x = a \/ \E g \in Open : g # f /\ file[g].map = x
      BY <1>3, <1>10
    <3>2. (\E g \in Open : file[g].map = x) <=> x = file[f].map \/ \E g \in Open : g # f /\ file[g].map = x
      OBVIOUS
    <3>3. (\E g \in Open : g # f /\ file[g].map = x) /\ x # NULL => x # file[f].map
      BY <1>9
    <3>4. x \in stranded' <=> x \in stranded \/ (~works /\ x = file[f].map /\ x # NULL)
      BY DEF Lost
    <3>5. x \in AddrsOf(Munmap(f, works)) <=> x \in AddrsOf(live) /\ (works => x # file[f].map)
      BY <1>5
    <3>6. x \in stranded => x # NULL /\ x # file[f].map
      BY <2>2, FilesAssumption
    <3>7. x \in AddrsOf(live) <=> x \in stranded \/ (x # NULL /\ \E g \in Open : file[g].map = x)
      BY <2>3
    <3> QED BY <2>1, <3>1, <3>2, <3>3, <3>4, <3>5, <3>6, <3>7
  <2>5. AddrsOf(live') = stranded' \cup ({file'[g].map : g \in Open} \ {NULL})
    BY <2>4, <1>7, <2>2, FilesAssumption
  <2>6. \A g \in Open : file'[g].map \notin stranded'
    <3>1. stranded' \subseteq AddrsOf(Munmap(f, works))
      BY <1>1, <1>5, <2>2, <2>3 DEF Lost
    <3>2. a \notin stranded'
      BY <3>1, <2>2, <1>7, FilesAssumption
    <3>3. ASSUME NEW g \in Open, g # f PROVE file[g].map \notin stranded'
      BY <3>3, <1>9, FilesAssumption, <2>2 DEF Lost, NothingLeaks
    <3> QED BY <1>3, <1>10, <3>2, <3>3
  <2> QED BY <1>4, <2>5, <2>6 DEF NothingLeaks
<1> QED BY <1>3, <1>4, <1>8, <1>10, <1>12, <1>13

--------------------------------------------------------------------------------
(* Opening and closing. *)

\* openat may create a file, but no open file object is one of that.
LEMMA OpenatFacts ==
  ASSUME IInv, NEW ino \in Inodes, NEW create \in BOOLEAN, Openat(ino, create)
  PROVE  /\ exists' \subseteq Inodes
         /\ disk' \in [Inodes -> Sizes]
         /\ \A g \in Open : disk'[file[g].ino] = disk[file[g].ino] /\ file[g].ino # ino
<1>1. \A g \in Open : file[g].ino # ino /\ file[g].ino \in Inodes
  BY OpenFacts DEF Openat, OpenInodes, IInv
<1> QED BY <1>1, FilesAssumption DEF Openat, IInv, TypeOK

LEMMA OpenStep ==
  ASSUME IInv, NEW f \in Files, NEW ino \in Inodes, NEW create \in BOOLEAN, NEW writeable \in BOOLEAN,
         file_open(f, ino, create, writeable)
  PROVE  IInv'
<1> USE DEF IInv
<1>1. Openat(ino, create) /\ file[f] = NULL /\ fds' = fds + 1 /\ res' = "OK"
      /\ stranded' = stranded
  BY DEF file_open
<1>2. PICK a \in Places(live, disk'[ino]) :
        /\ file' = [file EXCEPT ![f] = [map |-> a, size |-> disk'[ino], ino |-> ino, writeable |-> writeable]]
        /\ live' = live \cup Mapping(a, ino, disk'[ino])
  BY DEF file_open
<1>3. /\ exists' \subseteq Inodes
      /\ disk' \in [Inodes -> Sizes]
      /\ \A g \in Open : disk'[file[g].ino] = disk[file[g].ino] /\ file[g].ino # ino
  BY <1>1, OpenatFacts
<1>4. /\ a \in Addrs \cup {NULL}
      /\ a # NULL => a \notin AddrsOf(live)
      /\ a = NULL <=> disk'[ino] = 0
  BY FilesAssumption DEF Places
<1>5. /\ file' \in [Files -> FileStructs \cup {NULL}]
      /\ file'[f] = [map |-> a, size |-> disk'[ino], ino |-> ino, writeable |-> writeable]
      /\ file'[f] \in FileStructs
      /\ file'[f].map = a /\ file'[f].size = disk'[ino] /\ file'[f].ino = ino
      /\ \A g \in Files \ {f} : file'[g] = file[g]
  BY <1>2, <1>3, <1>4 DEF TypeOK, FileStructs
<1>6. Open' = Open \cup {f} /\ f \notin Open
  BY <1>1, <1>5, NullAssumption DEF Open
<1>7. \A g \in Open : g \in Files /\ g # f /\ file'[g] = file[g]
  BY <1>5, <1>6 DEF Open
<1>8. Mapping(a, ino, disk'[ino]) \subseteq Mappings
  BY <1>3, <1>4 DEF Mapping, Mappings
<1>9. TypeOK'
  BY <1>1, <1>2, <1>3, <1>5, <1>8 DEF TypeOK, Results
<1>10. \A g \in Open : file[g].map # NULL => file[g].map \in AddrsOf(live)
  BY LeakFacts
<1>11. OwnMap'
  <2>1. \A g \in Open' :
          /\ file'[g].size = disk'[file'[g].ino]
          /\ file'[g].map # NULL =>
               [addr |-> file'[g].map, ino |-> file'[g].ino, size |-> file'[g].size] \in live'
    <3>1. ASSUME NEW g \in Open
          PROVE  /\ file'[g].size = disk'[file'[g].ino]
                 /\ file'[g].map # NULL =>
                      [addr |-> file'[g].map, ino |-> file'[g].ino, size |-> file'[g].size] \in live'
      BY <1>2, <1>3, <1>7 DEF OwnMap
    <3>2. /\ file'[f].size = disk'[file'[f].ino]
          /\ file'[f].map # NULL =>
               [addr |-> file'[f].map, ino |-> file'[f].ino, size |-> file'[f].size] \in live'
      BY <1>2, <1>5 DEF Mapping
    <3> QED BY <1>6, <3>1, <3>2
  <2>2. \A g, h \in Open' :
          g # h => file'[g].ino # file'[h].ino /\ (file'[g].map = file'[h].map => file'[g].map = NULL)
    <3>1. \A g \in Open : file'[g].ino # file'[f].ino /\ (file'[g].map = a => a = NULL)
      BY <1>3, <1>4, <1>5, <1>7, <1>10
    <3>2. \A g, h \in Open :
            g # h => file'[g].ino # file'[h].ino /\ (file'[g].map = file'[h].map => file'[g].map = NULL)
      BY <1>7 DEF OwnMap
    <3> QED BY <1>5, <1>6, <3>1, <3>2
  <2>3. \A m, n \in live' : m.addr = n.addr => m = n
    <3>1. \A m \in live : m.addr \in AddrsOf(live)
      BY AddrsOfDef
    <3>2. \A m \in Mapping(a, ino, disk'[ino]) :
            m = [addr |-> a, ino |-> ino, size |-> disk'[ino]] /\ m.addr = a /\ a # NULL
      BY DEF Mapping
    <3> QED BY <1>2, <1>4, <3>1, <3>2 DEF OwnMap
  <2> QED BY <2>1, <2>2, <2>3 DEF OwnMap
<1>12. EmptyHasNoMap'
  BY <1>4, <1>5, <1>6, <1>7 DEF EmptyHasNoMap
<1>13. NothingLeaks'
  <2>1. AddrsOf(live') = AddrsOf(live) \cup ({a} \ {NULL})
    <3>1. AddrsOf(live') = AddrsOf(live) \cup AddrsOf(Mapping(a, ino, disk'[ino]))
      BY <1>2, AddrsOfUnion
    <3>2. AddrsOf(Mapping(a, ino, disk'[ino])) = {a} \ {NULL}
      BY AddrsOfMapping
    <3> QED BY <3>1, <3>2
  <2>2. AddrsOf(live') = stranded' \cup ({file'[g].map : g \in Open'} \ {NULL})
    <3>1. {file'[g].map : g \in Open'} = {file[g].map : g \in Open} \cup {a}
      BY <1>5, <1>6, <1>7
    <3> QED BY <1>1, <2>1, <3>1 DEF NothingLeaks
  <2>3. \A g \in Open' : file'[g].map \notin stranded'
    <3>1. a \notin stranded
      BY <1>4, LeakFacts, FilesAssumption DEF TypeOK
    <3> QED BY <1>1, <1>5, <1>6, <1>7, <3>1 DEF NothingLeaks
  <2>4. fds' = Cardinality(Open')
    <3>1. IsFiniteSet(Open)
      BY FS_Subset, FilesAssumption DEF Open
    <3>2. Cardinality(Open \cup {f}) = Cardinality(Open) + 1
      BY <1>6, <3>1, FS_AddElement
    <3> QED BY <1>1, <1>6, <3>2 DEF NothingLeaks
  <2> QED BY <2>2, <2>3, <2>4 DEF NothingLeaks
<1> QED BY <1>9, <1>11, <1>12, <1>13

\* file_open gives up: at most a mapping that no file object has is left.
LEMMA UndoneStep ==
  ASSUME IInv, NEW ino \in Inodes, NEW create \in BOOLEAN, file_open_undone(ino, create)
  PROVE  IInv'
<1> USE DEF IInv
<1>1. /\ Openat(ino, create) /\ res' = "INVALID_USAGE"
      /\ file' = file /\ fds' = fds
  BY DEF file_open_undone
<1>2. /\ exists' \subseteq Inodes
      /\ disk' \in [Inodes -> Sizes]
      /\ \A g \in Open : disk'[file[g].ino] = disk[file[g].ino] /\ file[g].ino # ino
  BY <1>1, OpenatFacts
<1>3. Open' = Open
  BY <1>1 DEF Open
<1>4. EmptyHasNoMap'
  BY <1>1, <1>3 DEF EmptyHasNoMap
<1>5. CASE live' = live /\ stranded' = stranded
  <2>1. TypeOK'
    BY <1>1, <1>2, <1>5 DEF TypeOK, Results
  <2>2. OwnMap'
    BY <1>1, <1>2, <1>3, <1>5 DEF OwnMap
  <2>3. NothingLeaks'
    BY <1>1, <1>3, <1>5 DEF NothingLeaks
  <2> QED BY <1>4, <2>1, <2>2, <2>3
<1>6. CASE \E a \in Places(live, disk'[ino]) :
             /\ live' = live \cup Mapping(a, ino, disk'[ino])
             /\ stranded' = stranded \cup ({a} \ {NULL})
  <2>1. PICK a \in Places(live, disk'[ino]) :
          /\ live' = live \cup Mapping(a, ino, disk'[ino])
          /\ stranded' = stranded \cup ({a} \ {NULL})
    BY <1>6
  <2>2. a \in Addrs \cup {NULL} /\ (a # NULL => a \notin AddrsOf(live))
    BY DEF Places
  <2>3. Mapping(a, ino, disk'[ino]) \subseteq Mappings
    BY <1>2, <2>2 DEF Mapping, Mappings
  <2>4. TypeOK'
    BY <1>1, <1>2, <2>1, <2>2, <2>3 DEF TypeOK, Results
  <2>5. \A m, n \in live' : m.addr = n.addr => m = n
    <3>1. \A m \in live : m.addr \in AddrsOf(live)
      BY AddrsOfDef
    <3>2. \A m \in Mapping(a, ino, disk'[ino]) :
            m = [addr |-> a, ino |-> ino, size |-> disk'[ino]] /\ m.addr = a /\ a # NULL
      BY DEF Mapping
    <3> QED BY <2>1, <2>2, <3>1, <3>2 DEF OwnMap
  <2>6. OwnMap'
    BY <1>1, <1>2, <1>3, <2>1, <2>5 DEF OwnMap
  <2>7. AddrsOf(live') = AddrsOf(live) \cup ({a} \ {NULL})
    <3>1. AddrsOf(live') = AddrsOf(live) \cup AddrsOf(Mapping(a, ino, disk'[ino]))
      BY <2>1, AddrsOfUnion
    <3>2. AddrsOf(Mapping(a, ino, disk'[ino])) = {a} \ {NULL}
      BY AddrsOfMapping
    <3> QED BY <3>1, <3>2
  <2>8. \A g \in Open : file[g].map \notin stranded'
    <3>1. \A g \in Open : file[g].map # NULL => file[g].map \in AddrsOf(live)
      BY LeakFacts
    <3> QED BY <2>1, <2>2, <3>1 DEF NothingLeaks
  <2>9. NothingLeaks'
    BY <1>1, <1>3, <2>1, <2>7, <2>8 DEF NothingLeaks
  <2> QED BY <1>4, <2>4, <2>6, <2>9
<1> QED BY <1>5, <1>6 DEF file_open_undone

\* file_close takes the file object's mapping and descriptor and no other's.
LEMMA CloseStep ==
  ASSUME IInv, NEW f \in Files, file_close(f)
  PROVE  IInv'
<1> USE DEF IInv
<1>1. /\ f \in Open /\ file' = [file EXCEPT ![f] = NULL]
      /\ fds' = fds - 1 /\ exists' = exists /\ disk' = disk
  BY DEF file_close, Open
<1>2. PICK works \in BOOLEAN :
        /\ stranded' = stranded \cup Lost(f, works)
        /\ live' = Munmap(f, works)
        /\ res' \in Results
  BY DEF file_close, Results
<1>3. file[f].map \in Addrs \cup {NULL}
  BY <1>1, OpenFacts
<1>4. /\ Munmap(f, works) \subseteq live
      /\ \A m \in live : m.addr # file[f].map => m \in Munmap(f, works)
      /\ works => AddrsOf(Munmap(f, works)) = AddrsOf(live) \ {file[f].map}
      /\ ~works => AddrsOf(Munmap(f, works)) = AddrsOf(live)
  BY <1>1, MunmapFacts
<1>5. /\ file' \in [Files -> FileStructs \cup {NULL}]
      /\ file'[f] = NULL
      /\ \A g \in Files \ {f} : file'[g] = file[g]
  BY <1>1 DEF TypeOK
<1>6. Open' = Open \ {f} /\ \A g \in Open' : file'[g] = file[g] /\ g \in Files
  BY <1>5 DEF Open
<1>7. Cardinality(Open') = Cardinality(Open) - 1 /\ Cardinality(Open') \in Nat
  <2>1. IsFiniteSet(Open)
    BY FS_Subset, FilesAssumption DEF Open
  <2>2. IsFiniteSet(Open \ {f}) /\ Cardinality(Open \ {f}) = Cardinality(Open) - 1
    BY <1>1, <2>1, FS_RemoveElement
  <2>3. Cardinality(Open \ {f}) \in Nat
    BY <2>2, FS_CardinalityType
  <2> QED BY <1>6, <2>2, <2>3
<1>8. fds' = Cardinality(Open')
  BY <1>1, <1>7 DEF NothingLeaks
<1>9. Lost(f, works) \subseteq Addrs
  BY <1>3 DEF Lost
<1>10. TypeOK'
  BY <1>1, <1>2, <1>4, <1>5, <1>7, <1>8, <1>9 DEF TypeOK
<1>11. \A g \in Open' : file[g].map # NULL => file[g].map # file[f].map
  BY <1>1, <1>6 DEF OwnMap
<1>12. OwnMap'
  <2>1. ASSUME NEW g \in Open'
        PROVE  /\ file'[g].size = disk'[file'[g].ino]
               /\ file'[g].map # NULL =>
                    [addr |-> file'[g].map, ino |-> file'[g].ino, size |-> file'[g].size] \in live'
    <3>1. g \in Open /\ file'[g] = file[g] /\ file[g].size = disk[file[g].ino]
      BY <1>6 DEF OwnMap
    <3>2. ASSUME file[g].map # NULL
          PROVE  [addr |-> file[g].map, ino |-> file[g].ino, size |-> file[g].size] \in live'
      <4> DEFINE m == [addr |-> file[g].map, ino |-> file[g].ino, size |-> file[g].size]
      <4>1. m \in live /\ m.addr = file[g].map
        BY <3>1, <3>2 DEF OwnMap
      <4> HIDE DEF m
      <4>2. m \in live'
        BY <4>1, <1>2, <1>4, <1>11, <3>2
      <4> QED BY <4>2 DEF m
    <3> QED BY <1>1, <3>1, <3>2
  <2>2. \A g, h \in Open' :
          g # h => file'[g].ino # file'[h].ino /\ (file'[g].map = file'[h].map => file'[g].map = NULL)
    BY <1>6 DEF OwnMap
  <2>3. \A m, n \in live' : m.addr = n.addr => m = n
    BY <1>2, <1>4 DEF OwnMap
  <2> QED BY <2>1, <2>2, <2>3 DEF OwnMap
<1>13. EmptyHasNoMap'
  BY <1>1, <1>6 DEF EmptyHasNoMap
<1>14. NothingLeaks'
  <2>1. file[f].map \notin stranded /\ stranded \subseteq Addrs
    BY <1>1 DEF NothingLeaks, TypeOK
  <2>2. \A x : x \in AddrsOf(live') <=> x \in stranded' \/ (x # NULL /\ \E g \in Open' : file'[g].map = x)
    <3> SUFFICES ASSUME NEW x
                 PROVE  x \in AddrsOf(live') <=> x \in stranded' \/ (x # NULL /\ \E g \in Open' : file'[g].map = x)
      OBVIOUS
    <3>1. x \in AddrsOf(live) <=> x \in stranded \/ (x # NULL /\ \E g \in Open : file[g].map = x)
      BY LeakFacts
    <3>2. (\E g \in Open : file[g].map = x) <=> x = file[f].map \/ \E g \in Open' : file'[g].map = x
      BY <1>1, <1>6
    <3>3. (\E g \in Open' : file'[g].map = x) /\ x # NULL => x # file[f].map
      BY <1>6, <1>11
    <3>4. x \in stranded' <=> x \in stranded \/ (~works /\ x = file[f].map /\ x # NULL)
      BY <1>2 DEF Lost
    <3>5. x \in AddrsOf(live') <=> x \in AddrsOf(live) /\ (works => x # file[f].map)
      BY <1>2, <1>4
    <3>6. x \in stranded => x # NULL /\ x # file[f].map
      BY <2>1, FilesAssumption
    <3> QED BY <3>1, <3>2, <3>3, <3>4, <3>5, <3>6
  <2>3. AddrsOf(live') = stranded' \cup ({file'[g].map : g \in Open'} \ {NULL})
    BY <1>2, <2>2, <1>9, <2>1, FilesAssumption
  <2>4. \A g \in Open' : file'[g].map \notin stranded'
    BY <1>2, <1>6, <1>11 DEF Lost, NothingLeaks
  <2> QED BY <1>8, <2>3, <2>4 DEF NothingLeaks
<1> QED BY <1>10, <1>12, <1>13, <1>14

--------------------------------------------------------------------------------
(* The ways file_truncate ends. *)

\* mremap moves the mapping or leaves it where it is.
LEMMA RemapStep ==
  ASSUME IInv, NEW f \in Files, NEW new_size \in Sizes, file_truncate_remap(f, new_size)
  PROVE  IInv'
<1> USE DEF IInv
<1>1. /\ f \in Open /\ disk' = [disk EXCEPT ![file[f].ino] = new_size]
      /\ exists' = exists /\ fds' = fds /\ stranded' = stranded
      /\ file[f].map # NULL /\ new_size # 0 /\ res' \in Results
  BY FilesAssumption DEF file_truncate_remap, Ftruncate, Remaps, Open, Results, TypeOK
<1>2. PICK a \in Places(live \ Own(f), new_size) :
        /\ SetFile(f, a, new_size)
        /\ live' = (live \ Own(f)) \cup Mapping(a, file[f].ino, new_size)
  BY DEF file_truncate_remap
<1>3. Munmap(f, TRUE) = live \ Own(f) /\ stranded' = stranded \cup Lost(f, TRUE)
  BY <1>1 DEF Munmap, Lost
<1>4. a \in Addrs \ AddrsOf(Munmap(f, TRUE)) /\ a # NULL
  BY <1>1, <1>3, FilesAssumption DEF Places
<1>5. /\ TypeOK' /\ OwnMap' /\ NothingLeaks'
      /\ Open' = Open
      /\ file'[f].map = a /\ file'[f].size = new_size
      /\ \A g \in Open \ {f} : file'[g] = file[g]
  BY <1>1, <1>2, <1>3, <1>4, Retarget
<1>6. EmptyHasNoMap'
  BY <1>1, <1>5 DEF EmptyHasNoMap
<1> QED BY <1>5, <1>6

\* mremap fails, and the struct lets go of the mapping.
LEMMA RemapFailsStep ==
  ASSUME IInv, NEW f \in Files, NEW new_size \in Sizes, file_truncate_remap_fails(f, new_size)
  PROVE  IInv'
<1> USE DEF IInv
<1>1. /\ f \in Open /\ disk' = [disk EXCEPT ![file[f].ino] = new_size]
      /\ exists' = exists /\ fds' = fds /\ stranded' = stranded \cup {file[f].map}
      /\ file[f].map # NULL /\ live' = live /\ SetFile(f, NULL, new_size)
      /\ res' \in Results
  BY DEF file_truncate_remap_fails, Ftruncate, Remaps, Open, Results, TypeOK
<1>2. stranded' = stranded \cup Lost(f, FALSE) /\ live' = Munmap(f, FALSE) \cup Mapping(NULL, file[f].ino, new_size)
  BY <1>1 DEF Munmap, Lost, Mapping
<1>3. /\ TypeOK' /\ OwnMap' /\ NothingLeaks'
      /\ Open' = Open
      /\ file'[f].map = NULL /\ file'[f].size = new_size
      /\ \A g \in Open \ {f} : file'[g] = file[g]
  BY <1>1, <1>2, Retarget
<1>4. EmptyHasNoMap'
  BY <1>1, <1>3 DEF EmptyHasNoMap
<1> QED BY <1>3, <1>4

\* The mapping is taken away and another one made, or none for an empty file.
LEMMA MapStep ==
  ASSUME IInv, NEW f \in Files, NEW new_size \in Sizes, file_truncate_map(f, new_size)
  PROVE  IInv'
<1> USE DEF IInv
<1>1. /\ f \in Open /\ disk' = [disk EXCEPT ![file[f].ino] = new_size]
      /\ exists' = exists /\ fds' = fds
      /\ res' \in Results
  BY DEF file_truncate_map, Ftruncate, Open, Results, TypeOK
<1>2. PICK works \in BOOLEAN :
        /\ stranded' = stranded \cup Lost(f, works)
        /\ \E a \in Places(Munmap(f, works), new_size) :
             /\ SetFile(f, a, new_size)
             /\ live' = Munmap(f, works) \cup Mapping(a, file[f].ino, new_size)
  BY DEF file_truncate_map
<1>3. PICK a \in Places(Munmap(f, works), new_size) :
        /\ SetFile(f, a, new_size)
        /\ live' = Munmap(f, works) \cup Mapping(a, file[f].ino, new_size)
  BY <1>2
<1>4. /\ a = NULL \/ a \in Addrs \ AddrsOf(Munmap(f, works))
      /\ a = NULL <=> new_size = 0
  BY FilesAssumption DEF Places
<1>5. /\ TypeOK' /\ OwnMap' /\ NothingLeaks'
      /\ Open' = Open
      /\ file'[f].map = a /\ file'[f].size = new_size
      /\ \A g \in Open \ {f} : file'[g] = file[g]
  BY <1>1, <1>2, <1>3, <1>4, Retarget
<1>6. EmptyHasNoMap'
  BY <1>1, <1>4, <1>5 DEF EmptyHasNoMap
<1> QED BY <1>5, <1>6

\* The mapping is taken away and mmap fails.
LEMMA MapFailsStep ==
  ASSUME IInv, NEW f \in Files, NEW new_size \in Sizes, file_truncate_map_fails(f, new_size)
  PROVE  IInv'
<1> USE DEF IInv
<1>1. /\ f \in Open /\ disk' = [disk EXCEPT ![file[f].ino] = new_size]
      /\ exists' = exists /\ fds' = fds
      /\ SetFile(f, NULL, new_size)
      /\ res' \in Results
  BY DEF file_truncate_map_fails, Ftruncate, Open, Results, TypeOK
<1>2. PICK works \in BOOLEAN : stranded' = stranded \cup Lost(f, works) /\ live' = Munmap(f, works)
  BY DEF file_truncate_map_fails
<1>3. live' = Munmap(f, works) \cup Mapping(NULL, file[f].ino, new_size)
  BY <1>2 DEF Mapping
<1>4. /\ TypeOK' /\ OwnMap' /\ NothingLeaks'
      /\ Open' = Open
      /\ file'[f].map = NULL /\ file'[f].size = new_size
      /\ \A g \in Open \ {f} : file'[g] = file[g]
  BY <1>1, <1>2, <1>3, Retarget
<1>5. EmptyHasNoMap'
  BY <1>1, <1>4 DEF EmptyHasNoMap
<1> QED BY <1>4, <1>5

\* The calls that change nothing but the result, and steps that are not calls.
LEMMA NothingStep ==
  ASSUME IInv, UNCHANGED <<exists, disk, file, live, stranded, fds>>, res' \in Results
  PROVE  IInv'
<1>1. Open' = Open
  BY DEF Open
<1>2. TypeOK'
  BY DEF IInv, TypeOK
<1>3. OwnMap' /\ EmptyHasNoMap' /\ NothingLeaks'
  BY <1>1 DEF IInv, OwnMap, EmptyHasNoMap, NothingLeaks
<1> QED BY <1>2, <1>3 DEF IInv

LEMMA Invariance ==
  IInv /\ [Next]_vars => IInv'
<1> SUFFICES ASSUME IInv, [Next]_vars PROVE IInv'
  OBVIOUS
<1>1. CASE UNCHANGED vars
  BY <1>1, NothingStep DEF vars, IInv, TypeOK
<1>2. ASSUME NEW ino \in Inodes, NEW create \in BOOLEAN, file_open_nothing(ino, create) PROVE IInv'
  BY <1>2, NothingStep DEF file_open_nothing, Results
<1>3. ASSUME NEW ino \in Inodes, NEW create \in BOOLEAN, file_open_undone(ino, create) PROVE IInv'
  BY <1>3, UndoneStep
<1>4. ASSUME NEW f \in Files, FileNext(f) PROVE IInv'
  <2>1. ASSUME NEW ino \in Inodes, NEW create \in BOOLEAN, NEW writeable \in BOOLEAN,
               file_open(f, ino, create, writeable)
        PROVE  IInv'
    BY <2>1, OpenStep
  <2>2. ASSUME NEW new_size \in Sizes, file_truncate_nothing(f, new_size) PROVE IInv'
    BY <2>2, NothingStep DEF file_truncate_nothing, Results
  <2>3. ASSUME NEW new_size \in Sizes, file_truncate_remap(f, new_size) PROVE IInv'
    BY <2>3, RemapStep
  <2>4. ASSUME NEW new_size \in Sizes, file_truncate_remap_fails(f, new_size) PROVE IInv'
    BY <2>4, RemapFailsStep
  <2>5. ASSUME NEW new_size \in Sizes, file_truncate_map(f, new_size) PROVE IInv'
    BY <2>5, MapStep
  <2>6. ASSUME NEW new_size \in Sizes, file_truncate_map_fails(f, new_size) PROVE IInv'
    BY <2>6, MapFailsStep
  <2>7. ASSUME file_close(f) PROVE IInv'
    BY <2>7, CloseStep
  <2> QED BY <1>4, <2>1, <2>2, <2>3, <2>4, <2>5, <2>6, <2>7 DEF FileNext
<1> QED BY <1>1, <1>2, <1>3, <1>4 DEF Next

LEMMA Initially ==
  Init => IInv
<1> SUFFICES ASSUME Init PROVE IInv
  OBVIOUS
<1>1. Open = {}
  BY DEF Init, Open
<1>2. TypeOK
  BY DEF Init, TypeOK, Results
<1>3. Cardinality(Open) = 0
  BY <1>1, FS_EmptySet
<1>4. AddrsOf(live) = {}
  BY DEF Init, AddrsOf
<1>5. OwnMap /\ EmptyHasNoMap /\ NothingLeaks
  BY <1>1, <1>3, <1>4 DEF Init, OwnMap, EmptyHasNoMap, NothingLeaks
<1> QED BY <1>2, <1>5 DEF IInv

LEMMA Inductive ==
  Spec => []IInv
BY Initially, Invariance, PTL DEF Spec

--------------------------------------------------------------------------------

\* The structs, the mappings and the counts of file.c keep their types.
THEOREM TypeCorrect == Spec => []TypeOK
<1>1. IInv => TypeOK
  BY DEF IInv
<1> QED BY <1>1, Inductive, PTL

\* What file_get hands out is as long as it says and is the caller's own
\* mapping, and an empty file has none, after any sequence of calls, each of
\* which may fail (file.c).
THEOREM MapsSound == Spec => []MapSound
<1>1. IInv => MapSound
  BY DEF IInv, MapSound
<1> QED BY <1>1, Inductive, PTL

\* Only a call that fails leaves a file object with bytes it has not mapped.
LEMMA LossStep ==
  ASSUME IInv, [Next]_vars, NEW f \in Files, Unreadable(f)', ~(Unreadable(f) /\ file'[f] = file[f])
  PROVE  res' = "INVALID_USAGE"
<1>1. TypeOK
  BY DEF IInv
<1>2. file' # file
  BY DEF Unreadable
<1>3. PICK g \in Files : FileNext(g)
  BY <1>2 DEF Next, vars, file_open_nothing, file_open_undone
<1>4. \A st : file' = [file EXCEPT ![g] = st] => f = g /\ st # NULL /\ st.map = NULL /\ st.size > 0
  <2> SUFFICES ASSUME NEW st, file' = [file EXCEPT ![g] = st]
               PROVE  f = g /\ st # NULL /\ st.map = NULL /\ st.size > 0
    OBVIOUS
  <2>1. file'[g] = st /\ \A h \in Files \ {g} : file'[h] = file[h]
    BY <1>1 DEF TypeOK
  <2> QED BY <2>1 DEF Unreadable
<1>5. ASSUME NEW ino \in Inodes, NEW create \in BOOLEAN, NEW writeable \in BOOLEAN,
             file_open(g, ino, create, writeable)
      PROVE  FALSE
  <2>1. PICK a \in Places(live, disk'[ino]) :
          file' = [file EXCEPT ![g] = [map |-> a, size |-> disk'[ino], ino |-> ino, writeable |-> writeable]]
    BY <1>5 DEF file_open
  <2> DEFINE st == [map |-> a, size |-> disk'[ino], ino |-> ino, writeable |-> writeable]
  <2>2. st.map = a /\ st.size = disk'[ino]
    OBVIOUS
  <2> HIDE DEF st
  <2>3. file' = [file EXCEPT ![g] = st]
    BY <2>1 DEF st
  <2>4. a = NULL /\ disk'[ino] > 0
    BY <1>4, <2>2, <2>3
  <2> QED BY <2>4, FilesAssumption DEF Places
<1>6. ASSUME NEW new_size \in Sizes, file_truncate_remap(g, new_size) PROVE FALSE
  <2>1. PICK a \in Places(live \ Own(g), new_size) : SetFile(g, a, new_size)
    BY <1>6 DEF file_truncate_remap
  <2> DEFINE st == [map |-> a, size |-> new_size, ino |-> file[g].ino, writeable |-> file[g].writeable]
  <2>2. st.map = a /\ st.size = new_size
    OBVIOUS
  <2> HIDE DEF st
  <2>3. file' = [file EXCEPT ![g] = st]
    BY <2>1 DEF SetFile, st
  <2>4. a = NULL /\ new_size > 0
    BY <1>4, <2>2, <2>3
  <2> QED BY <2>4, FilesAssumption DEF Places
<1>7. ASSUME NEW new_size \in Sizes, file_truncate_nothing(g, new_size) PROVE FALSE
  BY <1>2, <1>7 DEF file_truncate_nothing
<1>8. ~file_close(g)
  BY <1>4 DEF file_close
<1>9. ASSUME NEW new_size \in Sizes,
             \/ file_truncate_remap_fails(g, new_size)
             \/ file_truncate_map(g, new_size)
             \/ file_truncate_map_fails(g, new_size)
      PROVE  res' = "INVALID_USAGE"
  BY <1>9 DEF file_truncate_remap_fails, file_truncate_map, file_truncate_map_fails
<1> QED BY <1>3, <1>5, <1>6, <1>7, <1>8, <1>9 DEF FileNext

\* A file's bytes become unreadable only with an error: whenever mremap or mmap
\* fails in file_truncate, and never in file_open.
THEOREM LossesReported == Spec => LossReported
<1>1. IInv /\ [Next]_vars =>
        [\A f \in Files : Unreadable(f)' /\ ~(Unreadable(f) /\ file'[f] = file[f]) => res' = "INVALID_USAGE"]_vars
  BY LossStep
<1> QED BY <1>1, Inductive, PTL DEF Spec, LossReported

\* No mapping and no descriptor is lost but to an mremap or a munmap that
\* failed (file_open's early returns, file_truncate, file_close).
THEOREM LeakFree == Spec => []NothingLeaks
<1>1. IInv => NothingLeaks
  BY DEF IInv
<1> QED BY <1>1, Inductive, PTL

--------------------------------------------------------------------------------
(* Directories.                                                            *)

DirType ==
  /\ offset \in 0 .. LastPlace
  /\ entry \in [Names -> Kinds]
  /\ place \in [Names -> 0 .. LastPlace]
  /\ Placed(entry, place)
  /\ given \subseteq Names \ touched
  /\ iter \in [Iters -> IterStructs \cup {NONE}]

\* The iterators of an open directory share one pass over its places.  Of the
\* names that did not change, those in a buffer or given out are at places behind
\* the offset, and each is in one buffer, or given out, at most.
Pass ==
  /\ \A i \in OpenIters : Buffered(i) \subseteq 1 .. offset
  /\ \A i, j \in OpenIters : i # j => Buffered(i) \cap Buffered(j) = {}
  /\ \A n \in given : place[n] \in 1 .. offset
  /\ \A i \in OpenIters : \A k \in Buffered(i) :
       iter[i].buf[k].name \notin touched => place[iter[i].buf[k].name] = k /\ iter[i].buf[k].name \notin given

\* What a lone iterator has done with the places behind the offset whose
\* entries have not changed.
LonePass(i) ==
  /\ OpenIters = {i}
  /\ \A n \in iter[i].got \ touched : entry[n] \in {"regular", "link"}
  /\ \A k \in Buffered(i) :
       iter[i].buf[k].name \notin touched => iter[i].buf[k].type \in {"unknown", entry[iter[i].buf[k].name]}
  /\ \A n \in Names \ touched :
       entry[n] = "regular" /\ place[n] \in 1 .. offset =>
         n \in iter[i].got \/ (place[n] \in Buffered(i) /\ iter[i].buf[place[n]].name = n)
  /\ iter[i].state = "done" => offset = LastPlace /\ Buffered(i) = {}

Lone == \A i \in OpenIters : iter[i].alone => LonePass(i)

DirInv == DirType /\ Pass /\ OnePass /\ Lone

\* What is in a buffer.
LEMMA BufferDef ==
  ASSUME NEW b
  PROVE  b \in Buffers <=> DOMAIN b \subseteq DirPlaces /\ b \in [DOMAIN b -> Entries]
BY DEF Buffers

\* An open iterator and the entry it looks at next.
LEMMA OpenIter ==
  ASSUME DirType, NEW i \in OpenIters
  PROVE  /\ i \in Iters
         /\ iter[i] \in IterStructs
         /\ iter[i].buf \in [Buffered(i) -> Entries]
         /\ Buffered(i) \subseteq DirPlaces
         /\ \A k \in Buffered(i) : iter[i].buf[k].name \in Names
         /\ Buffered(i) # {} => First(i) \in Buffered(i)
         /\ Rest(i) \in Buffers
         /\ DOMAIN Rest(i) = Buffered(i) \ {First(i)}
         /\ \A k \in Buffered(i) \ {First(i)} : Rest(i)[k] = iter[i].buf[k]
<1>1. i \in Iters /\ iter[i] \in IterStructs
  BY DEF OpenIters, DirType
<1>2. iter[i].buf \in Buffers
  BY <1>1 DEF IterStructs
<1>3. Buffered(i) \subseteq DirPlaces /\ iter[i].buf \in [Buffered(i) -> Entries]
  BY <1>2, BufferDef DEF Buffered
<1>4. Buffered(i) # {} => First(i) \in Buffered(i)
  BY <1>3, MinNat DEF First, DirPlaces
<1>5. /\ Rest(i) \in [Buffered(i) \ {First(i)} -> Entries]
      /\ \A k \in Buffered(i) \ {First(i)} : Rest(i)[k] = iter[i].buf[k]
  BY <1>3 DEF Rest, Restrict
<1>6. DOMAIN Rest(i) = Buffered(i) \ {First(i)}
  BY <1>5
<1>7. Rest(i) \in Buffers
  BY <1>3, <1>5, <1>6, BufferDef
<1>8. \A k \in Buffered(i) : iter[i].buf[k].name \in Names
  BY <1>3 DEF Entries
<1> QED BY <1>1, <1>3, <1>4, <1>5, <1>6, <1>7, <1>8

\* A place that is not free has one name.
LEMMA PlaceName ==
  ASSUME DirType, NEW k \in DirPlaces, ~Free(k)
  PROVE  /\ NameAt(k) \in Names /\ place[NameAt(k)] = k /\ entry[NameAt(k)] \in Kinds \ {"none"}
         /\ \A n \in Names : place[n] = k => n = NameAt(k)
<1>1. \E n \in Names : place[n] = k
  BY DEF Free
<1>2. NameAt(k) \in Names /\ place[NameAt(k)] = k
  BY <1>1 DEF NameAt
<1>3. k # 0
  BY DirAssumption DEF DirPlaces
<1> QED BY <1>2, <1>3 DEF DirType, Placed

\* A turn of dir_iter_next on iterator i leaves the others alone.
LEMMA TurnOthers ==
  ASSUME DirType, NEW i \in Iters, Turn(i), NEW r \in IterStructs,
         iter' = [iter EXCEPT ![i] = r]
  PROVE  /\ i \in OpenIters
         /\ iter'[i] = r
         /\ \A j \in Iters : j # i => iter'[j] = iter[j]
         /\ OpenIters' = OpenIters
         /\ iter' \in [Iters -> IterStructs \cup {NONE}]
<1>1. iter[i] # NONE /\ r # NONE /\ i \in OpenIters
  BY NoIterAssumption DEF Turn, OpenIters
<1>2. iter \in [Iters -> IterStructs \cup {NONE}]
  BY DEF DirType
<1> QED BY <1>1, <1>2 DEF OpenIters

\* A read goes on where the last one ended, whoever made it.
LEMMA RefillDir ==
  ASSUME DirInv, NEW i \in Iters, Refill(i)
  PROVE  DirInv'
<1>1. DirType /\ Pass /\ OnePass /\ Lone /\ Turn(i) /\ i \in OpenIters /\ Buffered(i) = {}
  BY DEF DirInv, Refill, Turn, OpenIters
<1>2. PICK upto \in offset + 1 .. LastPlace, types \in BOOLEAN :
         /\ iter' = [iter EXCEPT ![i].buf = Batch(upto, types), ![i].state = "next"]
         /\ offset' = upto
  BY DEF Refill
<1>3. UNCHANGED <<dirOpen, entry, place, touched, given, twice>>
  BY DEF Refill, Turn
<1> DEFINE P == {k \in offset + 1 .. upto : ~Free(k)}
           b == Batch(upto, types)
           r == [iter[i] EXCEPT !.buf = b, !.state = "next"]
<1>4. offset \in Nat /\ upto \in Nat /\ offset < upto /\ upto <= LastPlace /\ LastPlace \in Nat
  BY <1>1, DirAssumption DEF DirType
<1>5. P \subseteq DirPlaces /\ \A k \in P : k > offset /\ k \in 1 .. upto /\ ~Free(k)
  BY <1>4 DEF DirPlaces
<1>6. \A k \in P : /\ NameAt(k) \in Names /\ place[NameAt(k)] = k /\ entry[NameAt(k)] \in Kinds \ {"none"}
                   /\ \A n \in Names : place[n] = k => n = NameAt(k)
  BY <1>1, <1>5, PlaceName
<1>7. /\ DOMAIN b = P /\ b \in [P -> Entries]
      /\ \A k \in P : b[k].name = NameAt(k) /\ b[k].type \in {"unknown", entry[NameAt(k)]}
  BY <1>6 DEF Batch, Entries
<1>8. b \in Buffers
  BY <1>5, <1>7, BufferDef
<1>9. iter[i] \in IterStructs
  BY <1>1, OpenIter
<1>10. /\ r \in IterStructs /\ r.buf = b /\ r.alone = iter[i].alone
       /\ r.got = iter[i].got /\ r.state = "next"
  BY <1>8, <1>9 DEF IterStructs
<1>11. iter' = [iter EXCEPT ![i] = r]
  BY <1>2, <1>1 DEF DirType
<1> HIDE DEF b, r
<1>12. /\ iter'[i] = r
       /\ \A j \in Iters : j # i => iter'[j] = iter[j]
       /\ OpenIters' = OpenIters
       /\ iter' \in [Iters -> IterStructs \cup {NONE}]
  BY <1>1, <1>10, <1>11, TurnOthers
<1>13. /\ Buffered(i)' = P
       /\ \A j \in Iters : j # i => Buffered(j)' = Buffered(j)
       /\ OpenIters \subseteq Iters
  BY <1>7, <1>10, <1>12 DEF Buffered, OpenIters
<1>14. DirType'
  BY <1>1, <1>2, <1>3, <1>4, <1>12 DEF DirType
<1>15. \A n \in Names : place[n] \in offset + 1 .. upto => place[n] \in P
  BY DEF Free
<1> HIDE DEF P
<1>16. \A j \in OpenIters : Buffered(j) \subseteq 1 .. offset
  BY <1>1 DEF Pass
<1>17. Pass'
  <2>1. \A j \in OpenIters : Buffered(j)' \subseteq 1 .. upto
    BY <1>4, <1>5, <1>13, <1>16
  <2>2. \A j, l \in OpenIters : j # l => Buffered(j)' \cap Buffered(l)' = {}
    <3>1. \A j \in OpenIters : j # i => P \cap Buffered(j) = {}
      BY <1>4, <1>5, <1>16
    <3> QED BY <1>1, <1>13, <3>1 DEF Pass
  <2>3. \A n \in given : place[n] \in 1 .. upto
    BY <1>1, <1>4 DEF Pass
  <2>4. \A k \in P : NameAt(k) \notin given
    BY <1>1, <1>4, <1>5, <1>6 DEF Pass
  <2>5. ASSUME NEW j \in OpenIters, NEW k \in Buffered(j)', iter'[j].buf[k].name \notin touched
        PROVE  place[iter'[j].buf[k].name] = k /\ iter'[j].buf[k].name \notin given
    <3>1. CASE j = i
      BY <3>1, <2>4, <2>5, <1>6, <1>7, <1>10, <1>12, <1>13
    <3>2. CASE j # i
      BY <3>2, <2>5, <1>1, <1>12, <1>13 DEF Pass
    <3> QED BY <3>1, <3>2
  <2>6. \A j \in OpenIters' : \A k \in Buffered(j)' :
          iter'[j].buf[k].name \notin touched' =>
            place'[iter'[j].buf[k].name] = k /\ iter'[j].buf[k].name \notin given'
    BY <1>3, <1>12, <2>5
  <2>7. /\ \A j \in OpenIters' : Buffered(j)' \subseteq 1 .. offset'
        /\ \A j, l \in OpenIters' : j # l => Buffered(j)' \cap Buffered(l)' = {}
        /\ \A n \in given' : place'[n] \in 1 .. offset'
    BY <1>2, <1>3, <1>12, <2>1, <2>2, <2>3
  <2> QED BY <2>6, <2>7, Zenon DEF Pass
<1>18. Lone'
  <2> SUFFICES ASSUME NEW j \in OpenIters, iter'[j].alone PROVE LonePass(j)'
    BY <1>12 DEF Lone
  <2>1. CASE j # i
    <3>1. iter[j].alone /\ OpenIters = {j}
      BY <1>1, <1>12, <1>13, <2>1 DEF Lone, LonePass
    <3> QED BY <3>1, <2>1, <1>1
  <2>2. CASE j = i
    <3>1. LonePass(i)
      BY <1>1, <1>10, <1>12, <2>2 DEF Lone
    <3>2. ASSUME NEW n \in Names \ touched, entry[n] = "regular", place[n] \in 1 .. upto
          PROVE  n \in r.got \/ (place[n] \in P /\ b[place[n]].name = n)
      <4>1. CASE place[n] \in 1 .. offset
        BY <4>1, <3>1, <3>2, <1>1, <1>10 DEF LonePass
      <4>2. CASE place[n] \in offset + 1 .. upto
        BY <4>2, <1>6, <1>7, <1>15
      <4> QED BY <4>1, <4>2, <3>2, <1>4
    <3>3. \A n \in r.got \ touched : entry[n] \in {"regular", "link"}
      BY <3>1, <1>10 DEF LonePass
    <3>4. \A k \in P : b[k].name \notin touched => b[k].type \in {"unknown", entry[b[k].name]}
      BY <1>7
    <3>5. OpenIters' = {i} /\ iter'[i] = r /\ r.buf = b /\ r.state # "done" /\ Buffered(i)' = P
      BY <3>1, <1>10, <1>12, <1>13 DEF LonePass
    <3>6. /\ \A n \in iter'[i].got \ touched' : entry'[n] \in {"regular", "link"}
          /\ \A k \in Buffered(i)' :
               iter'[i].buf[k].name \notin touched' =>
                 iter'[i].buf[k].type \in {"unknown", entry'[iter'[i].buf[k].name]}
      BY <3>3, <3>4, <3>5, <1>3
    <3>7. \A n \in Names \ touched' :
            entry'[n] = "regular" /\ place'[n] \in 1 .. offset' =>
              n \in iter'[i].got \/ (place'[n] \in Buffered(i)' /\ iter'[i].buf[place'[n]].name = n)
      BY <3>2, <3>5, <1>2, <1>3
    <3> QED BY <2>2, <3>5, <3>6, <3>7 DEF LonePass
  <2> QED BY <2>1, <2>2
<1> QED BY <1>1, <1>3, <1>14, <1>17, <1>18 DEF DirInv, OnePass

\* dir_iter_next takes one entry from the buffer: it gives it out, or goes on.
LEMMA TakeDir ==
  ASSUME DirInv, NEW i \in Iters, Turn(i), Buffered(i) # {}, offset' = offset,
         NEW got \in SUBSET Names, NEW state \in {"idle", "next"},
         iter' = [iter EXCEPT ![i].buf = Rest(i), ![i].got = got, ![i].state = state],
         LET e == iter[i].buf[First(i)]
         IN  \/ /\ Wanted(e)
                /\ iter[i].alone => got = iter[i].got \cup {e.name}
                /\ given' = given \cup ({e.name} \ touched)
                /\ twice' = twice \cup ({e.name} \cap given)
             \/ /\ ~Wanted(e)
                /\ got = iter[i].got
                /\ UNCHANGED <<given, twice>>
  PROVE  DirInv'
<1> DEFINE f == First(i)
           e == iter[i].buf[f]
           name == e.name
           r == [iter[i] EXCEPT !.buf = Rest(i), !.got = got, !.state = state]
<1>1. DirType /\ Pass /\ OnePass /\ Lone /\ i \in OpenIters
  BY DEF DirInv, Turn, OpenIters
<1>2. UNCHANGED <<dirOpen, entry, place, touched, offset>>
  BY DEF Turn
<1>3. /\ iter[i] \in IterStructs
      /\ f \in Buffered(i)
      /\ name \in Names
      /\ Rest(i) \in Buffers
      /\ DOMAIN Rest(i) = Buffered(i) \ {f}
      /\ \A k \in Buffered(i) \ {f} : Rest(i)[k] = iter[i].buf[k]
  BY <1>1, OpenIter
<1>4. /\ r \in IterStructs /\ r.buf = Rest(i) /\ r.alone = iter[i].alone
      /\ r.got = got /\ r.state \in {"idle", "next"}
  BY <1>3 DEF IterStructs
<1>5. iter' = [iter EXCEPT ![i] = r]
  BY <1>1 DEF DirType
<1>6. name \notin touched => place[name] = f /\ name \notin given /\ f \in 1 .. offset
  BY <1>1, <1>3 DEF Pass
<1> HIDE DEF r
<1>7. /\ iter'[i] = r
      /\ \A j \in Iters : j # i => iter'[j] = iter[j]
      /\ OpenIters' = OpenIters
      /\ iter' \in [Iters -> IterStructs \cup {NONE}]
  BY <1>1, <1>4, <1>5, TurnOthers
<1>8. /\ Buffered(i)' = Buffered(i) \ {f}
      /\ \A j \in Iters : j # i => Buffered(j)' = Buffered(j)
      /\ OpenIters \subseteq Iters
  BY <1>3, <1>4, <1>7 DEF Buffered, OpenIters
<1>9. /\ given' \in {given, given \cup ({name} \ touched)}
      /\ twice' = {}
  <2>1. {name} \cap given = {}
    BY <1>1, <1>6 DEF DirType
  <2> QED BY <1>1, <2>1 DEF OnePass
<1>10. DirType'
  BY <1>1, <1>2, <1>3, <1>7, <1>9 DEF DirType
<1>11. \A j \in OpenIters : \A k \in Buffered(j)' : k \in Buffered(j) /\ k # f /\ iter'[j].buf[k] = iter[j].buf[k]
  BY <1>1, <1>3, <1>4, <1>7, <1>8 DEF Pass
<1>12. Wanted(e) /\ iter[i].alone => got = iter[i].got \cup {name}
  OBVIOUS
<1>13. ~Wanted(e) => got = iter[i].got
  OBVIOUS
<1>14. Wanted(e) <=> IF e.type = "unknown" THEN entry[name] \in {"regular", "link"} ELSE e.type = "regular"
  BY DEF Wanted
<1> HIDE DEF f, e, name
<1>15. Pass'
  <2>1. \A n \in given' : place[n] \in 1 .. offset
    BY <1>1, <1>6, <1>9 DEF Pass
  <2>2. ASSUME NEW j \in OpenIters, NEW k \in Buffered(j)', iter'[j].buf[k].name \notin touched
        PROVE  place[iter'[j].buf[k].name] = k /\ iter'[j].buf[k].name \notin given'
    <3>1. place[iter[j].buf[k].name] = k /\ iter[j].buf[k].name \notin given
      BY <1>1, <1>11, <2>2 DEF Pass
    <3>2. k # f /\ iter'[j].buf[k] = iter[j].buf[k]
      BY <1>11, <2>2
    <3>3. iter[j].buf[k].name = name => name \in touched
      BY <1>6, <3>1, <3>2
    <3> QED BY <1>9, <3>1, <3>2, <3>3
  <2>3. \A j \in OpenIters : Buffered(j)' \subseteq 1 .. offset
    BY <1>1, <1>11 DEF Pass
  <2>4. \A j, l \in OpenIters : j # l => Buffered(j)' \cap Buffered(l)' = {}
    BY <1>1, <1>11 DEF Pass
  <2>5. \A j \in OpenIters' : \A k \in Buffered(j)' :
          iter'[j].buf[k].name \notin touched' =>
            place'[iter'[j].buf[k].name] = k /\ iter'[j].buf[k].name \notin given'
    <3> SUFFICES ASSUME NEW j \in OpenIters', NEW k \in Buffered(j)', iter'[j].buf[k].name \notin touched'
                 PROVE  place'[iter'[j].buf[k].name] = k /\ iter'[j].buf[k].name \notin given'
      OBVIOUS
    <3>1. j \in OpenIters /\ touched' = touched /\ place' = place
      BY <1>2, <1>7
    <3>2. place[iter'[j].buf[k].name] = k /\ iter'[j].buf[k].name \notin given'
      BY <2>2, <3>1
    <3> QED BY <3>1, <3>2
  <2>6. /\ \A j \in OpenIters' : Buffered(j)' \subseteq 1 .. offset'
        /\ \A j, l \in OpenIters' : j # l => Buffered(j)' \cap Buffered(l)' = {}
        /\ \A n \in given' : place'[n] \in 1 .. offset'
    BY <1>2, <1>7, <2>1, <2>3, <2>4
  <2> QED BY <2>5, <2>6, Zenon DEF Pass
<1>16. Lone'
  <2> SUFFICES ASSUME NEW j \in OpenIters, iter'[j].alone PROVE LonePass(j)'
    BY <1>7 DEF Lone
  <2>1. CASE j # i
    <3>1. iter[j].alone /\ OpenIters = {j}
      BY <1>1, <1>7, <1>8, <2>1 DEF Lone, LonePass
    <3> QED BY <3>1, <2>1, <1>1
  <2>2. CASE j = i
    <3>1. LonePass(i) /\ iter[i].alone
      BY <1>1, <1>4, <1>7, <2>2 DEF Lone
    <3>2. name \notin touched => e.type \in {"unknown", entry[name]}
      BY <3>1, <1>3 DEF LonePass, e, name
    <3>3. iter[i].got \subseteq got
      BY <3>1, <1>12, <1>13
    <3>4. \A n \in got \ touched : entry[n] \in {"regular", "link"}
      <4>1. \A n \in iter[i].got \ touched : entry[n] \in {"regular", "link"}
        BY <3>1 DEF LonePass
      <4>2. Wanted(e) /\ name \notin touched => entry[name] \in {"regular", "link"}
        BY <3>2, <1>14
      <4> QED BY <4>1, <4>2, <3>1, <1>12, <1>13
    <3>5. \A k \in Buffered(i)' :
            r.buf[k].name \notin touched => r.buf[k].type \in {"unknown", entry[r.buf[k].name]}
      BY <3>1, <1>1, <1>7, <1>11 DEF LonePass
    <3>6. ASSUME NEW n \in Names \ touched, entry[n] = "regular", place[n] \in 1 .. offset
          PROVE  n \in got \/ (place[n] \in Buffered(i)' /\ r.buf[place[n]].name = n)
      <4>1. n \in iter[i].got \/ (place[n] \in Buffered(i) /\ iter[i].buf[place[n]].name = n)
        BY <3>1, <3>6 DEF LonePass
      <4>2. CASE n \in iter[i].got
        BY <4>2, <3>3
      <4>3. CASE place[n] \in Buffered(i) /\ place[n] # f /\ iter[i].buf[place[n]].name = n
        BY <4>3, <1>1, <1>3, <1>4, <1>8
      <4>4. CASE place[n] = f /\ iter[i].buf[place[n]].name = n
        <5>1. name = n
          BY <4>4 DEF name, e
        <5>2. Wanted(e)
          BY <5>1, <3>2, <3>6, <1>14
        <5> QED BY <5>1, <5>2, <3>1, <1>12
      <4> QED BY <4>1, <4>2, <4>3, <4>4
    <3>7. OpenIters' = {i} /\ iter'[i] = r /\ r.got = got /\ r.state # "done"
      BY <3>1, <1>4, <1>7 DEF LonePass
    <3>8. /\ \A n \in iter'[i].got \ touched' : entry'[n] \in {"regular", "link"}
          /\ \A k \in Buffered(i)' :
               iter'[i].buf[k].name \notin touched' =>
                 iter'[i].buf[k].type \in {"unknown", entry'[iter'[i].buf[k].name]}
      BY <3>4, <3>5, <3>7, <1>2
    <3>9. \A n \in Names \ touched' :
            entry'[n] = "regular" /\ place'[n] \in 1 .. offset' =>
              n \in iter'[i].got \/ (place'[n] \in Buffered(i)' /\ iter'[i].buf[place'[n]].name = n)
      BY <3>6, <3>7, <1>2
    <3> QED BY <2>2, <3>7, <3>8, <3>9 DEF LonePass
  <2> QED BY <2>1, <2>2
<1> QED BY <1>9, <1>10, <1>15, <1>16 DEF DirInv, OnePass

\* dir_iter_next ends, at the end of the directory or with an error.
LEMMA StopDir ==
  ASSUME DirInv, NEW i \in Iters, Turn(i), UNCHANGED <<offset, given, twice>>,
         NEW state \in {"done", "error"}, iter' = [iter EXCEPT ![i].state = state],
         state = "done" => offset = LastPlace /\ Buffered(i) = {}
  PROVE  DirInv'
<1> DEFINE r == [iter[i] EXCEPT !.state = state]
<1>1. DirType /\ Pass /\ OnePass /\ Lone /\ i \in OpenIters
  BY DEF DirInv, Turn, OpenIters
<1>2. UNCHANGED <<dirOpen, entry, place, touched, offset, given, twice>>
  BY DEF Turn
<1>3. iter[i] \in IterStructs
  BY <1>1, OpenIter
<1>4. /\ r \in IterStructs /\ r.buf = iter[i].buf /\ r.alone = iter[i].alone
      /\ r.got = iter[i].got /\ r.state = state
  BY <1>3 DEF IterStructs
<1>5. iter' = [iter EXCEPT ![i] = r]
  BY <1>1 DEF DirType
<1> HIDE DEF r
<1>6. /\ iter'[i] = r
      /\ \A j \in Iters : j # i => iter'[j] = iter[j]
      /\ OpenIters' = OpenIters
      /\ iter' \in [Iters -> IterStructs \cup {NONE}]
  BY <1>1, <1>4, <1>5, TurnOthers
<1>7. OpenIters \subseteq Iters /\ \A j \in Iters : Buffered(j)' = Buffered(j) /\ iter'[j].buf = iter[j].buf
  BY <1>4, <1>6 DEF Buffered, OpenIters
<1>8. DirType'
  BY <1>1, <1>2, <1>6 DEF DirType
<1>9. Pass'
  BY <1>1, <1>2, <1>6, <1>7 DEF Pass
<1>10. Lone'
  <2> SUFFICES ASSUME NEW j \in OpenIters, iter'[j].alone PROVE LonePass(j)'
    BY <1>6 DEF Lone
  <2>1. CASE j # i
    <3>1. iter[j].alone /\ OpenIters = {j}
      BY <1>1, <1>6, <1>7, <2>1 DEF Lone, LonePass
    <3> QED BY <3>1, <2>1, <1>1
  <2>2. CASE j = i
    <3>1. LonePass(i)
      BY <1>1, <1>4, <1>6, <2>2 DEF Lone
    <3> QED BY <2>2, <3>1, <1>1, <1>2, <1>4, <1>6, <1>7 DEF LonePass
  <2> QED BY <2>1, <2>2
<1> QED BY <1>1, <1>2, <1>8, <1>9, <1>10 DEF DirInv, OnePass

\* A new iterator begins where the shared offset is.
LEMMA IterOpenDir ==
  ASSUME DirInv, NEW i \in Iters, dir_iter_open(i)
  PROVE  DirInv'
<1> DEFINE r == [buf |-> Empty, got |-> {}, alone |-> offset = 0 /\ OpenIters = {}, state |-> "idle"]
           other(j) == [iter[j] EXCEPT !.alone = FALSE, !.got = {}]
<1>1. DirType /\ Pass /\ OnePass /\ Lone /\ iter[i] = NONE
  BY DEF DirInv, dir_iter_open
<1>2. UNCHANGED <<dirOpen, offset, entry, place, touched, given, twice>>
  BY DEF dir_iter_open
<1>3. DOMAIN Empty = {} /\ Empty \in [{} -> Entries]
  BY DEF Empty
<1>4. Empty \in Buffers
  BY <1>3, BufferDef
<1>5. /\ r \in IterStructs /\ r.buf = Empty /\ r.got = {} /\ r.state = "idle"
      /\ r.alone = (offset = 0 /\ OpenIters = {})
  BY <1>4 DEF IterStructs
<1>6. iter' = [j \in Iters |-> IF j = i THEN r ELSE IF iter[j] = NONE THEN NONE ELSE other(j)]
  BY DEF dir_iter_open
<1>7. \A j \in Iters : iter[j] # NONE => other(j) \in IterStructs /\ other(j).buf = iter[j].buf /\ other(j).alone = FALSE
  <2> SUFFICES ASSUME NEW s \in IterStructs
               PROVE  LET q == [s EXCEPT !.alone = FALSE, !.got = {}]
                      IN  q \in IterStructs /\ q.buf = s.buf /\ q.alone = FALSE
    BY <1>1 DEF DirType
  <2> QED BY DEF IterStructs
<1> HIDE DEF r, other
<1>8. iter' \in [Iters -> IterStructs \cup {NONE}] /\ iter'[i] = r /\ r # NONE
  BY <1>5, <1>6, <1>7, NoIterAssumption
<1>9. \A j \in Iters : j # i =>
         /\ iter'[j] = NONE <=> iter[j] = NONE
         /\ iter[j] # NONE => iter'[j].buf = iter[j].buf /\ ~iter'[j].alone
  BY <1>6, <1>7, NoIterAssumption
<1>10. OpenIters' = OpenIters \cup {i} /\ i \notin OpenIters
  BY <1>1, <1>8, <1>9 DEF OpenIters
<1>11. Buffered(i)' = {} /\ \A j \in OpenIters : Buffered(j)' = Buffered(j) /\ iter'[j].buf = iter[j].buf
  BY <1>3, <1>5, <1>8, <1>9, <1>10 DEF Buffered, OpenIters
<1>12. DirType'
  BY <1>1, <1>2, <1>8 DEF DirType
<1>13. Pass'
  BY <1>1, <1>2, <1>10, <1>11 DEF Pass
<1>14. Lone'
  <2> SUFFICES ASSUME NEW j \in OpenIters', iter'[j].alone PROVE LonePass(j)'
    BY DEF Lone
  <2>1. j = i
    BY <1>9, <1>10 DEF OpenIters
  <2>2. offset = 0 /\ OpenIters = {}
    BY <2>1, <1>5, <1>8
  <2> QED BY <2>1, <2>2, <1>2, <1>5, <1>8, <1>10, <1>11 DEF LonePass
<1> QED BY <1>1, <1>2, <1>12, <1>13, <1>14 DEF DirInv, OnePass

\* An iterator is closed; what was left in its buffer is lost.
LEMMA IterCloseDir ==
  ASSUME DirInv, NEW i \in Iters, dir_iter_close(i)
  PROVE  DirInv'
<1>1. DirType /\ Pass /\ OnePass /\ Lone /\ iter[i] # NONE
  BY DEF DirInv, dir_iter_close
<1>2. UNCHANGED <<dirOpen, offset, entry, place, touched, given, twice>> /\ iter' = [iter EXCEPT ![i] = NONE]
  BY DEF dir_iter_close
<1>3. iter'[i] = NONE /\ \A j \in Iters : j # i => iter'[j] = iter[j]
  BY <1>1, <1>2 DEF DirType
<1>4. OpenIters' = OpenIters \ {i} /\ i \in OpenIters
  BY <1>1, <1>3 DEF OpenIters
<1>5. \A j \in OpenIters' : iter'[j] = iter[j] /\ Buffered(j)' = Buffered(j)
  BY <1>3, <1>4 DEF Buffered, OpenIters
<1>6. DirType'
  BY <1>1, <1>2 DEF DirType
<1>7. Pass'
  BY <1>1, <1>2, <1>4, <1>5 DEF Pass
<1>8. Lone'
  <2> SUFFICES ASSUME NEW j \in OpenIters', iter'[j].alone PROVE FALSE
    BY DEF Lone
  <2>1. j \in OpenIters /\ j # i /\ iter[j].alone
    BY <1>4, <1>5
  <2>2. OpenIters = {j}
    BY <2>1, <1>1 DEF Lone, LonePass
  <2> QED BY <2>1, <2>2, <1>4
<1> QED BY <1>1, <1>2, <1>6, <1>7, <1>8 DEF DirInv, OnePass

\* Entries change: what is known of the other names stays true.
LEMMA ChangeDir ==
  ASSUME DirInv, NEW names, NEW kinds \in [Names -> Kinds], NEW places \in [Names -> 0 .. LastPlace],
         Placed(kinds, places), \A n \in Names \ names : kinds[n] = entry[n] /\ places[n] = place[n],
         Change(names, kinds, places)
  PROVE  DirInv'
<1>1. DirType /\ Pass /\ OnePass /\ Lone
  BY DEF DirInv
<1>2. /\ entry' = kinds /\ place' = places
      /\ touched' = touched \cup names /\ given' = given \ names
      /\ UNCHANGED <<dirOpen, offset, twice, iter>>
  BY DEF Change
<1>3. \A n \in Names : n \notin touched' => n \notin touched /\ entry'[n] = entry[n] /\ place'[n] = place[n]
  BY <1>2
<1>4. OpenIters' = OpenIters /\ \A j : Buffered(j)' = Buffered(j)
  BY <1>2 DEF OpenIters, Buffered
<1>5. DirType'
  BY <1>1, <1>2 DEF DirType
<1>6. \A i \in OpenIters : \A k \in Buffered(i) : iter[i].buf[k].name \in Names
  BY <1>1, OpenIter
<1>7. Pass'
  <2>1. \A n \in given' : place'[n] \in 1 .. offset
    <3>1. \A n \in given' : n \in given /\ n \in Names /\ n \notin touched'
      BY <1>1, <1>2 DEF DirType
    <3> QED BY <1>1, <1>3, <3>1 DEF Pass
  <2>2. ASSUME NEW i \in OpenIters, NEW k \in Buffered(i), iter[i].buf[k].name \notin touched'
        PROVE  place'[iter[i].buf[k].name] = k /\ iter[i].buf[k].name \notin given'
    BY <2>2, <1>1, <1>2, <1>3, <1>6 DEF Pass
  <2>3. /\ \A i \in OpenIters : Buffered(i) \subseteq 1 .. offset
        /\ \A i, j \in OpenIters : i # j => Buffered(i) \cap Buffered(j) = {}
    BY <1>1 DEF Pass
  <2> QED BY <1>2, <1>4, <2>1, <2>2, <2>3 DEF Pass
<1>8. Lone'
  <2> SUFFICES ASSUME NEW i \in OpenIters, iter[i].alone PROVE LonePass(i)'
    BY <1>2, <1>4 DEF Lone
  <2>1. LonePass(i)
    BY <1>1 DEF Lone
  <2>2. iter[i].got \subseteq Names
    <3>1. iter[i] \in IterStructs
      BY <1>1, OpenIter
    <3> QED BY <3>1 DEF IterStructs
  <2>3. \A n \in iter[i].got \ touched' : entry'[n] \in {"regular", "link"}
    BY <2>1, <2>2, <1>3 DEF LonePass
  <2>4. \A k \in Buffered(i) : iter[i].buf[k].name \notin touched' =>
           iter[i].buf[k].type \in {"unknown", entry'[iter[i].buf[k].name]}
    BY <2>1, <1>3, <1>6 DEF LonePass
  <2>5. \A n \in Names \ touched' : entry'[n] = "regular" /\ place'[n] \in 1 .. offset =>
           n \in iter[i].got \/ (place'[n] \in Buffered(i) /\ iter[i].buf[place'[n]].name = n)
    BY <2>1, <1>3 DEF LonePass
  <2>6. OpenIters = {i} /\ (iter[i].state = "done" => offset = LastPlace /\ Buffered(i) = {})
    BY <2>1 DEF LonePass
  <2> QED BY <2>3, <2>4, <2>5, <2>6, <1>2, <1>4 DEF LonePass
<1> QED BY <1>1, <1>2, <1>5, <1>7, <1>8 DEF DirInv, OnePass

\* A rename, a creation and a removal, whatever they do to the places.
LEMMA RenameDir ==
  ASSUME DirInv, NEW old \in Names, NEW new \in Names, dir_rename(old, new)
  PROVE  DirInv'
<1>1. DirType /\ old # new /\ entry[old] # "none"
  BY DEF DirInv, dir_rename
<1>2. PICK k \in DirPlaces :
        /\ Free(k) \/ k \in {place[old], place[new]}
        /\ Change({old, new}, [entry EXCEPT ![old] = "none", ![new] = entry[old]],
                  [place EXCEPT ![old] = 0, ![new] = k])
  BY DEF dir_rename
<1> DEFINE kinds == [entry EXCEPT ![old] = "none", ![new] = entry[old]]
           places == [place EXCEPT ![old] = 0, ![new] = k]
<1>3. k \in 0 .. LastPlace /\ k # 0 /\ 0 \in 0 .. LastPlace
  BY DirAssumption DEF DirPlaces
<1>4. kinds \in [Names -> Kinds] /\ places \in [Names -> 0 .. LastPlace]
  BY <1>1, <1>3 DEF DirType, Kinds
<1>5. /\ kinds[old] = "none" /\ places[old] = 0 /\ kinds[new] = entry[old] /\ places[new] = k
      /\ \A n \in Names \ {old, new} : kinds[n] = entry[n] /\ places[n] = place[n]
  BY <1>1 DEF DirType
<1> HIDE DEF kinds, places
<1>6. \A n \in Names \ {old, new} : place[n] # k
  BY <1>1, <1>2, <1>3 DEF DirType, Placed, Free
<1>7. Placed(kinds, places)
  BY <1>1, <1>3, <1>5, <1>6 DEF DirType, Placed
<1>8. Change({old, new}, kinds, places)
  BY <1>2 DEF kinds, places
<1> QED BY <1>4, <1>5, <1>7, <1>8, ChangeDir

LEMMA CreateDir ==
  ASSUME DirInv, NEW n \in Names, NEW kind \in Kinds \ {"none"}, Create(n, kind)
  PROVE  DirInv'
<1>1. DirType
  BY DEF DirInv
<1>2. PICK k \in DirPlaces : Free(k) /\ Change({n}, [entry EXCEPT ![n] = kind], [place EXCEPT ![n] = k])
  BY DEF Create
<1> DEFINE kinds == [entry EXCEPT ![n] = kind]
           places == [place EXCEPT ![n] = k]
<1>3. k \in 0 .. LastPlace /\ k # 0
  BY DirAssumption DEF DirPlaces
<1>4. kinds \in [Names -> Kinds] /\ places \in [Names -> 0 .. LastPlace]
  BY <1>1, <1>3 DEF DirType
<1>5. /\ kinds[n] = kind /\ places[n] = k
      /\ \A m \in Names \ {n} : kinds[m] = entry[m] /\ places[m] = place[m]
  BY <1>1 DEF DirType
<1> HIDE DEF kinds, places
<1>6. Placed(kinds, places)
  BY <1>1, <1>2, <1>3, <1>5 DEF DirType, Placed, Free
<1>7. Change({n}, kinds, places)
  BY <1>2 DEF kinds, places
<1> QED BY <1>4, <1>5, <1>6, <1>7, ChangeDir

LEMMA RemoveDir ==
  ASSUME DirInv, NEW n \in Names, Remove(n)
  PROVE  DirInv'
<1>1. DirType /\ Change({n}, [entry EXCEPT ![n] = "none"], [place EXCEPT ![n] = 0])
  BY DEF DirInv, Remove
<1> DEFINE kinds == [entry EXCEPT ![n] = "none"]
           places == [place EXCEPT ![n] = 0]
<1>2. kinds \in [Names -> Kinds] /\ places \in [Names -> 0 .. LastPlace]
  BY <1>1, DirAssumption DEF DirType, Kinds
<1>3. /\ kinds[n] = "none" /\ places[n] = 0
      /\ \A m \in Names \ {n} : kinds[m] = entry[m] /\ places[m] = place[m]
  BY <1>1 DEF DirType
<1> HIDE DEF kinds, places
<1>4. Placed(kinds, places)
  BY <1>1, <1>3 DEF DirType, Placed
<1>5. Change({n}, kinds, places)
  BY <1>1 DEF kinds, places
<1> QED BY <1>2, <1>3, <1>4, <1>5, ChangeDir

\* Every step.
LEMMA DirStep ==
  ASSUME DirInv, [DirNext]_dirVars
  PROVE  DirInv'
<1>1. DirType /\ Pass /\ OnePass /\ Lone
  BY DEF DirInv
<1>2. CASE dir_open
  <2>1. /\ OpenIters = {} /\ OpenIters' = {} /\ offset' = 0 /\ given' = {} /\ twice' = {}
        /\ UNCHANGED <<entry, place, iter>>
    BY <1>2 DEF dir_open, OpenIters
  <2>2. DirType'
    BY <1>1, <2>1, DirAssumption DEF DirType
  <2>3. Pass' /\ Lone' /\ OnePass'
    BY <2>1 DEF Pass, Lone, OnePass
  <2> QED BY <2>2, <2>3 DEF DirInv
<1>3. CASE dir_close \/ UNCHANGED dirVars
  <2>1. UNCHANGED <<offset, entry, place, touched, given, twice, iter>>
    BY <1>3 DEF dir_close, dirVars
  <2>2. OpenIters' = OpenIters /\ \A j : Buffered(j)' = Buffered(j)
    BY <2>1 DEF OpenIters, Buffered
  <2>3. DirType' /\ Pass' /\ OnePass'
    BY <1>1, <2>1, <2>2 DEF DirType, Pass, OnePass
  <2>4. Lone'
    BY <1>1, <2>1, <2>2 DEF Lone, LonePass
  <2> QED BY <2>3, <2>4 DEF DirInv
<1>4. ASSUME NEW i \in Iters, Yield(i)
      PROVE  DirInv'
  <2> DEFINE name == iter[i].buf[First(i)].name
             got == IF iter[i].alone THEN iter[i].got \cup {name} ELSE iter[i].got
  <2>1. i \in OpenIters /\ Turn(i) /\ Buffered(i) # {}
    BY <1>4 DEF Yield, Turn, OpenIters
  <2>2. got \in SUBSET Names
    <3>1. iter[i] \in IterStructs /\ name \in Names
      BY <2>1, <1>1, OpenIter
    <3>2. iter[i].got \in SUBSET Names
      BY <3>1 DEF IterStructs
    <3> QED BY <3>1, <3>2
  <2>3. iter' = [iter EXCEPT ![i].buf = Rest(i), ![i].got = got, ![i].state = "idle"]
    BY <1>1, <1>4 DEF Yield, DirType
  <2>4. /\ Wanted(iter[i].buf[First(i)]) /\ offset' = offset
        /\ given' = given \cup ({name} \ touched)
        /\ twice' = twice \cup ({name} \cap given)
    BY <1>4 DEF Yield
  <2> QED BY <2>1, <2>2, <2>3, <2>4, TakeDir
<1>5. ASSUME NEW i \in Iters, Skip(i)
      PROVE  DirInv'
  <2>1. i \in OpenIters /\ Turn(i) /\ Buffered(i) # {}
    BY <1>5 DEF Skip, Passed, Turn, OpenIters
  <2>2. iter[i] \in IterStructs /\ iter[i].got \in SUBSET Names
    BY <2>1, <1>1, OpenIter DEF IterStructs
  <2>3. [iter[i] EXCEPT !.buf = Rest(i), !.got = iter[i].got, !.state = "next"]
          = [iter[i] EXCEPT !.buf = Rest(i), !.state = "next"]
    BY <2>2 DEF IterStructs
  <2>4. iter' = [iter EXCEPT ![i] = [iter[i] EXCEPT !.buf = Rest(i), !.state = "next"]]
    BY <1>1, <1>5 DEF Skip, DirType
  <2>5. iter' = [iter EXCEPT ![i].buf = Rest(i), ![i].got = iter[i].got, ![i].state = "next"]
    BY <1>1, <2>3, <2>4 DEF DirType
  <2>6. ~Wanted(iter[i].buf[First(i)]) /\ UNCHANGED <<offset, given, twice>>
    BY <1>5 DEF Skip, Passed
  <2> QED BY <2>1, <2>2, <2>5, <2>6, TakeDir
<1>6. ASSUME NEW i \in Iters, EndOfDirectory(i) \/ dir_iter_next_fails(i)
      PROVE  DirInv'
  BY <1>6, StopDir DEF EndOfDirectory, dir_iter_next_fails
<1>7. ASSUME NEW i \in Iters, dir_iter_open(i) \/ dir_iter_next(i) \/ dir_iter_close(i)
      PROVE  DirInv'
  BY <1>4, <1>5, <1>6, <1>7, RefillDir, IterOpenDir, IterCloseDir DEF dir_iter_next
<1> QED BY <1>2, <1>3, <1>7, RenameDir, CreateDir, RemoveDir DEF DirNext

\* The inductive invariant of a directory and its iterators.
THEOREM DirInvariance == DirSpec => []DirInv
<1>1. DirInit => DirInv
  <2> SUFFICES ASSUME DirInit PROVE DirInv
    OBVIOUS
  <2>1. OpenIters = {}
    BY DEF DirInit, OpenIters
  <2>2. DirType
    BY DirAssumption DEF DirInit, DirType
  <2>3. Pass /\ Lone /\ OnePass
    BY <2>1 DEF DirInit, Pass, Lone, OnePass
  <2> QED BY <2>2, <2>3 DEF DirInv
<1>2. DirInv /\ [DirNext]_dirVars => DirInv'
  BY DirStep
<1> QED BY <1>1, <1>2, PTL DEF DirSpec

\* No name whose entry does not change is given out twice while a directory is
\* open, by however many iterators, in whatever portions the kernel hands out the
\* entries, and wherever the entries that do change come and go.
THEOREM OnePassCorrect == DirSpec => []OnePass
<1>1. DirInv => OnePass
  BY DEF DirInv
<1> QED BY <1>1, DirInvariance, PTL

\* A lone iterator that ends without an error gave out each regular file among
\* the names that did not change, and besides these only links.
THEOREM LoneIterationCorrect == DirSpec => []LoneIterationComplete
<1>1. DirInv => LoneIterationComplete
  <2> SUFFICES ASSUME DirInv, NEW i \in OpenIters, iter[i].alone, iter[i].state = "done",
                      NEW n \in Names \ touched
               PROVE  /\ entry[n] = "regular" => n \in iter[i].got
                      /\ n \in iter[i].got => entry[n] \in {"regular", "link"}
    BY DEF LoneIterationComplete
  <2>1. LonePass(i) /\ DirType
    BY DEF DirInv, Lone
  <2>2. offset = LastPlace /\ Buffered(i) = {}
    BY <2>1 DEF LonePass
  <2>3. entry[n] = "regular" => place[n] \in 1 .. offset
    BY <2>1, <2>2, DirAssumption DEF DirType, Placed
  <2> QED BY <2>1, <2>2, <2>3 DEF LonePass
<1> QED BY <1>1, DirInvariance, PTL

--------------------------------------------------------------------------------
(* Names: a coordinate's text. *)

DigitChars == {"0", "1", "2", "3", "4", "5", "6", "7", "8", "9"}

LEMMA DigitFacts ==
  /\ \A n \in 0 .. 9 : Digit(n) \in DigitChars
  /\ \A m, n \in 0 .. 9 : Digit(m) = Digit(n) => m = n
<1> DEFINE t == <<"0", "1", "2", "3", "4", "5", "6", "7", "8", "9">>
<1>1. /\ t[1] = "0" /\ t[2] = "1" /\ t[3] = "2" /\ t[4] = "3" /\ t[5] = "4"
      /\ t[6] = "5" /\ t[7] = "6" /\ t[8] = "7" /\ t[9] = "8" /\ t[10] = "9"
  OBVIOUS
<1>2. \A n : Digit(n) = t[n + 1]
  BY DEF Digit
<1> HIDE DEF t
<1>3. /\ Digit(0) = "0" /\ Digit(1) = "1" /\ Digit(2) = "2" /\ Digit(3) = "3" /\ Digit(4) = "4"
      /\ Digit(5) = "5" /\ Digit(6) = "6" /\ Digit(7) = "7" /\ Digit(8) = "8" /\ Digit(9) = "9"
  BY <1>1, <1>2
<1>4. \A n \in 0 .. 9 : n = 0 \/ n = 1 \/ n = 2 \/ n = 3 \/ n = 4 \/ n = 5 \/ n = 6 \/ n = 7 \/ n = 8 \/ n = 9
  OBVIOUS
<1> QED BY <1>3, <1>4 DEF DigitChars

\* The quotient and the remainder make up the number.
LEMMA DivBy10 ==
  ASSUME NEW n \in Nat
  PROVE  /\ n \div 10 \in Nat /\ n % 10 \in 0 .. 9
         /\ n = 10 * (n \div 10) + (n % 10)
         /\ n >= 10 => n \div 10 < n
BY SMT

\* f has the texts of the numbers up to n.
TextsUpTo(f, n) ==
  /\ f \in [0 .. n -> Seq(DigitChars)]
  /\ \A m \in 0 .. n : f[m] = IF m < 10 THEN <<Digit(m)>> ELSE f[m \div 10] \o <<Digit(m % 10)>>

LEMMA TextsExist ==
  ASSUME NEW N \in Nat
  PROVE  \E f : TextsUpTo(f, N)
<1> DEFINE S == {n \in 0 .. N : \E f : TextsUpTo(f, n)}
<1>1. 0 \in S
  <2> DEFINE f == [m \in 0 .. 0 |-> <<Digit(m)>>]
  <2>1. \A m \in 0 .. 0 : m = 0 /\ <<Digit(m)>> \in Seq(DigitChars)
    BY DigitFacts
  <2>2. TextsUpTo(f, 0)
    BY <2>1 DEF TextsUpTo
  <2> QED BY <2>2
<1>2. ASSUME NEW n \in 1 .. N, n - 1 \in S PROVE n \in S
  <2>1. PICK f : TextsUpTo(f, n - 1)
    BY <1>2
  <2> DEFINE t == IF n < 10 THEN <<Digit(n)>> ELSE f[n \div 10] \o <<Digit(n % 10)>>
             g == [m \in 0 .. n |-> IF m = n THEN t ELSE f[m]]
  <2>2. t \in Seq(DigitChars)
    <3>1. CASE n < 10
      <4>1. Digit(n) \in DigitChars
        BY <3>1, DigitFacts
      <4> QED BY <3>1, <4>1
    <3>2. CASE n >= 10
      <4>1. Digit(n % 10) \in DigitChars /\ n \div 10 \in 0 .. n - 1
        BY <3>2, DivBy10, DigitFacts
      <4>2. f[n \div 10] \in Seq(DigitChars)
        BY <2>1, <4>1 DEF TextsUpTo
      <4>3. t = f[n \div 10] \o <<Digit(n % 10)>>
        BY <3>2
      <4> HIDE DEF t
      <4> QED BY <4>1, <4>2, <4>3
    <3> QED BY <3>1, <3>2
  <2>3. \A m \in 0 .. n - 1 : g[m] = f[m] /\ f[m] \in Seq(DigitChars)
    BY <2>1 DEF TextsUpTo
  <2>4. g \in [0 .. n -> Seq(DigitChars)]
    <3> HIDE DEF t
    <3> QED BY <2>1, <2>2 DEF TextsUpTo
  <2>5. g[n] = t
    <3> HIDE DEF t
    <3> QED OBVIOUS
  <2> HIDE DEF g
  <2>6. ASSUME NEW m \in 0 .. n PROVE g[m] = IF m < 10 THEN <<Digit(m)>> ELSE g[m \div 10] \o <<Digit(m % 10)>>
    <3>1. m >= 10 => m \div 10 \in 0 .. n - 1
      BY DivBy10
    <3>2. m >= 10 => g[m \div 10] = f[m \div 10]
      BY <2>3, <3>1
    <3>3. CASE m = n
      <4>1. t = IF m < 10 THEN <<Digit(m)>> ELSE f[m \div 10] \o <<Digit(m % 10)>>
        BY <3>3
      <4> HIDE DEF t
      <4> QED BY <2>5, <3>2, <3>3, <4>1
    <3>4. CASE m # n
      <4>1. m \in 0 .. n - 1
        BY <3>4
      <4>2. f[m] = IF m < 10 THEN <<Digit(m)>> ELSE f[m \div 10] \o <<Digit(m % 10)>>
        BY <2>1, <4>1 DEF TextsUpTo
      <4> QED BY <2>3, <3>2, <4>1, <4>2
    <3> QED BY <3>3, <3>4
  <2>7. TextsUpTo(g, n)
    BY <2>4, <2>6 DEF TextsUpTo
  <2> QED BY <2>7
<1> HIDE DEF S
<1>3. N \in S
  <2>1. \A n \in 0 .. N : n \in S
    BY <1>1, <1>2, BoundedInduction
  <2> QED BY <2>1
<1> QED BY <1>3 DEF S

LEMMA TextsUnique ==
  ASSUME NEW a \in Nat, NEW b \in Nat, a <= b, NEW f, NEW g, TextsUpTo(f, a), TextsUpTo(g, b)
  PROVE  \A m \in 0 .. a : f[m] = g[m]
<1> DEFINE S == {m \in 0 .. a : f[m] # g[m]}
<1>1. SUFFICES ASSUME S # {} PROVE FALSE
  OBVIOUS
<1>2. PICK m : m \in S /\ \A y \in S : m <= y
  <2>1. S \subseteq Nat
    OBVIOUS
  <2> HIDE DEF S
  <2> QED BY <1>1, <2>1, MinNat
<1>3. m \in 0 .. a /\ m \in 0 .. b /\ f[m] # g[m]
  BY <1>2
<1>4. m >= 10 => f[m \div 10] = g[m \div 10]
  <2> SUFFICES ASSUME m >= 10 PROVE f[m \div 10] = g[m \div 10]
    OBVIOUS
  <2>1. m \div 10 \in 0 .. a /\ ~(m <= m \div 10)
    BY <1>3, DivBy10
  <2>2. m \div 10 \notin S
    <3> HIDE DEF S
    <3> QED BY <1>2, <2>1
  <2> QED BY <2>1, <2>2
<1>5. f[m] = IF m < 10 THEN <<Digit(m)>> ELSE f[m \div 10] \o <<Digit(m % 10)>>
  BY <1>3 DEF TextsUpTo
<1>6. g[m] = IF m < 10 THEN <<Digit(m)>> ELSE g[m \div 10] \o <<Digit(m % 10)>>
  BY <1>3 DEF TextsUpTo
<1> QED BY <1>3, <1>4, <1>5, <1>6

\* snprintf writes the digits from the highest one.
LEMMA DigitsDef ==
  /\ Digits \in [Nat -> Seq(DigitChars)]
  /\ \A n \in Nat : Digits[n] = IF n < 10 THEN <<Digit(n)>> ELSE Digits[n \div 10] \o <<Digit(n % 10)>>
<1> DEFINE T(n) == CHOOSE f : TextsUpTo(f, n)
           F == [n \in Nat |-> T(n)[n]]
           P(g) == g = [n \in Nat |-> IF n < 10 THEN <<Digit(n)>> ELSE g[n \div 10] \o <<Digit(n % 10)>>]
<1>1. \A n \in Nat : TextsUpTo(T(n), n)
  BY TextsExist, Zenon
<1> HIDE DEF T
<1>2. ASSUME NEW n \in Nat PROVE F[n] = IF n < 10 THEN <<Digit(n)>> ELSE F[n \div 10] \o <<Digit(n % 10)>>
  <2>1. T(n)[n] = IF n < 10 THEN <<Digit(n)>> ELSE T(n)[n \div 10] \o <<Digit(n % 10)>>
    <3>1. TextsUpTo(T(n), n) /\ n \in 0 .. n
      BY <1>1
    <3> QED BY <3>1 DEF TextsUpTo
  <2>2. n >= 10 => T(n)[n \div 10] = T(n \div 10)[n \div 10]
    <3> SUFFICES ASSUME n >= 10 PROVE T(n)[n \div 10] = T(n \div 10)[n \div 10]
      OBVIOUS
    <3> DEFINE k == n \div 10
    <3>1. k \in Nat /\ k <= n /\ k \in 0 .. k
      BY DivBy10
    <3> HIDE DEF k
    <3>2. TextsUpTo(T(k), k) /\ TextsUpTo(T(n), n)
      BY <1>1, <3>1
    <3>3. \A m \in 0 .. k : T(k)[m] = T(n)[m]
      BY <3>1, <3>2, TextsUnique
    <3>4. T(n)[k] = T(k)[k]
      BY <3>1, <3>3
    <3> QED BY <3>4 DEF k
  <2>3. n \div 10 \in Nat
    BY DivBy10
  <2> QED BY <2>1, <2>2, <2>3
<1>3. F \in [Nat -> Seq(DigitChars)]
  <2>1. \A n \in Nat : T(n)[n] \in Seq(DigitChars)
    BY <1>1 DEF TextsUpTo
  <2> QED BY <2>1
<1>4. F = [n \in Nat |-> F[n]]
  OBVIOUS
<1> HIDE DEF F
<1>5. P(F)
  BY <1>2, <1>4
<1>6. Digits = CHOOSE g : P(g)
  BY DEF Digits
<1>7. P(Digits)
  <2> HIDE DEF P
  <2>1. P(CHOOSE g : P(g))
    BY <1>5, Zenon
  <2> QED BY <1>6, <2>1
<1>8. \A n \in Nat : Digits[n] = IF n < 10 THEN <<Digit(n)>> ELSE Digits[n \div 10] \o <<Digit(n % 10)>>
  <2> HIDE DEF Digits
  <2> QED BY <1>7
<1>9. Digits = [n \in Nat |-> Digits[n]]
  BY <1>7
<1>10. \A n \in Nat : Digits[n] = F[n]
  <2> DEFINE S == {n \in Nat : Digits[n] # F[n]}
  <2>1. SUFFICES ASSUME S # {} PROVE FALSE
    OBVIOUS
  <2>2. PICK m : m \in S /\ \A y \in S : m <= y
    <3>1. S \subseteq Nat
      OBVIOUS
    <3> HIDE DEF S
    <3> QED BY <2>1, <3>1, MinNat
  <2>3. m \in Nat /\ Digits[m] # F[m]
    BY <2>2
  <2>4. m >= 10 => Digits[m \div 10] = F[m \div 10]
    <3> SUFFICES ASSUME m >= 10 PROVE Digits[m \div 10] = F[m \div 10]
      OBVIOUS
    <3>1. m \div 10 \in Nat /\ ~(m <= m \div 10)
      BY <2>3, DivBy10
    <3>2. m \div 10 \notin S
      <4> HIDE DEF S
      <4> QED BY <2>2, <3>1
    <3> QED BY <3>1, <3>2
  <2>5. Digits[m] = IF m < 10 THEN <<Digit(m)>> ELSE Digits[m \div 10] \o <<Digit(m % 10)>>
    BY <1>8, <2>3
  <2>6. F[m] = IF m < 10 THEN <<Digit(m)>> ELSE F[m \div 10] \o <<Digit(m % 10)>>
    BY <1>2, <2>3
  <2>7. CASE m < 10
    BY <2>3, <2>5, <2>6, <2>7
  <2>8. CASE m >= 10
    BY <2>3, <2>4, <2>5, <2>6, <2>8
  <2> QED BY <2>3, <2>7, <2>8
<1> QED BY <1>3, <1>4, <1>8, <1>9, <1>10

\* Appending one character can be undone.
LEMMA CharAppendInjective ==
  ASSUME NEW C, NEW s \in Seq(C), NEW t \in Seq(C), NEW c \in C, NEW d \in C, s \o <<c>> = t \o <<d>>
  PROVE  s = t /\ c = d
<1>1. Len(s \o <<c>>) = Len(s) + 1 /\ Len(t \o <<d>>) = Len(t) + 1
  OBVIOUS
<1>2. Len(s) = Len(t)
  BY <1>1
<1>3. (s \o <<c>>)[Len(s) + 1] = c /\ (t \o <<d>>)[Len(t) + 1] = d
  OBVIOUS
<1>4. \A i \in 1 .. Len(s) : (s \o <<c>>)[i] = s[i]
  OBVIOUS
<1>5. \A i \in 1 .. Len(t) : (t \o <<d>>)[i] = t[i]
  OBVIOUS
<1>6. \A i \in 1 .. Len(s) : s[i] = t[i]
  BY <1>2, <1>4, <1>5
<1> QED BY <1>2, <1>3, <1>6, SeqEqual

LEMMA DigitsLen ==
  ASSUME NEW n \in Nat
  PROVE  /\ n < 10 => Digits[n] = <<Digit(n)>> /\ Len(Digits[n]) = 1
         /\ n >= 10 => /\ Digits[n] = Digits[n \div 10] \o <<Digit(n % 10)>>
                       /\ Len(Digits[n]) = Len(Digits[n \div 10]) + 1
                       /\ Digit(n % 10) \in DigitChars
         /\ Digits[n] \in Seq(DigitChars)
<1>1. Digits[n] = IF n < 10 THEN <<Digit(n)>> ELSE Digits[n \div 10] \o <<Digit(n % 10)>>
  BY DigitsDef
<1>2. n \div 10 \in Nat /\ n % 10 \in 0 .. 9
  BY DivBy10
<1>3. Digits[n \div 10] \in Seq(DigitChars) /\ Digits[n] \in Seq(DigitChars) /\ Digit(n % 10) \in DigitChars
  BY <1>2, DigitsDef, DigitFacts
<1>4. Len(Digits[n \div 10] \o <<Digit(n % 10)>>) = Len(Digits[n \div 10]) + 1
  BY <1>3
<1> QED BY <1>1, <1>3, <1>4

LEMMA DigitsNonEmpty ==
  ASSUME NEW n \in Nat
  PROVE  Len(Digits[n]) \in Nat /\ Len(Digits[n]) >= 1
<1>1. CASE n < 10
  <2>1. Len(Digits[n]) = 1
    BY <1>1, DigitsLen, Zenon
  <2> QED BY <2>1
<1>2. CASE n >= 10
  <2>1. n \div 10 \in Nat
    BY DivBy10
  <2>2. Digits[n \div 10] \in Seq(DigitChars)
    BY <2>1, DigitsDef
  <2>3. Len(Digits[n \div 10]) \in Nat
    BY <2>2
  <2>4. Len(Digits[n]) = Len(Digits[n \div 10]) + 1
    BY <1>2, DigitsLen, Zenon
  <2> QED BY <2>3, <2>4
<1> QED BY <1>1, <1>2

\* Numbers with the same digits are equal.
LEMMA DigitsInjective ==
  ASSUME NEW a \in Nat, NEW b \in Nat, Digits[a] = Digits[b]
  PROVE  a = b
<1> DEFINE S == {m \in Nat : \E n \in Nat : n # m /\ Digits[m] = Digits[n]}
<1>1. SUFFICES ASSUME S # {} PROVE FALSE
  OBVIOUS
<1>2. PICK m : m \in S /\ \A y \in S : m <= y
  <2>1. S \subseteq Nat
    OBVIOUS
  <2> HIDE DEF S
  <2> QED BY <1>1, <2>1, MinNat
<1>3. PICK n \in Nat : m \in Nat /\ n # m /\ Digits[m] = Digits[n]
  BY <1>2
<1>4. m \div 10 \in Nat /\ n \div 10 \in Nat /\ m % 10 \in 0 .. 9 /\ n % 10 \in 0 .. 9
  BY <1>3, DivBy10
<1>5. CASE m < 10 /\ n < 10
  <2>1. <<Digit(m)>> = <<Digit(n)>>
    BY <1>3, <1>5, DigitsLen
  <2>2. Digit(m) = Digit(n) /\ m \in 0 .. 9 /\ n \in 0 .. 9
    BY <1>3, <1>5, <2>1
  <2> QED BY <1>3, <2>2, DigitFacts
<1>6. CASE m < 10 /\ n >= 10
  <2> DEFINE l == Len(Digits[n \div 10])
  <2>1. Len(Digits[m]) = 1 /\ Len(Digits[n]) = l + 1 /\ l >= 1 /\ l \in Nat
    BY <1>3, <1>4, <1>6, DigitsLen, DigitsNonEmpty
  <2> HIDE DEF l
  <2>2. 1 = l + 1
    BY <1>3, <2>1, Zenon
  <2> QED BY <2>1, <2>2
<1>7. CASE m >= 10 /\ n < 10
  <2> DEFINE l == Len(Digits[m \div 10])
  <2>1. Len(Digits[n]) = 1 /\ Len(Digits[m]) = l + 1 /\ l >= 1 /\ l \in Nat
    BY <1>3, <1>4, <1>7, DigitsLen, DigitsNonEmpty
  <2> HIDE DEF l
  <2>2. 1 = l + 1
    BY <1>3, <2>1, Zenon
  <2> QED BY <2>1, <2>2
<1>8. CASE m >= 10 /\ n >= 10
  <2> DEFINE u == m \div 10
             v == n \div 10
             e == m % 10
             f == n % 10
  <2>1. Digits[u] \o <<Digit(e)>> = Digits[v] \o <<Digit(f)>>
    BY <1>3, <1>8, DigitsLen
  <2>2. m = 10 * u + e /\ n = 10 * v + f /\ u < m
    BY <1>3, <1>8, DivBy10
  <2>3. u \in Nat /\ v \in Nat /\ e \in 0 .. 9 /\ f \in 0 .. 9
    BY <1>4
  <2> HIDE DEF u, v, e, f
  <2>4. Digits[u] \in Seq(DigitChars) /\ Digits[v] \in Seq(DigitChars) /\ Digit(e) \in DigitChars /\ Digit(f) \in DigitChars
    BY <2>3, DigitsDef, DigitFacts
  <2>5. Digits[u] = Digits[v] /\ Digit(e) = Digit(f)
    <3> DEFINE s == Digits[u]
               t == Digits[v]
               c == Digit(e)
               d == Digit(f)
    <3>1. s \o <<c>> = t \o <<d>> /\ s \in Seq(DigitChars) /\ t \in Seq(DigitChars) /\ c \in DigitChars /\ d \in DigitChars
      BY <2>1, <2>4
    <3> HIDE DEF s, t, c, d
    <3>2. s = t /\ c = d
      BY <3>1, CharAppendInjective
    <3> QED BY <3>2 DEF s, t, c, d
  <2>6. e = f
    BY <2>3, <2>5, DigitFacts
  <2>7. u \notin S
    <3>1. ~(m <= u)
      BY <1>3, <2>2, <2>3
    <3> HIDE DEF S
    <3> QED BY <1>2, <3>1
  <2>8. u = v
    BY <2>3, <2>5, <2>7
  <2> QED BY <1>3, <2>2, <2>6, <2>8
<1> QED BY <1>3, <1>5, <1>6, <1>7, <1>8

\* The characters of a coordinate's text; a dot is none of them.
CoordChars == DigitChars \cup {"-"}
NameChars == CoordChars \cup {"."}

LEMMA DecimalFacts ==
  ASSUME NEW c \in Int
  PROVE  /\ Decimal(c) \in Seq(CoordChars)
         /\ Len(Decimal(c)) >= 1
         /\ c < 0 <=> Decimal(c)[1] = "-"
<1>1. CASE c < 0
  <2>1. -c \in Nat
    BY <1>1
  <2>2. Digits[-c] \in Seq(CoordChars)
    <3>1. Digits[-c] \in Seq(DigitChars)
      BY <2>1, DigitsDef
    <3> QED BY <3>1 DEF CoordChars
  <2>3. Decimal(c) = <<"-">> \o Digits[-c] /\ "-" \in CoordChars
    BY <1>1 DEF Decimal, CoordChars
  <2> HIDE DEF Digits
  <2>4. <<"-">> \o Digits[-c] \in Seq(CoordChars)
    BY <2>2, <2>3
  <2>5. Len(<<"-">> \o Digits[-c]) = 1 + Len(Digits[-c]) /\ (<<"-">> \o Digits[-c])[1] = "-" /\ Len(Digits[-c]) \in Nat
    BY <2>2, <2>3
  <2> QED BY <1>1, <2>3, <2>4, <2>5
<1>2. CASE c >= 0
  <2>1. c \in Nat /\ Decimal(c) = Digits[c]
    BY <1>2 DEF Decimal
  <2>2. Digits[c] \in Seq(DigitChars)
    BY <2>1, DigitsDef
  <2>3. Len(Digits[c]) >= 1 /\ Len(Digits[c]) \in Nat
    BY <2>1, DigitsNonEmpty
  <2>4. Digits[c][1] \in DigitChars
    BY <2>2, <2>3
  <2>5. Digits[c] \in Seq(CoordChars)
    BY <2>2 DEF CoordChars
  <2>6. "-" \notin DigitChars
    BY DEF DigitChars
  <2> QED BY <1>2, <2>1, <2>3, <2>4, <2>5, <2>6
<1> QED BY <1>1, <1>2

LEMMA DecimalInjective ==
  ASSUME NEW a \in Int, NEW b \in Int, Decimal(a) = Decimal(b)
  PROVE  a = b
<1>1. a < 0 <=> b < 0
  BY DecimalFacts
<1>2. CASE a < 0
  <2>1. <<"-">> \o Digits[-a] = <<"-">> \o Digits[-b] /\ -a \in Nat /\ -b \in Nat
    BY <1>1, <1>2 DEF Decimal
  <2> DEFINE s == Digits[-a]
             t == Digits[-b]
  <2>2. s \in Seq(DigitChars) /\ t \in Seq(DigitChars)
    BY <2>1, DigitsDef
  <2> HIDE DEF s, t
  <2>3. s = t
    <3>1. <<"-">> \o s = <<"-">> \o t
      BY <2>1 DEF s, t
    <3>2. s \in Seq(CoordChars) /\ t \in Seq(CoordChars) /\ "-" \in CoordChars
      BY <2>2 DEF CoordChars
    <3>3. Len(<<"-">> \o s) = 1 + Len(s) /\ Len(<<"-">> \o t) = 1 + Len(t) /\ Len(s) \in Nat /\ Len(t) \in Nat
      BY <3>2
    <3>4. \A i \in 1 .. Len(s) : (<<"-">> \o s)[i + 1] = s[i]
      BY <3>2
    <3>5. \A i \in 1 .. Len(t) : (<<"-">> \o t)[i + 1] = t[i]
      BY <3>2
    <3>6. Len(s) = Len(t) /\ \A i \in 1 .. Len(s) : s[i] = t[i]
      BY <3>1, <3>3, <3>4, <3>5
    <3> QED BY <3>2, <3>6, SeqEqual
  <2>4. -a = -b
    BY <2>1, <2>3, DigitsInjective DEF s, t
  <2> QED BY <2>4
<1>3. CASE a >= 0
  <2>1. a \in Nat /\ b \in Nat /\ Digits[a] = Digits[b]
    BY <1>1, <1>3 DEF Decimal
  <2> QED BY <2>1, DigitsInjective
<1> QED BY <1>2, <1>3

--------------------------------------------------------------------------------
(* Names: the coordinates, each with a dot behind it. *)

HasCoords(p, dims) == dims \in Nat /\ \A n \in 1 .. dims : p[n] \in Int

CoordsUpTo(c, p, dims) ==
  /\ c \in [0 .. dims -> Seq(NameChars)]
  /\ c[0] = <<>>
  /\ \A n \in 1 .. dims : c[n] = c[n - 1] \o Decimal(p[n]) \o <<".">>

LEMMA CoordsDef ==
  ASSUME NEW dims, NEW p, HasCoords(p, dims)
  PROVE  \E c : CoordsUpTo(c, p, dims) /\ Coords(p, dims) = c[dims]
<1> DEFINE V == Seq(NameChars)
           G == [x \in V \X (1 .. dims) |-> x[1] \o Decimal(p[x[2]]) \o <<".">>]
           P(g) == g = [n \in 0 .. dims |-> IF n = 0 THEN <<>> ELSE g[n - 1] \o Decimal(p[n]) \o <<".">>]
           c == CHOOSE g : P(g)
<1> USE DEF HasCoords
<1>1. \A v \in V, n \in 1 .. dims : v \o Decimal(p[n]) \o <<".">> \in V
  <2> SUFFICES ASSUME NEW v \in V, NEW n \in 1 .. dims PROVE v \o Decimal(p[n]) \o <<".">> \in V
    OBVIOUS
  <2> DEFINE t == Decimal(p[n])
  <2>1. t \in Seq(CoordChars)
    BY DecimalFacts
  <2> HIDE DEF t
  <2>2. t \in Seq(NameChars) /\ "." \in NameChars
    BY <2>1 DEF NameChars
  <2>3. v \o t \o <<".">> \in V
    BY <2>2
  <2> QED BY <2>3 DEF t
<1>2. G \in [V \X (1 .. dims) -> V]
  BY <1>1
<1>3. \A v \in V, n \in 1 .. dims : G[<<v, n>>] = v \o Decimal(p[n]) \o <<".">>
  OBVIOUS
<1>4. PICK f : ComputedFrom(f, V, <<>>, dims, G)
  <2> HIDE DEF V, G
  <2>1. <<>> \in V
    BY DEF V
  <2> QED BY <1>2, <2>1, RecursiveFunction
<1> HIDE DEF V, G
<1>5. f \in [0 .. dims -> V] /\ f[0] = <<>> /\ \A n \in 1 .. dims : f[n] = f[n - 1] \o Decimal(p[n]) \o <<".">>
  <2>1. \A n \in 1 .. dims : f[n - 1] \in V
    BY <1>4 DEF ComputedFrom
  <2> QED BY <1>3, <1>4, <2>1 DEF ComputedFrom
<1>6. P(f)
  <2>1. f = [n \in 0 .. dims |-> f[n]]
    BY <1>5
  <2> QED BY <1>5, <2>1
<1>7. Coords(p, dims) = c[dims]
  BY DEF Coords
<1>8. P(c)
  <2> HIDE DEF P
  <2> QED BY <1>6, Zenon
<1> HIDE DEF c
<1>9. c[0] = <<>> /\ \A n \in 1 .. dims : c[n] = c[n - 1] \o Decimal(p[n]) \o <<".">>
  <2>1. \A n \in 0 .. dims : c[n] = IF n = 0 THEN <<>> ELSE c[n - 1] \o Decimal(p[n]) \o <<".">>
    BY <1>8
  <2>2. 0 \in 0 .. dims /\ \A n \in 1 .. dims : n \in 0 .. dims /\ n # 0
    OBVIOUS
  <2> QED BY <2>1, <2>2
<1>10. c = f
  <2> DEFINE S == {n \in 0 .. dims : c[n] = f[n]}
  <2>1. 0 \in S
    BY <1>5, <1>9
  <2>2. ASSUME NEW n \in 1 .. dims, n - 1 \in S PROVE n \in S
    <3>1. n \in 0 .. dims /\ c[n - 1] = f[n - 1]
      BY <2>2
    <3>2. c[n] = c[n - 1] \o Decimal(p[n]) \o <<".">> /\ f[n] = f[n - 1] \o Decimal(p[n]) \o <<".">>
      BY <1>5, <1>9
    <3>3. c[n] = f[n]
      BY <3>1, <3>2
    <3> QED BY <3>1, <3>3
  <2> HIDE DEF S
  <2>3. \A n \in 0 .. dims : n \in S
    BY <2>1, <2>2, BoundedInduction
  <2>4. \A n \in 0 .. dims : c[n] = f[n]
    BY <2>3 DEF S
  <2>5. c = [n \in 0 .. dims |-> c[n]] /\ f = [n \in 0 .. dims |-> f[n]]
    BY <1>5, <1>8
  <2> QED BY <2>4, <2>5
<1>11. CoordsUpTo(c, p, dims)
  BY <1>5, <1>9, <1>10 DEF CoordsUpTo, V
<1> QED BY <1>7, <1>11

\* One coordinate more.
OneMore(c, p, n) == c[n] = (c[n - 1] \o Decimal(p[n])) \o <<".">>

LEMMA CoordsLastDef ==
  ASSUME NEW dims, NEW p, HasCoords(p, dims), NEW c, CoordsUpTo(c, p, dims), NEW n \in 1 .. dims
  PROVE  OneMore(c, p, n)
BY DEF CoordsUpTo, OneMore

LEMMA CoordsLast ==
  ASSUME NEW dims, NEW p, HasCoords(p, dims), NEW c, CoordsUpTo(c, p, dims), NEW n \in 1 .. dims
  PROVE  /\ c[n] \in Seq(NameChars) /\ c[n - 1] \in Seq(NameChars)
         /\ Decimal(p[n]) \in Seq(NameChars)
         /\ c[n - 1] \o Decimal(p[n]) \in Seq(NameChars) /\ "." \in NameChars
<1> DEFINE s == c[n - 1]
           t == Decimal(p[n])
<1> USE DEF HasCoords
<1>1. s \in Seq(NameChars) /\ c[n] \in Seq(NameChars) 
  <2>1. n \in 0 .. dims /\ n - 1 \in 0 .. dims
    OBVIOUS
  <2>2. s \in Seq(NameChars) /\ c[n] \in Seq(NameChars)
    BY <2>1 DEF CoordsUpTo
  <2> QED BY <2>2
<1>2. t \in Seq(CoordChars)
  BY DecimalFacts
<1> HIDE DEF s, t
<1>3. t \in Seq(NameChars) /\ "." \in NameChars
  BY <1>2 DEF NameChars
<1>4. s \o t \in Seq(NameChars) /\ Len(s \o t) = Len(s) + Len(t)
  BY <1>1, <1>3
<1> QED BY <1>1, <1>3, <1>4 DEF s, t

DotEnded(s) == Len(s) > 0 => s[Len(s)] = "."

LEMMA CoordsLastLen ==
  ASSUME NEW dims, NEW p, HasCoords(p, dims), NEW c, CoordsUpTo(c, p, dims), NEW n \in 1 .. dims
  PROVE  /\ Len(c[n]) = Len(c[n - 1]) + Len(Decimal(p[n])) + 1
         /\ DotEnded(c[n])
<1> DEFINE s == c[n - 1]
           t == Decimal(p[n])
           u == s \o t
<1>1. s \in Seq(NameChars) /\ t \in Seq(NameChars) /\ u \in Seq(NameChars) /\ "." \in NameChars
  BY CoordsLast
<1>2. c[n] = u \o <<".">>
  <2>1. OneMore(c, p, n)
    BY CoordsLastDef
  <2> QED BY <2>1 DEF OneMore
<1>3. Len(u) = Len(s) + Len(t)
  BY <1>1
<1> HIDE DEF s, t, u
<1>4. Len(u \o <<".">>) = Len(u) + 1 /\ (u \o <<".">>)[Len(u) + 1] = "."
  BY <1>1
<1>5. Len(c[n]) = Len(s) + Len(t) + 1 /\ DotEnded(c[n])
  BY <1>2, <1>3, <1>4 DEF DotEnded
<1> QED BY <1>5 DEF s, t

\* x is made of s and d.
Parts(x, s, d) ==
  /\ \A i \in 1 .. Len(s) : x[i] = s[i]
  /\ \A i \in 1 .. Len(d) : x[Len(s) + i] = d[i]
  /\ Len(x) = Len(s) + Len(d)

LEMMA ConcatParts ==
  ASSUME NEW C, NEW s \in Seq(C), NEW d \in Seq(C)
  PROVE  Parts(s \o d, s, d)
BY DEF Parts

\* The text behind the last dot is that of the last coordinate.
LEMMA LastSplit ==
  ASSUME NEW s \in Seq(NameChars), NEW t \in Seq(NameChars), NEW d \in Seq(CoordChars), NEW e \in Seq(CoordChars),
         DotEnded(s), DotEnded(t), s \o d = t \o e
  PROVE  s = t /\ d = e
<1>1. d \in Seq(NameChars) /\ e \in Seq(NameChars) /\ "." \notin CoordChars
  BY DEF NameChars, CoordChars, DigitChars
<1> DEFINE x == s \o d
<1>2. Parts(x, s, d)
  BY <1>1, ConcatParts
<1>3. Parts(x, t, e)
  <2>1. Parts(t \o e, t, e)
    BY <1>1, ConcatParts
  <2> QED BY <2>1
<1> HIDE DEF x
<1>4. Len(s) + Len(d) = Len(t) + Len(e) /\ Len(s) \in Nat /\ Len(t) \in Nat /\ Len(d) \in Nat /\ Len(e) \in Nat
  BY <1>2, <1>3 DEF Parts
<1>5. ~(Len(s) > Len(t))
  <2> SUFFICES ASSUME Len(s) > Len(t) PROVE FALSE
    OBVIOUS
  <2> DEFINE i == Len(s) - Len(t)
  <2>1. i \in 1 .. Len(e) /\ Len(t) + i = Len(s) /\ Len(s) \in 1 .. Len(s) /\ Len(s) > 0
    BY <1>4
  <2>2. e[i] = "."
    BY <1>2, <1>3, <2>1 DEF DotEnded, Parts
  <2>3. e[i] \in CoordChars
    BY <2>1
  <2> QED BY <1>1, <2>2, <2>3
<1>6. ~(Len(t) > Len(s))
  <2> SUFFICES ASSUME Len(t) > Len(s) PROVE FALSE
    OBVIOUS
  <2> DEFINE i == Len(t) - Len(s)
  <2>1. i \in 1 .. Len(d) /\ Len(s) + i = Len(t) /\ Len(t) \in 1 .. Len(t) /\ Len(t) > 0
    BY <1>4
  <2>2. d[i] = "."
    BY <1>2, <1>3, <2>1 DEF DotEnded, Parts
  <2>3. d[i] \in CoordChars
    BY <2>1
  <2> QED BY <1>1, <2>2, <2>3
<1>7. Len(s) = Len(t) /\ Len(d) = Len(e)
  BY <1>4, <1>5, <1>6
<1>8. \A i \in 1 .. Len(s) : s[i] = t[i]
  BY <1>2, <1>3, <1>7 DEF Parts
<1>9. \A i \in 1 .. Len(d) : d[i] = e[i]
  BY <1>2, <1>3, <1>7 DEF Parts
<1>10. s = t
  BY <1>7, <1>8, SeqEqual
<1>11. d = e
  BY <1>7, <1>9, SeqEqual
<1> QED BY <1>10, <1>11

\* Positions with the same coordinates' text are the same.
LEMMA CoordsInjective ==
  ASSUME NEW dims, NEW p, NEW q, HasCoords(p, dims), HasCoords(q, dims),
         Coords(p, dims) = Coords(q, dims)
  PROVE  \A n \in 1 .. dims : p[n] = q[n]
<1>1. PICK c : CoordsUpTo(c, p, dims) /\ Coords(p, dims) = c[dims]
  BY CoordsDef
<1>2. PICK g : CoordsUpTo(g, q, dims) /\ Coords(q, dims) = g[dims]
  BY CoordsDef
<1>3. ASSUME NEW n \in 1 .. dims, c[n] = g[n] PROVE c[n - 1] = g[n - 1] /\ p[n] = q[n]
  <2> DEFINE s == c[n - 1]
             t == g[n - 1]
             d == Decimal(p[n])
             e == Decimal(q[n])
  <2>1. /\ s \in Seq(NameChars) /\ s \o d \in Seq(NameChars) /\ "." \in NameChars
    BY <1>1, CoordsLast
  <2>2. /\ t \in Seq(NameChars) /\ t \o e \in Seq(NameChars)
    BY <1>2, CoordsLast
  <2>9. c[n] = (s \o d) \o <<".">> /\ g[n] = (t \o e) \o <<".">>
    <3>1. OneMore(c, p, n) /\ OneMore(g, q, n)
      BY <1>1, <1>2, CoordsLastDef
    <3> QED BY <3>1 DEF OneMore
  <2>3. d \in Seq(CoordChars) /\ e \in Seq(CoordChars)
    BY DecimalFacts DEF HasCoords
  <2>4. DotEnded(s)
    <3>1. CASE n = 1
      BY <1>1, <3>1 DEF CoordsUpTo, DotEnded
    <3>2. CASE n > 1
      <4>1. n - 1 \in 1 .. dims
        BY <3>2 DEF HasCoords
      <4> QED BY <1>1, <4>1, CoordsLastLen
    <3> QED BY <3>1, <3>2
  <2>5. DotEnded(t)
    <3>1. CASE n = 1
      BY <1>2, <3>1 DEF CoordsUpTo, DotEnded
    <3>2. CASE n > 1
      <4>1. n - 1 \in 1 .. dims
        BY <3>2 DEF HasCoords
      <4> QED BY <1>2, <4>1, CoordsLastLen
    <3> QED BY <3>1, <3>2
  <2> HIDE DEF s, t, d, e
  <2>6. s \o d = t \o e
    <3> DEFINE x == s \o d
               y == t \o e
               dot == "."
    <3>1. x \in Seq(NameChars) /\ y \in Seq(NameChars) /\ x \o <<dot>> = y \o <<dot>> /\ dot \in NameChars
      BY <1>3, <2>1, <2>2, <2>9
    <3> HIDE DEF x, y, dot
    <3>2. x = y
      BY <3>1, CharAppendInjective
    <3> QED BY <3>2 DEF x, y
  <2>7. s = t /\ d = e
    BY <2>1, <2>2, <2>3, <2>4, <2>5, <2>6, LastSplit, Zenon
  <2>8. p[n] = q[n]
    BY <2>7, DecimalInjective DEF d, e, HasCoords
  <2> QED BY <2>7, <2>8 DEF s, t
<1> DEFINE S == {k \in 0 .. dims : c[dims - k] = g[dims - k]}
<1>4. 0 \in S
  <2>1. dims - 0 = dims /\ 0 \in 0 .. dims
    BY DEF HasCoords
  <2>2. c[dims] = g[dims]
    BY <1>1, <1>2, Zenon
  <2> QED BY <2>1, <2>2
<1>5. ASSUME NEW k \in 1 .. dims, k - 1 \in S PROVE k \in S
  <2>1. dims - (k - 1) \in 1 .. dims /\ (dims - (k - 1)) - 1 = dims - k
    BY DEF HasCoords
  <2>2. c[dims - (k - 1)] = g[dims - (k - 1)]
    BY <1>5
  <2>3. c[dims - k] = g[dims - k]
    BY <1>3, <2>1, <2>2
  <2> QED BY <2>3
<1> HIDE DEF S
<1>6. \A k \in 0 .. dims : k \in S
  BY <1>4, <1>5, BoundedInduction DEF HasCoords
<1>7. ASSUME NEW n \in 1 .. dims PROVE p[n] = q[n]
  <2>1. dims - n \in S /\ dims - (dims - n) = n
    BY <1>6 DEF HasCoords
  <2>2. c[n] = g[n]
    BY <2>1 DEF S
  <2> QED BY <1>3, <2>2
<1> QED BY <1>7

\* The room for the coordinates in REGION_FILENAME_MAX is enough.
LEMMA CoordsFit ==
  ASSUME NEW dims \in 0 .. DIMS_MAX, NEW p, \A n \in 1 .. dims : p[n] \in Coordinates \cup {0}
  PROVE  Coords(p, dims) \in Seq(NameChars) /\ Len(Coords(p, dims)) <= DIMS_MAX * (COORD_MAX + 1)
<1> DEFINE K == COORD_MAX + 1
<1>1. dims \in Nat /\ COORD_MAX \in Nat /\ DIMS_MAX \in Nat /\ K \in Nat
  BY NamesAssumption
<1>2. Coordinates \subseteq Int
  BY NamesAssumption
<1>3. \A n \in 1 .. dims : p[n] \in Int /\ Len(Decimal(p[n])) <= COORD_MAX /\ Decimal(p[n]) \in Seq(CoordChars)
  <2> SUFFICES ASSUME NEW n \in 1 .. dims
               PROVE  p[n] \in Int /\ Len(Decimal(p[n])) <= COORD_MAX /\ Decimal(p[n]) \in Seq(CoordChars)
    OBVIOUS
  <2>1. p[n] \in Coordinates \cup {0}
    OBVIOUS
  <2>2. p[n] \in Int
    <3>1. CASE p[n] \in Coordinates
      BY <1>2, <3>1
    <3>2. CASE p[n] = 0
      BY <3>2
    <3> QED BY <2>1, <3>1, <3>2
  <2>3. Decimal(p[n]) \in Seq(CoordChars)
    BY <2>2, DecimalFacts
  <2> QED BY <2>1, <2>2, <2>3, CoordAssumption
<1>4. PICK c : CoordsUpTo(c, p, dims) /\ Coords(p, dims) = c[dims]
  BY <1>1, <1>3, CoordsDef DEF HasCoords
<1> DEFINE S == {n \in 0 .. dims : Len(c[n]) <= n * K}
<1>5. 0 \in S
  BY <1>1, <1>4 DEF CoordsUpTo
<1>6. ASSUME NEW n \in 1 .. dims, n - 1 \in S PROVE n \in S
  <2> DEFINE a == Len(c[n - 1])
             b == Len(Decimal(p[n]))
  <2>1. Len(c[n]) = a + b + 1 /\ c[n - 1] \in Seq(NameChars)
    <3>1. HasCoords(p, dims)
      BY <1>1, <1>3 DEF HasCoords
    <3>2. c[n - 1] \in Seq(NameChars)
      BY <1>4, <3>1, CoordsLast
    <3> QED BY <1>4, <3>1, <3>2, CoordsLastLen
  <2>2. a \in Nat /\ b \in Nat /\ a <= (n - 1) * K /\ b <= COORD_MAX
    BY <1>3, <1>6, <2>1
  <2>3. (n - 1) * K + K = n * K
    BY <1>1
  <2> HIDE DEF a, b
  <2>4. a + b + 1 <= n * K
    BY <1>1, <2>2, <2>3
  <2> QED BY <2>1, <2>4
<1>7. dims \in S
  <2> HIDE DEF S
  <2>1. \A n \in 0 .. dims : n \in S
    BY <1>1, <1>5, <1>6, BoundedInduction
  <2> QED BY <1>1, <2>1
<1>8. dims * K <= DIMS_MAX * K
  BY <1>1
<1>9. c[dims] \in Seq(NameChars) /\ Len(c[dims]) \in Nat
  <2>1. c[dims] \in Seq(NameChars)
    BY <1>1, <1>4 DEF CoordsUpTo
  <2> QED BY <2>1
<1>10. Len(c[dims]) <= dims * K
  BY <1>7
<1> HIDE DEF S
<1>11. Len(c[dims]) <= DIMS_MAX * K
  <2> DEFINE l == Len(c[dims])
             x == dims * K
             y == DIMS_MAX * K
  <2>1. l \in Nat /\ x \in Nat /\ y \in Nat /\ l <= x /\ x <= y
    BY <1>1, <1>8, <1>9, <1>10
  <2> HIDE DEF l, x, y
  <2>2. l <= y
    BY <2>1
  <2> QED BY <2>2 DEF l, y
<1> QED BY <1>4, <1>9, <1>11

--------------------------------------------------------------------------------
(* Names: what read_opts takes and filename_make writes. *)

\* The characters of all texts; that "r" is in STRING is not known to the provers.
TextChars == STRING \cup {"r", "m"} \cup NameChars

LEMMA StrCopyLen ==
  ASSUME NEW C, NEW text \in Seq(C), NEW max \in Nat, NEW delim
  PROVE  str_copy(text, max, delim) \in Seq(C) /\ Len(str_copy(text, max, delim)) \in 0 .. max
<1> DEFINE stops == {i \in 1 .. Len(text) : text[i] = delim \/ i > max} \cup {Len(text) + 1}
           m == CHOOSE i \in stops : \A j \in stops : i <= j
<1>1. Len(text) \in Nat
  OBVIOUS
<1>2. stops \subseteq Nat /\ stops # {} /\ stops \subseteq 1 .. Len(text) + 1
  BY <1>1
<1>3. Len(text) + 1 \in stops /\ (Len(text) > max => max + 1 \in stops)
  BY <1>1
<1>4. str_copy(text, max, delim) = SubSeq(text, 1, m - 1)
  BY DEF str_copy
<1> HIDE DEF stops
<1>5. \E i \in stops : \A j \in stops : i <= j
  BY <1>2, MinNat
<1>6. m \in stops /\ \A j \in stops : m <= j
  BY <1>5
<1> HIDE DEF m
<1>7. m \in 1 .. Len(text) + 1 /\ m - 1 <= max
  <2>1. CASE Len(text) > max
    <3>1. m <= max + 1 /\ m \in 1 .. Len(text) + 1
      BY <1>2, <1>3, <1>6, <2>1
    <3> QED BY <1>1, <3>1
  <2>2. CASE ~(Len(text) > max)
    <3>1. m \in 1 .. Len(text) + 1
      BY <1>2, <1>6
    <3> QED BY <1>1, <2>2, <3>1
  <2> QED BY <2>1, <2>2
<1>8. SubSeq(text, 1, m - 1) \in Seq(C) /\ Len(SubSeq(text, 1, m - 1)) = m - 1
  <2>1. m - 1 \in 0 .. Len(text)
    BY <1>1, <1>7
  <2> QED BY <1>1, <2>1
<1> QED BY <1>1, <1>4, <1>7, <1>8

\* What the names depend on.
OptionsRead(o) ==
  /\ o.dims \in 0 .. DIMS_MAX
  /\ o.prefix \in Seq(TextChars)
  /\ o.region_ext \in Seq(TextChars)

LEMMA ReachedValid ==
  ASSUME NEW src, NEW field, Reached(src, field)
  PROVE  Valid(src, field)
<1>1. PICK n \in DOMAIN fields : fields[n] = field /\ \A i \in 1 .. n : Valid(src, fields[i])
  BY DEF Reached
<1>2. n \in 1 .. n
  BY <1>1 DEF fields
<1> QED BY <1>1, <1>2

LEMMA ReadOptsType ==
  ASSUME NEW src \in Options
  PROVE  OptionsRead(read_opts(src).dst)
<1> DEFINE dst == read_opts(src).dst
<1>1. /\ dst.dims = IF Reached(src, "dims") THEN Taken(src).dims ELSE Zeroed.dims
      /\ dst.prefix = IF Reached(src, "prefix") THEN Taken(src).prefix ELSE Zeroed.prefix
      /\ dst.region_ext = IF Reached(src, "region_ext") THEN Taken(src).region_ext ELSE Zeroed.region_ext
  <2> DEFINE D == DOMAIN Zeroed
             t == Taken(src)
             z == Zeroed
  <2>1. "dims" \in D /\ "prefix" \in D /\ "region_ext" \in D
    BY DEF Zeroed
  <2>2. dst = [field \in D |-> IF Reached(src, field) THEN t[field] ELSE z[field]]
    BY DEF read_opts
  <2> HIDE DEF D, t, z, dst
  <2>3. \A field \in D : dst[field] = IF Reached(src, field) THEN t[field] ELSE z[field]
    BY <2>2
  <2> QED BY <2>1, <2>3 DEF t, z, dst
<1> HIDE DEF dst
<1>2. Zeroed.dims = 0 /\ Zeroed.prefix = <<>> /\ Zeroed.region_ext = <<>>
  BY DEF Zeroed
<1>3. /\ src.dims \in Nat /\ src.prefix \in Seq(TextChars) /\ src.region_ext \in Seq(TextChars)
  BY NamesAssumption DEF Options, TextChars
<1>4. /\ Taken(src).dims = IF src.dims = 0 THEN 2 ELSE src.dims
      /\ Taken(src).prefix = IF src.prefix = <<>> THEN <<"r">> ELSE src.prefix
      /\ Taken(src).region_ext = IF src.region_ext = <<>> THEN <<"m">> ELSE src.region_ext
  BY DEF Taken, Options
<1>5. <<>> \in Seq(TextChars) /\ <<"r">> \in Seq(TextChars) /\ <<"m">> \in Seq(TextChars)
  BY DEF TextChars
<1>6. Reached(src, "dims") => src.dims <= DIMS_MAX
  BY ReachedValid DEF Valid
<1>7. dst.dims \in 0 .. DIMS_MAX
  BY <1>1, <1>2, <1>3, <1>4, <1>6, NamesAssumption
<1>8. dst.prefix \in Seq(TextChars)
  BY <1>1, <1>2, <1>3, <1>4, <1>5
<1>9. dst.region_ext \in Seq(TextChars)
  BY <1>1, <1>2, <1>3, <1>4, <1>5
<1>10. OptionsRead(dst)
  BY <1>7, <1>8, <1>9 DEF OptionsRead
<1> QED BY <1>10 DEF dst

NamesInv ==
  /\ asked \in Options
  /\ pos \in [1 .. DIMS_MAX -> Coordinates \cup {0}]
  /\ Opened => OptionsRead(opts)

LEMMA NamesInductive == NamesSpec => []NamesInv
<1>1. NamesInit => NamesInv
  <2> SUFFICES ASSUME NamesInit PROVE NamesInv
    OBVIOUS
  <2>1. asked \in Options /\ opts = CLOSED /\ pos = [i \in 1 .. DIMS_MAX |-> 0]
    BY DEF NamesInit
  <2>2. [i \in 1 .. DIMS_MAX |-> 0] \in [1 .. DIMS_MAX -> Coordinates \cup {0}]
    OBVIOUS
  <2> QED BY <2>1, <2>2 DEF NamesInv, Opened
<1>2. NamesInv /\ [NamesNext]_namesVars => NamesInv'
  <2> SUFFICES ASSUME NamesInv, [NamesNext]_namesVars PROVE NamesInv'
    OBVIOUS
  <2>1. CASE clod_region_open
    <3>1. asked \in Options /\ OptionsRead(read_opts(asked).dst)
      BY ReadOptsType DEF NamesInv
    <3> QED BY <2>1, <3>1 DEF clod_region_open, NamesInv, Opened
  <2>2. CASE region_file_open
    <3>1. pos' \in [1 .. DIMS_MAX -> Coordinates] /\ opts' = opts /\ asked' = asked
      BY <2>2 DEF region_file_open, Positions
    <3>2. pos' \in [1 .. DIMS_MAX -> Coordinates \cup {0}]
      BY <3>1
    <3> QED BY <3>1, <3>2 DEF NamesInv, Opened
  <2>3. CASE UNCHANGED namesVars
    BY <2>3 DEF namesVars, NamesInv, Opened
  <2> QED BY <2>1, <2>2, <2>3 DEF NamesNext
<1> QED BY <1>1, <1>2, PTL DEF NamesSpec

\* A name is a prefix with its dot, the coordinates and an extension.
LEMMA NameParts ==
  ASSUME NEW o, OptionsRead(o), NEW p, \A n \in 1 .. o.dims : p[n] \in Coordinates \cup {0}
  PROVE  LET C == TextChars
             a == str_copy(o.prefix, PREFIX_MAX, ".") \o <<".">>
             b == Coords(p, o.dims)
             e == str_copy(o.region_ext, EXT_MAX, "")
         IN  /\ filename_make(o, p) = (a \o b) \o e
             /\ a \in Seq(C) /\ b \in Seq(C) /\ e \in Seq(C)
             /\ Len(a) <= PREFIX_MAX + 1
             /\ Len(b) <= DIMS_MAX * (COORD_MAX + 1)
             /\ Len(e) <= EXT_MAX
<1> DEFINE C == TextChars
           x == str_copy(o.prefix, PREFIX_MAX, ".")
           a == x \o <<".">>
           b == Coords(p, o.dims)
           e == str_copy(o.region_ext, EXT_MAX, "")
<1>1. PREFIX_MAX \in Nat /\ EXT_MAX \in Nat
  BY NamesAssumption
<1>2. x \in Seq(TextChars) /\ Len(x) \in 0 .. PREFIX_MAX
  BY <1>1, StrCopyLen DEF OptionsRead
<1>3. e \in Seq(TextChars) /\ Len(e) \in 0 .. EXT_MAX
  BY <1>1, StrCopyLen DEF OptionsRead
<1>4. b \in Seq(NameChars) /\ Len(b) <= DIMS_MAX * (COORD_MAX + 1)
  BY CoordsFit DEF OptionsRead
<1>5. filename_make(o, p) = (a \o b) \o e
  BY DEF filename_make
<1> HIDE DEF x, b, e
<1>6. x \in Seq(C) /\ e \in Seq(C) /\ b \in Seq(C)
  BY <1>2, <1>3, <1>4 DEF TextChars
<1>7. "." \in C
  BY DEF TextChars, NameChars
<1> HIDE DEF C
<1>8. a \in Seq(C) /\ Len(a) = Len(x) + 1
  BY <1>6, <1>7
<1>9. Len(a) <= PREFIX_MAX + 1 /\ Len(e) <= EXT_MAX
  BY <1>1, <1>2, <1>3, <1>8
<1> QED BY <1>4, <1>5, <1>6, <1>8, <1>9 DEF x, b, e, C

\* What is between the same texts is the same.
LEMMA Cancel ==
  ASSUME NEW C, NEW a \in Seq(C), NEW s \in Seq(C), NEW t \in Seq(C), NEW e \in Seq(C),
         (a \o s) \o e = (a \o t) \o e
  PROVE  s = t
<1> DEFINE u == a \o s
           v == a \o t
           x == u \o e
<1>1. u \in Seq(C) /\ v \in Seq(C)
  OBVIOUS
<1>2. Parts(u, a, s) /\ Parts(v, a, t)
  BY ConcatParts
<1> HIDE DEF u, v
<1>3. Parts(x, u, e)
  BY <1>1, ConcatParts
<1>4. Parts(x, v, e)
  <2>1. Parts(v \o e, v, e)
    BY <1>1, ConcatParts
  <2> QED BY <2>1 DEF u, v
<1> HIDE DEF x
<1>5. Len(u) \in Nat /\ Len(v) \in Nat /\ Len(a) \in Nat /\ Len(s) \in Nat /\ Len(t) \in Nat /\ Len(e) \in Nat
  BY <1>1
<1>6. Len(u) = Len(v) /\ Len(s) = Len(t)
  <2>1. Len(x) = Len(u) + Len(e) /\ Len(x) = Len(v) + Len(e)
    BY <1>3, <1>4 DEF Parts
  <2>2. Len(u) = Len(a) + Len(s) /\ Len(v) = Len(a) + Len(t)
    BY <1>2 DEF Parts
  <2> DEFINE lu == Len(u)
             lv == Len(v)
             la == Len(a)
             ls == Len(s)
             lt == Len(t)
             le == Len(e)
  <2>3. /\ lu \in Nat /\ lv \in Nat /\ la \in Nat /\ ls \in Nat /\ lt \in Nat /\ le \in Nat
        /\ lu + le = lv + le /\ lu = la + ls /\ lv = la + lt
    BY <1>5, <2>1, <2>2
  <2> HIDE DEF lu, lv, la, ls, lt, le
  <2>4. lu = lv /\ ls = lt
    BY <2>3
  <2> QED BY <2>4 DEF lu, lv, ls, lt
<1>7. \A i \in 1 .. Len(u) : u[i] = v[i]
  BY <1>3, <1>4, <1>6 DEF Parts
<1>8. ASSUME NEW i \in 1 .. Len(s) PROVE s[i] = t[i]
  <2>1. Len(a) + i \in 1 .. Len(u) /\ i \in 1 .. Len(t)
    BY <1>2, <1>5, <1>6 DEF Parts
  <2>2. u[Len(a) + i] = s[i] /\ v[Len(a) + i] = t[i]
    BY <1>2, <2>1 DEF Parts
  <2> QED BY <1>7, <2>1, <2>2
<1> QED BY <1>6, <1>8, SeqEqual

\* The buffers for file names are long enough for every position and all
\* options, half-read ones included: the assertions of filename_make hold.
THEOREM NameLengthCorrect == NamesSpec => []NameFits
<1>1. NamesInv => NameFits
  <2> SUFFICES ASSUME NamesInv, Opened PROVE opts.dims <= DIMS_MAX /\ Len(filename_make(opts, pos)) <= FILENAME_MAX
    BY DEF NameFits
  <2> DEFINE C == TextChars
             a == str_copy(opts.prefix, PREFIX_MAX, ".") \o <<".">>
             b == Coords(pos, opts.dims)
             e == str_copy(opts.region_ext, EXT_MAX, "")
             k == DIMS_MAX * (COORD_MAX + 1)
  <2>1. OptionsRead(opts) /\ opts.dims \in 0 .. DIMS_MAX /\ {DIMS_MAX, COORD_MAX, PREFIX_MAX, EXT_MAX} \subseteq Nat
    BY NamesAssumption DEF NamesInv, OptionsRead
  <2>2. \A n \in 1 .. opts.dims : pos[n] \in Coordinates \cup {0}
    <3>1. \A n \in 1 .. opts.dims : n \in 1 .. DIMS_MAX
      BY <2>1
    <3> QED BY <3>1 DEF NamesInv
  <2>3. /\ filename_make(opts, pos) = (a \o b) \o e
        /\ a \in Seq(C) /\ b \in Seq(C) /\ e \in Seq(C)
        /\ Len(a) <= PREFIX_MAX + 1 /\ Len(b) <= k /\ Len(e) <= EXT_MAX
    BY <2>1, <2>2, NameParts
  <2>4. k \in Nat
    BY <2>1
  <2> HIDE DEF a, b, e, C, k
  <2>5. Len((a \o b) \o e) = Len(a) + Len(b) + Len(e) /\ Len(a) \in Nat /\ Len(b) \in Nat /\ Len(e) \in Nat
    BY <2>3
  <2>6. Len(a) + Len(b) + Len(e) <= PREFIX_MAX + 1 + k + EXT_MAX
    BY <2>1, <2>3, <2>4, <2>5
  <2>7. FILENAME_MAX = PREFIX_MAX + 1 + k + EXT_MAX
    BY DEF FILENAME_MAX, k
  <2> QED BY <2>1, <2>3, <2>5, <2>6, <2>7
<1> QED BY <1>1, NamesInductive, PTL

\* Two positions that differ in a coordinate have different file names, for
\* all coordinates, negative ones included (filename_make).
THEOREM NamesCorrect == NamesSpec => []NamesDistinct
<1>1. NamesInv => NamesDistinct
  <2> SUFFICES ASSUME NamesInv, Complete, NEW other \in Positions, filename_make(opts, other) = filename_make(opts, pos)
               PROVE  \A i \in 1 .. opts.dims : pos[i] = other[i]
    BY DEF NamesDistinct
  <2> DEFINE C == TextChars
             a == str_copy(opts.prefix, PREFIX_MAX, ".") \o <<".">>
             b == Coords(pos, opts.dims)
             c == Coords(other, opts.dims)
             e == str_copy(opts.region_ext, EXT_MAX, "")
  <2>1. OptionsRead(opts) /\ opts.dims \in 0 .. DIMS_MAX /\ Coordinates \subseteq Int /\ DIMS_MAX \in Nat
    BY NamesAssumption DEF NamesInv, OptionsRead, Complete
  <2>2. \A n \in 1 .. opts.dims : pos[n] \in Coordinates \cup {0} /\ other[n] \in Coordinates \cup {0}
    <3>1. \A n \in 1 .. opts.dims : n \in 1 .. DIMS_MAX
      BY <2>1
    <3> QED BY <3>1 DEF NamesInv, Positions
  <2>3. filename_make(opts, pos) = (a \o b) \o e /\ a \in Seq(C) /\ b \in Seq(C) /\ e \in Seq(C)
    BY <2>1, <2>2, NameParts
  <2>4. filename_make(opts, other) = (a \o c) \o e /\ c \in Seq(C)
    BY <2>1, <2>2, NameParts
  <2>5. b = c
    <3> HIDE DEF a, b, c, e, C
    <3>1. (a \o b) \o e = (a \o c) \o e
      BY <2>3, <2>4
    <3> QED BY <2>3, <2>4, <3>1, Cancel
  <2>6. HasCoords(pos, opts.dims) /\ HasCoords(other, opts.dims)
    <3>1. \A n \in 1 .. opts.dims : pos[n] \in Int /\ other[n] \in Int
      <4>1. \A x \in Coordinates \cup {0} : x \in Int
        BY <2>1
      <4> QED BY <2>2, <4>1
    <3> QED BY <2>1, <3>1 DEF HasCoords
  <2> QED BY <2>5, <2>6, CoordsInjective
<1> QED BY <1>1, NamesInductive, PTL

--------------------------------------------------------------------------------
(* Groups: powers of two and division. *)

LEMMA PowDef ==
  /\ GroupBits \in Nat
  /\ pow2 \in [0 .. GroupBits -> Nat \ {0}]
  /\ pow2[0] = 1
  /\ \A n \in 1 .. GroupBits : pow2[n] = 2 * pow2[n - 1]
<1> DEFINE V == Nat \ {0}
           G == [x \in V \X (1 .. GroupBits) |-> 2 * x[1]]
           P(g) == g = [n \in 0 .. GroupBits |-> IF n = 0 THEN 1 ELSE 2 * g[n - 1]]
<1>1. GroupBits \in Nat
  BY NamesAssumption
<1>2. G \in [V \X (1 .. GroupBits) -> V] /\ 1 \in V
  OBVIOUS
<1>3. \A v \in V, n \in 1 .. GroupBits : G[<<v, n>>] = 2 * v
  OBVIOUS
<1> HIDE DEF V, G
<1>4. PICK f : ComputedFrom(f, V, 1, GroupBits, G)
  BY <1>1, <1>2, RecursiveFunction
<1>5. f \in [0 .. GroupBits -> V] /\ f[0] = 1 /\ \A n \in 1 .. GroupBits : f[n] = 2 * f[n - 1]
  <2>1. \A n \in 1 .. GroupBits : f[n - 1] \in V
    BY <1>1, <1>4 DEF ComputedFrom
  <2> QED BY <1>3, <1>4, <2>1 DEF ComputedFrom
<1>6. P(f)
  <2>1. f = [n \in 0 .. GroupBits |-> f[n]]
    BY <1>5
  <2> QED BY <1>5, <2>1
<1>7. pow2 = CHOOSE g : P(g)
  BY DEF pow2
<1>8. P(pow2)
  <2> HIDE DEF P
  <2>1. P(CHOOSE g : P(g))
    BY <1>6, Zenon
  <2> QED BY <1>7, <2>1
<1>9. \A n \in 0 .. GroupBits : pow2[n] = IF n = 0 THEN 1 ELSE 2 * pow2[n - 1]
  <2> HIDE DEF pow2
  <2> QED BY <1>8
<1>10. pow2 = [n \in 0 .. GroupBits |-> pow2[n]]
  BY <1>8
<1>11. pow2[0] = 1 /\ \A n \in 1 .. GroupBits : pow2[n] = 2 * pow2[n - 1]
  <2>1. 0 \in 0 .. GroupBits /\ \A n \in 1 .. GroupBits : n \in 0 .. GroupBits /\ n # 0
    BY <1>1
  <2> QED BY <1>9, <2>1
<1> DEFINE S == {n \in 0 .. GroupBits : pow2[n] \in Nat /\ pow2[n] # 0}
<1>12. 0 \in S
  BY <1>1, <1>11
<1>13. \A n \in 1 .. GroupBits : n - 1 \in S => n \in S
  BY <1>1, <1>11
<1> HIDE DEF S
<1>14. \A n \in 0 .. GroupBits : n \in S
  BY <1>1, <1>12, <1>13, BoundedInduction
<1>15. \A n \in 0 .. GroupBits : pow2[n] \in Nat \ {0}
  BY <1>14 DEF S
<1> QED BY <1>1, <1>10, <1>11, <1>15

LEMMA PowSum ==
  ASSUME NEW a \in Nat, NEW b \in Nat, a + b <= GroupBits
  PROVE  pow2[a + b] = pow2[a] * pow2[b]
<1> DEFINE S == {n \in 0 .. b : pow2[a + n] = pow2[a] * pow2[n]}
<1>1. GroupBits \in Nat /\ pow2[a] \in Nat /\ pow2[0] = 1 /\ a + 0 = a
  <2>1. GroupBits \in Nat
    BY PowDef
  <2>2. a \in 0 .. GroupBits
    BY <2>1
  <2> QED BY <2>1, <2>2, PowDef
<1>2. 0 \in S
  BY <1>1
<1>3. ASSUME NEW n \in 1 .. b, n - 1 \in S PROVE n \in S
  <2>1. n \in 1 .. GroupBits /\ a + n \in 1 .. GroupBits /\ n - 1 \in 0 .. GroupBits /\ a + (n - 1) = (a + n) - 1
    BY <1>1
  <2>2. pow2[n] = 2 * pow2[n - 1] /\ pow2[a + n] = 2 * pow2[(a + n) - 1] /\ pow2[n - 1] \in Nat
    BY <2>1, PowDef
  <2>3. pow2[a + (n - 1)] = pow2[a] * pow2[n - 1]
    BY <1>3
  <2> DEFINE x == pow2[a]
             y == pow2[n - 1]
  <2>4. pow2[a + n] = 2 * (x * y) /\ pow2[n] = 2 * y /\ x \in Nat /\ y \in Nat
    BY <1>1, <2>1, <2>2, <2>3
  <2> HIDE DEF x, y
  <2>5. 2 * (x * y) = x * (2 * y)
    BY <2>4
  <2>6. pow2[a + n] = x * pow2[n]
    BY <2>4, <2>5
  <2> QED BY <2>6 DEF x
<1> HIDE DEF S
<1>4. \A n \in 0 .. b : n \in S
  BY <1>2, <1>3, BoundedInduction
<1> QED BY <1>4 DEF S

\* Division with remainder, of numbers of either sign.
LEMMA DivMod ==
  ASSUME NEW x \in Int, NEW n \in Nat, n # 0
  PROVE  x % n \in 0 .. n - 1 /\ x \div n \in Int /\ x = n * (x \div n) + (x % n)
OBVIOUS

\* A number is known by the two parts it is divided into.
LEMMA DivModInjective ==
  ASSUME NEW x \in Int, NEW y \in Int, NEW n \in Nat, n # 0, x % n = y % n, x \div n = y \div n
  PROVE  x = y
<1>1. x = n * (x \div n) + (x % n) /\ y = n * (y \div n) + (y % n)
  BY DivMod
<1> QED BY <1>1

\* So are two numbers that are packed into one.
LEMMA PackInjective ==
  ASSUME NEW n \in Nat, n # 0, NEW r \in 0 .. n - 1, NEW s \in 0 .. n - 1, NEW a \in Nat, NEW b \in Nat,
         r + a * n = s + b * n
  PROVE  r = s /\ a = b
<1>1. r - s = n * (b - a)
  OBVIOUS
<1>2. CASE a = b
  BY <1>1, <1>2
<1>3. CASE b > a
  <2>1. n * (b - a) >= n
    BY <1>3, ProductBound
  <2> QED BY <1>1, <2>1
<1>4. CASE a > b
  <2>1. n * (a - b) >= n
    BY <1>4, ProductBound
  <2>2. s - r = n * (a - b)
    OBVIOUS
  <2> QED BY <2>1, <2>2
<1> QED BY <1>2, <1>3, <1>4

LEMMA PackBound ==
  ASSUME NEW n \in Nat, NEW m \in Nat, NEW r \in 0 .. n - 1, NEW a \in 0 .. m - 1
  PROVE  r + a * n \in 0 .. n * m - 1
<1>1. a * n + n <= n * m
  <2>1. n * (m - (a + 1)) >= 0
    OBVIOUS
  <2>2. n * (m - (a + 1)) = n * m - (a * n + n)
    OBVIOUS
  <2>3. n * m \in Nat /\ a * n \in Nat
    OBVIOUS
  <2> QED BY <2>1, <2>2, <2>3
<1>2. a * n \in Nat /\ n * m \in Nat
  OBVIOUS
<1> QED BY <1>1, <1>2

\* What is left of the bits is enough, and the last coordinate takes it all.
LEMMA TakeBound ==
  ASSUME NEW rest \in Nat, NEW m \in Nat
  PROVE  /\ (rest + m) \div (m + 1) \in 0 .. rest
         /\ m = 0 => (rest + m) \div (m + 1) = rest
<1> DEFINE k == m + 1
           q == (rest + m) \div k
<1>1. k \in Nat /\ k > 0 /\ rest + m \in Nat
  OBVIOUS
<1>2. q \in Nat /\ rest + m = k * q + ((rest + m) % k) /\ (rest + m) % k \in 0 .. k - 1
  BY <1>1, ModRange
<1>3. k * q <= rest + m
  <2> DEFINE r == (rest + m) % k
             z == k * q
  <2>1. r \in Nat /\ z \in Int /\ rest + m = z + r
    BY <1>1, <1>2
  <2> HIDE DEF r, z
  <2>2. z <= rest + m
    BY <2>1
  <2> QED BY <2>2 DEF z
<1> HIDE DEF q
<1>4. q <= rest
  <2> SUFFICES ASSUME q >= rest + 1 PROVE FALSE
    BY <1>2
  <2>1. k * (q - (rest + 1)) >= 0
    BY <1>1, <1>2
  <2>2. k * (q - (rest + 1)) = k * q - (m * rest + m + rest + 1)
    BY <1>1, <1>2
  <2>3. m * rest \in Nat /\ k * q \in Int
    BY <1>1, <1>2
  <2> QED BY <1>3, <2>1, <2>2, <2>3
<1>5. m = 0 => q = rest
  <2> SUFFICES ASSUME m = 0 PROVE q = rest
    OBVIOUS
  <2>1. k = 1 /\ (rest + m) % k = 0
    BY <1>2
  <2> QED BY <1>2, <2>1
<1> QED BY <1>2, <1>4, <1>5 DEF q

--------------------------------------------------------------------------------
(* Groups: the loop of vec_group. *)

Groups(dims) == [res : Nat, res_bits : 0 .. GroupBits, vec : [1 .. dims -> Int]]

\* The bits that a turn takes.
Take(g, dims, i) == take_bits(g.res_bits, dims, i)

LEMMA TakeType ==
  ASSUME NEW dims \in Nat, NEW i \in 1 .. dims, NEW g \in Groups(dims)
  PROVE  /\ Take(g, dims, i) \in 0 .. GroupBits - g.res_bits
         /\ i = dims => Take(g, dims, i) = GroupBits - g.res_bits
<1> DEFINE rest == GroupBits - g.res_bits
           m == dims - i
<1>1. rest \in Nat /\ m \in Nat /\ GroupBits \in Nat /\ g.res_bits \in 0 .. GroupBits
  BY PowDef DEF Groups
<1>2. Take(g, dims, i) = (rest + m) \div (m + 1)
  <2>1. GroupBits - g.res_bits + dims - i = rest + m /\ dims - i + 1 = m + 1
    BY <1>1
  <2> QED BY <2>1 DEF Take, take_bits
<1>3. i = dims <=> m = 0
  OBVIOUS
<1> HIDE DEF rest, m
<1>4. /\ (rest + m) \div (m + 1) \in 0 .. rest
      /\ m = 0 => (rest + m) \div (m + 1) = rest
  BY <1>1, TakeBound
<1> QED BY <1>2, <1>3, <1>4 DEF rest

\* One turn: what it makes of the index, of the bits and of the coordinates.
LEMMA TurnType ==
  ASSUME GroupBits < WordBits, NEW dims, NEW p, HasCoords(p, dims), NEW i \in 1 .. dims, NEW g \in Groups(dims)
  PROVE  LET t == Take(g, dims, i)
             h == group_turn(g, p, dims, i)
         IN  /\ h \in Groups(dims)
             /\ t \in 0 .. GroupBits /\ g.res_bits \in 0 .. GroupBits /\ t + g.res_bits <= GroupBits
             /\ pow2[t] \in Nat \ {0} /\ pow2[g.res_bits] \in Nat \ {0}
             /\ p[i] % pow2[t] \in 0 .. pow2[t] - 1
             /\ h.res = g.res + (p[i] % pow2[t]) * pow2[g.res_bits]
             /\ h.res_bits = g.res_bits + t
             /\ h.vec[i] = p[i] \div pow2[t]
             /\ \A j \in 1 .. dims : j # i => h.vec[j] = g.vec[j]
<1> DEFINE t == Take(g, dims, i)
           h == group_turn(g, p, dims, i)
           T == pow2[t]
           B == pow2[g.res_bits]
           r == g.res + (p[i] % T) * B
           b == g.res_bits + t
           v == [g.vec EXCEPT ![i] = ShiftRight(p[i], t)]
<1>1. dims \in Nat /\ p[i] \in Int
  BY DEF HasCoords
<1>2. g.res \in Nat /\ g.res_bits \in 0 .. GroupBits /\ g.vec \in [1 .. dims -> Int] /\ GroupBits \in Nat
  BY PowDef DEF Groups
<1>3. t \in 0 .. GroupBits - g.res_bits
  BY <1>1, TakeType
<1>4. h = [res |-> r, res_bits |-> b, vec |-> v]
  BY DEF group_turn, Take
<1> HIDE DEF t, h
<1>5. t \in 0 .. GroupBits /\ b \in 0 .. GroupBits /\ t + g.res_bits <= GroupBits
  BY <1>2, <1>3
<1>6. T \in Nat \ {0} /\ B \in Nat \ {0} /\ ShiftRight(p[i], t) = p[i] \div T
  BY <1>2, <1>5, PowDef DEF ShiftRight, WordBits
<1> HIDE DEF T, B
<1>7. p[i] % T \in 0 .. T - 1 /\ p[i] \div T \in Int
  BY <1>1, <1>6, DivMod
<1>8. r \in Nat
  <2> DEFINE l == p[i] % T
  <2>1. l \in Nat
    BY <1>6, <1>7
  <2> HIDE DEF l
  <2>2. l * B \in Nat
    BY <1>6, <2>1
  <2>3. g.res + l * B \in Nat
    BY <1>2, <2>2
  <2> QED BY <2>3 DEF l
<1>9. v \in [1 .. dims -> Int] /\ v[i] = p[i] \div T /\ \A j \in 1 .. dims : j # i => v[j] = g.vec[j]
  <2> DEFINE x == p[i] \div T
  <2>1. x \in Int
    BY <1>7
  <2> HIDE DEF x
  <2>2. LET w == [g.vec EXCEPT ![i] = x]
        IN  w \in [1 .. dims -> Int] /\ w[i] = x /\ \A j \in 1 .. dims : j # i => w[j] = g.vec[j]
    BY <1>2, <2>1
  <2>3. v = [g.vec EXCEPT ![i] = x]
    BY <1>6 DEF x
  <2> QED BY <2>2, <2>3 DEF x
<1> HIDE DEF r, b, v
<1>10. h.res = r /\ h.res_bits = b /\ h.vec = v
  BY <1>4
<1>11. h \in Groups(dims)
  BY <1>4, <1>5, <1>8, <1>9 DEF Groups
<1> QED BY <1>2, <1>5, <1>6, <1>7, <1>9, <1>10, <1>11 DEF t, h, T, B, r, b

\* The values of the loop.
GroupUpTo(g, p, dims) ==
  /\ g \in [0 .. dims -> Groups(dims)]
  /\ g[0] = [res |-> 0, res_bits |-> 0, vec |-> [n \in 1 .. dims |-> p[n]]]
  /\ \A i \in 1 .. dims : g[i] = group_turn(g[i - 1], p, dims, i)

\* What the function leaves of the last turn.
Left(v, g) == v.res = g.res /\ v.vec = g.vec

LEMMA GroupDef ==
  ASSUME GroupBits < WordBits, NEW dims, NEW p, HasCoords(p, dims)
  PROVE  \E g : GroupUpTo(g, p, dims) /\ Left(vec_group(p, dims), g[dims])
<1> DEFINE V == Groups(dims)
           start == [res |-> 0, res_bits |-> 0, vec |-> [n \in 1 .. dims |-> p[n]]]
           G == [x \in V \X (1 .. dims) |-> group_turn(x[1], p, dims, x[2])]
           P(g) == g = [i \in 0 .. dims |-> IF i = 0 THEN start ELSE group_turn(g[i - 1], p, dims, i)]
           c == CHOOSE g : P(g)
<1>1. \A v \in V, i \in 1 .. dims : group_turn(v, p, dims, i) \in V
  BY TurnType
<1>2. G \in [V \X (1 .. dims) -> V]
  BY <1>1
<1>3. \A v \in V, i \in 1 .. dims : G[<<v, i>>] = group_turn(v, p, dims, i)
  OBVIOUS
<1>4. start \in V
  <2>1. [n \in 1 .. dims |-> p[n]] \in [1 .. dims -> Int] /\ 0 \in 0 .. GroupBits
    BY PowDef DEF HasCoords
  <2> QED BY <2>1 DEF Groups
<1>5. dims \in Nat
  BY DEF HasCoords
<1> HIDE DEF V, G, start
<1>6. PICK f : ComputedFrom(f, V, start, dims, G)
  BY <1>2, <1>4, <1>5, RecursiveFunction
<1>7. f \in [0 .. dims -> V] /\ f[0] = start /\ \A i \in 1 .. dims : f[i] = group_turn(f[i - 1], p, dims, i)
  <2>1. \A i \in 1 .. dims : f[i - 1] \in V
    BY <1>5, <1>6 DEF ComputedFrom
  <2> QED BY <1>3, <1>6, <2>1 DEF ComputedFrom
<1>8. P(f)
  <2> DEFINE e == [i \in 0 .. dims |-> IF i = 0 THEN start ELSE group_turn(f[i - 1], p, dims, i)]
  <2>1. ASSUME NEW i \in 0 .. dims PROVE f[i] = e[i]
    <3>1. CASE i = 0
      BY <1>7, <3>1
    <3>2. CASE i # 0
      <4>1. i \in 1 .. dims
        BY <1>5, <3>2
      <4>2. f[i] = group_turn(f[i - 1], p, dims, i)
        BY <1>7, <4>1
      <4> QED BY <3>2, <4>2
    <3> QED BY <3>1, <3>2
  <2>2. DOMAIN f = 0 .. dims /\ f = [i \in DOMAIN f |-> f[i]]
    BY <1>7
  <2>3. DOMAIN e = 0 .. dims /\ e = [i \in DOMAIN e |-> e[i]]
    OBVIOUS
  <2> HIDE DEF e
  <2>4. f = e
    BY <2>1, <2>2, <2>3
  <2> QED BY <2>4 DEF e
<1>9. vec_group(p, dims) = [res |-> c[dims].res, vec |-> c[dims].vec]
  BY DEF vec_group, start
<1>10. P(c)
  <2> HIDE DEF P
  <2> QED BY <1>8, Zenon
<1> HIDE DEF c
<1>11. c[0] = start /\ \A i \in 1 .. dims : c[i] = group_turn(c[i - 1], p, dims, i)
  <2>1. \A i \in 0 .. dims : c[i] = IF i = 0 THEN start ELSE group_turn(c[i - 1], p, dims, i)
    BY <1>10
  <2>2. 0 \in 0 .. dims /\ \A i \in 1 .. dims : i \in 0 .. dims /\ i # 0
    BY <1>5
  <2> QED BY <2>1, <2>2
<1>12. c = f
  <2> DEFINE S == {i \in 0 .. dims : c[i] = f[i]}
  <2>1. 0 \in S
    BY <1>5, <1>7, <1>11
  <2>2. ASSUME NEW i \in 1 .. dims, i - 1 \in S PROVE i \in S
    <3>1. i \in 0 .. dims /\ c[i - 1] = f[i - 1]
      BY <1>5, <2>2
    <3>2. c[i] = group_turn(c[i - 1], p, dims, i) /\ f[i] = group_turn(f[i - 1], p, dims, i)
      BY <1>7, <1>11
    <3> QED BY <3>1, <3>2
  <2> HIDE DEF S
  <2>3. \A i \in 0 .. dims : i \in S
    BY <1>5, <2>1, <2>2, BoundedInduction
  <2>4. \A i \in 0 .. dims : c[i] = f[i]
    BY <2>3 DEF S
  <2>5. c = [i \in 0 .. dims |-> c[i]] /\ f = [i \in 0 .. dims |-> f[i]]
    BY <1>7, <1>10
  <2> QED BY <2>4, <2>5
<1>13. GroupUpTo(c, p, dims)
  BY <1>7, <1>11, <1>12 DEF GroupUpTo, V, start
<1>14. Left(vec_group(p, dims), c[dims])
  <2> DEFINE u == c[dims].res
             w == c[dims].vec
  <2>1. vec_group(p, dims) = [res |-> u, vec |-> w]
    BY <1>9
  <2> HIDE DEF u, w
  <2>2. vec_group(p, dims).res = u /\ vec_group(p, dims).vec = w
    BY <2>1
  <2> QED BY <2>2 DEF Left, u, w
<1> QED BY <1>13, <1>14

\* The index stays below the power of the bits that were taken, which are all
\* bits in the end, and the later turns leave a shifted coordinate alone.
LEMMA GroupBounds ==
  ASSUME GroupBits < WordBits, NEW dims, NEW p, HasCoords(p, dims), NEW g, GroupUpTo(g, p, dims)
  PROVE  /\ \A i \in 0 .. dims : g[i] \in Groups(dims) /\ g[i].res \in 0 .. pow2[g[i].res_bits] - 1
         /\ dims > 0 => g[dims].res_bits = GroupBits
         /\ \A j \in 1 .. dims : g[dims].vec[j] = g[j].vec[j]
<1>1. dims \in Nat /\ \A i \in 0 .. dims : g[i] \in Groups(dims)
  BY DEF HasCoords, GroupUpTo
<1> DEFINE S == {i \in 0 .. dims : g[i].res \in 0 .. pow2[g[i].res_bits] - 1}
<1>2. 0 \in S
  <2>1. g[0].res = 0 /\ g[0].res_bits = 0 /\ pow2[0] = 1
    BY PowDef DEF GroupUpTo
  <2> QED BY <1>1, <2>1
<1>3. ASSUME NEW i \in 1 .. dims, i - 1 \in S PROVE i \in S
  <2> DEFINE x == g[i - 1]
             y == g[i]
             t == Take(x, dims, i)
             l == p[i] % pow2[t]
             T == pow2[t]
             B == pow2[x.res_bits]
  <2>1. i - 1 \in 0 .. dims /\ x \in Groups(dims) /\ y = group_turn(x, p, dims, i) /\ x.res \in 0 .. B - 1
    BY <1>1, <1>3 DEF GroupUpTo
  <2> HIDE DEF x, y
  <2>2. /\ t \in 0 .. GroupBits /\ x.res_bits \in 0 .. GroupBits /\ t + x.res_bits <= GroupBits
        /\ T \in Nat \ {0} /\ B \in Nat \ {0} /\ l \in 0 .. T - 1
        /\ y.res = x.res + l * B /\ y.res_bits = x.res_bits + t
    BY <2>1, TurnType
  <2> HIDE DEF l, t, T, B
  <2>3. x.res + l * B \in 0 .. B * T - 1
    BY <2>1, <2>2, PackBound
  <2>4. pow2[x.res_bits + t] = B * T
    <3>1. GroupBits \in Nat
      BY PowDef
    <3>2. x.res_bits \in Nat /\ t \in Nat /\ x.res_bits + t <= GroupBits
      BY <2>2, <3>1
    <3> QED BY <3>2, PowSum DEF B, T
  <2>5. y.res \in 0 .. pow2[y.res_bits] - 1
    BY <2>2, <2>3, <2>4
  <2> QED BY <2>5 DEF y
<1> HIDE DEF S
<1>4. \A i \in 0 .. dims : i \in S
  BY <1>1, <1>2, <1>3, BoundedInduction
<1>5. \A i \in 0 .. dims : g[i].res \in 0 .. pow2[g[i].res_bits] - 1
  BY <1>4 DEF S
<1>6. dims > 0 => g[dims].res_bits = GroupBits
  <2> SUFFICES ASSUME dims > 0 PROVE g[dims].res_bits = GroupBits
    OBVIOUS
  <2> DEFINE x == g[dims - 1]
             y == g[dims]
             t == Take(x, dims, dims)
  <2>1. dims \in 1 .. dims /\ dims - 1 \in 0 .. dims /\ x \in Groups(dims) /\ y = group_turn(x, p, dims, dims)
    BY <1>1 DEF GroupUpTo
  <2> HIDE DEF x, y
  <2>2. y.res_bits = x.res_bits + t
    BY <2>1, TurnType
  <2>3. t = GroupBits - x.res_bits /\ x.res_bits \in 0 .. GroupBits /\ GroupBits \in Nat
    BY <1>1, <2>1, TakeType, PowDef DEF Groups
  <2> HIDE DEF t
  <2>4. y.res_bits = GroupBits
    BY <2>2, <2>3
  <2> QED BY <2>4 DEF y
<1>7. ASSUME NEW j \in 1 .. dims PROVE g[dims].vec[j] = g[j].vec[j]
  <2> DEFINE R == {k \in 0 .. dims - j : g[j + k].vec[j] = g[j].vec[j]}
  <2>1. 0 \in R
    BY <1>1
  <2>2. ASSUME NEW k \in 1 .. dims - j, k - 1 \in R PROVE k \in R
    <3> DEFINE i == j + k
    <3>1. i \in 1 .. dims /\ j + (k - 1) = i - 1 /\ i # j /\ i - 1 \in 0 .. dims
      BY <1>1
    <3>2. g[i - 1].vec[j] = g[j].vec[j]
      BY <2>2, <3>1
    <3> HIDE DEF i
    <3> DEFINE x == g[i - 1]
               y == g[i]
    <3>3. x \in Groups(dims) /\ y = group_turn(x, p, dims, i)
      BY <1>1, <3>1 DEF GroupUpTo
    <3> HIDE DEF x, y
    <3>4. y.vec[j] = x.vec[j]
      BY <3>1, <3>3, TurnType
    <3>5. g[i].vec[j] = g[j].vec[j]
      BY <3>2, <3>4 DEF x, y
    <3> QED BY <3>5 DEF i
  <2> HIDE DEF R
  <2>3. dims - j \in Nat
    BY <1>1
  <2>4. \A k \in 0 .. dims - j : k \in R
    BY <2>1, <2>2, <2>3, BoundedInduction
  <2>5. dims - j \in R /\ j + (dims - j) = dims
    BY <1>1, <2>3, <2>4
  <2> QED BY <2>5 DEF R
<1> QED BY <1>1, <1>5, <1>6, <1>7

\* The index is below 2^GroupBits: without dimensions no bit of it is taken.
LEMMA GroupIndex ==
  ASSUME GroupBits < WordBits, NEW dims, NEW p, HasCoords(p, dims)
  PROVE  vec_group(p, dims).res \in 0 .. pow2[GroupBits] - 1
<1>1. PICK g : GroupUpTo(g, p, dims) /\ Left(vec_group(p, dims), g[dims])
  BY GroupDef
<1>2. dims \in Nat
  BY DEF HasCoords
<1>3. CASE dims = 0
  <2>1. g[dims].res = 0
    BY <1>1, <1>3 DEF GroupUpTo
  <2>2. pow2[GroupBits] \in Nat \ {0}
    BY PowDef
  <2> QED BY <1>1, <2>1, <2>2 DEF Left
<1>4. CASE dims > 0
  <2>1. g[dims].res \in 0 .. pow2[g[dims].res_bits] - 1 /\ g[dims].res_bits = GroupBits
    BY <1>1, <1>2, <1>4, GroupBounds
  <2> QED BY <1>1, <2>1 DEF Left
<1> QED BY <1>2, <1>3, <1>4

\* From the index and the group, the coordinates are known from the last to the first.
LEMMA GroupInjective ==
  ASSUME GroupBits < WordBits, NEW dims, NEW p, NEW q, HasCoords(p, dims), HasCoords(q, dims),
         vec_group(p, dims) = vec_group(q, dims)
  PROVE  \A i \in 1 .. dims : p[i] = q[i]
<1>1. PICK g : GroupUpTo(g, p, dims) /\ Left(vec_group(p, dims), g[dims])
  BY GroupDef
<1>2. PICK h : GroupUpTo(h, q, dims) /\ Left(vec_group(q, dims), h[dims])
  BY GroupDef
<1>3. g[dims].res = h[dims].res /\ g[dims].vec = h[dims].vec
  BY <1>1, <1>2 DEF Left
<1>4. dims \in Nat
  BY DEF HasCoords
<1>5. \A i \in 0 .. dims : g[i] \in Groups(dims) /\ g[i].res \in 0 .. pow2[g[i].res_bits] - 1
  BY <1>1, GroupBounds
<1>6. \A i \in 0 .. dims : h[i] \in Groups(dims) /\ h[i].res \in 0 .. pow2[h[i].res_bits] - 1
  BY <1>2, GroupBounds
<1>7. \A j \in 1 .. dims : g[j].vec[j] = h[j].vec[j]
  <2>1. \A j \in 1 .. dims : g[dims].vec[j] = g[j].vec[j]
    BY <1>1, GroupBounds
  <2>2. \A j \in 1 .. dims : h[dims].vec[j] = h[j].vec[j]
    BY <1>2, GroupBounds
  <2> QED BY <1>3, <2>1, <2>2
\* The bits that are taken do not depend on the position.
<1>8. \A i \in 0 .. dims : g[i].res_bits = h[i].res_bits
  <2> DEFINE S == {i \in 0 .. dims : g[i].res_bits = h[i].res_bits}
  <2>1. 0 \in S
    BY <1>1, <1>2, <1>4 DEF GroupUpTo
  <2>2. ASSUME NEW i \in 1 .. dims, i - 1 \in S PROVE i \in S
    <3> DEFINE x == g[i - 1]
               y == h[i - 1]
    <3>1. i - 1 \in 0 .. dims /\ x \in Groups(dims) /\ y \in Groups(dims) /\ x.res_bits = y.res_bits
      BY <1>4, <1>5, <1>6, <2>2
    <3>2. g[i] = group_turn(x, p, dims, i) /\ h[i] = group_turn(y, q, dims, i)
      BY <1>1, <1>2 DEF GroupUpTo
    <3> HIDE DEF x, y
    <3>3. g[i].res_bits = x.res_bits + Take(x, dims, i)
      BY <3>1, <3>2, TurnType
    <3>4. h[i].res_bits = y.res_bits + Take(y, dims, i)
      BY <3>1, <3>2, TurnType
    <3>5. Take(x, dims, i) = Take(y, dims, i)
      BY <3>1 DEF Take
    <3> QED BY <3>1, <3>3, <3>4, <3>5
  <2> HIDE DEF S
  <2>3. \A i \in 0 .. dims : i \in S
    BY <1>4, <2>1, <2>2, BoundedInduction
  <2> QED BY <2>3 DEF S
<1>9. ASSUME NEW i \in 1 .. dims, g[i].res = h[i].res PROVE g[i - 1].res = h[i - 1].res /\ p[i] = q[i]
  <2> DEFINE x == g[i - 1]
             y == h[i - 1]
             t == Take(x, dims, i)
             T == pow2[t]
             B == pow2[x.res_bits]
             l == p[i] % T
             m == q[i] % T
  <2>1. i - 1 \in 0 .. dims /\ p[i] \in Int /\ q[i] \in Int
    BY <1>4 DEF HasCoords
  <2>2. /\ x \in Groups(dims) /\ y \in Groups(dims) /\ x.res_bits = y.res_bits
        /\ x.res \in 0 .. B - 1 /\ y.res \in 0 .. B - 1
    BY <1>5, <1>6, <1>8, <2>1
  <2>3. g[i] = group_turn(x, p, dims, i) /\ h[i] = group_turn(y, q, dims, i)
    BY <1>1, <1>2 DEF GroupUpTo
  <2>4. Take(y, dims, i) = t
    BY <2>2 DEF Take
  <2> HIDE DEF x, y
  <2>5. /\ T \in Nat \ {0} /\ B \in Nat \ {0} /\ l \in 0 .. T - 1
        /\ g[i].res = x.res + l * B /\ g[i].vec[i] = p[i] \div T
    BY <2>2, <2>3, TurnType
  <2>6. m \in 0 .. T - 1 /\ h[i].res = y.res + m * B /\ h[i].vec[i] = q[i] \div T
    <3>1. /\ q[i] % pow2[Take(y, dims, i)] \in 0 .. pow2[Take(y, dims, i)] - 1
          /\ h[i].res = y.res + (q[i] % pow2[Take(y, dims, i)]) * pow2[y.res_bits]
          /\ h[i].vec[i] = q[i] \div pow2[Take(y, dims, i)]
      BY <2>2, <2>3, TurnType
    <3> QED BY <2>2, <2>4, <3>1
  <2> HIDE DEF t, T, B
  <2>7. p[i] \div T = q[i] \div T
    BY <1>7, <2>5, <2>6
  <2>8. x.res = y.res /\ l = m
    <3> HIDE DEF l, m
    <3>1. x.res + l * B = y.res + m * B
      BY <1>9, <2>5, <2>6
    <3>2. l \in Nat /\ m \in Nat /\ B \in Nat /\ B # 0
      BY <2>5, <2>6
    <3> QED BY <2>2, <3>1, <3>2, PackInjective
  <2>9. p[i] = q[i]
    BY <2>1, <2>5, <2>7, <2>8, DivModInjective
  <2> QED BY <2>8, <2>9 DEF x, y
<1> DEFINE S == {k \in 0 .. dims : g[dims - k].res = h[dims - k].res}
<1>10. 0 \in S
  BY <1>3, <1>4
<1>11. ASSUME NEW k \in 1 .. dims, k - 1 \in S PROVE k \in S
  <2>1. dims - (k - 1) \in 1 .. dims /\ (dims - (k - 1)) - 1 = dims - k
    BY <1>4
  <2>2. g[dims - (k - 1)].res = h[dims - (k - 1)].res
    BY <1>11
  <2>3. g[dims - k].res = h[dims - k].res
    BY <1>9, <2>1, <2>2
  <2> QED BY <2>3
<1> HIDE DEF S
<1>12. \A k \in 0 .. dims : k \in S
  BY <1>4, <1>10, <1>11, BoundedInduction
<1>13. ASSUME NEW i \in 1 .. dims PROVE p[i] = q[i]
  <2>1. dims - i \in S /\ dims - (dims - i) = i
    BY <1>4, <1>12
  <2>2. g[i].res = h[i].res
    BY <2>1 DEF S
  <2> QED BY <1>9, <2>2
<1> QED BY <1>13

\* Whatever the position and whatever number of bits below 64, the index is
\* below 2^GroupBits, and the index and the group it is in say which position it
\* was, negative coordinates included (vec_group).
THEOREM GroupingCorrect == NamesSpec => []GroupingInvertible
<1>1. NamesInv => GroupingInvertible
  <2> SUFFICES ASSUME NamesInv, Complete, GroupBits < WordBits PROVE GroupingInvertible
    BY DEF GroupingInvertible
  <2> DEFINE dims == opts.dims
  <2>1. dims \in 0 .. DIMS_MAX /\ Coordinates \subseteq Int /\ DIMS_MAX \in Nat
    BY NamesAssumption DEF NamesInv, OptionsRead, Complete
  <2>2. ASSUME NEW p, \A n \in 1 .. DIMS_MAX : p[n] \in Coordinates \cup {0} PROVE HasCoords(p, dims)
    <3>1. \A n \in 1 .. dims : n \in 1 .. DIMS_MAX
      BY <2>1
    <3>2. \A x \in Coordinates \cup {0} : x \in Int
      BY <2>1
    <3> HIDE DEF dims
    <3>3. \A n \in 1 .. dims : p[n] \in Int
      BY <2>2, <3>1, <3>2
    <3>4. dims \in Nat
      BY <2>1
    <3> QED BY <3>3, <3>4 DEF HasCoords
  <2>3. HasCoords(pos, dims) /\ \A other \in Positions : HasCoords(other, dims)
    BY <2>2 DEF NamesInv, Positions
  <2> HIDE DEF dims
  <2>4. vec_group(pos, dims).res \in 0 .. pow2[GroupBits] - 1
    BY <2>3, GroupIndex
  <2>5. ASSUME NEW other \in Positions, vec_group(other, dims) = vec_group(pos, dims)
        PROVE  \A i \in 1 .. dims : pos[i] = other[i]
    BY <2>3, <2>5, GroupInjective
  <2> QED BY <2>4, <2>5 DEF GroupingInvertible, dims
<1> QED BY <1>1, NamesInductive, PTL
================================================================================
