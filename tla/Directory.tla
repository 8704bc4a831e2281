------------------------------- MODULE Directory -------------------------------
(***************************************************************************)
(* platform/unix/dir.c and dir_iter.c: the directory of a region storage   *)
(* and iterators over its files.                                           *)
(*                                                                         *)
(* The kernel's side: what the names in the directory are and at which     *)
(* places, which an entry keeps until it is removed or replaced, and the   *)
(* place up to which an open directory has been read.  That belongs to the *)
(* open file description, so the descriptors F_DUPFD makes of it share it. *)
(* readdir reads ahead into the iterator's buffer.                         *)
(***************************************************************************)
EXTENDS Integers, Functions, FiniteSetsExt

CONSTANTS
  Names,      \* names of files
  LastPlace,  \* the number of places for entries in the directory
  Iters,      \* directory iterators
  NONE        \* no iterator

DirPlaces == 1 .. LastPlace

ASSUME DirAssumption == LastPlace \in Nat

VARIABLES
  dirOpen,  \* the directory is open
  offset,   \* how much of the open directory has been read
  entry,    \* what the names are
  place,    \* where they are, 0 for those that are not there
  touched,  \* the names whose entries changed since the directory was opened
  given,    \* the other names that iterators gave out since then, and
  twice,    \* those of them that they gave out again
  iter      \* the open iterators

dirVars == <<dirOpen, offset, entry, place, touched, given, twice, iter>>

\* A link is a symbolic link to a regular file, and the other kinds are not
\* told apart.
Kinds == {"none", "regular", "link", "other"}

\* Every entry has a place of its own.
Placed(kinds, places) ==
  /\ \A n \in Names : kinds[n] = "none" <=> places[n] = 0
  /\ \A m, n \in Names : places[m] = places[n] => m = n \/ places[n] = 0

\* The entries in the buffer of a DIR by their places: the name, and d_type.
Entries == [name : Names, type : (Kinds \ {"none"}) \cup {"unknown"}]
Buffers == UNION {[P -> Entries] : P \in SUBSET DirPlaces}

\* A DIR.  `alone' is that no other iterator used the directory before or beside
\* it, `got' what it has given out, `state' whether it is within a call, and how
\* it ended.
IterStructs ==
  [buf : Buffers, got : SUBSET Names, alone : BOOLEAN, state : {"idle", "next", "done", "error"}]

ASSUME NoIterAssumption == NONE \notin IterStructs

OpenIters == {i \in Iters : iter[i] # NONE}

DirInit ==
  /\ dirOpen = FALSE
  /\ offset = 0
  /\ entry \in [Names -> Kinds]
  /\ place \in [Names -> 0 .. LastPlace]
  /\ Placed(entry, place)
  /\ touched = {}
  /\ given = {}
  /\ twice = {}
  /\ iter = [i \in Iters |-> NONE]

--------------------------------------------------------------------------------
(* dir.c.  A call whose system call fails changes nothing.                 *)

dir_open ==
  /\ ~dirOpen
  /\ OpenIters = {}
  /\ dirOpen' = TRUE
  /\ offset' = 0
  /\ touched' = {}
  /\ given' = {}
  /\ twice' = {}
  /\ UNCHANGED <<entry, place, iter>>

\* The entries of some names change: what was given out under these names does
\* not matter any more.
Change(names, kinds, places) ==
  /\ entry' = kinds
  /\ place' = places
  /\ touched' = touched \cup names
  /\ given' = given \ names
  /\ UNCHANGED <<dirOpen, offset, twice, iter>>

Free(k) == \A n \in Names : place[n] # k

\* The new entry replaces one of its name.  It may be at the place of that, stay
\* at its own, or go to another one.
dir_rename(old, new) ==
  /\ dirOpen
  /\ old # new
  /\ entry[old] # "none"
  /\ \E k \in DirPlaces :
       /\ Free(k) \/ k \in {place[old], place[new]}
       /\ Change({old, new}, [entry EXCEPT ![old] = "none", ![new] = entry[old]],
                 [place EXCEPT ![old] = 0, ![new] = k])

\* Also when close reports an error, the descriptor is gone.
dir_close ==
  /\ dirOpen
  /\ dirOpen' = FALSE
  /\ UNCHANGED <<offset, entry, place, touched, given, twice, iter>>

\* An entry is created, as file_open does and other programs do, or removed.
Create(n, kind) ==
  /\ entry[n] = "none"
  /\ \E k \in DirPlaces : Free(k) /\ Change({n}, [entry EXCEPT ![n] = kind], [place EXCEPT ![n] = k])
Remove(n) ==
  /\ entry[n] # "none"
  /\ Change({n}, [entry EXCEPT ![n] = "none"], [place EXCEPT ![n] = 0])

--------------------------------------------------------------------------------
(* dir_iter.c *)

Empty == [k \in {} |-> NONE]

\* The new descriptor has the directory's offset.  When fcntl or fdopendir
\* fails, nothing has changed.
dir_iter_open(i) ==
  /\ dirOpen
  /\ iter[i] = NONE
  /\ iter' = [j \in Iters |->
                IF j = i THEN [buf |-> Empty, got |-> {}, alone |-> offset = 0 /\ OpenIters = {}, state |-> "idle"]
                ELSE IF iter[j] = NONE THEN NONE ELSE [iter[j] EXCEPT !.alone = FALSE, !.got = {}]]
  /\ UNCHANGED <<dirOpen, offset, entry, place, touched, given, twice>>

dir_iter_close(i) ==
  /\ iter[i] # NONE
  /\ iter[i].state # "next"
  /\ iter' = [iter EXCEPT ![i] = NONE]
  /\ UNCHANGED <<dirOpen, offset, entry, place, touched, given, twice>>

\* A turn of the loop in dir_iter_next.
Turn(i) ==
  /\ iter[i] # NONE
  /\ iter[i].state \in {"idle", "next"}
  /\ UNCHANGED <<dirOpen, entry, place, touched>>

\* The entries at the places up to `upto'; a filesystem may not tell d_type.
NameAt(k) == CHOOSE n \in Names : place[n] = k
Batch(upto, types) ==
  [k \in {k \in offset + 1 .. upto : ~Free(k)} |->
     [name |-> NameAt(k), type |-> IF types THEN entry[NameAt(k)] ELSE "unknown"]]

\* What the buffer of iterator i holds, and what readdir takes from it.
Buffered(i) == DOMAIN iter[i].buf

First(i) == Min(Buffered(i))

Rest(i) == Restrict(iter[i].buf, Buffered(i) \ {First(i)})

\* A mutant of Refill: the next read begins at the last entry of this one.
RefillOverlaps(i) ==
  /\ Turn(i)
  /\ Buffered(i) = {}
  /\ \E upto \in offset + 1 .. LastPlace, types \in BOOLEAN :
       /\ iter' = [iter EXCEPT ![i].buf = Batch(upto, types), ![i].state = "next"]
       /\ offset' \in {upto - 1, upto}
  /\ UNCHANGED <<given, twice>>

\* readdir has no entries left and asks the kernel for some more.
Refill(i) ==
  /\ Turn(i)
  /\ Buffered(i) = {}
  /\ \E upto \in offset + 1 .. LastPlace, types \in BOOLEAN :
       /\ iter' = [iter EXCEPT ![i].buf = Batch(upto, types), ![i].state = "next"]
       /\ offset' = upto
  /\ UNCHANGED <<given, twice>>

EndOfDirectory(i) ==
  /\ Turn(i)
  /\ Buffered(i) = {}
  /\ offset = LastPlace
  /\ iter' = [iter EXCEPT ![i].state = "done"]
  /\ UNCHANGED <<offset, given, twice>>

\* Which entries are given out.  d_type is that of the entry itself; fstatat
\* looks at what is there now, and follows a link.
Wanted(e) == IF e.type = "unknown" THEN entry[e.name] \in {"regular", "link"} ELSE e.type = "regular"

\* fstatat fails if the file is gone.
Found(e) == e.type = "unknown" => entry[e.name] # "none"

Yield(i) ==
  /\ Turn(i)
  /\ Buffered(i) # {}
  /\ Wanted(iter[i].buf[First(i)])
  /\ LET name == iter[i].buf[First(i)].name
     IN /\ iter' = [iter EXCEPT ![i].buf = Rest(i), ![i].state = "idle",
                                ![i].got = IF iter[i].alone THEN @ \cup {name} ELSE @]
        /\ given' = given \cup ({name} \ touched)
        /\ twice' = twice \cup ({name} \cap given)
  /\ UNCHANGED offset

\* The entry is not given out.
Passed(i) ==
  /\ Turn(i)
  /\ Buffered(i) # {}
  /\ Found(iter[i].buf[First(i)])
  /\ ~Wanted(iter[i].buf[First(i)])
  /\ UNCHANGED <<offset, given, twice>>

\* A mutant of Skip: two entries are passed.
SkipTwo(i) ==
  /\ Passed(i)
  /\ iter' = [iter EXCEPT ![i].buf = Restrict(@, {k \in Buffered(i) : k > First(i) + 1}), ![i].state = "next"]

Skip(i) ==
  /\ Passed(i)
  /\ iter' = [iter EXCEPT ![i].buf = Rest(i), ![i].state = "next"]

\* readdir reports an error, or fstatat does, for one because the file is gone.
dir_iter_next_fails(i) ==
  /\ Turn(i)
  /\ iter' = [iter EXCEPT ![i].state = "error"]
  /\ UNCHANGED <<offset, given, twice>>

dir_iter_next(i) == Refill(i) \/ EndOfDirectory(i) \/ Yield(i) \/ Skip(i) \/ dir_iter_next_fails(i)

--------------------------------------------------------------------------------

DirNext ==
  \/ dir_open
  \/ \E old, new \in Names : dir_rename(old, new)
  \/ dir_close
  \/ \E n \in Names, kind \in Kinds \ {"none"} : Create(n, kind)
  \/ \E n \in Names : Remove(n)
  \/ \E i \in Iters : dir_iter_open(i) \/ dir_iter_next(i) \/ dir_iter_close(i)

DirSpec == DirInit /\ [][DirNext]_dirVars

--------------------------------------------------------------------------------
(* Properties *)

\* An iterator that has its open directory to itself from the start and ends
\* without an error gave out every regular file that was there all the time,
\* and of the other names that did not change only links, which it gives out if
\* the filesystem does not tell d_type (dir_iter_next).
LoneIterationComplete ==
  \A i \in OpenIters :
    iter[i].alone /\ iter[i].state = "done" =>
      \A n \in Names \ touched :
        /\ entry[n] = "regular" => n \in iter[i].got
        /\ n \in iter[i].got => entry[n] \in {"regular", "link"}

\* All iterators of an open directory make one pass over it together, as they
\* share its offset: a name whose entry does not change is given out at most
\* once, also by an iterator that is opened later (dir_iter_open, F_DUPFD).  One
\* that is removed and made again may be at a new place, and be given out again.
OnePass == twice = {}
================================================================================
