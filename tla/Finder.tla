-------------------------------- MODULE Finder --------------------------------
(***************************************************************************)
(* The finders' main loop: reading file names into groups of one size,     *)
(* sorting the groups, reporting hard links, and comparing the files of    *)
(* one group after the other, with what happens when memory runs out on    *)
(* the way.                                                                *)
(*                                                                         *)
(* The groups of one size (SizeGroup) are kept in a Container, by size; a  *)
(* group holds files (FileGroup), and a file the List of its names.  The   *)
(* files of a group are a set here: their own Container only grows.  When  *)
(* an allocation fails, solveMemoryProblem raises the minimum size until   *)
(* groups below it have been removed, and what was under way is tried      *)
(* again.  Groups are deleted as soon as they are compared.                *)
(***************************************************************************)
EXTENDS Container, List, FiniteSets

CONSTANTS
  Names,         (* file names, in alphabetical order                       *)
  InodeOf,       (* name -> the file it is a name of                        *)
  SizeOf,        (* file -> its size                                        *)
  Calls,         (* what is read, how sizes hash, and the options           *)
  MaxShortages   (* bound: how often memory runs out                        *)

Inodes == {InodeOf[f] : f \in Names}

(* Options -a; -A or -Z; -At, -Zt or -L.                                   *)
Matches == {"none", "name", "number"}

ASSUME FinderAssumption ==
  /\ Names \subseteq Nat /\ Null \notin Names
  /\ \A i \in Inodes : SizeOf[i] \in Items
  /\ Calls \subseteq [names : SUBSET Names, hash : Hash, match : Matches,
                      addHardlinked : BOOLEAN, report : {"none", "first", "all"}]
  /\ MaxShortages \in Nat

VARIABLES
  call,       (* the member of Calls that is run                           *)
  holder,     (* the table of groups                                       *)
  names,      (* file -> the list of its names, for the files in the table *)
  minSize,    (* files of this size or smaller are skipped                 *)
  phase,      (* what the program is doing                                 *)
  resume,     (* what it was doing when memory ran out                     *)
  path,       (* the name that could not be added for want of memory       *)
  next,       (* the slot to be compared next                              *)
  boundary,   (* where the loop over the slots ends                        *)
  shortages,  (* how often memory ran out                                  *)
  expected,   (* the sizes that got a group and were not removed           *)
  added,      (* the names that were read and not removed                  *)
  linked,     (* the pairs of names that were reported as hard links       *)
  compared,   (* the sizes of the groups compared, in order                *)
  listed,     (* the lists of names of the files that were compared        *)
  wrapped     (* fix met an item stored before the slot it hashes to       *)

reports == <<linked, compared, listed>>

vars == <<call, holder, names, minSize, phase, resume, path, next, boundary,
          shortages, expected, added, reports, wrapped>>

Files == DOMAIN names

(* The table is a record of the right shape, and the variables have their  *)
(* types.                                                                  *)
TypeOK ==
  /\ call \in Calls
  /\ holder.mode \in Modes
  /\ holder.capacity \in Nat \ {0}
  /\ holder.arr \in [Slots(holder) -> Items \cup {Null}]
  /\ holder.size \in Nat
  /\ holder.hash \in Hash
  /\ Files \subseteq Inodes
  /\ \A i \in Files : names[i] \in Seq(Names)
  /\ minSize \in Nat
  /\ phase \in {"read", "compare", "memory", "done", "aborted", "crashed"}
  /\ resume \in {"read", "compare"}
  /\ path \in Names \cup {Null}
  /\ next \in Nat /\ boundary \in Nat
  /\ shortages \in 0 .. MaxShortages
  /\ expected \subseteq Items
  /\ added \subseteq Names
  /\ linked \subseteq Names \X Names
  /\ compared \in Seq(Items)
  /\ \A list \in listed : list \in Seq(Names)
  /\ wrapped \in BOOLEAN

Init ==
  /\ call \in Calls
  /\ holder = NewTable(call.hash)
  /\ names = <<>>
  /\ minSize = 0
  /\ phase = "read"
  /\ resume = "read"
  /\ path = Null
  /\ next = 0
  /\ boundary = 0
  /\ shortages = 0
  /\ expected = {}
  /\ added = {}
  /\ linked = {}
  /\ compared = <<>>
  /\ listed = {}
  /\ wrapped = FALSE

-------------------------------------------------------------------------------
(* Reading.                                                                *)

(* holder[s]: finds the group of a size or adds one.                       *)
WithGroup(x) == IF Found(holder, x) THEN holder ELSE Added(holder, x)

(* SizeGroup::operator[]: finds the file in its group or adds it, without  *)
(* a name.                                                                 *)
WithFile(i) == [j \in Files \cup {i} |-> IF j \in Files THEN names[j] ELSE <<>>]

(* Mutant of Wanted: a name that is there already is added again.          *)
WantedAgain(f, list) == call.addHardlinked \/ list = <<>>

(* A new name, and the first one of its file or one of many with -i.       *)
Wanted(f, list) == f \notin ToSet(list) /\ (call.addHardlinked \/ list = <<>>)

WithName(f) ==
  LET i == InodeOf[f]
      list == WithFile(i)[i]
  IN [WithFile(i) EXCEPT ![i] = IF Wanted(f, list) THEN ListAdd(list, f) ELSE list]

(* The next name, or the one that could not be added before.               *)
Reads(f) ==
  /\ phase = "read"
  /\ path \in {Null, f}
  /\ SizeOf[InodeOf[f]] > minSize

ReadFile(f) ==
  /\ Reads(f)
  /\ holder' = WithGroup(SizeOf[InodeOf[f]])
  /\ names' = WithName(f)
  /\ expected' = expected \cup {SizeOf[InodeOf[f]]}
  /\ added' = added \cup {f}
  /\ path' = Null
  /\ UNCHANGED <<call, minSize, phase, resume, next, boundary, shortages, reports, wrapped>>

(* By now the file is too small.                                           *)
SkipFile ==
  /\ phase = "read"
  /\ path # Null /\ SizeOf[InodeOf[path]] <= minSize
  /\ path' = Null
  /\ UNCHANGED <<call, holder, names, minSize, phase, resume, next, boundary, shortages,
                 expected, added, reports, wrapped>>

(* No memory for a new group, for a new file in it, or for its name.       *)
ReadFails(f) ==
  LET x == SizeOf[InodeOf[f]]
      i == InodeOf[f]
  IN /\ Reads(f)
     /\ shortages < MaxShortages
     /\ \/ ~Found(holder, x) /\ UNCHANGED <<holder, names>>
        \/ i \notin Files /\ holder' = WithGroup(x) /\ UNCHANGED names
        \/ /\ Wanted(f, WithFile(i)[i])
           /\ holder' = WithGroup(x)
           /\ names' = WithFile(i)
     /\ expected' = expected \cup (IF Found(holder', x) THEN {x} ELSE {})
     /\ shortages' = shortages + 1
     /\ phase' = "memory"
     /\ resume' = "read"
     /\ path' = f
     /\ UNCHANGED <<call, minSize, next, boundary, added, reports, wrapped>>

-------------------------------------------------------------------------------
(* Sorting and comparing.                                                  *)

SortedNames == [i \in Files |-> ListSorted(names[i])]

(* compareFirst dereferences the first name of a file that has none.       *)
ComparesNothing ==
  call.match = "name" /\
  \E i, j \in Files : i # j /\ SizeOf[i] = SizeOf[j] /\ names[i] = <<>>

(* The end of the input: unless with -a the groups, the names and the      *)
(* files are sorted, with -r hard links are reported, and the comparison   *)
(* begins.  Sorting a vector with holes dereferences NULL.                 *)
StartComparing ==
  /\ phase = "read"
  /\ path = Null
  /\ IF call.match # "none" /\ (~Packed(Converted(holder)) \/ ComparesNothing)
     THEN phase' = "crashed" /\ UNCHANGED <<holder, names, boundary, linked>>
     ELSE /\ phase' = "compare"
          /\ IF call.match = "none" THEN UNCHANGED <<holder, names>>
             ELSE holder' = Sorted(holder) /\ names' = SortedNames
          /\ boundary' = Boundary(holder')
          /\ linked' = IF call.report = "none" THEN {}
                       ELSE UNION {HardLinked(names'[i], call.report = "all") : i \in Files}
  /\ next' = 0
  /\ UNCHANGED <<call, minSize, resume, path, shortages, expected, added, compared, listed,
                 wrapped>>

Keeping(sizes) ==
  names' = [i \in {j \in Files : SizeOf[j] \in sizes} |-> names[i]]

(* Mutant of CompareGroup: empty slots are not skipped.                    *)
CompareEverySlot ==
  /\ phase = "compare"
  /\ next < boundary
  /\ next' = next + 1
  /\ compared' = Append(compared, holder.arr[next])
  /\ holder' = DeleteItem(holder, next)
  /\ UNCHANGED <<call, names, minSize, phase, resume, path, boundary, shortages, expected,
                 added, linked, listed, wrapped>>

(* Mutant of CompareGroup: a group is kept after its comparison.           *)
CompareGroupKeeping ==
  /\ phase = "compare"
  /\ next < boundary
  /\ next' = next + 1
  /\ compared' = IF holder.arr[next] = Null THEN compared
                 ELSE Append(compared, holder.arr[next])
  /\ UNCHANGED <<call, holder, names, minSize, phase, resume, path, boundary, shortages,
                 expected, added, linked, listed, wrapped>>

(* Holder::compareFiles: the group in the next slot, if there is one, is   *)
(* compared and deleted.                                                   *)
CompareGroup ==
  /\ phase = "compare"
  /\ next < boundary
  /\ next' = next + 1
  /\ LET x == holder.arr[next]
     IN IF x = Null THEN UNCHANGED <<holder, names, compared, listed>>
        ELSE /\ compared' = Append(compared, x)
             /\ listed' = listed \cup {names[i] : i \in {j \in Files : SizeOf[j] = x}}
             /\ holder' = DeleteItem(holder, next)
             /\ Keeping(Items \ {x})
  /\ UNCHANGED <<call, minSize, phase, resume, path, boundary, shortages, expected, added,
                 linked, wrapped>>

Finish ==
  /\ phase = "compare"
  /\ next >= boundary
  /\ phase' = "done"
  /\ UNCHANGED <<call, holder, names, minSize, resume, path, next, boundary, shortages,
                 expected, added, reports, wrapped>>

-------------------------------------------------------------------------------
(* Memory.                                                                 *)

(* An allocation fails: for a long name that is read, or for the buffers   *)
(* or the matrix while comparing.                                          *)
OutOfMemory ==
  /\ shortages < MaxShortages
  /\ \/ phase = "read" /\ path = Null
     \/ phase = "compare" /\ next < boundary /\ holder.arr[next] # Null
  /\ shortages' = shortages + 1
  /\ phase' = "memory"
  /\ resume' = phase
  /\ UNCHANGED <<call, holder, names, minSize, path, next, boundary, expected, added, reports,
                 wrapped>>

(* Holder::remove, before its fix: deleteItem of each small group.         *)
Without(t, min) ==
  LET gone == {i \in 0 .. Boundary(t) - 1 : t.arr[i] # Null /\ t.arr[i] < min}
  IN [t EXCEPT !.arr = [i \in Slots(t) |-> IF i \in gone THEN Null ELSE t.arr[i]],
               !.size = t.size - Cardinality(gone)]

Wraps(t) ==
  t.mode = "hash" /\ \E i \in Used(t) : Home(t, t.arr[i]) > i

(* One round of solveMemoryProblem, with any larger minimum size.  It goes *)
(* on until groups were removed, and gives up at the largest size.         *)
RaiseMinSize ==
  /\ phase = "memory"
  /\ LET stored == Content(holder)
         largest == IF stored = {} THEN 0 ELSE Max(stored)
         raised == {m \in Items : m > minSize}
         final == IF minSize >= largest - 1 THEN {minSize} ELSE {}
     IN \E min \in raised \cup final :
          LET rest == Without(holder, min)
          IN /\ minSize' = min
             /\ holder' = Fix(rest)
             /\ wrapped' = (wrapped \/ Wraps(rest))
             /\ expected' = {x \in expected : x >= min \/ x \notin stored}
             /\ Keeping({x \in Items : x >= min})
             /\ phase' = IF rest.size = holder.size /\ min < largest - 1 THEN phase
                         ELSE IF min >= largest - 1 THEN "aborted"
                         ELSE resume
  /\ added' = {f \in added : SizeOf[InodeOf[f]] \in expected'}
  /\ next' = 0
  /\ boundary' = Boundary(holder')
  /\ UNCHANGED <<call, resume, path, shortages, reports>>

Next ==
  \/ \E f \in call.names : ReadFile(f) \/ ReadFails(f)
  \/ SkipFile \/ StartComparing \/ CompareGroup \/ Finish
  \/ OutOfMemory \/ RaiseMinSize

Spec == Init /\ [][Next]_vars

-------------------------------------------------------------------------------
Compared == {compared[k] : k \in DOMAIN compared}

(* Every group that was added is found again: a file joins the group of    *)
(* its size, also after fix repaired the table (holder[s] in readInput).   *)
GroupsFound ==
  phase = "read" /\ ~wrapped => \A x \in expected : Found(holder, x)

(* The same, whatever fix met; the table's debugging code tests just this. *)
GroupsFoundAlways ==
  phase = "read" => \A x \in expected : Found(holder, x)

(* Between the operations of the table, every group that is not yet        *)
(* compared or removed is in exactly one slot, and size counts the slots   *)
(* in use: neither enlarging, fixing nor sorting loses or doubles one.     *)
NothingLost ==
  ~wrapped /\ phase # "crashed" =>
    /\ Content(holder) = expected \ Compared
    /\ Cardinality(Used(holder)) = Cardinality(expected \ Compared)
    /\ holder.size = Cardinality(Used(holder))

(* A probe always ends at an empty slot.                                   *)
ProbesEnd ==
  phase = "read" => \E i \in Slots(holder) : holder.arr[i] = Null

(* Every group is compared, and only once, although the loop starts again  *)
(* after each shortage of memory.                                          *)
ComparedOnce ==
  ~wrapped /\ phase = "done" =>
    Compared = expected /\ Len(compared) = Cardinality(expected)

(* The report is in reverse order of size (samefile.1), also when fix      *)
(* closed the holes between sorted groups.                                 *)
ReportDescends ==
  call.match # "none" /\ ~wrapped =>
    \A k, l \in DOMAIN compared : k < l => compared[k] > compared[l]

(* Each file in the table has the names that were read of it, or one of    *)
(* them without -i, and no name twice, although a name that met a shortage *)
(* is tried again and the last line is read twice (readInput); when it is  *)
(* compared they are in alphabetical order, unless with -a, and            *)
(* processResults reports the first (samefile.1: sort filenames            *)
(* alphabetically).                                                        *)
NamesKept ==
  /\ ~wrapped => \A f \in added :
       \/ SizeOf[InodeOf[f]] \in Compared
       \/ /\ InodeOf[f] \in Files
          /\ LET list == names[InodeOf[f]]
             IN /\ IsInjective(list) /\ ToSet(list) \subseteq added
                /\ \A g \in ToSet(list) : InodeOf[g] = InodeOf[f]
                /\ IF call.addHardlinked THEN f \in ToSet(list) ELSE Len(list) = 1
  /\ call.match # "none" =>
       \A list \in listed : \A j, k \in DOMAIN list : j < k => list[j] < list[k]

(* With -i and -r, two names of one file are reported as hard links: as a  *)
(* pair, once, with -x, and otherwise by way of the file's first name.     *)
HardLinksReported ==
  ~wrapped /\ phase \in {"compare", "done"} /\ call.addHardlinked /\ call.report # "none" =>
    \A f, g \in added : f # g /\ InodeOf[f] = InodeOf[g] =>
      IF call.report = "all"
      THEN (<<f, g>> \in linked) # (<<g, f>> \in linked)
      ELSE \E h \in added : \A k \in {f, g} \ {h} : <<h, k>> \in linked
===============================================================================
