------------------------------- MODULE Container -------------------------------
(***************************************************************************)
(* Container<T>: an open hash table with linear probing that can be turned *)
(* into a vector, and the vector sorted.                                   *)
(*                                                                         *)
(* A table is a record: its mode, its capacity, its slots, and the counter *)
(* it keeps of its items.  The operators return the table afterwards.      *)
(***************************************************************************)
EXTENDS Integers, FiniteSets, FiniteSetsExt, Order

CONSTANTS
  Items,   (* what is stored: file sizes                                    *)
  Hash,    (* the hash functions that occur                                 *)
  Null,    (* an empty slot                                                 *)
  InitialCapacity   (* 64 for the groups of a Holder                        *)

ASSUME ItemsAssumption == Items \subseteq Nat /\ Null \notin Items
ASSUME SizesAssumption == \A x, y \in Items : Near(x, y)
ASSUME HashAssumption == Hash \subseteq [Items -> Nat]
ASSUME CapacityAssumption == InitialCapacity \in Nat \ {0}

Modes == {"hash", "vector", "sorted"}

Slots(t) == 0 .. t.capacity - 1

NewTable(hash) ==
  [mode |-> "hash", capacity |-> InitialCapacity, size |-> 0, hash |-> hash,
   arr |-> [i \in 0 .. InitialCapacity - 1 |-> Null]]

Used(t) == {i \in Slots(t) : t.arr[i] # Null}

Content(t) == {t.arr[i] : i \in Used(t)}

-------------------------------------------------------------------------------
(* The hash table.                                                         *)

Home(t, x) == t.hash[x] % t.capacity

(* The slot d places behind: the first one follows the last.               *)
Probe(t, x, d) ==
  LET k == Home(t, x) + d IN IF k < t.capacity THEN k ELSE k - t.capacity

(* Where x is, or else where it is to go.                                  *)
Key(t, x) == Probe(t, x, Min({d \in Slots(t) : t.arr[Probe(t, x, d)] \in {Null, x}}))

Found(t, x) == t.arr[Key(t, x)] = x

Put(t, x) == [t EXCEPT !.arr[Key(t, x)] = x]

(* Mutant of Full: the load factor is forgotten.                           *)
FullAtCapacity(t) == t.size >= t.capacity

(* The factor is 0.8, in 1024ths.                                          *)
Full(t) == t.size >= (t.capacity * 819) \div 1024

(* after[n]: the items of the first n slots are in the new ones.           *)
Enlarged(t) ==
  LET after[n \in 0 .. t.capacity] ==
        IF n = 0
        THEN [t EXCEPT !.capacity = 2 * t.capacity,
                       !.arr = [i \in 0 .. 2 * t.capacity - 1 |-> Null]]
        ELSE LET s == after[n - 1]
             IN IF t.arr[n - 1] = Null THEN s ELSE Put(s, t.arr[n - 1])
  IN after[t.capacity]

(* operator+=.                                                             *)
Added(t, x) ==
  LET roomy == IF Full(t) THEN Enlarged(t) ELSE t
  IN [Put(roomy, x) EXCEPT !.size = t.size + 1]

(* deleteItem: the slot becomes empty, whatever was probed past it.        *)
DeleteItem(t, i) == [t EXCEPT !.arr[i] = Null, !.size = t.size - 1]

-------------------------------------------------------------------------------
(* fix: repairs the table after deletions.                                 *)

(* Mutant of Moved: the slot that was left is not cleared.                 *)
MovedWithoutClearing(t, i) ==
  IF t.arr[i] = Null \/ Key(t, t.arr[i]) = i THEN t
  ELSE [t EXCEPT !.arr[Key(t, t.arr[i])] = t.arr[i]]

(* Every item, in the order of the slots, moves to where it is looked for. *)
Moved(t, i) ==
  IF t.arr[i] = Null \/ Key(t, t.arr[i]) = i THEN t
  ELSE [t EXCEPT !.arr[Key(t, t.arr[i])] = t.arr[i], !.arr[i] = Null]

(* Mutant of FixHash: holes are left as they are.                          *)
FixHashNot(t) == t

(* after[n]: the first n slots have been visited.                          *)
FixHash(t) ==
  LET after[n \in 0 .. t.capacity] == IF n = 0 THEN t ELSE Moved(after[n - 1], n - 1)
  IN after[t.capacity]

(* One turn in a vector: the last item, up to j, fills the first hole from *)
(* i on.                                                                   *)
HoleFilled(s) ==
  LET i == Min({k \in s.i .. s.j : k = s.j \/ s.arr[k] = Null})
      j == Max({k \in i .. s.j : k = i \/ s.arr[k] # Null})
  IN [arr |-> [s.arr EXCEPT ![i] = s.arr[j], ![j] = Null], i |-> i, j |-> j - 1]

(* after[n]: after n turns, of which no more than capacity are taken.      *)
FixVector(t) ==
  LET after[n \in 0 .. t.capacity] ==
        IF n = 0 THEN [arr |-> t.arr, i |-> 0, j |-> t.capacity - 1]
        ELSE LET s == after[n - 1]
             IN IF s.i < t.size /\ s.j >= t.size THEN HoleFilled(s) ELSE s
  IN [t EXCEPT !.arr = after[t.capacity].arr]

(* Mutant of FixSorted: a sorted vector is repaired like any other.        *)
FixSortedAsVector(t) == FixVector(t)

(* One turn in a sorted vector of n slots: the next run of items, from j   *)
(* to before k, moves down to the first hole from i on.  In the code j and *)
(* k go on from the last turn, which left them in front of this hole and   *)
(* of this run.                                                            *)
RunMoved(s, n) ==
  LET i == Min({m \in s.i .. n : m = n \/ s.arr[m] = Null})
      j == Min({m \in i .. n : m = n \/ s.arr[m] # Null})
      k == Min({m \in j .. n : m = n \/ s.arr[m] = Null})
      end == i + (k - j)
      from(m) == IF m \in i .. end - 1 THEN s.arr[m + (j - i)]
                 ELSE IF m \in end .. k - 1 THEN Null
                 ELSE s.arr[m]
  IN IF j = n THEN s ELSE [arr |-> [m \in 0 .. n - 1 |-> from(m)], i |-> end]

FixSorted(t) ==
  LET after[n \in 0 .. t.capacity] ==
        IF n = 0 THEN [arr |-> t.arr, i |-> 0] ELSE RunMoved(after[n - 1], t.capacity)
  IN [t EXCEPT !.arr = after[t.capacity].arr]

Fix(t) ==
  CASE t.mode = "hash"   -> FixHash(t)
    [] t.mode = "vector" -> FixVector(t)
    [] t.mode = "sorted" -> FixSorted(t)

-------------------------------------------------------------------------------
(* convert(CONTAINER_VECTOR), which leaves a vector as it is.              *)
Converted(t) == IF t.mode = "hash" THEN FixVector([t EXCEPT !.mode = "vector"]) ELSE t

(* The first size slots hold the items and the others are empty.           *)
Packed(t) ==
  \A i \in Slots(t) : t.arr[i] # Null <=> i < t.size

(* How many of the first size items come in front of that of slot i.       *)
Place(t, i) ==
  Cardinality({j \in 0 .. t.size - 1 :
    SizeCmp(t.arr[j], t.arr[i]) < 0 \/ (t.arr[j] = t.arr[i] /\ j < i)})

(* sort: the first size slots, of a vector, are given to qsort; no two     *)
(* sizes are too far apart for an int.                                     *)
Sorted(t) ==
  LET v == Converted(t)
  IN [v EXCEPT !.mode = "sorted",
        !.arr = [k \in Slots(v) |->
          IF k < v.size THEN v.arr[CHOOSE i \in 0 .. v.size - 1 : Place(v, i) = k]
                        ELSE v.arr[k]]]

(* How far a loop over the slots goes.                                     *)
Boundary(t) == IF t.mode = "vector" THEN t.size ELSE t.capacity
===============================================================================
