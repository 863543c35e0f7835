----------------------------- MODULE FinderProofs -----------------------------
(***************************************************************************)
(* Proofs about Container, List and Finder, for tables of any capacity and *)
(* any hash function, any files and names, and any shortages of memory.    *)
(***************************************************************************)
EXTENDS Finder, FiniteSetTheorems, SequenceTheorems, WellFoundedInduction, TLAPS

-------------------------------------------------------------------------------
(* Numbers, and loops over them.                                           *)

(* A set of numbers has a least one.                                       *)
LEMMA MinIs ==
  ASSUME NEW S, S \subseteq Nat, S # {}
  PROVE  Min(S) \in S /\ \A i \in S : Min(S) <= i
<1>1. PICK m \in S : \A i \in S : ~(<<i, m>> \in OpToRel(<, Nat))
  BY NatLessThanWellFounded, WFMin
<1>2. OpToRel(<, Nat) = {pair \in Nat \X Nat : pair[1] < pair[2]}
  BY DEF OpToRel
<1>3. ASSUME NEW i \in S PROVE m <= i
  <2>1. i < m => <<i, m>> \in {pair \in Nat \X Nat : pair[1] < pair[2]}
    OBVIOUS
  <2>2. ~(i < m)
    BY <1>1, <1>2, <2>1
  <2> QED
    BY <2>2
<1>4. m \in S /\ \A i \in S : m <= i
  BY <1>1, <1>3
<1> QED
  BY <1>4 DEF Min

(* A bounded one has a greatest one.                                       *)
LEMMA MaxIs ==
  ASSUME NEW n \in Nat, NEW S, S \subseteq 0 .. n, S # {}
  PROVE  Max(S) \in S /\ \A i \in S : i <= Max(S)
<1> DEFINE T == {m \in 0 .. n : n - m \in S}
<1>1. T \subseteq Nat /\ T # {}
  <2> T \subseteq Nat
    OBVIOUS
  <2>1. PICK i \in S : TRUE
    OBVIOUS
  <2>2. i \in 0 .. n
    OBVIOUS
  <2>3. n - i \in 0 .. n /\ n - (n - i) = i
    BY <2>2
  <2>4. n - i \in T
    BY <2>1, <2>3
  <2> HIDE DEF T
  <2> QED
    BY <2>2, <2>4
<1>2. PICK m \in T : \A i \in T : m <= i
  <2> HIDE DEF T
  <2> QED
    BY <1>1, MinIs
<1>3. n - m \in S /\ \A i \in S : n - i \in T
  BY <1>1, <1>2
<1>4. \A i \in S : i <= n - m
  <2> TAKE i \in S
  <2>1. m <= n - i /\ m \in 0 .. n /\ i \in 0 .. n
    BY <1>2, <1>3
  <2> QED
    BY <2>1
<1> HIDE DEF T
<1> QED
  BY <1>3, <1>4 DEF Max

(* Induction over the numbers up to n, as a fact about sets.               *)
LEMMA Upwards ==
  ASSUME NEW n \in Nat, NEW S, 0 \in S, \A k \in 0 .. n - 1 : k \in S => k + 1 \in S
  PROVE  0 .. n \subseteq S
<1> DEFINE Out == (0 .. n) \ S
<1>1. SUFFICES ASSUME Out # {} PROVE FALSE
  OBVIOUS
<1>2. Out \subseteq Nat
  OBVIOUS
<1>3. PICK m \in Out : \A i \in Out : m <= i
  <2> HIDE DEF Out
  <2> QED
    BY <1>1, <1>2, MinIs
<1>4. m # 0 /\ m - 1 \in 0 .. n - 1
  BY <1>3
<1>5. m - 1 \in S => m \in S
  BY <1>4
<1>6. m - 1 \in Out
  BY <1>3, <1>4, <1>5
<1> QED
  BY <1>3, <1>4, <1>6

(* A loop of n turns that goes from one member of S to another is a        *)
(* function on how many turns were taken.                                  *)
IsLoop(f, n, start, Turn) ==
  f[0] = start /\ \A k \in 0 .. n - 1 : f[k + 1] = Turn[<<f[k], k>>]

(* There is a function that takes the turns of a loop.                     *)
LEMMA LoopExists ==
  ASSUME NEW n \in Nat, NEW S, NEW start \in S, NEW Turn \in [S \X (0 .. n - 1) -> S]
  PROVE  \E f \in [0 .. n -> S] : IsLoop(f, n, start, Turn)
<1> DEFINE Run(m, f) ==
             f[0] = start /\ \A k \in 0 .. m - 1 : f[k + 1] = Turn[<<f[k], k>>]
           Runs(m) == \E f \in [0 .. m -> S] : Run(m, f)
           R == {m \in Nat : Runs(m)}
<1>1. Runs(0)
  <2> DEFINE f == [k \in 0 .. 0 |-> start]
  <2>1. f \in [0 .. 0 -> S] /\ Run(0, f)
    OBVIOUS
  <2> QED
    BY <2>1
<1>2. ASSUME NEW m \in 0 .. n - 1, Runs(m) PROVE Runs(m + 1)
  <2>1. PICK f \in [0 .. m -> S] : Run(m, f)
    BY <1>2
  <2> DEFINE last == Turn[<<f[m], m>>]
             g == [k \in 0 .. m + 1 |-> IF k <= m THEN f[k] ELSE last]
  <2>2. last \in S
    <3>1. <<f[m], m>> \in S \X (0 .. n - 1)
      BY <2>1
    <3> QED
      BY <3>1
  <2> HIDE DEF last
  <2>3. g \in [0 .. m + 1 -> S]
    BY <2>1, <2>2
  <2>4. ASSUME NEW k \in 0 .. m
        PROVE  g[k + 1] = Turn[<<g[k], k>>]
    <3>1. CASE k < m
      <4>1. k \in 0 .. m - 1 /\ g[k] = f[k] /\ g[k + 1] = f[k + 1]
        BY <3>1
      <4> QED
        BY <2>1, <4>1
    <3>2. CASE k = m
      <4>1. g[k + 1] = last /\ g[k] = f[m]
        BY <3>2
      <4> QED
        BY <3>2, <4>1 DEF last
    <3> QED
      BY <3>1, <3>2
  <2>5. Run(m + 1, g)
    <3>1. g[0] = start
      BY <2>1
    <3> HIDE DEF g
    <3> QED
      BY <2>4, <3>1
  <2> QED
    BY <2>3, <2>5
<1> HIDE DEF Runs
<1>3. 0 \in R /\ \A k \in 0 .. n - 1 : k \in R => k + 1 \in R
  BY <1>1, <1>2
<1>4. n \in R
  <2>1. 0 .. n \subseteq R
    <3> HIDE DEF R
    <3> QED
      BY <1>3, Upwards
  <2> QED
    BY <2>1
<1> QED
  BY <1>4 DEF Runs, IsLoop

(* What every turn of a loop keeps holds at its end.                       *)
LEMMA LoopKeeps ==
  ASSUME NEW n \in Nat, NEW f, NEW G, f[0] \in G[0],
         \A k \in 0 .. n - 1 : f[k] \in G[k] => f[k + 1] \in G[k + 1]
  PROVE  \A k \in 0 .. n : f[k] \in G[k]
<1> DEFINE S == {k \in Nat : f[k] \in G[k]}
<1>1. 0 \in S /\ \A k \in 0 .. n - 1 : k \in S => k + 1 \in S
  OBVIOUS
<1>2. 0 .. n \subseteq S
  <2> HIDE DEF S
  <2> QED
    BY <1>1, Upwards
<1> QED
  BY <1>2
-------------------------------------------------------------------------------
(* Tables.                                                                 *)

Tables(c) ==
  [mode : Modes, capacity : {c}, size : Int, hash : Hash, arr : [0 .. c - 1 -> Items \cup {Null}]]

IsTable(t) == t.capacity \in Nat \ {0} /\ t \in Tables(t.capacity)

Count(t) == Cardinality(Used(t))

(* The parts of a table have their types.                                  *)
LEMMA TableParts ==
  ASSUME NEW t, IsTable(t)
  PROVE  /\ t.mode \in Modes /\ t.size \in Int /\ t.hash \in Hash
         /\ t.capacity \in Nat /\ t.capacity > 0
         /\ t.arr \in [Slots(t) -> Items \cup {Null}]
         /\ \A i \in Used(t) : i \in Slots(t) /\ t.arr[i] \in Items /\ t.arr[i] # Null
         /\ \A x \in Items : x \in Nat /\ x # Null
BY ItemsAssumption DEF IsTable, Tables, Slots, Used

(* A table whose slots are others.                                         *)
LEMMA OtherSlots ==
  ASSUME NEW t, IsTable(t), NEW a \in [Slots(t) -> Items \cup {Null}]
  PROVE  LET u == [t EXCEPT !.arr = a]
         IN /\ IsTable(u) /\ u.arr = a /\ Slots(u) = Slots(t)
            /\ u.mode = t.mode /\ u.size = t.size /\ u.hash = t.hash
            /\ u.capacity = t.capacity
BY DEF IsTable, Tables, Slots

(* What the slots in use are does not depend on the counter and the mode.  *)
LEMMA OtherCounter ==
  ASSUME NEW t, IsTable(t), NEW n \in Int
  PROVE  LET u == [t EXCEPT !.size = n]
         IN /\ IsTable(u) /\ u.arr = t.arr /\ Slots(u) = Slots(t)
            /\ u.mode = t.mode /\ u.size = n /\ u.hash = t.hash
            /\ u.capacity = t.capacity
            /\ Used(u) = Used(t) /\ Content(u) = Content(t)
BY DEF IsTable, Tables, Slots, Used, Content

(* The slots in use do not depend on the mode either.                      *)
LEMMA OtherMode ==
  ASSUME NEW t, IsTable(t), NEW m \in Modes
  PROVE  LET u == [t EXCEPT !.mode = m]
         IN /\ IsTable(u) /\ u.arr = t.arr /\ Slots(u) = Slots(t)
            /\ u.mode = m /\ u.size = t.size /\ u.hash = t.hash
            /\ u.capacity = t.capacity
            /\ Used(u) = Used(t) /\ Content(u) = Content(t)
BY DEF IsTable, Tables, Slots, Used, Content

(* No more slots are in use than there are.                                *)
LEMMA UsedIsFinite ==
  ASSUME NEW t, IsTable(t)
  PROVE  IsFiniteSet(Used(t)) /\ Count(t) \in Nat /\ Count(t) <= t.capacity
<1> DEFINE n == t.capacity
<1>0. n \in Nat /\ n > 0 /\ n - 1 \in Int /\ 0 \in Int
  BY TableParts
<1>1. /\ n \in Nat /\ IsFiniteSet(0 .. n - 1)
      /\ Cardinality(0 .. n - 1) = n
  <2> HIDE DEF n
  <2> QED
    BY <1>0, FS_Interval
<1>2. Used(t) \in SUBSET (0 .. t.capacity - 1)
  BY DEF Used, Slots
<1> QED
  BY <1>1, <1>2, FS_Subset, FS_CardinalityType DEF Count

(* As long as not all slots are counted, one is empty.                     *)
LEMMA SlotIsFree ==
  ASSUME NEW t, IsTable(t), Count(t) < t.capacity
  PROVE  \E i \in Slots(t) : t.arr[i] = Null
<1>1. SUFFICES ASSUME \A i \in Slots(t) : t.arr[i] # Null PROVE FALSE
  OBVIOUS
<1>2. Used(t) = 0 .. t.capacity - 1
  BY <1>1 DEF Used, Slots
<1>3. Count(t) = t.capacity
  <2> DEFINE n == t.capacity
  <2>1. n \in Nat /\ n > 0 /\ n - 1 \in Int /\ 0 \in Int
    BY TableParts
  <2>2. Cardinality(0 .. n - 1) = n
    <3> HIDE DEF n
    <3> QED
      BY <2>1, FS_Interval
  <2> QED
    BY <1>2, <2>2 DEF Count
<1> QED
  BY <1>3, TableParts

(* No item is in two slots.                                                *)
Distinct(t) == \A i, j \in Used(t) : t.arr[i] = t.arr[j] => i = j

(* Then the slots in use are as many as the items.                         *)
LEMMA DistinctCount ==
  ASSUME NEW t, IsTable(t), Distinct(t)
  PROVE  IsFiniteSet(Content(t)) /\ Count(t) = Cardinality(Content(t))
<1> DEFINE f == [i \in Used(t) |-> t.arr[i]]
<1>1. f \in Bijection(Used(t), Content(t))
  BY DEF Distinct, Content, Bijection, Injection, Surjection, IsInjective
<1>2. ExistsBijection(Used(t), Content(t))
  BY <1>1 DEF ExistsBijection
<1> QED
  BY <1>2, UsedIsFinite, FS_Bijection DEF Count
-------------------------------------------------------------------------------
(* Probing.                                                                *)

(* How many places slot i is behind the one that x hashes to.              *)
Dist(t, x, i) ==
  IF Home(t, x) <= i THEN i - Home(t, x) ELSE i + t.capacity - Home(t, x)

(* Every item has a home slot.                                             *)
LEMMA HomeIsSlot ==
  ASSUME NEW t, IsTable(t), NEW x \in Items
  PROVE  Home(t, x) \in Slots(t)
<1>1. t.hash[x] \in Nat
  BY TableParts, HashAssumption
<1>2. t.capacity \in Nat /\ t.capacity > 0
  BY TableParts
<1> QED
  BY <1>1, <1>2 DEF Home, Slots

(* Probing goes once to each slot, after Dist steps.                       *)
LEMMA ProbesSlots ==
  ASSUME NEW t, IsTable(t), NEW x \in Items
  PROVE  /\ \A d \in Slots(t) : Probe(t, x, d) \in Slots(t) /\ Dist(t, x, Probe(t, x, d)) = d
         /\ \A i \in Slots(t) : Dist(t, x, i) \in Slots(t) /\ Probe(t, x, Dist(t, x, i)) = i
<1>1. Home(t, x) \in 0 .. t.capacity - 1 /\ t.capacity \in Nat
  BY HomeIsSlot, TableParts DEF Slots
<1> QED
  BY <1>1 DEF Probe, Dist, Slots

(* No slot that is probed before slot i is empty or has x.                 *)
FirstFor(t, x, i) ==
  /\ i \in Slots(t) /\ t.arr[i] \in {Null, x}
  /\ \A j \in Slots(t) : Dist(t, x, j) < Dist(t, x, i) => t.arr[j] \notin {Null, x}

(* key() returns the first slot probed that is empty or has the item.      *)
LEMMA KeyIsFirst ==
  ASSUME NEW t, IsTable(t), NEW x \in Items, \E i \in Slots(t) : t.arr[i] \in {Null, x}
  PROVE  FirstFor(t, x, Key(t, x))
<1> DEFINE D == {d \in Slots(t) : t.arr[Probe(t, x, d)] \in {Null, x}}
<1>1. D \subseteq Nat /\ D # {}
  <2>1. D # {}
    BY ProbesSlots
  <2> QED
    BY <2>1, TableParts DEF Slots
<1>2. Min(D) \in D /\ \A d \in D : Min(D) <= d
  <2> HIDE DEF D
  <2> QED
    BY <1>1, MinIs
<1>3. Key(t, x) = Probe(t, x, Min(D))
  BY DEF Key
<1>4. /\ Min(D) \in Slots(t) /\ Key(t, x) \in Slots(t) /\ t.arr[Key(t, x)] \in {Null, x}
      /\ Dist(t, x, Key(t, x)) = Min(D)
  BY <1>2, <1>3, ProbesSlots
<1>5. ASSUME NEW j \in Slots(t), Dist(t, x, j) < Min(D) PROVE t.arr[j] \notin {Null, x}
  <2>1. Dist(t, x, j) \in Slots(t) /\ Probe(t, x, Dist(t, x, j)) = j
    BY ProbesSlots
  <2>2. Dist(t, x, j) \notin D
    BY <1>1, <1>2, <1>5, <2>1 DEF Slots
  <2> QED
    BY <2>1, <2>2
<1> QED
  BY <1>4, <1>5 DEF FirstFor

(* Only one slot can be the first.                                         *)
LEMMA FirstIsKey ==
  ASSUME NEW t, IsTable(t), NEW x \in Items, NEW i, FirstFor(t, x, i)
  PROVE  Key(t, x) = i
<1> DEFINE k == Key(t, x)
<1>1. FirstFor(t, x, k)
  BY KeyIsFirst DEF FirstFor
<1>2. /\ Dist(t, x, i) \in Slots(t) /\ Dist(t, x, k) \in Slots(t)
      /\ i = Probe(t, x, Dist(t, x, i)) /\ k = Probe(t, x, Dist(t, x, k))
  BY <1>1, ProbesSlots DEF FirstFor
<1>3. ~(Dist(t, x, i) < Dist(t, x, k)) /\ ~(Dist(t, x, k) < Dist(t, x, i))
  BY <1>1 DEF FirstFor
<1>4. Dist(t, x, i) = Dist(t, x, k)
  <2> HIDE DEF k
  <2> QED
    BY <1>2, <1>3, TableParts DEF Slots
<1> QED
  BY <1>2, <1>4

(* Every item is where it is looked for.                                   *)
Sound(t) == Distinct(t) /\ \A i \in Used(t) : FirstFor(t, t.arr[i], i)

(* In a sound table key() finds every item.                                *)
LEMMA SoundFinds ==
  ASSUME NEW t, IsTable(t), Sound(t)
  PROVE  /\ \A i \in Used(t) : Key(t, t.arr[i]) = i
         /\ \A x \in Content(t) : x \in Items /\ Found(t, x)
<1>1. ASSUME NEW i \in Used(t) PROVE Key(t, t.arr[i]) = i /\ t.arr[i] \in Items
  <2>1. t.arr[i] \in Items /\ FirstFor(t, t.arr[i], i)
    BY TableParts DEF Sound
  <2> QED
    BY <2>1, FirstIsKey
<1> QED
  BY <1>1 DEF Content, Found

(* What is found is in the table.                                          *)
LEMMA FoundIsStored ==
  ASSUME NEW t, IsTable(t), NEW x \in Items, \E i \in Slots(t) : t.arr[i] \in {Null, x},
         Found(t, x)
  PROVE  x \in Content(t)
<1>1. Key(t, x) \in Slots(t)
  BY KeyIsFirst DEF FirstFor
<1> QED
  BY <1>1, TableParts DEF Found, Content, Used

(* An item that is put into a table is there, and every other one too.     *)
LEMMA PutIs ==
  ASSUME NEW t, IsTable(t), NEW x \in Items, \E i \in Slots(t) : t.arr[i] \in {Null, x}
  PROVE  LET u == Put(t, x)
             k == Key(t, x)
         IN /\ IsTable(u) /\ Slots(u) = Slots(t) /\ u.capacity = t.capacity
            /\ u.mode = t.mode /\ u.size = t.size /\ u.hash = t.hash
            /\ k \in Slots(t) /\ u.arr = [t.arr EXCEPT ![k] = x]
            /\ Used(u) = Used(t) \cup {k}
            /\ Content(u) = Content(t) \cup {x}
            /\ FirstFor(u, x, k) /\ Found(u, x)
<1> DEFINE u == Put(t, x)
           k == Key(t, x)
           a == [t.arr EXCEPT ![k] = x]
<1>1. FirstFor(t, x, k)
  BY KeyIsFirst
<1>2. k \in Slots(t) /\ t.arr[k] \in {Null, x} /\ x # Null
  BY <1>1, TableParts DEF FirstFor
<1>3. a \in [Slots(t) -> Items \cup {Null}]
  BY TableParts
<1>4. u = [t EXCEPT !.arr = a]
  BY DEF Put
<1>5. /\ IsTable(u) /\ Slots(u) = Slots(t) /\ u.capacity = t.capacity
      /\ u.mode = t.mode /\ u.size = t.size /\ u.hash = t.hash /\ u.arr = a
  <2> HIDE DEF a, u
  <2> QED
    BY <1>3, <1>4, OtherSlots
<1> HIDE DEF u, k
<1>6. \A i \in Slots(t) : u.arr[i] = IF i = k THEN x ELSE t.arr[i]
  BY <1>5, TableParts
<1>7. Used(u) = Used(t) \cup {k}
  BY <1>2, <1>5, <1>6 DEF Used
<1>8. Content(u) = Content(t) \cup {x}
  <2>1. \A i \in Used(t) : u.arr[i] = t.arr[i] /\ i \in Slots(t)
    BY <1>2, <1>6 DEF Used
  <2>2. u.arr[k] = x
    BY <1>2, <1>6
  <2> QED
    BY <1>7, <2>1, <2>2 DEF Content
<1>9. FirstFor(u, x, k)
  <2>1. \A i \in Slots(t) : Dist(u, x, i) = Dist(t, x, i)
    BY <1>5 DEF Dist, Home
  <2>2. \A j \in Slots(t) : Dist(t, x, j) < Dist(t, x, k) => t.arr[j] \notin {Null, x}
    BY <1>1 DEF FirstFor
  <2>3. ~(Dist(t, x, k) < Dist(t, x, k))
    BY <1>2, ProbesSlots, TableParts DEF Slots
  <2> QED
    BY <1>2, <1>5, <1>6, <2>1, <2>2, <2>3 DEF FirstFor
<1>10. Found(u, x)
  BY <1>2, <1>5, <1>6, <1>9, FirstIsKey DEF Found
<1> QED
  BY <1>2, <1>5, <1>7, <1>8, <1>9, <1>10 DEF u, k

(* Putting a new item into a sound table leaves it sound.                  *)
LEMMA PutKeepsSound ==
  ASSUME NEW t, IsTable(t), Sound(t), NEW x \in Items,
         \E i \in Slots(t) : t.arr[i] \in {Null, x}
  PROVE  Sound(Put(t, x))
<1> DEFINE u == Put(t, x)
           k == Key(t, x)
<1>1. /\ IsTable(u) /\ Slots(u) = Slots(t) /\ u.capacity = t.capacity /\ u.hash = t.hash
      /\ k \in Slots(t) /\ u.arr = [t.arr EXCEPT ![k] = x]
      /\ Used(u) = Used(t) \cup {k} /\ FirstFor(u, x, k) /\ t.arr[k] \in {Null, x}
  <2>1. FirstFor(t, x, k)
    BY KeyIsFirst
  <2> QED
    BY <2>1, PutIs DEF FirstFor
<1> HIDE DEF u, k
<1>2. \A i \in Slots(t) : u.arr[i] = IF i = k THEN x ELSE t.arr[i]
  BY <1>1, TableParts
<1>3. \A i \in Used(t) : t.arr[i] = x => i = k
  <2> SUFFICES ASSUME NEW i \in Used(t), t.arr[i] = x PROVE i = k
    OBVIOUS
  <2>1. Key(t, t.arr[i]) = i
    BY SoundFinds
  <2> QED
    BY <2>1 DEF k
<1>4. Distinct(u)
  BY <1>1, <1>2, <1>3 DEF Sound, Distinct, Used
<1>5. ASSUME NEW i \in Used(t), i # k PROVE FirstFor(u, u.arr[i], i)
  <2>1. i \in Slots(t) /\ u.arr[i] = t.arr[i] /\ t.arr[i] # x
    BY <1>2, <1>3, <1>5 DEF Used
  <2>2. FirstFor(t, t.arr[i], i)
    BY DEF Sound
  <2>3. \A y, j : Dist(u, y, j) = Dist(t, y, j)
    BY <1>1 DEF Dist, Home
  <2>4. x # Null
    BY TableParts
  <2> QED
    BY <1>1, <1>2, <2>1, <2>2, <2>3, <2>4 DEF FirstFor
<1>6. u.arr[k] = x
  BY <1>1, <1>2
<1> QED
  BY <1>1, <1>4, <1>5, <1>6 DEF Sound, u
-------------------------------------------------------------------------------
(* operator+=.                                                             *)

UsedBefore(t, n) == {i \in Used(t) : i < n}

(* The tables there may be while the first n slots of t are moved.         *)
Enlarging(t, n) ==
  {s \in Tables(2 * t.capacity) :
     /\ s.mode = t.mode /\ s.size = t.size /\ s.hash = t.hash
     /\ Sound(s)
     /\ Content(s) = {t.arr[i] : i \in UsedBefore(t, n)}
     /\ Count(s) <= Cardinality(UsedBefore(t, n))}

(* The enlarged table begins empty.                                        *)
LEMMA EnlargingStarts ==
  ASSUME NEW t, IsTable(t)
  PROVE  [t EXCEPT !.capacity = 2 * t.capacity,
                   !.arr = [i \in 0 .. 2 * t.capacity - 1 |-> Null]] \in Enlarging(t, 0)
<1> DEFINE c == 2 * t.capacity
           u == [t EXCEPT !.capacity = c, !.arr = [i \in 0 .. c - 1 |-> Null]]
<1>1. c \in Nat /\ c > 0
  BY TableParts
<1>2. /\ u \in Tables(c) /\ u.capacity = c /\ u.arr = [i \in 0 .. c - 1 |-> Null]
      /\ u.mode = t.mode /\ u.size = t.size /\ u.hash = t.hash
  BY <1>1 DEF IsTable, Tables
<1>3. Used(u) = {}
  BY <1>2 DEF Used, Slots
<1>4. Content(u) = {} /\ Count(u) = 0 /\ Sound(u)
  BY <1>3, FS_EmptySet DEF Content, Count, Sound, Distinct
<1>5. UsedBefore(t, 0) = {}
  BY TableParts DEF UsedBefore, Slots
<1>6. u \in Tables(2 * t.capacity)
  BY <1>2
<1> HIDE DEF u, c
<1>7. Content(u) = {t.arr[i] : i \in UsedBefore(t, 0)}
  BY <1>4, <1>5
<1>8. Cardinality(UsedBefore(t, 0)) = 0
  BY <1>5, FS_EmptySet
<1>9. u \in Enlarging(t, 0)
  BY <1>2, <1>4, <1>6, <1>7, <1>8 DEF Enlarging
<1> QED
  BY <1>9 DEF u, c

(* One turn of enlarging puts one more item into the new slots.            *)
LEMMA EnlargingGoesOn ==
  ASSUME NEW t, IsTable(t), NEW n \in 0 .. t.capacity - 1, NEW s \in Enlarging(t, n)
  PROVE  (IF t.arr[n] = Null THEN s ELSE Put(s, t.arr[n])) \in Enlarging(t, n + 1)
<1>1. /\ IsTable(s) /\ s \in Tables(2 * t.capacity) /\ s.capacity = 2 * t.capacity
      /\ s.mode = t.mode /\ s.size = t.size /\ s.hash = t.hash /\ Sound(s)
      /\ Content(s) = {t.arr[i] : i \in UsedBefore(t, n)}
      /\ Count(s) <= Cardinality(UsedBefore(t, n))
  BY TableParts DEF Enlarging, IsTable, Tables
<1>2. /\ IsFiniteSet(UsedBefore(t, n)) /\ Cardinality(UsedBefore(t, n)) \in Nat
      /\ Cardinality(UsedBefore(t, n)) <= Count(t)
  BY UsedIsFinite, FS_Subset, FS_CardinalityType DEF UsedBefore, Count
<1>3. CASE t.arr[n] = Null
  <2>1. UsedBefore(t, n + 1) = UsedBefore(t, n)
    BY <1>3, TableParts DEF UsedBefore, Used, Slots
  <2> QED
    BY <1>3, <2>1 DEF Enlarging
<1>4. CASE t.arr[n] # Null
  <2> DEFINE x == t.arr[n]
             u == Put(s, x)
  <2>1. /\ x \in Items /\ n \notin UsedBefore(t, n)
        /\ UsedBefore(t, n + 1) = UsedBefore(t, n) \cup {n}
    BY <1>4, TableParts DEF UsedBefore, Used, Slots
  <2>2. \E i \in Slots(s) : s.arr[i] \in {Null, x}
    <3>1. Count(s) < s.capacity
      BY <1>1, <1>2, UsedIsFinite, TableParts
    <3> QED
      BY <1>1, <3>1, SlotIsFree
  <2> HIDE DEF x
  <2>3. /\ IsTable(u) /\ u.capacity = s.capacity
        /\ u.mode = t.mode /\ u.size = t.size /\ u.hash = t.hash
        /\ Used(u) = Used(s) \cup {Key(s, x)} /\ Content(u) = Content(s) \cup {x}
        /\ Sound(u)
    BY <1>1, <2>1, <2>2, PutIs, PutKeepsSound
  <2> HIDE DEF u
  <2>4. u \in Tables(2 * t.capacity)
    BY <1>1, <2>3 DEF IsTable
  <2>5. Content(u) = {t.arr[i] : i \in UsedBefore(t, n + 1)}
    BY <1>1, <2>1, <2>3 DEF x
  <2>6. Cardinality(UsedBefore(t, n + 1)) = Cardinality(UsedBefore(t, n)) + 1
    BY <1>2, <2>1, FS_AddElement
  <2>7. Count(u) <= Count(s) + 1 /\ Count(s) \in Nat /\ Count(u) \in Nat
    <3>1. IsFiniteSet(Used(s)) /\ Count(s) \in Nat
      BY <1>1, UsedIsFinite
    <3>2. \/ Cardinality(Used(u)) = Cardinality(Used(s))
          \/ Cardinality(Used(u)) = Cardinality(Used(s)) + 1
      BY <2>3, <3>1, FS_AddElement
    <3> QED
      BY <3>1, <3>2 DEF Count
  <2>8. Count(u) <= Cardinality(UsedBefore(t, n + 1))
    BY <1>1, <1>2, <2>6, <2>7
  <2>9. u \in Enlarging(t, n + 1)
    BY <2>3, <2>4, <2>5, <2>8 DEF Enlarging
  <2> QED
    BY <1>4, <2>9 DEF u, x
<1> QED
  BY <1>3, <1>4

(* Enlarging the table loses and doubles nothing, and all is found after it*)
LEMMA EnlargedIs ==
  ASSUME NEW t, IsTable(t)
  PROVE  LET u == Enlarged(t)
         IN /\ IsTable(u) /\ u.capacity = 2 * t.capacity
            /\ u.mode = t.mode /\ u.size = t.size /\ u.hash = t.hash
            /\ Sound(u) /\ Content(u) = Content(t) /\ Count(u) <= Count(t)
<1> DEFINE N == t.capacity
           T == Tables(2 * N)
           start == [t EXCEPT !.capacity = 2 * N, !.arr = [i \in 0 .. 2 * N - 1 |-> Null]]
           Turn == [p \in T \X (0 .. N - 1) |->
                      IF t.arr[p[2]] = Null THEN p[1] ELSE Put(p[1], t.arr[p[2]])]
           Runs(f) == f = [n \in 0 .. N |->
                        IF n = 0 THEN start
                        ELSE IF t.arr[n - 1] = Null THEN f[n - 1]
                             ELSE Put(f[n - 1], t.arr[n - 1])]
           after == CHOOSE f : Runs(f)
<1>1. N \in Nat /\ N > 0
  BY TableParts
<1>2. start \in T /\ start \in Enlarging(t, 0)
  BY EnlargingStarts DEF Enlarging
<1>3. \E f : Runs(f)
  <2>1. Turn \in [T \X (0 .. N - 1) -> T]
    <3>1. ASSUME NEW s \in T, NEW n \in 0 .. N - 1, t.arr[n] # Null PROVE Put(s, t.arr[n]) \in T
      <4>1. t.arr[n] \in Items
        BY <3>1, TableParts DEF Slots
      <4> QED
        BY <4>1 DEF Put, Tables
    <3> HIDE DEF T
    <3> QED
      BY <3>1
  <2>2. PICK f \in [0 .. N -> T] : IsLoop(f, N, start, Turn)
    <3>1. start \in T
      BY <1>2
    <3> HIDE DEF Turn, start, T, N
    <3> QED
      BY <1>1, <2>1, <3>1, LoopExists
  <2>3. ASSUME NEW k \in 0 .. N, k # 0
        PROVE  f[k] = IF t.arr[k - 1] = Null THEN f[k - 1] ELSE Put(f[k - 1], t.arr[k - 1])
    <3> HIDE DEF T
    <3>1. k - 1 \in 0 .. N - 1 /\ (k - 1) + 1 = k
      BY <1>1, <2>3
    <3>2. f[k - 1] \in T
      BY <1>1, <2>2, <3>1
    <3>3. f[k] = Turn[<<f[k - 1], k - 1>>]
      <4> HIDE DEF Turn
      <4> QED
        BY <2>2, <3>1 DEF IsLoop
    <3> QED
      BY <3>1, <3>2, <3>3
  <2>4. Runs(f)
    <3> HIDE DEF Turn, start, T
    <3> QED
      BY <2>2, <2>3 DEF IsLoop
  <2> QED
    BY <2>4
<1>4. Runs(after)
  <2> HIDE DEF Runs
  <2> QED
    BY <1>3
<1>5. Enlarged(t) = after[N]
  BY DEF Enlarged
<1> HIDE DEF after
<1>6. \A n \in 0 .. N : after[n] \in Enlarging(t, n)
  <2> DEFINE G == [n \in 0 .. N |-> Enlarging(t, n)]
  <2>1. after[0] = start
    BY <1>1, <1>4
  <2>2. ASSUME NEW n \in 0 .. N - 1, after[n] \in Enlarging(t, n)
        PROVE  after[n + 1] \in Enlarging(t, n + 1)
    <3>1. after[n + 1] = IF t.arr[n] = Null THEN after[n] ELSE Put(after[n], t.arr[n])
      <4>1. n + 1 \in 0 .. N /\ n + 1 # 0 /\ (n + 1) - 1 = n
        BY <1>1
      <4> HIDE DEF start
      <4> QED
        BY <1>4, <4>1
    <3> QED
      BY <2>2, <3>1, EnlargingGoesOn
  <2>3. \A n \in 0 .. N : after[n] \in G[n]
    <3>1. after[0] \in G[0]
      <4> HIDE DEF start
      <4> QED
        BY <1>1, <1>2, <2>1
    <3>2. \A n \in 0 .. N - 1 : after[n] \in G[n] => after[n + 1] \in G[n + 1]
      BY <1>1, <2>2
    <3> HIDE DEF G
    <3> QED
      BY <1>1, <3>1, <3>2, LoopKeeps
  <2> QED
    BY <2>3
<1>7. Enlarged(t) \in Enlarging(t, N)
  BY <1>1, <1>5, <1>6
<1>8. UsedBefore(t, N) = Used(t)
  BY TableParts DEF UsedBefore, Slots
<1> DEFINE u == Enlarged(t)
<1> HIDE DEF u
<1>9. u \in Enlarging(t, N)
  BY <1>7 DEF u
<1>10. /\ u \in Tables(2 * t.capacity) /\ u.mode = t.mode /\ u.size = t.size /\ u.hash = t.hash
       /\ Sound(u) /\ Content(u) = Content(t) /\ Count(u) <= Count(t)
  BY <1>8, <1>9 DEF Enlarging, Content, Count
<1>11. IsTable(u) /\ u.capacity = 2 * t.capacity
  BY <1>1, <1>10 DEF IsTable, Tables
<1> QED
  BY <1>10, <1>11 DEF u

(* Neither does where an item is looked for.                               *)
LEMMA SameKeys ==
  ASSUME NEW t, NEW u, u.arr = t.arr, u.capacity = t.capacity, u.hash = t.hash
  PROVE  /\ \A x : Key(u, x) = Key(t, x) /\ (Found(u, x) <=> Found(t, x))
         /\ Sound(u) <=> Sound(t)
         /\ Distinct(u) <=> Distinct(t)
         /\ Used(u) = Used(t) /\ Content(u) = Content(t) /\ Count(u) = Count(t)
<1>1. Slots(u) = Slots(t) /\ \A x : Home(u, x) = Home(t, x)
  BY DEF Slots, Home
<1>2. \A x, d : Probe(u, x, d) = Probe(t, x, d) /\ Dist(u, x, d) = Dist(t, x, d)
  BY <1>1 DEF Probe, Dist
<1>3. \A x : {d \in Slots(u) : u.arr[Probe(u, x, d)] \in {Null, x}}
             = {d \in Slots(t) : t.arr[Probe(t, x, d)] \in {Null, x}}
  BY <1>1, <1>2
<1>4. \A x : Key(u, x) = Key(t, x)
  BY <1>2, <1>3 DEF Key
<1>5. Used(u) = Used(t) /\ Content(u) = Content(t)
  BY <1>1 DEF Used, Content
<1>6. \A x, i : FirstFor(u, x, i) <=> FirstFor(t, x, i)
  BY <1>1, <1>2 DEF FirstFor
<1>7. Distinct(u) <=> Distinct(t)
  BY <1>5 DEF Distinct
<1>8. Sound(u) <=> Sound(t)
  BY <1>5, <1>6, <1>7 DEF Sound
<1> QED
  BY <1>4, <1>5, <1>7, <1>8 DEF Found, Count

(* After operator+= the item is found, as are those that were, and there   *)
(* is an empty slot again: the table never fills up.                       *)
LEMMA AddedIs ==
  ASSUME NEW t, IsTable(t), t.size \in Nat, Count(t) <= t.size, t.size < t.capacity,
         NEW x \in Items
  PROVE  LET u == Added(t, x)
         IN /\ IsTable(u) /\ u.mode = t.mode /\ u.hash = t.hash
            /\ u.size = t.size + 1 /\ u.size < u.capacity /\ Count(u) <= u.size
            /\ Content(u) = Content(t) \cup {x} /\ Found(u, x)
            /\ Sound(t) => Sound(u)
<1> DEFINE roomy == IF Full(t) THEN Enlarged(t) ELSE t
           v == Put(roomy, x)
           u == Added(t, x)
<1>1. /\ IsTable(roomy) /\ roomy.mode = t.mode /\ roomy.hash = t.hash /\ roomy.size = t.size
      /\ Content(roomy) = Content(t) /\ Count(roomy) <= Count(t)
      /\ Sound(t) => Sound(roomy)
      /\ t.size + 1 < roomy.capacity
  <2>1. CASE Full(t)
    <3>1. t.size + 1 < 2 * t.capacity
      BY TableParts
    <3> QED
      BY <2>1, <3>1, EnlargedIs
  <2>2. CASE ~Full(t)
    <3>1. t.capacity \in Nat /\ t.capacity > 0
      BY TableParts
    <3>2. t.size < (t.capacity * 819) \div 1024
      BY <2>2, <3>1 DEF Full
    <3>3. t.size + 1 < t.capacity
      BY <3>1, <3>2
    <3>4. Count(t) \in Nat
      BY UsedIsFinite
    <3> QED
      BY <2>2, <3>3, <3>4
  <2> QED
    BY <2>1, <2>2
<1> HIDE DEF roomy
<1>2. Count(roomy) \in Nat /\ Count(t) \in Nat /\ roomy.capacity \in Nat /\ IsFiniteSet(Used(roomy))
  BY <1>1, UsedIsFinite, TableParts
<1>3. \E i \in Slots(roomy) : roomy.arr[i] \in {Null, x}
  <2>1. Count(roomy) < roomy.capacity
    BY <1>1, <1>2
  <2> QED
    BY <1>1, <2>1, SlotIsFree
<1>4. /\ IsTable(v) /\ v.capacity = roomy.capacity
      /\ v.mode = t.mode /\ v.size = t.size /\ v.hash = t.hash
      /\ Used(v) = Used(roomy) \cup {Key(roomy, x)}
      /\ Content(v) = Content(t) \cup {x} /\ Found(v, x)
  <2>1. /\ IsTable(v) /\ v.capacity = roomy.capacity
        /\ v.mode = roomy.mode /\ v.size = roomy.size /\ v.hash = roomy.hash
        /\ Used(v) = Used(roomy) \cup {Key(roomy, x)}
        /\ Content(v) = Content(roomy) \cup {x} /\ Found(v, x)
    BY <1>1, <1>3, PutIs
  <2> HIDE DEF v
  <2> QED
    BY <1>1, <2>1
<1>5. Sound(t) => Sound(v)
  BY <1>1, <1>3, PutKeepsSound
<1>6. Count(v) <= t.size + 1
  <2>1. \/ Cardinality(Used(v)) = Cardinality(Used(roomy))
        \/ Cardinality(Used(v)) = Cardinality(Used(roomy)) + 1
    BY <1>2, <1>4, FS_AddElement
  <2> QED
    BY <1>1, <1>2, <2>1 DEF Count
<1> HIDE DEF v
<1>7. u = [v EXCEPT !.size = t.size + 1]
  BY DEF Added, roomy, v
<1>8. /\ IsTable(u) /\ u.arr = v.arr /\ u.mode = v.mode /\ u.size = t.size + 1
      /\ u.hash = v.hash /\ u.capacity = v.capacity
  <2> HIDE DEF u
  <2> QED
    BY <1>4, <1>7, OtherCounter
<1> HIDE DEF u
<1>9. /\ \A y : Found(u, y) <=> Found(v, y)
      /\ Sound(u) <=> Sound(v)
      /\ Content(u) = Content(v) /\ Count(u) = Count(v)
  BY <1>8, SameKeys
<1> QED
  BY <1>1, <1>4, <1>5, <1>6, <1>8, <1>9 DEF u
-------------------------------------------------------------------------------
(* fix, for a hash table.                                                  *)

(* Moving an item overwrites nothing else and makes no second one.         *)
LEMMA SlotMoved ==
  ASSUME NEW t, IsTable(t), NEW i \in Used(t), NEW k \in Slots(t), k # i,
         t.arr[k] \in {Null, t.arr[i]}
  PROVE  LET u == [t EXCEPT !.arr = [t.arr EXCEPT ![k] = t.arr[i], ![i] = Null]]
         IN /\ IsTable(u) /\ u.capacity = t.capacity /\ u.mode = t.mode
            /\ u.size = t.size /\ u.hash = t.hash
            /\ \A j \in Slots(t) :
                 u.arr[j] = IF j = i THEN Null ELSE IF j = k THEN t.arr[i] ELSE t.arr[j]
            /\ Content(u) = Content(t) /\ Count(u) <= Count(t)
            /\ Distinct(t) => Distinct(u)
<1> DEFINE x == t.arr[i]
           a == [t.arr EXCEPT ![k] = x, ![i] = Null]
           u == [t EXCEPT !.arr = a]
<1>1. i \in Slots(t) /\ x \in Items /\ x # Null
  BY TableParts
<1>3. t.arr[k] \in {Null, x}
  OBVIOUS
<1>4. a \in [Slots(t) -> Items \cup {Null}]
  BY <1>1, TableParts
<1>6. /\ IsTable(u) /\ u.arr = a /\ Slots(u) = Slots(t) /\ u.capacity = t.capacity
      /\ u.mode = t.mode /\ u.size = t.size /\ u.hash = t.hash
  <2> HIDE DEF a
  <2> QED
    BY <1>4, OtherSlots
<1>7. \A j \in Slots(t) : u.arr[j] = IF j = i THEN Null ELSE IF j = k THEN x ELSE t.arr[j]
  BY <1>1, <1>6, TableParts
<1> HIDE DEF u
<1>8. Used(u) = (Used(t) \cup {k}) \ {i}
  BY <1>1, <1>3, <1>6, <1>7 DEF Used
<1>9. Content(u) = Content(t)
  <2>1. ASSUME NEW y \in Content(u) PROVE y \in Content(t)
    BY <1>1, <1>3, <1>6, <1>7, <2>1 DEF Content, Used
  <2>2. ASSUME NEW y \in Content(t) PROVE y \in Content(u)
    <3>1. PICK j \in Used(t) : t.arr[j] = y
      BY <2>2 DEF Content
    <3>2. CASE y = x
      BY <1>1, <1>3, <1>7, <1>8, <3>2 DEF Content
    <3>3. CASE y # x
      BY <1>1, <1>3, <1>7, <1>8, <3>1, <3>3 DEF Content, Used
    <3> QED
      BY <3>2, <3>3
  <2> QED
    BY <2>1, <2>2
<1>10. Count(u) <= Count(t)
  <2> DEFINE R == Used(t) \ {i}
  <2>1. IsFiniteSet(Used(t)) /\ Count(t) \in Nat
    BY UsedIsFinite
  <2>2. IsFiniteSet(R) /\ Cardinality(R) = Count(t) - 1
    BY <2>1, FS_RemoveElement DEF Count
  <2>3. Used(u) = R \cup {k}
    BY <1>1, <1>8
  <2> HIDE DEF R
  <2>4. Cardinality(R \cup {k}) = Cardinality(R) \/ Cardinality(R \cup {k}) = Cardinality(R) + 1
    BY <2>2, FS_AddElement
  <2> QED
    BY <2>1, <2>2, <2>3, <2>4 DEF Count
<1>11. Distinct(t) => Distinct(u)
  <2> SUFFICES ASSUME Distinct(t), NEW j \in Used(u), NEW m \in Used(u), u.arr[j] = u.arr[m]
               PROVE  j = m
    BY DEF Distinct
  <2>1. ASSUME NEW l \in Used(t), l # i PROVE t.arr[l] # x
    BY <2>1 DEF Distinct
  <2>2. t.arr[k] = Null
    BY <1>1, <1>3, <2>1 DEF Used
  <2>3. ASSUME NEW l \in Used(u), l # k PROVE l \in Used(t) /\ l # i /\ u.arr[l] = t.arr[l]
    BY <1>7, <1>8, <2>3 DEF Used
  <2>4. u.arr[k] = x
    BY <1>1, <1>3, <1>7
  <2> QED
    BY <2>1, <2>3, <2>4 DEF Distinct
<1> QED
  BY <1>6, <1>7, <1>9, <1>10, <1>11 DEF u

(* fix() moves an item to another slot, which was empty.                   *)
LEMMA MovedIs ==
  ASSUME NEW t, IsTable(t), NEW i \in Used(t), Key(t, t.arr[i]) # i
  PROVE  LET u == Moved(t, i)
             k == Key(t, t.arr[i])
         IN /\ IsTable(u) /\ u.capacity = t.capacity /\ u.mode = t.mode
            /\ u.size = t.size /\ u.hash = t.hash
            /\ k \in Slots(t) /\ FirstFor(t, t.arr[i], k)
            /\ \A j \in Slots(t) :
                 u.arr[j] = IF j = i THEN Null ELSE IF j = k THEN t.arr[i] ELSE t.arr[j]
            /\ Content(u) = Content(t) /\ Count(u) <= Count(t)
            /\ Distinct(t) => Distinct(u)
<1> DEFINE k == Key(t, t.arr[i])
<1>1. i \in Slots(t) /\ t.arr[i] \in Items /\ t.arr[i] # Null
  BY TableParts
<1>2. FirstFor(t, t.arr[i], k)
  BY <1>1, KeyIsFirst
<1>3. k \in Slots(t) /\ t.arr[k] \in {Null, t.arr[i]}
  BY <1>2 DEF FirstFor
<1>4. Moved(t, i) = [t EXCEPT !.arr = [t.arr EXCEPT ![k] = t.arr[i], ![i] = Null]]
  BY <1>1 DEF Moved
<1> HIDE DEF k
<1> QED
  BY <1>2, <1>3, <1>4, SlotMoved DEF k

(* No item is in a slot before the one it hashes to: none was put there by *)
(* a probe that went on from the last slot to the first.                   *)
NoneEarly(t) == \A i \in Used(t) : Home(t, t.arr[i]) <= i

(* t became s when its first n slots were visited.                         *)
Repaired(t, s, n) ==
  /\ Distinct(s) /\ NoneEarly(s)
  /\ \A i \in Slots(t) : i >= n => s.arr[i] = t.arr[i]
  /\ \A i \in Used(s), j \in Slots(s) :
       i < n /\ Home(s, s.arr[i]) <= j /\ j < i => s.arr[j] # Null

Repairing(t, n) ==
  {s \in Tables(t.capacity) :
     /\ s.mode = t.mode /\ s.size = t.size /\ s.hash = t.hash
     /\ Content(s) = Content(t) /\ Count(s) <= Count(t)
     /\ Distinct(t) => Distinct(s)
     /\ Distinct(t) /\ NoneEarly(t) => Repaired(t, s, n)}

(* What is to be shown of one visit: the item goes to the first empty slot *)
(* from its own on, which is before the one it was in.                     *)
LEMMA RepairingGoesOn ==
  ASSUME NEW t, IsTable(t), NEW s, IsTable(s), s.capacity = t.capacity,
         NEW n \in Slots(t), Repaired(t, s, n)
  PROVE  Repaired(t, Moved(s, n), n + 1)
<1> DEFINE u == Moved(s, n)
           x == s.arr[n]
           k == Key(s, x)
<1>1. Slots(s) = Slots(t) /\ Slots(t) = 0 .. t.capacity - 1 /\ t.capacity \in Nat
  BY TableParts DEF Slots
<1>2. ASSUME NEW i \in Used(s) PROVE Home(s, s.arr[i]) \in Slots(t)
  BY <1>1, TableParts, HomeIsSlot
<1>3. CASE s.arr[n] = Null
  <2>1. u = s
    BY <1>3 DEF Moved
  <2>2. \A i \in Used(s) : i < n + 1 => i < n
    BY <1>1, <1>3 DEF Used
  <2>3. \A i \in Slots(t) : i >= n + 1 => i >= n
    BY <1>1
  <2> QED
    BY <2>1, <2>2, <2>3 DEF Repaired
<1>4. CASE s.arr[n] # Null /\ k = n
  <2>1. u = s
    BY <1>4 DEF Moved
  <2>2. n \in Used(s) /\ x \in Items
    BY <1>1, <1>4, TableParts DEF Used
  <2>3. FirstFor(s, x, n)
    BY <1>1, <1>4, <2>2, KeyIsFirst
  <2>4. Home(s, x) <= n /\ Home(s, x) \in Slots(t)
    BY <1>2, <2>2 DEF Repaired, NoneEarly
  <2>5. \A j \in Slots(s) : Home(s, x) <= j /\ j < n => s.arr[j] # Null
    <3> TAKE j \in Slots(s)
    <3>1. Home(s, x) <= j /\ j < n => Dist(s, x, j) < Dist(s, x, n)
      BY <1>1, <2>4 DEF Dist
    <3> QED
      BY <2>3, <3>1 DEF FirstFor
  <2>6. \A i \in Used(s) : i < n + 1 => i < n \/ i = n
    BY <1>1 DEF Used
  <2>7. \A i \in Slots(t) : i >= n + 1 => i >= n
    BY <1>1
  <2> QED
    BY <2>1, <2>5, <2>6, <2>7 DEF Repaired
<1>5. CASE s.arr[n] # Null /\ k # n
  <2>1. n \in Used(s) /\ x \in Items
    BY <1>1, <1>5, TableParts DEF Used
  <2>2. /\ IsTable(u) /\ u.capacity = s.capacity /\ u.hash = s.hash
        /\ k \in Slots(s) /\ FirstFor(s, x, k)
        /\ \A j \in Slots(s) :
             u.arr[j] = IF j = n THEN Null ELSE IF j = k THEN x ELSE s.arr[j]
        /\ Distinct(u)
    BY <1>5, <2>1, MovedIs DEF Repaired
  <2> HIDE DEF u, x, k
  <2>3. Home(s, x) <= n /\ Home(s, x) \in Slots(t)
    BY <1>2, <2>1 DEF Repaired, NoneEarly, x
  <2>4. Home(s, x) <= k /\ k < n
    <3>1. ~(Dist(s, x, n) < Dist(s, x, k))
      BY <1>1, <2>2 DEF FirstFor, x
    <3> QED
      BY <1>1, <1>5, <2>2, <2>3, <3>1 DEF Dist
  <2>5. \A j \in Slots(s) : Home(s, x) <= j /\ j < k => s.arr[j] # Null
    <3> TAKE j \in Slots(s)
    <3>1. Home(s, x) <= j /\ j < k => Dist(s, x, j) < Dist(s, x, k)
      BY <1>1, <2>2, <2>3, <2>4 DEF Dist
    <3> QED
      BY <2>2, <3>1 DEF FirstFor
  <2>6. Slots(u) = Slots(s) /\ \A y : Home(u, y) = Home(s, y)
    BY <2>2 DEF Slots, Home
  <2>7. ASSUME NEW i \in Used(u)
        PROVE  \/ i = k /\ u.arr[i] = x
               \/ i # k /\ i # n /\ i \in Used(s) /\ u.arr[i] = s.arr[i]
    BY <2>2, <2>4, <2>6 DEF Used
  <2>8. NoneEarly(u)
    BY <2>4, <2>6, <2>7 DEF NoneEarly, Repaired
  <2>9. \A i \in Slots(t) : i >= n + 1 => u.arr[i] = t.arr[i]
    <3> TAKE i \in Slots(t)
    <3>1. i >= n + 1 => i >= n /\ i # n /\ i # k
      BY <1>1, <2>2, <2>4
    <3> QED
      BY <1>1, <2>2, <3>1 DEF Repaired
  <2>10. ASSUME NEW i \in Used(u), NEW j \in Slots(u),
                i < n + 1, Home(u, u.arr[i]) <= j, j < i
         PROVE  u.arr[j] # Null
    <3>1. j # n
      BY <1>1, <2>4, <2>6, <2>7, <2>10 DEF Used
    <3>2. s.arr[j] # Null => u.arr[j] # Null
      BY <2>1, <2>2, <2>6, <3>1, ItemsAssumption
    <3>3. CASE i = k
      BY <2>5, <2>6, <2>7, <2>10, <3>2, <3>3
    <3>4. CASE i # k
      <4>1. i \in Used(s) /\ u.arr[i] = s.arr[i] /\ i # n
        BY <2>7, <3>4
      <4>2. i < n
        BY <1>1, <2>10, <4>1 DEF Used
      <4> QED
        BY <2>6, <2>10, <3>2, <4>1, <4>2 DEF Repaired
    <3> QED
      BY <3>3, <3>4
  <2>11. Repaired(t, u, n + 1)
    BY <2>2, <2>8, <2>9, <2>10 DEF Repaired
  <2> QED
    BY <2>11 DEF u
<1> QED
  BY <1>3, <1>4, <1>5

(* At the end every item is where it is looked for.                        *)
LEMMA RepairedIsSound ==
  ASSUME NEW t, NEW s, IsTable(s), s.capacity = t.capacity, Repaired(t, s, t.capacity)
  PROVE  Sound(s)
<1>1. SUFFICES ASSUME NEW i \in Used(s) PROVE FirstFor(s, s.arr[i], i)
  BY DEF Sound, Repaired
<1> DEFINE x == s.arr[i]
           h == Home(s, x)
<1>2. i \in Slots(s) /\ x \in Items
  BY TableParts
<1>3. h \in Slots(s) /\ h <= i
  BY <1>2, HomeIsSlot DEF Repaired, NoneEarly
<1> HIDE DEF x, h
<1>4. ASSUME NEW j \in Slots(s), Dist(s, x, j) < Dist(s, x, i) PROVE s.arr[j] \notin {Null, x}
  <2>1. h <= j /\ j < i
    BY <1>2, <1>3, <1>4, TableParts DEF Dist, Slots, h
  <2>2. i < s.capacity
    BY <1>2, TableParts DEF Slots
  <2>3. s.arr[j] # Null
    BY <2>1, <2>2 DEF Repaired, h, x
  <2>4. s.arr[j] # x
    <3>1. j \in Used(s) /\ j # i
      BY <1>2, <2>1, <2>3, TableParts DEF Used, Slots
    <3> QED
      BY <3>1 DEF Repaired, Distinct, x
  <2> QED
    BY <2>3, <2>4
<1> QED
  BY <1>2, <1>4 DEF FirstFor, x

(* One visit of fix() in a hash table, whether it moves the item or not.   *)
LEMMA VisitIs ==
  ASSUME NEW t, IsTable(t), NEW n \in Slots(t), NEW s \in Repairing(t, n)
  PROVE  Moved(s, n) \in Repairing(t, n + 1)
<1> DEFINE u == Moved(s, n)
<1>1. /\ IsTable(s) /\ s.capacity = t.capacity /\ Slots(s) = Slots(t)
      /\ s.mode = t.mode /\ s.size = t.size /\ s.hash = t.hash
      /\ Content(s) = Content(t) /\ Count(s) <= Count(t)
      /\ Distinct(t) => Distinct(s)
      /\ Distinct(t) /\ NoneEarly(t) => Repaired(t, s, n)
  BY TableParts DEF Repairing, IsTable, Tables, Slots
<1>2. Distinct(t) /\ NoneEarly(t) => Repaired(t, u, n + 1)
  BY <1>1, RepairingGoesOn
<1>3. /\ IsTable(u) /\ u.capacity = s.capacity /\ u.mode = s.mode
      /\ u.size = s.size /\ u.hash = s.hash
      /\ Content(u) = Content(s) /\ Count(u) <= Count(s)
      /\ Distinct(s) => Distinct(u)
  <2>1. CASE s.arr[n] = Null \/ Key(s, s.arr[n]) = n
    <3>1. u = s
      BY <2>1 DEF Moved
    <3> QED
      BY <1>1, <3>1, UsedIsFinite
  <2>2. CASE s.arr[n] # Null /\ Key(s, s.arr[n]) # n
    <3>1. n \in Used(s)
      BY <1>1, <2>2 DEF Used
    <3> QED
      BY <1>1, <2>2, <3>1, MovedIs
  <2> QED
    BY <2>1, <2>2
<1> HIDE DEF u
<1>4. Count(u) <= Count(t)
  BY <1>1, <1>3, UsedIsFinite
<1>5. u \in Tables(t.capacity)
  BY <1>1, <1>3 DEF IsTable
<1>6. u \in Repairing(t, n + 1)
  BY <1>1, <1>2, <1>3, <1>4, <1>5 DEF Repairing
<1> QED
  BY <1>6 DEF u

(* fix loses and doubles nothing; and all is found after it, unless an     *)
(* item was stored before the slot it hashes to.                           *)
LEMMA FixHashIs ==
  ASSUME NEW t, IsTable(t)
  PROVE  LET u == FixHash(t)
         IN /\ IsTable(u) /\ u.capacity = t.capacity
            /\ u.mode = t.mode /\ u.size = t.size /\ u.hash = t.hash
            /\ Content(u) = Content(t) /\ Count(u) <= Count(t)
            /\ Distinct(t) => Distinct(u)
            /\ Distinct(t) /\ NoneEarly(t) => Sound(u)
<1> DEFINE N == t.capacity
           T == Tables(N)
           Turn == [p \in T \X (0 .. N - 1) |-> Moved(p[1], p[2])]
           Runs(f) == f = [n \in 0 .. N |-> IF n = 0 THEN t ELSE Moved(f[n - 1], n - 1)]
           after == CHOOSE f : Runs(f)
<1>1. N \in Nat /\ N > 0 /\ Slots(t) = 0 .. N - 1
  BY TableParts DEF Slots
<1>2. t \in T /\ t \in Repairing(t, 0)
  <2>1. t \in T
    BY DEF IsTable
  <2>2. \A i \in Used(t) : ~(i < 0)
    BY <1>1 DEF Used
  <2>3. Count(t) <= Count(t)
    BY UsedIsFinite
  <2>4. Distinct(t) /\ NoneEarly(t) => Repaired(t, t, 0)
    BY <2>2 DEF Repaired
  <2> QED
    BY <2>1, <2>3, <2>4 DEF Repairing
<1>3. \E f : Runs(f)
  <2>1. Turn \in [T \X (0 .. N - 1) -> T]
    <3>1. ASSUME NEW s \in T, NEW n \in 0 .. N - 1 PROVE Moved(s, n) \in T
      <4>1. IsTable(s) /\ Slots(s) = 0 .. N - 1 /\ s.capacity = N
        BY <1>1 DEF IsTable, Tables, Slots
      <4>2. CASE n \in Used(s) /\ Key(s, s.arr[n]) # n
        <5>1. IsTable(Moved(s, n)) /\ Moved(s, n).capacity = N
          <6> HIDE DEF T, N
          <6> QED
            BY <4>1, <4>2, MovedIs
        <5> QED
          BY <5>1 DEF IsTable
      <4>3. CASE ~(n \in Used(s) /\ Key(s, s.arr[n]) # n)
        BY <4>1, <4>3 DEF Moved, Used
      <4> QED
        BY <4>2, <4>3
    <3> HIDE DEF T
    <3> QED
      BY <3>1
  <2>2. PICK f \in [0 .. N -> T] : IsLoop(f, N, t, Turn)
    <3> HIDE DEF Turn, T, N
    <3> QED
      BY <1>1, <1>2, <2>1, LoopExists
  <2>3. ASSUME NEW k \in 0 .. N, k # 0
        PROVE  f[k] = Moved(f[k - 1], k - 1)
    <3> HIDE DEF T
    <3>1. k - 1 \in 0 .. N - 1 /\ (k - 1) + 1 = k
      BY <1>1, <2>3
    <3>2. f[k - 1] \in T
      <4>1. k - 1 \in 0 .. N /\ f \in [0 .. N -> T]
        BY <1>1, <2>2, <2>3, <3>1
      <4> HIDE DEF N
      <4> QED
        BY <4>1
    <3>3. f[k] = Turn[<<f[k - 1], k - 1>>]
      <4> HIDE DEF Turn
      <4> QED
        BY <2>2, <3>1 DEF IsLoop
    <3> QED
      BY <3>1, <3>2, <3>3
  <2>4. Runs(f)
    <3> HIDE DEF Turn, T
    <3> QED
      BY <2>2, <2>3 DEF IsLoop
  <2> QED
    BY <2>4
<1>4. Runs(after)
  <2> HIDE DEF Runs
  <2> QED
    BY <1>3
<1>5. FixHash(t) = after[N]
  BY DEF FixHash
<1> HIDE DEF after
<1>6. \A n \in 0 .. N : after[n] \in Repairing(t, n)
  <2> DEFINE G == [n \in 0 .. N |-> Repairing(t, n)]
  <2>1. after[0] \in G[0]
    BY <1>1, <1>2, <1>4
  <2>2. ASSUME NEW n \in 0 .. N - 1, after[n] \in Repairing(t, n)
        PROVE  after[n + 1] \in Repairing(t, n + 1)
    <3>1. n + 1 \in 0 .. N /\ n + 1 # 0 /\ (n + 1) - 1 = n
      BY <1>1
    <3>2. after[n + 1] = Moved(after[n], n)
      BY <1>4, <3>1
    <3>3. n \in Slots(t)
      BY <1>1
    <3> QED
      BY <2>2, <3>2, <3>3, VisitIs
  <2>3. \A n \in 0 .. N - 1 : after[n] \in G[n] => after[n + 1] \in G[n + 1]
    BY <1>1, <2>2
  <2>4. \A n \in 0 .. N : after[n] \in G[n]
    <3> HIDE DEF G
    <3> QED
      BY <1>1, <2>1, <2>3, LoopKeeps
  <2> QED
    BY <2>4
<1> DEFINE u == FixHash(t)
<1>7. u \in Repairing(t, N)
  BY <1>1, <1>5, <1>6
<1> HIDE DEF u
<1>8. /\ u \in Tables(t.capacity) /\ u.mode = t.mode /\ u.size = t.size /\ u.hash = t.hash
      /\ Content(u) = Content(t) /\ Count(u) <= Count(t)
      /\ Distinct(t) => Distinct(u)
      /\ Distinct(t) /\ NoneEarly(t) => Repaired(t, u, t.capacity)
  BY <1>7 DEF Repairing
<1>9. IsTable(u) /\ u.capacity = t.capacity
  BY <1>1, <1>8 DEF IsTable, Tables
<1>10. Distinct(t) /\ NoneEarly(t) => Sound(u)
  BY <1>8, <1>9, RepairedIsSound
<1> QED
  BY <1>8, <1>9, <1>10 DEF u
-------------------------------------------------------------------------------
(* fix, for a vector.                                                      *)

Scans(c) == [arr : [0 .. c - 1 -> Items \cup {Null}], i : Nat, j : -1 .. c - 1]

(* How far the two ends have come: no hole is left before i.               *)
Filling(t) ==
  {s \in Scans(t.capacity) :
     LET u == [t EXCEPT !.arr = s.arr]
     IN /\ \A k \in Slots(t) : k < s.i => s.arr[k] # Null
        /\ Content(u) = Content(t) /\ Count(u) <= Count(t)
        /\ Distinct(t) => Distinct(u)}

(* What one turn does.                                                     *)
LEMMA HoleIs ==
  ASSUME NEW c \in Nat, NEW s \in Scans(c), s.i <= s.j
  PROVE  /\ HoleFilled(s) \in Scans(c)
         /\ \E i \in s.i .. s.j : \E j \in i .. s.j :
              /\ HoleFilled(s) = [arr |-> [s.arr EXCEPT ![i] = s.arr[j], ![j] = Null],
                                  i |-> i, j |-> j - 1]
              /\ i = s.j \/ s.arr[i] = Null
              /\ \A k \in s.i .. i - 1 : s.arr[k] # Null
              /\ j = i \/ s.arr[j] # Null
<1> DEFINE I == {k \in s.i .. s.j : k = s.j \/ s.arr[k] = Null}
           i == Min(I)
           J == {k \in i .. s.j : k = i \/ s.arr[k] # Null}
           j == Max(J)
           h == [arr |-> [s.arr EXCEPT ![i] = s.arr[j], ![j] = Null], i |-> i, j |-> j - 1]
<1>1. s.i \in Nat /\ s.j \in 0 .. c - 1 /\ s.arr \in [0 .. c - 1 -> Items \cup {Null}]
  BY DEF Scans
<1>2. i \in I /\ \A k \in I : i <= k
  <2>1. I \subseteq Nat /\ I # {}
    BY <1>1
  <2> HIDE DEF I
  <2> QED
    BY <2>1, MinIs
<1>3. i \in s.i .. s.j /\ (i = s.j \/ s.arr[i] = Null)
  <2> HIDE DEF i
  <2> QED
    BY <1>2
<1> HIDE DEF i
<1>4. \A k \in s.i .. i - 1 : s.arr[k] # Null
  <2> SUFFICES ASSUME NEW k \in s.i .. i - 1, s.arr[k] = Null PROVE FALSE
    OBVIOUS
  <2>1. k \in I /\ k < i
    BY <1>1, <1>3
  <2> QED
    BY <1>1, <1>2, <1>3, <2>1
<1>5. j \in J
  <2>1. J \subseteq 0 .. c - 1 /\ J # {} /\ c - 1 \in Nat
    BY <1>1, <1>3
  <2> HIDE DEF J
  <2> QED
    BY <2>1, MaxIs
<1>6. j \in i .. s.j /\ (j = i \/ s.arr[j] # Null)
  <2> HIDE DEF j
  <2> QED
    BY <1>5
<1>7. HoleFilled(s) = h
  BY DEF HoleFilled, i
<1> HIDE DEF j
<1>8. h \in Scans(c)
  <2>1. i \in 0 .. c - 1 /\ j \in 0 .. c - 1
    BY <1>1, <1>3, <1>6
  <2>2. s.arr[j] \in Items \cup {Null}
    BY <1>1, <2>1
  <2>3. [s.arr EXCEPT ![i] = s.arr[j], ![j] = Null] \in [0 .. c - 1 -> Items \cup {Null}]
    BY <1>1, <2>1, <2>2
  <2>4. j - 1 \in -1 .. c - 1 /\ i \in Nat
    BY <2>1
  <2> QED
    BY <2>3, <2>4 DEF Scans
<1> QED
  BY <1>3, <1>4, <1>6, <1>7, <1>8

(* A turn of fix() in a vector moves the last item to the first hole.      *)
LEMMA FillingGoesOn ==
  ASSUME NEW t, IsTable(t), t.size \in Nat, Count(t) <= t.size,
         NEW s \in Filling(t), s.i < t.size, s.j >= t.size
  PROVE  HoleFilled(s) \in Filling(t)
<1> DEFINE h == HoleFilled(s)
           u == [t EXCEPT !.arr = s.arr]
<1>1. /\ s \in Scans(t.capacity) /\ s.i \in Nat
      /\ \A k \in Slots(t) : k < s.i => s.arr[k] # Null
      /\ Content(u) = Content(t) /\ Count(u) <= Count(t)
      /\ Distinct(t) => Distinct(u)
  BY DEF Filling, Scans
<1>2. /\ t.capacity \in Nat /\ s.i <= s.j /\ s.j \in 0 .. t.capacity - 1
      /\ s.arr \in [Slots(t) -> Items \cup {Null}] /\ Slots(t) = 0 .. t.capacity - 1
  BY <1>1, TableParts DEF Scans, Slots
<1>3. /\ IsTable(u) /\ u.arr = s.arr /\ Slots(u) = Slots(t) /\ u.mode = t.mode
      /\ u.size = t.size /\ u.hash = t.hash /\ u.capacity = t.capacity
  BY <1>2, OtherSlots
<1>4. h \in Scans(t.capacity)
  BY <1>1, <1>2, HoleIs
<1>5. PICK i \in s.i .. s.j : \E j \in i .. s.j :
              /\ h = [arr |-> [s.arr EXCEPT ![i] = s.arr[j], ![j] = Null], i |-> i, j |-> j - 1]
              /\ i = s.j \/ s.arr[i] = Null
              /\ \A k \in s.i .. i - 1 : s.arr[k] # Null
              /\ j = i \/ s.arr[j] # Null
  BY <1>1, <1>2, HoleIs
<1>6. PICK j \in i .. s.j :
              /\ h = [arr |-> [s.arr EXCEPT ![i] = s.arr[j], ![j] = Null], i |-> i, j |-> j - 1]
              /\ i = s.j \/ s.arr[i] = Null
              /\ \A k \in s.i .. i - 1 : s.arr[k] # Null
              /\ j = i \/ s.arr[j] # Null
  BY <1>5
<1>7. i \in Slots(t) /\ j \in Slots(t) /\ i \in Nat
  BY <1>1, <1>2, <1>5, <1>6
<1>8. \A k \in Slots(t) : k < i => s.arr[k] # Null
  <2> TAKE k \in Slots(t)
  <2>1. k < s.i \/ k >= s.i
    BY <1>1, <1>2
  <2>2. k >= s.i /\ k < i => k \in s.i .. i - 1
    BY <1>1, <1>2, <1>7
  <2> QED
    BY <1>1, <1>6, <2>1, <2>2

(* Otherwise there are more items than the counter says.                   *)
<1>9. s.arr[i] = Null
  <2>1. SUFFICES ASSUME i = s.j, s.arr[i] # Null PROVE FALSE
    BY <1>6
  <2>2. 0 .. i \subseteq Used(u)
    <3> SUFFICES ASSUME NEW k \in 0 .. i PROVE k \in Used(u)
      OBVIOUS
    <3>1. k \in Slots(t) /\ (k < i \/ k = i)
      BY <1>2, <1>7
    <3> QED
      BY <1>3, <1>8, <2>1, <3>1 DEF Used
  <2>3. IsFiniteSet(0 .. i) /\ Cardinality(0 .. i) = i + 1
    <3> HIDE DEF u
    <3> QED
      BY <1>7, FS_Interval
  <2>4. i + 1 <= Count(u)
    BY <1>3, <2>2, <2>3, UsedIsFinite, FS_Subset DEF Count
  <2>5. Count(u) \in Nat /\ Count(t) \in Nat
    BY <1>3, UsedIsFinite
  <2> QED
    BY <1>1, <1>7, <2>1, <2>4, <2>5
<1> DEFINE v == [t EXCEPT !.arr = h.arr]
<1>10. /\ Content(v) = Content(u) /\ Count(v) <= Count(u)
       /\ Distinct(u) => Distinct(v)
       /\ \A k \in Slots(t) : k < i => h.arr[k] # Null
  <2>1. CASE s.arr[j] = Null
    <3>1. [s.arr EXCEPT ![i] = s.arr[j], ![j] = Null] = s.arr
      BY <1>2, <1>7, <1>9, <2>1
    <3>2. v = u
      BY <1>6, <3>1
    <3>3. Count(u) \in Nat
      BY <1>3, UsedIsFinite
    <3> QED
      BY <1>6, <1>8, <3>1, <3>2, <3>3
  <2>2. CASE s.arr[j] # Null
    <3>1. j # i /\ j \in Used(u)
      BY <1>3, <1>7, <1>9, <2>2 DEF Used
    <3> DEFINE w == [u EXCEPT !.arr = [u.arr EXCEPT ![i] = u.arr[j], ![j] = Null]]
    <3>2. v = w
      <4> DEFINE a == [s.arr EXCEPT ![i] = s.arr[j], ![j] = Null]
      <4>1. h.arr = a /\ u.arr = s.arr
        BY <1>3, <1>6
      <4> HIDE DEF a, h
      <4>2. [u EXCEPT !.arr = a] = [t EXCEPT !.arr = a]
        BY DEF IsTable, Tables
      <4> HIDE DEF u
      <4> QED
        BY <4>1, <4>2 DEF a
    <3>3. /\ Content(w) = Content(u) /\ Count(w) <= Count(u)
          /\ Distinct(u) => Distinct(w)
      <4> HIDE DEF u
      <4> QED
        BY <1>3, <1>7, <1>9, <3>1, SlotMoved
    <3>4. \A k \in Slots(t) : k < i => h.arr[k] = s.arr[k]
      BY <1>2, <1>6, <1>7
    <3> QED
      BY <1>8, <3>2, <3>3, <3>4
  <2> QED
    BY <2>1, <2>2
<1>11. Count(v) <= Count(t)
  <2>1. Count(u) \in Nat /\ Count(t) \in Nat
    BY <1>3, UsedIsFinite
  <2>2. IsTable(v)
    <3>1. h.arr \in [Slots(t) -> Items \cup {Null}]
      BY <1>2, <1>4 DEF Scans
    <3> HIDE DEF h
    <3> QED
      BY <3>1, OtherSlots
  <2>3. Count(v) \in Nat
    BY <2>2, UsedIsFinite
  <2> QED
    BY <1>1, <1>10, <2>1, <2>3
<1>12. h.i = i
  BY <1>6
<1> HIDE DEF h, u
<1> QED
  BY <1>1, <1>4, <1>7, <1>10, <1>11, <1>12 DEF Filling, h

(* Closing the holes loses and doubles nothing.                            *)
LEMMA FixVectorIs ==
  ASSUME NEW t, IsTable(t), t.size \in Nat, Count(t) <= t.size
  PROVE  LET u == FixVector(t)
         IN /\ IsTable(u) /\ u.capacity = t.capacity
            /\ u.mode = t.mode /\ u.size = t.size /\ u.hash = t.hash
            /\ Content(u) = Content(t) /\ Count(u) <= Count(t)
            /\ Distinct(t) => Distinct(u)
<1> DEFINE N == t.capacity
           T == Scans(N)
           start == [arr |-> t.arr, i |-> 0, j |-> N - 1]
           Step(s) == IF s.i < t.size /\ s.j >= t.size THEN HoleFilled(s) ELSE s
           Turn == [p \in T \X (0 .. N - 1) |-> Step(p[1])]
           Runs(f) == f = [n \in 0 .. N |-> IF n = 0 THEN start ELSE Step(f[n - 1])]
           after == CHOOSE f : Runs(f)
<1>1. N \in Nat /\ N > 0 /\ Slots(t) = 0 .. N - 1
  BY TableParts DEF Slots
<1>2. start \in T /\ start \in Filling(t)
  <2>1. start \in T
    BY <1>1, TableParts DEF Scans
  <2>2. [t EXCEPT !.arr = start.arr] = t
    BY DEF IsTable, Tables
  <2>3. \A k \in Slots(t) : ~(k < start.i)
    BY <1>1
  <2>4. Count(t) <= Count(t)
    BY UsedIsFinite
  <2> HIDE DEF start
  <2> QED
    BY <2>1, <2>2, <2>3, <2>4 DEF Filling
<1> HIDE DEF start
<1>3. \E f : Runs(f)
  <2>1. Turn \in [T \X (0 .. N - 1) -> T]
    <3>1. ASSUME NEW s \in T PROVE Step(s) \in T
      <4>1. s.i < t.size /\ s.j >= t.size => s.i <= s.j
        BY <1>1 DEF Scans
      <4> QED
        BY <1>1, <4>1, HoleIs
    <3> HIDE DEF T, Step
    <3> QED
      BY <3>1
  <2>2. PICK f \in [0 .. N -> T] : IsLoop(f, N, start, Turn)
    <3> HIDE DEF Turn, T, N
    <3> QED
      BY <1>1, <1>2, <2>1, LoopExists
  <2> HIDE DEF T, Step
  <2>3. ASSUME NEW k \in 0 .. N, k # 0
        PROVE  f[k] = Step(f[k - 1])
    <3>1. k - 1 \in 0 .. N - 1 /\ (k - 1) + 1 = k
      BY <1>1, <2>3
    <3>2. f[k - 1] \in T
      BY <1>1, <2>2, <3>1
    <3>3. f[k] = Turn[<<f[k - 1], k - 1>>]
      <4> HIDE DEF Turn
      <4> QED
        BY <2>2, <3>1 DEF IsLoop
    <3> QED
      BY <3>1, <3>2, <3>3
  <2>4. Runs(f)
    <3> HIDE DEF Turn
    <3> QED
      BY <2>2, <2>3 DEF IsLoop
  <2> QED
    BY <2>4
<1>4. Runs(after)
  <2> HIDE DEF Runs
  <2> QED
    BY <1>3
<1>5. FixVector(t) = [t EXCEPT !.arr = after[N].arr]
  BY DEF FixVector, start
<1> HIDE DEF after
<1>6. \A n \in 0 .. N : after[n] \in Filling(t)
  <2> DEFINE G == [n \in 0 .. N |-> Filling(t)]
  <2>1. after[0] \in G[0]
    BY <1>1, <1>2, <1>4
  <2>2. ASSUME NEW n \in 0 .. N - 1, after[n] \in Filling(t)
        PROVE  after[n + 1] \in Filling(t)
    <3>1. n + 1 \in 0 .. N /\ n + 1 # 0 /\ (n + 1) - 1 = n
      BY <1>1
    <3>2. after[n + 1] = Step(after[n])
      <4> HIDE DEF Step
      <4> QED
        BY <1>4, <3>1
    <3> QED
      BY <2>2, <3>2, FillingGoesOn
  <2>3. \A n \in 0 .. N - 1 : after[n] \in G[n] => after[n + 1] \in G[n + 1]
    BY <1>1, <2>2
  <2>4. \A n \in 0 .. N : after[n] \in G[n]
    <3> HIDE DEF G
    <3> QED
      BY <1>1, <2>1, <2>3, LoopKeeps
  <2> QED
    BY <2>4
<1> DEFINE a == after[N].arr
           u == [t EXCEPT !.arr = a]
<1>7. after[N] \in Filling(t)
  BY <1>1, <1>6
<1>8. /\ Content(u) = Content(t) /\ Count(u) <= Count(t)
      /\ Distinct(t) => Distinct(u)
  BY <1>7 DEF Filling
<1>9. a \in [Slots(t) -> Items \cup {Null}]
  BY <1>1, <1>7 DEF Filling, Scans
<1>10. /\ IsTable(u) /\ u.capacity = t.capacity
       /\ u.mode = t.mode /\ u.size = t.size /\ u.hash = t.hash
  <2> HIDE DEF a
  <2> QED
    BY <1>9, OtherSlots
<1> QED
  BY <1>5, <1>8, <1>10

(* convert, as well.                                                       *)
LEMMA ConvertedIs ==
  ASSUME NEW t, IsTable(t), t.size \in Nat, Count(t) <= t.size
  PROVE  LET u == Converted(t)
         IN /\ IsTable(u) /\ u.capacity = t.capacity
            /\ u.mode = (IF t.mode = "hash" THEN "vector" ELSE t.mode)
            /\ u.size = t.size /\ u.hash = t.hash
            /\ Content(u) = Content(t) /\ Count(u) <= Count(t)
            /\ Distinct(t) => Distinct(u)
<1> DEFINE v == [t EXCEPT !.mode = "vector"]
<1>1. /\ IsTable(v) /\ v.arr = t.arr /\ v.mode = "vector" /\ v.size = t.size
      /\ v.hash = t.hash /\ v.capacity = t.capacity
  <2>1. "vector" \in Modes
    BY DEF Modes
  <2> QED
    BY <2>1, OtherMode
<1>2. Content(v) = Content(t) /\ Count(v) = Count(t) /\ (Distinct(v) <=> Distinct(t))
  BY <1>1, SameKeys
<1>3. CASE t.mode = "hash"
  <2>1. Converted(t) = FixVector(v)
    BY <1>3 DEF Converted
  <2> HIDE DEF v
  <2> QED
    BY <1>1, <1>2, <1>3, <2>1, FixVectorIs
<1>4. CASE t.mode # "hash"
  <2>1. Count(t) <= Count(t)
    BY UsedIsFinite
  <2> QED
    BY <1>4, <2>1 DEF Converted
<1> QED
  BY <1>3, <1>4
-------------------------------------------------------------------------------
(* fix, for a sorted vector.                                               *)

(* The items are in the order of the report.                               *)
Descends(t) == \A i, j \in Used(t) : i < j => t.arr[i] > t.arr[j]

(* Items in descending order are not in two slots.                         *)
LEMMA DescendsIsDistinct ==
  ASSUME NEW t, IsTable(t), Descends(t)
  PROVE  Distinct(t)
<1> SUFFICES ASSUME NEW i \in Used(t), NEW j \in Used(t), t.arr[i] = t.arr[j]
             PROVE  i = j
  BY DEF Distinct
<1>1. /\ i \in 0 .. t.capacity - 1 /\ j \in 0 .. t.capacity - 1 /\ t.capacity \in Nat
      /\ t.arr[i] \in Nat /\ t.arr[j] \in Nat
  BY TableParts DEF Slots
<1>2. ~(i < j) /\ ~(j < i)
  BY <1>1 DEF Descends
<1> QED
  BY <1>1, <1>2

(* The items of u are those of t, in other slots.                          *)
LEMMA Rearranged ==
  ASSUME NEW t, IsTable(t), NEW u, IsTable(u),
         NEW f \in Bijection(Used(u), Used(t)),
         \A m \in Used(u) : u.arr[m] = t.arr[f[m]]
  PROVE  /\ Content(u) = Content(t) /\ Count(u) = Count(t)
         /\ Distinct(t) => Distinct(u)
         /\ (\A l, m \in Used(u) : l < m => f[l] < f[m]) /\ Descends(t) => Descends(u)
<1>1. /\ f \in [Used(u) -> Used(t)]
      /\ \A l, m \in Used(u) : f[l] = f[m] => l = m
      /\ \A i \in Used(t) : \E m \in Used(u) : f[m] = i
  BY DEF Bijection, Injection, Surjection, IsInjective
<1>2. Content(u) = Content(t)
  <2>1. Content(u) \subseteq Content(t)
    BY <1>1 DEF Content
  <2>2. ASSUME NEW x \in Content(t) PROVE x \in Content(u)
    <3>1. PICK i \in Used(t) : t.arr[i] = x
      BY DEF Content
    <3>2. PICK m \in Used(u) : f[m] = i
      BY <1>1
    <3> QED
      BY <3>1, <3>2 DEF Content
  <2> QED
    BY <2>1, <2>2
<1>3. Count(u) = Count(t)
  <2>1. ExistsBijection(Used(u), Used(t))
    BY DEF ExistsBijection
  <2> QED
    BY <2>1, UsedIsFinite, FS_Bijection DEF Count
<1>4. Distinct(t) => Distinct(u)
  BY <1>1 DEF Distinct
<1>5. (\A l, m \in Used(u) : l < m => f[l] < f[m]) /\ Descends(t) => Descends(u)
  BY <1>1 DEF Descends
<1> QED
  BY <1>2, <1>3, <1>4, <1>5

Runs(n) == [arr : [0 .. n - 1 -> Items \cup {Null}], i : 0 .. n]

(* What one turn does.                                                     *)
LEMMA RunIs ==
  ASSUME NEW n \in Nat, NEW s \in Runs(n)
  PROVE  \E i \in s.i .. n : \E j \in i .. n : \E k \in j .. n :
           /\ \A m \in i .. j - 1 : s.arr[m] = Null
           /\ IF j = n THEN RunMoved(s, n) = s
              ELSE RunMoved(s, n) =
                     [arr |-> [m \in 0 .. n - 1 |->
                                 IF m \in i .. (i + (k - j)) - 1 THEN s.arr[m + (j - i)]
                                 ELSE IF m \in i + (k - j) .. k - 1 THEN Null
                                 ELSE s.arr[m]],
                      i |-> i + (k - j)]
<1> DEFINE I == {m \in s.i .. n : m = n \/ s.arr[m] = Null}
           i == Min(I)
           J == {m \in i .. n : m = n \/ s.arr[m] # Null}
           j == Min(J)
           K == {m \in j .. n : m = n \/ s.arr[m] = Null}
           k == Min(K)
<1>1. s.i \in 0 .. n /\ s.arr \in [0 .. n - 1 -> Items \cup {Null}]
  BY DEF Runs
<1>2. i \in s.i .. n
  <2>1. I \subseteq Nat /\ I # {}
    BY <1>1
  <2>2. i \in I
    <3> HIDE DEF I
    <3> QED
      BY <2>1, MinIs
  <2> HIDE DEF i
  <2> QED
    BY <2>2
<1> HIDE DEF i
<1>3. j \in i .. n /\ \A m \in J : j <= m
  <2>1. J \subseteq Nat /\ J # {}
    BY <1>1, <1>2
  <2>2. j \in J /\ \A m \in J : j <= m
    <3> HIDE DEF J
    <3> QED
      BY <2>1, MinIs
  <2> HIDE DEF j
  <2> QED
    BY <2>2
<1>4. \A m \in i .. j - 1 : s.arr[m] = Null
  <2> HIDE DEF j
  <2> SUFFICES ASSUME NEW m \in i .. j - 1, s.arr[m] # Null PROVE FALSE
    OBVIOUS
  <2>1. m \in J /\ m < j /\ m \in Int /\ j \in Int
    BY <1>1, <1>2, <1>3
  <2> QED
    BY <1>3, <2>1
<1> HIDE DEF j
<1>5. k \in j .. n
  <2>1. n \in K /\ K \subseteq Nat
    BY <1>1, <1>2, <1>3
  <2>2. k \in K
    <3> HIDE DEF K
    <3> QED
      BY <2>1, MinIs
  <2> HIDE DEF k
  <2> QED
    BY <2>2
<1> DEFINE r == [arr |-> [m \in 0 .. n - 1 |->
                            IF m \in i .. (i + (k - j)) - 1 THEN s.arr[m + (j - i)]
                            ELSE IF m \in i + (k - j) .. k - 1 THEN Null
                            ELSE s.arr[m]],
                 i |-> i + (k - j)]
<1>6. RunMoved(s, n) = IF j = n THEN s ELSE r
  BY DEF RunMoved, i, j
<1> HIDE DEF k
<1>7. IF j = n THEN RunMoved(s, n) = s ELSE RunMoved(s, n) = r
  BY <1>6
<1> QED
  BY <1>2, <1>3, <1>4, <1>5, <1>7
Running(t) ==
  {s \in Runs(t.capacity) :
     LET u == [t EXCEPT !.arr = s.arr]
     IN /\ Content(u) = Content(t) /\ Count(u) = Count(t)
        /\ Distinct(t) => Distinct(u)
        /\ Descends(t) => Descends(u)}

(* A turn of fix() in a sorted vector keeps what is there and its order.   *)
LEMMA RunningGoesOn ==
  ASSUME NEW t, IsTable(t), NEW s \in Running(t)
  PROVE  RunMoved(s, t.capacity) \in Running(t)
<1> DEFINE n == t.capacity
           u == [t EXCEPT !.arr = s.arr]
<1>1. /\ s \in Runs(n)
      /\ Content(u) = Content(t) /\ Count(u) = Count(t)
      /\ Distinct(t) => Distinct(u)
      /\ Descends(t) => Descends(u)
  BY DEF Running
<1>2. /\ n \in Nat /\ s.i \in 0 .. n /\ Slots(t) = 0 .. n - 1
      /\ s.arr \in [0 .. n - 1 -> Items \cup {Null}]
  BY <1>1, TableParts DEF Runs, Slots
<1>3. /\ IsTable(u) /\ u.arr = s.arr /\ Slots(u) = 0 .. n - 1 /\ u.mode = t.mode
      /\ u.size = t.size /\ u.hash = t.hash /\ u.capacity = t.capacity
  BY <1>2, OtherSlots
<1> HIDE DEF u, n
<1>4. PICK i \in s.i .. n : \E j \in i .. n : \E k \in j .. n :
        /\ \A m \in i .. j - 1 : s.arr[m] = Null
        /\ IF j = n THEN RunMoved(s, n) = s
           ELSE RunMoved(s, n) =
                  [arr |-> [m \in 0 .. n - 1 |->
                              IF m \in i .. (i + (k - j)) - 1 THEN s.arr[m + (j - i)]
                              ELSE IF m \in i + (k - j) .. k - 1 THEN Null
                              ELSE s.arr[m]],
                   i |-> i + (k - j)]
  BY <1>1, <1>2, RunIs
<1>5. PICK j \in i .. n : \E k \in j .. n :
        /\ \A m \in i .. j - 1 : s.arr[m] = Null
        /\ IF j = n THEN RunMoved(s, n) = s
           ELSE RunMoved(s, n) =
                  [arr |-> [m \in 0 .. n - 1 |->
                              IF m \in i .. (i + (k - j)) - 1 THEN s.arr[m + (j - i)]
                              ELSE IF m \in i + (k - j) .. k - 1 THEN Null
                              ELSE s.arr[m]],
                   i |-> i + (k - j)]
  BY <1>4
<1>6. PICK k \in j .. n :
        /\ \A m \in i .. j - 1 : s.arr[m] = Null
        /\ IF j = n THEN RunMoved(s, n) = s
           ELSE RunMoved(s, n) =
                  [arr |-> [m \in 0 .. n - 1 |->
                              IF m \in i .. (i + (k - j)) - 1 THEN s.arr[m + (j - i)]
                              ELSE IF m \in i + (k - j) .. k - 1 THEN Null
                              ELSE s.arr[m]],
                   i |-> i + (k - j)]
  BY <1>5
<1>7. CASE j = n
  BY <1>6, <1>7 DEF n
<1>8. CASE j # n
  <2> DEFINE e == i + (k - j)
             a == [m \in 0 .. n - 1 |-> IF m \in i .. e - 1 THEN s.arr[m + (j - i)]
                                        ELSE IF m \in e .. k - 1 THEN Null
                                        ELSE s.arr[m]]
             v == [t EXCEPT !.arr = a]
             f == [m \in Used(v) |-> IF m \in i .. e - 1 THEN m + (j - i) ELSE m]
  <2>1. RunMoved(s, n) = [arr |-> a, i |-> e]
    BY <1>6, <1>8
  <2>2. i \in 0 .. n /\ j \in i .. n /\ k \in j .. n /\ e \in i .. k /\ n \in Nat /\ e = i + (k - j)
    BY <1>2, <1>4, <1>5, <1>6
  <2>3. ASSUME NEW m \in 0 .. n - 1
        PROVE  /\ m \in i .. e - 1 => m + (j - i) \in j .. k - 1 /\ m + (j - i) \in 0 .. n - 1
               /\ m \in j .. k - 1 => m - (j - i) \in i .. e - 1 /\ m - (j - i) \in 0 .. n - 1
                                      /\ (m - (j - i)) + (j - i) = m
               /\ m \in i .. k - 1 => m \in i .. j - 1 \/ m \in j .. k - 1
               /\ m \in i .. k - 1 => m \in i .. e - 1 \/ m \in e .. k - 1
               /\ m \in i .. e - 1 => m \notin e .. k - 1
    <3> HIDE DEF e
    <3> QED
      BY <2>2
  <2>4. a \in [0 .. n - 1 -> Items \cup {Null}]
    <3> HIDE DEF e
    <3> QED
      BY <1>2, <2>3
  <2>5. /\ IsTable(v) /\ v.arr = a /\ Slots(v) = 0 .. n - 1
        /\ v.mode = t.mode /\ v.size = t.size /\ v.hash = t.hash /\ v.capacity = t.capacity
    <3> HIDE DEF a
    <3> QED
      BY <1>2, <2>4, OtherSlots
  <2> HIDE DEF v, e
  <2>6. ASSUME NEW m \in Used(v)
        PROVE  f[m] \in Used(u) /\ v.arr[m] = u.arr[f[m]]
    <3>1. m \in 0 .. n - 1 /\ a[m] # Null /\ v.arr[m] = a[m]
      BY <2>5 DEF Used
    <3>2. CASE m \in i .. e - 1
      BY <1>3, <2>3, <3>1, <3>2 DEF Used
    <3>3. CASE m \notin i .. e - 1
      <4>1. a[m] = s.arr[m] /\ f[m] = m
        BY <3>1, <3>3
      <4> QED
        BY <1>3, <3>1, <4>1 DEF Used
    <3> QED
      BY <3>2, <3>3
  <2>7. ASSUME NEW l \in Used(v), NEW m \in Used(v), l < m PROVE f[l] < f[m]
    <3>1. l \in 0 .. n - 1 /\ m \in 0 .. n - 1 /\ a[m] # Null
      BY <2>5 DEF Used
    <3>2. m \in i .. e - 1 \/ m < i \/ m >= k
      BY <2>2, <2>3, <3>1
    <3>3. /\ f[l] = IF l \in i .. e - 1 THEN l + (j - i) ELSE l
          /\ f[m] = IF m \in i .. e - 1 THEN m + (j - i) ELSE m
      OBVIOUS
    <3>4. CASE l \in i .. e - 1
      <4>1. f[l] = l + (j - i) /\ l + (j - i) \in j .. k - 1
        BY <2>3, <3>1, <3>3, <3>4
      <4> QED
        BY <2>2, <2>7, <3>1, <3>2, <3>3, <3>4, <4>1
    <3>5. CASE l \notin i .. e - 1
      BY <2>2, <2>7, <3>1, <3>3, <3>5
    <3> QED
      BY <3>4, <3>5
  <2>8. ASSUME NEW p \in Used(u) PROVE \E m \in Used(v) : f[m] = p
    <3>1. p \in 0 .. n - 1 /\ s.arr[p] # Null
      BY <1>3 DEF Used
    <3>2. p \notin i .. j - 1
      BY <1>6, <3>1
    <3>3. CASE p \in j .. k - 1
      <4> DEFINE m == p - (j - i)
      <4>1. m \in i .. e - 1 /\ m \in 0 .. n - 1 /\ m + (j - i) = p
        BY <2>3, <3>1, <3>3
      <4> HIDE DEF m
      <4>2. v.arr[m] = s.arr[p]
        BY <2>5, <4>1
      <4>3. m \in Used(v)
        BY <2>5, <3>1, <4>1, <4>2 DEF Used
      <4> QED
        BY <4>1, <4>3
    <3>4. CASE p \notin j .. k - 1
      <4>1. p \notin i .. k - 1
        BY <2>3, <3>1, <3>2, <3>4
      <4>2. p \notin i .. e - 1 /\ p \notin e .. k - 1
        BY <2>2, <3>1, <4>1
      <4>3. v.arr[p] = s.arr[p]
        BY <2>5, <3>1, <4>2
      <4>4. p \in Used(v)
        BY <2>5, <3>1, <4>3 DEF Used
      <4> QED
        BY <4>2, <4>4
    <3> QED
      BY <3>3, <3>4
  <2>9. f \in Bijection(Used(v), Used(u))
    <3>1. f \in [Used(v) -> Used(u)]
      BY <2>6
    <3>2. ASSUME NEW l \in Used(v), NEW m \in Used(v), f[l] = f[m] PROVE l = m
      <4>1. l \in 0 .. n - 1 /\ m \in 0 .. n - 1 /\ f[l] \in 0 .. n - 1
        BY <1>3, <2>5, <2>6 DEF Used
      <4>2. ~(l < m) /\ ~(m < l)
        <5> HIDE DEF f
        <5> QED
          BY <2>7, <3>2, <4>1, <2>2
      <4> QED
        BY <2>2, <4>1, <4>2
    <3> HIDE DEF f
    <3> QED
      BY <2>8, <3>1, <3>2 DEF Bijection, Injection, Surjection, IsInjective
  <2>10. /\ Content(v) = Content(u) /\ Count(v) = Count(u)
         /\ Distinct(u) => Distinct(v)
         /\ Descends(u) => Descends(v)
    <3>1. \A m \in Used(v) : v.arr[m] = u.arr[f[m]]
      BY <2>6
    <3>2. \A l, m \in Used(v) : l < m => f[l] < f[m]
      BY <2>7
    <3>3. IsTable(u) /\ IsTable(v)
      BY <1>3, <2>5
    <3> HIDE DEF f
    <3> QED
      BY <2>9, <3>1, <3>2, <3>3, Rearranged
  <2>11. [arr |-> a, i |-> e] \in Runs(n)
    <3>1. e \in 0 .. n
      BY <2>2
    <3> HIDE DEF a
    <3> QED
      BY <2>4, <3>1 DEF Runs
  <2> DEFINE r == [arr |-> a, i |-> e]
  <2>12. v = [t EXCEPT !.arr = r.arr]
    BY DEF v
  <2>13. r \in Running(t)
    <3> HIDE DEF r
    <3> QED
      BY <1>1, <2>10, <2>11, <2>12 DEF Running, n, r
  <2> QED
    BY <2>1, <2>13 DEF n
<1> QED
  BY <1>7, <1>8

(* Closing the holes keeps the order of the items.                         *)
LEMMA FixSortedIs ==
  ASSUME NEW t, IsTable(t)
  PROVE  LET u == FixSorted(t)
         IN /\ IsTable(u) /\ u.capacity = t.capacity
            /\ u.mode = t.mode /\ u.size = t.size /\ u.hash = t.hash
            /\ Content(u) = Content(t) /\ Count(u) = Count(t)
            /\ Distinct(t) => Distinct(u)
            /\ Descends(t) => Descends(u)
<1> DEFINE N == t.capacity
           T == Runs(N)
           start == [arr |-> t.arr, i |-> 0]
           Turn == [p \in T \X (0 .. N - 1) |-> RunMoved(p[1], N)]
           Goes(f) == f = [n \in 0 .. N |-> IF n = 0 THEN start ELSE RunMoved(f[n - 1], N)]
           after == CHOOSE f : Goes(f)
<1>1. N \in Nat /\ N > 0 /\ Slots(t) = 0 .. N - 1
  BY TableParts DEF Slots
<1>2. start \in T /\ start \in Running(t)
  <2>1. start \in T
    BY <1>1, TableParts DEF Runs
  <2>2. [t EXCEPT !.arr = start.arr] = t
    BY DEF IsTable, Tables
  <2> HIDE DEF start
  <2> QED
    BY <2>1, <2>2 DEF Running
<1> HIDE DEF start
<1>3. \E f : Goes(f)
  <2>1. Turn \in [T \X (0 .. N - 1) -> T]
    <3>1. ASSUME NEW s \in T PROVE RunMoved(s, N) \in T
      <4> DEFINE w == [mode |-> "sorted", capacity |-> N, size |-> 0,
                       hash |-> t.hash, arr |-> s.arr]
      <4>1. IsTable(w) /\ w.capacity = N /\ w.arr = s.arr
        BY <1>1, TableParts DEF IsTable, Tables, Modes, Runs
      <4>2. [w EXCEPT !.arr = s.arr] = w
        OBVIOUS
      <4> HIDE DEF w, T
      <4>3. s \in Running(w)
        BY <4>1, <4>2 DEF Running, T
      <4>4. RunMoved(s, w.capacity) \in Running(w)
        BY <4>1, <4>3, RunningGoesOn
      <4> QED
        BY <4>1, <4>4 DEF Running, T
    <3> HIDE DEF T
    <3> QED
      BY <3>1
  <2>2. PICK f \in [0 .. N -> T] : IsLoop(f, N, start, Turn)
    <3> HIDE DEF Turn, T, N
    <3> QED
      BY <1>1, <1>2, <2>1, LoopExists
  <2> HIDE DEF T
  <2>3. ASSUME NEW k \in 0 .. N, k # 0
        PROVE  f[k] = RunMoved(f[k - 1], N)
    <3>1. k - 1 \in 0 .. N - 1 /\ (k - 1) + 1 = k
      BY <1>1, <2>3
    <3>2. f[k - 1] \in T
      BY <1>1, <2>2, <3>1
    <3>3. f[k] = Turn[<<f[k - 1], k - 1>>]
      <4> HIDE DEF Turn
      <4> QED
        BY <2>2, <3>1 DEF IsLoop
    <3> QED
      BY <3>1, <3>2, <3>3
  <2>4. Goes(f)
    <3> HIDE DEF Turn
    <3> QED
      BY <2>2, <2>3 DEF IsLoop
  <2> QED
    BY <2>4
<1>4. Goes(after)
  <2> HIDE DEF Goes
  <2> QED
    BY <1>3
<1>5. FixSorted(t) = [t EXCEPT !.arr = after[N].arr]
  BY DEF FixSorted, start
<1> HIDE DEF after
<1>6. \A n \in 0 .. N : after[n] \in Running(t)
  <2> DEFINE G == [n \in 0 .. N |-> Running(t)]
  <2>1. after[0] \in G[0]
    BY <1>1, <1>2, <1>4
  <2>2. ASSUME NEW n \in 0 .. N - 1, after[n] \in Running(t)
        PROVE  after[n + 1] \in Running(t)
    <3>1. n + 1 \in 0 .. N /\ n + 1 # 0 /\ (n + 1) - 1 = n
      BY <1>1
    <3>2. after[n + 1] = RunMoved(after[n], N)
      BY <1>4, <3>1
    <3> QED
      BY <2>2, <3>2, RunningGoesOn
  <2>3. \A n \in 0 .. N - 1 : after[n] \in G[n] => after[n + 1] \in G[n + 1]
    BY <1>1, <2>2
  <2>4. \A n \in 0 .. N : after[n] \in G[n]
    <3> HIDE DEF G
    <3> QED
      BY <1>1, <2>1, <2>3, LoopKeeps
  <2> QED
    BY <2>4
<1> DEFINE a == after[N].arr
           u == [t EXCEPT !.arr = a]
<1>7. after[N] \in Running(t)
  BY <1>1, <1>6
<1>8. /\ Content(u) = Content(t) /\ Count(u) = Count(t)
      /\ Distinct(t) => Distinct(u)
      /\ Descends(t) => Descends(u)
  BY <1>7 DEF Running
<1>9. a \in [Slots(t) -> Items \cup {Null}]
  BY <1>1, <1>7 DEF Running, Runs
<1>10. /\ IsTable(u) /\ u.capacity = t.capacity
       /\ u.mode = t.mode /\ u.size = t.size /\ u.hash = t.hash
  <2> HIDE DEF a
  <2> QED
    BY <1>9, OtherSlots
<1> QED
  BY <1>5, <1>8, <1>10
-------------------------------------------------------------------------------
(* sort.                                                                   *)

(* The difference of two sizes that are near enough is exact.              *)
LEMMA SizeCmpExact ==
  ASSUME NEW x \in Nat, NEW y \in Nat, Near(y, x)
  PROVE  SizeCmp(x, y) = y - x
<1> DEFINE d == y - x
<1>1. d \in Int /\ -Half <= d /\ d < Half
  BY DEF Near
<1> HIDE DEF d
<1>2. (d + Half) % (2 * Half) = d + Half
  <2> DEFINE a == d + Half
             b == 2 * Half
  <2>1. a \in Nat /\ b \in Nat /\ 0 <= a /\ a < b
    BY <1>1, HalfAssumption
  <2> HIDE DEF a, b
  <2>2. a % b = a
    BY <2>1
  <2> QED
    BY <2>2 DEF a, b
<1>3. Truncated(d) = d
  BY <1>1, <1>2, HalfAssumption DEF Truncated
<1> QED
  BY <1>3 DEF SizeCmp, d

(* The sort of the groups (sizegroup.cpp, SizeGroup::compare) puts larger  *)
(* sizes first, for sizes whose difference an int holds.                   *)
THEOREM NearSizesDescend ==
  ASSUME NEW x \in Nat, NEW y \in Nat, Near(x, y), Near(y, x)
  PROVE  /\ SizeCmp(x, y) < 0 <=> x > y
         /\ SizeCmp(x, y) = 0 <=> x = y
<1>1. SizeCmp(x, y) = y - x
  BY SizeCmpExact
<1> QED
  BY <1>1

(* The item of slot j comes in front of that of slot i.                    *)
Before(t, j, i) == t.arr[j] > t.arr[i] \/ (t.arr[j] = t.arr[i] /\ j < i)

(* The places of the items of a packed vector are 0, 1, 2, ...             *)
LEMMA PlacesAre ==
  ASSUME NEW t, IsTable(t), Packed(t), t.size \in 0 .. t.capacity
  PROVE  LET at == [k \in 0 .. t.size - 1 |-> CHOOSE i \in 0 .. t.size - 1 : Place(t, i) = k]
         IN /\ Used(t) = 0 .. t.size - 1
            /\ at \in Bijection(0 .. t.size - 1, 0 .. t.size - 1)
            /\ \A k, l \in 0 .. t.size - 1 : k < l => Before(t, at[k], at[l])
<1> DEFINE n == t.size
           P == 0 .. n - 1
           Ahead(i) == {j \in P : Before(t, j, i)}
           at == [k \in P |-> CHOOSE i \in P : Place(t, i) = k]
           place == [i \in P |-> Place(t, i)]
<1>1. n \in Nat /\ n <= t.capacity /\ t.capacity \in Nat
  BY TableParts
<1>2. Used(t) = P
  BY <1>1 DEF Packed, Used, Slots
<1>3. \A i \in P : i \in Nat /\ t.arr[i] \in Items /\ t.arr[i] \in Nat
  BY <1>1, <1>2, TableParts
<1>4. \A i \in P : Place(t, i) = Cardinality(Ahead(i))
  <2> TAKE i \in P
  <2>1. \A j \in P : SizeCmp(t.arr[j], t.arr[i]) < 0 <=> t.arr[j] > t.arr[i]
    BY <1>3, SizesAssumption, NearSizesDescend
  <2>2. Ahead(i) = {j \in 0 .. t.size - 1 :
                      SizeCmp(t.arr[j], t.arr[i]) < 0 \/ (t.arr[j] = t.arr[i] /\ j < i)}
    BY <2>1 DEF Before
  <2> HIDE DEF Ahead
  <2> QED
    BY <2>2 DEF Place
<1>5. IsFiniteSet(P) /\ Cardinality(P) = n
  <2> HIDE DEF n
  <2>1. 0 \in Int /\ n - 1 \in Int
    BY <1>1
  <2>2. /\ IsFiniteSet(0 .. n - 1)
        /\ Cardinality(0 .. n - 1) = IF 0 > n - 1 THEN 0 ELSE (n - 1) - 0 + 1
    BY <2>1, FS_Interval
  <2> QED
    BY <1>1, <2>2
<1>6. ASSUME NEW i \in P
      PROVE  /\ IsFiniteSet(Ahead(i)) /\ Cardinality(Ahead(i)) \in 0 .. n - 1
  <2>1. ~Before(t, i, i) /\ i \in P
    BY <1>3 DEF Before
  <2>2. Ahead(i) \subseteq P \ {i}
    BY <2>1
  <2> HIDE DEF P, Ahead
  <2>3. IsFiniteSet(P \ {i}) /\ Cardinality(P \ {i}) = n - 1
    BY <1>5, <2>1, FS_RemoveElement
  <2>4. IsFiniteSet(Ahead(i)) /\ Cardinality(Ahead(i)) \in Nat /\ Cardinality(Ahead(i)) <= n - 1
    BY <2>2, <2>3, FS_Subset, FS_CardinalityType
  <2> QED
    BY <1>1, <2>4
<1>7. ASSUME NEW i \in P, NEW j \in P, Before(t, j, i)
      PROVE  Place(t, j) < Place(t, i)
  <2>1. \A m \in P : Before(t, m, j) => Before(t, m, i)
    BY <1>3, <1>7 DEF Before
  <2>2. ~Before(t, j, j)
    BY <1>3 DEF Before
  <2>3. Ahead(j) \subseteq Ahead(i) /\ j \in Ahead(i) /\ j \notin Ahead(j)
    BY <1>7, <2>1, <2>2
  <2> HIDE DEF Ahead, P
  <2>4. /\ Cardinality(Ahead(j)) <= Cardinality(Ahead(i))
        /\ Cardinality(Ahead(i)) # Cardinality(Ahead(j))
    BY <1>6, <2>3, FS_Subset
  <2>5. Cardinality(Ahead(j)) \in 0 .. n - 1 /\ Cardinality(Ahead(i)) \in 0 .. n - 1
    BY <1>6
  <2>6. Cardinality(Ahead(j)) < Cardinality(Ahead(i))
    BY <2>4, <2>5
  <2> QED
    BY <1>4, <2>6
<1>8. \A i, j \in P : i # j => Before(t, i, j) \/ Before(t, j, i)
  BY <1>3 DEF Before
<1>9. \A i \in P : Place(t, i) \in P
  BY <1>4, <1>6
<1>10. place \in Bijection(P, P)
  <2>1. place \in Injection(P, P)
    <3>1. \A i, j \in P : Place(t, i) = Place(t, j) => i = j
      <4> TAKE i, j \in P
      <4>1. Place(t, i) \in Nat /\ Place(t, j) \in Nat
        BY <1>9, <1>3
      <4>2. Place(t, i) = Place(t, j) => ~Before(t, i, j) /\ ~Before(t, j, i)
        <5> HIDE DEF P
        <5> QED
          BY <1>7, <4>1
      <4> QED
        BY <1>8, <4>2
    <3> HIDE DEF P
    <3> QED
      BY <1>9, <3>1 DEF Injection, IsInjective
  <2>2. place \in Surjection(P, P)
    <3> HIDE DEF P, place
    <3> QED
      BY <1>5, <2>1, FS_Injection
  <2> HIDE DEF P, place
  <2> QED
    BY <2>1, <2>2 DEF Bijection
<1>11. \A k \in P : at[k] \in P /\ Place(t, at[k]) = k
  <2> HIDE DEF P
  <2>1. \A k \in P : \E i \in P : Place(t, i) = k
    BY <1>10 DEF Bijection, Surjection
  <2> QED
    BY <2>1
<1>12. at \in Bijection(P, P)
  <2>1. \A i \in P : at[Place(t, i)] = i
    <3> TAKE i \in P
    <3>1. at[Place(t, i)] \in P /\ Place(t, at[Place(t, i)]) = Place(t, i)
      <4> HIDE DEF at, P
      <4> QED
        BY <1>9, <1>11
    <3> HIDE DEF at, P
    <3>2. place[at[Place(t, i)]] = place[i]
      BY <3>1
    <3> HIDE DEF place
    <3> QED
      BY <1>10, <3>1, <3>2 DEF Bijection, Injection, IsInjective
  <2>2. \A k, l \in P : at[k] = at[l] => k = l
    <3> HIDE DEF at, P
    <3> QED
      BY <1>11
  <2>3. at \in [P -> P]
    <3>1. at = [k \in P |-> at[k]]
      OBVIOUS
    <3> HIDE DEF at, P
    <3> QED
      BY <1>11, <3>1
  <2> HIDE DEF at, P
  <2> QED
    BY <1>9, <2>1, <2>2, <2>3 DEF Bijection, Injection, Surjection, IsInjective
<1>13. ASSUME NEW k \in P, NEW l \in P, k < l PROVE Before(t, at[k], at[l])
  <2> HIDE DEF at
  <2>1. at[k] \in P /\ at[l] \in P /\ Place(t, at[k]) = k /\ Place(t, at[l]) = l
    BY <1>11
  <2>2. k \in Nat /\ l \in Nat
    BY <1>3
  <2> HIDE DEF P
  <2>3. at[k] # at[l]
    BY <1>13, <2>1, <2>2
  <2>4. Before(t, at[l], at[k]) => Place(t, at[l]) < Place(t, at[k])
    BY <1>7, <2>1
  <2>5. ~Before(t, at[l], at[k])
    BY <1>13, <2>1, <2>2, <2>4
  <2> QED
    BY <1>8, <2>1, <2>3, <2>5
<1> QED
  BY <1>2, <1>12, <1>13

(* Sorting loses and doubles nothing, and larger sizes come first.         *)
LEMMA SortedIs ==
  ASSUME NEW t, IsTable(t), t.size \in Nat, Count(t) <= t.size, t.size <= t.capacity,
         Packed(Converted(t))
  PROVE  LET u == Sorted(t)
         IN /\ IsTable(u) /\ u.capacity = t.capacity
            /\ u.mode = "sorted" /\ u.size = t.size /\ u.hash = t.hash
            /\ Content(u) = Content(t) /\ Count(u) <= Count(t)
            /\ Distinct(t) => Distinct(u) /\ Descends(u)
<1> DEFINE v == Converted(t)
           P == 0 .. v.size - 1
           From(k) == CHOOSE i \in P : Place(v, i) = k
           at == [k \in P |-> From(k)]
           a == [k \in Slots(v) |-> IF k < v.size THEN v.arr[From(k)] ELSE v.arr[k]]
           w == [v EXCEPT !.mode = "sorted"]
           u == Sorted(t)
<1>1. /\ IsTable(v) /\ v.capacity = t.capacity /\ v.size = t.size /\ v.hash = t.hash
      /\ Content(v) = Content(t) /\ Count(v) <= Count(t)
      /\ Distinct(t) => Distinct(v)
  <2> HIDE DEF v
  <2> QED
    BY ConvertedIs DEF v
<1>2. u = [v EXCEPT !.mode = "sorted", !.arr = a]
  BY DEF Sorted
<1> HIDE DEF v, u
<1>3. /\ v.size \in 0 .. v.capacity /\ Packed(v) /\ v.capacity \in Nat
      /\ Slots(v) = 0 .. v.capacity - 1
  BY <1>1, TableParts DEF v, Slots
<1>4. /\ Used(v) = P /\ at \in Bijection(P, P)
      /\ \A k, l \in P : k < l => Before(v, at[k], at[l])
  BY <1>1, <1>3, PlacesAre
<1>5. at \in [P -> P]
  BY <1>4 DEF Bijection, Injection
<1>6. \A k \in Slots(v) : a[k] = IF k \in P THEN v.arr[at[k]] ELSE v.arr[k]
  <2> TAKE k \in Slots(v)
  <2>1. k < v.size <=> k \in P
    BY <1>3
  <2> HIDE DEF From, P
  <2> QED
    BY <2>1
<1>7. a \in [Slots(v) -> Items \cup {Null}]
  <2>1. P \subseteq Slots(v)
    BY <1>3
  <2>2. \A k \in Slots(v) : a[k] \in Items \cup {Null}
    <3> HIDE DEF at, P, a
    <3> QED
      BY <1>1, <1>5, <1>6, <2>1, TableParts
  <2>3. a = [k \in Slots(v) |-> a[k]]
    OBVIOUS
  <2> HIDE DEF a
  <2> QED
    BY <2>2, <2>3
<1> HIDE DEF at, a
<1>8. /\ IsTable(w) /\ w.arr = v.arr /\ w.size = v.size /\ w.hash = v.hash
      /\ w.capacity = v.capacity /\ w.mode = "sorted" /\ Slots(w) = Slots(v)
  <2>1. "sorted" \in Modes
    BY DEF Modes
  <2> QED
    BY <1>1, <2>1, OtherMode
<1>9. u = [w EXCEPT !.arr = a]
  BY <1>1, <1>2 DEF IsTable, Tables
<1> HIDE DEF w
<1>10. /\ IsTable(u) /\ u.arr = a /\ u.size = v.size /\ u.hash = v.hash
       /\ u.capacity = v.capacity /\ u.mode = "sorted" /\ Slots(u) = Slots(v)
  BY <1>7, <1>8, <1>9, OtherSlots
<1>11. Used(u) = P
  <2>1. ASSUME NEW k \in Slots(v) PROVE u.arr[k] # Null <=> k \in P
    <3>1. CASE k \in P
      BY <1>4, <1>5, <1>6, <1>10, <3>1 DEF Used
    <3>2. CASE k \notin P
      BY <1>4, <1>6, <1>10, <2>1, <3>2 DEF Used
    <3> QED
      BY <3>1, <3>2
  <2>2. P \subseteq Slots(v)
    BY <1>3
  <2> HIDE DEF P
  <2> QED
    BY <1>10, <2>1, <2>2 DEF Used
<1>12. \A k \in Used(u) : u.arr[k] = v.arr[at[k]]
  BY <1>6, <1>10, <1>11, <1>3
<1>13. /\ Content(u) = Content(v) /\ Count(u) = Count(v)
       /\ Distinct(v) => Distinct(u)
  <2>1. at \in Bijection(Used(u), Used(v))
    BY <1>4, <1>11
  <2> HIDE DEF P
  <2> QED
    BY <1>1, <1>10, <1>12, <2>1, Rearranged
<1>14. Distinct(v) => Descends(u)
  <2> SUFFICES ASSUME Distinct(v), NEW k \in P, NEW l \in P, k < l
               PROVE  u.arr[k] > u.arr[l]
    BY <1>11 DEF Descends
  <2>1. at[k] \in P /\ at[l] \in P /\ Before(v, at[k], at[l])
    BY <1>4, <1>5
  <2>2. at[k] # at[l]
    <3>1. k # l
      BY <1>3
    <3> HIDE DEF P
    <3> QED
      BY <1>4, <3>1 DEF Bijection, Injection, IsInjective
  <2> HIDE DEF P
  <2>3. v.arr[at[k]] # v.arr[at[l]]
    BY <1>4, <2>1, <2>2 DEF Distinct
  <2> QED
    BY <1>11, <1>12, <2>1, <2>3 DEF Before
<1>15. Count(u) <= Count(t)
  BY <1>1, <1>13
<1> QED
  BY <1>1, <1>10, <1>13, <1>14, <1>15 DEF u
-------------------------------------------------------------------------------
(* Removing groups.                                                        *)

(* fix, in either mode that a table of groups is repaired in.              *)
LEMMA FixIs ==
  ASSUME NEW t, IsTable(t), t.mode \in {"hash", "sorted"}
  PROVE  LET u == Fix(t)
         IN /\ IsTable(u) /\ u.capacity = t.capacity
            /\ u.mode = t.mode /\ u.size = t.size /\ u.hash = t.hash
            /\ Content(u) = Content(t) /\ Count(u) <= Count(t)
            /\ Distinct(t) => Distinct(u)
            /\ t.mode = "hash" /\ Distinct(t) /\ NoneEarly(t) => Sound(u)
            /\ t.mode = "sorted" /\ Descends(t) => Descends(u)
<1>1. CASE t.mode = "hash"
  <2>1. Fix(t) = FixHash(t)
    BY <1>1 DEF Fix
  <2> QED
    BY <1>1, <2>1, FixHashIs
<1>2. CASE t.mode = "sorted"
  <2>1. Fix(t) = FixSorted(t)
    BY <1>2 DEF Fix
  <2>2. Count(t) \in Nat
    BY UsedIsFinite
  <2> QED
    BY <1>2, <2>1, <2>2, FixSortedIs
<1> QED
  BY <1>1, <1>2
Emptied(t, gone) ==
  [t EXCEPT !.arr = [i \in Slots(t) |-> IF i \in gone THEN Null ELSE t.arr[i]],
            !.size = t.size - Cardinality(gone)]

(* Emptying slots in use removes their items and no others.                *)
LEMMA EmptiedIs ==
  ASSUME NEW t, IsTable(t), NEW gone \in SUBSET Used(t)
  PROVE  LET u == Emptied(t, gone)
         IN /\ IsTable(u) /\ u.capacity = t.capacity /\ Slots(u) = Slots(t)
            /\ u.mode = t.mode /\ u.hash = t.hash /\ u.size = t.size - Cardinality(gone)
            /\ Used(u) = Used(t) \ gone /\ \A i \in Used(u) : u.arr[i] = t.arr[i]
            /\ Cardinality(gone) \in Nat /\ Count(u) = Count(t) - Cardinality(gone)
            /\ Content(u) = {t.arr[i] : i \in Used(t) \ gone}
            /\ Distinct(t) => Distinct(u)
            /\ Descends(t) => Descends(u)
<1> DEFINE u == Emptied(t, gone)
           n == t.size - Cardinality(gone)
           a == [i \in Slots(t) |-> IF i \in gone THEN Null ELSE t.arr[i]]
           v == [t EXCEPT !.arr = a]
<1>1. IsFiniteSet(Used(t)) /\ Count(t) \in Nat
  BY UsedIsFinite
<1>2. IsFiniteSet(gone) /\ Cardinality(gone) \in Nat
  BY <1>1, FS_Subset, FS_CardinalityType
<1>3. Count(t) - Cardinality(gone) = Cardinality(Used(t) \ gone)
  <2>1. Used(t) \cap gone = gone
    OBVIOUS
  <2>2. Cardinality(Used(t) \ gone) = Cardinality(Used(t)) - Cardinality(Used(t) \cap gone)
    BY <1>1, FS_Difference
  <2> QED
    BY <2>1, <2>2 DEF Count
<1>4. a \in [Slots(t) -> Items \cup {Null}] /\ n \in Int
  BY <1>2, TableParts
<1>5. u = [v EXCEPT !.size = n]
  BY DEF IsTable, Tables, Emptied
<1> HIDE DEF a, n, u
<1>6. /\ IsTable(v) /\ v.arr = a /\ Slots(v) = Slots(t) /\ v.mode = t.mode
      /\ v.hash = t.hash /\ v.capacity = t.capacity
  BY <1>4, OtherSlots
<1> HIDE DEF v
<1>7. /\ IsTable(u) /\ u.arr = a /\ Slots(u) = Slots(t) /\ u.mode = t.mode /\ u.size = n
      /\ u.hash = t.hash /\ u.capacity = t.capacity
  BY <1>4, <1>5, <1>6, OtherCounter
<1>8. Used(u) = Used(t) \ gone /\ \A i \in Used(u) : u.arr[i] = t.arr[i]
  BY <1>7 DEF Used, a
<1>9. Content(u) = {t.arr[i] : i \in Used(t) \ gone}
  BY <1>8 DEF Content
<1>10. (Distinct(t) => Distinct(u)) /\ (Descends(t) => Descends(u))
  BY <1>8 DEF Distinct, Descends
<1> QED
  BY <1>2, <1>3, <1>7, <1>8, <1>9, <1>10 DEF Count, n, u

(* Holder::remove leaves the items that are not below the minimum.         *)
LEMMA WithoutIs ==
  ASSUME NEW t, IsTable(t), t.mode # "vector", t.size \in Nat, Count(t) <= t.size, NEW min \in Nat
  PROVE  LET u == Without(t, min)
         IN /\ IsTable(u) /\ u.capacity = t.capacity /\ u.mode = t.mode /\ u.hash = t.hash
            /\ u.size \in Nat /\ u.size <= t.size /\ Count(u) <= u.size
            /\ t.size = Count(t) => u.size = Count(u)
            /\ Content(u) = {x \in Content(t) : x >= min}
            /\ Distinct(t) => Distinct(u)
            /\ Descends(t) => Descends(u)
<1> DEFINE gone == {i \in 0 .. Boundary(t) - 1 : t.arr[i] # Null /\ t.arr[i] < min}
           u == Without(t, min)
<1>1. 0 .. Boundary(t) - 1 = Slots(t)
  BY DEF Boundary, Slots
<1>2. gone = {i \in Used(t) : t.arr[i] < min}
  BY <1>1 DEF Used
<1>3. u = Emptied(t, gone)
  BY DEF Without, Emptied
<1>4. gone \in SUBSET Used(t)
  BY <1>2
<1> HIDE DEF gone, u
<1>5. /\ IsTable(u) /\ u.capacity = t.capacity
      /\ u.mode = t.mode /\ u.hash = t.hash /\ u.size = t.size - Cardinality(gone)
      /\ Cardinality(gone) \in Nat /\ Count(u) = Count(t) - Cardinality(gone)
      /\ Content(u) = {t.arr[i] : i \in Used(t) \ gone}
      /\ Distinct(t) => Distinct(u)
      /\ Descends(t) => Descends(u)
  BY <1>3, <1>4, EmptiedIs
<1>6. Content(u) = {x \in Content(t) : x >= min}
  <2>1. \A i \in Used(t) : i \in gone <=> ~(t.arr[i] >= min)
    BY <1>2, TableParts
  <2> QED
    BY <1>5, <2>1 DEF Content
<1>7. Count(t) \in Nat /\ Count(u) \in Nat
  BY <1>5, UsedIsFinite
<1>8. /\ u.size \in Nat /\ u.size <= t.size /\ Count(u) <= u.size
      /\ t.size = Count(t) => u.size = Count(u)
  BY <1>5, <1>7
<1> QED
  BY <1>5, <1>6, <1>8 DEF u

(* deleteItem removes the item of one slot.                                *)
LEMMA DeletedIs ==
  ASSUME NEW t, IsTable(t), t.size \in Nat, Count(t) <= t.size, NEW i \in Used(t)
  PROVE  LET u == DeleteItem(t, i)
         IN /\ IsTable(u) /\ u.capacity = t.capacity /\ Slots(u) = Slots(t)
            /\ u.mode = t.mode /\ u.hash = t.hash
            /\ u.size \in Nat /\ u.size <= t.size /\ Count(u) <= u.size
            /\ t.size = Count(t) => u.size = Count(u)
            /\ Used(u) = Used(t) \ {i} /\ \A j \in Used(u) : u.arr[j] = t.arr[j]
            /\ Distinct(t) => Distinct(u) /\ Content(u) = Content(t) \ {t.arr[i]}
            /\ Content(u) \subseteq Content(t)
            /\ Descends(t) => Descends(u)
<1> DEFINE u == DeleteItem(t, i)
           gone == {i}
<1>1. Cardinality(gone) = 1
  BY FS_Singleton
<1>2. [t.arr EXCEPT ![i] = Null] = [j \in Slots(t) |-> IF j \in gone THEN Null ELSE t.arr[j]]
  BY TableParts
<1>3. u = Emptied(t, gone)
  BY <1>1, <1>2 DEF DeleteItem, Emptied
<1>4. gone \in SUBSET Used(t)
  OBVIOUS
<1> HIDE DEF gone, u
<1>5. /\ IsTable(u) /\ u.capacity = t.capacity /\ Slots(u) = Slots(t)
      /\ u.mode = t.mode /\ u.hash = t.hash /\ u.size = t.size - 1
      /\ Used(u) = Used(t) \ gone /\ \A j \in Used(u) : u.arr[j] = t.arr[j]
      /\ Count(u) = Count(t) - 1
      /\ Content(u) = {t.arr[j] : j \in Used(t) \ gone}
      /\ Distinct(t) => Distinct(u)
      /\ Descends(t) => Descends(u)
  BY <1>1, <1>3, <1>4, EmptiedIs
<1>6. Content(u) \subseteq Content(t)
  BY <1>5 DEF Content
<1>7. Distinct(t) => Content(u) = Content(t) \ {t.arr[i]}
  BY <1>5 DEF Content, Distinct, gone
<1>8. Count(t) \in Nat /\ Count(u) \in Nat
  BY <1>5, UsedIsFinite
<1>9. /\ u.size \in Nat /\ u.size <= t.size /\ Count(u) <= u.size
      /\ t.size = Count(t) => u.size = Count(u)
  BY <1>5, <1>8
<1> QED
  BY <1>5, <1>6, <1>7, <1>9 DEF u, gone
-------------------------------------------------------------------------------
(* Lists of names.                                                         *)

(* What InsertAt returns.                                                  *)
LEMMA InsertAtIs ==
  ASSUME NEW S, NEW s \in Seq(S), NEW x \in S, NEW p \in 1 .. Len(s) + 1
  PROVE  LET r == InsertAt(s, p, x)
         IN /\ r \in Seq(S) /\ Len(r) = Len(s) + 1
            /\ \A k \in 1 .. Len(s) + 1 :
                 r[k] = IF k < p THEN s[k] ELSE IF k = p THEN x ELSE s[k - 1]
<1> DEFINE n == Len(s)
           a == SubSeq(s, 1, p - 1)
           b == SubSeq(s, p, n)
           one == <<x>>
           ax == a \o one
<1>1. n \in Nat /\ p \in 1 .. n + 1 /\ \A k \in 1 .. n : s[k] \in S
  OBVIOUS
<1>2. a \in Seq(S) /\ Len(a) = p - 1 /\ \A k \in 1 .. p - 1 : a[k] = s[k]
  <2>1. 1 \in Int /\ p - 1 \in Int /\ \A k \in 1 .. p - 1 : s[k] \in S
    BY <1>1
  <2>2. /\ a \in Seq(S) /\ Len(a) = IF 1 <= p - 1 THEN (p - 1) - 1 + 1 ELSE 0
        /\ \A k \in 1 .. (p - 1) - 1 + 1 : a[k] = s[1 + k - 1]
    BY <2>1, SubSeqProperties
  <2> HIDE DEF a
  <2> QED
    BY <1>1, <2>2
<1>3. b \in Seq(S) /\ Len(b) = n - p + 1 /\ \A k \in 1 .. n - p + 1 : b[k] = s[p + k - 1]
  <2>1. p \in Int /\ n \in Int /\ \A k \in p .. n : s[k] \in S
    BY <1>1
  <2>2. /\ b \in Seq(S) /\ Len(b) = IF p <= n THEN n - p + 1 ELSE 0
        /\ \A k \in 1 .. n - p + 1 : b[k] = s[p + k - 1]
    BY <2>1, SubSeqProperties
  <2> HIDE DEF b
  <2> QED
    BY <1>1, <2>2
<1>4. one \in Seq(S) /\ Len(one) = 1 /\ one[1] = x
  OBVIOUS
<1> HIDE DEF a, b, one
<1>5. ax \in Seq(S) /\ Len(ax) = p /\ \A k \in 1 .. p : ax[k] = IF k < p THEN s[k] ELSE x
  <2>1. /\ ax \in Seq(S) /\ Len(ax) = (p - 1) + 1
        /\ \A k \in 1 .. (p - 1) + 1 : ax[k] = IF k <= p - 1 THEN a[k] ELSE one[k - (p - 1)]
    <3>1. /\ ax \in Seq(S) /\ Len(ax) = Len(a) + Len(one)
          /\ \A k \in 1 .. Len(a) + Len(one) :
               ax[k] = IF k <= Len(a) THEN a[k] ELSE one[k - Len(a)]
      BY <1>2, <1>4, ConcatProperties
    <3> QED
      BY <1>2, <1>4, <3>1
  <2> HIDE DEF ax
  <2>2. \A k \in 1 .. p : (k <= p - 1 <=> k < p) /\ (k <= p - 1 => k \in 1 .. p - 1)
    BY <1>1
  <2>3. \A k \in 1 .. p : ~(k <= p - 1) => k - (p - 1) = 1
    BY <1>1
  <2>4. (p - 1) + 1 = p
    BY <1>1
  <2> QED
    BY <1>2, <1>4, <2>1, <2>2, <2>3, <2>4
<1> HIDE DEF ax
<1> DEFINE r == ax \o b
<1>6. /\ r \in Seq(S) /\ Len(r) = p + (n - p + 1)
      /\ \A k \in 1 .. p + (n - p + 1) : r[k] = IF k <= p THEN ax[k] ELSE b[k - p]
  BY <1>3, <1>5, ConcatProperties
<1>7. InsertAt(s, p, x) = r
  BY DEF InsertAt, ax, a, b, one
<1> HIDE DEF r
<1>8. p + (n - p + 1) = n + 1
  BY <1>1
<1>9. ASSUME NEW k \in 1 .. n + 1
      PROVE  r[k] = IF k < p THEN s[k] ELSE IF k = p THEN x ELSE s[k - 1]
  <2>1. CASE k <= p
    <3>1. k \in 1 .. p /\ r[k] = ax[k] /\ (~(k < p) => k = p)
      BY <1>1, <1>6, <1>8, <2>1
    <3> QED
      BY <1>5, <3>1
  <2>2. CASE ~(k <= p)
    <3>1. k - p \in 1 .. n - p + 1 /\ p + (k - p) - 1 = k - 1 /\ ~(k < p) /\ k # p
      BY <1>1, <2>2
    <3> QED
      BY <1>3, <1>6, <1>8, <2>2, <3>1
  <2> QED
    BY <2>1, <2>2
<1> QED
  BY <1>6, <1>7, <1>8, <1>9

(* The elements stay, in the same order, and there is one more.            *)
LEMMA InsertAtKeeps ==
  ASSUME NEW S, NEW s \in Seq(S), NEW x \in S, NEW p \in 1 .. Len(s) + 1
  PROVE  LET r == InsertAt(s, p, x)
         IN /\ r \in Seq(S) /\ Len(r) = Len(s) + 1
            /\ ToSet(r) = ToSet(s) \cup {x}
            /\ IsInjective(s) /\ x \notin ToSet(s) => IsInjective(r)
<1> DEFINE r == InsertAt(s, p, x)
           n == Len(s)
<1>1. /\ r \in Seq(S) /\ Len(r) = n + 1
      /\ \A k \in 1 .. n + 1 : r[k] = IF k < p THEN s[k] ELSE IF k = p THEN x ELSE s[k - 1]
  BY InsertAtIs
<1>2. n \in Nat /\ p \in 1 .. n + 1 /\ DOMAIN s = 1 .. n
  OBVIOUS
<1> HIDE DEF r
<1>3. DOMAIN r = 1 .. n + 1
  BY <1>1
<1> HIDE DEF n
<1>4. ASSUME NEW k \in 1 .. n + 1
      PROVE  (r[k] = x /\ k = p) \/ (\E m \in 1 .. n : r[k] = s[m] /\ m = (IF k < p THEN k ELSE k - 1))
  <2>1. CASE k < p
    BY <1>1, <1>2, <2>1
  <2>2. CASE k = p
    BY <1>1, <1>2, <2>2
  <2>3. CASE k > p
    <3>1. k - 1 \in 1 .. n /\ ~(k < p) /\ k # p
      BY <1>2, <2>3
    <3> QED
      BY <1>1, <3>1
  <2> QED
    BY <1>2, <2>1, <2>2, <2>3
<1>5. ASSUME NEW m \in 1 .. n
      PROVE  \E k \in 1 .. n + 1 : r[k] = s[m]
  <2>1. CASE m < p
    BY <1>1, <1>2, <2>1
  <2>2. CASE ~(m < p)
    <3>1. m + 1 \in 1 .. n + 1 /\ ~(m + 1 < p) /\ m + 1 # p /\ (m + 1) - 1 = m
      BY <1>2, <2>2
    <3> QED
      BY <1>1, <3>1
  <2> QED
    BY <2>1, <2>2
<1>6. ToSet(r) = ToSet(s) \cup {x}
  <2>1. r[p] = x
    BY <1>1, <1>2
  <2>2. ToSet(r) \subseteq ToSet(s) \cup {x}
    BY <1>2, <1>3, <1>4 DEF ToSet
  <2>3. ToSet(s) \cup {x} \subseteq ToSet(r)
    BY <1>2, <1>3, <1>5, <2>1 DEF ToSet
  <2> QED
    BY <2>2, <2>3
<1>7. ASSUME IsInjective(s), x \notin ToSet(s) PROVE IsInjective(r)
  <2> SUFFICES ASSUME NEW k \in 1 .. n + 1, NEW l \in 1 .. n + 1, r[k] = r[l]
               PROVE  k = l
    BY <1>3 DEF IsInjective
  <2>1. \A m \in 1 .. n : s[m] # x
    BY <1>2, <1>7 DEF ToSet
  <2>2. CASE k = p \/ l = p
    BY <1>1, <1>2, <1>4, <2>1, <2>2
  <2>3. CASE k # p /\ l # p
    <3>1. PICK m \in 1 .. n : r[k] = s[m] /\ m = (IF k < p THEN k ELSE k - 1)
      BY <1>4, <2>3
    <3>2. PICK q \in 1 .. n : r[l] = s[q] /\ q = (IF l < p THEN l ELSE l - 1)
      BY <1>4, <2>3
    <3>3. m = q
      BY <1>2, <1>7, <3>1, <3>2 DEF IsInjective
    <3> QED
      BY <1>2, <2>3, <3>1, <3>2, <3>3
  <2> QED
    BY <2>2, <2>3
<1> QED
  BY <1>1, <1>6, <1>7 DEF r, n

(* A name that is added to a list is there, and the others too.            *)
LEMMA ListAddKeeps ==
  ASSUME NEW S, NEW s \in Seq(S), NEW x \in S
  PROVE  LET r == ListAdd(s, x)
         IN /\ r \in Seq(S) /\ Len(r) = Len(s) + 1
            /\ ToSet(r) = ToSet(s) \cup {x}
            /\ IsInjective(s) /\ x \notin ToSet(s) => IsInjective(r)
<1>1. CASE Len(s) < 2
  <2> DEFINE n == Len(s)
             r == Append(s, x)
  <2>1. n \in Nat /\ DOMAIN s = 1 .. n /\ \A k \in 1 .. n : s[k] \in S
    OBVIOUS
  <2>2. /\ r \in Seq(S) /\ Len(r) = n + 1 /\ DOMAIN r = 1 .. n + 1
        /\ \A k \in 1 .. n : r[k] = s[k]
        /\ r[n + 1] = x
    OBVIOUS
  <2>3. ListAdd(s, x) = r
    BY <1>1 DEF ListAdd
  <2> HIDE DEF r, n
  <2>4. \A k \in 1 .. n + 1 : k \in 1 .. n \/ k = n + 1
    BY <2>1
  <2>5. ToSet(r) = ToSet(s) \cup {x}
    <3>1. ToSet(r) \subseteq ToSet(s) \cup {x}
      BY <2>1, <2>2, <2>4 DEF ToSet
    <3>2. 1 .. n \subseteq 1 .. n + 1 /\ n + 1 \in 1 .. n + 1
      BY <2>1
    <3>3. ToSet(s) \cup {x} \subseteq ToSet(r)
      BY <2>1, <2>2, <3>2 DEF ToSet
    <3> QED
      BY <3>1, <3>3
  <2>6. IsInjective(s) /\ x \notin ToSet(s) => IsInjective(r)
    <3>1. x \notin ToSet(s) => \A k \in 1 .. n : s[k] # x
      BY <2>1 DEF ToSet
    <3> QED
      BY <2>1, <2>2, <2>4, <3>1 DEF IsInjective
  <2> QED
    BY <2>2, <2>3, <2>5, <2>6 DEF n
<1>2. CASE ~(Len(s) < 2)
  <2>1. ListAdd(s, x) = InsertAt(s, 2, x)
    BY <1>2 DEF ListAdd
  <2>2. 2 \in 1 .. Len(s) + 1
    BY <1>2
  <2> QED
    BY <2>1, <2>2, InsertAtKeeps
<1> QED
  BY <1>1, <1>2

Ascends(s) == \A j, k \in DOMAIN s : j < k => s[j] < s[k]

(* One step of the insertion sort.                                         *)
LEMMA InsertedKeeps ==
  ASSUME NEW S, S \subseteq Nat, NEW s \in Seq(S), Len(s) >= 1, NEW x \in S
  PROVE  LET r == Inserted(s, x)
         IN /\ r \in Seq(S) /\ Len(r) = Len(s) + 1
            /\ ToSet(r) = ToSet(s) \cup {x}
            /\ Ascends(s) /\ x \notin ToSet(s) => Ascends(r)
<1> DEFINE n == Len(s)
           B == {k \in 2 .. n + 1 : k = n + 1 \/ s[k] >= x}
           p == IF x < s[1] THEN 1 ELSE Min(B)
           r == InsertAt(s, p, x)
<1>1. n \in Nat /\ n >= 1 /\ DOMAIN s = 1 .. n /\ x \in Nat /\ \A k \in 1 .. n : s[k] \in Nat
  <2>1. n \in Nat /\ DOMAIN s = 1 .. n /\ \A k \in 1 .. n : s[k] \in S
    OBVIOUS
  <2>2. S \subseteq Nat /\ x \in S /\ n >= 1
    OBVIOUS
  <2> HIDE DEF n
  <2> QED
    BY <2>1, <2>2
<1>2. B \subseteq Nat /\ n + 1 \in B
  BY <1>1
<1>3. Min(B) \in B /\ \A k \in B : Min(B) <= k
  <2> HIDE DEF B, n
  <2> QED
    BY <1>2, MinIs
<1>4. Inserted(s, x) = r
  BY DEF Inserted
<1> DEFINE b == Min(B)
<1> HIDE DEF b
<1>5. b \in 2 .. n + 1 /\ (b = n + 1 \/ s[b] >= x) /\ \A k \in 2 .. n : k < b => ~(s[k] >= x)
  <2>1. b \in B /\ \A k \in B : b <= k
    BY <1>3 DEF b
  <2>2. \A k \in 2 .. n : k < b => k \notin B
    BY <1>1, <2>1
  <2> QED
    BY <1>1, <2>1, <2>2
<1>6. p = IF x < s[1] THEN 1 ELSE b
  BY DEF b
<1> HIDE DEF p, B
<1>7. p \in 1 .. n + 1
  BY <1>1, <1>5, <1>6
<1>8. /\ r \in Seq(S) /\ Len(r) = n + 1
      /\ ToSet(r) = ToSet(s) \cup {x}
  BY <1>7, InsertAtKeeps
<1>9. \A k \in 1 .. n + 1 : r[k] = IF k < p THEN s[k] ELSE IF k = p THEN x ELSE s[k - 1]
  BY <1>7, InsertAtIs
<1> HIDE DEF r
<1>10. DOMAIN r = 1 .. n + 1
  BY <1>8
<1> HIDE DEF n
<1>11. ASSUME Ascends(s), x \notin ToSet(s) PROVE Ascends(r)
  <2>1. \A k \in 1 .. n : s[k] # x
    BY <1>1, <1>11 DEF ToSet
  <2>2. \A j, k \in 1 .. n : j < k => s[j] < s[k]
    BY <1>1, <1>11 DEF Ascends
  <2>3. ASSUME NEW k \in 1 .. n, k < p PROVE s[k] < x
    <3>1. ~(x < s[1]) /\ p = b
      BY <1>1, <1>6, <2>3
    <3>2. CASE k = 1
      BY <1>1, <2>1, <3>1, <3>2
    <3>3. CASE k # 1
      <4>1. k \in 2 .. n
        BY <1>1, <3>3
      <4>2. ~(s[k] >= x) /\ s[k] \in Nat
        BY <1>1, <1>5, <2>3, <3>1, <4>1
      <4> QED
        BY <1>1, <4>2
    <3> QED
      BY <3>2, <3>3
  <2>4. ASSUME NEW k \in 1 .. n, p <= k PROVE x < s[k]
    <3>1. CASE x < s[1]
      <4>1. s[1] \in Nat /\ s[k] \in Nat /\ 1 \in 1 .. n /\ (1 < k \/ k = 1)
        BY <1>1
      <4>2. k # 1 => s[1] < s[k]
        BY <2>2, <4>1
      <4> QED
        BY <1>1, <3>1, <4>1, <4>2
    <3>2. CASE ~(x < s[1])
      <4>1. p = b /\ b \in 1 .. n /\ b # n + 1
        BY <1>1, <1>5, <1>6, <2>4, <3>2
      <4>2. s[b] >= x /\ s[b] # x /\ s[b] \in Nat /\ s[k] \in Nat
        BY <1>1, <1>5, <2>1, <4>1
      <4>3. b = k \/ s[b] < s[k]
        BY <1>1, <2>2, <2>4, <4>1
      <4> QED
        BY <1>1, <4>2, <4>3
    <3> QED
      BY <3>1, <3>2
  <2>5. ASSUME NEW j \in 1 .. n + 1, NEW k \in 1 .. n + 1, j < k PROVE r[j] < r[k]
    <3>1. CASE k < p
      <4>1. j \in 1 .. n /\ k \in 1 .. n /\ j < p
        BY <1>1, <1>7, <2>5, <3>1
      <4> QED
        BY <1>9, <2>2, <2>5, <3>1, <4>1
    <3>2. CASE k = p
      <4>1. j \in 1 .. n /\ j < p
        BY <1>1, <1>7, <2>5, <3>2
      <4>2. r[j] = s[j] /\ r[k] = x
        BY <1>1, <1>9, <3>2, <4>1
      <4> QED
        BY <2>3, <4>1, <4>2
    <3>3. CASE k > p
      <4>1. k - 1 \in 1 .. n /\ p <= k - 1 /\ r[k] = s[k - 1]
        BY <1>1, <1>7, <1>9, <3>3
      <4>2. x < s[k - 1] /\ s[k - 1] \in Nat
        BY <1>1, <2>4, <4>1
      <4>3. CASE j < p
        <5>1. j \in 1 .. n /\ r[j] = s[j]
          BY <1>1, <1>7, <1>9, <4>3
        <5>2. s[j] < x /\ s[j] \in Nat
          BY <1>1, <2>3, <4>3, <5>1
        <5> QED
          BY <1>1, <4>1, <4>2, <5>1, <5>2
      <4>4. CASE j = p
        BY <1>9, <4>1, <4>2, <4>4
      <4>5. CASE j > p
        <5>1. j - 1 \in 1 .. n /\ j - 1 < k - 1 /\ r[j] = s[j - 1]
          BY <1>1, <1>7, <1>9, <2>5, <4>5
        <5> QED
          BY <2>2, <4>1, <5>1
      <4> QED
        BY <1>7, <4>3, <4>4, <4>5
    <3> QED
      BY <1>7, <3>1, <3>2, <3>3
  <2> QED
    BY <1>10, <2>5 DEF Ascends
<1> QED
  BY <1>4, <1>8, <1>11 DEF n

(* Sorting a list keeps its names and puts them into alphabetical order.   *)
LEMMA ListSortedIs ==
  ASSUME NEW S, S \subseteq Nat, NEW list \in Seq(S)
  PROVE  LET r == ListSorted(list)
         IN /\ r \in Seq(S) /\ Len(r) = Len(list)
            /\ ToSet(r) = ToSet(list)
            /\ IsInjective(list) => Ascends(r)
<1> DEFINE L == Len(list)
           N == L - 1
           T == {r \in Seq(S) : Len(r) >= 1}
           start == <<list[1]>>
           Upto(k) == {list[m] : m \in 1 .. k + 1}
           Turn == [p \in T \X (0 .. N - 1) |-> Inserted(p[1], list[p[2] + 2])]
           Goes(f) == f = [n \in 0 .. N |-> IF n = 0 THEN start
                                            ELSE Inserted(f[n - 1], list[n + 1])]
           after == CHOOSE f : Goes(f)
           Good(k) == {r \in T : /\ Len(r) = k + 1 /\ ToSet(r) = Upto(k)
                                 /\ IsInjective(list) => Ascends(r)}
<1>1. L \in Nat /\ DOMAIN list = 1 .. L /\ \A k \in 1 .. L : list[k] \in S
  OBVIOUS
<1>2. CASE L < 2
  <2>1. ListSorted(list) = list
    BY <1>2 DEF ListSorted
  <2>2. \A j, k \in DOMAIN list : ~(j < k)
    BY <1>1, <1>2
  <2> QED
    BY <2>1, <2>2 DEF Ascends
<1>3. CASE ~(L < 2)
  <2> HIDE DEF L
  <2>1. N \in Nat /\ N >= 1 /\ N + 1 = L /\ 1 \in 1 .. L
    BY <1>1, <1>3
  <2>2. /\ start \in Seq(S) /\ Len(start) = 1 /\ DOMAIN start = 1 .. 1 /\ start[1] = list[1]
    BY <1>1, <2>1
  <2> HIDE DEF start
  <2>3. start \in T /\ start \in Good(0)
    <3>1. ToSet(start) = Upto(0)
      BY <2>2 DEF ToSet
    <3>2. Ascends(start)
      BY <2>2 DEF Ascends
    <3>3. start \in T /\ Len(start) = 0 + 1
      <4>1. 1 >= 1 /\ 1 = 0 + 1
        OBVIOUS
      <4>2. Len(start) >= 1 /\ Len(start) = 0 + 1
        BY <2>2, <4>1
      <4>3. start \in Seq(S)
        BY <2>2
      <4> QED
        BY <4>2, <4>3
    <3> HIDE DEF Upto, T
    <3> QED
      BY <3>1, <3>2, <3>3
  <2>4. ASSUME NEW r \in T, NEW x \in S
        PROVE  /\ Inserted(r, x) \in T /\ Len(Inserted(r, x)) = Len(r) + 1
               /\ ToSet(Inserted(r, x)) = ToSet(r) \cup {x}
               /\ Ascends(r) /\ x \notin ToSet(r) => Ascends(Inserted(r, x))
    <3>1. r \in Seq(S) /\ Len(r) >= 1 /\ Len(r) \in Nat
      OBVIOUS
    <3>2. /\ Inserted(r, x) \in Seq(S) /\ Len(Inserted(r, x)) = Len(r) + 1
          /\ ToSet(Inserted(r, x)) = ToSet(r) \cup {x}
          /\ Ascends(r) /\ x \notin ToSet(r) => Ascends(Inserted(r, x))
      <4> HIDE DEF T
      <4> QED
        BY <3>1, InsertedKeeps
    <3> QED
      BY <3>1, <3>2
  <2>5. \E f : Goes(f)
    <3>1. Turn \in [T \X (0 .. N - 1) -> T]
      <4>1. ASSUME NEW r \in T, NEW n \in 0 .. N - 1 PROVE Inserted(r, list[n + 2]) \in T
        <5>1. n + 2 \in 1 .. L
          BY <2>1
        <5> HIDE DEF T
        <5> QED
          BY <1>1, <2>4, <5>1
      <4> HIDE DEF T
      <4> QED
        BY <4>1
    <3>2. PICK f \in [0 .. N -> T] : IsLoop(f, N, start, Turn)
      <4> HIDE DEF Turn, T, N
      <4> QED
        BY <2>1, <2>3, <3>1, LoopExists
    <3> HIDE DEF T
    <3>3. ASSUME NEW k \in 0 .. N, k # 0
          PROVE  f[k] = Inserted(f[k - 1], list[k + 1])
      <4>1. k - 1 \in 0 .. N - 1 /\ (k - 1) + 1 = k /\ (k - 1) + 2 = k + 1
        BY <2>1, <3>3
      <4>2. f[k - 1] \in T
        BY <2>1, <3>2, <4>1
      <4>3. f[k] = Turn[<<f[k - 1], k - 1>>]
        <5> HIDE DEF Turn
        <5> QED
          BY <3>2, <4>1 DEF IsLoop
      <4> QED
        BY <4>1, <4>2, <4>3
    <3>4. Goes(f)
      <4> HIDE DEF Turn
      <4> QED
        BY <3>2, <3>3 DEF IsLoop
    <3> QED
      BY <3>4
  <2>6. Goes(after)
    <3> HIDE DEF Goes
    <3> QED
      BY <2>5
  <2>7. ListSorted(list) = after[N]
    BY <1>3 DEF ListSorted, start, L
  <2> HIDE DEF after
  <2>8. ASSUME NEW n \in 0 .. N - 1, after[n] \in Good(n)
        PROVE  after[n + 1] \in Good(n + 1)
    <3> DEFINE r == after[n]
               x == list[n + 2]
    <3>1. n + 1 \in 0 .. N /\ n + 1 # 0 /\ (n + 1) - 1 = n /\ (n + 1) + 1 = n + 2 /\ n + 2 \in 1 .. L
      BY <2>1
    <3>2. after[n + 1] = Inserted(r, x)
      BY <2>6, <3>1
    <3>3. x \in S
      BY <1>1, <3>1
    <3>4. /\ r \in T /\ Len(r) = n + 1 /\ ToSet(r) = Upto(n)
          /\ IsInjective(list) => Ascends(r)
      BY <2>8
    <3> HIDE DEF T, r, Upto
    <3>5. /\ Inserted(r, x) \in T /\ Len(Inserted(r, x)) = n + 2
          /\ ToSet(Inserted(r, x)) = Upto(n) \cup {x}
          /\ Ascends(r) /\ x \notin Upto(n) => Ascends(Inserted(r, x))
      <4> HIDE DEF x
      <4>1. (n + 1) + 1 = n + 2
        BY <2>1
      <4> QED
        BY <2>4, <3>3, <3>4, <4>1
    <3>6. Upto(n + 1) = Upto(n) \cup {x}
      <4>1. \A m : m \in 1 .. (n + 1) + 1 <=> m \in 1 .. n + 1 \/ m = n + 2
        BY <2>1
      <4> QED
        BY <4>1 DEF Upto
    <3>7. IsInjective(list) => x \notin Upto(n)
      <4>1. \A m \in 1 .. n + 1 : m \in 1 .. L /\ m # n + 2
        BY <2>1, <1>1
      <4> QED
        BY <1>1, <3>1, <4>1 DEF Upto, IsInjective
    <3> HIDE DEF x
    <3> QED
      BY <3>1, <3>2, <3>4, <3>5, <3>6, <3>7
  <2>9. \A n \in 0 .. N : after[n] \in Good(n)
    <3> DEFINE G == [n \in 0 .. N |-> Good(n)]
    <3> HIDE DEF Good
    <3>1. after[0] \in G[0]
      BY <2>1, <2>3, <2>6
    <3>2. \A n \in 0 .. N - 1 : after[n] \in G[n] => after[n + 1] \in G[n + 1]
      BY <2>1, <2>8
    <3>3. \A n \in 0 .. N : after[n] \in G[n]
      <4> HIDE DEF G, N
      <4> QED
        BY <2>1, <3>1, <3>2, LoopKeeps
    <3> QED
      BY <3>3
  <2>10. after[N] \in Good(N)
    <3> HIDE DEF Good
    <3> QED
      BY <2>1, <2>9
  <2>11. Upto(N) = ToSet(list)
    BY <1>1, <2>1 DEF ToSet
  <2> HIDE DEF Upto
  <2> QED
    BY <2>1, <2>7, <2>10, <2>11 DEF L
<1> QED
  BY <1>2, <1>3
-------------------------------------------------------------------------------
(* The invariant.                                                          *)

(* Since reading ended, until the end.                                     *)
Comparing ==
  phase \in {"compare", "done"} \/ (phase \in {"memory", "aborted"} /\ resume = "compare")

ScalarsOK ==
  /\ call \in Calls /\ minSize \in Nat
  /\ phase \in {"read", "compare", "memory", "done", "aborted", "crashed"}
  /\ resume \in {"read", "compare"}
  /\ path \in Names \cup {Null}
  /\ next \in Nat /\ boundary \in Nat
  /\ shortages \in 0 .. MaxShortages
  /\ expected \subseteq Items /\ added \subseteq Names /\ linked \subseteq Names \X Names
  /\ compared \in Seq(Items) /\ \A list \in listed : list \in Seq(Names)
  /\ wrapped \in BOOLEAN

(* The counter may count too many, but as long as groups are added there   *)
(* are more slots than it counts.                                          *)
TableOK ==
  /\ IsTable(holder) /\ holder.mode \in {"hash", "sorted"}
  /\ holder.size \in Nat /\ Count(holder) <= holder.size
  /\ holder.mode = "hash" => holder.size < holder.capacity

(* What is compared, and how far that has come.                            *)
LoopOK ==
  /\ ~Comparing => holder.mode = "hash" /\ compared = <<>> /\ listed = {}
  /\ Comparing /\ call.match # "none" => holder.mode = "sorted"
  /\ phase \in {"compare", "done"} =>
       boundary = holder.capacity /\ \A i \in Slots(holder) : i < next => holder.arr[i] = Null
  /\ phase = "done" => next >= boundary

(* Nothing is lost, doubled or mislaid.                                    *)
GroupsOK ==
  ~wrapped =>
    /\ Distinct(holder) /\ holder.size = Count(holder)
    /\ ~Comparing => Sound(holder)
    /\ Content(holder) = expected \ Compared
    /\ Compared \subseteq expected /\ IsInjective(compared)

(* What was compared is larger than what is left.                          *)
OrderOK ==
  ~wrapped /\ Comparing /\ call.match # "none" =>
    /\ Descends(holder)
    /\ \A j, k \in DOMAIN compared : j < k => compared[j] > compared[k]
    /\ \A x \in Content(holder), k \in DOMAIN compared : compared[k] > x

(* The lists of names.                                                     *)
ListsOK ==
  /\ Files \subseteq Inodes
  /\ \A i \in Files :
       /\ names[i] \in Seq(Names) /\ IsInjective(names[i])
       /\ \A f \in ToSet(names[i]) : InodeOf[f] = i
       /\ ToSet(names[i]) \subseteq added
       /\ SizeOf[i] \in expected
       /\ ~call.addHardlinked => Len(names[i]) <= 1
       /\ Comparing /\ call.match # "none" => Ascends(names[i])
  /\ call.match # "none" => \A list \in listed : Ascends(list)

(* Every name that was read is in the list of its file, until that is      *)
(* compared.                                                               *)
NamesOK ==
  ~wrapped => \A f \in added :
    \/ SizeOf[InodeOf[f]] \in Compared
    \/ /\ InodeOf[f] \in Files
       /\ names[InodeOf[f]] # <<>>
       /\ call.addHardlinked => f \in ToSet(names[InodeOf[f]])

LinksOK ==
  ~wrapped /\ Comparing /\ call.addHardlinked /\ call.report # "none" =>
    \A f, g \in added : f # g /\ InodeOf[f] = InodeOf[g] =>
      IF call.report = "all"
      THEN (<<f, g>> \in linked) # (<<g, f>> \in linked)
      ELSE \E h \in added : InodeOf[h] = InodeOf[f] /\ \A k \in {f, g} \ {h} : <<h, k>> \in linked

FinderInv ==
  ScalarsOK /\ TableOK /\ LoopOK /\ GroupsOK /\ OrderOK /\ ListsOK /\ NamesOK /\ LinksOK

(* A new table is empty, and nothing is lost in it.                        *)
LEMMA NewTableIs ==
  ASSUME NEW h \in Hash
  PROVE  LET t == NewTable(h)
         IN /\ IsTable(t) /\ t.mode = "hash" /\ t.size = 0 /\ t.capacity = InitialCapacity
            /\ Count(t) = 0 /\ Content(t) = {} /\ Sound(t)
<1> DEFINE t == NewTable(h)
<1>1. /\ IsTable(t) /\ t.mode = "hash" /\ t.size = 0 /\ t.capacity = InitialCapacity
      /\ t.arr = [i \in 0 .. InitialCapacity - 1 |-> Null]
  BY CapacityAssumption DEF NewTable, IsTable, Tables, Modes
<1> HIDE DEF t
<1>2. Used(t) = {}
  BY <1>1 DEF Used, Slots
<1>3. Content(t) = {} /\ Count(t) = 0 /\ Sound(t)
  BY <1>2, FS_EmptySet DEF Content, Count, Sound, Distinct
<1> QED
  BY <1>1, <1>3 DEF t

(* The invariant holds when the program starts.                            *)
LEMMA StartsRight ==
  ASSUME Init
  PROVE  FinderInv
<1>1. /\ call \in Calls /\ call.hash \in Hash
      /\ holder = NewTable(call.hash) /\ names = <<>> /\ phase = "read"
  BY FinderAssumption DEF Init
<1>2. Files = {} /\ ~Comparing
  BY <1>1 DEF Files, Comparing
<1>3. /\ IsTable(holder) /\ holder.mode = "hash" /\ holder.size = 0
      /\ holder.capacity = InitialCapacity
      /\ Count(holder) = 0 /\ Content(holder) = {} /\ Sound(holder)
  BY <1>1, NewTableIs
<1>4. compared = <<>> /\ DOMAIN compared = {} /\ Compared = {}
  <2>1. compared = <<>>
    BY DEF Init
  <2>2. DOMAIN compared = {}
    BY <2>1
  <2> QED
    BY <2>1, <2>2 DEF Compared
<1>5. ScalarsOK
  <2>1. compared \in Seq(Items)
    BY <1>4
  <2>2. shortages \in 0 .. MaxShortages
    BY FinderAssumption DEF Init
  <2> QED
    BY <2>1, <2>2 DEF Init, ScalarsOK
<1>6. TableOK
  BY <1>3, CapacityAssumption DEF TableOK
<1>7. LoopOK
  BY <1>1, <1>2, <1>3, <1>4 DEF Init, LoopOK
<1>8. GroupsOK
  BY <1>3, <1>4 DEF Init, GroupsOK, Sound, IsInjective
<1>9. OrderOK /\ LinksOK
  BY <1>2 DEF OrderOK, LinksOK
<1>10. ListsOK /\ NamesOK
  BY <1>2 DEF Init, ListsOK, NamesOK
<1> QED
  BY <1>5, <1>6, <1>7, <1>8, <1>9, <1>10 DEF FinderInv

(* The group of a size is in the table afterwards, and none is lost.       *)
LEMMA GroupIs ==
  ASSUME TableOK, holder.mode = "hash", NEW x \in Items
  PROVE  LET u == WithGroup(x)
         IN /\ IsTable(u) /\ u.mode = "hash" /\ u.size \in Nat /\ Count(u) <= u.size
            /\ u.size < u.capacity
            /\ Content(u) = Content(holder) \cup {x} /\ Found(u, x)
            /\ Sound(holder) /\ holder.size = Count(holder) => Sound(u) /\ u.size = Count(u)
<1>1. /\ IsTable(holder) /\ holder.size \in Nat /\ Count(holder) <= holder.size
      /\ holder.size < holder.capacity
  BY DEF TableOK
<1>2. \E i \in Slots(holder) : holder.arr[i] \in {Null, x}
  <2>1. Count(holder) < holder.capacity
    BY <1>1, UsedIsFinite, TableParts
  <2> QED
    BY <1>1, <2>1, SlotIsFree
<1>3. CASE Found(holder, x)
  <2>1. x \in Content(holder)
    BY <1>1, <1>2, <1>3, FoundIsStored
  <2>2. Content(holder) = Content(holder) \cup {x}
    BY <2>1
  <2> QED
    BY <1>1, <1>3, <2>2 DEF WithGroup
<1>4. CASE ~Found(holder, x)
  <2> DEFINE u == Added(holder, x)
  <2>1. /\ IsTable(u) /\ u.mode = holder.mode
        /\ u.size = holder.size + 1 /\ u.size < u.capacity /\ Count(u) <= u.size
        /\ Content(u) = Content(holder) \cup {x} /\ Found(u, x)
        /\ Sound(holder) => Sound(u)
    BY <1>1, AddedIs
  <2> HIDE DEF u
  <2>2. ASSUME Sound(holder), holder.size = Count(holder) PROVE u.size = Count(u)
    <3>1. x \notin Content(holder)
      BY <1>1, <1>4, <2>2, SoundFinds
    <3>2. IsFiniteSet(Content(holder)) /\ Count(holder) = Cardinality(Content(holder))
      BY <1>1, <2>2, DistinctCount DEF Sound
    <3>3. Count(u) = Cardinality(Content(u))
      BY <2>1, <2>2, DistinctCount DEF Sound
    <3>4. Cardinality(Content(u)) = Cardinality(Content(holder)) + 1
      BY <2>1, <3>1, <3>2, FS_AddElement
    <3> QED
      BY <2>1, <2>2, <3>2, <3>3, <3>4
  <2>3. WithGroup(x) = u
    BY <1>4 DEF WithGroup, u
  <2>4. u.size \in Nat
    BY <1>1, <2>1
  <2> QED
    BY <2>1, <2>2, <2>3, <2>4
<1> QED
  BY <1>3, <1>4
-------------------------------------------------------------------------------
(* Reading.                                                                *)

(* What is known of a name that is read.                                   *)
LEMMA NameFacts ==
  ASSUME FinderInv, NEW f \in call.names
  PROVE  /\ call \in Calls /\ f \in Names /\ InodeOf[f] \in Inodes
         /\ SizeOf[InodeOf[f]] \in Items /\ Names \subseteq Nat
BY FinderAssumption DEF FinderInv, ScalarsOK, Inodes

(* While reading, nothing has been compared.                               *)
LEMMA ReadingFacts ==
  ASSUME FinderInv, ~Comparing
  PROVE  /\ holder.mode = "hash" /\ TableOK
         /\ compared = <<>> /\ DOMAIN compared = {} /\ Compared = {} /\ listed = {}
         /\ ~wrapped => /\ Sound(holder) /\ holder.size = Count(holder)
                        /\ Content(holder) = expected
<1>1. holder.mode = "hash" /\ compared = <<>> /\ listed = {}
  BY DEF FinderInv, LoopOK
<1>2. DOMAIN compared = {}
  BY <1>1
<1>3. Compared = {}
  BY <1>2 DEF Compared
<1>4. TableOK
  BY DEF FinderInv
<1>5. ~wrapped => Sound(holder) /\ holder.size = Count(holder) /\ Content(holder) = expected
  BY <1>3 DEF FinderInv, GroupsOK
<1> QED
  BY <1>1, <1>2, <1>3, <1>4, <1>5

(* The table, and what is expected to be in it.                            *)
LEMMA ReadingTable ==
  ASSUME FinderInv, ~Comparing, ~Comparing', NEW x \in Items, UNCHANGED <<reports, wrapped>>,
         \/ holder' = WithGroup(x) /\ expected' = expected \cup {x}
         \/ holder' = holder /\ expected' = expected
  PROVE  TableOK' /\ GroupsOK' /\ holder'.mode = "hash"
<1>1. /\ holder.mode = "hash" /\ TableOK
      /\ compared = <<>> /\ DOMAIN compared = {} /\ Compared = {} /\ listed = {}
      /\ ~wrapped => Sound(holder) /\ holder.size = Count(holder) /\ Content(holder) = expected
  BY ReadingFacts
<1>2. compared' = compared /\ wrapped' = wrapped
  BY DEF reports
<1>3. Compared' = {} /\ IsInjective(compared')
  BY <1>1, <1>2 DEF Compared, IsInjective
<1> DEFINE u == holder'
<1>4. /\ IsTable(u) /\ u.mode = "hash" /\ u.size \in Nat /\ Count(u) <= u.size
      /\ u.size < u.capacity
      /\ ~wrapped => Sound(u) /\ u.size = Count(u) /\ Content(u) = expected'
  <2>1. CASE holder' = WithGroup(x) /\ expected' = expected \cup {x}
    BY <1>1, <2>1, GroupIs
  <2>2. CASE holder' = holder /\ expected' = expected
    BY <1>1, <2>2 DEF TableOK
  <2> QED
    BY <2>1, <2>2
<1>5. TableOK'
  BY <1>4 DEF TableOK
<1>6. GroupsOK'
  BY <1>2, <1>3, <1>4 DEF GroupsOK, Sound
<1> QED
  BY <1>4, <1>5, <1>6

(* What holds of a list of names of file i, some of them in s.             *)
ListOK(list, i, s) ==
  /\ list \in Seq(Names) /\ IsInjective(list) /\ ToSet(list) \subseteq s
  /\ \A f \in ToSet(list) : InodeOf[f] = i
  /\ ~call.addHardlinked => Len(list) <= 1

(* What holds of the list of a file that may be new.                       *)
LEMMA FileIs ==
  ASSUME FinderInv, NEW i \in Inodes
  PROVE  LET m == WithFile(i)
         IN /\ DOMAIN m = Files \cup {i}
            /\ \A j \in Files : m[j] = names[j]
            /\ i \notin Files => m[i] = <<>>
            /\ \A j \in DOMAIN m : ListOK(m[j], j, added)
<1> DEFINE m == WithFile(i)
<1>1. /\ DOMAIN m = Files \cup {i} /\ \A j \in Files : m[j] = names[j]
      /\ i \notin Files => m[i] = <<>>
  BY DEF WithFile
<1> HIDE DEF m
<1>2. \A j \in Files : ListOK(names[j], j, added)
  BY DEF FinderInv, ListsOK, ListOK
<1>3. i \notin Files => ListOK(m[i], i, added)
  <2> SUFFICES ASSUME i \notin Files PROVE ListOK(m[i], i, added)
    OBVIOUS
  <2> DEFINE e == m[i]
  <2>1. e = <<>>
    BY <1>1
  <2>2. e \in Seq(Names) /\ Len(e) = 0 /\ DOMAIN e = {}
    BY <2>1
  <2> HIDE DEF e
  <2>3. ToSet(e) = {}
    BY <2>2 DEF ToSet
  <2> QED
    BY <2>2, <2>3 DEF ListOK, IsInjective, e
<1> QED
  BY <1>1, <1>2, <1>3 DEF m

(* A file that was read has a name, and with -i it has this one.           *)
LEMMA NameIs ==
  ASSUME FinderInv, NEW f \in call.names
  PROVE  LET m == WithName(f)
             i == InodeOf[f]
         IN /\ DOMAIN m = Files \cup {i}
            /\ \A j \in DOMAIN m : ListOK(m[j], j, added \cup {f})
            /\ \A j \in Files : /\ ToSet(names[j]) \subseteq ToSet(m[j])
                                /\ names[j] # <<>> => m[j] # <<>>
            /\ m[i] # <<>>
            /\ call.addHardlinked => f \in ToSet(m[i])
<1> DEFINE i == InodeOf[f]
           w == WithFile(i)
           list == w[i]
           r == IF Wanted(f, list) THEN ListAdd(list, f) ELSE list
           m == WithName(f)
<1>1. f \in Names /\ i \in Inodes
  BY NameFacts
<1>2. /\ DOMAIN w = Files \cup {i}
      /\ \A j \in Files : w[j] = names[j]
      /\ i \notin Files => w[i] = <<>>
      /\ \A j \in DOMAIN w : ListOK(w[j], j, added)
  BY <1>1, FileIs
<1>3. m = [w EXCEPT ![i] = r]
  BY DEF WithName
<1>4. w = [j \in DOMAIN w |-> w[j]]
  BY DEF WithFile
<1> HIDE DEF w, r, m
<1>5. /\ DOMAIN m = Files \cup {i} /\ m[i] = r
      /\ \A j \in DOMAIN m : j # i => m[j] = w[j]
  BY <1>2, <1>3, <1>4
<1>6. ListOK(list, i, added)
  BY <1>2
<1> HIDE DEF list
<1>7. /\ ListOK(r, i, added \cup {f}) /\ ToSet(list) \subseteq ToSet(r) /\ r # <<>>
      /\ call.addHardlinked => f \in ToSet(r)
  <2>1. CASE Wanted(f, list)
    <3>1. f \notin ToSet(list) /\ (call.addHardlinked \/ list = <<>>)
      BY <2>1 DEF Wanted
    <3>2. /\ r \in Seq(Names) /\ Len(r) = Len(list) + 1 /\ ToSet(r) = ToSet(list) \cup {f}
          /\ IsInjective(r)
      BY <1>1, <1>6, <2>1, <3>1, ListAddKeeps DEF r, ListOK
    <3>3. Len(list) \in Nat /\ (list = <<>> => Len(list) = 0)
      BY <1>6 DEF ListOK
    <3>4. r # <<>>
      <4>1. Len(r) # 0
        BY <3>2, <3>3
      <4>2. Len(<<>>) = 0
        OBVIOUS
      <4> QED
        BY <4>1, <4>2
    <3>5. ~call.addHardlinked => Len(r) <= 1
      BY <3>1, <3>2, <3>3
    <3> QED
      BY <1>6, <3>2, <3>4, <3>5 DEF ListOK
  <2>2. CASE ~Wanted(f, list)
    <3>1. r = list /\ (f \in ToSet(list) \/ (~call.addHardlinked /\ list # <<>>))
      BY <2>2 DEF Wanted, r
    <3>2. f \in ToSet(list) => list # <<>>
      <4>1. SUFFICES ASSUME list = <<>> PROVE f \notin ToSet(list)
        OBVIOUS
      <4>2. DOMAIN list = {}
        BY <4>1
      <4> QED
        BY <4>2 DEF ToSet
    <3> QED
      BY <1>6, <3>1, <3>2 DEF ListOK
  <2> QED
    BY <2>1, <2>2
<1>8. \A j \in DOMAIN m : ListOK(m[j], j, added \cup {f})
  <2> TAKE j \in DOMAIN m
  <2>1. CASE j = i
    BY <1>5, <1>7, <2>1
  <2>2. CASE j # i
    BY <1>2, <1>5, <2>2 DEF ListOK
  <2> QED
    BY <2>1, <2>2
<1>9. \A j \in Files : ToSet(names[j]) \subseteq ToSet(m[j]) /\ (names[j] # <<>> => m[j] # <<>>)
  <2> TAKE j \in Files
  <2>1. CASE j = i
    BY <1>2, <1>5, <1>7, <2>1 DEF list
  <2>2. CASE j # i
    BY <1>2, <1>5, <2>2
  <2> QED
    BY <2>1, <2>2
<1> QED
  BY <1>5, <1>7, <1>8, <1>9 DEF m

(* Reading a name keeps the invariant.                                     *)
LEMMA ReadFileKeeps ==
  ASSUME FinderInv, NEW f \in call.names, ReadFile(f)
  PROVE  FinderInv'
<1> DEFINE i == InodeOf[f]
           x == SizeOf[i]
<1>1. /\ call \in Calls /\ f \in Names /\ i \in Inodes /\ x \in Items /\ Names \subseteq Nat
  BY NameFacts
<1>2. /\ phase = "read" /\ phase' = "read" /\ resume' = resume /\ path' = Null
      /\ holder' = WithGroup(x) /\ names' = WithName(f)
      /\ expected' = expected \cup {x} /\ added' = added \cup {f}
      /\ UNCHANGED <<call, minSize, next, boundary, shortages, reports, wrapped>>
  BY DEF ReadFile, Reads
<1> HIDE DEF i, x
<1>3. ~Comparing /\ ~Comparing'
  BY <1>2 DEF Comparing
<1>4. TableOK' /\ GroupsOK' /\ holder'.mode = "hash"
  BY <1>1, <1>2, <1>3, ReadingTable
<1>5. compared = <<>> /\ listed = {} /\ Compared = {}
  BY <1>3, ReadingFacts
<1>6. ScalarsOK'
  BY <1>1, <1>2 DEF FinderInv, ScalarsOK, reports
<1>7. LoopOK'
  BY <1>2, <1>3, <1>4, <1>5 DEF LoopOK, reports
<1>8. OrderOK' /\ LinksOK'
  BY <1>3 DEF OrderOK, LinksOK
<1>9. /\ DOMAIN names' = Files \cup {i}
      /\ \A j \in DOMAIN names' : ListOK(names'[j], j, added')
      /\ \A j \in Files : /\ ToSet(names[j]) \subseteq ToSet(names'[j])
                          /\ names[j] # <<>> => names'[j] # <<>>
      /\ names'[i] # <<>>
      /\ call.addHardlinked => f \in ToSet(names'[i])
  BY <1>2, NameIs DEF i
<1>10. ListsOK'
  <2>1. \A j \in Files : j \in Inodes /\ SizeOf[j] \in expected
    BY DEF FinderInv, ListsOK
  <2>2. \A j \in DOMAIN names' : j \in Inodes /\ SizeOf[j] \in expected'
    BY <1>1, <1>2, <1>9, <2>1 DEF x
  <2>3. listed' = {} /\ call' = call
    BY <1>2, <1>5 DEF reports
  <2> QED
    BY <1>3, <1>9, <2>2, <2>3 DEF ListsOK, ListOK, Files
<1>11. NamesOK'
  <2>1. SUFFICES ASSUME ~wrapped', NEW g \in added'
                 PROVE  /\ InodeOf[g] \in DOMAIN names' /\ names'[InodeOf[g]] # <<>>
                        /\ call.addHardlinked => g \in ToSet(names'[InodeOf[g]])
    BY <1>2 DEF NamesOK, Files
  <2>2. CASE g = f
    BY <1>9, <2>2 DEF i
  <2>3. CASE g \in added
    <3>1. /\ InodeOf[g] \in Files /\ names[InodeOf[g]] # <<>>
          /\ call.addHardlinked => g \in ToSet(names[InodeOf[g]])
      BY <1>2, <1>5, <2>1, <2>3 DEF FinderInv, NamesOK
    <3> QED
      BY <1>9, <3>1
  <2> QED
    BY <1>2, <2>2, <2>3
<1> QED
  BY <1>4, <1>6, <1>7, <1>8, <1>10, <1>11 DEF FinderInv

(* So does a shortage of memory on the way, wherever it happens.           *)
LEMMA ReadFailsKeeps ==
  ASSUME FinderInv, NEW f \in call.names, ReadFails(f)
  PROVE  FinderInv'
<1> DEFINE i == InodeOf[f]
           x == SizeOf[i]
<1>1. /\ call \in Calls /\ f \in Names /\ i \in Inodes /\ x \in Items /\ Names \subseteq Nat
  BY NameFacts
<1>2. /\ phase = "read" /\ phase' = "memory" /\ resume' = "read" /\ path' = f
      /\ shortages < MaxShortages /\ shortages' = shortages + 1
      /\ \/ ~Found(holder, x) /\ UNCHANGED <<holder, names>>
         \/ i \notin Files /\ holder' = WithGroup(x) /\ UNCHANGED names
         \/ holder' = WithGroup(x) /\ names' = WithFile(i)
      /\ expected' = expected \cup (IF Found(holder', x) THEN {x} ELSE {})
      /\ added' = added
      /\ UNCHANGED <<call, minSize, next, boundary, reports, wrapped>>
  BY DEF ReadFails, Reads
<1> HIDE DEF i, x
<1>3. ~Comparing /\ ~Comparing'
  BY <1>2 DEF Comparing
<1>4. /\ compared = <<>> /\ listed = {} /\ Compared = {}
      /\ holder.mode = "hash" /\ TableOK
  BY <1>3, ReadingFacts
<1>5. \/ holder' = WithGroup(x) /\ expected' = expected \cup {x}
      \/ holder' = holder /\ expected' = expected /\ names' = names
  <2>1. holder' = WithGroup(x) => Found(holder', x)
    BY <1>1, <1>4, GroupIs
  <2> QED
    BY <1>2, <2>1
<1>6. TableOK' /\ GroupsOK' /\ holder'.mode = "hash"
  BY <1>1, <1>2, <1>3, <1>5, ReadingTable
<1>7. ScalarsOK'
  <2>1. expected' \subseteq Items
    BY <1>1, <1>5 DEF FinderInv, ScalarsOK
  <2>2. shortages' \in 0 .. MaxShortages
    BY <1>2, FinderAssumption DEF FinderInv, ScalarsOK
  <2> QED
    BY <1>1, <1>2, <2>1, <2>2 DEF FinderInv, ScalarsOK, reports
<1>8. LoopOK'
  BY <1>2, <1>3, <1>4, <1>6 DEF LoopOK, reports
<1>9. OrderOK' /\ LinksOK'
  BY <1>3 DEF OrderOK, LinksOK
<1>10. /\ DOMAIN names' \subseteq Files \cup {i} /\ Files \subseteq DOMAIN names'
       /\ \A j \in Files : names'[j] = names[j]
       /\ \A j \in DOMAIN names' : ListOK(names'[j], j, added)
       /\ names' = names \/ expected' = expected \cup {x}
  <2>1. CASE names' = names
    BY <2>1 DEF FinderInv, ListsOK, ListOK, Files
  <2>2. CASE holder' = WithGroup(x) /\ expected' = expected \cup {x} /\ names' = WithFile(i)
    BY <1>1, <2>2, FileIs
  <2> QED
    BY <1>2, <1>5, <2>1, <2>2
<1>11. ListsOK'
  <2>1. \A j \in Files : j \in Inodes /\ SizeOf[j] \in expected
    BY DEF FinderInv, ListsOK
  <2>2. \A j \in DOMAIN names' : j \in Inodes /\ SizeOf[j] \in expected'
    BY <1>1, <1>5, <1>10, <2>1 DEF x, Files
  <2>3. listed' = {} /\ call' = call /\ added' = added
    BY <1>2, <1>4 DEF reports
  <2> QED
    BY <1>3, <1>10, <2>2, <2>3 DEF ListsOK, ListOK, Files
<1>12. NamesOK'
  <2> SUFFICES ASSUME ~wrapped', NEW g \in added'
               PROVE  /\ InodeOf[g] \in DOMAIN names' /\ names'[InodeOf[g]] # <<>>
                      /\ call.addHardlinked => g \in ToSet(names'[InodeOf[g]])
    BY <1>2 DEF NamesOK, Files
  <2>1. /\ InodeOf[g] \in Files /\ names[InodeOf[g]] # <<>>
        /\ call.addHardlinked => g \in ToSet(names[InodeOf[g]])
    BY <1>2, <1>4 DEF FinderInv, NamesOK
  <2> QED
    BY <1>10, <2>1
<1> QED
  BY <1>6, <1>7, <1>8, <1>9, <1>11, <1>12 DEF FinderInv

(* What only depends on the table and the names, and on whether comparing  *)
(* has begun.                                                              *)
LEMMA NothingElse ==
  ASSUME FinderInv, Comparing' <=> Comparing,
         UNCHANGED <<call, holder, names, expected, added, reports, wrapped>>
  PROVE  TableOK' /\ GroupsOK' /\ OrderOK' /\ ListsOK' /\ NamesOK' /\ LinksOK'
<1>1. UNCHANGED <<linked, compared, listed>>
  BY DEF reports
<1>2. Files' = Files /\ Compared' = Compared
  BY <1>1 DEF Files, Compared
<1>3. TableOK'
  BY DEF FinderInv, TableOK
<1>4. GroupsOK'
  BY <1>1, <1>2 DEF FinderInv, GroupsOK
<1>5. OrderOK'
  BY <1>1 DEF FinderInv, OrderOK
<1>6. ListsOK'
  BY <1>1, <1>2 DEF FinderInv, ListsOK
<1>7. NamesOK'
  BY <1>2 DEF FinderInv, NamesOK
<1>8. LinksOK'
  BY <1>1 DEF FinderInv, LinksOK
<1> QED
  BY <1>3, <1>4, <1>5, <1>6, <1>7, <1>8

(* A file that is skipped changes nothing the invariant speaks of.         *)
LEMMA SkipFileKeeps ==
  ASSUME FinderInv, SkipFile
  PROVE  FinderInv'
<1>1. phase = "read" /\ phase' = "read" /\ path' = Null
      /\ UNCHANGED <<call, holder, names, minSize, phase, resume, next, boundary, shortages,
                     expected, added, reports, wrapped>>
  BY DEF SkipFile
<1>2. ~Comparing /\ ~Comparing'
  BY <1>1 DEF Comparing
<1>3. TableOK' /\ GroupsOK' /\ OrderOK' /\ ListsOK' /\ NamesOK' /\ LinksOK'
  BY <1>1, <1>2, NothingElse
<1>4. ScalarsOK'
  BY <1>1 DEF FinderInv, ScalarsOK, reports
<1>5. LoopOK'
  BY <1>1, <1>2 DEF FinderInv, LoopOK, reports
<1> QED
  BY <1>3, <1>4, <1>5 DEF FinderInv

(* The end of the loop over the slots changes nothing but the phase.       *)
LEMMA FinishKeeps ==
  ASSUME FinderInv, Finish
  PROVE  FinderInv'
<1>1. phase = "compare" /\ phase' = "done" /\ next >= boundary
      /\ UNCHANGED <<call, holder, names, minSize, resume, path, next, boundary, shortages,
                     expected, added, reports, wrapped>>
  BY DEF Finish
<1>2. Comparing /\ Comparing'
  BY <1>1 DEF Comparing
<1>3. TableOK' /\ GroupsOK' /\ OrderOK' /\ ListsOK' /\ NamesOK' /\ LinksOK'
  BY <1>1, <1>2, NothingElse
<1>4. ScalarsOK'
  BY <1>1 DEF FinderInv, ScalarsOK, reports
<1>5. LoopOK'
  BY <1>1, <1>2 DEF FinderInv, LoopOK, reports, Slots
<1> QED
  BY <1>3, <1>4, <1>5 DEF FinderInv

(* A shortage of memory by itself changes nothing but the phase.           *)
LEMMA OutOfMemoryKeeps ==
  ASSUME FinderInv, OutOfMemory
  PROVE  FinderInv'
<1>1. phase \in {"read", "compare"} /\ phase' = "memory" /\ resume' = phase
      /\ shortages < MaxShortages /\ shortages' = shortages + 1
      /\ UNCHANGED <<call, holder, names, minSize, path, next, boundary, expected, added,
                     reports, wrapped>>
  BY DEF OutOfMemory
<1>2. Comparing' <=> Comparing
  BY <1>1 DEF Comparing
<1>3. TableOK' /\ GroupsOK' /\ OrderOK' /\ ListsOK' /\ NamesOK' /\ LinksOK'
  BY <1>1, <1>2, NothingElse
<1>4. ScalarsOK'
  <2>1. shortages' \in 0 .. MaxShortages
    BY <1>1, FinderAssumption DEF FinderInv, ScalarsOK
  <2> QED
    BY <1>1, <2>1 DEF FinderInv, ScalarsOK, reports
<1>5. LoopOK'
  BY <1>1, <1>2 DEF FinderInv, LoopOK, reports
<1> QED
  BY <1>3, <1>4, <1>5 DEF FinderInv
-------------------------------------------------------------------------------
(* Sorting and comparing.                                                  *)

(* The reports of hard links, made from the lists of names.                *)
LEMMA LinksAreReported ==
  ASSUME NEW list, list \in Seq(Names), IsInjective(list), NEW all \in BOOLEAN,
         NEW f \in ToSet(list), NEW g \in ToSet(list), f # g
  PROVE  LET pairs == HardLinked(list, all)
         IN /\ all => (<<f, g>> \in pairs) # (<<g, f>> \in pairs)
            /\ \A k \in {f, g} \ {list[1]} : <<list[1], k>> \in pairs
            /\ list[1] \in ToSet(list)
<1> DEFINE pairs == HardLinked(list, all)
           n == Len(list)
           Pairs == {q \in (1 .. n) \X (1 .. n) : q[1] < q[2] /\ (all \/ q[1] = 1)}
<1>1. n \in Nat /\ DOMAIN list = 1 .. n
  OBVIOUS
<1>2. pairs = {<<list[p[1]], list[p[2]]>> : p \in Pairs}
  BY DEF HardLinked
<1>3. PICK a \in 1 .. n : list[a] = f
  BY <1>1 DEF ToSet
<1>4. PICK b \in 1 .. n : list[b] = g
  BY <1>1 DEF ToSet
<1> HIDE DEF n, pairs
<1>5. \A p, q \in 1 .. n : list[p] = list[q] => p = q
  BY <1>1 DEF IsInjective
<1>6. \A p, q \in 1 .. n :
        <<list[p], list[q]>> \in pairs <=> p < q /\ (all \/ p = 1)
  <2> TAKE p, q \in 1 .. n
  <2>1. ASSUME <<list[p], list[q]>> \in pairs PROVE p < q /\ (all \/ p = 1)
    <3>1. PICK r \in Pairs : <<list[p], list[q]>> = <<list[r[1]], list[r[2]]>>
      BY <1>2, <2>1
    <3>2. r[1] = p /\ r[2] = q
      BY <1>5, <3>1
    <3> QED
      BY <3>2
  <2>2. ASSUME p < q /\ (all \/ p = 1) PROVE <<list[p], list[q]>> \in pairs
    <3>1. <<p, q>> \in Pairs
      BY <2>2
    <3> HIDE DEF Pairs
    <3> QED
      BY <1>2, <3>1
  <2> QED
    BY <2>1, <2>2
<1>7. all => (<<f, g>> \in pairs) # (<<g, f>> \in pairs)
  <2>1. a # b
    BY <1>3, <1>4
  <2>2. (a < b) # (b < a)
    BY <1>1, <2>1
  <2> QED
    BY <1>3, <1>4, <1>6, <2>2
<1>8. \A k \in {f, g} \ {list[1]} : <<list[1], k>> \in pairs
  <2>1. \A p \in 1 .. n : p # 1 => 1 < p
    BY <1>1
  <2>2. 1 \in 1 .. n
    BY <1>1, <1>3
  <2> QED
    BY <1>3, <1>4, <1>6, <2>1, <2>2
<1>9. list[1] \in ToSet(list)
  BY <1>1, <1>3 DEF ToSet
<1> QED
  BY <1>7, <1>8, <1>9 DEF pairs

(* The links that are reported are between names.                          *)
LEMMA LinksAreNames ==
  ASSUME NEW list \in Seq(Names), NEW all \in BOOLEAN
  PROVE  /\ HardLinked(list, all) \subseteq ToSet(list) \X ToSet(list)
         /\ ToSet(list) \subseteq Names
<1>1. DOMAIN list = 1 .. Len(list) /\ \A k \in 1 .. Len(list) : list[k] \in Names
  OBVIOUS
<1> QED
  BY <1>1 DEF HardLinked, ToSet

(* The end of reading: sorting groups and names keeps the invariant.       *)
LEMMA StartComparingKeeps ==
  ASSUME FinderInv, StartComparing
  PROVE  FinderInv'
<1>1. /\ phase = "read" /\ path = Null /\ next' = 0
      /\ UNCHANGED <<call, minSize, resume, path, shortages, expected, added, compared, listed,
                     wrapped>>
  BY DEF StartComparing
<1>2. /\ ~Comparing
      /\ holder.mode = "hash" /\ TableOK
      /\ compared = <<>> /\ DOMAIN compared = {} /\ Compared = {} /\ listed = {}
      /\ ~wrapped => Sound(holder) /\ holder.size = Count(holder) /\ Content(holder) = expected
  BY <1>1, ReadingFacts DEF Comparing
<1>3. CASE phase' = "crashed" /\ UNCHANGED <<holder, names, boundary, linked>>
  <2>1. ~Comparing'
    BY <1>3 DEF Comparing
  <2>2. TableOK' /\ GroupsOK' /\ OrderOK' /\ ListsOK' /\ NamesOK' /\ LinksOK'
    BY <1>1, <1>2, <1>3, <2>1, NothingElse DEF reports
  <2>3. ScalarsOK'
    BY <1>1, <1>3 DEF FinderInv, ScalarsOK
  <2>4. LoopOK'
    BY <1>1, <1>2, <1>3, <2>1 DEF LoopOK
  <2> QED
    BY <2>2, <2>3, <2>4 DEF FinderInv
<1>4. CASE /\ phase' = "compare"
           /\ call.match # "none" => Packed(Converted(holder))
           /\ IF call.match = "none" THEN UNCHANGED <<holder, names>>
              ELSE holder' = Sorted(holder) /\ names' = SortedNames
           /\ boundary' = Boundary(holder')
           /\ linked' = IF call.report = "none" THEN {}
                        ELSE UNION {HardLinked(names'[i], call.report = "all") : i \in Files}
  <2>1. Comparing'
    BY <1>4 DEF Comparing
  <2>2. /\ IsTable(holder') /\ holder'.mode = (IF call.match = "none" THEN "hash" ELSE "sorted")
        /\ holder'.capacity = holder.capacity /\ holder'.size = holder.size
        /\ Content(holder') = Content(holder) /\ Count(holder') <= Count(holder)
        /\ Distinct(holder) => Distinct(holder')
        /\ Distinct(holder) /\ call.match # "none" => Descends(holder')
    <3>1. CASE call.match = "none"
      <4>1. Count(holder) \in Nat
        BY <1>2, UsedIsFinite DEF TableOK
      <4> QED
        BY <1>2, <1>4, <3>1, <4>1 DEF TableOK
    <3>2. CASE call.match # "none"
      <4>1. /\ IsTable(holder) /\ holder.size \in Nat /\ Count(holder) <= holder.size
            /\ holder.size <= holder.capacity
        BY <1>2, TableParts DEF TableOK
      <4>2. Packed(Converted(holder)) /\ holder' = Sorted(holder)
        BY <1>4, <3>2
      <4> QED
        BY <3>2, <4>1, <4>2, SortedIs
    <3> QED
      BY <3>1, <3>2
  <2>3. Count(holder) \in Nat /\ Count(holder') \in Nat
    BY <1>2, <2>2, UsedIsFinite DEF TableOK
  <2>4. TableOK'
    BY <1>2, <2>2, <2>3 DEF TableOK
  <2>5. boundary' = holder'.capacity /\ holder'.capacity \in Nat
    BY <1>4, <2>2, TableParts DEF Boundary
  <2>6. LoopOK'
    <3>1. \A k \in Slots(holder') : ~(k < 0)
      BY <2>5 DEF Slots
    <3> QED
      BY <1>1, <1>4, <2>1, <2>2, <2>5, <3>1 DEF LoopOK
  <2>7. DOMAIN compared' = {} /\ Compared' = {}
    BY <1>1, <1>2 DEF Compared
  <2>8. GroupsOK'
    <3> SUFFICES ASSUME ~wrapped' PROVE GroupsOK'
      BY DEF GroupsOK
    <3>1. Distinct(holder) /\ holder.size = Count(holder) /\ Content(holder) = expected
      BY <1>1, <1>2 DEF Sound
    <3>2. Distinct(holder')
      BY <2>2, <3>1
    <3>3. Count(holder') = holder'.size
      BY <1>2, <2>2, <3>1, <3>2, DistinctCount DEF TableOK
    <3> QED
      BY <1>1, <2>1, <2>2, <2>7, <3>1, <3>2, <3>3 DEF GroupsOK, IsInjective
  <2>9. OrderOK'
    BY <1>1, <1>2, <2>2, <2>7 DEF OrderOK, Sound
  <2>10. /\ Files' = Files
         /\ \A i \in Files :
              /\ ListOK(names'[i], i, added) /\ ToSet(names'[i]) = ToSet(names[i])
              /\ Len(names'[i]) = Len(names[i]) /\ names[i] \in Seq(Names)
              /\ call.match # "none" => Ascends(names'[i])
    <3>1. \A i \in Files : ListOK(names[i], i, added) /\ names[i] \in Seq(Names)
      BY DEF FinderInv, ListsOK, ListOK
    <3>2. CASE call.match = "none"
      BY <1>4, <3>1, <3>2 DEF Files
    <3>3. CASE call.match # "none"
      <4>1. names' = [i \in Files |-> ListSorted(names[i])]
        BY <1>4, <3>3 DEF SortedNames
      <4>2. ASSUME NEW i \in Files
            PROVE  /\ ListOK(ListSorted(names[i]), i, added)
                   /\ ToSet(ListSorted(names[i])) = ToSet(names[i])
                   /\ Len(ListSorted(names[i])) = Len(names[i])
                   /\ Ascends(ListSorted(names[i]))
        <5> DEFINE list == names[i]
                   r == ListSorted(list)
        <5>1. list \in Seq(Names) /\ IsInjective(list) /\ ListOK(list, i, added)
          BY <3>1 DEF ListOK
        <5> HIDE DEF list
        <5>2. /\ r \in Seq(Names) /\ Len(r) = Len(list) /\ ToSet(r) = ToSet(list)
              /\ Ascends(r)
          BY <5>1, ListSortedIs, FinderAssumption
        <5> HIDE DEF r
        <5>3. IsInjective(r)
          <6>1. \A j \in DOMAIN r : j \in Nat /\ r[j] \in Nat
            <7>1. DOMAIN r = 1 .. Len(r) /\ \A j \in 1 .. Len(r) : r[j] \in Names
              BY <5>2
            <7>2. Names \subseteq Nat
              BY FinderAssumption
            <7>3. \A j \in 1 .. Len(r) : j \in Nat
              OBVIOUS
            <7> QED
              BY <7>1, <7>2, <7>3
          <6> QED
            BY <5>2, <6>1 DEF Ascends, IsInjective
        <5>4. ListOK(r, i, added)
          BY <5>1, <5>2, <5>3 DEF ListOK
        <5> QED
          BY <5>2, <5>4 DEF r, list
      <4> QED
        BY <3>1, <4>1, <4>2 DEF Files
    <3> QED
      BY <3>2, <3>3
  <2>11. ListsOK'
    <3>1. \A i \in Files : i \in Inodes /\ SizeOf[i] \in expected
      BY DEF FinderInv, ListsOK
    <3> QED
      BY <1>1, <1>2, <2>10, <3>1 DEF ListsOK, ListOK
  <2>12. \A f \in added : ~wrapped =>
           /\ InodeOf[f] \in Files /\ names'[InodeOf[f]] # <<>>
           /\ call.addHardlinked => f \in ToSet(names'[InodeOf[f]])
    <3> SUFFICES ASSUME NEW f \in added, ~wrapped
                 PROVE  /\ InodeOf[f] \in Files /\ names'[InodeOf[f]] # <<>>
                        /\ call.addHardlinked => f \in ToSet(names'[InodeOf[f]])
      OBVIOUS
    <3> DEFINE i == InodeOf[f]
               list == names[i]
               r == names'[i]
    <3>1. i \in Files /\ list # <<>> /\ (call.addHardlinked => f \in ToSet(list))
      BY <1>2 DEF FinderInv, NamesOK
    <3>2. ToSet(r) = ToSet(list) /\ Len(r) = Len(list) /\ list \in Seq(Names)
      BY <2>10, <3>1
    <3> HIDE DEF list, r, i
    <3>3. Len(list) # 0 /\ Len(<<>>) = 0
      BY <3>1, <3>2
    <3> QED
      BY <3>1, <3>2, <3>3 DEF r, i
  <2>13. NamesOK'
    BY <1>1, <2>10, <2>12 DEF NamesOK
  <2>14. \A i \in Files : \A all \in BOOLEAN :
           HardLinked(names'[i], all) \subseteq ToSet(names'[i]) \X ToSet(names'[i])
    BY <2>10, LinksAreNames DEF ListOK
  <2>15. ScalarsOK'
    <3>1. linked' \subseteq Names \X Names
      <4>1. \A i \in Files : ToSet(names'[i]) \subseteq Names
        BY <2>10 DEF ListOK, FinderInv, ScalarsOK
      <4> SUFFICES ASSUME NEW e \in linked' PROVE e \in Names \X Names
        OBVIOUS
      <4> DEFINE all == call.report = "all"
      <4>2. linked' = {} \/ linked' = UNION {HardLinked(names'[i], all) : i \in Files}
        BY <1>4
      <4>3. all \in BOOLEAN
        OBVIOUS
      <4> HIDE DEF all
      <4>4. PICK i \in Files : e \in HardLinked(names'[i], all)
        BY <4>2
      <4>5. e \in ToSet(names'[i]) \X ToSet(names'[i])
        BY <2>14, <4>3, <4>4
      <4> QED
        BY <4>1, <4>5
    <3> QED
      BY <1>1, <1>4, <2>5, <3>1 DEF FinderInv, ScalarsOK
  <2>16. LinksOK'
    <3> SUFFICES ASSUME ~wrapped', call'.addHardlinked, call'.report # "none",
                        NEW f \in added', NEW g \in added', f # g, InodeOf[f] = InodeOf[g]
                 PROVE  IF call'.report = "all"
                        THEN (<<f, g>> \in linked') # (<<g, f>> \in linked')
                        ELSE \E h \in added' : /\ InodeOf[h] = InodeOf[f]
                                               /\ \A k \in {f, g} \ {h} : <<h, k>> \in linked'
      BY DEF LinksOK
    <3> DEFINE i == InodeOf[f]
               list == names'[i]
               all == call.report = "all"
               pairs == HardLinked(list, all)
    <3>1. i \in Files /\ f \in ToSet(list) /\ g \in ToSet(list)
      BY <1>1, <2>12
    <3>2. ListOK(list, i, added)
      BY <2>10, <3>1
    <3>3. linked' = UNION {HardLinked(names'[j], all) : j \in Files}
      BY <1>1, <1>4
    <3>4. all \in BOOLEAN
      OBVIOUS
    <3>5. \A e \in {<<f, g>>, <<g, f>>} : e \in linked' => e \in pairs
      <4> SUFFICES ASSUME NEW a \in {f, g}, NEW b \in {f, g}, <<a, b>> \in linked'
                   PROVE  <<a, b>> \in pairs
        OBVIOUS
      <4>1. PICK j \in Files : <<a, b>> \in HardLinked(names'[j], all)
        BY <3>3
      <4>2. a \in ToSet(names'[j])
        BY <2>14, <3>4, <4>1
      <4>3. InodeOf[a] = j /\ InodeOf[a] = i
        BY <2>10, <4>2 DEF ListOK
      <4> QED
        BY <4>1, <4>3
    <3>6. pairs \subseteq linked'
      BY <3>1, <3>3
    <3>7. list \in Seq(Names) /\ IsInjective(list)
      BY <3>2 DEF ListOK
    <3> HIDE DEF list, all, pairs
    <3>8. /\ all => (<<f, g>> \in pairs) # (<<g, f>> \in pairs)
          /\ \A k \in {f, g} \ {list[1]} : <<list[1], k>> \in pairs
          /\ list[1] \in ToSet(list)
      BY <3>1, <3>4, <3>7, LinksAreReported DEF pairs
    <3>9. list[1] \in added /\ InodeOf[list[1]] = i
      BY <3>2, <3>8 DEF ListOK
    <3>10. CASE all
      BY <1>1, <3>5, <3>6, <3>8, <3>10 DEF all
    <3>11. CASE ~all
      BY <1>1, <3>6, <3>8, <3>9, <3>11 DEF all
    <3> QED
      BY <3>10, <3>11
  <2> QED
    BY <2>4, <2>6, <2>8, <2>9, <2>11, <2>13, <2>15, <2>16 DEF FinderInv
<1>5. QED
  BY <1>1, <1>3, <1>4 DEF StartComparing

(* The loop over the slots goes past an empty one.                         *)
LEMMA SlotComparedKeeps ==
  ASSUME FinderInv, CompareGroup, holder.arr[next] = Null
  PROVE  FinderInv'
<1>1. /\ phase = "compare" /\ phase' = "compare" /\ next < boundary /\ next' = next + 1
      /\ UNCHANGED <<call, holder, names, minSize, resume, path, boundary, shortages, expected,
                     added, linked, compared, listed, wrapped>>
  BY DEF CompareGroup
<1>2. Comparing /\ Comparing'
  BY <1>1 DEF Comparing
<1>3. TableOK' /\ GroupsOK' /\ OrderOK' /\ ListsOK' /\ NamesOK' /\ LinksOK'
  BY <1>1, <1>2, NothingElse DEF reports
<1>4. ScalarsOK'
  BY <1>1 DEF FinderInv, ScalarsOK
<1>5. LoopOK'
  <2>1. boundary = holder.capacity /\ \A i \in Slots(holder) : i < next => holder.arr[i] = Null
    BY <1>1 DEF FinderInv, LoopOK
  <2>2. \A i \in Slots(holder) : i < next + 1 => i < next \/ i = next
    BY TableParts DEF FinderInv, ScalarsOK, TableOK, Slots
  <2> QED
    BY <1>1, <1>2, <2>1, <2>2 DEF FinderInv, LoopOK
<1> QED
  BY <1>3, <1>4, <1>5 DEF FinderInv

(* What Append returns.                                                    *)
LEMMA AppendIs ==
  ASSUME NEW S, NEW s \in Seq(S), NEW x \in S
  PROVE  LET r == Append(s, x)
         IN /\ r \in Seq(S) /\ Len(s) \in Nat /\ DOMAIN s = 1 .. Len(s)
            /\ DOMAIN r = 1 .. Len(s) + 1
            /\ \A k \in DOMAIN s : k \in DOMAIN r /\ r[k] = s[k] /\ k < Len(s) + 1
            /\ r[Len(s) + 1] = x
            /\ \A k \in DOMAIN r : k \in DOMAIN s \/ k = Len(s) + 1
OBVIOUS

(* A group is compared and deleted.                                        *)
LEMMA GroupComparedKeeps ==
  ASSUME FinderInv, CompareGroup, holder.arr[next] # Null
  PROVE  FinderInv'
<1> DEFINE x == holder.arr[next]
           n == Len(compared)
<1>1. /\ phase = "compare" /\ phase' = "compare" /\ next < boundary /\ next' = next + 1
      /\ compared' = Append(compared, x)
      /\ listed' = listed \cup {names[i] : i \in {j \in Files : SizeOf[j] = x}}
      /\ holder' = DeleteItem(holder, next)
      /\ names' = [i \in {j \in Files : SizeOf[j] \in Items \ {x}} |-> names[i]]
      /\ UNCHANGED <<call, minSize, resume, path, boundary, shortages, expected, added,
                     linked, wrapped>>
  BY DEF CompareGroup, Keeping
<1>2. Comparing /\ Comparing'
  BY <1>1 DEF Comparing
<1>3. /\ IsTable(holder) /\ holder.size \in Nat /\ Count(holder) <= holder.size
      /\ holder.mode \in {"hash", "sorted"} /\ holder.capacity \in Nat
      /\ holder.mode = "hash" => holder.size < holder.capacity
      /\ boundary = holder.capacity /\ \A i \in Slots(holder) : i < next => holder.arr[i] = Null
      /\ call.match # "none" => holder.mode = "sorted"
      /\ next \in Nat
  BY <1>1, <1>2, TableParts DEF FinderInv, TableOK, LoopOK, ScalarsOK
<1>4. next \in Used(holder)
  BY <1>1, <1>3 DEF Used, Slots
<1>5. x \in Items /\ x \in Content(holder)
  BY <1>3, <1>4, TableParts DEF Content
<1>6. /\ IsTable(holder') /\ holder'.capacity = holder.capacity /\ Slots(holder') = Slots(holder)
      /\ holder'.mode = holder.mode
      /\ holder'.size \in Nat /\ holder'.size <= holder.size /\ Count(holder') <= holder'.size
      /\ holder.size = Count(holder) => holder'.size = Count(holder')
      /\ Used(holder') = Used(holder) \ {next}
      /\ \A j \in Used(holder') : holder'.arr[j] = holder.arr[j]
      /\ Distinct(holder) => Distinct(holder') /\ Content(holder') = Content(holder) \ {x}
      /\ Content(holder') \subseteq Content(holder)
      /\ Descends(holder) => Descends(holder')
  BY <1>1, <1>3, <1>4, DeletedIs
<1>7. TableOK'
  BY <1>3, <1>6 DEF TableOK
<1> HIDE DEF x
<1>8. /\ compared \in Seq(Items) /\ compared' \in Seq(Items)
      /\ n \in Nat /\ DOMAIN compared = 1 .. n /\ DOMAIN compared' = 1 .. n + 1
      /\ \A k \in DOMAIN compared : k \in DOMAIN compared' /\ compared'[k] = compared[k] /\ k < n + 1
      /\ compared'[n + 1] = x
      /\ \A k \in DOMAIN compared' : k \in DOMAIN compared \/ k = n + 1
  <2>1. compared \in Seq(Items)
    BY DEF FinderInv, ScalarsOK
  <2> QED
    BY <1>1, <1>5, <2>1, AppendIs
<1> HIDE DEF n
<1>9. Compared' = Compared \cup {x}
  <2>1. n + 1 \in DOMAIN compared'
    BY <1>8
  <2> QED
    BY <1>8, <2>1 DEF Compared
<1>10. ScalarsOK'
  <2>1. boundary \in Nat /\ next + 1 \in Nat
    BY <1>3
  <2>2. \A list \in listed' : list \in Seq(Names)
    BY <1>1 DEF FinderInv, ScalarsOK, ListsOK
  <2> QED
    BY <1>1, <1>8, <2>1, <2>2 DEF FinderInv, ScalarsOK
<1>11. LoopOK'
  <2>1. ASSUME NEW i \in Slots(holder'), i < next' PROVE holder'.arr[i] = Null
    <3>1. i < next \/ i = next
      BY <1>1, <1>3, <1>6, <2>1 DEF Slots
    <3>2. i \notin Used(holder')
      BY <1>3, <1>6, <3>1 DEF Used
    <3> QED
      BY <2>1, <3>2 DEF Used
  <2> QED
    BY <1>1, <1>2, <1>3, <1>6, <2>1 DEF LoopOK
<1>12. GroupsOK'
  <2> SUFFICES ASSUME ~wrapped' PROVE GroupsOK'
    BY DEF GroupsOK
  <2>1. /\ Distinct(holder) /\ holder.size = Count(holder)
        /\ Content(holder) = expected \ Compared
        /\ Compared \subseteq expected /\ IsInjective(compared)
    BY <1>1 DEF FinderInv, GroupsOK
  <2>2. Content(holder') = expected' \ Compared' /\ Compared' \subseteq expected'
    BY <1>1, <1>5, <1>6, <1>9, <2>1
  <2>3. IsInjective(compared')
    <3>1. \A k \in DOMAIN compared : compared[k] # x
      BY <1>5, <2>1 DEF Compared
    <3> QED
      BY <1>8, <2>1, <3>1 DEF IsInjective
  <2> QED
    BY <1>2, <1>6, <2>1, <2>2, <2>3 DEF GroupsOK
<1>13. OrderOK'
  <2> SUFFICES ASSUME ~wrapped, call.match # "none" PROVE OrderOK'
    BY <1>1 DEF OrderOK
  <2>1. /\ Descends(holder)
        /\ \A j, k \in DOMAIN compared : j < k => compared[j] > compared[k]
        /\ \A y \in Content(holder), k \in DOMAIN compared : compared[k] > y
    BY <1>2 DEF FinderInv, OrderOK
  <2>2. ASSUME NEW y \in Content(holder') PROVE x > y
    <3>1. PICK j \in Used(holder') : holder'.arr[j] = y
      BY DEF Content
    <3>2. j \in Used(holder) /\ j # next /\ holder.arr[j] = y
      BY <1>6, <3>1
    <3>3. next < j
      BY <1>3, <3>2 DEF Used, Slots
    <3> QED
      BY <1>4, <2>1, <3>2, <3>3 DEF Descends, x
  <2>3. ASSUME NEW j \in DOMAIN compared', NEW k \in DOMAIN compared', j < k
        PROVE  compared'[j] > compared'[k]
    <3>1. j \in DOMAIN compared
      BY <1>8, <2>3
    <3>2. CASE k \in DOMAIN compared
      BY <1>8, <2>1, <2>3, <3>1, <3>2
    <3>3. CASE k = n + 1
      BY <1>5, <1>8, <2>1, <3>1, <3>3
    <3> QED
      BY <1>8, <3>2, <3>3
  <2>4. ASSUME NEW y \in Content(holder'), NEW k \in DOMAIN compared' PROVE compared'[k] > y
    <3>1. CASE k \in DOMAIN compared
      BY <1>6, <1>8, <2>1, <3>1
    <3>2. CASE k = n + 1
      BY <1>8, <2>2, <3>2
    <3> QED
      BY <1>8, <3>1, <3>2
  <2> QED
    BY <1>6, <2>1, <2>3, <2>4 DEF OrderOK
<1>14. /\ Files' = {j \in Files : SizeOf[j] \in Items \ {x}}
       /\ \A i \in Files' : i \in Files /\ names'[i] = names[i]
  BY <1>1 DEF Files
<1>15. ListsOK'
  <2>1. call.match # "none" => \A list \in listed' : Ascends(list)
    BY <1>1, <1>2 DEF FinderInv, ListsOK
  <2> QED
    BY <1>1, <1>2, <1>14, <2>1 DEF FinderInv, ListsOK
<1>16. NamesOK'
  <2> SUFFICES ASSUME ~wrapped, NEW f \in added, SizeOf[InodeOf[f]] \notin Compared'
               PROVE  /\ InodeOf[f] \in Files'
                      /\ names'[InodeOf[f]] # <<>>
                      /\ call.addHardlinked => f \in ToSet(names'[InodeOf[f]])
    BY <1>1 DEF NamesOK
  <2>1. SizeOf[InodeOf[f]] \notin Compared /\ SizeOf[InodeOf[f]] # x
    BY <1>9
  <2>2. /\ InodeOf[f] \in Files
        /\ names[InodeOf[f]] # <<>>
        /\ call.addHardlinked => f \in ToSet(names[InodeOf[f]])
    BY <2>1 DEF FinderInv, NamesOK
  <2>3. SizeOf[InodeOf[f]] \in Items
    BY FinderAssumption DEF FinderInv, ScalarsOK, Inodes
  <2> QED
    BY <1>14, <2>1, <2>2, <2>3
<1>17. LinksOK'
  BY <1>1, <1>2 DEF FinderInv, LinksOK
<1> QED
  BY <1>7, <1>10, <1>11, <1>12, <1>13, <1>15, <1>16, <1>17 DEF FinderInv
-------------------------------------------------------------------------------
(* Memory.                                                                 *)

(* What a round of solveMemoryProblem does, with one name for each part.   *)
LEMMA RoundIs ==
  ASSUME FinderInv, RaiseMinSize
  PROVE  \E min \in Nat :
           LET rest == Without(holder, min)
           IN /\ minSize' = min
              /\ holder' = Fix(rest)
              /\ wrapped' = (wrapped \/ Wraps(rest))
              /\ expected' = {x \in expected : x >= min \/ x \notin Content(holder)}
              /\ names' = [i \in {j \in Files : SizeOf[j] \in {x \in Items : x >= min}} |-> names[i]]
              /\ phase = "memory" /\ phase' \in {"memory", "aborted", resume}
              /\ added' = {f \in added : SizeOf[InodeOf[f]] \in expected'}
              /\ next' = 0 /\ boundary' = Boundary(holder')
              /\ UNCHANGED <<call, resume, path, shortages, linked, compared, listed>>
<1> DEFINE stored == Content(holder)
           largest == IF stored = {} THEN 0 ELSE Max(stored)
           raised == {m \in Items : m > minSize}
           final == IF minSize >= largest - 1 THEN {minSize} ELSE {}
<1>1. raised \cup final \subseteq Nat
  BY ItemsAssumption DEF FinderInv, ScalarsOK
<1> HIDE DEF raised, final, largest
<1>2. PICK min \in raised \cup final :
          LET rest == Without(holder, min)
          IN /\ minSize' = min
             /\ holder' = Fix(rest)
             /\ wrapped' = (wrapped \/ Wraps(rest))
             /\ expected' = {x \in expected : x >= min \/ x \notin stored}
             /\ Keeping({x \in Items : x >= min})
             /\ phase' = IF rest.size = holder.size /\ min < largest - 1 THEN phase
                         ELSE IF min >= largest - 1 THEN "aborted"
                         ELSE resume
  BY DEF RaiseMinSize, raised, final, largest
<1>3. /\ phase = "memory"
      /\ added' = {f \in added : SizeOf[InodeOf[f]] \in expected'}
      /\ next' = 0 /\ boundary' = Boundary(holder')
      /\ UNCHANGED <<call, resume, path, shortages, linked, compared, listed>>
  BY DEF RaiseMinSize, reports
<1>4. min \in Nat
  BY <1>1, <1>2
<1>5. phase' \in {"memory", "aborted", resume}
  BY <1>2, <1>3
<1>6. names' = [i \in {j \in Files : SizeOf[j] \in {x \in Items : x >= min}} |-> names[i]]
  BY <1>2 DEF Keeping
<1> QED
  BY <1>2, <1>3, <1>4, <1>5, <1>6

(* What is left after a round: the groups of at least the minimum size,    *)
(* those compared, their names and the links between them.                 *)
LEMMA RaiseMinSizeKeeps ==
  ASSUME FinderInv, RaiseMinSize
  PROVE  FinderInv'
<1>1. PICK min \in Nat :
           LET rest == Without(holder, min)
           IN /\ minSize' = min
              /\ holder' = Fix(rest)
              /\ wrapped' = (wrapped \/ Wraps(rest))
              /\ expected' = {x \in expected : x >= min \/ x \notin Content(holder)}
              /\ names' = [i \in {j \in Files : SizeOf[j] \in {x \in Items : x >= min}} |-> names[i]]
              /\ phase = "memory" /\ phase' \in {"memory", "aborted", resume}
              /\ added' = {f \in added : SizeOf[InodeOf[f]] \in expected'}
              /\ next' = 0 /\ boundary' = Boundary(holder')
              /\ UNCHANGED <<call, resume, path, shortages, linked, compared, listed>>
  BY RoundIs
<1> DEFINE rest == Without(holder, min)
           u == Fix(rest)
<1>2. Comparing' <=> Comparing
  BY <1>1 DEF Comparing, FinderInv, ScalarsOK
<1>3. /\ IsTable(holder) /\ holder.mode \in {"hash", "sorted"} /\ holder.mode # "vector"
      /\ holder.size \in Nat /\ Count(holder) <= holder.size
      /\ holder.mode = "hash" => holder.size < holder.capacity
  BY DEF FinderInv, TableOK
<1>4. /\ IsTable(rest) /\ rest.capacity = holder.capacity /\ rest.mode = holder.mode
      /\ rest.size \in Nat /\ rest.size <= holder.size /\ Count(rest) <= rest.size
      /\ holder.size = Count(holder) => rest.size = Count(rest)
      /\ Content(rest) = {x \in Content(holder) : x >= min}
      /\ Distinct(holder) => Distinct(rest)
      /\ Descends(holder) => Descends(rest)
  <2> HIDE DEF rest
  <2>1. rest = Without(holder, min)
    BY DEF rest
  <2> QED
    BY <1>1, <1>3, <2>1, WithoutIs
<1>5. holder' = u /\ wrapped' = (wrapped \/ Wraps(rest))
  BY <1>1
<1> HIDE DEF rest
<1>6. /\ IsTable(u) /\ u.capacity = rest.capacity /\ u.mode = rest.mode /\ u.size = rest.size
      /\ Content(u) = Content(rest) /\ Count(u) <= Count(rest)
      /\ Distinct(rest) => Distinct(u)
      /\ rest.mode = "hash" /\ Distinct(rest) /\ NoneEarly(rest) => Sound(u)
      /\ rest.mode = "sorted" /\ Descends(rest) => Descends(u)
  BY <1>3, <1>4, FixIs
<1> HIDE DEF u
<1>7. /\ IsTable(holder') /\ holder'.capacity = holder.capacity /\ holder'.mode = holder.mode
      /\ holder'.size = rest.size /\ holder'.capacity \in Nat /\ holder'.capacity > 0
  BY <1>4, <1>5, <1>6, TableParts
<1>8. Content(holder') = {x \in Content(holder) : x >= min}
  BY <1>4, <1>5, <1>6
<1>9. boundary' = holder'.capacity
  BY <1>1, <1>3, <1>7 DEF Boundary
<1>10. TableOK'
  <2>1. Count(rest) \in Nat /\ Count(u) \in Nat /\ holder.capacity \in Nat
    BY <1>3, <1>4, <1>6, UsedIsFinite, TableParts
  <2>2. rest.mode = "hash" => rest.size < holder.capacity
    BY <1>3, <1>4, <2>1
  <2>3. Count(holder') <= holder'.size
    BY <1>4, <1>5, <1>6, <2>1
  <2> QED
    BY <1>3, <1>4, <1>7, <2>2, <2>3 DEF TableOK
<1>11. ScalarsOK'
  <2>1. expected' \subseteq Items /\ added' \subseteq Names
    BY <1>1 DEF FinderInv, ScalarsOK
  <2>2. phase' \in {"read", "compare", "memory", "done", "aborted", "crashed"}
    BY <1>1 DEF FinderInv, ScalarsOK
  <2>3. wrapped' \in BOOLEAN
    BY <1>5 DEF FinderInv, ScalarsOK, Wraps
  <2>4. next' \in Nat /\ boundary' \in Nat /\ minSize' \in Nat
    BY <1>1, <1>7, <1>9
  <2>5. UNCHANGED <<call, resume, path, shortages, linked, compared, listed>>
    BY <1>1
  <2> QED
    BY <2>1, <2>2, <2>3, <2>4, <2>5 DEF FinderInv, ScalarsOK
<1>12. LoopOK'
  <2>1. phase' # "done"
    BY <1>1 DEF FinderInv, ScalarsOK
  <2>2. \A i \in Slots(holder') : ~(i < next')
    BY <1>1, <1>7 DEF Slots
  <2>3. call' = call /\ compared' = compared /\ listed' = listed
    BY <1>1
  <2> QED
    BY <1>2, <1>7, <1>9, <2>1, <2>2, <2>3 DEF FinderInv, LoopOK
<1>13. UNCHANGED <<call, linked, compared, listed>> /\ Compared' = Compared
  BY <1>1 DEF Compared
<1>14. ~wrapped' => ~wrapped /\ ~Wraps(rest)
  BY <1>5
<1>15. GroupsOK'
  <2> SUFFICES ASSUME ~wrapped' PROVE GroupsOK'
    BY DEF GroupsOK
  <2>1. /\ Distinct(holder) /\ holder.size = Count(holder)
        /\ Content(holder) = expected \ Compared
        /\ Compared \subseteq expected /\ IsInjective(compared)
    BY <1>14 DEF FinderInv, GroupsOK
  <2>2. Distinct(rest) /\ Distinct(holder') /\ rest.size = Count(rest)
    BY <1>4, <1>5, <1>6, <2>1
  <2>3. holder'.size = Count(holder')
    <3>1. Count(rest) = Cardinality(Content(rest))
      BY <1>4, <2>2, DistinctCount
    <3>2. Count(u) = Cardinality(Content(u))
      BY <1>5, <1>6, <2>2, DistinctCount
    <3> QED
      BY <1>5, <1>6, <1>7, <2>2, <3>1, <3>2
  <2>4. ASSUME ~Comparing PROVE Sound(holder')
    <3>1. rest.mode = "hash"
      BY <1>4, <2>4 DEF FinderInv, LoopOK
    <3>2. ASSUME NEW i \in Used(rest) PROVE Home(rest, rest.arr[i]) <= i
      <4>1. ~(Home(rest, rest.arr[i]) > i)
        BY <1>14, <3>1 DEF Wraps
      <4>2. i \in Slots(rest) /\ rest.arr[i] \in Items /\ rest.capacity \in Nat
        BY <1>4, TableParts
      <4>3. Home(rest, rest.arr[i]) \in Slots(rest)
        BY <1>4, <4>2, HomeIsSlot
      <4> QED
        BY <4>1, <4>2, <4>3 DEF Slots
    <3>3. NoneEarly(rest)
      BY <3>2 DEF NoneEarly
    <3> QED
      BY <1>5, <1>6, <2>2, <3>1, <3>3
  <2>5. Content(holder') = expected' \ Compared'
    BY <1>1, <1>8, <1>13, <2>1
  <2>6. Compared' \subseteq expected'
    BY <1>1, <1>13, <2>1
  <2> QED
    BY <1>2, <1>13, <2>1, <2>2, <2>3, <2>4, <2>5, <2>6 DEF GroupsOK
<1>16. OrderOK'
  <2> SUFFICES ASSUME ~wrapped', Comparing, call.match # "none" PROVE OrderOK'
    BY <1>2, <1>13 DEF OrderOK
  <2>1. /\ Descends(holder)
        /\ \A j, k \in DOMAIN compared : j < k => compared[j] > compared[k]
        /\ \A x \in Content(holder), k \in DOMAIN compared : compared[k] > x
    BY <1>14 DEF FinderInv, OrderOK
  <2>2. rest.mode = "sorted"
    BY <1>4 DEF FinderInv, LoopOK
  <2>3. Descends(holder')
    BY <1>4, <1>5, <1>6, <2>1, <2>2
  <2>4. \A x \in Content(holder'), k \in DOMAIN compared : compared[k] > x
    BY <1>8, <2>1
  <2> QED
    BY <1>13, <2>1, <2>3, <2>4 DEF OrderOK
<1>17. /\ Files' = {j \in Files : SizeOf[j] \in {x \in Items : x >= min}}
       /\ \A i \in Files' : i \in Files /\ names'[i] = names[i]
  BY <1>1 DEF Files
<1>18. ListsOK'
  <2>1. ASSUME NEW i \in Files' PROVE SizeOf[i] \in expected' /\ ToSet(names'[i]) \subseteq added'
    <3>1. /\ i \in Files /\ SizeOf[i] >= min /\ names'[i] = names[i]
      BY <1>17
    <3>2. /\ SizeOf[i] \in expected /\ ToSet(names[i]) \subseteq added
          /\ \A f \in ToSet(names[i]) : InodeOf[f] = i
      BY <3>1 DEF FinderInv, ListsOK
    <3>3. SizeOf[i] \in expected'
      BY <1>1, <3>1, <3>2
    <3> QED
      BY <1>1, <3>1, <3>2, <3>3
  <2>2. call'.match # "none" => \A list \in listed' : Ascends(list)
    BY <1>13 DEF FinderInv, ListsOK
  <2>3. ASSUME NEW i \in Files'
        PROVE  /\ i \in Inodes
               /\ names'[i] \in Seq(Names) /\ IsInjective(names'[i])
               /\ \A f \in ToSet(names'[i]) : InodeOf[f] = i
               /\ ~call'.addHardlinked => Len(names'[i]) <= 1
               /\ Comparing' /\ call'.match # "none" => Ascends(names'[i])
    <3>1. i \in Files /\ names'[i] = names[i]
      BY <1>17
    <3> QED
      BY <1>2, <1>13, <3>1 DEF FinderInv, ListsOK
  <2> QED
    BY <2>1, <2>2, <2>3 DEF ListsOK
<1>19. NamesOK'
  <2> SUFFICES ASSUME ~wrapped', NEW f \in added', SizeOf[InodeOf[f]] \notin Compared
               PROVE  /\ InodeOf[f] \in Files'
                      /\ names'[InodeOf[f]] # <<>>
                      /\ call.addHardlinked => f \in ToSet(names'[InodeOf[f]])
    BY <1>13 DEF NamesOK
  <2>1. f \in added /\ SizeOf[InodeOf[f]] \in expected'
    BY <1>1
  <2>2. /\ InodeOf[f] \in Files
        /\ names[InodeOf[f]] # <<>>
        /\ call.addHardlinked => f \in ToSet(names[InodeOf[f]])
    BY <1>14, <2>1 DEF FinderInv, NamesOK
  <2>3. SizeOf[InodeOf[f]] >= min /\ SizeOf[InodeOf[f]] \in Items
    <3>1. Content(holder) = expected \ Compared
      BY <1>14 DEF FinderInv, GroupsOK
    <3> QED
      BY <1>1, <2>1, <3>1 DEF FinderInv, ScalarsOK
  <2>4. InodeOf[f] \in Files'
    BY <1>17, <2>2, <2>3
  <2> QED
    BY <1>17, <2>2, <2>4
<1>20. LinksOK'
  <2> SUFFICES ASSUME ~wrapped', Comparing, call.addHardlinked, call.report # "none",
                      NEW f \in added', NEW g \in added', f # g, InodeOf[f] = InodeOf[g]
               PROVE  IF call.report = "all"
                      THEN (<<f, g>> \in linked) # (<<g, f>> \in linked)
                      ELSE \E h \in added' :
                             /\ InodeOf[h] = InodeOf[f]
                             /\ \A k \in {f, g} \ {h} : <<h, k>> \in linked
    BY <1>2, <1>13 DEF LinksOK
  <2>1. f \in added /\ g \in added /\ SizeOf[InodeOf[f]] \in expected'
    BY <1>1
  <2>2. IF call.report = "all"
        THEN (<<f, g>> \in linked) # (<<g, f>> \in linked)
        ELSE \E h \in added : /\ InodeOf[h] = InodeOf[f]
                              /\ \A k \in {f, g} \ {h} : <<h, k>> \in linked
    BY <1>14, <2>1 DEF FinderInv, LinksOK
  <2>3. \A h \in added : InodeOf[h] = InodeOf[f] => h \in added'
    BY <1>1, <2>1
  <2> QED
    BY <2>2, <2>3
<1> QED
  BY <1>10, <1>11, <1>12, <1>15, <1>16, <1>18, <1>19, <1>20 DEF FinderInv
-------------------------------------------------------------------------------
(* The theorems.                                                           *)

(* Every step keeps the invariant.                                         *)
LEMMA StepKeeps ==
  ASSUME FinderInv, [Next]_vars
  PROVE  FinderInv'
<1>1. ASSUME NEW f \in call.names, ReadFile(f) PROVE FinderInv'
  BY <1>1, ReadFileKeeps
<1>2. ASSUME NEW f \in call.names, ReadFails(f) PROVE FinderInv'
  BY <1>2, ReadFailsKeeps
<1>3. CASE SkipFile
  BY <1>3, SkipFileKeeps
<1>4. CASE StartComparing
  BY <1>4, StartComparingKeeps
<1>5. CASE CompareGroup
  BY <1>5, SlotComparedKeeps, GroupComparedKeeps
<1>6. CASE Finish
  BY <1>6, FinishKeeps
<1>7. CASE OutOfMemory
  BY <1>7, OutOfMemoryKeeps
<1>8. CASE RaiseMinSize
  BY <1>8, RaiseMinSizeKeeps
<1>9. CASE UNCHANGED vars
  <2>1. /\ UNCHANGED <<call, holder, names, minSize, phase, resume, path, next, boundary>>
        /\ UNCHANGED <<shortages, expected, added, reports, wrapped>>
    BY <1>9 DEF vars
  <2>2. Comparing' <=> Comparing
    BY <2>1 DEF Comparing
  <2>3. TableOK' /\ GroupsOK' /\ OrderOK' /\ ListsOK' /\ NamesOK' /\ LinksOK'
    BY <2>1, <2>2, NothingElse
  <2>4. ScalarsOK'
    BY <2>1 DEF FinderInv, ScalarsOK, reports
  <2>5. LoopOK'
    BY <2>1, <2>2 DEF FinderInv, LoopOK, reports
  <2> QED
    BY <2>3, <2>4, <2>5 DEF FinderInv
<1> QED
  BY <1>1, <1>2, <1>3, <1>4, <1>5, <1>6, <1>7, <1>8, <1>9 DEF Next

(* The states of the finders' main loop are those FinderInv describes,     *)
(* whatever is read and however often memory runs out.                     *)
THEOREM Invariance == Spec => []FinderInv
<1>1. Init => FinderInv
  BY StartsRight
<1>2. FinderInv /\ [Next]_vars => FinderInv'
  BY StepKeeps
<1> QED
  BY <1>1, <1>2, PTL DEF Spec

(* Table, lists, counters and phases have their types in every state of    *)
(* Holder and main.cpp; the table's counter of items never falls below 0.  *)
THEOREM TypeInvariant == Spec => []TypeOK
<1>1. FinderInv => TypeOK
  <2> SUFFICES ASSUME FinderInv PROVE TypeOK
    OBVIOUS
  <2>1. /\ holder.mode \in Modes /\ holder.hash \in Hash
        /\ holder.capacity \in Nat \ {0} /\ holder.size \in Nat
        /\ holder.arr \in [Slots(holder) -> Items \cup {Null}]
    BY TableParts DEF FinderInv, TableOK
  <2>2. Files \subseteq Inodes /\ \A i \in Files : names[i] \in Seq(Names)
    BY DEF FinderInv, ListsOK
  <2> QED
    BY <2>1, <2>2 DEF FinderInv, ScalarsOK, TypeOK
<1> QED
  BY <1>1, Invariance, PTL

(* While names are read, holder[s] finds every group that was made and not *)
(* removed, with any hash function, after any number of enlargements and   *)
(* repairs, as long as fix met no item in front of its home slot.          *)
THEOREM GroupsAreFound == Spec => []GroupsFound
<1>1. FinderInv => GroupsFound
  <2> SUFFICES ASSUME FinderInv, phase = "read", ~wrapped, NEW x \in expected
               PROVE  Found(holder, x)
    BY DEF GroupsFound
  <2>1. ~Comparing
    BY DEF Comparing
  <2>2. Sound(holder) /\ Content(holder) = expected
    BY <2>1, ReadingFacts
  <2>3. IsTable(holder)
    BY DEF FinderInv, TableOK
  <2> QED
    BY <2>2, <2>3, SoundFinds
<1> QED
  BY <1>1, Invariance, PTL

(* Enlarging, fixing, sorting and deleting (container.cpp) neither lose    *)
(* nor double a group, and the counter is that of the slots in use.        *)
THEOREM NothingIsLost == Spec => []NothingLost
<1>1. FinderInv => NothingLost
  <2> SUFFICES ASSUME FinderInv, ~wrapped
               PROVE  /\ Content(holder) = expected \ Compared
                      /\ Cardinality(Used(holder)) = Cardinality(expected \ Compared)
                      /\ holder.size = Cardinality(Used(holder))
    BY DEF NothingLost
  <2>1. /\ Distinct(holder) /\ holder.size = Count(holder)
        /\ Content(holder) = expected \ Compared
    BY DEF FinderInv, GroupsOK
  <2>2. IsTable(holder)
    BY DEF FinderInv, TableOK
  <2>3. Count(holder) = Cardinality(Content(holder))
    BY <2>1, <2>2, DistinctCount
  <2> QED
    BY <2>1, <2>3 DEF Count
<1> QED
  BY <1>1, Invariance, PTL

(* The load factor keeps a slot empty, so the probing loops of key and fix *)
(* end, even after fix met items in front of their home slots.             *)
THEOREM ProbesDoEnd == Spec => []ProbesEnd
<1>1. FinderInv => ProbesEnd
  <2> SUFFICES ASSUME FinderInv, phase = "read"
               PROVE  \E i \in Slots(holder) : holder.arr[i] = Null
    BY DEF ProbesEnd
  <2>1. ~Comparing
    BY DEF Comparing
  <2>2. /\ IsTable(holder) /\ holder.size \in Nat /\ Count(holder) <= holder.size
        /\ holder.size < holder.capacity
    BY <2>1 DEF FinderInv, TableOK, LoopOK
  <2>3. Count(holder) < holder.capacity
    BY <2>2, UsedIsFinite, TableParts
  <2> QED
    BY <2>2, <2>3, SlotIsFree
<1> QED
  BY <1>1, Invariance, PTL

(* When compareFiles has gone over the slots, it has compared every group  *)
(* once, although it began again after each shortage of memory.            *)
THEOREM GroupsAreComparedOnce == Spec => []ComparedOnce
<1>1. FinderInv => ComparedOnce
  <2> SUFFICES ASSUME FinderInv, ~wrapped, phase = "done"
               PROVE  Compared = expected /\ Len(compared) = Cardinality(expected)
    BY DEF ComparedOnce
  <2> DEFINE n == Len(compared)
  <2>1. /\ boundary = holder.capacity /\ next >= boundary
        /\ \A i \in Slots(holder) : i < next => holder.arr[i] = Null
        /\ next \in Nat /\ IsTable(holder)
    BY DEF FinderInv, LoopOK, ScalarsOK, TableOK
  <2>2. \A i \in Slots(holder) : holder.arr[i] = Null
    BY <2>1, TableParts DEF Slots
  <2>3. Content(holder) = {}
    BY <2>2 DEF Content, Used
  <2>4. Compared = expected /\ IsInjective(compared)
    BY <2>3 DEF FinderInv, GroupsOK
  <2>5. n \in Nat /\ DOMAIN compared = 1 .. n
    BY DEF FinderInv, ScalarsOK
  <2> HIDE DEF n
  <2>6. IsFiniteSet(1 .. n) /\ Cardinality(1 .. n) = n
    <3>1. 1 \in Int /\ n \in Int
      BY <2>5
    <3> QED
      BY <2>5, <3>1, FS_Interval
  <2>7. ExistsBijection(1 .. n, Compared)
    <3> DEFINE f == [k \in 1 .. n |-> compared[k]]
    <3>1. f \in Bijection(1 .. n, Compared)
      BY <2>4, <2>5 DEF Compared, Bijection, Injection, Surjection, IsInjective
    <3> QED
      BY <3>1 DEF ExistsBijection
  <2>8. Cardinality(Compared) = n
    BY <2>6, <2>7, FS_Bijection
  <2> QED
    BY <2>4, <2>8 DEF n
<1> QED
  BY <1>1, Invariance, PTL

(* Unless with -a, sort and fix put the groups in reverse order of size,   *)
(* and compareFiles reports them in this order.                            *)
THEOREM ReportDoesDescend == Spec => []ReportDescends
<1>1. FinderInv => ReportDescends
  <2> SUFFICES ASSUME FinderInv, ~wrapped, call.match # "none"
               PROVE  \A k, l \in DOMAIN compared : k < l => compared[k] > compared[l]
    BY DEF ReportDescends
  <2>1. CASE ~Comparing
    BY <2>1, ReadingFacts
  <2>2. CASE Comparing
    BY <2>2 DEF FinderInv, OrderOK
  <2> QED
    BY <2>1, <2>2
<1> QED
  BY <1>1, Invariance, PTL

(* No name that readInput has read is lost or doubled in its list, also    *)
(* when it is read again after a shortage of memory, and the lists that    *)
(* are compared are in alphabetical order.                                 *)
THEOREM NamesAreKept == Spec => []NamesKept
<1>1. FinderInv => NamesKept
  <2> SUFFICES ASSUME FinderInv PROVE NamesKept
    OBVIOUS
  <2>1. ASSUME ~wrapped, NEW f \in added, SizeOf[InodeOf[f]] \notin Compared
        PROVE  /\ InodeOf[f] \in Files
               /\ LET list == names[InodeOf[f]]
                  IN /\ IsInjective(list) /\ ToSet(list) \subseteq added
                     /\ \A g \in ToSet(list) : InodeOf[g] = InodeOf[f]
                     /\ IF call.addHardlinked THEN f \in ToSet(list) ELSE Len(list) = 1
    <3> DEFINE list == names[InodeOf[f]]
    <3>1. /\ InodeOf[f] \in Files /\ list # <<>>
          /\ call.addHardlinked => f \in ToSet(list)
      BY <2>1 DEF FinderInv, NamesOK
    <3>2. /\ list \in Seq(Names) /\ IsInjective(list) /\ ToSet(list) \subseteq added
          /\ \A g \in ToSet(list) : InodeOf[g] = InodeOf[f]
          /\ ~call.addHardlinked => Len(list) <= 1
      BY <3>1 DEF FinderInv, ListsOK
    <3> HIDE DEF list
    <3>3. Len(list) \in Nat \ {0}
      BY <3>1, <3>2, EmptySeq
    <3>4. ASSUME ~call.addHardlinked PROVE Len(list) = 1
      <4> DEFINE n == Len(list)
      <4>1. n \in Nat \ {0} /\ n <= 1
        BY <3>2, <3>3, <3>4
      <4> HIDE DEF n
      <4>2. n = 1
        BY <4>1
      <4> QED
        BY <4>2 DEF n
    <3> QED
      BY <3>1, <3>2, <3>4 DEF list
  <2>2. ASSUME call.match # "none", NEW list \in listed,
               NEW j \in DOMAIN list, NEW k \in DOMAIN list, j < k
        PROVE  list[j] < list[k]
    BY <2>2 DEF FinderInv, ListsOK, Ascends
  <2> QED
    BY <2>1, <2>2 DEF NamesKept
<1> QED
  BY <1>1, Invariance, PTL

(* With -i and -r or -x, PrintHardLinked reports any two names of a file,  *)
(* as a pair or by way of the first name.                                  *)
THEOREM HardLinksAreReported == Spec => []HardLinksReported
<1>1. FinderInv => HardLinksReported
  <2> SUFFICES ASSUME FinderInv, ~wrapped, phase \in {"compare", "done"},
                      call.addHardlinked, call.report # "none",
                      NEW f \in added, NEW g \in added, f # g, InodeOf[f] = InodeOf[g]
               PROVE  IF call.report = "all"
                      THEN (<<f, g>> \in linked) # (<<g, f>> \in linked)
                      ELSE \E h \in added : \A k \in {f, g} \ {h} : <<h, k>> \in linked
    BY DEF HardLinksReported
  <2>1. Comparing
    BY DEF Comparing
  <2> QED
    BY <2>1 DEF FinderInv, LinksOK
<1> QED
  BY <1>1, Invariance, PTL
===============================================================================
