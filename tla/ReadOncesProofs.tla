---------------------------- MODULE ReadOncesProofs ----------------------------
(***************************************************************************)
(* Proofs about ReadOnces, for any number of files, pages and failures.    *)
(***************************************************************************)
EXTENDS ReadOnces, FiniteSetTheorems, WellFoundedInduction, TLAPS

-------------------------------------------------------------------------------
(* Type correctness.                                                       *)

(* The loops stay within the files and the pages.                          *)
LoopsInv ==
  /\ pc # "open" => row \in Files
  /\ pc \in {"read", "compare"} => page \in 1 .. Pages

TypeInv == TypeOK /\ LoopsInv

(* The cell that tells whether a file could be read is in the matrix.      *)
LEMMA LastColumn ==
  ASSUME NEW i \in Files
  PROVE  /\ Slot(i, n - 1) \in Cells
         /\ i < n - 1 => Slot(i, n - 1) = <<i, n - 1>> /\ <<i, n - 1>> \in Pairs
         /\ i = n - 1 => Slot(i, n - 1) \in {<<n - 2, n - 1>>, <<n - 1, n - 1>>}
<1>1. CASE i < n - 1
  BY <1>1, GroupAssumption DEF Slot, Cells, Pairs, Files
<1>2. CASE i = n - 1
  BY <1>2, GroupAssumption DEF Slot, Cells, Pairs, Files
<1> QED
  BY <1>1, <1>2, GroupAssumption DEF Files

(* There are n files and so finitely many pairs.                           *)
LEMMA FilesFinite ==
  /\ IsFiniteSet(Files) /\ Cardinality(Files) = n
  /\ IsFiniteSet(Pairs)
<1>1. IsFiniteSet(Files) /\ Cardinality(Files) = n
  BY GroupAssumption, FS_Interval DEF Files
<1>2. IsFiniteSet(Files \X Files)
  BY <1>1, FS_Product
<1>3. IsFiniteSet(Pairs)
  BY <1>2, FS_Subset DEF Pairs
<1> QED
  BY <1>1, <1>3

(* Writing a result to some cells keeps the type of the matrix.            *)
LEMMA FilledType ==
  ASSUME cell \in [Cells -> Results], NEW slots, NEW r \in Results
  PROVE  /\ Filled(slots, r) \in [Cells -> Results]
         /\ \A c \in Cells : Filled(slots, r)[c] = IF c \in slots THEN r ELSE cell[c]
BY DEF Filled

(* Counting one more pair of some files keeps the type of the counters.    *)
LEMMA CountedType ==
  ASSUME equal \in [Files -> Nat], NEW files
  PROVE  /\ Counted(files) \in [Files -> Nat]
         /\ \A i \in Files : Counted(files)[i] = IF i \in files THEN equal[i] + 1 ELSE equal[i]
BY DEF Counted

(* A failing call is remembered, and nothing else that failed changes.     *)
LEMMA FailsType ==
  ASSUME faults \in Seq(Fallible), NEW kind, Fails(kind)
  PROVE  /\ faults' \in Seq(Fallible) /\ ~NoFaults'
         /\ Struck(kind)'
         /\ \A k : Struck(k) => Struck(k)'
<1>1. kind \in Fallible /\ faults' = Append(faults, kind)
  BY DEF Fails
<1>2. /\ faults' \in Seq(Fallible) /\ Len(faults') = Len(faults) + 1 /\ Len(faults) \in Nat
      /\ DOMAIN faults = 1 .. Len(faults) /\ DOMAIN faults' = 1 .. Len(faults')
      /\ faults'[Len(faults) + 1] = kind
      /\ \A m \in 1 .. Len(faults) : faults'[m] = faults[m]
  BY <1>1
<1>3. Len(faults) + 1 \in DOMAIN faults'
  BY <1>2
<1>4. faults' # <<>>
  BY <1>2
<1>5. ASSUME NEW k, Struck(k) PROVE Struck(k)'
  BY <1>2, <1>5 DEF Struck
<1> QED
  BY <1>2, <1>3, <1>4, <1>5 DEF Struck, NoFaults

(* The steps of reading keep the type of the matrix and of the buffers.    *)
LEMMA RowErrorType ==
  ASSUME TypeOK, RowError
  PROVE  /\ cell' \in [Cells -> Results] /\ equal' \in [Files -> Nat]
         /\ buffer' \in [Files -> Values \cup {Stale}]
BY FilledType, CountedType DEF TypeOK, RowError, Results

(* So does reading a page, whether or not that fails.                      *)
LEMMA ReadPageType ==
  ASSUME TypeOK, row \in Files, page \in 1 .. Pages, pc # "idle", ReadPage
  PROVE  /\ cell' \in [Cells -> Results] /\ equal' \in [Files -> Nat]
         /\ buffer' \in [Files -> Values \cup {Stale}]
         /\ faults' \in Seq(Fallible)
<1>1. content[row][page] \in Values
  BY DEF TypeOK
<1>2. CASE Fails("read") /\ RowError
  BY <1>2, RowErrorType, FailsType DEF TypeOK
<1>3. CASE /\ buffer' = [buffer EXCEPT ![row] = content[row][page]]
           /\ UNCHANGED <<cell, equal, faults>>
  BY <1>1, <1>3 DEF TypeOK
<1> QED
  BY <1>2, <1>3 DEF ReadPage

(* When a file's turn is over the next one's comes, or the comparisons.    *)
LEMMA NextRowType ==
  ASSUME row \in Files, pc = "read", NextRow
  PROVE  row' \in Files /\ pc' \in {"read", "compare"}
BY GroupAssumption DEF NextRow, Goto, Files

(* Pairs can be counted.                                                   *)
LEMMA Counts ==
  ASSUME NEW S \in SUBSET Pairs
  PROVE  Cardinality(S) \in Nat
BY FilesFinite, FS_Subset, FS_CardinalityType

(* What is to be shown of a step within the loop that reads.               *)
LEMMA ReadingType ==
  ASSUME TypeOK, UNCHANGED <<group, page, nIdenticals, lines>>, page \in 1 .. Pages,
         pc # "idle", row' \in Files, pc' \in {"read", "compare", "crashed"},
         cell' \in [Cells -> Results], equal' \in [Files -> Nat],
         buffer' \in [Files -> Values \cup {Stale}], faults' \in Seq(Fallible),
         fd' \in [Files -> {"none", "failed", "open", "closed"}], max' \in 0 .. n
  PROVE  TypeInv'
<1>1. row' \in 0 .. n
  BY GroupAssumption DEF Files
<1>2. /\ program' \in Programs /\ capacity' \in Capacities
      /\ content' \in [Files -> [1 .. Pages -> Values]] /\ rel' \in [Files -> RelPaths]
      /\ page' \in 1 .. Pages + 1 /\ nIdenticals' \in Int /\ lines' \subseteq Pairs
  BY DEF TypeOK, group
<1>3. TypeOK'
  BY <1>1, <1>2 DEF TypeOK
<1> QED
  BY <1>3 DEF TypeInv, LoopsInv

(* The file read keeps the types, whether it is held, reopened or fails.   *)
LEMMA ReadType ==
  ASSUME TypeInv, Read
  PROVE  TypeInv'
<1>0. /\ TypeOK /\ row \in Files /\ page \in 1 .. Pages /\ pc = "read"
      /\ UNCHANGED <<group, page, nIdenticals, lines>>
  BY DEF TypeInv, LoopsInv, Read
<1>1. CASE ReadHeld
  <2>1. UNCHANGED <<fd, max>> /\ row' \in Files /\ pc' \in {"read", "compare"}
    BY <1>0, <1>1, NextRowType DEF ReadHeld
  <2>2. /\ cell' \in [Cells -> Results] /\ equal' \in [Files -> Nat]
        /\ buffer' \in [Files -> Values \cup {Stale}] /\ faults' \in Seq(Fallible)
    <3>1. CASE ReadPage
      BY <1>0, <3>1, ReadPageType
    <3>2. CASE RowError /\ UNCHANGED faults
      BY <1>0, <3>2, RowErrorType DEF TypeOK
    <3> QED
      BY <1>1, <3>1, <3>2 DEF ReadHeld
  <2>3. fd' \in [Files -> {"none", "failed", "open", "closed"}] /\ max' \in 0 .. n
    BY <1>0, <2>1 DEF TypeOK
  <2> QED
    BY <1>0, <2>1, <2>2, <2>3, ReadingType
<1>2. CASE ReadReopened
  <2>1. /\ cell' \in [Cells -> Results] /\ equal' \in [Files -> Nat]
        /\ buffer' \in [Files -> Values \cup {Stale}] /\ faults' \in Seq(Fallible)
        /\ fd' \in [Files -> {"none", "failed", "open", "closed"}] /\ max' \in 0 .. n
        /\ row' \in Files /\ pc' \in {"read", "compare", "crashed"}
    <3>1. CASE ReadPage /\ fd' = [fd EXCEPT ![row] = "closed"] /\ UNCHANGED max /\ NextRow
      BY <1>0, <3>1, ReadPageType, NextRowType DEF TypeOK
    <3>2. CASE Fails("open") /\ RowError /\ UNCHANGED <<fd, max>> /\ NextRow
      BY <1>0, <3>2, RowErrorType, FailsType, NextRowType DEF TypeOK
    <3>3. CASE /\ Fails("nofile") /\ max > 0
               /\ max' = max - 1
               /\ fd' = [fd EXCEPT ![row] = "closed", ![max - 1] = "closed"]
               /\ buffer' = [buffer EXCEPT ![row] = content[row][page]]
               /\ UNCHANGED <<cell, equal>>
               /\ NextRow
      <4>1. content[row][page] \in Values /\ max' \in 0 .. n
        BY <1>0, <3>3, GroupAssumption DEF TypeOK
      <4>2. fd' \in [Files -> {"none", "failed", "open", "closed"}]
        BY <1>0, <3>3 DEF TypeOK
      <4>3. buffer' \in [Files -> Values \cup {Stale}] /\ faults' \in Seq(Fallible)
        BY <1>0, <3>3, <4>1, FailsType DEF TypeOK
      <4> QED
        BY <1>0, <3>3, <4>1, <4>2, <4>3, NextRowType DEF TypeOK
    <3>4. CASE Fails("nofile") /\ Goto("crashed") /\ UNCHANGED <<matrix, max, buffer>>
      BY <1>0, <3>4, FailsType, GroupAssumption DEF TypeOK, Goto, matrix, Files
    <3> QED
      BY <1>2, <3>1, <3>2, <3>3, <3>4 DEF ReadReopened
  <2> QED
    BY <1>0, <2>1, ReadingType
<1>3. CASE NextRow /\ UNCHANGED <<matrix, max, buffer, faults>>
  <2>1. row' \in Files /\ pc' \in {"read", "compare"}
    BY <1>0, <1>3, NextRowType
  <2>2. /\ cell' \in [Cells -> Results] /\ equal' \in [Files -> Nat]
        /\ buffer' \in [Files -> Values \cup {Stale}] /\ faults' \in Seq(Fallible)
        /\ fd' \in [Files -> {"none", "failed", "open", "closed"}] /\ max' \in 0 .. n
    BY <1>0, <1>3 DEF TypeOK, matrix
  <2> QED
    BY <1>0, <2>1, <2>2, ReadingType
<1> QED
  BY <1>1, <1>2, <1>3 DEF Read

(* Opening a file keeps the types; when there are no descriptors left, max *)
(* goes down to a number of files that are there.                          *)
LEMMA OpenType ==
  ASSUME TypeInv, Open
  PROVE  TypeInv' /\ max' <= max
<1>0. /\ TypeOK /\ pc = "open" /\ row \in 0 .. n /\ max \in 0 .. n /\ n \in Nat
      /\ UNCHANGED <<group, buffer, page, nIdenticals, lines>>
  BY GroupAssumption DEF TypeInv, TypeOK, Open
<1>1. CASE row < max /\ OpenFile
  <2>1. row' \in 0 .. n
    BY <1>0, <1>1 DEF OpenFile
  <2>2. fd' \in [Files -> {"none", "failed", "open", "closed"}]
    BY <1>0, <1>1 DEF OpenFile, TypeOK
  <2> QED
    BY <1>0, <1>1, <2>1, <2>2 DEF OpenFile, TypeInv, TypeOK, LoopsInv, group
<1>2. CASE row < max /\ OpenNoDescriptors
  <2>1. max' \in 0 .. n /\ max' <= max
    BY <1>0, <1>2, GroupAssumption DEF OpenNoDescriptors
  <2>2. fd' \in [Files -> {"none", "failed", "open", "closed"}]
    BY <1>0, <1>2 DEF OpenNoDescriptors, TypeOK
  <2>3. faults' \in Seq(Fallible)
    BY <1>0, <1>2, FailsType DEF OpenNoDescriptors, TypeOK
  <2>4. pc' = "buffer" /\ row' = 0 /\ row' \in Files /\ row' \in 0 .. n
        /\ UNCHANGED <<cell, equal>>
    BY <1>2, GroupAssumption DEF OpenNoDescriptors, Goto, Files
  <2> QED
    BY <1>0, <2>1, <2>2, <2>3, <2>4 DEF TypeInv, TypeOK, LoopsInv, group
<1>3. CASE row < max /\ OpenError
  <2>1. row' \in 0 .. n /\ UNCHANGED <<max, pc>>
    BY <1>0, <1>3 DEF OpenError
  <2>4. fd' \in [Files -> {"none", "failed", "open", "closed"}]
    BY <1>0, <1>3 DEF OpenError, TypeOK
  <2>2. cell' \in [Cells -> Results] /\ equal' \in [Files -> Nat]
    BY <1>0, <1>3, FilledType, CountedType DEF OpenError, TypeOK, Results
  <2>3. faults' \in Seq(Fallible)
    BY <1>0, <1>3, FailsType DEF OpenError, TypeOK
  <2> QED
    BY <1>0, <2>1, <2>2, <2>3, <2>4 DEF TypeInv, TypeOK, LoopsInv, group
<1>4. CASE row < max /\ row' = row + 1 /\ UNCHANGED <<matrix, max, pc, faults>>
  <2>1. row' \in 0 .. n
    BY <1>0, <1>4
  <2> QED
    BY <1>0, <1>4, <2>1 DEF TypeInv, TypeOK, LoopsInv, group, matrix
<1>5. CASE Goto("buffer") /\ UNCHANGED <<matrix, max, faults>>
  <2>1. row' = 0 /\ row' \in Files /\ row' \in 0 .. n
    BY <1>5, GroupAssumption DEF Goto, Files
  <2> QED
    BY <1>0, <1>5, <2>1 DEF Goto, TypeInv, TypeOK, LoopsInv, group, matrix
<1> QED
  BY <1>1, <1>2, <1>3, <1>4, <1>5 DEF Open

(* A row of comparisons counts pairs, and the last row ends the page.      *)
LEMMA CompareType ==
  ASSUME TypeInv, Compare
  PROVE  TypeInv'
<1>0. /\ TypeOK /\ pc = "compare" /\ row \in Files /\ page \in 1 .. Pages
      /\ UNCHANGED <<group, fd, max, buffer, nIdenticals, lines, faults>>
  BY DEF TypeInv, LoopsInv, Compare
<1>1. IsFiniteSet(Differ(row)) /\ Cardinality(Differ(row)) \in Nat
  <2>1. Differ(row) \subseteq Files
    BY <1>0, GroupAssumption DEF Differ, Files
  <2> QED
    BY <2>1, FilesFinite, FS_Subset, FS_CardinalityType
<1>2. cell' \in [Cells -> Results] /\ equal' \in [Files -> Nat]
  <2>1. CompareRow
    BY DEF Compare
  <2>2. CASE Alive(row)
    <3>1. cell' \in [Cells -> Results]
      <4>1. PICK slots : cell' = Filled(slots, "different")
        BY <2>1, <2>2 DEF CompareRow
      <4> QED
        BY <1>0, <4>1, FilledType DEF TypeOK, Results
    <3>2. equal' = [i \in Files |->
                      IF i = row THEN equal[i] + Cardinality(Differ(row))
                      ELSE IF i \in Differ(row) THEN equal[i] + 1
                      ELSE equal[i]]
      BY <2>1, <2>2 DEF CompareRow
    <3>3. equal \in [Files -> Nat]
      BY <1>0 DEF TypeOK
    <3> HIDE DEF Differ
    <3> QED
      BY <1>1, <3>1, <3>2, <3>3
  <2>3. CASE ~Alive(row)
    BY <1>0, <2>1, <2>3 DEF CompareRow, TypeOK
  <2> QED
    BY <2>2, <2>3
<1>3. CASE row < n - 1 /\ row' = row + 1 /\ UNCHANGED <<pc, page>>
  <2>1. row' \in Files /\ row' \in 0 .. n
    BY <1>0, <1>3, GroupAssumption DEF Files
  <2> QED
    BY <1>0, <1>2, <1>3, <2>1 DEF TypeInv, TypeOK, LoopsInv, group
<1>4. CASE page' = page + 1 /\ Goto(IF page < Pages THEN "read" ELSE "close")
  <2>1. row' = 0 /\ row' \in Files /\ row' \in 0 .. n
    BY <1>4, GroupAssumption DEF Goto, Files
  <2>2. /\ page' \in 1 .. Pages + 1
        /\ pc' \in {"read", "close"} /\ (pc' = "read" => page' \in 1 .. Pages)
    BY <1>0, <1>4, GroupAssumption DEF Goto
  <2> QED
    BY <1>0, <1>2, <2>1, <2>2 DEF TypeInv, TypeOK, LoopsInv, group
<1> QED
  BY <1>3, <1>4 DEF Compare

(* What is set when compareFiles is left has the types of the start.       *)
LEMMA NoGroupType ==
  ASSUME TypeOK, NoGroup
  PROVE  /\ program' = program /\ capacity' = capacity /\ max' = n /\ pc' = "idle"
         /\ row' = 0 /\ row' \in Files /\ row' \in 0 .. n
         /\ max' \in 0 .. n /\ page' \in 1 .. Pages + 1 /\ nIdenticals' \in Int
         /\ buffer' \in [Files -> Values \cup {Stale}] /\ lines' \subseteq Pairs
BY GroupAssumption DEF NoGroup, Goto, Files

(* Init and every step keep the types.                                     *)
LEMMA TypeStep ==
  ASSUME TypeInv, [Next]_vars
  PROVE  TypeInv'
<1>0. TypeOK /\ LoopsInv /\ n \in Nat /\ n >= 2
  BY GroupAssumption DEF TypeInv
<1>1. CASE NextGroup
  <2>1. pc' = "precheck" /\ row' = 0 /\ row' \in Files /\ row' \in 0 .. n
    BY <1>0, <1>1 DEF NextGroup, Goto, Files
  <2> QED
    BY <1>0, <1>1, <2>1 DEF NextGroup, TypeInv, TypeOK, LoopsInv, matrix
<1>2. CASE AvoidDiskAccess
  <2> DEFINE apart == {p \in Pairs : PreCheck(p[1], p[2])}
             of(i) == {p \in apart : i \in {p[1], p[2]}}
  <2>1. \A i \in Files : Cardinality(of(i)) \in Nat
    <3>1. \A i \in Files : of(i) \in SUBSET Pairs
      OBVIOUS
    <3> QED
      BY <3>1, Counts
  <2>2. equal' = [i \in Files |-> equal[i] + Cardinality(of(i))]
    BY <1>2 DEF AvoidDiskAccess
  <2>3. equal' \in [Files -> Nat]
    <3> HIDE DEF of
    <3> QED
      BY <1>0, <2>1, <2>2 DEF TypeOK
  <2>4. cell' \in [Cells -> Results]
    BY <1>0, <1>2, FilledType DEF AvoidDiskAccess, TypeOK, Results
  <2>5. pc' = "open" /\ row' = 0 /\ row' \in 0 .. n /\ max' \in 0 .. n /\ pc = "precheck"
    BY <1>0, <1>2 DEF AvoidDiskAccess, Goto
  <2> QED
    BY <1>0, <1>2, <2>3, <2>4, <2>5 DEF AvoidDiskAccess, TypeInv, TypeOK, LoopsInv, group
<1>3. CASE Open
  BY <1>3, OpenType
<1>4. CASE GetBuffer
  <2>1. pc' = "read" /\ row' = 0 /\ row' \in Files /\ row' \in 0 .. n /\ page' \in 1 .. Pages
        /\ page' \in 1 .. Pages + 1
    BY <1>0, <1>4, GroupAssumption DEF GetBuffer, Goto, Files
  <2> QED
    BY <1>0, <1>4, <2>1 DEF GetBuffer, TypeInv, TypeOK, LoopsInv, group, matrix
<1>5. CASE OutOfMemory
  <2>1. faults' \in Seq(Fallible) /\ UNCHANGED matrix
    BY <1>0, <1>5, FailsType DEF OutOfMemory, TypeOK
  <2> QED
    BY <1>0, <1>5, <2>1, NoGroupType DEF OutOfMemory, TypeInv, TypeOK, LoopsInv, matrix
<1>6. CASE Read
  BY <1>6, ReadType
<1>7. CASE Compare
  BY <1>7, CompareType
<1>8. CASE Close
  <2>1. pc' = "mark" /\ row' = 0 /\ row' \in Files /\ row' \in 0 .. n
    BY <1>0, <1>8 DEF Close, Goto, Files
  <2>2. fd' \in [Files -> {"none", "failed", "open", "closed"}]
    BY <1>0, <1>8 DEF Close, TypeOK
  <2> QED
    BY <1>0, <1>8, <2>1, <2>2 DEF Close, TypeInv, TypeOK, LoopsInv, group
<1>9. CASE Mark
  <2>1. pc' = "logic" /\ row' = 0 /\ row' \in Files /\ row' \in 0 .. n
    BY <1>0, <1>9 DEF Mark, Goto, Files
  <2>2. cell' \in [Cells -> Results]
    BY <1>0, <1>9, FilledType DEF Mark, TypeOK, Results
  <2>3. nIdenticals' \in Int
    BY <1>9, Counts DEF Mark
  <2> QED
    BY <1>0, <1>9, <2>1, <2>2, <2>3 DEF Mark, TypeInv, TypeOK, LoopsInv, group
<1>10. CASE MarkByLogic
  <2>1. pc' \in {"logic", "report"} /\ row' \in Files /\ row' \in 0 .. n
    <3>1. /\ row \in Files /\ pc = "logic"
          /\ IF row < n - 1 THEN row' = row + 1 /\ UNCHANGED pc ELSE Goto("report")
      BY <1>0, <1>10 DEF MarkByLogic, LoopsInv
    <3> QED
      BY <1>0, <3>1 DEF Goto, Files
  <2>2. cell' \in [Cells -> Results]
    BY <1>0, <1>10 DEF MarkByLogic, TypeOK, Results
  <2>3. nIdenticals' \in Int
    <3>1. Cardinality({p \in Pairs : Implied(p, "identical")}) \in Nat
      BY Counts
    <3>2. /\ nIdenticals' = nIdenticals - Cardinality({p \in Pairs : Implied(p, "identical")})
          /\ nIdenticals \in Int
      BY <1>0, <1>10 DEF MarkByLogic, TypeOK
    <3> QED
      BY <3>1, <3>2
  <2> QED
    BY <1>0, <1>10, <2>1, <2>2, <2>3 DEF MarkByLogic, TypeInv, TypeOK, LoopsInv, group
<1>11. CASE Report
  <2>1. pc' = "done" /\ row' = 0 /\ row' \in Files /\ row' \in 0 .. n
    BY <1>0, <1>11 DEF Report, Goto, Files
  <2> QED
    BY <1>0, <1>11, <2>1 DEF Report, TypeInv, TypeOK, LoopsInv, group, matrix
<1>12. CASE Reset
  <2>1. /\ cell' \in [Cells -> Results] /\ equal' \in [Files -> Nat]
        /\ fd' \in [Files -> {"none", "failed", "open", "closed"}] /\ faults' \in Seq(Fallible)
    BY <1>12 DEF Reset, Results
  <2> QED
    BY <1>0, <1>12, <2>1, NoGroupType DEF Reset, TypeInv, TypeOK, LoopsInv
<1>13. CASE UNCHANGED vars
  BY <1>0, <1>13 DEF vars, group, matrix, TypeInv, TypeOK, LoopsInv
<1> QED
  BY <1>1, <1>2, <1>3, <1>4, <1>5, <1>6, <1>7, <1>8, <1>9, <1>10, <1>11, <1>12, <1>13 DEF Next

(* So the types hold always.                                               *)
LEMMA TypeAlways == Spec => []TypeInv
<1>1. Init => TypeInv
  <2> SUFFICES ASSUME Init PROVE TypeInv
    OBVIOUS
  <2>1. 0 \in Files /\ 0 \in 0 .. n /\ n \in 0 .. n /\ 1 \in 1 .. Pages + 1
    BY GroupAssumption DEF Files
  <2> QED
    BY <2>1 DEF Init, TypeInv, TypeOK, LoopsInv, Results
<1> QED
  BY <1>1, TypeStep, PTL DEF Spec

(* The variables of compareFiles have their types and the loops stay       *)
(* within the files and pages, whatever fails (sizegroup.cpp).             *)
THEOREM TypeInvariant == Spec => []TypeOK
<1>1. TypeInv => TypeOK
  BY DEF TypeInv
<1> QED
  BY <1>1, TypeAlways, PTL

-------------------------------------------------------------------------------
(* Files are given up, and never taken up again before Reset.              *)

ErrorsStay == \A i \in Files : Get(i, n - 1) = "error" => cell'[Slot(i, n - 1)] = "error"

CountsGrow == \A i \in Files : equal'[i] >= equal[i]

(* Filling cells with errors, and counting, is all that a failure does.    *)
LEMMA ErrorsGrow ==
  ASSUME TypeOK, \/ UNCHANGED <<cell, equal>>
                 \/ \E slots : \E files : cell' = Filled(slots, "error") /\ equal' = Counted(files)
  PROVE  ErrorsStay /\ CountsGrow
<1>1. CASE UNCHANGED <<cell, equal>>
  BY <1>1 DEF ErrorsStay, CountsGrow, Get, TypeOK
<1>2. ASSUME NEW slots, NEW files, cell' = Filled(slots, "error"), equal' = Counted(files)
      PROVE  ErrorsStay /\ CountsGrow
  <2>1. \A c \in Cells : cell[c] = "error" => cell'[c] = "error"
    BY <1>2 DEF Filled
  <2>2. \A i \in Files : equal[i] \in Nat /\ equal'[i] >= equal[i]
    BY <1>2, CountedType DEF TypeOK
  <2> QED
    BY <2>1, <2>2, LastColumn DEF ErrorsStay, CountsGrow, Get
<1> QED
  BY <1>1, <1>2

(* What opening does to the matrix.                                        *)
LEMMA OpenGrows ==
  ASSUME TypeInv, Open
  PROVE  ErrorsStay /\ CountsGrow
<1>1. TypeOK
  BY DEF TypeInv
<1>2. CASE UNCHANGED <<cell, equal>>
  BY <1>1, <1>2, ErrorsGrow
<1>3. CASE OpenError
  BY <1>1, <1>3, ErrorsGrow DEF OpenError
<1> QED
  BY <1>2, <1>3 DEF Open, OpenFile, OpenNoDescriptors, matrix

(* What reading does to the matrix.                                        *)
LEMMA ReadGrows ==
  ASSUME TypeInv, Read
  PROVE  ErrorsStay /\ CountsGrow
<1>1. TypeOK
  BY DEF TypeInv
<1>2. CASE UNCHANGED <<cell, equal>>
  BY <1>1, <1>2, ErrorsGrow
<1>3. CASE RowError
  BY <1>1, <1>3, ErrorsGrow DEF RowError
<1> QED
  BY <1>2, <1>3 DEF Read, ReadHeld, ReadReopened, ReadPage, matrix

(* A comparison changes no cell that says a file could not be read.        *)
LEMMA CompareGrows ==
  ASSUME TypeInv, Compare
  PROVE  ErrorsStay /\ CountsGrow
<1>0. TypeOK /\ row \in Files /\ CompareRow
  BY DEF TypeInv, LoopsInv, Compare
<1>1. CASE ~Alive(row)
  BY <1>0, <1>1, ErrorsGrow DEF CompareRow
<1>2. CASE Alive(row)
  <2> DEFINE slots == {<<row, j>> : j \in Differ(row)}
  <2>1. \A c \in Cells : cell'[c] = IF c \in slots THEN "different" ELSE cell[c]
    <3>1. cell' = Filled(slots, "different")
      BY <1>0, <1>2 DEF CompareRow
    <3> HIDE DEF slots
    <3> QED
      BY <3>1 DEF Filled
  <2>2. ASSUME NEW i \in Files, Get(i, n - 1) = "error"
        PROVE  Slot(i, n - 1) \notin slots
    <3>1. SUFFICES ASSUME NEW j \in Differ(row), Slot(i, n - 1) = <<row, j>> PROVE FALSE
      OBVIOUS
    <3>2. j \in Files /\ j > row /\ row < n - 1 /\ Get(row, n - 1) # "error"
      BY <1>0, <1>2, GroupAssumption DEF Differ, Alive, Files
    <3>3. j = n - 1
      <4>1. Slot(i, n - 1) = <<i, n - 1>> \/ Slot(i, n - 1) = <<n - 2, n - 1>>
        BY DEF Slot
      <4> QED
        BY <3>1, <4>1
    <3>4. cell[<<row, j>>] # "error"
      <4>1. Slot(row, n - 1) = <<row, n - 1>>
        BY <1>0, <3>2, LastColumn
      <4> QED
        BY <3>2, <3>3, <4>1 DEF Get
    <3> QED
      BY <2>2, <3>1, <3>4 DEF Get
  <2>3. ErrorsStay
    BY <2>1, <2>2, LastColumn DEF ErrorsStay, Get
  <2>4. CountsGrow
    <3>1. IsFiniteSet(Differ(row)) /\ Cardinality(Differ(row)) \in Nat
      <4>1. Differ(row) \subseteq Files
        BY <1>0, GroupAssumption DEF Differ, Files
      <4> QED
        BY <4>1, FilesFinite, FS_Subset, FS_CardinalityType
    <3>2. equal' = [i \in Files |->
                      IF i = row THEN equal[i] + Cardinality(Differ(row))
                      ELSE IF i \in Differ(row) THEN equal[i] + 1
                      ELSE equal[i]]
      BY <1>0, <1>2 DEF CompareRow
    <3>3. equal \in [Files -> Nat]
      BY <1>0 DEF TypeOK
    <3> HIDE DEF Differ
    <3> QED
      BY <3>1, <3>2, <3>3 DEF CountsGrow
  <2> QED
    BY <2>3, <2>4
<1> QED
  BY <1>1, <1>2

(* So a file that is worked on was worked on before.                       *)
LEMMA WasAlive ==
  ASSUME TypeInv, TypeInv', capacity' = capacity, ErrorsStay, CountsGrow,
         NEW i \in Files, Alive(i)'
  PROVE  Alive(i)
<1>1. equal[i] \in Nat /\ equal'[i] \in Nat /\ n \in Nat
  BY GroupAssumption DEF TypeInv, TypeOK
<1> QED
  BY <1>1 DEF Alive, ErrorsStay, CountsGrow, Get, Slot

-------------------------------------------------------------------------------
(* Descriptors.  As long as memory suffices, which file has a descriptor   *)
(* follows from how far opening got and from max.                          *)
DescriptorsInv ==
  ~Struck("memory") =>
    /\ pc \in {"idle", "precheck"} => \A i \in Files : fd[i] = "none"
    /\ pc = "open" =>
         /\ max = n
         /\ \A i \in Files : /\ i < row /\ Alive(i) => fd[i] # "none"
                             /\ fd[i] = "open" => i < row
    /\ pc \in {"buffer", "read", "compare"} =>
         \A i \in Files : i <= max /\ Alive(i) => fd[i] # "none"
    /\ pc \in {"buffer", "read", "compare", "close"} =>
         \A i \in Files : fd[i] = "open" => i < max \/ (i = 0 /\ Struck("nofile"))
    /\ pc \in {"mark", "logic", "report", "done"} =>
         \A i \in Files : fd[i] = "open" => i = 0 /\ Struck("nofile")

(* Opening one file, or giving descriptors back.                           *)
LEMMA OpenDescriptors ==
  ASSUME TypeInv, TypeInv', DescriptorsInv, Open
  PROVE  DescriptorsInv'
<1> SUFFICES ASSUME ~Struck("memory")' PROVE DescriptorsInv'
  BY DEF DescriptorsInv
<1>0. /\ TypeOK /\ pc = "open" /\ n \in Nat /\ row \in 0 .. n /\ capacity' = capacity
      /\ fd \in [Files -> {"none", "failed", "open", "closed"}] /\ Files = 0 .. n - 1
      /\ ErrorsStay /\ CountsGrow
  BY OpenGrows, GroupAssumption DEF TypeInv, TypeOK, Open, group, Files
<1>1. ~Struck("memory") /\ (Struck("nofile") => Struck("nofile")')
  <2>1. UNCHANGED faults \/ \E k : Fails(k)
    BY DEF Open, OpenFile, OpenNoDescriptors, OpenError
  <2> QED
    BY <1>0, <2>1, FailsType DEF TypeOK, Struck
<1>2. /\ max = n
      /\ \A i \in Files : /\ i < row /\ Alive(i) => fd[i] # "none"
                          /\ fd[i] = "open" => i < row
  BY <1>0, <1>1 DEF DescriptorsInv
<1>3. \A i \in Files : Alive(i)' => Alive(i)
  BY <1>0, WasAlive
<1>4. CASE row < max /\ (OpenFile \/ OpenError)
  <2>1. /\ pc' = "open" /\ max' = max /\ row' = row + 1 /\ row \in Files
        /\ fd' = [fd EXCEPT ![row] = fd'[row]] /\ fd'[row] \in {"open", "failed"}
    BY <1>0, <1>2, <1>4 DEF OpenFile, OpenError
  <2> QED
    BY <1>0, <1>2, <1>3, <2>1 DEF DescriptorsInv
<1>5. CASE row < max /\ OpenNoDescriptors
  <2>1. Struck("nofile")' /\ pc' = "buffer" /\ max' \in 0 .. n /\ max' <= row /\ row \in Files
    BY <1>0, <1>2, <1>5, FailsType, GroupAssumption DEF OpenNoDescriptors, Goto, TypeOK
  <2>2. fd' = [i \in Files |->
                 IF i = row THEN "failed"
                 ELSE IF i \in max' .. row /\ i # 0 /\ fd[i] = "open" THEN "closed"
                 ELSE fd[i]]
    BY <1>5 DEF OpenNoDescriptors
  <2>3. \A i \in Files : i <= max' /\ Alive(i)' => fd'[i] # "none"
    BY <1>0, <1>2, <1>3, <2>1, <2>2
  <2>4. \A i \in Files : fd'[i] = "open" => i < max' \/ i = 0
    BY <1>0, <1>2, <2>1, <2>2
  <2> QED
    BY <2>1, <2>3, <2>4 DEF DescriptorsInv
<1>6. CASE row < max /\ ~Alive(row) /\ row' = row + 1 /\ UNCHANGED <<matrix, max, pc, faults>>
  BY <1>0, <1>2, <1>3, <1>6 DEF DescriptorsInv, matrix
<1>7. CASE row >= max /\ Goto("buffer") /\ UNCHANGED <<matrix, max, faults>>
  BY <1>0, <1>2, <1>3, <1>7 DEF DescriptorsInv, matrix, Goto
<1> QED
  BY <1>4, <1>5, <1>6, <1>7 DEF Open

(* Reading leaves no file that is worked on without having been opened,    *)
(* and closes the descriptor of the file that max goes down to.            *)
LEMMA ReadDescriptors ==
  ASSUME TypeInv, Read
  PROVE  /\ pc' \in {"read", "compare", "crashed"} /\ max' <= max
         /\ \A i \in Files : fd[i] # "none" => fd'[i] # "none"
         /\ \A i \in Files : fd'[i] = "open" => /\ fd[i] = "open"
                                                /\ i < max => i < max'
         /\ \A k : Struck(k) => Struck(k)'
<1>0. /\ TypeOK /\ row \in Files /\ pc = "read" /\ n \in Nat /\ Files = 0 .. n - 1
      /\ max \in 0 .. n /\ fd \in [Files -> {"none", "failed", "open", "closed"}]
  BY GroupAssumption DEF TypeInv, LoopsInv, TypeOK, Read, Files
<1>1. \A k : Struck(k) => Struck(k)'
  <2>1. UNCHANGED faults \/ \E k : Fails(k)
    BY DEF Read, ReadHeld, ReadReopened, ReadPage
  <2> QED
    BY <1>0, <2>1, FailsType DEF TypeOK, Struck
<1>2. NextRow => pc' \in {"read", "compare"}
  BY <1>0, NextRowType
<1>3. CASE UNCHANGED <<fd, max>>
  BY <1>0, <1>1, <1>2, <1>3 DEF Read, ReadHeld, ReadReopened, Goto
<1>4. CASE fd' = [fd EXCEPT ![row] = "closed"] /\ UNCHANGED max /\ NextRow
  BY <1>0, <1>1, <1>2, <1>4
<1>5. CASE /\ max > 0 /\ max' = max - 1 /\ NextRow
           /\ fd' = [fd EXCEPT ![row] = "closed", ![max - 1] = "closed"]
  BY <1>0, <1>1, <1>2, <1>5
<1> QED
  BY <1>3, <1>4, <1>5 DEF Read, ReadHeld, ReadReopened, matrix

(* Every step keeps what is known of the descriptors.                      *)
LEMMA DescriptorsStep ==
  ASSUME TypeInv, TypeInv', DescriptorsInv, [Next]_vars
  PROVE  DescriptorsInv'
<1>0. /\ TypeOK /\ n \in Nat /\ Files = 0 .. n - 1
      /\ max \in 0 .. n /\ fd \in [Files -> {"none", "failed", "open", "closed"}]
  BY GroupAssumption DEF TypeInv, TypeOK, Files
<1>1. CASE NextGroup
  BY <1>1 DEF NextGroup, Goto, DescriptorsInv, matrix, Struck
<1>2. CASE AvoidDiskAccess
  BY <1>0, <1>2 DEF AvoidDiskAccess, Goto, DescriptorsInv, Struck
<1>3. CASE Open
  BY <1>3, OpenDescriptors
<1>4. CASE GetBuffer
  BY <1>4 DEF GetBuffer, Goto, DescriptorsInv, matrix, Struck, Alive, Get, Slot, group
<1>5. CASE OutOfMemory
  BY <1>0, <1>5, FailsType DEF OutOfMemory, DescriptorsInv, TypeOK
<1>6. CASE Read
  <2> SUFFICES ASSUME ~Struck("memory")' PROVE DescriptorsInv'
    BY DEF DescriptorsInv
  <2>1. /\ pc = "read" /\ capacity' = capacity /\ ErrorsStay /\ CountsGrow
    BY <1>6, ReadGrows DEF Read, group
  <2>2. ~Struck("memory") /\ (Struck("nofile") => Struck("nofile")')
    BY <1>6, ReadDescriptors
  <2>3. \A i \in Files : i <= max /\ Alive(i) => fd[i] # "none"
    BY <2>1, <2>2 DEF DescriptorsInv
  <2>4. \A i \in Files : fd[i] = "open" => i < max \/ (i = 0 /\ Struck("nofile"))
    BY <2>1, <2>2 DEF DescriptorsInv
  <2>5. \A i \in Files : Alive(i)' => Alive(i)
    BY <2>1, WasAlive
  <2>6. max' \in 0 .. n /\ max' <= max /\ pc' \in {"read", "compare", "crashed"}
    BY <1>6, ReadDescriptors DEF TypeInv, TypeOK
  <2>7. \A i \in Files : i <= max' /\ Alive(i)' => fd'[i] # "none"
    BY <1>0, <1>6, <2>3, <2>5, <2>6, ReadDescriptors
  <2>8. \A i \in Files : fd'[i] = "open" => i < max' \/ (i = 0 /\ Struck("nofile")')
    BY <1>6, <2>2, <2>4, ReadDescriptors
  <2> QED
    BY <2>6, <2>7, <2>8 DEF DescriptorsInv
<1>7. CASE Compare
  <2>1. /\ pc = "compare" /\ capacity' = capacity /\ ErrorsStay /\ CountsGrow
        /\ UNCHANGED <<fd, max, faults>> /\ pc' \in {"read", "compare", "close"}
    BY <1>7, CompareGrows DEF Compare, group, Goto
  <2>2. \A i \in Files : Alive(i)' => Alive(i)
    BY <2>1, WasAlive
  <2> QED
    BY <2>1, <2>2 DEF DescriptorsInv, Struck
<1>8. CASE Close
  BY <1>0, <1>8 DEF Close, Goto, DescriptorsInv, Struck
<1>9. CASE Mark
  BY <1>9 DEF Mark, Goto, DescriptorsInv, Struck
<1>10. CASE MarkByLogic
  BY <1>10 DEF MarkByLogic, Goto, DescriptorsInv, Struck
<1>11. CASE Report
  BY <1>11 DEF Report, Goto, DescriptorsInv, Struck, matrix
<1>12. CASE Reset
  BY <1>12 DEF Reset, NoGroup, Goto, DescriptorsInv
<1>13. CASE UNCHANGED vars
  BY <1>13 DEF vars, group, matrix, DescriptorsInv, Struck, Alive, Get, Slot
<1> QED
  BY <1>1, <1>2, <1>3, <1>4, <1>5, <1>6, <1>7, <1>8, <1>9, <1>10, <1>11, <1>12, <1>13 DEF Next

(* So it holds always.                                                     *)
LEMMA DescriptorsAlways == Spec => []DescriptorsInv
<1>1. Init => DescriptorsInv
  BY DEF Init, DescriptorsInv
<1> QED
  BY <1>1, DescriptorsStep, TypeAlways, PTL DEF Spec

(* No descriptor stays open when a group is done with, but the first one's *)
(* when they ran out (sizegroup.cpp, readOnlyOncesOpen and -Close), for    *)
(* any number of files and any failures short of memory.                   *)
THEOREM DescriptorsAlwaysClosed == Spec => []DescriptorsClosed
<1>1. DescriptorsInv => DescriptorsClosed
  BY DEF DescriptorsInv, DescriptorsClosed
<1> QED
  BY <1>1, DescriptorsAlways, PTL

(* A file that is worked on has been tried to open, so nothing is ever     *)
(* read from descriptor 0 in its place (readOnlyOncesCompare).             *)
THEOREM StdinNeverRead == Spec => []NeverReadsStdin
<1>1. DescriptorsInv => NeverReadsStdin
  BY DEF DescriptorsInv, NeverReadsStdin
<1> QED
  BY <1>1, DescriptorsAlways, PTL

-------------------------------------------------------------------------------
(* What is known while no call has failed.                                 *)

BeforeMark == {"open", "buffer", "read", "compare", "close", "mark"}

(* The pairs of a file that were told apart.                               *)
Told(i) == {p \in Pairs : i \in {p[1], p[2]} /\ cell[p] = "different"}

(* No file lost its descriptor.                                            *)
CleanDescriptors ==
  pc \in {"idle", "precheck", "open", "buffer", "read", "compare"} =>
    max = n /\ \A i \in Files : fd[i] \in {"none", "open"}

(* The matrix knows of differences only, and the counters count them.      *)
CleanMatrix ==
  /\ pc \in {"idle", "precheck"} =>
       (\A c \in Cells : cell[c] = "unknown") /\ \A i \in Files : equal[i] = 0
  /\ pc \in BeforeMark =>
       /\ \A c \in Cells : cell[c] \in {"unknown", "different"}
       /\ cell[<<n - 1, n - 1>>] = "unknown"
       /\ \A i \in Files : equal[i] = Cardinality(Told(i))

(* A file that is worked on has its page in the buffer.                    *)
BuffersRead ==
  \A i \in Files :
    (pc = "read" /\ i < row) \/ pc = "compare" =>
      (Alive(i) => buffer[i] = content[i][page])

(* Page g of the files of p was compared.                                  *)
WasCompared(p, g) ==
  /\ pc \in {"read", "compare", "close", "mark"}
  /\ g < page \/ (pc = "compare" /\ g = page /\ p[1] < row)

(* Pairs that are different are not alike; those nobody told apart agree   *)
(* in their names and in every page that was compared.                     *)
PairsTrue ==
  /\ pc \in {"close", "mark"} => page = Pages + 1
  /\ pc \in BeforeMark =>
       \A p \in Pairs :
         /\ cell[p] = "different" => ~Alike(p[1], p[2])
         /\ cell[p] = "unknown" =>
              /\ rel[p[1]] = rel[p[2]]
              /\ \A g \in 1 .. Pages :
                   WasCompared(p, g) => content[p[1]][g] = content[p[2]][g]

CleanInv ==
  NoFaults => CleanDescriptors /\ CleanMatrix /\ BuffersRead /\ PairsTrue

(* Rows whose conclusions readOnlyOncesMark has drawn.                     *)
LogicDone(k) == k < (IF pc = "logic" THEN row ELSE n)

(* An earlier file is like both files of the pair.                         *)
Follows(p) == \E k \in Files : k < p[1] /\ LogicDone(k) /\ Alike(k, p[1])

Identical == {p \in Pairs : cell[p] = "identical"}

(* Once marked, the matrix tells which files are alike, and nIdenticals    *)
(* how many pairs are not just a conclusion.                               *)
MarkedInv ==
  NoFaults /\ pc \in {"logic", "report", "done"} =>
    /\ \A p \in Pairs :
         IF Alike(p[1], p[2])
         THEN cell[p] = IF Follows(p) THEN "identical by logic" ELSE "identical"
         ELSE cell[p] \in {"different", "different by logic"}
    /\ nIdenticals = Cardinality(Identical)
    /\ pc = "done" =>
         lines = {p \in Pairs : /\ Alike(p[1], p[2])
                                /\ program = "samefile" => ~Follows(p)}
-------------------------------------------------------------------------------
(* Counting pairs.                                                         *)

(* Sets whose elements correspond one to one have the same size.           *)
LEMMA OneToOne ==
  ASSUME NEW S, IsFiniteSet(S), NEW T, NEW f \in [S -> T],
         \A x, y \in S : f[x] = f[y] => x = y,
         \A t \in T : \E x \in S : f[x] = t
  PROVE  IsFiniteSet(T) /\ Cardinality(T) = Cardinality(S)
<1>1. f \in Bijection(S, T)
  BY DEF Bijection, Injection, Surjection, IsInjective
<1> QED
  BY <1>1, FS_Bijection DEF ExistsBijection

(* The pairs a file makes with the files of a set.                         *)
PairOf(i, k) == IF i < k THEN <<i, k>> ELSE <<k, i>>

PairsOf(i, S) == {PairOf(i, k) : k \in S}

(* They are as many as the files of the set.                               *)
LEMMA PairsOfCount ==
  ASSUME NEW i \in Files, NEW S \in SUBSET Others(i)
  PROVE  /\ PairsOf(i, S) \subseteq Pairs /\ IsFiniteSet(PairsOf(i, S))
         /\ Cardinality(PairsOf(i, S)) = Cardinality(S)
         /\ Cardinality(S) \in Nat /\ Cardinality(S) <= n - 1
<1>1. IsFiniteSet(Others(i)) /\ Cardinality(Others(i)) = n - 1
  BY FilesFinite, FS_RemoveElement DEF Others
<1>2. IsFiniteSet(S) /\ Cardinality(S) \in Nat /\ Cardinality(S) <= n - 1
  BY <1>1, FS_Subset, FS_CardinalityType
<1> DEFINE f == [k \in S |-> PairOf(i, k)]
<1>3. f \in [S -> PairsOf(i, S)]
  BY DEF PairsOf
<1>4. \A x, y \in S : f[x] = f[y] => x = y
  BY GroupAssumption DEF PairOf, Others, Files
<1>5. \A t \in PairsOf(i, S) : \E x \in S : f[x] = t
  BY DEF PairsOf
<1>6. IsFiniteSet(PairsOf(i, S)) /\ Cardinality(PairsOf(i, S)) = Cardinality(S)
  <2> HIDE DEF f
  <2> QED
    BY <1>2, <1>3, <1>4, <1>5, OneToOne
<1>7. PairsOf(i, S) \subseteq Pairs
  BY GroupAssumption DEF PairsOf, PairOf, Pairs, Others, Files
<1> QED
  BY <1>2, <1>6, <1>7

(* A file is told apart from at most n - 1 others, and if from so many,    *)
(* then from all of them.                                                  *)
LEMMA ToldBound ==
  ASSUME NEW i \in Files
  PROVE  /\ Told(i) \subseteq Pairs /\ IsFiniteSet(Told(i))
         /\ Cardinality(Told(i)) \in Nat /\ Cardinality(Told(i)) <= n - 1
         /\ Cardinality(Told(i)) = n - 1 =>
              \A p \in Pairs : i \in {p[1], p[2]} => cell[p] = "different"
<1> DEFINE all == PairsOf(i, Others(i))
<1>1. /\ all \subseteq Pairs /\ IsFiniteSet(all)
      /\ Cardinality(all) = Cardinality(Others(i)) /\ Cardinality(Others(i)) = n - 1
  BY PairsOfCount, FilesFinite, FS_RemoveElement DEF Others
<1>2. \A p \in Pairs : i \in {p[1], p[2]} => p \in all
  <2> SUFFICES ASSUME NEW p \in Pairs, i \in {p[1], p[2]} PROVE p \in all
    OBVIOUS
  <2>1. p = <<p[1], p[2]>> /\ p[1] \in Files /\ p[2] \in Files /\ p[1] < p[2]
    BY DEF Pairs
  <2>2. CASE i = p[1]
    BY <2>1, <2>2, GroupAssumption DEF PairsOf, PairOf, Others, Files
  <2>3. CASE i = p[2]
    BY <2>1, <2>3, GroupAssumption DEF PairsOf, PairOf, Others, Files
  <2> QED
    BY <2>2, <2>3
<1>3. Told(i) \subseteq all
  BY <1>2 DEF Told
<1>4. IsFiniteSet(Told(i)) /\ Cardinality(Told(i)) \in Nat /\ Cardinality(Told(i)) <= n - 1
  BY <1>1, <1>3, FS_Subset, FS_CardinalityType
<1>5. Cardinality(Told(i)) = n - 1 => Told(i) = all
  BY <1>1, <1>3, FS_Subset
<1> QED
  BY <1>2, <1>4, <1>5 DEF Told

(* While no call has failed, the files of an undecided pair are worked on, *)
(* and of a file that is not, all pairs are decided.                       *)
LEMMA UndecidedAlive ==
  ASSUME TypeOK, CleanMatrix, pc \in BeforeMark,
         NEW p \in Pairs, cell[p] = "unknown", NEW i \in {p[1], p[2]}
  PROVE  Alive(i)
<1>1. i \in Files /\ n \in Nat
  BY GroupAssumption DEF Pairs
<1>2. equal[i] = Cardinality(Told(i)) /\ equal[i] # n - 1
  BY <1>1, ToldBound DEF CleanMatrix
<1>3. Get(i, n - 1) # "error"
  BY <1>1, LastColumn DEF CleanMatrix, Get
<1> QED
  BY <1>1, <1>2, <1>3, ToldBound DEF Alive

(* Only what compareFiles told apart by then counts as compared.           *)
LEMMA AvoidKeepsClean ==
  ASSUME TypeInv, CleanMatrix, AvoidDiskAccess
  PROVE  CleanMatrix' /\ BuffersRead' /\ PairsTrue'
<1>0. TypeOK /\ pc = "precheck" /\ pc' = "open" /\ row' = 0 /\ UNCHANGED group
  BY DEF TypeInv, AvoidDiskAccess, Goto
<1>1. (\A c \in Cells : cell[c] = "unknown") /\ \A i \in Files : equal[i] = 0
  BY <1>0 DEF CleanMatrix
<1> DEFINE apart == {p \in Pairs : PreCheck(p[1], p[2])}
<1>2. \A c \in Cells : cell'[c] = IF c \in apart THEN "different" ELSE "unknown"
  BY <1>1 DEF AvoidDiskAccess, Filled
<1>3. <<n - 1, n - 1>> \in Cells /\ <<n - 1, n - 1>> \notin Pairs /\ Pairs \subseteq Cells
  BY GroupAssumption DEF Cells, Pairs, Files
<1>4. ASSUME NEW i \in Files PROVE equal'[i] = Cardinality(Told(i))'
  <2>1. Told(i)' = {p \in apart : i \in {p[1], p[2]}}
    BY <1>2, <1>3 DEF Told
  <2>2. equal'[i] = 0 + Cardinality({p \in apart : i \in {p[1], p[2]}})
    BY <1>1 DEF AvoidDiskAccess
  <2>3. Cardinality({p \in apart : i \in {p[1], p[2]}}) \in Nat
    BY Counts
  <2> QED
    BY <2>1, <2>2, <2>3
<1>5. CleanMatrix'
  BY <1>0, <1>2, <1>3, <1>4 DEF CleanMatrix
<1>6. BuffersRead' /\ PairsTrue'
  BY <1>0, <1>2, <1>3 DEF BuffersRead, PairsTrue, WasCompared, Alike, PreCheck, group
<1> QED
  BY <1>5, <1>6
(* While no call has failed, the files a row is told apart from are the    *)
(* later ones that nobody told apart and whose page is different.          *)
Apart(i) ==
  {j \in i + 1 .. n - 1 : cell[<<i, j>>] = "unknown" /\ content[i][page] # content[j][page]}

(* Those are the files the code finds, row by row.                         *)
LEMMA DifferApart ==
  ASSUME TypeInv, CleanMatrix, BuffersRead, pc = "compare"
  PROVE  /\ Alive(row) => Differ(row) = Apart(row)
         /\ ~Alive(row) => Apart(row) = {}
<1>0. /\ TypeOK /\ row \in Files /\ n \in Nat /\ pc \in BeforeMark /\ Files = 0 .. n - 1
      /\ \A j \in row + 1 .. n - 1 : j \in Files /\ <<row, j>> \in Pairs
  BY GroupAssumption DEF TypeInv, LoopsInv, BeforeMark, Files, Pairs
<1>1. ASSUME NEW j \in row + 1 .. n - 1, cell[<<row, j>>] = "unknown"
      PROVE  /\ Alive(row) /\ Alive(j) /\ Get(row, j) # "different" /\ equal[j] # n - 1
             /\ Get(j, n - 1) # "error"
             /\ buffer[row] = content[row][page] /\ buffer[j] = content[j][page]
  <2>1. Alive(row) /\ Alive(j)
    BY <1>0, <1>1, UndecidedAlive
  <2>2. Get(row, j) = cell[<<row, j>>]
    BY <1>0 DEF Get, Slot
  <2>3. equal[j] \in Nat
    BY <1>0 DEF TypeOK
  <2> QED
    BY <1>0, <1>1, <2>1, <2>2, <2>3 DEF Alive, BuffersRead
<1>2. ASSUME NEW j \in row + 1 .. n - 1, Get(row, j) # "different"
      PROVE  cell[<<row, j>>] = "unknown"
  <2>1. Get(row, j) = cell[<<row, j>>]
    BY <1>0 DEF Get, Slot
  <2>2. <<row, j>> \in Cells
    BY <1>0 DEF Cells
  <2> QED
    BY <1>0, <1>2, <2>1, <2>2 DEF CleanMatrix
<1>3. Alive(row) => Differ(row) = Apart(row)
  BY <1>1, <1>2 DEF Differ, Apart
<1>4. ~Alive(row) => Apart(row) = {}
  BY <1>1 DEF Apart
<1> QED
  BY <1>3, <1>4

(* So a row of comparisons tells apart just those.                         *)
LEMMA RowCompared ==
  ASSUME TypeInv, CleanMatrix, BuffersRead, Compare
  PROVE  /\ cell' = Filled(PairsOf(row, Apart(row)), "different")
         /\ \A i \in Files :
              equal'[i] = IF i = row THEN equal[i] + Cardinality(Apart(row))
                          ELSE IF i \in Apart(row) THEN equal[i] + 1
                          ELSE equal[i]
<1>0. TypeOK /\ pc = "compare" /\ row \in Files /\ CompareRow
  BY DEF TypeInv, LoopsInv, Compare
<1>1. CASE Alive(row)
  <2>1. Differ(row) = Apart(row)
    BY <1>0, <1>1, DifferApart
  <2>2. {<<row, j>> : j \in Differ(row)} = PairsOf(row, Apart(row))
    <3>1. \A j \in Apart(row) : PairOf(row, j) = <<row, j>>
      BY <1>0, GroupAssumption DEF Apart, PairOf, Files
    <3> QED
      BY <2>1, <3>1 DEF PairsOf
  <2>3. cell' = Filled({<<row, j>> : j \in Differ(row)}, "different")
    BY <1>0, <1>1 DEF CompareRow
  <2>4. equal' = [i \in Files |->
                    IF i = row THEN equal[i] + Cardinality(Differ(row))
                    ELSE IF i \in Differ(row) THEN equal[i] + 1
                    ELSE equal[i]]
    BY <1>0, <1>1 DEF CompareRow
  <2> HIDE DEF Differ, Apart
  <2> QED
    BY <2>1, <2>2, <2>3, <2>4
<1>2. CASE ~Alive(row)
  <2>1. Apart(row) = {} /\ PairsOf(row, Apart(row)) = {}
    BY <1>0, <1>2, DifferApart DEF PairsOf
  <2>2. cell' = cell /\ equal' = equal
    BY <1>0, <1>2 DEF CompareRow
  <2>3. cell = Filled({}, "different")
    BY <1>0 DEF Filled, TypeOK
  <2>4. \A i \in Files : equal[i] \in Nat
    BY <1>0 DEF TypeOK
  <2>5. Cardinality(Apart(row)) = 0
    BY <2>1, FS_EmptySet
  <2>6. \A i \in Files : equal[i] + Cardinality(Apart(row)) = equal[i] /\ i \notin Apart(row)
    BY <2>1, <2>4, <2>5
  <2>7. cell' = Filled(PairsOf(row, Apart(row)), "different")
    BY <2>1, <2>2, <2>3
  <2> HIDE DEF Apart
  <2> QED
    BY <2>2, <2>6, <2>7
<1> QED
  BY <1>1, <1>2

(* And the counters go on counting them.                                   *)
LEMMA CompareCounts ==
  ASSUME TypeInv, CleanMatrix, BuffersRead, Compare
  PROVE  CleanMatrix'
<1>0. /\ TypeOK /\ row \in Files /\ n \in Nat /\ pc \in BeforeMark /\ Files = 0 .. n - 1
      /\ pc' \in {"compare", "read", "close"}
  BY GroupAssumption DEF TypeInv, LoopsInv, BeforeMark, Files, Compare, Goto
<1>1. /\ Apart(row) \subseteq Others(row)
      /\ \A j \in Apart(row) : PairOf(row, j) = <<row, j>> /\ cell[<<row, j>>] = "unknown"
  BY <1>0 DEF Apart, Others, PairOf
<1> DEFINE apart == PairsOf(row, Apart(row))
<1>2. /\ apart \subseteq Pairs /\ IsFiniteSet(apart)
      /\ Cardinality(apart) = Cardinality(Apart(row))
      /\ \A p \in apart : cell[p] = "unknown" /\ \E j \in Apart(row) : p = <<row, j>>
  BY <1>0, <1>1, PairsOfCount DEF PairsOf
<1>3. \A c \in Cells : cell'[c] = IF c \in apart THEN "different" ELSE cell[c]
  BY RowCompared, <1>0 DEF Filled, TypeInv
<1>4. Pairs \subseteq Cells /\ <<n - 1, n - 1>> \in Cells /\ <<n - 1, n - 1>> \notin Pairs
  BY <1>0 DEF Cells, Pairs
<1>5. ASSUME NEW i \in Files PROVE equal'[i] = Cardinality(Told(i)')
  <2> DEFINE mine == {p \in apart : i \in {p[1], p[2]}}
  <2>1. Told(i)' = Told(i) \cup mine /\ Told(i) \cap mine = {}
    BY <1>2, <1>3, <1>4 DEF Told
  <2>2. IsFiniteSet(mine) /\ Cardinality(mine) \in Nat
    BY <1>2, FS_Subset, FS_CardinalityType
  <2>3. equal[i] = Cardinality(Told(i)) /\ equal[i] \in Nat
    BY <1>0 DEF CleanMatrix, TypeOK
  <2>4. Cardinality(Told(i)') = equal[i] + Cardinality(mine)
    <3> HIDE DEF mine
    <3>1. IsFiniteSet(Told(i)) /\ Cardinality(Told(i)) \in Nat
      BY ToldBound
    <3>2. Cardinality(Told(i) \cup mine)
            = Cardinality(Told(i)) + Cardinality(mine) - Cardinality(Told(i) \cap mine)
      BY <2>2, <3>1, FS_Union
    <3>3. Cardinality(Told(i) \cap mine) = 0
      BY <2>1, FS_EmptySet
    <3>4. Cardinality(Told(i) \cup mine) = Cardinality(Told(i)) + Cardinality(mine)
      BY <2>2, <3>1, <3>2, <3>3
    <3> QED
      BY <2>1, <2>3, <3>4
  <2>5. CASE i = row
    <3>1. mine = apart
      BY <1>2, <2>5
    <3> QED
      BY <1>2, <2>4, <2>5, <3>1, RowCompared
  <2>6. CASE i # row /\ i \in Apart(row)
    <3>1. mine = {<<row, i>>}
      BY <1>0, <1>1, <1>2, <2>6 DEF PairsOf
    <3>2. Cardinality(mine) = 1
      BY <3>1, FS_Singleton
    <3> QED
      BY <2>4, <2>6, <3>2, RowCompared
  <2>7. CASE i # row /\ i \notin Apart(row)
    <3>1. mine = {}
      BY <1>2, <2>7
    <3>2. Cardinality(mine) = 0
      BY <3>1, FS_EmptySet
    <3> QED
      BY <2>3, <2>4, <2>7, <3>2, RowCompared
  <2> QED
    BY <2>5, <2>6, <2>7
<1>6. /\ \A c \in Cells : cell'[c] \in {"unknown", "different"}
      /\ cell'[<<n - 1, n - 1>>] = "unknown"
  BY <1>0, <1>2, <1>3, <1>4 DEF CleanMatrix
<1> QED
  BY <1>0, <1>5, <1>6 DEF CleanMatrix

(* What a row was told apart from is not like it, and the rest agrees in   *)
(* the page; after the last row all pairs have been compared.              *)
LEMMA CompareTrue ==
  ASSUME TypeInv, CleanMatrix, BuffersRead, PairsTrue, Compare
  PROVE  PairsTrue'
<1>0. /\ TypeOK /\ row \in Files /\ n \in Nat /\ Files = 0 .. n - 1 /\ pc = "compare"
      /\ page \in 1 .. Pages /\ Pages \in Nat /\ UNCHANGED group
      /\ IF row < n - 1 THEN row' = row + 1 /\ UNCHANGED <<pc, page>>
         ELSE page' = page + 1 /\ Goto(IF page < Pages THEN "read" ELSE "close")
  BY GroupAssumption DEF TypeInv, LoopsInv, Files, Compare
<1>1. \A c \in Cells :
        cell'[c] = IF c \in PairsOf(row, Apart(row)) THEN "different" ELSE cell[c]
  BY RowCompared, <1>0 DEF Filled
<1>2. pc' \in {"close", "mark"} => page' = Pages + 1
  BY <1>0 DEF Goto
<1>3. ASSUME NEW p \in Pairs, cell'[p] = "different"
      PROVE  ~Alike(p[1], p[2])
  <2>1. CASE p \in PairsOf(row, Apart(row))
    <3>1. PICK j \in Apart(row) : p = PairOf(row, j)
      BY <2>1 DEF PairsOf
    <3>2. p[1] = row /\ p[2] = j /\ content[row] # content[j]
      BY <1>0, <3>1 DEF Apart, PairOf
    <3> QED
      BY <3>2 DEF Alike
  <2>2. CASE p \notin PairsOf(row, Apart(row))
    BY <1>0, <1>1, <1>3, <2>2 DEF PairsTrue, Cells, BeforeMark
  <2> QED
    BY <2>1, <2>2
<1>4. ASSUME NEW p \in Pairs, cell'[p] = "unknown"
      PROVE  /\ rel[p[1]] = rel[p[2]]
             /\ \A g \in 1 .. Pages :
                  WasCompared(p, g)' => content[p[1]][g] = content[p[2]][g]
  <2>1. cell[p] = "unknown" /\ p \notin PairsOf(row, Apart(row))
    BY <1>1, <1>4 DEF Cells
  <2>2. /\ rel[p[1]] = rel[p[2]]
        /\ \A g \in 1 .. Pages : WasCompared(p, g) => content[p[1]][g] = content[p[2]][g]
    BY <1>0, <2>1 DEF PairsTrue, BeforeMark
  <2>3. p = <<p[1], p[2]>> /\ p[1] \in 0 .. n - 1 /\ p[2] \in 0 .. n - 1 /\ p[1] < p[2]
    BY <1>0 DEF Pairs
  <2>4. p[1] = row => content[p[1]][page] = content[p[2]][page]
    <3> SUFFICES ASSUME p[1] = row, content[p[1]][page] # content[p[2]][page] PROVE FALSE
      OBVIOUS
    <3>1. p[2] \in Apart(row) /\ PairOf(row, p[2]) = p
      BY <1>0, <2>1, <2>3 DEF Apart, PairOf
    <3> QED
      BY <2>1, <3>1 DEF PairsOf
  <2>5. ASSUME NEW g \in 1 .. Pages, WasCompared(p, g)'
        PROVE  WasCompared(p, g) \/ (g = page /\ p[1] = row)
    BY <1>0, <2>3, <2>5 DEF WasCompared, Goto
  <2> QED
    BY <2>2, <2>4, <2>5
<1> QED
  BY <1>0, <1>2, <1>3, <1>4 DEF PairsTrue, Alike, group
(* While no call fails, every file worked on is read from the descriptor   *)
(* the matrix holds.                                                       *)
LEMMA ReadCleanly ==
  ASSUME TypeInv, DescriptorsInv, CleanDescriptors, NoFaults, NoFaults', Read
  PROVE  /\ UNCHANGED <<matrix, max, faults>> /\ NextRow
         /\ \/ ~Alive(row) /\ UNCHANGED buffer
            \/ buffer' = [buffer EXCEPT ![row] = content[row][page]]
<1>0. /\ TypeOK /\ pc = "read" /\ row \in Files /\ n \in Nat /\ Files = 0 .. n - 1
      /\ max = n /\ fd[row] \in {"none", "open"}
  BY GroupAssumption DEF TypeInv, LoopsInv, Read, CleanDescriptors, Files
<1>1. \A kind : ~Fails(kind)
  BY <1>0, FailsType DEF TypeOK
<1>2. ~Struck("memory")
  BY DEF NoFaults, Struck
<1>3. Alive(row) => fd[row] = "open"
  BY <1>0, <1>2 DEF DescriptorsInv
<1>4. CASE ~Alive(row) \/ fd[row] = "failed"
  BY <1>0, <1>1, <1>4 DEF Read, ReadHeld, ReadReopened, ReadPage, matrix
<1>5. CASE Alive(row) /\ fd[row] # "failed"
  <2>1. ReadHeld /\ fd[row] = "open"
    BY <1>0, <1>3, <1>5 DEF Read, ReadReopened
  <2> QED
    BY <1>1, <2>1 DEF ReadHeld, ReadPage, matrix
<1> QED
  BY <1>4, <1>5

(* Opening changes nothing but the descriptors while no call fails.        *)
LEMMA OpenCleanly ==
  ASSUME TypeInv, CleanDescriptors, NoFaults', Open
  PROVE  UNCHANGED <<cell, equal, max, faults>> /\ CleanDescriptors' /\ pc' \in {"open", "buffer"}
<1>0. /\ TypeOK /\ pc = "open" /\ max = n /\ \A i \in Files : fd[i] \in {"none", "open"}
      /\ fd \in [Files -> {"none", "failed", "open", "closed"}]
  BY DEF TypeInv, TypeOK, Open, CleanDescriptors
<1>1. \A kind : ~Fails(kind)
  BY <1>0, FailsType DEF TypeOK
<1>2. CASE OpenFile
  BY <1>0, <1>2 DEF OpenFile, CleanDescriptors
<1>3. CASE UNCHANGED <<matrix, max, faults>> /\ (UNCHANGED pc \/ Goto("buffer"))
  BY <1>0, <1>3 DEF CleanDescriptors, matrix, Goto
<1> QED
  BY <1>1, <1>2, <1>3 DEF Open, OpenNoDescriptors, OpenError

(* A step that leaves the matrix alone keeps what it says.                 *)
LEMMA MatrixStays ==
  ASSUME CleanMatrix, pc \in BeforeMark, pc' \in BeforeMark, UNCHANGED <<cell, equal>>
  PROVE  CleanMatrix'
BY DEF CleanMatrix, Told, BeforeMark

(* Until a call fails every step keeps what is known of the matrix.        *)
LEMMA CleanStep ==
  ASSUME TypeInv, TypeInv', DescriptorsInv, CleanInv, [Next]_vars
  PROVE  CleanInv'
<1> SUFFICES ASSUME NoFaults'
             PROVE  CleanDescriptors' /\ CleanMatrix' /\ BuffersRead' /\ PairsTrue'
  BY DEF CleanInv
<1>0. TypeOK
  BY DEF TypeInv
<1>1. \A kind : ~Fails(kind)
  BY <1>0, FailsType DEF TypeOK
<1>2. CASE Reset
  <2>1. max' = n /\ pc' = "idle"
    BY <1>0, <1>2, NoGroupType DEF Reset
  <2> QED
    BY <1>2, <2>1 DEF Reset, CleanDescriptors, CleanMatrix, BuffersRead, PairsTrue, BeforeMark
<1> SUFFICES ASSUME ~Reset
             PROVE  CleanDescriptors' /\ CleanMatrix' /\ BuffersRead' /\ PairsTrue'
  BY <1>2
<1>3. UNCHANGED faults
  BY <1>1 DEF Next, NextGroup, AvoidDiskAccess, Open, OpenFile, OpenNoDescriptors, OpenError,
              GetBuffer, OutOfMemory, Read, ReadHeld, ReadReopened, ReadPage, Compare, Close,
              Mark, MarkByLogic, Report, vars
<1>4. NoFaults /\ CleanDescriptors /\ CleanMatrix /\ BuffersRead /\ PairsTrue
  BY <1>3 DEF NoFaults, CleanInv
<1>5. CASE NextGroup
  BY <1>4, <1>5 DEF NextGroup, Goto, matrix, CleanDescriptors, CleanMatrix, BuffersRead,
                    PairsTrue, BeforeMark
<1>6. CASE AvoidDiskAccess
  <2>1. CleanDescriptors'
    BY <1>4, <1>6 DEF AvoidDiskAccess, Goto, CleanDescriptors
  <2> QED
    BY <1>4, <1>6, <2>1, AvoidKeepsClean
<1>7. CASE Open
  <2>1. /\ UNCHANGED <<cell, equal>> /\ CleanDescriptors' /\ pc' \in {"open", "buffer"}
        /\ pc = "open" /\ UNCHANGED <<group, buffer, page>>
    BY <1>4, <1>7, OpenCleanly DEF Open
  <2>2. CleanMatrix'
    BY <1>4, <2>1, MatrixStays DEF BeforeMark
  <2>3. BuffersRead' /\ PairsTrue'
    BY <1>4, <2>1 DEF BuffersRead, PairsTrue, WasCompared, Alike, group, BeforeMark
  <2> QED
    BY <2>1, <2>2, <2>3
<1>8. CASE GetBuffer
  <2>1. /\ UNCHANGED <<cell, equal, fd, max, group>> /\ pc = "buffer" /\ pc' = "read"
        /\ page' = 1 /\ row' = 0
    BY <1>8 DEF GetBuffer, matrix, Goto
  <2>2. CleanMatrix' /\ CleanDescriptors'
    BY <1>4, <2>1, MatrixStays DEF BeforeMark, CleanDescriptors
  <2>3. BuffersRead'
    BY <2>1, GroupAssumption DEF BuffersRead, Files
  <2>4. \A p \in Pairs : \A g \in 1 .. Pages : ~WasCompared(p, g)'
    BY <2>1, GroupAssumption DEF WasCompared
  <2>5. PairsTrue'
    BY <1>4, <2>1, <2>4 DEF PairsTrue, Alike, group, BeforeMark
  <2> QED
    BY <2>2, <2>3, <2>5
<1>9. CASE OutOfMemory
  BY <1>1, <1>9 DEF OutOfMemory
<1>10. CASE Read
  <2>1. /\ UNCHANGED <<cell, equal, fd, max, group, page>> /\ pc = "read" /\ row \in Files
        /\ IF row < n - 1 THEN row' = row + 1 /\ UNCHANGED pc ELSE Goto("compare")
        /\ \/ ~Alive(row) /\ UNCHANGED buffer
           \/ buffer' = [buffer EXCEPT ![row] = content[row][page]]
    BY <1>4, <1>10, ReadCleanly DEF Read, NextRow, matrix, TypeInv, LoopsInv
  <2>2. pc' \in {"read", "compare"} /\ n \in Nat /\ Files = 0 .. n - 1
    BY <2>1, GroupAssumption DEF Goto, Files
  <2>3. CleanMatrix' /\ CleanDescriptors'
    BY <1>4, <2>1, <2>2, MatrixStays DEF BeforeMark, CleanDescriptors
  <2>4. BuffersRead'
    <3> SUFFICES ASSUME NEW i \in Files, (pc = "read" /\ i < row)' \/ pc' = "compare", Alive(i)'
                 PROVE  buffer'[i] = content'[i][page']
      BY DEF BuffersRead
    <3>1. Alive(i)
      BY <2>1 DEF Alive, Get, Slot, group
    <3>2. i # row => i < row
      BY <2>1, <2>2 DEF Goto
    <3>3. i # row => buffer[i] = content[i][page]
      BY <1>4, <2>1, <3>1, <3>2 DEF BuffersRead
    <3>4. buffer \in [Files -> Values \cup {Stale}]
      BY <1>0 DEF TypeOK
    <3> QED
      BY <2>1, <3>1, <3>3, <3>4 DEF group
  <2>5. \A p \in Pairs : \A g \in 1 .. Pages : WasCompared(p, g)' => WasCompared(p, g)
    BY <2>1, <2>2 DEF WasCompared, Goto, Pairs
  <2>6. PairsTrue'
    BY <1>4, <2>1, <2>2, <2>5 DEF PairsTrue, Alike, group, BeforeMark
  <2> QED
    BY <2>3, <2>4, <2>6
<1>11. CASE Compare
  <2>1. /\ UNCHANGED <<group, fd, max, buffer>> /\ pc = "compare" /\ row \in Files
        /\ capacity' = capacity
        /\ IF row < n - 1 THEN row' = row + 1 /\ UNCHANGED <<pc, page>>
           ELSE page' = page + 1 /\ Goto(IF page < Pages THEN "read" ELSE "close")
    BY <1>11 DEF Compare, TypeInv, LoopsInv, group
  <2>2. ErrorsStay /\ CountsGrow
    BY <1>11, CompareGrows
  <2>3. BuffersRead'
    <3> SUFFICES ASSUME NEW i \in Files, (pc = "read" /\ i < row)' \/ pc' = "compare", Alive(i)'
                 PROVE  buffer'[i] = content'[i][page']
      BY DEF BuffersRead
    <3>1. Alive(i)
      BY <2>1, <2>2, WasAlive
    <3>2. pc' = "compare" /\ page' = page
      BY <2>1, GroupAssumption DEF Goto, Files
    <3> QED
      BY <1>4, <2>1, <3>1, <3>2 DEF BuffersRead, group
  <2>4. CleanDescriptors'
    BY <1>4, <2>1 DEF CleanDescriptors, Goto
  <2> QED
    BY <1>4, <1>11, <2>3, <2>4, CompareCounts, CompareTrue
<1>12. CASE Close
  <2>1. /\ UNCHANGED <<group, cell, equal, page>> /\ pc = "close" /\ pc' = "mark"
    BY <1>12 DEF Close, Goto
  <2>2. CleanMatrix'
    BY <1>4, <2>1, MatrixStays DEF BeforeMark
  <2>3. CleanDescriptors' /\ BuffersRead' /\ PairsTrue'
    BY <1>4, <2>1 DEF CleanDescriptors, BuffersRead, PairsTrue, WasCompared, Alike, group,
                      BeforeMark
  <2> QED
    BY <2>2, <2>3
<1>13. CASE Mark \/ MarkByLogic \/ Report
  <2>1. pc' \in {"logic", "report", "done"}
    BY <1>13 DEF Mark, MarkByLogic, Report, Goto
  <2> QED
    BY <2>1 DEF CleanDescriptors, CleanMatrix, BuffersRead, PairsTrue, BeforeMark
<1>14. CASE UNCHANGED vars
  BY <1>4, <1>14 DEF vars, group, matrix, CleanDescriptors, CleanMatrix, BuffersRead, PairsTrue,
                     Told, Alive, Get, Slot, Alike, WasCompared
<1> QED
  BY <1>5, <1>6, <1>7, <1>8, <1>9, <1>10, <1>11, <1>12, <1>13, <1>14 DEF Next

(* So it is known always.                                                  *)
LEMMA CleanAlways == Spec => []CleanInv
<1>1. Init => CleanInv
  BY DEF Init, CleanInv, CleanDescriptors, CleanMatrix, BuffersRead, PairsTrue, BeforeMark
<1> QED
  BY <1>1, CleanStep, TypeAlways, DescriptorsAlways, PTL DEF Spec

(* As long as no call fails, the counters of a matrix that may have served *)
(* other groups count exactly the pairs of this one that were told apart   *)
(* (match.getNumEqual, match.reset).                                       *)
THEOREM CountsAreTrue == Spec => []CountsDifferences
<1>1. CleanInv => CountsDifferences
  BY DEF CleanInv, CleanMatrix, CountsDifferences, Told, BeforeMark
<1> QED
  BY <1>1, CleanAlways, PTL
-------------------------------------------------------------------------------
(* Marking and reporting.                                                  *)


(* What nobody told apart is alike, and is marked and counted as such.     *)
LEMMA MarkMarks ==
  ASSUME TypeInv, CleanInv, Mark
  PROVE  MarkedInv'
<1> SUFFICES ASSUME NoFaults' PROVE MarkedInv'
  BY DEF MarkedInv
<1>0. /\ TypeOK /\ pc = "mark" /\ pc' = "logic" /\ row' = 0 /\ UNCHANGED <<group, faults>>
      /\ pc \in BeforeMark /\ Pages \in Nat /\ Files = 0 .. n - 1 /\ n \in Nat
  BY GroupAssumption DEF TypeInv, Mark, Goto, BeforeMark, Files
<1>1. CleanMatrix /\ PairsTrue
  BY <1>0 DEF CleanInv, NoFaults
<1> DEFINE undecided == {p \in Pairs : cell[p] = "unknown"}
<1>2. /\ \A c \in Cells : cell'[c] = IF c \in undecided THEN "identical" ELSE cell[c]
      /\ nIdenticals' = Cardinality(undecided)
  BY DEF Mark, Filled
<1>3. ASSUME NEW p \in Pairs
      PROVE  /\ cell[p] \in {"unknown", "different"}
             /\ cell[p] = "unknown" <=> Alike(p[1], p[2])
  <2>1. cell[p] \in {"unknown", "different"}
    BY <1>0, <1>1 DEF CleanMatrix, Cells
  <2>2. cell[p] = "different" => ~Alike(p[1], p[2])
    BY <1>0, <1>1 DEF PairsTrue
  <2>3. ASSUME cell[p] = "unknown" PROVE Alike(p[1], p[2])
    <3>1. page = Pages + 1
      BY <1>0, <1>1 DEF PairsTrue
    <3>2. \A g \in 1 .. Pages : WasCompared(p, g)
      BY <1>0, <3>1 DEF WasCompared
    <3>3. /\ rel[p[1]] = rel[p[2]]
          /\ \A g \in 1 .. Pages : content[p[1]][g] = content[p[2]][g]
      BY <1>0, <1>1, <2>3, <3>2 DEF PairsTrue
    <3>4. content[p[1]] \in [1 .. Pages -> Values] /\ content[p[2]] \in [1 .. Pages -> Values]
      BY <1>0 DEF TypeOK, Pairs
    <3> DEFINE each == 1 .. Pages
    <3>5. content[p[1]] = content[p[2]]
      <4>1. /\ content[p[1]] \in [each -> Values] /\ content[p[2]] \in [each -> Values]
            /\ \A g \in each : content[p[1]][g] = content[p[2]][g]
        BY <3>3, <3>4
      <4> HIDE DEF each
      <4> QED
        BY <4>1
    <3> QED
      BY <3>3, <3>5 DEF Alike
  <2> QED
    BY <2>1, <2>2, <2>3
<1>4. \A p \in Pairs : ~Follows(p)'
  BY <1>0 DEF Follows, LogicDone
<1>5. Identical' = undecided
  BY <1>2, <1>3 DEF Identical, Cells
<1>6. \A p \in Pairs : cell'[p] = IF Alike(p[1], p[2])' THEN "identical" ELSE "different"
  BY <1>0, <1>2, <1>3 DEF Cells, Alike, group
<1> QED
  BY <1>0, <1>2, <1>4, <1>5, <1>6 DEF MarkedInv

(* Files alike a third are alike.                                          *)
LEMMA AlikeEquivalence ==
  ASSUME NEW i, NEW j, NEW k
  PROVE  /\ Alike(i, i) /\ (Alike(i, j) <=> Alike(j, i))
         /\ Alike(i, j) /\ Alike(j, k) => Alike(i, k)
BY DEF Alike

(* Of the pairs of later files, those that are alike and like row follow   *)
(* from row, which is then the first file of its class; they have been     *)
(* counted and not been concluded before.                                  *)
LEMMA RowImplies ==
  ASSUME TypeInv, NoFaults, MarkedInv, pc = "logic", NEW p \in Pairs
  PROVE  /\ Implied(p, "identical") <=>
              row < p[1] /\ Alike(row, p[1]) /\ Alike(row, p[2]) /\ ~Follows(p)
         /\ Implied(p, "different") => ~Alike(p[1], p[2])
<1>0. /\ row \in Files /\ n \in Nat /\ Files = 0 .. n - 1
      /\ p[1] \in Files /\ p[2] \in Files /\ p[1] < p[2]
  BY GroupAssumption DEF TypeInv, LoopsInv, Files, Pairs
<1>1. \A q \in Pairs :
        IF Alike(q[1], q[2]) THEN cell[q] = IF Follows(q) THEN "identical by logic" ELSE "identical"
        ELSE cell[q] \in {"different", "different by logic"}
  BY DEF MarkedInv
<1>2. ASSUME row < p[1], NEW j \in {p[1], p[2]}
      PROVE  /\ Get(row, j) = cell[<<row, j>>] /\ <<row, j>> \in Pairs
             /\ Get(row, j) = "identical" <=> Alike(row, j) /\ ~Follows(<<row, j>>)
             /\ Get(row, j) = "different" => ~Alike(row, j)
  <2>1. Get(row, j) = cell[<<row, j>>] /\ <<row, j>> \in Pairs
    BY <1>0, <1>2 DEF Get, Slot, Pairs
  <2>2. <<row, j>>[1] = row /\ <<row, j>>[2] = j
    OBVIOUS
  <2> QED
    BY <1>1, <2>1, <2>2
<1>3. ASSUME row < p[1] PROVE Follows(<<row, p[1]>>) <=> Follows(<<row, p[2]>>)
  BY DEF Follows
<1>4. ASSUME row < p[1], Alike(row, p[1]) PROVE Follows(<<row, p[1]>>) <=> Follows(p)
  <2>1. Follows(<<row, p[1]>>) <=> \E k \in Files : k < row /\ Alike(k, row)
    BY <1>0 DEF Follows, LogicDone
  <2>2. Follows(p) <=> \E k \in Files : k < row /\ Alike(k, p[1])
    BY <1>0, <1>4 DEF Follows, LogicDone
  <2>3. \A k : Alike(k, row) <=> Alike(k, p[1])
    BY <1>4, AlikeEquivalence
  <2> QED
    BY <2>1, <2>2, <2>3
<1>5. Implied(p, "identical") <=>
        row < p[1] /\ Get(row, p[1]) = "identical" /\ Get(row, p[2]) = "identical"
  BY DEF Implied
<1>6. Implied(p, "identical") <=>
        row < p[1] /\ Alike(row, p[1]) /\ Alike(row, p[2]) /\ ~Follows(p)
  BY <1>2, <1>3, <1>4, <1>5
<1>7. Implied(p, "different") =>
        /\ row < p[1]
        /\ \/ Get(row, p[1]) = "identical" /\ Get(row, p[2]) = "different"
           \/ Get(row, p[1]) = "different" /\ Get(row, p[2]) = "identical"
  BY DEF Implied
<1>8. Implied(p, "different") => ~Alike(p[1], p[2])
  BY <1>2, <1>7, AlikeEquivalence
<1> QED
  BY <1>6, <1>8

(* Drawing the conclusions of a row.                                       *)
LEMMA LogicMarks ==
  ASSUME TypeInv, MarkedInv, MarkByLogic
  PROVE  MarkedInv'
<1> SUFFICES ASSUME NoFaults' PROVE MarkedInv'
  BY DEF MarkedInv
<1>0. /\ NoFaults /\ pc = "logic" /\ row \in Files /\ UNCHANGED <<group, faults>>
      /\ TypeOK /\ n \in Nat /\ Files = 0 .. n - 1
      /\ IF row < n - 1 THEN row' = row + 1 /\ UNCHANGED pc ELSE Goto("report")
  BY GroupAssumption DEF MarkByLogic, NoFaults, TypeInv, LoopsInv, Files
<1> DEFINE implied == {p \in Pairs : Implied(p, "identical")}
<1>1. /\ \A p \in Pairs :
           cell'[p] = IF Implied(p, "identical") THEN "identical by logic"
                      ELSE IF Implied(p, "different") THEN "different by logic"
                      ELSE cell[p]
      /\ nIdenticals' = nIdenticals - Cardinality(implied)
  BY DEF MarkByLogic, Cells
<1>2. pc' \in {"logic", "report"}
  BY <1>0 DEF Goto
<1>3. \A k \in Files : LogicDone(k)' <=> k <= row
  BY <1>0 DEF LogicDone, Goto
<1>4. \A i, j : Alike(i, j)' <=> Alike(i, j)
  BY <1>0 DEF Alike, group
<1>5. ASSUME NEW p \in Pairs
      PROVE  Follows(p)' <=> Follows(p) \/ (row < p[1] /\ Alike(row, p[1]))
  <2>1. Follows(p)' <=> \E k \in Files : k < p[1] /\ k <= row /\ Alike(k, p[1])
    BY <1>3, <1>4 DEF Follows
  <2>2. Follows(p) <=> \E k \in Files : k < p[1] /\ k < row /\ Alike(k, p[1])
    BY <1>0 DEF Follows, LogicDone
  <2> QED
    BY <1>0, <2>1, <2>2
<1>6. ASSUME NEW p \in Pairs
      PROVE  IF Alike(p[1], p[2])
             THEN cell[p] = IF Follows(p) THEN "identical by logic" ELSE "identical"
             ELSE cell[p] \in {"different", "different by logic"}
  BY <1>0 DEF MarkedInv
<1>7. ASSUME NEW p \in Pairs
      PROVE  IF Alike(p[1], p[2])'
             THEN cell'[p] = IF Follows(p)' THEN "identical by logic" ELSE "identical"
             ELSE cell'[p] \in {"different", "different by logic"}
  <2>1. /\ Implied(p, "identical") <=>
              row < p[1] /\ Alike(row, p[1]) /\ Alike(row, p[2]) /\ ~Follows(p)
        /\ Implied(p, "different") => ~Alike(p[1], p[2])
    BY <1>0, RowImplies
  <2>2. Alike(row, p[1]) /\ Alike(row, p[2]) => Alike(p[1], p[2])
    BY AlikeEquivalence
  <2>3. Alike(row, p[1]) /\ Alike(p[1], p[2]) => Alike(row, p[2])
    BY AlikeEquivalence
  <2>4. Alike(p[1], p[2])' <=> Alike(p[1], p[2])
    BY <1>4
  <2> QED
    BY <1>1, <1>5, <1>6, <2>1, <2>2, <2>3, <2>4
<1>8. nIdenticals' = Cardinality(Identical')
  <2>1. implied \subseteq Identical
    <3> SUFFICES ASSUME NEW p \in Pairs, Implied(p, "identical") PROVE cell[p] = "identical"
      BY DEF Identical
    <3>1. Alike(p[1], p[2]) /\ ~Follows(p)
      BY <1>0, RowImplies, AlikeEquivalence
    <3> QED
      BY <1>6, <3>1
  <2>2. \A p \in Pairs : Implied(p, "different") => cell[p] # "identical"
    BY <1>0, <1>6, RowImplies
  <2>3. Identical' = Identical \ implied
    BY <1>1, <2>2 DEF Identical
  <2>4. IsFiniteSet(Identical) /\ Identical \cap implied = implied
    BY <2>1, FilesFinite, FS_Subset DEF Identical
  <2>5. IsFiniteSet(implied) /\ Cardinality(implied) \in Nat /\ Cardinality(Identical) \in Nat
    BY <2>1, <2>4, FS_Subset, FS_CardinalityType
  <2>6. Cardinality(Identical \ implied) = Cardinality(Identical) - Cardinality(implied)
    <3> HIDE DEF implied
    <3> QED
      BY <2>4, FS_Difference
  <2>7. nIdenticals = Cardinality(Identical)
    BY <1>0 DEF MarkedInv
  <2> QED
    BY <1>1, <2>3, <2>6, <2>7
<1> QED
  BY <1>0, <1>2, <1>7, <1>8 DEF MarkedInv

(* Every program reports the pairs it selects.                             *)
LEMMA ReportMarks ==
  ASSUME TypeInv, MarkedInv, Report
  PROVE  MarkedInv'
<1> SUFFICES ASSUME NoFaults' PROVE MarkedInv'
  BY DEF MarkedInv
<1>0. /\ NoFaults /\ pc = "report" /\ pc' = "done"
      /\ UNCHANGED <<program, content, rel, cell, nIdenticals>>
      /\ lines' = {p \in Pairs : cell[p] \in Selected /\ rel[p[1]] = rel[p[2]]}
  BY DEF Report, Goto, NoFaults, group, matrix
<1>1. \A p \in Pairs :
        IF Alike(p[1], p[2]) THEN cell[p] = IF Follows(p) THEN "identical by logic" ELSE "identical"
        ELSE cell[p] \in {"different", "different by logic"}
  BY <1>0 DEF MarkedInv
<1>2. \A p \in Pairs : (Follows(p)' <=> Follows(p)) /\ (Alike(p[1], p[2])' <=> Alike(p[1], p[2]))
  BY <1>0 DEF Follows, LogicDone, Alike
<1>3. \A p \in Pairs :
        cell[p] \in Selected /\ rel[p[1]] = rel[p[2]] <=>
          Alike(p[1], p[2]) /\ (program = "samefile" => ~Follows(p))
  BY <1>1 DEF Selected, Alike
<1>4. nIdenticals' = Cardinality(Identical)'
  BY <1>0 DEF MarkedInv, Identical
<1> QED
  BY <1>0, <1>1, <1>2, <1>3, <1>4 DEF MarkedInv

(* So the matrix tells it always.                                          *)
LEMMA MarkedAlways == Spec => []MarkedInv
<1>1. Init => MarkedInv
  BY DEF Init, MarkedInv
<1>2. ASSUME TypeInv, TypeInv', CleanInv, MarkedInv, [Next]_vars
      PROVE  MarkedInv'
  <2>1. CASE ~(pc' \in {"logic", "report", "done"})
    BY <2>1 DEF MarkedInv
  <2>2. CASE pc' \in {"logic", "report", "done"}
    <3>1. CASE Mark \/ MarkByLogic \/ Report
      BY <1>2, <3>1, MarkMarks, LogicMarks, ReportMarks
    <3>2. CASE UNCHANGED vars
      BY <1>2, <3>2 DEF vars, group, matrix, MarkedInv, NoFaults, Alike, Follows, LogicDone,
                        Identical
    <3>3. ~(NextGroup \/ AvoidDiskAccess \/ Open \/ GetBuffer \/ OutOfMemory \/ Read \/ Compare
            \/ Close \/ Reset)
      BY <2>2 DEF NextGroup, AvoidDiskAccess, Open, OpenFile, OpenNoDescriptors, OpenError,
                  GetBuffer, OutOfMemory, Read, ReadHeld, ReadReopened, NextRow, Compare, Close,
                  Reset, NoGroup, Goto
    <3> QED
      BY <1>2, <3>1, <3>2, <3>3 DEF Next
  <2> QED
    BY <2>1, <2>2
<1> QED
  BY <1>1, <1>2, TypeAlways, CleanAlways, PTL DEF Spec
(* The files of a reported line have the same content and, for samearchive,*)
(* the same name, although not every page was read (samefile.1).           *)
THEOREM LinesAreAlike == Spec => []ReportedAreAlike
<1>1. MarkedInv => ReportedAreAlike
  BY DEF MarkedInv, ReportedAreAlike
<1> QED
  BY <1>1, MarkedAlways, PTL

(* samefile -x and samearchive list every pair that is alike, compared or  *)
(* concluded (samefile.1, option -x; SizeGroup::readOnlyOncesMark).        *)
THEOREM FullListIsComplete == Spec => []FullListComplete
<1>1. MarkedInv => FullListComplete
  BY DEF MarkedInv, FullListComplete
<1> QED
  BY <1>1, MarkedAlways, PTL

-------------------------------------------------------------------------------
(* One file of each class comes first, and is the one that is left.        *)

Firsts == {i \in Files : \A k \in Files : k < i => ~Alike(k, i)}

(* Every class has a first file.                                           *)
LEMMA FirstOfClass ==
  ASSUME NEW i \in Files
  PROVE  \E f \in Firsts : f <= i /\ Alike(f, i)
<1>0. n \in Nat /\ Files = 0 .. n - 1 /\ Class(i) \subseteq Nat /\ i \in Class(i)
  BY GroupAssumption, AlikeEquivalence DEF Files, Class
<1>1. PICK f \in Class(i) : \A k \in Class(i) : ~(<<k, f>> \in OpToRel(<, Nat))
  <2> HIDE DEF Class
  <2> QED
    BY <1>0, NatLessThanWellFounded, WFMin
<1>2. OpToRel(<, Nat) = {pair \in Nat \X Nat : pair[1] < pair[2]}
  BY DEF OpToRel
<1>3. \A k \in Class(i) : ~(k < f)
  <2> SUFFICES ASSUME NEW k \in Class(i), k < f PROVE FALSE
    OBVIOUS
  <2>1. <<k, f>> \in {pair \in Nat \X Nat : pair[1] < pair[2]}
    BY <1>0
  <2> QED
    BY <1>1, <1>2, <2>1
<1>4. f \in Files /\ Alike(f, i)
  BY AlikeEquivalence DEF Class
<1>5. f <= i
  BY <1>0, <1>3, <1>4
<1>6. f \in Firsts
  <2> SUFFICES ASSUME NEW k \in Files, k < f, Alike(k, f) PROVE FALSE
    BY <1>4 DEF Firsts
  <2>1. k \in Class(i)
    BY <1>4, AlikeEquivalence DEF Class
  <2> QED
    BY <1>3, <2>1
<1> QED
  BY <1>4, <1>5, <1>6

(* And only one.                                                           *)
LEMMA FirstIsUnique ==
  ASSUME NEW f \in Firsts, NEW g \in Firsts, Alike(f, g)
  PROVE  f = g
<1>1. f \in Files /\ g \in Files /\ Alike(g, f)
  BY AlikeEquivalence DEF Firsts
<1> QED
  BY <1>1, GroupAssumption DEF Firsts, Files

(* The pairs that do not follow by logic are those of a first file and one *)
(* that is like it, so there is one for every other file.                  *)
LEMMA DefaultList ==
  ASSUME pc = "done"
  PROVE  LET listed == {p \in Pairs : Alike(p[1], p[2]) /\ ~Follows(p)}
         IN  /\ \A p \in listed : p[1] \in Firsts /\ p[2] \in Files \ Firsts
             /\ \A i \in Files \ Firsts : \E p \in listed : p[2] = i
             /\ Cardinality(listed) = n - Cardinality(Firsts)
             /\ Cardinality(Firsts) \in Nat
<1> DEFINE listed == {p \in Pairs : Alike(p[1], p[2]) /\ ~Follows(p)}
<1>0. n \in Nat /\ Files = 0 .. n - 1
  BY GroupAssumption DEF Files
<1>1. \A p \in Pairs : Follows(p) <=> \E k \in Files : k < p[1] /\ Alike(k, p[1])
  BY <1>0 DEF Follows, LogicDone
<1>2. \A p \in listed : /\ p = <<p[1], p[2]>> /\ Alike(p[1], p[2])
                        /\ p[1] \in Firsts /\ p[2] \in Files \ Firsts
  BY <1>0, <1>1 DEF Pairs, Firsts
<1>3. ASSUME NEW i \in Files \ Firsts PROVE \E p \in listed : p[2] = i
  <2>1. PICK f \in Firsts : f <= i /\ Alike(f, i)
    BY FirstOfClass
  <2>2. f \in Files /\ f < i
    BY <1>0, <1>3, <2>1 DEF Firsts
  <2>3. <<f, i>> \in Pairs /\ <<f, i>>[1] = f /\ <<f, i>>[2] = i
    BY <2>2 DEF Pairs
  <2>4. ~Follows(<<f, i>>)
    BY <1>1, <2>1, <2>3 DEF Firsts
  <2> QED
    BY <2>1, <2>3, <2>4
<1>4. Firsts \subseteq Files /\ IsFiniteSet(listed)
  BY FilesFinite, FS_Subset DEF Firsts
<1> DEFINE second == [p \in listed |-> p[2]]
<1>5. Cardinality(Files \ Firsts) = Cardinality(listed)
  <2>1. second \in [listed -> Files \ Firsts]
    BY <1>2
  <2>2. \A p, q \in listed : second[p] = second[q] => p = q
    <3> SUFFICES ASSUME NEW p \in listed, NEW q \in listed, p[2] = q[2] PROVE p = q
      OBVIOUS
    <3>1. Alike(p[1], p[2]) /\ Alike(q[1], p[2]) /\ p[1] \in Firsts /\ q[1] \in Firsts
      BY <1>2
    <3>2. p[1] = q[1]
      BY <3>1, AlikeEquivalence, FirstIsUnique
    <3> QED
      BY <1>2, <3>2
  <2>3. \A i \in Files \ Firsts : \E p \in listed : second[p] = i
    BY <1>3
  <2> HIDE DEF second, listed
  <2> QED
    BY <1>4, <2>1, <2>2, <2>3, OneToOne
<1>6. /\ Cardinality(Files \ Firsts) = n - Cardinality(Firsts)
      /\ Cardinality(Firsts) \in Nat
  <2>1. Files \cap Firsts = Firsts /\ IsFiniteSet(Firsts)
    BY <1>4, FilesFinite, FS_Subset
  <2>2. Cardinality(Files \ Firsts) = Cardinality(Files) - Cardinality(Files \cap Firsts)
    BY FilesFinite, FS_Difference
  <2>3. Cardinality(Firsts) \in Nat
    BY <2>1, FS_CardinalityType
  <2> QED
    BY <2>1, <2>2, <2>3, FilesFinite
<1> QED
  BY <1>2, <1>3, <1>5, <1>6

(* The files no line names second are the first ones.                      *)
LEMMA LeftAreFirsts ==
  ASSUME MarkedInv, pc = "done", NoFaults
  PROVE  Left = Firsts
<1>0. /\ n \in Nat /\ Files = 0 .. n - 1
      /\ lines = {p \in Pairs : Alike(p[1], p[2]) /\ (program = "samefile" => ~Follows(p))}
  BY GroupAssumption DEF MarkedInv, Files
<1>1. ASSUME NEW i \in Firsts PROVE i \in Left
  <2>1. \A p \in lines : p[1] \in Files /\ p[2] \in Files /\ p[1] < p[2] /\ Alike(p[1], p[2])
    BY <1>0 DEF Pairs
  <2> QED
    BY <2>1 DEF Firsts, Left
<1>2. ASSUME NEW i \in Files \ Firsts PROVE i \notin Left
  <2>1. PICK p \in {q \in Pairs : Alike(q[1], q[2]) /\ ~Follows(q)} : p[2] = i
    BY DefaultList
  <2> QED
    BY <1>0, <2>1 DEF Left
<1> QED
  BY <1>1, <1>2 DEF Left, Firsts

(* Removing the files in the third field leaves exactly one file of each   *)
(* content, and by default each of them is listed once (samefile.1,        *)
(* INTERNALS), however many files of a size there are.                     *)
THEOREM OneIsLeft == Spec => []OneOfEachLeft
<1>1. ASSUME MarkedInv, pc = "done", NoFaults, NEW i \in Files
      PROVE  Cardinality(Class(i) \cap Left) = 1
  <2>1. Left = Firsts
    BY <1>1, LeftAreFirsts
  <2>2. PICK f \in Firsts : Alike(f, i)
    BY FirstOfClass
  <2>3. f \in Class(i)
    BY <2>2, AlikeEquivalence DEF Class, Firsts
  <2>4. \A g \in Class(i) \cap Firsts : g = f
    BY <2>2, AlikeEquivalence, FirstIsUnique DEF Class
  <2>5. Class(i) \cap Left = {f}
    BY <2>1, <2>3, <2>4
  <2> QED
    BY <2>5, FS_Singleton
<1>2. ASSUME MarkedInv, pc = "done", NoFaults, program = "samefile"
      PROVE  Cardinality(lines) = n - Cardinality(Left)
  <2>1. lines = {p \in Pairs : Alike(p[1], p[2]) /\ ~Follows(p)}
    BY <1>2 DEF MarkedInv
  <2> QED
    BY <1>2, <2>1, LeftAreFirsts, DefaultList
<1>3. MarkedInv => OneOfEachLeft
  BY <1>1, <1>2 DEF OneOfEachLeft
<1> QED
  BY <1>3, MarkedAlways, PTL

(* The statistics count one file less than there are in every class: what  *)
(* readOnlyOncesMark takes back is just what it counted too often.         *)
THEOREM WasteIsTrue == Spec => []WasteIsCounted
<1>1. ASSUME MarkedInv, pc = "done", NoFaults
      PROVE  nIdenticals = n - Cardinality({Class(i) : i \in Files})
  <2> DEFINE classes == {Class(i) : i \in Files}
             class == [f \in Firsts |-> Class(f)]
  <2>1. nIdenticals = Cardinality({p \in Pairs : Alike(p[1], p[2]) /\ ~Follows(p)})
    <3>1. Identical = {p \in Pairs : Alike(p[1], p[2]) /\ ~Follows(p)}
      BY <1>1 DEF MarkedInv, Identical
    <3> QED
      BY <1>1, <3>1 DEF MarkedInv
  <2>2. class \in [Firsts -> classes] /\ IsFiniteSet(Firsts)
    BY FilesFinite, FS_Subset DEF Firsts
  <2>3. \A f, g \in Firsts : class[f] = class[g] => f = g
    <3> SUFFICES ASSUME NEW f \in Firsts, NEW g \in Firsts, Class(f) = Class(g) PROVE f = g
      OBVIOUS
    <3>1. g \in Class(g)
      BY AlikeEquivalence DEF Class, Firsts
    <3> QED
      BY <3>1, FirstIsUnique DEF Class
  <2>4. ASSUME NEW i \in Files PROVE \E f \in Firsts : class[f] = Class(i)
    <3>1. PICK f \in Firsts : Alike(f, i)
      BY FirstOfClass
    <3>2. Class(f) = Class(i)
      BY <3>1, AlikeEquivalence DEF Class
    <3> QED
      BY <3>2
  <2>5. Cardinality(classes) = Cardinality(Firsts)
    <3>1. \A c \in classes : \E f \in Firsts : class[f] = c
      BY <2>4
    <3> HIDE DEF class, classes
    <3> QED
      BY <2>2, <2>3, <3>1, OneToOne
  <2> QED
    BY <1>1, <2>1, <2>5, DefaultList
<1>2. MarkedInv => WasteIsCounted
  BY <1>1 DEF WasteIsCounted
<1> QED
  BY <1>2, MarkedAlways, PTL
-------------------------------------------------------------------------------
(* Differences are true even after opening or reading a file failed.  Then *)
(* a counter may count a file twice, exceed n - 1, and have its file       *)
(* compared by an old page.  That does no harm because of two alike files  *)
(* that are not given up the first has the greater counter.                *)

Unhindered == ~Struck("nofile") /\ ~Struck("memory")

(* The files a file was told apart from, and by how much its counter       *)
(* exceeds their number.                                                   *)
DifferFrom(i) == {k \in Others(i) : cell[PairOf(i, k)] = "different"}

Surplus(i) == equal[i] - Cardinality(DifferFrom(i))

(* There is no file left to compare a file to.                             *)
Lone(i) == \A k \in Others(i) : Get(k, n - 1) = "error"

(* A file that could not be opened or read is not compared.                *)
FailedInv ==
  /\ pc \in {"open", "buffer", "read", "compare"} =>
       max = n /\ \A i \in Files : fd[i] = "failed" /\ Alive(i) => Lone(i)
  /\ \A i \in Files :
       (pc = "read" /\ i < row) \/ pc = "compare" =>
         (Alive(i) => buffer[i] = content[i][page] \/ Lone(i))

(* A row finds every later file whose page is different.                   *)
RowsInv ==
  pc = "compare" =>
    \A i, k \in Files :
      /\ i < row /\ i < k /\ Alive(i)
      /\ equal[k] # n - 1 /\ Get(k, n - 1) # "error" /\ buffer[i] # buffer[k]
      => cell[<<i, k>>] = "different"

(* Of two alike files the first is ahead.                                  *)
AheadInv ==
  pc \in BeforeMark =>
    \A i, j \in Files :
      i < j /\ Alike(i, j) /\ Alive(i) /\ Get(j, n - 1) # "error" =>
        DifferFrom(j) \subseteq DifferFrom(i) /\ Surplus(j) <= Surplus(i)

FreshMatrix ==
  pc \in {"idle", "precheck"} =>
    (\A c \in Cells : cell[c] = "unknown") /\ \A i \in Files : equal[i] = 0

TrueDifferences ==
  pc \in BeforeMark => \A p \in Pairs : cell[p] = "different" => ~Alike(p[1], p[2])

DifferencesInv ==
  Unhindered => FailedInv /\ RowsInv /\ AheadInv /\ FreshMatrix /\ TrueDifferences
(* These files can be counted.                                             *)
LEMMA DifferFromFinite ==
  ASSUME NEW i \in Files
  PROVE  /\ DifferFrom(i) \subseteq Others(i) /\ IsFiniteSet(DifferFrom(i))
         /\ Cardinality(DifferFrom(i)) \in Nat
<1>1. IsFiniteSet(Others(i))
  BY FilesFinite, FS_RemoveElement DEF Others
<1> QED
  BY <1>1, FS_Subset, FS_CardinalityType DEF DifferFrom

(* So the later of two alike files is worked on while the first one is.    *)
LEMMA AheadAlive ==
  ASSUME TypeOK, AheadInv, pc \in BeforeMark, NEW i \in Files, NEW j \in Files,
         i < j, Alike(i, j), Alive(i), Get(j, n - 1) # "error"
  PROVE  Alive(j)
<1>1. DifferFrom(j) \subseteq DifferFrom(i) /\ Surplus(j) <= Surplus(i)
  BY DEF AheadInv
<1>2. /\ Cardinality(DifferFrom(j)) <= Cardinality(DifferFrom(i))
      /\ Cardinality(DifferFrom(j)) \in Nat /\ Cardinality(DifferFrom(i)) \in Nat
  BY <1>1, DifferFromFinite, FS_Subset
<1>3. equal[i] \in Nat /\ equal[j] \in Nat /\ n \in Nat /\ equal[i] < n - 1
  BY GroupAssumption DEF TypeOK, Alive
<1>4. equal[j] <= equal[i]
  BY <1>1, <1>2, <1>3 DEF Surplus
<1> QED
  BY <1>3, <1>4 DEF Alive

(* Then both have the page in their buffers.                               *)
LEMMA SameBuffer ==
  ASSUME TypeOK, FailedInv, AheadInv, pc = "compare", NEW i \in Files, NEW j \in Files,
         i < j, Alike(i, j), Alive(i), Get(j, n - 1) # "error"
  PROVE  buffer[i] = buffer[j] /\ equal[j] # n - 1
<1>1. Alive(j)
  BY AheadAlive DEF BeforeMark
<1>2. ~Lone(i) /\ ~Lone(j)
  BY <1>1, GroupAssumption DEF Lone, Alive, Others, Files
<1>3. buffer[i] = content[i][page] /\ buffer[j] = content[j][page]
  BY <1>1, <1>2 DEF FailedInv
<1>4. equal[j] \in Nat
  BY DEF TypeOK
<1> QED
  BY <1>1, <1>3, <1>4, GroupAssumption DEF Alike, Alive

(* What a row adds to the files that a file was told apart from.           *)
Gain(i) ==
  IF ~Alive(row) THEN {}
  ELSE IF i = row THEN Differ(row)
  ELSE IF i \in Differ(row) THEN {row} ELSE {}

(* It adds them to the counters, too: no counter exceeds their number by   *)
(* more than before.                                                       *)
LEMMA CompareGains ==
  ASSUME TypeInv, Compare
  PROVE  /\ \A c \in Cells :
              cell'[c] = IF Alive(row) /\ c \in {<<row, j>> : j \in Differ(row)}
                         THEN "different" ELSE cell[c]
         /\ \A i \in Files : /\ DifferFrom(i)' = DifferFrom(i) \cup Gain(i)
                             /\ equal'[i] = equal[i] + Cardinality(Gain(i))
                             /\ Surplus(i)' = Surplus(i)
<1>0. /\ TypeOK /\ row \in Files /\ CompareRow /\ n \in Nat /\ Files = 0 .. n - 1
      /\ Differ(row) \subseteq Files /\ \A j \in Differ(row) : row < j
  BY GroupAssumption DEF TypeInv, LoopsInv, Compare, Files, Differ
<1>1. \A c \in Cells :
        cell'[c] = IF Alive(row) /\ c \in {<<row, j>> : j \in Differ(row)}
                   THEN "different" ELSE cell[c]
  <2>1. CASE Alive(row)
    BY <1>0, <2>1 DEF CompareRow, Filled
  <2>2. CASE ~Alive(row)
    BY <1>0, <2>2 DEF CompareRow
  <2> QED
    BY <2>1, <2>2
<1>2. ASSUME NEW i \in Files
      PROVE  DifferFrom(i)' = DifferFrom(i) \cup Gain(i) /\ Gain(i) \cap DifferFrom(i) = {}
  <2>1. ASSUME NEW k \in Others(i)
        PROVE  /\ PairOf(i, k) \in Cells
               /\ Alive(row) /\ PairOf(i, k) \in {<<row, j>> : j \in Differ(row)} <=> k \in Gain(i)
    <3>1. PairOf(i, k) \in Pairs
      BY <1>0 DEF PairOf, Pairs, Others
    <3>2. ASSUME NEW j \in Differ(row)
          PROVE  PairOf(i, k) = <<row, j>> <=> (i = row /\ k = j) \/ (k = row /\ i = j)
      BY <1>0, <2>1 DEF PairOf, Others
    <3>3. row \notin Differ(row)
      BY <1>0
    <3> HIDE DEF Differ
    <3> QED
      BY <3>1, <3>2, <3>3 DEF Gain, Cells
  <2>2. Gain(i) \subseteq Others(i)
    BY <1>0 DEF Gain, Others
  <2>3. ASSUME NEW k \in Gain(i) PROVE cell[PairOf(i, k)] # "different"
    <3>1. PICK j \in Differ(row) : PairOf(i, k) = <<row, j>>
      BY <2>1, <2>2, <2>3
    <3>2. Get(row, j) = cell[<<row, j>>]
      BY <1>0 DEF Get, Slot
    <3> QED
      BY <3>1, <3>2 DEF Differ
  <2>4. \A k \in Others(i) : cell'[PairOf(i, k)] = "different" <=>
                               k \in Gain(i) \/ cell[PairOf(i, k)] = "different"
    BY <1>1, <2>1
  <2>5. DifferFrom(i)' = {k \in Others(i) : cell'[PairOf(i, k)] = "different"}
    BY DEF DifferFrom, Others, PairOf, Files
  <2> QED
    BY <2>2, <2>3, <2>4, <2>5 DEF DifferFrom
<1>3. ASSUME NEW i \in Files
      PROVE  /\ equal'[i] = equal[i] + Cardinality(Gain(i))
             /\ IsFiniteSet(Gain(i)) /\ Cardinality(Gain(i)) \in Nat
  <2>1. equal[i] \in Nat
    BY <1>0 DEF TypeOK
  <2>2. CASE ~Alive(row)
    <3>1. Gain(i) = {} /\ equal'[i] = equal[i]
      BY <1>0, <2>2 DEF Gain, CompareRow
    <3>2. Cardinality(Gain(i)) = 0 /\ IsFiniteSet(Gain(i))
      BY <3>1, FS_EmptySet
    <3> QED
      BY <2>1, <3>1, <3>2
  <2>3. CASE Alive(row)
    <3>1. equal' = [m \in Files |->
                      IF m = row THEN equal[m] + Cardinality(Differ(row))
                      ELSE IF m \in Differ(row) THEN equal[m] + 1
                      ELSE equal[m]]
      BY <1>0, <2>3 DEF CompareRow
    <3>2. Cardinality({row}) = 1 /\ IsFiniteSet({row}) /\ Cardinality({}) = 0 /\ IsFiniteSet({})
      BY FS_Singleton, FS_EmptySet
    <3>3. IsFiniteSet(Differ(row)) /\ Cardinality(Differ(row)) \in Nat
      BY <1>0, FilesFinite, FS_Subset, FS_CardinalityType
    <3> HIDE DEF Differ
    <3>4. CASE i = row
      BY <2>3, <3>1, <3>3, <3>4 DEF Gain
    <3>5. CASE i # row /\ i \in Differ(row)
      <4>1. Gain(i) = {row} /\ equal'[i] = equal[i] + 1
        BY <2>3, <3>1, <3>5 DEF Gain
      <4> QED
        BY <3>2, <4>1
    <3>6. CASE i # row /\ i \notin Differ(row)
      <4>1. Gain(i) = {} /\ equal'[i] = equal[i]
        BY <2>3, <3>1, <3>6 DEF Gain
      <4> QED
        BY <2>1, <3>2, <4>1
    <3> QED
      BY <3>4, <3>5, <3>6
  <2> QED
    BY <2>2, <2>3
<1>4. ASSUME NEW i \in Files PROVE Surplus(i)' = Surplus(i)
  <2>1. IsFiniteSet(DifferFrom(i)) /\ Cardinality(DifferFrom(i)) \in Nat
    BY DifferFromFinite
  <2>2. Cardinality(DifferFrom(i) \cap Gain(i)) = 0
    BY <1>2, FS_EmptySet
  <2>3. Cardinality(DifferFrom(i) \cup Gain(i))
          = Cardinality(DifferFrom(i)) + Cardinality(Gain(i))
              - Cardinality(DifferFrom(i) \cap Gain(i))
    BY <1>3, <2>1, FS_Union
  <2>4. Cardinality(DifferFrom(i))' = Cardinality(DifferFrom(i)) + Cardinality(Gain(i))
    <3>1. Cardinality(DifferFrom(i))' = Cardinality(DifferFrom(i) \cup Gain(i))
      BY <1>2
    <3>2. Cardinality(Gain(i)) \in Nat
      BY <1>3
    <3> HIDE DEF Gain
    <3> QED
      BY <2>1, <2>2, <2>3, <3>1, <3>2
  <2>5. equal[i] \in Nat
    BY <1>0 DEF TypeOK
  <2>6. Surplus(i)' = equal'[i] - Cardinality(DifferFrom(i))'
    BY DEF Surplus
  <2> QED
    BY <1>3, <2>1, <2>4, <2>5, <2>6 DEF Surplus
<1> QED
  BY <1>1, <1>2, <1>3, <1>4
(* Comparing a row finds true differences only, and keeps first files      *)
(* ahead of the later ones they are like.                                  *)
LEMMA CompareDifferences ==
  ASSUME TypeInv, TypeInv', FailedInv, RowsInv, AheadInv, TrueDifferences, Compare
  PROVE  FailedInv' /\ RowsInv' /\ AheadInv' /\ TrueDifferences'
<1>0. /\ TypeOK /\ row \in Files /\ pc = "compare" /\ pc \in BeforeMark /\ n \in Nat
      /\ Files = 0 .. n - 1 /\ UNCHANGED <<group, fd, max, buffer>> /\ capacity' = capacity
      /\ equal \in [Files -> Nat]
      /\ IF row < n - 1 THEN row' = row + 1 /\ UNCHANGED <<pc, page>>
         ELSE page' = page + 1 /\ Goto(IF page < Pages THEN "read" ELSE "close")
  BY GroupAssumption DEF TypeInv, TypeOK, LoopsInv, Compare, BeforeMark, Files, group
<1>1. ErrorsStay /\ CountsGrow
  BY CompareGrows
<1>2. /\ \A i \in Files : Alive(i)' => Alive(i)
      /\ \A i \in Files : Get(i, n - 1) = "error" => Get(i, n - 1)' = "error"
      /\ \A i, j : Alike(i, j)' <=> Alike(i, j)
      /\ \A i \in Files : Lone(i) => Lone(i)'
  <2>1. \A i \in Files : Alive(i)' => Alive(i)
    BY <1>0, <1>1, WasAlive
  <2>2. \A i \in Files : Get(i, n - 1) = "error" => Get(i, n - 1)' = "error"
    BY <1>0, <1>1 DEF ErrorsStay, Get, Slot
  <2>3. \A i \in Files : Lone(i) => Lone(i)'
    BY <2>2 DEF Lone, Others
  <2> QED
    BY <1>0, <2>1, <2>2, <2>3 DEF Alike, group
<1>3. /\ \A c \in Cells :
           cell'[c] = IF Alive(row) /\ c \in {<<row, j>> : j \in Differ(row)}
                      THEN "different" ELSE cell[c]
      /\ \A i \in Files : /\ DifferFrom(i)' = DifferFrom(i) \cup Gain(i)
                          /\ equal'[i] = equal[i] + Cardinality(Gain(i))
                          /\ Surplus(i)' = Surplus(i)
  BY CompareGains
<1>4. pc' \in {"compare", "read", "close"} /\ (pc' = "compare" => row' = row + 1 /\ page' = page)
      /\ (pc' = "read" => row' = 0)
  BY <1>0 DEF Goto
<1>5. FailedInv'
  BY <1>0, <1>2, <1>4 DEF FailedInv, group
<1>6. ASSUME Alive(row), NEW j \in Differ(row)
      PROVE  ~Alike(row, j) /\ j \in Files /\ row < j
  <2>1. j \in Files /\ row < j /\ Get(j, n - 1) # "error" /\ buffer[row] # buffer[j]
    BY <1>0 DEF Differ
  <2> QED
    BY <1>0, <1>6, <2>1, SameBuffer
<1>7. TrueDifferences'
  <2>1. SUFFICES ASSUME NEW p \in Pairs, cell'[p] = "different" PROVE ~Alike(p[1], p[2])
    BY <1>2 DEF TrueDifferences
  <2>2. CASE Alive(row) /\ p \in {<<row, j>> : j \in Differ(row)}
    <3>1. PICK j \in Differ(row) : p = <<row, j>>
      BY <2>2
    <3> QED
      BY <1>6, <2>2, <3>1
  <2>3. CASE cell[p] = "different"
    BY <1>0, <2>3 DEF TrueDifferences
  <2> QED
    BY <1>3, <2>1, <2>2, <2>3 DEF Cells
<1>8. RowsInv'
  <2> SUFFICES ASSUME pc' = "compare", NEW i \in Files, NEW k \in Files, i < row + 1, i < k,
                      Alive(i), equal'[k] # n - 1, Get(k, n - 1)' # "error",
                      buffer[i] # buffer[k]
               PROVE  cell'[<<i, k>>] = "different"
    BY <1>0, <1>2, <1>4 DEF RowsInv
  <2>1. Get(k, n - 1) # "error" /\ <<i, k>> \in Cells /\ k \in i + 1 .. n - 1
    BY <1>0, <1>2 DEF Cells, Pairs
  <2>2. equal[k] # n - 1
    <3>1. SUFFICES ASSUME equal[k] = n - 1 PROVE FALSE
      OBVIOUS
    <3>2. Gain(k) = {}
      BY <1>0, <3>1 DEF Gain, Alive, Differ
    <3>3. Cardinality(Gain(k)) = 0
      BY <3>2, FS_EmptySet
    <3> QED
      BY <1>0, <1>3, <3>1, <3>3
  <2>3. CASE i < row
    <3>1. cell[<<i, k>>] = "different"
      BY <1>0, <2>1, <2>2, <2>3 DEF RowsInv
    <3> QED
      BY <1>3, <2>1, <3>1
  <2>4. CASE i = row
    <3>1. Get(i, k) = cell[<<i, k>>]
      BY <1>0 DEF Get, Slot
    <3>2. cell[<<i, k>>] = "different" \/ k \in Differ(row)
      BY <2>1, <2>2, <2>4, <3>1 DEF Differ
    <3> HIDE DEF Differ
    <3> QED
      BY <1>3, <2>1, <2>4, <3>2
  <2> QED
    BY <1>0, <2>3, <2>4
<1>9. AheadInv'
  <2> SUFFICES ASSUME NEW i \in Files, NEW j \in Files, i < j, Alike(i, j), Alive(i),
                      Get(j, n - 1) # "error"
               PROVE  DifferFrom(j)' \subseteq DifferFrom(i)' /\ Surplus(j)' <= Surplus(i)'
    BY <1>2 DEF AheadInv
  <2>1. DifferFrom(j) \subseteq DifferFrom(i) /\ Surplus(j) <= Surplus(i)
    BY <1>0 DEF AheadInv
  <2>2. buffer[i] = buffer[j] /\ equal[j] # n - 1
    BY <1>0, SameBuffer
  <2>3. equal[i] # n - 1 /\ Get(i, n - 1) # "error"
    BY <1>0 DEF Alive
  <2>4. ASSUME NEW k \in Gain(j) PROVE k \in DifferFrom(i) \cup Gain(i)
    <3>1. Alive(row) /\ equal[row] # n - 1 /\ Get(row, n - 1) # "error"
      BY <1>0, <2>4 DEF Gain, Alive
    <3>2. CASE j = row
      <4>1. /\ k \in Files /\ j < k /\ equal[k] # n - 1 /\ Get(k, n - 1) # "error"
            /\ buffer[j] # buffer[k]
        BY <1>0, <2>4, <3>1, <3>2 DEF Gain, Differ
      <4>2. cell[<<i, k>>] = "different"
        BY <1>0, <2>2, <3>2, <4>1 DEF RowsInv
      <4> QED
        BY <1>0, <4>1, <4>2 DEF DifferFrom, PairOf, Others
    <3>3. CASE j # row /\ j \in Differ(row)
      <4>1. k = row /\ row < j /\ buffer[row] # buffer[j] /\ i # row
        BY <1>6, <2>2, <2>4, <3>1, <3>3 DEF Gain, Differ
      <4>2. CASE row < i
        <5>1. Get(row, i) = cell[<<row, i>>] /\ i \in row + 1 .. n - 1
          BY <1>0, <4>2 DEF Get, Slot
        <5>2. i \in Differ(row) \/ cell[<<row, i>>] = "different"
          BY <2>2, <2>3, <4>1, <5>1 DEF Differ
        <5>3. i \in Differ(row) => row \in Gain(i)
          BY <3>1, <4>1 DEF Gain
        <5>4. cell[<<row, i>>] = "different" => row \in DifferFrom(i)
          BY <1>0, <4>2 DEF DifferFrom, PairOf, Others
        <5> QED
          BY <4>1, <5>2, <5>3, <5>4
      <4>3. CASE i < row
        <5>1. cell[<<i, row>>] = "different"
          BY <1>0, <2>2, <3>1, <4>1, <4>3 DEF RowsInv
        <5> QED
          BY <1>0, <4>1, <4>3, <5>1 DEF DifferFrom, PairOf, Others
      <4> QED
        BY <1>0, <4>1, <4>2, <4>3
    <3> QED
      BY <2>4, <3>1, <3>2, <3>3 DEF Gain
  <2> HIDE DEF Gain
  <2> QED
    BY <1>3, <2>1, <2>4
<1> QED
  BY <1>5, <1>7, <1>8, <1>9
(* A file that cannot be read is given up, or it is the last one and all   *)
(* others are; the order of the rest does not change.                      *)
LEMMA RowErrorKeeps ==
  ASSUME TypeInv, TypeInv', AheadInv, TrueDifferences, pc = "read", RowError, UNCHANGED group
  PROVE  AheadInv' /\ TrueDifferences' /\ \A i \in Files : i = row /\ Alive(i)' => Lone(i)'
<1>0. /\ TypeOK /\ row \in Files /\ pc \in BeforeMark /\ n \in Nat /\ n >= 2
      /\ Files = 0 .. n - 1 /\ capacity' = capacity /\ equal \in [Files -> Nat]
  BY GroupAssumption DEF TypeInv, TypeOK, LoopsInv, BeforeMark, Files, group
<1>1. \A c \in Cells :
        cell'[c] = IF c \in Pairs /\ row \in {c[1], c[2]} THEN "error" ELSE cell[c]
  BY DEF RowError, Filled
<1>2. \A m \in Files : equal'[m] = IF m = row THEN equal[m] ELSE equal[m] + 1
  BY <1>0 DEF RowError, Counted, Others
<1>3. ASSUME NEW i \in Files, NEW j \in Files, i < j, row \in {i, j}
      PROVE  ~Alive(i)' \/ Get(j, n - 1)' = "error"
  <2>1. ASSUME row < n - 1, NEW k \in Files, k = row PROVE Get(k, n - 1)' = "error"
    <3>1. Slot(k, n - 1)' = <<k, n - 1>> /\ <<k, n - 1>> \in Pairs
      BY <1>0, <2>1 DEF Slot, Pairs
    <3> QED
      BY <1>1, <2>1, <3>1 DEF Get, Cells
  <2>2. ASSUME row = n - 1 PROVE Get(i, n - 1)' = "error"
    <3>1. Slot(i, n - 1)' = <<i, n - 1>> /\ <<i, n - 1>> \in Pairs
      BY <1>0, <1>3 DEF Slot, Pairs
    <3> QED
      BY <1>1, <2>2, <3>1 DEF Get, Cells
  <2>3. CASE row < n - 1
    BY <1>3, <2>1, <2>3 DEF Alive
  <2>4. CASE row = n - 1
    BY <2>2, <2>4 DEF Alive
  <2> QED
    BY <1>0, <2>3, <2>4
<1>4. ASSUME NEW i \in Files, i = row, Alive(i)' PROVE Lone(i)'
  <2> SUFFICES ASSUME NEW k \in Files, k # i PROVE Get(k, n - 1)' = "error"
    BY DEF Lone, Others, Files
  <2>1. CASE i < k
    BY <1>3, <1>4, <2>1
  <2>2. CASE k < i
    <3>1. Get(i, n - 1)' # "error"
      BY <1>4 DEF Alive
    <3>2. row = n - 1
      <4>1. SUFFICES ASSUME row < n - 1 PROVE FALSE
        BY <1>0
      <4>2. Slot(i, n - 1)' = <<i, n - 1>> /\ <<i, n - 1>> \in Pairs
        BY <1>0, <1>4, <4>1 DEF Slot, Pairs
      <4> QED
        BY <1>1, <1>4, <3>1, <4>2 DEF Get, Cells
    <3>3. Slot(k, n - 1)' = <<k, n - 1>> /\ <<k, n - 1>> \in Pairs
      BY <1>0, <1>4, <2>2, <3>2 DEF Slot, Pairs
    <3> QED
      BY <1>1, <3>2, <3>3 DEF Get, Cells
  <2> QED
    BY <1>0, <2>1, <2>2
<1>5. TrueDifferences'
  BY <1>0, <1>1 DEF TrueDifferences, Alike, group, Cells
<1>6. AheadInv'
  <2> SUFFICES ASSUME NEW i \in Files, NEW j \in Files, i < j, Alike(i, j), Alive(i)',
                      Get(j, n - 1)' # "error"
               PROVE  DifferFrom(j)' \subseteq DifferFrom(i)' /\ Surplus(j)' <= Surplus(i)'
    BY DEF AheadInv, Alike, group
  <2>1. row # i /\ row # j
    BY <1>3
  <2>2. ErrorsStay /\ CountsGrow
    BY <1>0, ErrorsGrow DEF RowError
  <2>3. Alive(i) /\ Get(j, n - 1) # "error"
    BY <1>0, <2>2, WasAlive DEF ErrorsStay, Get, Slot
  <2>4. DifferFrom(j) \subseteq DifferFrom(i) /\ Surplus(j) <= Surplus(i)
    BY <1>0, <2>3 DEF AheadInv
  <2>5. ASSUME NEW m \in {i, j}
        PROVE  /\ DifferFrom(m)' = DifferFrom(m) \ {row}
               /\ Surplus(m)' = Surplus(m) + 1 + (IF row \in DifferFrom(m) THEN 1 ELSE 0)
               /\ Surplus(m) \in Int
    <3>1. m \in Files /\ m # row
      BY <2>1
    <3>2. ASSUME NEW k \in Others(m)
          PROVE  /\ PairOf(m, k) \in Cells
                 /\ cell'[PairOf(m, k)] = IF k = row THEN "error" ELSE cell[PairOf(m, k)]
      <4>1. PairOf(m, k) \in Pairs /\ (row \in {PairOf(m, k)[1], PairOf(m, k)[2]} <=> k = row)
        BY <1>0, <3>1 DEF PairOf, Pairs, Others
      <4> QED
        BY <1>1, <4>1 DEF Cells
    <3>3. DifferFrom(m)' = DifferFrom(m) \ {row}
      <4>1. DifferFrom(m)' = {k \in Others(m) : cell'[PairOf(m, k)] = "different"}
        BY DEF DifferFrom, Others, PairOf, Files
      <4> QED
        BY <3>2, <4>1 DEF DifferFrom
    <3>4. IsFiniteSet(DifferFrom(m)) /\ Cardinality(DifferFrom(m)) \in Nat
      BY <3>1, DifferFromFinite
    <3>5. Cardinality(DifferFrom(m) \ {row})
            = IF row \in DifferFrom(m) THEN Cardinality(DifferFrom(m)) - 1
              ELSE Cardinality(DifferFrom(m))
      BY <3>4, FS_RemoveElement
    <3>6. equal'[m] = equal[m] + 1 /\ equal[m] \in Nat
      BY <1>0, <1>2, <3>1
    <3>7. Surplus(m)' = equal'[m] - Cardinality(DifferFrom(m) \ {row})
      BY <3>3 DEF Surplus
    <3> HIDE DEF DifferFrom
    <3> QED
      BY <3>3, <3>4, <3>5, <3>6, <3>7 DEF Surplus
  <2>6. DifferFrom(j)' \subseteq DifferFrom(i)'
    BY <2>4, <2>5
  <2>7. Surplus(j)' <= Surplus(i)'
    <3>1. row \in DifferFrom(j) => row \in DifferFrom(i)
      BY <2>4
    <3>2. /\ Surplus(i)' = Surplus(i) + 1 + (IF row \in DifferFrom(i) THEN 1 ELSE 0)
          /\ Surplus(j)' = Surplus(j) + 1 + (IF row \in DifferFrom(j) THEN 1 ELSE 0)
          /\ Surplus(i) \in Int /\ Surplus(j) \in Int
      BY <2>5
    <3> QED
      BY <2>4, <3>1, <3>2
  <2> QED
    BY <2>6, <2>7
<1> QED
  BY <1>4, <1>5, <1>6

(* A file that cannot be opened takes all later ones with it, or, if it is *)
(* the first, all others.                                                  *)
LEMMA OpenErrorKeeps ==
  ASSUME TypeInv, TypeInv', AheadInv, TrueDifferences, pc = "open", row \in Files,
         OpenError, UNCHANGED group
  PROVE  AheadInv' /\ TrueDifferences' /\ \A i \in Files : i = row /\ Alive(i)' => Lone(i)'
<1>0. /\ TypeOK /\ pc \in BeforeMark /\ n \in Nat /\ n >= 2
      /\ Files = 0 .. n - 1 /\ capacity' = capacity /\ equal \in [Files -> Nat]
  BY GroupAssumption DEF TypeInv, TypeOK, LoopsInv, BeforeMark, Files, group
<1> DEFINE slots == {Slot(row, n - 1) : j \in 0 .. row - 1}
                      \cup {Slot(j, n - 1) : j \in row + 1 .. n - 1}
<1>1. \A c \in Cells : cell'[c] = IF c \in slots THEN "error" ELSE cell[c]
  BY DEF OpenError, Filled
<1>2. \A m \in Files : equal'[m] = IF m = row THEN equal[m] ELSE equal[m] + 1
  BY <1>0 DEF OpenError, Counted, Others
<1>3. ASSUME NEW k \in Files, row < k \/ (k = row /\ 0 < row) PROVE Get(k, n - 1)' = "error"
  <2>1. Slot(k, n - 1) \in slots
    BY <1>0, <1>3
  <2>2. Slot(k, n - 1)' = Slot(k, n - 1) /\ Slot(k, n - 1) \in Cells
    BY <1>0, LastColumn DEF Slot
  <2> QED
    BY <1>1, <2>1, <2>2 DEF Get
<1>4. ASSUME NEW i \in Files, i = row, Alive(i)' PROVE Lone(i)'
  <2> SUFFICES ASSUME NEW k \in Files, k # i PROVE Get(k, n - 1)' = "error"
    BY DEF Lone, Others, Files
  <2>1. row = 0
    <3>1. Get(i, n - 1)' # "error"
      BY <1>4 DEF Alive
    <3> QED
      BY <1>0, <1>3, <1>4, <3>1
  <2> QED
    BY <1>0, <1>3, <1>4, <2>1
<1>5. TrueDifferences'
  BY <1>0, <1>1 DEF TrueDifferences, Alike, group, Cells
<1>6. AheadInv'
  <2> SUFFICES ASSUME NEW i \in Files, NEW j \in Files, i < j, Alike(i, j), Alive(i)',
                      Get(j, n - 1)' # "error"
               PROVE  DifferFrom(j)' \subseteq DifferFrom(i)' /\ Surplus(j)' <= Surplus(i)'
    BY DEF AheadInv, Alike, group
  <2>1. j < row
    BY <1>0, <1>3 DEF Others
  <2>2. ErrorsStay /\ CountsGrow
    BY <1>0, ErrorsGrow DEF OpenError
  <2>3. Alive(i) /\ Get(j, n - 1) # "error"
    BY <1>0, <2>2, WasAlive DEF ErrorsStay, Get, Slot
  <2>4. DifferFrom(j) \subseteq DifferFrom(i) /\ Surplus(j) <= Surplus(i)
    BY <1>0, <2>3 DEF AheadInv
  <2>5. ASSUME NEW c \in slots PROVE c[2] = n - 1 /\ (c[1] = n - 2 \/ c[1] >= row)
    <3>1. PICK m \in row .. n - 1 : c = Slot(m, n - 1)
      BY <1>0
    <3> QED
      BY <1>0, <3>1 DEF Slot
  <2>6. <<j, n - 1>> \notin slots
    <3>1. Slot(j, n - 1)' = <<j, n - 1>> /\ <<j, n - 1>> \in Cells
      BY <1>0, <2>1 DEF Slot, Cells, Pairs
    <3> QED
      BY <1>1, <3>1 DEF Get
  <2>7. ASSUME NEW m \in {i, j}
        PROVE  DifferFrom(m)' = DifferFrom(m) /\ Surplus(m)' = Surplus(m) + 1 /\ Surplus(m) \in Int
    <3>1. m \in Files /\ m # row /\ m <= j
      BY <1>0, <2>1
    <3>2. ASSUME NEW k \in Others(m)
          PROVE  PairOf(m, k) \in Cells /\ PairOf(m, k) \notin slots
      <4>1. PairOf(m, k) \in Pairs
        BY <1>0, <3>1 DEF PairOf, Pairs, Others
      <4>2. SUFFICES ASSUME PairOf(m, k) \in slots PROVE FALSE
        BY <4>1 DEF Cells
      <4>3. PairOf(m, k)[2] = n - 1 /\ (PairOf(m, k)[1] = n - 2 \/ PairOf(m, k)[1] >= row)
        <5> HIDE DEF slots
        <5> QED
          BY <2>5, <4>2
      <4>4. m < n - 1 /\ m < row
        BY <1>0, <2>1, <3>1
      <4>5. PairOf(m, k) = <<m, n - 1>> /\ m = n - 2
        BY <1>0, <3>1, <4>3, <4>4 DEF PairOf, Others
      <4>6. m = j
        BY <1>0, <2>1, <3>1, <4>5
      <4> QED
        BY <2>6, <4>2, <4>5, <4>6
    <3>3. DifferFrom(m)' = DifferFrom(m)
      <4>1. DifferFrom(m)' = {k \in Others(m) : cell'[PairOf(m, k)] = "different"}
        BY DEF DifferFrom, Others, PairOf, Files
      <4> HIDE DEF slots
      <4> QED
        BY <1>1, <3>2, <4>1 DEF DifferFrom
    <3>4. Cardinality(DifferFrom(m)) \in Nat
      BY <3>1, DifferFromFinite
    <3>5. equal'[m] = equal[m] + 1 /\ equal[m] \in Nat
      BY <1>0, <1>2, <3>1
    <3>6. Surplus(m)' = equal'[m] - Cardinality(DifferFrom(m))
      BY <3>3 DEF Surplus
    <3> HIDE DEF DifferFrom
    <3> QED
      BY <3>3, <3>4, <3>5, <3>6 DEF Surplus
  <2>8. /\ Surplus(i)' = Surplus(i) + 1 /\ Surplus(j)' = Surplus(j) + 1
        /\ Surplus(i) \in Int /\ Surplus(j) \in Int
    BY <2>7
  <2> QED
    BY <2>4, <2>7, <2>8
<1> QED
  BY <1>4, <1>5, <1>6
(* Steps that leave the matrix alone keep first files ahead.               *)
LEMMA AheadStays ==
  ASSUME AheadInv, TrueDifferences, pc \in BeforeMark, UNCHANGED <<group, cell, equal>>
  PROVE  AheadInv' /\ TrueDifferences'
BY DEF AheadInv, TrueDifferences, Alike, Alive, Get, Slot, Surplus, DifferFrom, group

(* Opening files, some of them with an error.                              *)
LEMMA OpenDifferences ==
  ASSUME TypeInv, TypeInv', FailedInv, AheadInv, TrueDifferences, Unhindered', Open
  PROVE  FailedInv' /\ AheadInv' /\ TrueDifferences'
<1>0. /\ TypeOK /\ pc = "open" /\ pc \in BeforeMark /\ max = n /\ UNCHANGED group
      /\ capacity' = capacity /\ fd \in [Files -> {"none", "failed", "open", "closed"}]
      /\ n \in Nat /\ row \in 0 .. n
      /\ \A i \in Files : fd[i] = "failed" /\ Alive(i) => Lone(i)
  BY GroupAssumption DEF TypeInv, TypeOK, Open, BeforeMark, FailedInv, group
<1>1. ~Fails("nofile")
  BY <1>0, FailsType DEF Unhindered, TypeOK
<1>2. CASE UNCHANGED <<cell, equal>>
  <2>1. AheadInv' /\ TrueDifferences'
    BY <1>0, <1>2, AheadStays
  <2>2. max' = n /\ pc' \in {"open", "buffer"}
    BY <1>0, <1>1, <1>2 DEF Open, OpenFile, OpenNoDescriptors, OpenError, matrix, Goto
  <2>3. \A i \in Files : fd'[i] = "failed" => fd[i] = "failed" \/ OpenError
    BY <1>0, <1>1 DEF Open, OpenFile, OpenNoDescriptors, matrix
  <2>4. CASE ~OpenError
    <3>1. \A i \in Files : fd'[i] = "failed" /\ Alive(i)' => Lone(i)'
      BY <1>0, <1>2, <2>3, <2>4 DEF Alive, Lone, Get, Slot
    <3> QED
      BY <2>1, <2>2, <3>1 DEF FailedInv
  <2>5. CASE OpenError
    <3>1. PICK i \in Files : i # row
      BY GroupAssumption DEF Files
    <3>2. equal'[i] = equal[i] + 1 /\ equal[i] \in Nat
      BY <1>0, <2>5, <3>1 DEF OpenError, Counted, Others, TypeOK
    <3> QED
      BY <1>2, <3>2
  <2> QED
    BY <2>4, <2>5
<1>3. CASE row < max /\ OpenError
  <2>1. row \in Files /\ max' = n /\ pc' = "open" /\ fd' = [fd EXCEPT ![row] = "failed"]
    BY <1>0, <1>3 DEF OpenError, Files
  <2>2. AheadInv' /\ TrueDifferences' /\ \A i \in Files : i = row /\ Alive(i)' => Lone(i)'
    BY <1>0, <1>3, <2>1, OpenErrorKeeps
  <2>3. ErrorsStay /\ CountsGrow
    BY <1>0, <1>3, ErrorsGrow DEF OpenError
  <2>4. \A i \in Files : /\ Alive(i)' => Alive(i)
                         /\ Get(i, n - 1) = "error" => Get(i, n - 1)' = "error"
    BY <1>0, <2>3, WasAlive DEF ErrorsStay, Get, Slot
  <2>5. \A i \in Files : Lone(i) => Lone(i)'
    BY <2>4 DEF Lone, Others
  <2>6. \A i \in Files : fd'[i] = "failed" /\ Alive(i)' => Lone(i)'
    BY <1>0, <2>1, <2>2, <2>4, <2>5
  <2> QED
    BY <2>1, <2>2, <2>6 DEF FailedInv
<1> QED
  BY <1>1, <1>2, <1>3 DEF Open, OpenFile, OpenNoDescriptors, matrix

(* Reading a page of a file, or failing to.                                *)
LEMMA ReadDifferences ==
  ASSUME TypeInv, TypeInv', FailedInv, AheadInv, TrueDifferences, Unhindered', Read
  PROVE  FailedInv' /\ RowsInv' /\ AheadInv' /\ TrueDifferences'
<1>0. /\ TypeOK /\ pc = "read" /\ pc \in BeforeMark /\ row \in Files /\ max = n
      /\ UNCHANGED <<group, page>> /\ capacity' = capacity /\ n \in Nat /\ Files = 0 .. n - 1
      /\ \A i \in Files : fd[i] = "failed" /\ Alive(i) => Lone(i)
      /\ \A i \in Files : i < row /\ Alive(i) => buffer[i] = content[i][page] \/ Lone(i)
  BY GroupAssumption DEF TypeInv, LoopsInv, Read, BeforeMark, FailedInv, group, Files
<1>1. /\ UNCHANGED <<fd, max>> /\ NextRow
      /\ \/ UNCHANGED <<cell, equal, buffer>> /\ (~Alive(row) \/ fd[row] = "failed")
         \/ /\ buffer' = [buffer EXCEPT ![row] = content[row][page]]
            /\ UNCHANGED <<cell, equal>>
         \/ RowError
  BY <1>0 DEF Read, ReadHeld, ReadReopened, ReadPage, matrix
<1>2. /\ pc' \in {"read", "compare"} /\ (pc' = "compare" => row' = 0 /\ row = n - 1)
      /\ (pc' = "read" => row' = row + 1)
  BY <1>0, <1>1 DEF NextRow, Goto
<1>3. RowsInv'
  BY <1>2, GroupAssumption DEF RowsInv, Files
<1>4. ErrorsStay /\ CountsGrow
  BY ReadGrows
<1>5. \A i \in Files : /\ Alive(i)' => Alive(i)
                       /\ Get(i, n - 1) = "error" => Get(i, n - 1)' = "error"
  BY <1>0, <1>4, WasAlive DEF ErrorsStay, Get, Slot
<1>6. \A i \in Files : Lone(i) => Lone(i)'
  BY <1>5 DEF Lone, Others
<1>7. \A i \in Files : fd'[i] = "failed" /\ Alive(i)' => Lone(i)'
  BY <1>0, <1>1, <1>5, <1>6
<1>8. ASSUME \A i \in Files : i = row /\ Alive(i)' => buffer'[i] = content[i][page] \/ Lone(i)',
             \A i \in Files : i # row => buffer'[i] = buffer[i]
      PROVE  FailedInv'
  <2>1. \A i \in Files : (pc' = "read" /\ i < row') \/ pc' = "compare" => i <= row
    BY <1>0, <1>2
  <2>2. \A i \in Files : (pc' = "read" /\ i < row') \/ pc' = "compare" =>
                           (Alive(i)' => buffer'[i] = content'[i][page'] \/ Lone(i)')
    BY <1>0, <1>5, <1>6, <1>8, <2>1 DEF group
  <2> QED
    BY <1>0, <1>1, <1>7, <2>2 DEF FailedInv
<1>9. CASE UNCHANGED <<cell, equal, buffer>> /\ (~Alive(row) \/ fd[row] = "failed")
  <2>1. AheadInv' /\ TrueDifferences'
    BY <1>0, <1>9, AheadStays
  <2>2. FailedInv'
    BY <1>0, <1>1, <1>5, <1>7, <1>8, <1>9
  <2> QED
    BY <1>3, <2>1, <2>2
<1>10. CASE buffer' = [buffer EXCEPT ![row] = content[row][page]] /\ UNCHANGED <<cell, equal>>
  <2>1. AheadInv' /\ TrueDifferences'
    BY <1>0, <1>10, AheadStays
  <2>2. buffer \in [Files -> Values \cup {Stale}]
    BY <1>0 DEF TypeOK
  <2>3. FailedInv'
    BY <1>0, <1>8, <1>10, <2>2
  <2> QED
    BY <1>3, <2>1, <2>3
<1>11. CASE RowError
  <2>1. AheadInv' /\ TrueDifferences' /\ \A i \in Files : i = row /\ Alive(i)' => Lone(i)'
    BY <1>0, <1>11, RowErrorKeeps
  <2>2. FailedInv'
    BY <1>8, <1>11, <2>1 DEF RowError
  <2> QED
    BY <1>3, <2>1, <2>2
<1> QED
  BY <1>1, <1>9, <1>10, <1>11

(* The names tell files apart that no descriptor or counter knows of yet.  *)
LEMMA AvoidDifferences ==
  ASSUME TypeInv, DescriptorsInv, ~Struck("memory"), FreshMatrix, AvoidDiskAccess
  PROVE  FailedInv' /\ AheadInv' /\ TrueDifferences'
<1>0. /\ TypeOK /\ pc = "precheck" /\ pc' = "open" /\ UNCHANGED <<group, fd>> /\ max' = n
      /\ (\A c \in Cells : cell[c] = "unknown") /\ \A i \in Files : equal[i] = 0 /\ fd[i] = "none"
  BY DEF TypeInv, AvoidDiskAccess, Goto, FreshMatrix, DescriptorsInv
<1>1. n \in Nat /\ Files = 0 .. n - 1
  BY GroupAssumption DEF Files
<1> DEFINE apart == {p \in Pairs : PreCheck(p[1], p[2])}
           named(i) == {k \in Others(i) : rel[k] # rel[i]}
<1>2. \A c \in Cells : cell'[c] = IF c \in apart THEN "different" ELSE "unknown"
  BY <1>0 DEF AvoidDiskAccess, Filled
<1>3. ASSUME NEW i \in Files
      PROVE  DifferFrom(i)' = named(i) /\ Surplus(i)' = 0
  <2>1. ASSUME NEW k \in Others(i)
        PROVE  /\ PairOf(i, k) \in Pairs /\ PairOf(i, k) \in Cells
               /\ PairOf(i, k) \in apart <=> rel[k] # rel[i]
    BY <1>1 DEF PairOf, Pairs, Others, Cells, PreCheck
  <2>2. DifferFrom(i)' = {k \in Others(i) : cell'[PairOf(i, k)] = "different"}
    BY DEF DifferFrom, Others, PairOf, Files
  <2>3. DifferFrom(i)' = named(i)
    <3> HIDE DEF apart
    <3> QED
      BY <1>2, <2>1, <2>2
  <2>4. {p \in apart : i \in {p[1], p[2]}} = PairsOf(i, named(i))
    <3>1. ASSUME NEW p \in apart, i \in {p[1], p[2]} PROVE p \in PairsOf(i, named(i))
      <4>1. PICK k \in Others(i) : p = PairOf(i, k)
        BY <1>1, <3>1 DEF Pairs, PairOf, Others
      <4> QED
        BY <2>1, <4>1 DEF PairsOf
    <3>2. ASSUME NEW k \in named(i)
          PROVE  PairOf(i, k) \in apart /\ i \in {PairOf(i, k)[1], PairOf(i, k)[2]}
      BY <2>1 DEF PairOf
    <3> QED
      BY <3>1, <3>2 DEF PairsOf
  <2>5. /\ Cardinality(PairsOf(i, named(i))) = Cardinality(named(i))
        /\ Cardinality(named(i)) \in Nat
    BY PairsOfCount
  <2>6. equal'[i] = 0 + Cardinality({p \in apart : i \in {p[1], p[2]}})
    BY <1>0 DEF AvoidDiskAccess
  <2>7. Surplus(i)' = equal'[i] - Cardinality(named(i))
    BY <2>3 DEF Surplus
  <2>8. equal'[i] = Cardinality(named(i))
    <3>1. Cardinality({p \in apart : i \in {p[1], p[2]}}) = Cardinality(named(i))
      BY <2>4, <2>5
    <3> HIDE DEF apart, named
    <3> QED
      BY <2>5, <2>6, <3>1
  <2> QED
    BY <2>3, <2>5, <2>7, <2>8
<1>4. AheadInv'
  <2>1. \A i, j \in Files : i < j /\ Alike(i, j)' => named(j) \subseteq named(i)
    BY <1>0, <1>1 DEF Alike, Others, group
  <2>2. \A i, j \in Files : DifferFrom(i)' = named(i) /\ Surplus(j)' <= Surplus(i)'
    BY <1>3
  <2> HIDE DEF named
  <2> QED
    BY <2>1, <2>2 DEF AheadInv
<1>5. TrueDifferences'
  BY <1>0, <1>2 DEF TrueDifferences, Alike, PreCheck, group, Cells
<1>6. FailedInv'
  BY <1>0 DEF FailedInv
<1> QED
  BY <1>4, <1>5, <1>6

(* Short of descriptors and memory, every step keeps differences true.     *)
LEMMA DifferencesStep ==
  ASSUME TypeInv, TypeInv', DescriptorsInv, DifferencesInv, [Next]_vars
  PROVE  DifferencesInv'
<1> SUFFICES ASSUME Unhindered'
             PROVE  FailedInv' /\ RowsInv' /\ AheadInv' /\ FreshMatrix' /\ TrueDifferences'
  BY DEF DifferencesInv
<1>0. TypeOK
  BY DEF TypeInv
<1>1. CASE Reset
  <2>1. max' = n /\ pc' = "idle"
    BY <1>0, <1>1, NoGroupType DEF Reset
  <2> QED
    BY <1>1, <2>1 DEF Reset, FailedInv, RowsInv, AheadInv, FreshMatrix, TrueDifferences, BeforeMark
<1> SUFFICES ASSUME ~Reset
             PROVE  FailedInv' /\ RowsInv' /\ AheadInv' /\ FreshMatrix' /\ TrueDifferences'
  BY <1>1
<1>2. Unhindered
  <2>1. UNCHANGED faults \/ \E k : Fails(k)
    BY DEF Next, NextGroup, AvoidDiskAccess, Open, OpenFile, OpenNoDescriptors, OpenError,
           GetBuffer, OutOfMemory, Read, ReadHeld, ReadReopened, ReadPage, Compare, Close,
           Mark, MarkByLogic, Report, vars
  <2> QED
    BY <1>0, <2>1, FailsType DEF Unhindered, Struck, TypeOK
<1>3. FailedInv /\ RowsInv /\ AheadInv /\ FreshMatrix /\ TrueDifferences
  BY <1>2 DEF DifferencesInv
<1>4. CASE NextGroup
  BY <1>3, <1>4 DEF NextGroup, Goto, matrix, FailedInv, RowsInv, AheadInv, FreshMatrix,
                    TrueDifferences, BeforeMark
<1>5. CASE AvoidDiskAccess
  <2>1. RowsInv' /\ FreshMatrix'
    BY <1>5 DEF AvoidDiskAccess, Goto, RowsInv, FreshMatrix
  <2> QED
    BY <1>2, <1>3, <1>5, <2>1, AvoidDifferences DEF Unhindered
<1>6. CASE Open
  <2>1. pc' \in {"open", "buffer"}
    BY <1>6 DEF Open, OpenFile, OpenNoDescriptors, OpenError, Goto
  <2> QED
    BY <1>3, <1>6, <2>1, OpenDifferences DEF RowsInv, FreshMatrix
<1>7. CASE GetBuffer
  <2>1. /\ UNCHANGED <<group, cell, equal, fd, max>> /\ pc = "buffer" /\ pc' = "read" /\ row' = 0
    BY <1>7 DEF GetBuffer, matrix, Goto
  <2>2. AheadInv' /\ TrueDifferences'
    BY <1>3, <2>1, AheadStays DEF BeforeMark
  <2>3. \A i \in Files : ~(i < row')
    BY <2>1, GroupAssumption DEF Files
  <2>4. FailedInv'
    BY <1>3, <2>1, <2>3 DEF FailedInv, Alive, Lone, Get, Slot, group
  <2> QED
    BY <2>1, <2>2, <2>4 DEF RowsInv, FreshMatrix
<1>8. CASE OutOfMemory
  BY <1>0, <1>8, FailsType DEF OutOfMemory, Unhindered, TypeOK
<1>9. CASE Read
  <2>1. pc' \in {"read", "compare", "crashed"}
    BY <1>9, ReadDescriptors
  <2> QED
    BY <1>3, <1>9, <2>1, ReadDifferences DEF FreshMatrix
<1>10. CASE Compare
  <2>1. pc' \in {"read", "compare", "close"}
    BY <1>10 DEF Compare, Goto
  <2> QED
    BY <1>3, <1>10, <2>1, CompareDifferences DEF FreshMatrix
<1>11. CASE Close
  <2>1. UNCHANGED <<group, cell, equal>> /\ pc = "close" /\ pc' = "mark"
    BY <1>11 DEF Close, Goto
  <2>2. AheadInv' /\ TrueDifferences'
    BY <1>3, <2>1, AheadStays DEF BeforeMark
  <2> QED
    BY <2>1, <2>2 DEF FailedInv, RowsInv, FreshMatrix
<1>12. CASE Mark \/ MarkByLogic \/ Report
  <2>1. pc' \in {"logic", "report", "done"}
    BY <1>12 DEF Mark, MarkByLogic, Report, Goto
  <2> QED
    BY <2>1 DEF FailedInv, RowsInv, AheadInv, FreshMatrix, TrueDifferences, BeforeMark
<1>13. CASE UNCHANGED vars
  <2>1. FailedInv' /\ RowsInv'
    BY <1>3, <1>13 DEF vars, group, matrix, FailedInv, RowsInv, Alive, Get, Slot, Lone
  <2>2. AheadInv' /\ TrueDifferences'
    <3>1. CASE pc \in BeforeMark
      BY <1>3, <1>13, <3>1, AheadStays DEF vars, matrix
    <3>2. CASE pc \notin BeforeMark
      BY <1>13, <3>2 DEF vars, AheadInv, TrueDifferences
    <3> QED
      BY <3>1, <3>2
  <2>3. FreshMatrix'
    BY <1>3, <1>13 DEF vars, matrix, FreshMatrix
  <2> QED
    BY <2>1, <2>2, <2>3
<1> QED
  BY <1>4, <1>5, <1>6, <1>7, <1>8, <1>9, <1>10, <1>11, <1>12, <1>13 DEF Next

(* So differences are true always.                                         *)
LEMMA DifferencesAlways == Spec => []DifferencesInv
<1>1. Init => DifferencesInv
  BY DEF Init, DifferencesInv, FailedInv, RowsInv, AheadInv, FreshMatrix, TrueDifferences,
         BeforeMark
<1> QED
  BY <1>1, DifferencesStep, TypeAlways, DescriptorsAlways, PTL DEF Spec

(* Two files are told apart only if they differ, also after other files    *)
(* could not be opened or read: an old page in a buffer is never compared  *)
(* with a file that the buffer's owner is like (readOnlyOncesCompare).     *)
THEOREM DifferencesAreTrue == Spec => []DifferentIsTrue
<1>1. DifferencesInv => DifferentIsTrue
  BY DEF DifferencesInv, TrueDifferences, DifferentIsTrue, Unhindered, BeforeMark
<1> QED
  BY <1>1, DifferencesAlways, PTL
===============================================================================
