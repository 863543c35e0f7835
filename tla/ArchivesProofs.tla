----------------------------- MODULE ArchivesProofs ---------------------------
(***************************************************************************)
(* samearchive-lite behind fsort: the types; that a line is about files    *)
(* that were alike, whatever is in the cache; that larger files come first *)
(* as long as fsort's comparison does not contradict itself; and that      *)
(* every pair of counterparts is reported when nothing is written to.      *)
(***************************************************************************)
EXTENDS Archives, SequenceTheorems, WellFoundedInduction, TLAPS

-------------------------------------------------------------------------------
(* Lite.  What was remembered as identical was alike once.                 *)
CacheTrue ==
  \A s \in Slots :
    cache[s].pair \in Pairs /\ cache[s].result = "identical" => cache[s].pair \in alike

LiteInv ==
  /\ TypeOK
  /\ pc = "compare" => Wanted(f1)
  /\ Alike(content) \subseteq alike
  /\ CacheTrue
  /\ ReportedWereAlike

(* Two different files of one size, one with the name that was read.       *)
LEMMA ComparedPair ==
  ASSUME TypeOK, pc = "compare", Wanted(f1), NEW f2 \in Names, Comparable(f2)
  PROVE  <<InodeOf[f1], InodeOf[f2]>> \in Pairs
<1>1. InodeOf[f1] \in Inodes /\ InodeOf[f2] \in Inodes
  BY LiteAssumption DEF TypeOK, Comparable, IsFile
<1>2. QED
  BY <1>1 DEF Pairs

(* A result that reaches the report is remembered or was just found, and   *)
(* in both cases the pair was alike.                                       *)
LEMMA AnswerTrue ==
  ASSUME LiteInv, pc = "compare", NEW f2 \in Names, Comparable(f2), ~Double(k),
         f2 = Moved(f1, Archive(1), Archive(k)),
         CompareWith(f2), UNCHANGED <<content, f1, alike>>
  PROVE  /\ report' \in Seq([f1 : Names, f2 : Names])
         /\ cache' \in [Slots -> [pair : Pairs, result : Results] \cup {NoEntry}]
         /\ calm' \in BOOLEAN
         /\ CacheTrue'
         /\ ReportedWereAlike'
<1> DEFINE p == <<InodeOf[f1], InodeOf[f2]>>
           line == [f1 |-> f1, f2 |-> f2]
<1>1. p \in Pairs /\ f1 \in Names /\ Wanted(f1) /\ TypeOK
  BY ComparedPair DEF LiteInv, TypeOK
<1>2. Slot(p) \in Slots
  BY <1>1, LiteAssumption DEF Pairs
<1>3. p # NoEntry.pair
  BY <1>1, LiteAssumption DEF Pairs, NoEntry
<1>4. ASSUME p \in alike, report' = Append(report, line)
      PROVE  /\ report' \in Seq([f1 : Names, f2 : Names])
             /\ ReportedWereAlike'
  <2>1. report \in Seq([f1 : Names, f2 : Names]) /\ line \in [f1 : Names, f2 : Names]
    BY <1>1 DEF TypeOK
  <2>2. /\ report' \in Seq([f1 : Names, f2 : Names])
        /\ Len(report') = Len(report) + 1
        /\ DOMAIN report' = 1 .. Len(report) + 1
        /\ \A m \in 1 .. Len(report) : report'[m] = report[m]
        /\ report'[Len(report) + 1] = line
    BY <1>4, <2>1, AppendProperties
  <2>3. Wanted(line.f1) /\ line.f1 = f1 /\ line.f2 = f2
    BY <1>1
  <2>4. \E j \in 2 .. Len(Arguments) :
          ~Double(j) /\ line.f2 = Moved(line.f1, Archive(1), Archive(j))
    BY <1>1, <2>3 DEF TypeOK
  <2>5. InodeOf[line.f1] # InodeOf[line.f2]
    BY <2>3 DEF Comparable
  <2>6. ASSUME NEW m \in DOMAIN report'
        PROVE  LET l == report'[m]
               IN /\ Wanted(l.f1)
                  /\ \E j \in 2 .. Len(Arguments) :
                       ~Double(j) /\ l.f2 = Moved(l.f1, Archive(1), Archive(j))
                  /\ InodeOf[l.f1] # InodeOf[l.f2]
                  /\ <<InodeOf[l.f1], InodeOf[l.f2]>> \in alike'
    <3>1. CASE m = Len(report) + 1
      BY <3>1, <2>2, <2>3, <2>4, <2>5, <1>4
    <3>2. CASE m # Len(report) + 1
      <4>1. Len(report) \in Nat /\ DOMAIN report = 1 .. Len(report)
        BY <2>1
      <4>2. m \in DOMAIN report /\ report'[m] = report[m]
        BY <3>2, <4>1, <2>2
      <4>3. QED
        BY <4>2 DEF LiteInv, ReportedWereAlike
    <3>3. QED
      BY <3>1, <3>2
  <2>7. QED
    BY <2>2, <2>6 DEF ReportedWereAlike, Wanted, IsFile, Double, Archive
<1>5. ASSUME UNCHANGED report
      PROVE  /\ report' \in Seq([f1 : Names, f2 : Names])
             /\ ReportedWereAlike'
  BY <1>5, <1>1 DEF LiteInv, TypeOK, ReportedWereAlike, Wanted, IsFile, Double, Archive
<1>6. CASE Remembered(p) /\ Answer(f2, cache[Slot(p)].result) /\ UNCHANGED <<cache, calm>>
  <2>1. cache[Slot(p)].result = "identical" => p \in alike
    BY <1>1, <1>2, <1>6 DEF LiteInv, CacheTrue, Remembered
  <2>2. CacheTrue'
    BY <1>6 DEF LiteInv, CacheTrue
  <2>3. QED
    BY <2>1, <2>2, <1>1, <1>4, <1>5, <1>6 DEF Answer, TypeOK
<1>7. ASSUME NEW result \in Results,
             Fcmp(p, result),
             cache' = [cache EXCEPT ![Slot(p)] = [pair |-> p, result |-> result]],
             calm' = (calm /\ result # "error"),
             Answer(f2, result)
      PROVE  /\ report' \in Seq([f1 : Names, f2 : Names])
             /\ cache' \in [Slots -> [pair : Pairs, result : Results] \cup {NoEntry}]
             /\ calm' \in BOOLEAN
             /\ CacheTrue'
             /\ ReportedWereAlike'
  <2>1. result = "identical" => p \in alike
    BY <1>1, <1>7 DEF Fcmp, Alike, Comparable, LiteInv
  <2>2. [pair |-> p, result |-> result] \in [pair : Pairs, result : Results]
    BY <1>1
  <2>3. cache' \in [Slots -> [pair : Pairs, result : Results] \cup {NoEntry}]
    BY <1>1, <1>2, <1>7, <2>2 DEF TypeOK
  <2>4. CacheTrue'
    BY <1>1, <1>2, <1>7, <2>1 DEF LiteInv, CacheTrue, TypeOK
  <2>5. calm' \in BOOLEAN
    BY <1>7
  <2>6. QED
    BY <2>1, <2>3, <2>4, <2>5, <1>4, <1>5, <1>7 DEF Answer
<1>8. QED
  BY <1>6, <1>7 DEF CompareWith

(* Nothing is remembered or reported at first.                             *)
LEMMA LiteInvInit == Init => LiteInv
<1> SUFFICES ASSUME Init PROVE LiteInv
  OBVIOUS
<1>1. TypeOK
  BY LiteAssumption DEF Init, TypeOK, Alike
<1>2. CacheTrue
  BY LiteAssumption DEF Init, CacheTrue, NoEntry, Pairs
<1>3. QED
  BY <1>1, <1>2 DEF Init, LiteInv, ReportedWereAlike

(* Every step of samearchive-lite, and of the writers, keeps the invariant.*)
LEMMA LiteInvNext == LiteInv /\ [Next]_vars => LiteInv'
<1> SUFFICES ASSUME LiteInv, [Next]_vars PROVE LiteInv'
  OBVIOUS
<1> USE DEF LiteInv
<1>1. ASSUME NEW n \in Names, ReadPath(n) PROVE LiteInv'
  <2>1. /\ UNCHANGED <<content, cache, report, alike, calm>>
        /\ TypeOK'
        /\ pc' = "compare" => Wanted(f1)'
    BY <1>1, LiteAssumption DEF ReadPath, TypeOK, Wanted, IsFile, Archive
  <2>2. QED
    BY <2>1 DEF Alike, CacheTrue, ReportedWereAlike, Wanted, IsFile, Double, Archive
<1>2. CASE EndOfInput
  BY <1>2 DEF EndOfInput, TypeOK, Alike, CacheTrue, ReportedWereAlike, Wanted, IsFile,
       Double, Archive
<1>3. CASE Compare
  <2> DEFINE f2 == Moved(f1, Archive(1), Archive(k))
  <2>1. f1 \in Names /\ Wanted(f1) /\ k \in 2 .. Len(Arguments) /\ pc = "compare"
    BY <1>3 DEF Compare, TypeOK
  <2>2. f2 \in Names
    BY <2>1, MovedAssumption DEF Wanted
  <2>3. /\ report' \in Seq([f1 : Names, f2 : Names])
        /\ cache' \in [Slots -> [pair : Pairs, result : Results] \cup {NoEntry}]
        /\ calm' \in BOOLEAN
        /\ CacheTrue'
        /\ ReportedWereAlike'
    <3>1. CASE ~Double(k) /\ Comparable(f2) /\ CompareWith(f2)
      BY <3>1, <2>1, <2>2, <1>3, AnswerTrue DEF Compare
    <3>2. CASE UNCHANGED <<cache, calm, report>>
      BY <3>2, <1>3 DEF Compare, TypeOK, CacheTrue, ReportedWereAlike, Wanted, IsFile,
           Double, Archive
    <3>3. QED
      BY <1>3, <3>1, <3>2 DEF Compare
  <2>4. k' \in 2 .. Len(Arguments) /\ pc' \in {"read", "compare"}
    BY <1>3, <2>1, LiteAssumption DEF Compare, Advance
  <2>5. UNCHANGED <<content, f1, alike>>
    BY <1>3 DEF Compare
  <2>6. TypeOK'
    BY <2>1, <2>3, <2>4, <2>5 DEF TypeOK
  <2>7. QED
    BY <2>1, <2>3, <2>5, <2>6 DEF Alike, Wanted, IsFile, Archive
<1>4. ASSUME NEW i \in Shared, Write(i) PROVE LiteInv'
  <2>1. UNCHANGED <<pc, f1, k, cache, report>> /\ alike \subseteq alike' /\ calm' = FALSE
    BY <1>4 DEF Write
  <2>2. content' \in [Inodes -> Contents] /\ alike' \subseteq Pairs
    BY <1>4, LiteAssumption DEF Write, TypeOK, Alike
  <2>3. TypeOK'
    BY <2>1, <2>2 DEF TypeOK
  <2>4. Alike(content)' \subseteq alike'
    BY <1>4 DEF Write, Alike
  <2>5. QED
    BY <2>1, <2>3, <2>4 DEF CacheTrue, ReportedWereAlike, Wanted, IsFile, Double, Archive
<1>5. CASE UNCHANGED vars
  BY <1>5 DEF vars, TypeOK, Alike, CacheTrue, ReportedWereAlike, Wanted, IsFile, Double,
       Archive
<1>6. QED
  BY <1>1, <1>2, <1>3, <1>4, <1>5 DEF Next

-------------------------------------------------------------------------------
(* samearchive-lite takes its names from fsort, and otherwise does what    *)
(* Lite allows: every step of the two programs is a step of Lite or leaves *)
(* its variables alone.                                                    *)
LEMMA LiteSimulated == ArchivesTypeOK /\ [ArchivesNext]_allVars => [Next]_vars
<1> SUFFICES ASSUME ArchivesTypeOK, [ArchivesNext]_allVars PROVE [Next]_vars
  OBVIOUS
<1>1. CASE FsortStep
  BY <1>1 DEF FsortStep
<1>2. CASE TakeName
  <2>1. stdout[taken + 1] \in Names
    BY <1>2 DEF TakeName, ArchivesTypeOK, F!FsortTypeOK
  <2>2. QED
    BY <1>2, <2>1 DEF TakeName, Next
<1>3. CASE End
  BY <1>3 DEF End, Next
<1>4. CASE LiteStep
  BY <1>4 DEF LiteStep, Next
<1>5. CASE WriteStep
  BY <1>5 DEF WriteStep, Next
<1>6. CASE UNCHANGED allVars
  BY <1>6 DEF allVars, vars
<1>7. QED
  BY <1>1, <1>2, <1>3, <1>4, <1>5, <1>6 DEF ArchivesNext

(* A name more on the standard output.                                     *)
LEMMA PrintedName ==
  ASSUME stdout \in Seq(Names), taken \in 0 .. Len(stdout), taken' = taken,
         NEW n \in Names, F!Printed(n)
  PROVE  stdout' \in Seq(Names) /\ taken' \in 0 .. Len(stdout')
<1>1. stdout' \in Seq(Names) /\ Len(stdout') = Len(stdout) + 1
  BY AppendProperties DEF F!Printed
<1>2. QED
  BY <1>1

(* Sorting rearranges the names that are held.                             *)
LEMMA ArrangedNames ==
  ASSUME arr \in Seq(Existing), NEW s \in F!Arrangements
  PROVE  s \in Seq(Existing)
<1>1. PICK order \in F!Bijection(DOMAIN arr, DOMAIN arr) : s = F!Arranged(order)
  BY DEF F!Arrangements
<1>2. order \in [DOMAIN arr -> DOMAIN arr] /\ DOMAIN arr = 1 .. Len(arr)
  BY <1>1 DEF F!Bijection, F!Injection
<1>3. s \in [1 .. Len(arr) -> Existing]
  BY <1>1, <1>2, ElementOfSeq DEF F!Arranged
<1>4. QED
  BY <1>3, SeqDef

(* fsort keeps the types.                                                  *)
LEMMA FsortTyped ==
  ASSUME ArchivesTypeOK, FsortStep
  PROVE  F!FsortTypeOK' /\ taken' \in 0 .. Len(stdout')
<1> USE DEF F!FsortTypeOK
<1>1. /\ F!FsortTypeOK /\ taken \in 0 .. Len(stdout)
      /\ toFile' = toFile /\ taken' = taken
  BY DEF ArchivesTypeOK, FsortStep, F!FsortStep
<1>2. Existing \subseteq Names
  BY DEF Existing
<1>3. CASE F!ReadName
  <2>1. Head(input) \in Names /\ input' \in Seq(Names)
    BY <1>1, <1>3, HeadTailProperties DEF F!ReadName
  <2>2. arr' \in Seq(Existing)
    <3>1. CASE UNCHANGED arr
      BY <3>1, <1>1
    <3>2. CASE Head(input) \in Existing /\ arr' = Append(arr, Head(input))
      BY <3>2, <1>1, AppendProperties
    <3>3. QED
      BY <1>3, <3>1, <3>2 DEF F!ReadName
  <2>3. stdout' \in Seq(Names) /\ taken' \in 0 .. Len(stdout')
    BY <1>1, <1>3, <2>1, PrintedName DEF F!ReadName
  <2>4. QED
    BY <1>1, <1>3, <2>1, <2>2, <2>3 DEF F!ReadName
<1>4. CASE F!Sort
  BY <1>1, <1>4, ArrangedNames DEF F!Sort
<1>5. CASE F!PrintLast
  <2>1. Len(arr) \in Nat /\ Len(arr) > 0 /\ arr[Len(arr)] \in Names
    BY <1>1, <1>2, <1>5, EmptySeq, ElementOfSeq DEF F!PrintLast
  <2>2. SubSeq(arr, 1, Len(arr) - 1) \in Seq(Existing)
    BY <1>1, <2>1, SubSeqProperties
  <2>3. stdout' \in Seq(Names) /\ taken' \in 0 .. Len(stdout')
    BY <1>1, <1>5, <2>1, PrintedName DEF F!PrintLast
  <2>4. file' \in Seq(Names)
    <3>1. CASE UNCHANGED file
      BY <3>1, <1>1
    <3>2. CASE file' = Append(file, arr[Len(arr)])
      BY <3>2, <1>1, <2>1, AppendProperties
    <3>3. QED
      BY <1>5, <3>1, <3>2 DEF F!PrintLast
  <2>5. QED
    BY <1>1, <1>5, <2>2, <2>3, <2>4 DEF F!PrintLast
<1>6. CASE F!Exit
  BY <1>1, <1>6 DEF F!Exit
<1>7. QED
  BY <1>3, <1>4, <1>5, <1>6 DEF FsortStep, F!FsortStep

Inv == ArchivesTypeOK /\ LiteInv

(* Both programs start with their types.                                   *)
LEMMA InvInit == ArchivesInit => Inv
<1> SUFFICES ASSUME ArchivesInit PROVE Inv
  OBVIOUS
<1>1. LiteInv
  BY LiteInvInit DEF ArchivesInit
<1>2. F!FsortTypeOK /\ taken \in 0 .. Len(stdout)
  BY ArchivesAssumption DEF ArchivesInit, F!FsortInit, F!FsortTypeOK
<1>3. QED
  BY <1>1, <1>2 DEF Inv, LiteInv, ArchivesTypeOK

(* Every step of the two programs keeps both invariants.                   *)
LEMMA InvNext == Inv /\ [ArchivesNext]_allVars => Inv'
<1> SUFFICES ASSUME Inv, [ArchivesNext]_allVars PROVE Inv'
  OBVIOUS
<1>1. LiteInv'
  BY LiteSimulated, LiteInvNext DEF Inv
<1>2. F!FsortTypeOK' /\ taken' \in 0 .. Len(stdout')
  <2>1. CASE FsortStep
    BY <2>1, FsortTyped DEF Inv
  <2>2. CASE TakeName
    <3>1. taken \in 0 .. Len(stdout) /\ Len(stdout) \in Nat /\ taken < Len(stdout)
      BY <2>2 DEF Inv, ArchivesTypeOK, F!FsortTypeOK, TakeName
    <3>2. taken' = taken + 1 /\ UNCHANGED fsort
      BY <2>2 DEF TakeName
    <3>3. QED
      BY <3>1, <3>2 DEF Inv, ArchivesTypeOK, F!FsortTypeOK, fsort
  <2>3. CASE UNCHANGED <<fsort, taken>>
    BY <2>3 DEF Inv, ArchivesTypeOK, F!FsortTypeOK, fsort
  <2>4. QED
    BY <2>1, <2>2, <2>3 DEF ArchivesNext, End, LiteStep, WriteStep, allVars
<1>3. QED
  BY <1>1, <1>2 DEF Inv, LiteInv, ArchivesTypeOK

(* fsort and samearchive-lite keep the types of their variables, whatever  *)
(* the names, the sizes and the order that qsort leaves (fsort.cpp,        *)
(* samearchive-lite.cpp).                                                  *)
THEOREM TypesKept == ArchivesSpec => []ArchivesTypeOK
<1>1. Inv => ArchivesTypeOK
  BY DEF Inv
<1>2. QED
  BY InvInit, InvNext, <1>1, PTL DEF ArchivesSpec

(* The pipeline implements samearchive-lite alone: what is proved of Lite  *)
(* holds behind fsort.                                                     *)
THEOREM ArchivesImplementLite == ArchivesSpec => Spec
<1>1. ArchivesInit => Init
  BY DEF ArchivesInit
<1>2. Inv /\ [ArchivesNext]_allVars => [Next]_vars
  BY LiteSimulated DEF Inv
<1>3. QED
  BY InvInit, InvNext, <1>1, <1>2, PTL DEF ArchivesSpec, Spec

(* samearchive-lite reports only different files that were alike while it  *)
(* ran, one of them where the other one's name under another directory     *)
(* leads, for any cache, files and writers (samearchive-lite.cpp).         *)
THEOREM OnlyAlikeReported == Spec => []ReportedWereAlike
<1>1. LiteInv => ReportedWereAlike
  BY DEF LiteInv
<1>2. QED
  BY LiteInvInit, LiteInvNext, <1>1, PTL DEF Spec
-------------------------------------------------------------------------------
(* The order of the report.                                                *)

In(x, s) == \E i \in DOMAIN s : s[i] = x

(* Where the names are: what was found is still to be read, is printed, or *)
(* without -o is held, and what is reported was printed.                   *)
NamesInv ==
  /\ found \in Seq(Names)
  /\ \A x : In(x, input) \/ In(x, arr) \/ In(x, stdout) => In(x, found)
  /\ \A x : In(x, found) => In(x, input) \/ In(x, stdout) \/ (~toFile /\ In(x, arr))
  /\ stage # "reading" => input = <<>>
  /\ stage = "done" => arr = <<>>
  /\ pc = "ended" => stage = "done" /\ taken = Len(stdout)
  /\ pc = "compare" => taken > 0 /\ f1 = stdout[taken]
  /\ \A m \in DOMAIN report : \E i \in 1 .. taken : report[m].f1 = stdout[i]

(* Neither of two entries is behind the other one for the sort.            *)
Le(x, y) == F!EntryCmp(EntryOf[x], EntryOf[y]) <= 0

SizeOf(x) == Size[InodeOf[x]]

(* Until they are sorted, the names that are held can be; then they are,   *)
(* and what is printed goes on with the largest of them.                   *)
SortInv ==
  ~toFile /\ AllFoundNear =>
    /\ stage = "reading" =>
         \E order \in F!Bijection(DOMAIN arr, DOMAIN arr) : F!InOrder(F!Arranged(order))
    /\ stage = "reading" => \A x \in Existing : ~In(x, stdout)
    /\ stage # "reading" => F!InOrder(arr)
    /\ \A x, y \in Existing : In(x, stdout) /\ In(y, arr) => SizeOf(x) >= SizeOf(y)
    /\ \A i, j \in DOMAIN stdout :
         i < j /\ stdout[i] \in Existing /\ stdout[j] \in Existing =>
           SizeOf(stdout[i]) >= SizeOf(stdout[j])

OrderInv == Inv /\ NamesInv /\ SortInv /\ ReportSorted

-------------------------------------------------------------------------------
(* The completeness of the report.                                         *)

(* The name under another directory, and whether it is that of a file that *)
(* is identical.                                                           *)
Other(x, j) == Moved(x, Archive(1), Archive(j))

Matching(x, j) ==
  /\ Wanted(x) /\ ~Double(j)
  /\ IsFile(Other(x, j)) /\ InodeOf[x] # InodeOf[Other(x, j)]
  /\ <<InodeOf[x], InodeOf[Other(x, j)]>> \in Alike(content)

(* As long as no file is written to and every read succeeds, what is       *)
(* remembered is so, and every pair that was looked at and is identical is *)
(* in the report.                                                          *)
CalmInv ==
  calm =>
    /\ alike = Alike(content)
    /\ \A s \in Slots :
         cache[s].pair \in Pairs =>
           LET p == cache[s].pair
           IN cache[s].result = IF content[p[1]] = content[p[2]] THEN "identical" ELSE "different"
    /\ \A i \in 1 .. taken, j \in 2 .. Len(Arguments), x \in Names :
         x = stdout[i] /\ Matching(x, j) /\ ~(pc = "compare" /\ i = taken /\ j >= k) =>
           In([f1 |-> x, f2 |-> Other(x, j)], report)

FilesReported == \A m \in DOMAIN report : IsFile(report[m].f2)

CompleteInv == Inv /\ NamesInv /\ CalmInv /\ FilesReported
(* What is in a sequence that grows, and in one that shrinks at either end.*)
LEMMA InAppend ==
  ASSUME NEW S, NEW s \in Seq(S), NEW e \in S, NEW x
  PROVE  In(x, Append(s, e)) <=> In(x, s) \/ x = e
<1>1. DOMAIN s = 1 .. Len(s) /\ DOMAIN Append(s, e) = 1 .. Len(s) + 1 /\ Len(s) \in Nat
  BY AppendProperties, LenProperties
<1>2. /\ \A i \in 1 .. Len(s) : Append(s, e)[i] = s[i]
      /\ Append(s, e)[Len(s) + 1] = e
  BY AppendProperties
<1> QED
  BY <1>1, <1>2 DEF In

(* The first one is taken away.                                            *)
LEMMA InTail ==
  ASSUME NEW S, NEW s \in Seq(S), s # <<>>, NEW x
  PROVE  In(x, s) <=> In(x, Tail(s)) \/ x = Head(s)
<1>1. /\ DOMAIN s = 1 .. Len(s) /\ DOMAIN Tail(s) = 1 .. Len(s) - 1
      /\ Len(s) \in Nat /\ Len(s) > 0 /\ Head(s) = s[1]
  BY HeadTailProperties, LenProperties, EmptySeq
<1>2. \A i \in 1 .. Len(s) - 1 : Tail(s)[i] = s[i + 1]
  BY <1>1, HeadTailProperties
<1>3. ASSUME NEW i \in 1 .. Len(s) PROVE i = 1 \/ s[i] = Tail(s)[i - 1]
  BY <1>1, <1>2
<1>4. ASSUME NEW i \in 1 .. Len(s) - 1 PROVE i + 1 \in 1 .. Len(s) /\ s[i + 1] = Tail(s)[i]
  BY <1>1, <1>2
<1>5. ASSUME In(x, s) PROVE In(x, Tail(s)) \/ x = Head(s)
  <2>1. PICK i \in 1 .. Len(s) : s[i] = x
    BY <1>1, <1>5 DEF In
  <2>2. CASE i = 1
    BY <1>1, <2>1, <2>2
  <2>3. CASE i # 1
    <3>1. i - 1 \in 1 .. Len(s) - 1
      BY <1>1, <2>3
    <3> QED
      BY <1>1, <1>3, <2>1, <2>3, <3>1 DEF In
  <2> QED
    BY <2>2, <2>3
<1>6. ASSUME In(x, Tail(s)) \/ x = Head(s) PROVE In(x, s)
  BY <1>1, <1>4, <1>6 DEF In
<1> QED
  BY <1>5, <1>6

(* The last one is taken away.                                             *)
LEMMA InFront ==
  ASSUME NEW S, NEW s \in Seq(S), s # <<>>, NEW x
  PROVE  /\ Len(s) \in Nat /\ Len(s) > 0 /\ s[Len(s)] \in S
         /\ DOMAIN SubSeq(s, 1, Len(s) - 1) = 1 .. Len(s) - 1
         /\ \A i \in 1 .. Len(s) - 1 : SubSeq(s, 1, Len(s) - 1)[i] = s[i]
         /\ In(x, s) <=> In(x, SubSeq(s, 1, Len(s) - 1)) \/ x = s[Len(s)]
<1> DEFINE front == SubSeq(s, 1, Len(s) - 1)
<1>1. /\ DOMAIN s = 1 .. Len(s) /\ Len(s) \in Nat /\ Len(s) > 0
      /\ \A i \in 1 .. Len(s) : s[i] \in S
  BY LenProperties, EmptySeq, ElementOfSeq
<1>2. /\ front \in Seq(S) /\ Len(front) = Len(s) - 1
      /\ \A i \in 1 .. Len(s) - 1 : front[i] = s[i]
  BY <1>1, SubSeqProperties
<1>3. DOMAIN front = 1 .. Len(s) - 1
  BY <1>2, LenProperties
<1> HIDE DEF front
<1>4. In(x, s) <=> In(x, front) \/ x = s[Len(s)]
  BY <1>1, <1>2, <1>3 DEF In
<1> QED
  BY <1>1, <1>2, <1>3, <1>4 DEF front

(* qsort's result has the names that were held.                            *)
LEMMA InArrangement ==
  ASSUME arr \in Seq(Existing), NEW s \in F!Arrangements, NEW x
  PROVE  In(x, s) <=> In(x, arr)
<1>1. PICK order \in F!Bijection(DOMAIN arr, DOMAIN arr) : s = F!Arranged(order)
  BY DEF F!Arrangements
<1>2. /\ order \in [DOMAIN arr -> DOMAIN arr]
      /\ \A j \in DOMAIN arr : \E i \in DOMAIN arr : order[i] = j
  BY <1>1 DEF F!Bijection, F!Injection, F!Surjection
<1>3. DOMAIN s = DOMAIN arr /\ \A i \in DOMAIN arr : s[i] = arr[order[i]]
  BY <1>1 DEF F!Arranged
<1> QED
  BY <1>2, <1>3 DEF In

(* A name more on the standard output: those before it stay where they are.*)
LEMMA PrintedAt ==
  ASSUME stdout \in Seq(Names), NEW n \in Names, F!Printed(n)
  PROVE  /\ Len(stdout) \in Nat /\ DOMAIN stdout = 1 .. Len(stdout)
         /\ DOMAIN stdout' = 1 .. Len(stdout) + 1 /\ Len(stdout') = Len(stdout) + 1
         /\ \A i \in 1 .. Len(stdout) : stdout'[i] = stdout[i]
         /\ stdout'[Len(stdout) + 1] = n
         /\ \A x : In(x, stdout)' <=> In(x, stdout) \/ x = n
<1>1. stdout' = Append(stdout, n)
  BY DEF F!Printed
<1>2. Len(stdout) \in Nat /\ DOMAIN stdout = 1 .. Len(stdout)
  BY LenProperties
<1>3. /\ DOMAIN stdout' = 1 .. Len(stdout) + 1 /\ Len(stdout') = Len(stdout) + 1
      /\ \A i \in 1 .. Len(stdout) : stdout'[i] = stdout[i]
      /\ stdout'[Len(stdout) + 1] = n
  BY <1>1, AppendProperties, LenProperties
<1>4. \A x : In(x, Append(stdout, n)) <=> In(x, stdout) \/ x = n
  BY InAppend
<1>5. \A x : In(x, stdout)' <=> In(x, Append(stdout, n))
  BY <1>1 DEF In
<1> QED
  BY <1>2, <1>3, <1>4, <1>5

(* The standard output only grows.                                         *)
LEMMA OutputGrows ==
  ASSUME Inv, FsortStep
  PROVE  /\ Len(stdout) \in Nat /\ Len(stdout') \in Nat /\ Len(stdout) <= Len(stdout')
         /\ \A i \in 1 .. Len(stdout) : stdout'[i] = stdout[i]
<1>1. /\ stdout \in Seq(Names) /\ input \in Seq(Names) /\ arr \in Seq(Existing)
      /\ Existing \subseteq Names
  BY DEF Inv, ArchivesTypeOK, F!FsortTypeOK, Existing
<1>2. CASE UNCHANGED stdout
  BY <1>1, <1>2
<1>3. ASSUME NEW n \in Names, F!Printed(n)
      PROVE  /\ Len(stdout) \in Nat /\ Len(stdout') \in Nat /\ Len(stdout) <= Len(stdout')
             /\ \A i \in 1 .. Len(stdout) : stdout'[i] = stdout[i]
  BY <1>1, <1>3, PrintedAt
<1>4. CASE F!ReadName
  <2>1. Head(input) \in Names
    BY <1>1, <1>4, HeadTailProperties DEF F!ReadName
  <2> QED
    BY <1>2, <1>3, <1>4, <2>1 DEF F!ReadName
<1>5. CASE F!PrintLast
  <2>1. arr[Len(arr)] \in Names
    BY <1>1, <1>5, InFront DEF F!PrintLast
  <2> QED
    BY <1>2, <1>3, <1>5, <2>1 DEF F!PrintLast
<1> QED
  BY <1>2, <1>4, <1>5 DEF FsortStep, F!FsortStep, F!Sort, F!Exit
(* What a comparison may do to the report.                                 *)
LEMMA ComparisonReports ==
  ASSUME Inv, LiteStep
  PROVE  /\ pc = "compare" /\ f1 \in Names /\ f1' = f1 /\ pc' \in {"read", "compare"}
         /\ report \in Seq([f1 : Names, f2 : Names])
         /\ UNCHANGED <<fsort, taken, found>>
         /\ \/ UNCHANGED report
            \/ /\ Other(f1, k) \in Names /\ IsFile(Other(f1, k))
               /\ report' = Append(report, [f1 |-> f1, f2 |-> Other(f1, k)])
<1>1. /\ pc = "compare" /\ f1 \in Names /\ k \in 2 .. Len(Arguments)
      /\ report \in Seq([f1 : Names, f2 : Names])
  BY DEF Inv, ArchivesTypeOK, TypeOK, LiteStep, Compare
<1>2. Other(f1, k) \in Names
  BY <1>1, MovedAssumption DEF Inv, LiteInv, Wanted, Other
<1>3. f1' = f1 /\ pc' \in {"read", "compare"} /\ UNCHANGED <<fsort, taken, found>>
  BY <1>1 DEF LiteStep, Compare, Advance
<1>4. \/ UNCHANGED report
      \/ /\ IsFile(Other(f1, k))
         /\ report' = Append(report, [f1 |-> f1, f2 |-> Other(f1, k)])
  BY DEF LiteStep, Compare, CompareWith, Answer, Comparable, Other
<1> QED
  BY <1>1, <1>2, <1>3, <1>4

(* At first all names are still to be read.                                *)
LEMMA NamesInit == ArchivesInit => NamesInv
<1> SUFFICES ASSUME ArchivesInit PROVE NamesInv
  OBVIOUS
<1>1. /\ found = input /\ found \in Seq(Names) /\ arr = <<>> /\ stdout = <<>>
      /\ stage = "reading" /\ pc = "read" /\ report = <<>> /\ taken = 0
  BY ArchivesAssumption DEF ArchivesInit, F!FsortInit, Init
<1>2. \A x : ~In(x, arr) /\ ~In(x, stdout)
  BY <1>1 DEF In
<1> QED
  BY <1>1, <1>2 DEF NamesInv

(* fsort moves the names on, and loses none.                               *)
LEMMA NamesMove ==
  ASSUME Inv, NamesInv, FsortStep
  PROVE  /\ \A x : (In(x, input) \/ In(x, arr) \/ In(x, stdout))' => In(x, found)
         /\ \A x : In(x, found) => (In(x, input) \/ In(x, stdout) \/ (~toFile /\ In(x, arr)))'
         /\ stage' # "reading" => input' = <<>>
         /\ stage' = "done" => arr' = <<>>
<1>1. /\ stdout \in Seq(Names) /\ input \in Seq(Names) /\ arr \in Seq(Existing)
      /\ Existing \subseteq Names /\ toFile' = toFile
  BY DEF Inv, ArchivesTypeOK, F!FsortTypeOK, Existing, FsortStep, F!FsortStep
<1>2. ASSUME NEW n \in Names, F!Printed(n)
      PROVE  \A x : In(x, stdout)' <=> In(x, stdout) \/ x = n
  BY <1>1, <1>2, PrintedAt
<1>3. CASE F!ReadName
  <2> DEFINE n == Head(input)
  <2>1. /\ n \in Names /\ input' = Tail(input) /\ stage = "reading" /\ stage' = stage
        /\ \A x : In(x, input) <=> In(x, Tail(input)) \/ x = n
    BY <1>1, <1>3, HeadTailProperties, InTail DEF F!ReadName
  <2>2. \A x : In(x, input) <=> In(x, input)' \/ x = n
    BY <2>1 DEF In
  <2>3. CASE F!Printed(n) /\ UNCHANGED arr
    <3>1. \A x : In(x, arr)' <=> In(x, arr)
      BY <2>3 DEF In
    <3> QED
      BY <1>1, <1>2, <2>1, <2>2, <2>3, <3>1 DEF NamesInv
  <2>4. CASE n \in Existing /\ arr' = Append(arr, n) /\ toFile /\ F!Printed(n)
    <3>1. \A x : In(x, Append(arr, n)) <=> In(x, arr) \/ x = n
      BY <1>1, <2>4, InAppend
    <3>2. \A x : In(x, arr)' <=> In(x, arr) \/ x = n
      BY <2>4, <3>1 DEF In
    <3> QED
      BY <1>1, <1>2, <2>1, <2>2, <2>4, <3>2 DEF NamesInv
  <2>5. CASE n \in Existing /\ arr' = Append(arr, n) /\ ~toFile /\ UNCHANGED stdout
    <3>1. \A x : In(x, Append(arr, n)) <=> In(x, arr) \/ x = n
      BY <1>1, <2>5, InAppend
    <3>2. \A x : (In(x, arr)' <=> In(x, arr) \/ x = n) /\ (In(x, stdout)' <=> In(x, stdout))
      BY <2>5, <3>1 DEF In
    <3> QED
      BY <1>1, <2>1, <2>2, <2>5, <3>2 DEF NamesInv
  <2> QED
    BY <1>3, <2>3, <2>4, <2>5 DEF F!ReadName
<1>4. CASE F!Sort
  <2>1. arr' \in F!Arrangements /\ UNCHANGED <<input, stdout>> /\ stage' = "printing"
        /\ input = <<>>
    BY <1>4 DEF F!Sort
  <2>2. \A s \in F!Arrangements : \A x : In(x, s) <=> In(x, arr)
    BY <1>1, InArrangement
  <2>3. \A x : /\ In(x, arr)' <=> In(x, arr)
               /\ In(x, stdout)' <=> In(x, stdout)
               /\ In(x, input)' <=> In(x, input)
    BY <2>1, <2>2 DEF In
  <2> QED
    BY <1>1, <2>1, <2>3 DEF NamesInv
<1>5. CASE F!PrintLast
  <2> DEFINE last == arr[Len(arr)]
  <2>1. /\ last \in Names /\ arr' = SubSeq(arr, 1, Len(arr) - 1) /\ input' = input
        /\ stage = "printing" /\ stage' = stage
        /\ \A x : In(x, arr) <=> In(x, SubSeq(arr, 1, Len(arr) - 1)) \/ x = last
    BY <1>1, <1>5, InFront DEF F!PrintLast
  <2>2. \A x : /\ In(x, arr) <=> In(x, arr)' \/ x = last
               /\ In(x, input)' <=> In(x, input)
    BY <2>1 DEF In
  <2>3. CASE toFile /\ UNCHANGED stdout
    <3>1. \A x : In(x, stdout)' <=> In(x, stdout)
      BY <2>3 DEF In
    <3> QED
      BY <1>1, <2>1, <2>2, <2>3, <3>1 DEF NamesInv
  <2>4. CASE ~toFile /\ F!Printed(last)
    BY <1>1, <1>2, <2>1, <2>2, <2>4 DEF NamesInv
  <2> QED
    BY <1>5, <2>3, <2>4 DEF F!PrintLast
<1>6. CASE F!Exit
  <2>1. /\ UNCHANGED <<input, arr, stdout>> /\ stage = "printing" /\ stage' = "done"
        /\ arr = <<>>
    BY <1>6 DEF F!Exit
  <2>2. \A x : /\ In(x, arr)' <=> In(x, arr)
               /\ In(x, stdout)' <=> In(x, stdout)
               /\ In(x, input)' <=> In(x, input)
    BY <2>1 DEF In
  <2> QED
    BY <1>1, <2>1, <2>2 DEF NamesInv
<1> QED
  BY <1>3, <1>4, <1>5, <1>6 DEF FsortStep, F!FsortStep

(* Every step keeps track of the names.                                    *)
LEMMA NamesNext ==
  ASSUME Inv, Inv', NamesInv, [ArchivesNext]_allVars
  PROVE  NamesInv'
<1>1. /\ taken \in 0 .. Len(stdout) /\ Len(stdout) \in Nat
      /\ report \in Seq([f1 : Names, f2 : Names]) /\ DOMAIN report = 1 .. Len(report)
      /\ found \in Seq(Names)
  BY DEF Inv, ArchivesTypeOK, F!FsortTypeOK, TypeOK, NamesInv
<1>2. CASE FsortStep
  <2>1. UNCHANGED <<vars, taken, found>>
    BY <1>2 DEF FsortStep
  <2>2. pc = "ended" => stage' = "done" /\ stdout' = stdout
    BY <1>2 DEF FsortStep, F!FsortStep, F!ReadName, F!Sort, F!PrintLast, F!Exit, NamesInv
  <2>3. \A i \in 1 .. taken : stdout'[i] = stdout[i]
    BY <1>1, <1>2, OutputGrows
  <2>4. /\ pc' = "ended" => stage' = "done" /\ taken' = Len(stdout')
        /\ pc' = "compare" => taken' > 0 /\ f1' = stdout'[taken']
        /\ \A m \in DOMAIN report' : \E i \in 1 .. taken' : report'[m].f1 = stdout'[i]
    BY <1>1, <2>1, <2>2, <2>3 DEF NamesInv, vars
  <2>5. \A x : In(x, found)' <=> In(x, found)
    BY <2>1 DEF In
  <2>6. found' \in Seq(Names)
    BY <1>1, <2>1
  <2>7. /\ \A x : (In(x, input) \/ In(x, arr) \/ In(x, stdout))' => In(x, found)
        /\ \A x : In(x, found) => (In(x, input) \/ In(x, stdout) \/ (~toFile /\ In(x, arr)))'
        /\ stage' # "reading" => input' = <<>>
        /\ stage' = "done" => arr' = <<>>
    BY <1>2, NamesMove
  <2> QED
    BY <2>4, <2>5, <2>6, <2>7 DEF NamesInv
<1>3. ASSUME UNCHANGED <<fsort, found>>,
             /\ pc' = "ended" => stage' = "done" /\ taken' = Len(stdout')
             /\ pc' = "compare" => taken' > 0 /\ f1' = stdout'[taken']
             /\ \A m \in DOMAIN report' : \E i \in 1 .. taken' : report'[m].f1 = stdout'[i]
      PROVE  NamesInv'
  <2>1. \A x : /\ In(x, arr)' <=> In(x, arr)
               /\ In(x, stdout)' <=> In(x, stdout)
               /\ In(x, input)' <=> In(x, input)
               /\ In(x, found)' <=> In(x, found)
    BY <1>3 DEF In, fsort
  <2>2. UNCHANGED <<found, stage, input, arr, toFile>>
    BY <1>3 DEF fsort
  <2> QED
    BY <1>3, <2>1, <2>2 DEF NamesInv
<1>4. CASE TakeName
  <2>1. /\ taken' = taken + 1 /\ UNCHANGED <<fsort, found, report>> /\ stdout' = stdout
        /\ pc' # "ended"
        /\ pc' = "compare" => f1' = stdout[taken + 1]
    BY <1>4 DEF TakeName, ReadPath, fsort
  <2>2. \A m \in DOMAIN report : \E i \in 1 .. taken + 1 : report[m].f1 = stdout[i]
    BY <1>1 DEF NamesInv
  <2>3. /\ pc' = "ended" => stage' = "done" /\ taken' = Len(stdout')
        /\ pc' = "compare" => taken' > 0 /\ f1' = stdout'[taken']
        /\ \A m \in DOMAIN report' : \E i \in 1 .. taken' : report'[m].f1 = stdout'[i]
    BY <1>1, <2>1, <2>2
  <2> QED
    BY <1>3, <2>1, <2>3
<1>5. CASE End
  <2>1. /\ UNCHANGED <<fsort, found, report, taken>> /\ stdout' = stdout /\ stage' = stage
        /\ pc' = "ended" /\ stage = "done" /\ taken = Len(stdout)
    BY <1>5 DEF End, EndOfInput, fsort
  <2> QED
    BY <1>3, <2>1 DEF NamesInv
<1>6. CASE LiteStep
  <2>1. /\ UNCHANGED <<fsort, found, taken, f1>> /\ stdout' = stdout
        /\ pc = "compare" /\ pc' # "ended"
    BY <1>6, ComparisonReports DEF fsort
  <2>2. taken > 0 /\ f1 = stdout[taken] /\ taken \in 1 .. taken
    BY <1>1, <2>1 DEF NamesInv
  <2>3. \A m \in DOMAIN report' : \E i \in 1 .. taken : report'[m].f1 = stdout[i]
    <3>1. CASE UNCHANGED report
      BY <3>1 DEF NamesInv
    <3>2. CASE /\ Other(f1, k) \in Names
               /\ report' = Append(report, [f1 |-> f1, f2 |-> Other(f1, k)])
      <4> DEFINE line == [f1 |-> f1, f2 |-> Other(f1, k)]
      <4>1. line \in [f1 : Names, f2 : Names] /\ line.f1 = f1
        BY <1>6, <3>2, ComparisonReports
      <4>2. /\ DOMAIN report' = 1 .. Len(report) + 1 /\ Len(report) \in Nat
            /\ \A i \in 1 .. Len(report) : report'[i] = report[i]
            /\ report'[Len(report) + 1] = line
        BY <1>1, <3>2, <4>1, AppendProperties, LenProperties
      <4>3. ASSUME NEW m \in DOMAIN report'
            PROVE  \E i \in 1 .. taken : report'[m].f1 = stdout[i]
        <5>1. CASE m = Len(report) + 1
          BY <2>2, <4>1, <4>2, <5>1
        <5>2. CASE m # Len(report) + 1
          <6>1. m \in DOMAIN report /\ report'[m] = report[m]
            BY <1>1, <4>2, <5>2
          <6> QED
            BY <6>1 DEF NamesInv
        <5> QED
          BY <5>1, <5>2
      <4> QED
        BY <4>3
    <3> QED
      BY <1>6, <3>1, <3>2, ComparisonReports
  <2> QED
    BY <1>3, <2>1, <2>2, <2>3
<1>7. CASE WriteStep
  <2>1. UNCHANGED <<fsort, found, report, taken, pc, f1>> /\ stdout' = stdout /\ stage' = stage
    BY <1>7 DEF WriteStep, Write, fsort
  <2> QED
    BY <1>3, <2>1 DEF NamesInv
<1>8. CASE UNCHANGED allVars
  <2>1. UNCHANGED <<fsort, found, report, taken, pc, f1>> /\ stdout' = stdout /\ stage' = stage
    BY <1>8 DEF allVars, vars, fsort
  <2> QED
    BY <1>3, <2>1 DEF NamesInv
<1> QED
  BY <1>2, <1>4, <1>5, <1>6, <1>7, <1>8 DEF ArchivesNext
-------------------------------------------------------------------------------
(* fsort's comparison of two entries.                                      *)

(* A difference that an int holds is kept.                                 *)
LEMMA TruncatedKeeps ==
  ASSUME NEW x \in Int, -Half <= x, x < Half
  PROVE  F!Truncated(x) = x
<1>1. x + Half \in 0 .. 2 * Half - 1
  BY ArchivesAssumption
<1>2. (x + Half) % (2 * Half) = x + Half
  BY <1>1, ArchivesAssumption
<1>3. QED
  BY <1>2, ArchivesAssumption DEF F!Truncated

(* entry_cmp is a lexicographic comparison as long as no difference is too *)
(* large for an int.                                                       *)
LEMMA EntryCmpExact ==
  ASSUME NEW a \in F!Entries, NEW b \in F!Entries, F!AllNear(a, b)
  PROVE  F!EntryCmp(a, b) = CASE a.size # b.size -> a.size - b.size
                              [] a.size = b.size /\ a.dev # b.dev -> a.dev - b.dev
                              [] a.size = b.size /\ a.dev = b.dev /\ a.ino # b.ino
                                   -> a.ino - b.ino
                              [] OTHER -> b.rank - a.rank
<1>1. /\ a.size - b.size \in Int /\ a.dev - b.dev \in Int /\ a.ino - b.ino \in Int
      /\ F!Truncated(a.size - b.size) = a.size - b.size
      /\ F!Truncated(a.dev - b.dev) = a.dev - b.dev
      /\ F!Truncated(a.ino - b.ino) = a.ino - b.ino
  BY TruncatedKeeps DEF F!AllNear, F!Near, F!Entries
<1>2. QED
  BY <1>1 DEF F!EntryCmp

(* What a sort needs of a comparison: it tells which of two entries comes  *)
(* first, alike from both sides, and goes on from one entry to the next.   *)
OrdersTwo(a, b) == F!EntryCmp(a, b) > 0 <=> F!EntryCmp(b, a) < 0

OrdersThree(a, b, c) ==
  F!EntryCmp(a, b) <= 0 /\ F!EntryCmp(b, c) <= 0 => F!EntryCmp(a, c) <= 0

(* Files whose sizes, devices and inode numbers differ by less than an int *)
(* holds are ordered: no sort meets a contradiction (fsort.cpp, entry_cmp).*)
THEOREM NearEntriesAreOrdered ==
  ASSUME NEW a \in F!Entries, NEW b \in F!Entries, NEW c \in F!Entries,
         F!AllNear(a, b), F!AllNear(b, a), F!AllNear(b, c), F!AllNear(a, c)
  PROVE  OrdersTwo(a, b) /\ OrdersThree(a, b, c)
<1>1. /\ a.size \in Nat /\ a.dev \in Nat /\ a.ino \in Nat /\ a.rank \in Nat
      /\ b.size \in Nat /\ b.dev \in Nat /\ b.ino \in Nat /\ b.rank \in Nat
      /\ c.size \in Nat /\ c.dev \in Nat /\ c.ino \in Nat /\ c.rank \in Nat
  BY DEF F!Entries
<1>2. OrdersTwo(a, b)
  BY <1>1, EntryCmpExact DEF OrdersTwo
<1>3. OrdersThree(a, b, c)
  BY <1>1, EntryCmpExact DEF OrdersThree
<1>4. QED
  BY <1>2, <1>3

(* It orders the names that were found, smaller files first.               *)
LEMMA FoundAreOrdered ==
  ASSUME AllFoundNear, NEW x \in Existing, NEW y \in Existing, NEW z \in Existing,
         In(x, found), In(y, found), In(z, found)
  PROVE  /\ Le(x, y) \/ Le(y, x)
         /\ Le(x, y) /\ Le(y, z) => Le(x, z)
         /\ Le(x, y) => SizeOf(x) <= SizeOf(y)
<1>1. \A u, v \in {x, y, z} : F!AllNear(EntryOf[u], EntryOf[v])
  BY DEF AllFoundNear, In
<1>2. \A u \in {x, y, z} : EntryOf[u] \in F!Entries /\ EntryOf[u].size = SizeOf(u)
  BY ArchivesAssumption DEF SizeOf
<1>3. OrdersTwo(EntryOf[x], EntryOf[y]) /\ OrdersThree(EntryOf[x], EntryOf[y], EntryOf[z])
  BY <1>1, <1>2, NearEntriesAreOrdered
<1>4. \A u, v \in {x, y, z} :
        F!EntryCmp(EntryOf[u], EntryOf[v]) =
          CASE EntryOf[u].size # EntryOf[v].size -> EntryOf[u].size - EntryOf[v].size
            [] EntryOf[u].size = EntryOf[v].size /\ EntryOf[u].dev # EntryOf[v].dev
                 -> EntryOf[u].dev - EntryOf[v].dev
            [] EntryOf[u].size = EntryOf[v].size /\ EntryOf[u].dev = EntryOf[v].dev
                 /\ EntryOf[u].ino # EntryOf[v].ino
                 -> EntryOf[u].ino - EntryOf[v].ino
            [] OTHER -> EntryOf[v].rank - EntryOf[u].rank
  BY <1>1, <1>2, EntryCmpExact
<1>5. \A u \in {x, y, z} : /\ EntryOf[u].size \in Nat /\ EntryOf[u].dev \in Nat
                           /\ EntryOf[u].ino \in Nat /\ EntryOf[u].rank \in Nat
  BY <1>2 DEF F!Entries
<1>6. Le(x, y) \/ Le(y, x)
  BY <1>4, <1>5 DEF Le
<1>7. Le(x, y) /\ Le(y, z) => Le(x, z)
  BY <1>3 DEF Le, OrdersThree
<1>8. Le(x, y) => SizeOf(x) <= SizeOf(y)
  BY <1>2, <1>4, <1>5 DEF Le
<1> QED
  BY <1>6, <1>7, <1>8

(* A set of numbers has a least one.                                       *)
LEMMA LeastNumber ==
  ASSUME NEW S, S \subseteq Nat, S # {}
  PROVE  \E m \in S : \A i \in S : m <= i
<1>1. PICK m \in S : \A i \in S : ~(<<i, m>> \in OpToRel(<, Nat))
  BY NatLessThanWellFounded, WFMin
<1>2. OpToRel(<, Nat) = {pair \in Nat \X Nat : pair[1] < pair[2]}
  BY DEF OpToRel
<1>3. ASSUME NEW i \in S PROVE m <= i
  <2>1. i < m => <<i, m>> \in {pair \in Nat \X Nat : pair[1] < pair[2]}
    OBVIOUS
  <2>2. ~(i < m)
    BY <1>1, <1>2, <2>1
  <2> QED
    BY <2>2
<1> QED
  BY <1>3

(* A name can be put into the order of others: before the first one that   *)
(* is not to come before it.                                               *)
LEMMA Inserting ==
  ASSUME AllFoundNear, arr \in Seq(Existing), \A x : In(x, arr) => In(x, found),
         NEW n \in Existing, In(n, found), arr' = Append(arr, n),
         NEW order \in F!Bijection(DOMAIN arr, DOMAIN arr), F!InOrder(F!Arranged(order))
  PROVE  \E new \in F!Bijection(DOMAIN arr', DOMAIN arr') : F!InOrder(F!Arranged(new))'
<1> DEFINE N == Len(arr)
           s == F!Arranged(order)
<1>1. /\ N \in Nat /\ DOMAIN arr = 1 .. N
      /\ DOMAIN arr' = 1 .. N + 1
      /\ \A i \in 1 .. N : arr'[i] = arr[i]
      /\ arr'[N + 1] = n
  BY AppendProperties, LenProperties
<1>2. /\ order \in [1 .. N -> 1 .. N]
      /\ \A i, j \in 1 .. N : order[i] = order[j] => i = j
      /\ \A j \in 1 .. N : \E i \in 1 .. N : order[i] = j
  BY <1>1 DEF F!Bijection, F!Injection, F!Surjection, F!IsInjective
<1>3. DOMAIN s = 1 .. N /\ \A i \in 1 .. N : s[i] = arr[order[i]]
  BY <1>1 DEF F!Arranged
<1>4. \A i \in 1 .. N : s[i] \in Existing /\ In(s[i], found)
  <2>1. \A j \in 1 .. N : arr[j] \in Existing /\ In(arr[j], arr)
    BY <1>1, ElementOfSeq DEF In
  <2> QED
    BY <1>2, <1>3, <2>1
<1>5. \A i, j \in 1 .. N : i < j => Le(s[i], s[j])
  BY <1>3 DEF F!InOrder, Le
<1> HIDE DEF N, s
<1>6. PICK q \in 1 .. N + 1 :
        (\A i \in 1 .. N : i < q => Le(s[i], n)) /\ (q <= N => ~Le(s[q], n))
  <2> DEFINE Later == {i \in 1 .. N : ~Le(s[i], n)}
  <2>1. CASE Later = {}
    <3>1. N + 1 \in 1 .. N + 1 /\ ~(N + 1 <= N) /\ \A i \in 1 .. N : Le(s[i], n)
      BY <1>1, <2>1
    <3> QED
      BY <3>1
  <2>2. CASE Later # {}
    <3>1. Later \subseteq Nat
      BY <1>1
    <3>2. PICK q \in Later : \A i \in Later : q <= i
      <4> HIDE DEF Later
      <4> QED
        BY <2>2, <3>1, LeastNumber
    <3>3. /\ q \in 1 .. N + 1 /\ q \in 1 .. N /\ ~Le(s[q], n)
          /\ \A i \in 1 .. N : i < q => Le(s[i], n)
      BY <1>1, <3>2
    <3> QED
      BY <3>3
  <2> QED
    BY <2>1, <2>2
<1> DEFINE new == [i \in 1 .. N + 1 |-> IF i < q THEN order[i]
                                        ELSE IF i = q THEN N + 1 ELSE order[i - 1]]
<1>7. ASSUME NEW i \in 1 .. N + 1
      PROVE  /\ new[i] \in 1 .. N + 1
             /\ i < q => i \in 1 .. N /\ new[i] = order[i]
             /\ i = q => new[i] = N + 1
             /\ i > q => i - 1 \in 1 .. N /\ new[i] = order[i - 1]
  <2>1. /\ i < q => i \in 1 .. N
        /\ i > q => i - 1 \in 1 .. N
        /\ N + 1 \in 1 .. N + 1
        /\ i < q \/ i = q \/ i > q
        /\ 1 .. N \subseteq 1 .. N + 1
    BY <1>1, <1>6
  <2>2. CASE i < q
    BY <1>2, <2>1, <2>2
  <2>3. CASE i = q
    BY <1>2, <2>1, <2>3
  <2>4. CASE i > q
    <3>1. ~(i < q) /\ i # q
      BY <1>6, <2>4
    <3>2. i - 1 \in 1 .. N /\ order[i - 1] \in 1 .. N + 1
      BY <1>2, <2>1, <2>4
    <3> QED
      BY <2>1, <2>4, <3>1, <3>2
  <2> QED
    BY <2>1, <2>2, <2>3, <2>4
<1>8. new \in [1 .. N + 1 -> 1 .. N + 1]
  BY <1>7
<1> HIDE DEF new
<1>9. ASSUME NEW i \in 1 .. N + 1, NEW j \in 1 .. N + 1, new[i] = new[j]
      PROVE  i = j
  <2>1. \A m \in 1 .. N : order[m] # N + 1
    BY <1>1, <1>2
  <2>2. CASE i = q \/ j = q
    BY <1>1, <1>7, <1>9, <2>1, <2>2
  <2>3. CASE i # q /\ j # q
    <3> DEFINE old(h) == IF h < q THEN h ELSE h - 1
    <3>1. old(i) \in 1 .. N /\ old(j) \in 1 .. N
      BY <1>1, <1>7, <2>3
    <3>2. order[old(i)] = order[old(j)]
      BY <1>1, <1>7, <1>9, <2>3
    <3>3. old(i) = old(j)
      BY <1>2, <3>1, <3>2
    <3> QED
      BY <1>1, <2>3, <3>3
  <2> QED
    BY <2>2, <2>3
<1>10. ASSUME NEW j \in 1 .. N + 1 PROVE \E i \in 1 .. N + 1 : new[i] = j
  <2>1. CASE j = N + 1
    BY <1>7, <2>1
  <2>2. CASE j # N + 1
    <3>1. j \in 1 .. N
      BY <1>1, <2>2
    <3>2. PICK h \in 1 .. N : order[h] = j
      BY <1>2, <3>1
    <3>3. CASE h < q
      <4>1. h \in 1 .. N + 1
        BY <1>1
      <4> QED
        BY <1>7, <3>2, <3>3, <4>1
    <3>4. CASE h >= q
      <4>1. h + 1 \in 1 .. N + 1 /\ h + 1 > q /\ (h + 1) - 1 = h
        BY <1>1, <3>4
      <4> QED
        BY <1>7, <3>2, <4>1
    <3> QED
      BY <1>1, <1>6, <3>3, <3>4
  <2> QED
    BY <2>1, <2>2
<1>11. new \in F!Bijection(1 .. N + 1, 1 .. N + 1)
  BY <1>8, <1>9, <1>10 DEF F!Bijection, F!Injection, F!Surjection, F!IsInjective
<1> DEFINE t == [i \in 1 .. N + 1 |-> IF i < q THEN s[i] ELSE IF i = q THEN n ELSE s[i - 1]]
<1>12. ASSUME NEW i \in 1 .. N + 1 PROVE arr'[new[i]] = t[i]
  <2>1. \A m \in 1 .. N : arr'[order[m]] = s[m]
    BY <1>1, <1>2, <1>3
  <2>2. CASE i < q
    BY <1>7, <2>1, <2>2
  <2>3. CASE i = q
    BY <1>1, <1>7, <2>3
  <2>4. CASE i > q
    BY <1>6, <1>7, <2>1, <2>4
  <2>5. i < q \/ i = q \/ i > q
    BY <1>1, <1>6
  <2> QED
    BY <2>2, <2>3, <2>4, <2>5
<1>13. ASSUME NEW i \in 1 .. N + 1, NEW j \in 1 .. N + 1, i < j
       PROVE  Le(t[i], t[j])
  <2>1. CASE j < q
    BY <1>1, <1>5, <1>7, <1>13, <2>1
  <2>2. CASE j = q
    BY <1>1, <1>6, <1>7, <1>13, <2>2
  <2>3. CASE j > q /\ i < q
    <3>1. i \in 1 .. N /\ j - 1 \in 1 .. N /\ i < j - 1 /\ t[i] = s[i] /\ t[j] = s[j - 1]
      BY <1>1, <1>7, <2>3
    <3> QED
      BY <1>5, <3>1
  <2>4. CASE j > q /\ i = q
    <3>1. j - 1 \in 1 .. N /\ q \in 1 .. N /\ t[i] = n /\ t[j] = s[j - 1]
      BY <1>1, <1>7, <2>4
    <3>2. ~Le(s[q], n) /\ (q = j - 1 \/ q < j - 1)
      BY <1>1, <1>6, <2>4, <3>1
    <3>3. Le(n, s[q])
      BY <1>4, <3>1, <3>2, FoundAreOrdered
    <3>4. q < j - 1 => Le(n, s[j - 1])
      BY <1>4, <1>5, <3>1, <3>3, FoundAreOrdered
    <3> QED
      BY <3>1, <3>2, <3>3, <3>4
  <2>5. CASE j > q /\ i > q
    <3>1. /\ i - 1 \in 1 .. N /\ j - 1 \in 1 .. N /\ i - 1 < j - 1
          /\ t[i] = s[i - 1] /\ t[j] = s[j - 1]
      BY <1>1, <1>7, <1>13, <2>5
    <3> QED
      BY <1>5, <3>1
  <2> QED
    BY <1>1, <2>1, <2>2, <2>3, <2>4, <2>5
<1> HIDE DEF t
<1>14. PICK w \in F!Bijection(1 .. N + 1, 1 .. N + 1) : w = new
  BY <1>11
<1>15. \A i, j \in 1 .. N + 1 :
         i < j => F!EntryCmp(EntryOf[arr'[w[i]]], EntryOf[arr'[w[j]]]) <= 0
  BY <1>12, <1>13, <1>14 DEF Le
<1>16. F!InOrder(F!Arranged(w))'
  BY <1>1, <1>15 DEF F!InOrder, F!Arranged
<1> QED
  BY <1>1, <1>14, <1>16
(* Nothing is held at first, which is in order.                            *)
LEMMA SortInit == ArchivesInit => SortInv
<1> SUFFICES ASSUME ArchivesInit PROVE SortInv
  OBVIOUS
<1>1. arr = <<>> /\ stdout = <<>> /\ stage = "reading"
  BY DEF ArchivesInit, F!FsortInit
<1>2. /\ \A x : ~In(x, arr) /\ ~In(x, stdout)
      /\ DOMAIN arr = {} /\ DOMAIN stdout = {}
  BY <1>1 DEF In
<1>3. \E order \in F!Bijection(DOMAIN arr, DOMAIN arr) : F!InOrder(F!Arranged(order))
  <2>1. <<>> \in F!Bijection({}, {})
    BY DEF F!Bijection, F!Injection, F!Surjection, F!IsInjective
  <2>2. F!InOrder(F!Arranged(<<>>))
    BY <1>2 DEF F!InOrder, F!Arranged
  <2> QED
    BY <1>2, <2>1, <2>2
<1> QED
  BY <1>1, <1>2, <1>3 DEF SortInv

(* One more name is read: it is printed if it is not there, else held.     *)
LEMMA SortReads ==
  ASSUME Inv, NamesInv, SortInv, F!ReadName, ~toFile, AllFoundNear, UNCHANGED found
  PROVE  /\ \E order \in F!Bijection(DOMAIN arr', DOMAIN arr') : F!InOrder(F!Arranged(order))'
         /\ \A x \in Existing : ~In(x, stdout)'
         /\ \A i \in DOMAIN stdout' : stdout'[i] \notin Existing
<1> DEFINE n == Head(input)
<1>1. /\ stdout \in Seq(Names) /\ input \in Seq(Names) /\ arr \in Seq(Existing)
      /\ Existing \subseteq Names /\ stage = "reading"
  BY DEF Inv, ArchivesTypeOK, F!FsortTypeOK, Existing, F!ReadName
<1>2. n \in Names /\ In(n, input)
  BY <1>1, HeadTailProperties, InTail DEF F!ReadName
<1>3. In(n, found) /\ \A x : In(x, arr) => In(x, found)
  BY <1>2 DEF NamesInv
<1>4. PICK order \in F!Bijection(DOMAIN arr, DOMAIN arr) : F!InOrder(F!Arranged(order))
  BY <1>1 DEF SortInv
<1>5. \A x \in Existing : ~In(x, stdout)
  BY <1>1 DEF SortInv
<1>6. CASE n \notin Existing /\ F!Printed(n) /\ UNCHANGED arr
  <2>1. F!InOrder(F!Arranged(order))'
    BY <1>4, <1>6 DEF F!InOrder, F!Arranged
  <2>2. \A x \in Existing : ~In(x, stdout)'
    BY <1>1, <1>2, <1>5, <1>6, PrintedAt
  <2> QED
    BY <1>6, <2>1, <2>2 DEF In
<1>7. CASE n \in Existing /\ arr' = Append(arr, n) /\ UNCHANGED stdout
  <2>1. \E new \in F!Bijection(DOMAIN arr', DOMAIN arr') : F!InOrder(F!Arranged(new))'
    BY <1>1, <1>3, <1>4, <1>7, Inserting
  <2> QED
    BY <1>5, <1>7, <2>1 DEF In
<1> QED
  BY <1>6, <1>7 DEF F!ReadName

(* qsort puts the names into an order, as there is one.                    *)
LEMMA SortSorts ==
  ASSUME SortInv, F!Sort, ~toFile, AllFoundNear
  PROVE  F!InOrder(arr')
<1>1. PICK order \in F!Bijection(DOMAIN arr, DOMAIN arr) : F!InOrder(F!Arranged(order))
  BY DEF SortInv, F!Sort
<1> QED
  BY <1>1 DEF F!Sort, F!Arrangements

(* The last name is one of the largest of those that are held, and none of *)
(* those that were printed is smaller.                                     *)
LEMMA SortPrints ==
  ASSUME Inv, NamesInv, SortInv, F!PrintLast, ~toFile, AllFoundNear
  PROVE  /\ F!InOrder(arr')
         /\ \A x, y \in Existing : In(x, stdout)' /\ In(y, arr)' => SizeOf(x) >= SizeOf(y)
         /\ \A i, j \in DOMAIN stdout' :
              i < j /\ stdout'[i] \in Existing /\ stdout'[j] \in Existing =>
                SizeOf(stdout'[i]) >= SizeOf(stdout'[j])
<1> DEFINE last == arr[Len(arr)]
           N == Len(stdout)
<1>1. /\ stdout \in Seq(Names) /\ arr \in Seq(Existing) /\ arr # <<>>
      /\ Existing \subseteq Names /\ stage = "printing"
      /\ arr' = SubSeq(arr, 1, Len(arr) - 1) /\ F!Printed(last)
  BY DEF Inv, ArchivesTypeOK, F!FsortTypeOK, Existing, F!PrintLast
<1>2. /\ Len(arr) \in Nat /\ Len(arr) > 0 /\ last \in Existing
      /\ DOMAIN arr' = 1 .. Len(arr) - 1
      /\ \A i \in 1 .. Len(arr) - 1 : arr'[i] = arr[i]
      /\ DOMAIN arr = 1 .. Len(arr)
  BY <1>1, InFront, LenProperties
<1>3. F!InOrder(arr)
  BY <1>1 DEF SortInv
<1>4. F!InOrder(arr')
  BY <1>2, <1>3 DEF F!InOrder
<1>5. ASSUME NEW y \in Existing, In(y, arr)'
      PROVE  In(y, arr) /\ SizeOf(last) >= SizeOf(y)
  <2>1. PICK i \in 1 .. Len(arr) - 1 : arr[i] = y
    BY <1>2, <1>5 DEF In
  <2>2. i \in DOMAIN arr /\ Len(arr) \in DOMAIN arr /\ i < Len(arr)
    BY <1>2
  <2>3. Le(y, last)
    BY <1>3, <2>1, <2>2 DEF F!InOrder, Le
  <2>4. In(y, arr) /\ In(last, arr)
    BY <2>1, <2>2 DEF In
  <2>5. In(y, found) /\ In(last, found)
    BY <2>4 DEF NamesInv
  <2>6. SizeOf(y) <= SizeOf(last)
    BY <1>2, <2>3, <2>5, FoundAreOrdered
  <2>7. SizeOf(y) \in Nat /\ SizeOf(last) \in Nat
    BY <1>2, LiteAssumption DEF SizeOf, Existing
  <2> QED
    BY <2>4, <2>6, <2>7
<1>6. In(last, arr)
  BY <1>2 DEF In
<1>7. /\ N \in Nat /\ DOMAIN stdout = 1 .. N /\ DOMAIN stdout' = 1 .. N + 1
      /\ \A i \in 1 .. N : stdout'[i] = stdout[i]
      /\ stdout'[N + 1] = last
      /\ \A x : In(x, stdout)' <=> In(x, stdout) \/ x = last
  BY <1>1, <1>2, PrintedAt
<1> HIDE DEF N, last
<1>8. ASSUME NEW x \in Existing, NEW y \in Existing, In(x, stdout)', In(y, arr)'
      PROVE  SizeOf(x) >= SizeOf(y)
  <2>1. CASE x = last
    BY <1>5, <1>8, <2>1
  <2>2. CASE In(x, stdout)
    BY <1>5, <1>8, <2>2 DEF SortInv
  <2> QED
    BY <1>7, <1>8, <2>1, <2>2
<1>9. ASSUME NEW i \in DOMAIN stdout', NEW j \in DOMAIN stdout', i < j,
             stdout'[i] \in Existing, stdout'[j] \in Existing
      PROVE  SizeOf(stdout'[i]) >= SizeOf(stdout'[j])
  <2>1. i \in 1 .. N /\ stdout'[i] = stdout[i]
    BY <1>7, <1>9
  <2>2. CASE j = N + 1
    <3>1. In(stdout[i], stdout)
      BY <1>7, <2>1 DEF In
    <3> QED
      BY <1>2, <1>6, <1>7, <1>9, <2>1, <2>2, <3>1 DEF SortInv
  <2>3. CASE j # N + 1
    <3>1. j \in 1 .. N /\ stdout'[j] = stdout[j]
      BY <1>7, <2>3
    <3> QED
      BY <1>7, <1>9, <2>1, <3>1 DEF SortInv
  <2> QED
    BY <2>2, <2>3
<1> QED
  BY <1>4, <1>8, <1>9

(* Every step keeps what is held and printed in order.                     *)
LEMMA SortNext ==
  ASSUME Inv, NamesInv, SortInv, [ArchivesNext]_allVars
  PROVE  SortInv'
<1> SUFFICES ASSUME ~toFile', AllFoundNear'
             PROVE  /\ stage' = "reading" =>
                         \E order \in F!Bijection(DOMAIN arr', DOMAIN arr') :
                           F!InOrder(F!Arranged(order))'
                    /\ stage' = "reading" => \A x \in Existing : ~In(x, stdout)'
                    /\ stage' # "reading" => F!InOrder(arr')
                    /\ \A x, y \in Existing :
                         In(x, stdout)' /\ In(y, arr)' => SizeOf(x) >= SizeOf(y)
                    /\ \A i, j \in DOMAIN stdout' :
                         i < j /\ stdout'[i] \in Existing /\ stdout'[j] \in Existing =>
                           SizeOf(stdout'[i]) >= SizeOf(stdout'[j])
  BY DEF SortInv, SizeOf
<1>1. toFile' = toFile /\ found' = found
  BY DEF ArchivesNext, FsortStep, F!FsortStep, TakeName, End, LiteStep, WriteStep, allVars, fsort
<1>2. ~toFile /\ AllFoundNear
  BY <1>1 DEF AllFoundNear
<1>3. CASE UNCHANGED fsort
  <2>1. UNCHANGED <<stage, arr, stdout>>
    BY <1>3 DEF fsort
  <2>2. \A x : (In(x, arr)' <=> In(x, arr)) /\ (In(x, stdout)' <=> In(x, stdout))
    BY <2>1 DEF In
  <2>3. ASSUME NEW order, F!InOrder(F!Arranged(order)) PROVE F!InOrder(F!Arranged(order))'
    BY <2>1, <2>3 DEF F!InOrder, F!Arranged
  <2> QED
    BY <1>2, <2>1, <2>2, <2>3 DEF SortInv
<1>4. CASE F!ReadName
  <2>1. stage = "reading" /\ stage' = "reading"
    BY <1>4 DEF F!ReadName
  <2>2. /\ \E order \in F!Bijection(DOMAIN arr', DOMAIN arr') : F!InOrder(F!Arranged(order))'
        /\ \A x \in Existing : ~In(x, stdout)'
        /\ \A i \in DOMAIN stdout' : stdout'[i] \notin Existing
    BY <1>1, <1>2, <1>4, SortReads
  <2> QED
    BY <2>1, <2>2
<1>5. CASE F!Sort
  <2>1. F!InOrder(arr')
    BY <1>2, <1>5, SortSorts
  <2>2. stage = "reading" /\ stage' = "printing" /\ stdout' = stdout
    BY <1>5 DEF F!Sort
  <2>3. \A x \in Existing : ~In(x, stdout)'
    BY <1>2, <2>2 DEF SortInv, In
  <2> QED
    BY <2>1, <2>2, <2>3 DEF In
<1>6. CASE F!PrintLast
  <2>1. stage' = "printing"
    BY <1>6 DEF F!PrintLast
  <2> QED
    BY <1>2, <1>6, <2>1, SortPrints
<1>7. CASE F!Exit
  <2>1. UNCHANGED <<arr, stdout>> /\ stage = "printing" /\ stage' = "done"
    BY <1>7 DEF F!Exit
  <2>2. \A x : (In(x, arr)' <=> In(x, arr)) /\ (In(x, stdout)' <=> In(x, stdout))
    BY <2>1 DEF In
  <2> QED
    BY <1>2, <2>1, <2>2 DEF SortInv
<1> QED
  BY <1>3, <1>4, <1>5, <1>6, <1>7
  DEF ArchivesNext, FsortStep, F!FsortStep, TakeName, End, LiteStep, WriteStep, allVars

(* The order of the lines is that of the names they begin with.            *)
LEMMA SortedReport ==
  ASSUME Inv, NamesInv, SortInv, ~toFile, AllFoundNear,
         NEW l \in DOMAIN report, NEW i \in 1 .. taken, report[l].f1 = stdout[i],
         NEW x \in Existing, NEW j \in 1 .. taken, i <= j, x = stdout[j]
  PROVE  FileSize(report[l]) >= SizeOf(x)
<1>1. report[l].f1 \in Existing /\ FileSize(report[l]) = SizeOf(report[l].f1)
  <2>1. report[l] \in [f1 : Names, f2 : Names]
    <3>1. report \in Seq([f1 : Names, f2 : Names])
      BY DEF Inv, LiteInv, TypeOK
    <3> QED
      BY <3>1, ElementOfSeq, LenProperties
  <2>2. Wanted(report[l].f1)
    BY DEF Inv, LiteInv, ReportedWereAlike
  <2> QED
    BY <2>1, <2>2 DEF Wanted, IsFile, Existing, FileSize, SizeOf
<1>2. i \in DOMAIN stdout /\ j \in DOMAIN stdout
  BY DEF Inv, ArchivesTypeOK, F!FsortTypeOK
<1>3. SizeOf(x) \in Nat
  BY LiteAssumption DEF SizeOf, Existing
<1>4. CASE i = j
  BY <1>1, <1>3, <1>4
<1>5. CASE i < j
  BY <1>1, <1>2, <1>5 DEF SortInv
<1> QED
  BY <1>4, <1>5
(* A line more is about the name that was taken last.                      *)
LEMMA ReportNext ==
  ASSUME Inv, NamesInv, SortInv, ReportSorted, [ArchivesNext]_allVars
  PROVE  ReportSorted'
<1>1. toFile' = toFile /\ found' = found
  BY DEF ArchivesNext, FsortStep, F!FsortStep, TakeName, End, LiteStep, WriteStep, allVars, fsort
<1>2. SUFFICES ASSUME ~toFile, AllFoundNear,
                      NEW l \in DOMAIN report', NEW m \in DOMAIN report', l < m
               PROVE  FileSize(report'[l]) >= FileSize(report'[m])
  BY <1>1 DEF ReportSorted, AllFoundNear, FileSize
<1>3. CASE UNCHANGED report
  BY <1>2, <1>3 DEF ReportSorted
<1>4. CASE LiteStep /\ report' = Append(report, [f1 |-> f1, f2 |-> Other(f1, k)])
  <2> DEFINE line == [f1 |-> f1, f2 |-> Other(f1, k)]
  <2>1. /\ pc = "compare" /\ line \in [f1 : Names, f2 : Names] /\ line.f1 = f1
        /\ report \in Seq([f1 : Names, f2 : Names])
    BY <1>4, MovedAssumption
    DEF LiteStep, Compare, Inv, LiteInv, TypeOK, Wanted, Other
  <2>2. /\ Len(report) \in Nat /\ DOMAIN report = 1 .. Len(report)
        /\ DOMAIN report' = 1 .. Len(report) + 1
        /\ \A i \in 1 .. Len(report) : report'[i] = report[i]
        /\ report'[Len(report) + 1] = line
    BY <1>4, <2>1, AppendProperties, LenProperties
  <2>3. taken \in 1 .. taken /\ f1 = stdout[taken]
    BY <2>1 DEF NamesInv, Inv, ArchivesTypeOK
  <2>4. f1 \in Existing
    BY <2>1 DEF Inv, LiteInv, Wanted, IsFile, Existing
  <2>5. l \in 1 .. Len(report) /\ report'[l] = report[l]
    BY <1>2, <2>2
  <2>6. CASE m = Len(report) + 1
    <3>1. PICK i \in 1 .. taken : report[l].f1 = stdout[i]
      BY <2>2, <2>5 DEF NamesInv
    <3>2. FileSize(report[l]) >= SizeOf(f1)
      BY <1>2, <2>2, <2>3, <2>4, <2>5, <3>1, SortedReport
    <3> QED
      BY <2>1, <2>2, <2>5, <2>6, <3>2 DEF FileSize, SizeOf
  <2>7. CASE m # Len(report) + 1
    <3>1. m \in 1 .. Len(report) /\ report'[m] = report[m]
      BY <2>2, <2>7
    <3> QED
      BY <1>2, <2>2, <2>5, <3>1 DEF ReportSorted
  <2> QED
    BY <2>6, <2>7
<1>5. UNCHANGED report \/ (LiteStep /\ report' = Append(report, [f1 |-> f1, f2 |-> Other(f1, k)]))
  <2>1. CASE LiteStep
    BY <2>1, ComparisonReports
  <2>2. CASE ~LiteStep
    BY <2>2 DEF ArchivesNext, FsortStep, TakeName, ReadPath, End, EndOfInput, WriteStep, Write,
       allVars, vars
  <2> QED
    BY <2>1, <2>2
<1> QED
  BY <1>3, <1>4, <1>5

(* Without -o larger files are reported first, for any names and any files *)
(* whose sizes, devices and inode numbers are near enough for fsort's      *)
(* comparison (fsort.cpp, entry_cmp, and the loop of samearchive-lite.cpp).*)
THEOREM LargerFirst == ArchivesSpec => []ReportSorted
<1>1. ArchivesInit => OrderInv
  <2> SUFFICES ASSUME ArchivesInit PROVE OrderInv
    OBVIOUS
  <2>1. report = <<>>
    BY DEF ArchivesInit, Init
  <2> QED
    BY <2>1, InvInit, NamesInit, SortInit DEF OrderInv, ReportSorted
<1>2. OrderInv /\ [ArchivesNext]_allVars => OrderInv'
  BY InvNext, NamesNext, SortNext, ReportNext DEF OrderInv
<1>3. OrderInv => ReportSorted
  BY DEF OrderInv
<1> QED
  BY <1>1, <1>2, <1>3, PTL DEF ArchivesSpec
-------------------------------------------------------------------------------
(* The files of all lines are files.                                       *)
LEMMA FilesReportedNext ==
  ASSUME Inv, FilesReported, [ArchivesNext]_allVars
  PROVE  FilesReported'
<1>1. CASE UNCHANGED report
  BY <1>1 DEF FilesReported, IsFile
<1>2. CASE LiteStep
  <2>1. CASE /\ Other(f1, k) \in Names /\ IsFile(Other(f1, k))
             /\ report' = Append(report, [f1 |-> f1, f2 |-> Other(f1, k)])
    <3> DEFINE line == [f1 |-> f1, f2 |-> Other(f1, k)]
    <3>1. report \in Seq([f1 : Names, f2 : Names]) /\ line \in [f1 : Names, f2 : Names]
      BY <1>2, <2>1, ComparisonReports
    <3>2. /\ Len(report) \in Nat /\ DOMAIN report = 1 .. Len(report)
          /\ DOMAIN report' = 1 .. Len(report) + 1
          /\ \A i \in 1 .. Len(report) : report'[i] = report[i]
          /\ report'[Len(report) + 1] = line
      BY <2>1, <3>1, AppendProperties, LenProperties
    <3>3. ASSUME NEW m \in DOMAIN report' PROVE IsFile(report'[m].f2)
      <4>1. CASE m = Len(report) + 1
        BY <2>1, <3>2, <4>1
      <4>2. CASE m # Len(report) + 1
        BY <3>2, <4>2 DEF FilesReported
      <4> QED
        BY <4>1, <4>2
    <3> QED
      BY <3>3 DEF FilesReported, IsFile
  <2> QED
    BY <1>1, <1>2, <2>1, ComparisonReports
<1> QED
  BY <1>1, <1>2
  DEF ArchivesNext, FsortStep, TakeName, ReadPath, End, EndOfInput, WriteStep, Write,
      allVars, vars

(* Nothing is remembered at first.                                         *)
LEMMA CalmInit == ArchivesInit => CalmInv
<1> SUFFICES ASSUME ArchivesInit PROVE CalmInv
  OBVIOUS
<1>1. alike = Alike(content) /\ cache = [s \in Slots |-> NoEntry] /\ taken = 0
  BY DEF ArchivesInit, Init
<1>2. NoEntry.pair \notin Pairs
  BY LiteAssumption DEF NoEntry, Pairs
<1> QED
  BY <1>1, <1>2 DEF CalmInv

(* What a comparison remembers is so, and a pair of identical files gets a *)
(* line.                                                                   *)
LEMMA CalmCompares ==
  ASSUME Inv, CalmInv, LiteStep, calm'
  PROVE  /\ calm
         /\ \A s \in Slots :
              cache'[s].pair \in Pairs =>
                LET p == cache'[s].pair
                IN cache'[s].result =
                     IF content[p[1]] = content[p[2]] THEN "identical" ELSE "different"
         /\ Matching(f1, k) => In([f1 |-> f1, f2 |-> Other(f1, k)], report')
<1> DEFINE f2 == Other(f1, k)
           p == <<InodeOf[f1], InodeOf[f2]>>
           line == [f1 |-> f1, f2 |-> f2]
           Exact(entry) == entry.pair \in Pairs =>
             entry.result = IF content[entry.pair[1]] = content[entry.pair[2]]
                            THEN "identical" ELSE "different"
<1>1. /\ pc = "compare" /\ f1 \in Names /\ InodeOf[f1] \in Inodes
      /\ report \in Seq([f1 : Names, f2 : Names])
      /\ cache \in [Slots -> [pair : Pairs, result : Results] \cup {NoEntry}]
  BY DEF Inv, ArchivesTypeOK, TypeOK, LiteStep, Compare
<1>2. f2 \in Names
  BY <1>1, MovedAssumption DEF Inv, ArchivesTypeOK, TypeOK, LiteInv, Wanted, Other
<1>3. Comparable(f2) => p \in Pairs /\ Slot(p) \in Slots
  BY <1>1, <1>2, LiteAssumption DEF Comparable, IsFile, Pairs
<1>4. line \in [f1 : Names, f2 : Names]
  BY <1>1, <1>2
<1>5. report' = Append(report, line) => In(line, report')
  <2> HIDE DEF line
  <2>1. In(line, Append(report, line)) <=> In(line, report) \/ line = line
    BY <1>1, <1>4, InAppend
  <2> QED
    BY <2>1
<1>6. Matching(f1, k) => ~Double(k) /\ Comparable(f2) /\ content[p[1]] = content[p[2]]
  BY DEF Matching, Alike, Comparable
<1>7. CASE UNCHANGED <<cache, calm, report>> /\ (Double(k) \/ ~Comparable(f2))
  BY <1>6, <1>7 DEF CalmInv
<1>8. CASE /\ Remembered(p) /\ Answer(f2, cache[Slot(p)].result)
           /\ UNCHANGED <<cache, calm>> /\ Comparable(f2)
  <2>1. cache[Slot(p)].pair = p /\ Exact(cache[Slot(p)])
    BY <1>3, <1>8 DEF Remembered, CalmInv
  <2>2. Matching(f1, k) => report' = Append(report, line)
    BY <1>3, <1>6, <1>8, <2>1 DEF Answer
  <2> QED
    BY <1>5, <1>8, <2>2 DEF CalmInv
<1>9. ASSUME NEW result \in Results, Fcmp(p, result), Comparable(f2),
             cache' = [cache EXCEPT ![Slot(p)] = [pair |-> p, result |-> result]],
             calm' = (calm /\ result # "error"), Answer(f2, result)
      PROVE  /\ calm
             /\ \A s \in Slots : Exact(cache'[s])
             /\ Matching(f1, k) => In(line, report')
  <2>1. calm /\ result # "error"
    BY <1>9
  <2>2. result = IF content[p[1]] = content[p[2]] THEN "identical" ELSE "different"
    BY <1>9, <2>1 DEF Fcmp
  <2>3. Exact([pair |-> p, result |-> result])
    BY <2>2
  <2>4. \A s \in Slots : Exact(cache[s])
    BY <2>1 DEF CalmInv
  <2>5. \A s \in Slots : cache'[s] = IF s = Slot(p) THEN [pair |-> p, result |-> result]
                                     ELSE cache[s]
    BY <1>1, <1>3, <1>9
  <2>6. \A s \in Slots : Exact(cache'[s])
    <3> HIDE DEF Exact
    <3> QED
      BY <2>3, <2>4, <2>5
  <2>7. Matching(f1, k) => report' = Append(report, line)
    BY <1>6, <1>9, <2>2 DEF Answer
  <2> QED
    BY <1>5, <2>1, <2>6, <2>7
<1>10. \/ UNCHANGED <<cache, calm, report>> /\ (Double(k) \/ ~Comparable(f2))
       \/ /\ Remembered(p) /\ Answer(f2, cache[Slot(p)].result)
          /\ UNCHANGED <<cache, calm>> /\ Comparable(f2)
       \/ \E result \in Results :
            /\ Fcmp(p, result) /\ Comparable(f2)
            /\ cache' = [cache EXCEPT ![Slot(p)] = [pair |-> p, result |-> result]]
            /\ calm' = (calm /\ result # "error")
            /\ Answer(f2, result)
  BY DEF LiteStep, Compare, CompareWith, Other
<1> QED
  BY <1>7, <1>8, <1>9, <1>10
(* What is in the report stays there.                                      *)
LEMMA ReportGrows ==
  ASSUME Inv, LiteStep, NEW x, In(x, report)
  PROVE  In(x, report')
<1>1. CASE UNCHANGED report
  BY <1>1
<1>2. CASE /\ Other(f1, k) \in Names
           /\ report' = Append(report, [f1 |-> f1, f2 |-> Other(f1, k)])
  <2> DEFINE line == [f1 |-> f1, f2 |-> Other(f1, k)]
  <2>1. report \in Seq([f1 : Names, f2 : Names]) /\ line \in [f1 : Names, f2 : Names]
    BY <1>2, ComparisonReports
  <2> HIDE DEF line
  <2>2. In(x, Append(report, line)) <=> In(x, report) \/ x = line
    BY <2>1, InAppend
  <2> QED
    BY <1>2, <2>2 DEF line
<1> QED
  BY <1>1, <1>2, ComparisonReports

(* Every step keeps the cache exact, and the report complete so far.       *)
LEMMA CalmNext ==
  ASSUME Inv, NamesInv, CalmInv, [ArchivesNext]_allVars
  PROVE  CalmInv'
<1> DEFINE Line(x, j) == [f1 |-> x, f2 |-> Other(x, j)]
           Cached == \A s \in Slots :
             cache[s].pair \in Pairs =>
               LET p == cache[s].pair
               IN cache[s].result = IF content[p[1]] = content[p[2]] THEN "identical"
                                    ELSE "different"
           Looked(i, j) == ~(pc = "compare" /\ i = taken /\ j >= k)
           Covered == \A i \in 1 .. taken, j \in 2 .. Len(Arguments), x \in Names :
             x = stdout[i] /\ Matching(x, j) /\ Looked(i, j) => In(Line(x, j), report)
<1>0. /\ taken \in 0 .. Len(stdout) /\ Len(stdout) \in Nat /\ k \in 2 .. Len(Arguments)
      /\ Len(Arguments) \in Nat
  BY LiteAssumption DEF Inv, ArchivesTypeOK, F!FsortTypeOK, TypeOK
<1>1. CalmInv <=> (calm => alike = Alike(content) /\ Cached /\ Covered)
  BY DEF CalmInv
<1>2. CASE ~calm'
  BY <1>2 DEF CalmInv
<1>3. ASSUME calm', calm, UNCHANGED <<content, alike>>, Cached',
             \A i \in 1 .. taken', j \in 2 .. Len(Arguments), x \in Names :
               x = stdout'[i] /\ Matching(x, j) /\ Looked(i, j)' => In(Line(x, j), report')
      PROVE  CalmInv'
  <2>1. \A x, j : (Matching(x, j) <=> Matching(x, j)') /\ Other(x, j)' = Other(x, j)
    BY <1>3 DEF Matching, Other, Wanted, IsFile, Double, Archive, Alike
  <2>2. alike' = Alike(content)'
    BY <1>1, <1>3 DEF Alike
  <2> QED
    BY <1>3, <2>1, <2>2 DEF CalmInv, In
<1>4. CASE FsortStep /\ calm'
  <2>1. UNCHANGED <<content, alike, cache, calm, pc, k, report>> /\ taken' = taken
    BY <1>4 DEF FsortStep, vars
  <2>2. \A i \in 1 .. taken : stdout'[i] = stdout[i]
    BY <1>0, <1>4, OutputGrows
  <2>3. Cached'
    BY <1>1, <1>4, <2>1
  <2> QED
    BY <1>1, <1>3, <1>4, <2>1, <2>2, <2>3
<1>5. CASE TakeName /\ calm'
  <2>1. /\ UNCHANGED <<content, alike, cache, calm, report>> /\ taken' = taken + 1
        /\ stdout' = stdout /\ pc = "read"
        /\ \/ ~Wanted(stdout[taken + 1]) /\ pc' = "read"
           \/ pc' = "compare" /\ k' = 2
    BY <1>5 DEF TakeName, ReadPath, fsort
  <2>2. Cached'
    BY <1>1, <1>5, <2>1
  <2>3. ASSUME NEW i \in 1 .. taken', NEW j \in 2 .. Len(Arguments), NEW x \in Names,
               x = stdout'[i], Matching(x, j), Looked(i, j)'
        PROVE  In(Line(x, j), report')
    <3>1. CASE i = taken + 1
      BY <2>1, <2>3, <3>1 DEF Matching
    <3>2. CASE i # taken + 1
      BY <1>0, <1>1, <1>5, <2>1, <2>3, <3>2
    <3> QED
      BY <3>1, <3>2
  <2> QED
    BY <1>3, <1>5, <2>1, <2>2, <2>3
<1>6. CASE End /\ calm'
  <2>1. /\ UNCHANGED <<content, alike, cache, calm, report, taken>>
        /\ stdout' = stdout /\ pc = "read"
    BY <1>6 DEF End, EndOfInput, fsort
  <2>2. Cached'
    BY <1>1, <1>6, <2>1
  <2> QED
    BY <1>1, <1>3, <1>6, <2>1, <2>2
<1>7. CASE LiteStep /\ calm'
  <2>1. /\ UNCHANGED <<content, alike, taken, f1>> /\ stdout' = stdout /\ pc = "compare"
        /\ \/ k' = k + 1 /\ pc' = "compare"
           \/ k = Len(Arguments) /\ pc' = "read"
    BY <1>7 DEF LiteStep, Compare, Advance, fsort
  <2>2. calm /\ Cached' /\ (Matching(f1, k) => In(Line(f1, k), report'))
    BY <1>7, <2>1, CalmCompares
  <2>3. f1 = stdout[taken]
    BY <2>1 DEF NamesInv
  <2>4. ASSUME NEW i \in 1 .. taken, NEW j \in 2 .. Len(Arguments), NEW x \in Names,
               x = stdout[i], Matching(x, j), Looked(i, j)'
        PROVE  In(Line(x, j), report')
    <3>1. CASE i = taken /\ j = k
      BY <2>2, <2>3, <2>4, <3>1
    <3>2. CASE ~(i = taken /\ j = k)
      <4>1. Looked(i, j)
        BY <1>0, <2>1, <2>4, <3>2
      <4>2. In(Line(x, j), report)
        BY <1>1, <2>2, <2>4, <4>1
      <4> QED
        BY <1>7, <4>2, ReportGrows
    <3> QED
      BY <3>1, <3>2
  <2> QED
    BY <1>3, <1>7, <2>1, <2>2, <2>4
<1>8. CASE WriteStep
  BY <1>2, <1>8 DEF WriteStep, Write
<1>9. CASE UNCHANGED allVars /\ calm'
  <2>1. /\ UNCHANGED <<content, alike, cache, calm, report, taken, pc, k>>
        /\ stdout' = stdout
    BY <1>9 DEF allVars, vars, fsort
  <2>2. Cached'
    BY <1>1, <1>9, <2>1
  <2> QED
    BY <1>1, <1>3, <1>9, <2>1, <2>2
<1> QED
  BY <1>2, <1>4, <1>5, <1>6, <1>7, <1>8, <1>9 DEF ArchivesNext

(* Every pair of counterparts that was found is looked at under a          *)
(* directory that is not the double of an earlier one.                     *)
LEMMA CounterpartMatches ==
  ASSUME Inv, NEW x \in Names, NEW y \in Names, Counterparts(x, y)
  PROVE  \E j \in 2 .. Len(Arguments) :
           Matching(x, j) /\ Other(x, j) \in Names /\ Located[Other(x, j)] = Located[y]
<1>1. PICK h \in 2 .. Len(Arguments) : Directory(h) # Directory(1) /\ Located[y].dir = Directory(h)
  BY DEF Counterparts
<1>2. Wanted(x) /\ Located[x].dir = Directory(1) /\ Begins(Archive(1), x)
  BY DEF Counterparts, Wanted
<1> DEFINE Same == {i \in 1 .. Len(Arguments) : Archive(i) = Archive(h)}
<1>3. Len(Arguments) \in Nat /\ Len(Arguments) >= 2 /\ h \in Same /\ Same \subseteq Nat
  BY LiteAssumption
<1>4. PICK j \in Same : \A i \in Same : j <= i
  <2> HIDE DEF Same
  <2> QED
    BY <1>3, LeastNumber
<1>5. j \in 1 .. Len(Arguments) /\ Archive(j) = Archive(h) /\ h \in 1 .. Len(Arguments)
  BY <1>1, <1>3, <1>4
<1>6. Directory(j) = Directory(h)
  BY <1>5, LocatedAssumption
<1>7. j \in 2 .. Len(Arguments)
  BY <1>1, <1>3, <1>5, <1>6
<1>8. ~Double(j)
  <2> SUFFICES ASSUME NEW i \in 1 .. j - 1, Archive(i) = Archive(j) PROVE FALSE
    BY DEF Double
  <2>1. i \in Same /\ i < j
    BY <1>3, <1>5
  <2> QED
    BY <1>3, <1>4, <2>1
<1>9. Other(x, j) \in Names
  BY <1>2, <1>7, MovedAssumption DEF Other
<1>10. Located[Other(x, j)] = Located[y]
  <2>1. Located[Other(x, j)] = [dir |-> Directory(j), rel |-> Located[x].rel]
    BY <1>2, <1>7, LocatedAssumption DEF Other
  <2>2. Located[y] = [dir |-> Located[y].dir, rel |-> Located[y].rel]
    BY LocatedAssumption
  <2> QED
    BY <1>1, <1>6, <2>1, <2>2 DEF Counterparts
<1>11. InodeOf[Other(x, j)] = InodeOf[y]
  BY <1>9, <1>10, LocatedAssumption
<1>12. Matching(x, j)
  BY <1>2, <1>8, <1>11 DEF Matching, Counterparts, IsFile
<1> QED
  BY <1>7, <1>9, <1>10, <1>12

(* Every line of the report is about counterparts that were found.         *)
LEMMA ReportedAreCounterparts ==
  ASSUME CompleteInv, calm, InFirstArchive, NEW m \in DOMAIN report
  PROVE  /\ report[m].f1 \in Names /\ report[m].f2 \in Names
         /\ In(report[m].f1, found)
         /\ Counterparts(report[m].f1, report[m].f2)
<1> DEFINE x == report[m].f1
           y == report[m].f2
<1>1. x \in Names /\ y \in Names
  <2>1. report \in Seq([f1 : Names, f2 : Names])
    BY DEF CompleteInv, Inv, LiteInv, TypeOK
  <2>2. report[m] \in [f1 : Names, f2 : Names]
    BY <2>1, ElementOfSeq, LenProperties
  <2> QED
    BY <2>2
<1>2. PICK i \in 1 .. taken : x = stdout[i]
  BY DEF CompleteInv, NamesInv
<1>3. In(x, found)
  <2>1. i \in DOMAIN stdout
    BY DEF CompleteInv, Inv, ArchivesTypeOK, F!FsortTypeOK
  <2> QED
    BY <1>2, <2>1 DEF In, CompleteInv, NamesInv
<1>4. /\ Wanted(x)
      /\ \E j \in 2 .. Len(Arguments) : ~Double(j) /\ y = Moved(x, Archive(1), Archive(j))
      /\ InodeOf[x] # InodeOf[y]
      /\ <<InodeOf[x], InodeOf[y]>> \in alike
  BY DEF CompleteInv, Inv, LiteInv, ReportedWereAlike
<1>5. PICK j \in 2 .. Len(Arguments) : y = Moved(x, Archive(1), Archive(j))
  BY <1>4
<1>6. Begins(Archive(1), x) /\ Located[x].dir = Directory(1)
  BY <1>3, <1>4 DEF Wanted, InFirstArchive, In
<1>7. Located[y] = [dir |-> Directory(j), rel |-> Located[x].rel]
  BY <1>1, <1>5, <1>6, LocatedAssumption
<1>8. Directory(j) # Directory(1)
  <2> SUFFICES ASSUME Directory(j) = Directory(1) PROVE FALSE
    OBVIOUS
  <2>1. Located[x] = Located[y]
    BY <1>1, <1>6, <1>7, LocatedAssumption
  <2> QED
    BY <1>1, <1>4, <2>1, LocatedAssumption
<1>9. IsFile(y) /\ alike = Alike(content)
  BY DEF CompleteInv, FilesReported, CalmInv
<1>10. Counterparts(x, y)
  BY <1>4, <1>5, <1>6, <1>7, <1>8, <1>9 DEF Counterparts
<1> QED
  BY <1>1, <1>3, <1>10

(* And all of them have a line in the end: what was found has been printed *)
(* by fsort, and what was printed has been read.                           *)
LEMMA CounterpartsAreReported ==
  ASSUME CompleteInv, calm, pc = "ended", NEW x \in Names, In(x, found), NEW y \in Names,
         Counterparts(x, y)
  PROVE  \E m \in DOMAIN report : Place(report[m]) = <<Located[x], Located[y]>>
<1>1. PICK j \in 2 .. Len(Arguments) :
        Matching(x, j) /\ Other(x, j) \in Names /\ Located[Other(x, j)] = Located[y]
  BY CounterpartMatches DEF CompleteInv
<1>2. input = <<>> /\ arr = <<>> /\ taken = Len(stdout)
  BY DEF CompleteInv, NamesInv
<1>3. In(x, stdout)
  BY <1>2 DEF CompleteInv, NamesInv, In
<1>4. PICK i \in 1 .. taken : stdout[i] = x
  BY <1>2, <1>3 DEF In, CompleteInv, Inv, ArchivesTypeOK, F!FsortTypeOK
<1>5. In([f1 |-> x, f2 |-> Other(x, j)], report)
  BY <1>1, <1>4 DEF CompleteInv, CalmInv
<1> QED
  BY <1>1, <1>5 DEF In, Place

(* In the end every pair of files of the same relative path and the same   *)
(* content has been reported, and no other pair, for any names, archives   *)
(* and caches, if nothing is written meanwhile, no read fails and no name  *)
(* only begins like the first archive (samearchive-lite.cpp, fsort.cpp).   *)
THEOREM ReportIsComplete == ArchivesSpec => []ReportComplete
<1>1. ArchivesInit => CompleteInv
  <2> SUFFICES ASSUME ArchivesInit PROVE CompleteInv
    OBVIOUS
  <2>1. report = <<>>
    BY DEF ArchivesInit, Init
  <2> QED
    BY <2>1, InvInit, NamesInit, CalmInit DEF CompleteInv, FilesReported
<1>2. CompleteInv /\ [ArchivesNext]_allVars => CompleteInv'
  BY InvNext, NamesNext, CalmNext, FilesReportedNext DEF CompleteInv
<1>3. CompleteInv => ReportComplete
  <2> DEFINE Reported == {Place(report[m]) : m \in DOMAIN report}
             Due == {q \in {found[m] : m \in DOMAIN found} \X Names : Counterparts(q[1], q[2])}
             Places == {<<Located[p[1]], Located[p[2]]>> : p \in Due}
  <2> SUFFICES ASSUME CompleteInv, pc = "ended", calm, InFirstArchive
               PROVE  Reported = Places
    BY DEF ReportComplete
  <2>1. found \in Seq(Names)
    BY DEF CompleteInv, NamesInv
  <2>2. ASSUME NEW place \in Reported PROVE place \in Places
    <3>1. PICK m \in DOMAIN report : place = Place(report[m])
      BY <2>2
    <3> DEFINE p == <<report[m].f1, report[m].f2>>
    <3>2. p \in Due
      BY ReportedAreCounterparts DEF In
    <3>3. place = <<Located[p[1]], Located[p[2]]>>
      BY <3>1 DEF Place
    <3> QED
      BY <3>2, <3>3
  <2>3. ASSUME NEW place \in Places PROVE place \in Reported
    <3>1. PICK p \in Due : place = <<Located[p[1]], Located[p[2]]>>
      BY <2>3
    <3>2. In(p[1], found) /\ p[2] \in Names /\ Counterparts(p[1], p[2])
      BY DEF In
    <3>3. p[1] \in Names
      BY <2>1, <3>2, ElementOfSeq, LenProperties DEF In
    <3>4. PICK m \in DOMAIN report : Place(report[m]) = <<Located[p[1]], Located[p[2]]>>
      BY <3>2, <3>3, CounterpartsAreReported
    <3> QED
      BY <3>1, <3>4
  <2> QED
    BY <2>2, <2>3
<1> QED
  BY <1>1, <1>2, <1>3, PTL DEF ArchivesSpec
===============================================================================
