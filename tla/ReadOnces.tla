------------------------------ MODULE ReadOnces ------------------------------
(***************************************************************************)
(* SizeGroup::compareFiles: which files of one size have the same content, *)
(* reading every file only once.                                           *)
(*                                                                         *)
(* A group holds n files.  Their pages are read side by side, one page of  *)
(* every file per round, and compared; a triangular matrix holds what is   *)
(* known about every pair, and a counter per file how many pairs of it are *)
(* decided.  A file whose counter reaches n - 1 is not read any further.   *)
(* Pairs nobody told apart are identical; the report then lists them.      *)
(*                                                                         *)
(* One matrix serves all groups in turn.  Opening and reading a file may   *)
(* fail, the process may run out of file descriptors, and out of memory,   *)
(* after which compareFiles is called again.                               *)
(***************************************************************************)
EXTENDS Integers, FiniteSets, Sequences

CONSTANTS
  n,           (* the files of a group                                      *)
  Pages,       (* the pages of a file                                       *)
  Values,      (* contents of a page                                        *)
  RelPaths,    (* names relative to the archive, for samearchive            *)
  Programs,    (* the programs that may run                                 *)
  Capacities,  (* the rows the matrix may have room for                     *)
  Slack,       (* 32: descriptors given back when there are no more         *)
  Fallible,    (* the calls that may fail                                   *)
  MaxFaults,   (* bound: program -> failed calls per group                  *)
  Stale        (* whatever a buffer holds that nothing was read into        *)

Files == 0 .. n - 1

ASSUME GroupAssumption ==
  /\ n \in Nat /\ n >= 2
  /\ Pages \in Nat /\ Pages >= 1
  /\ \A c \in Capacities : c \in Nat /\ c >= n
  /\ Slack \in Nat
  /\ MaxFaults \in [Programs -> Nat]
  /\ Stale \notin Values

ASSUME ProgramsAssumption ==
  /\ Programs \subseteq {"samefile", "samefile -x", "samearchive"}
  /\ Fallible \subseteq {"open", "nofile", "read", "memory"}

VARIABLES
  program,  (* the program and its options                                 *)
  capacity, (* the rows the matrix has room for                            *)
  content,  (* file -> its pages                                           *)
  rel,      (* file -> its name relative to its archive                    *)
  cell,     (* the matrix: what is known about a pair                      *)
  equal,    (* file -> its decided pairs                                   *)
  fd,       (* file -> the state of the descriptor the matrix holds for it *)
  max,      (* files from max on have no descriptor of their own           *)
  buffer,   (* file -> the page read last                                  *)
  pc, row, page,
  nIdenticals,
  lines,    (* the pairs reported                                          *)
  faults    (* the calls that failed since the matrix was clean            *)

group == <<program, capacity, content, rel>>
matrix == <<cell, equal, fd>>
vars == <<group, matrix, max, buffer, pc, row, page, nIdenticals, lines, faults>>

Pairs == {p \in Files \X Files : p[1] < p[2]}

Cells == Pairs \cup {<<n - 1, n - 1>>}

Results == {"unknown", "identical", "different", "identical by logic",
            "different by logic", "error"}

(* The types of the variables, and the ranges of the loop counters.        *)
TypeOK ==
  /\ program \in Programs
  /\ capacity \in Capacities
  /\ pc # "idle" => content \in [Files -> [1 .. Pages -> Values]]
  /\ pc # "idle" => rel \in [Files -> RelPaths]
  /\ cell \in [Cells -> Results]
  /\ equal \in [Files -> Nat]
  /\ fd \in [Files -> {"none", "failed", "open", "closed"}]
  /\ max \in 0 .. n
  /\ buffer \in [Files -> Values \cup {Stale}]
  /\ pc \in {"idle", "precheck", "open", "buffer", "read", "compare", "close",
             "mark", "logic", "report", "done", "crashed"}
  /\ row \in 0 .. n
  /\ page \in 1 .. Pages + 1
  /\ nIdenticals \in Int
  /\ lines \subseteq Pairs
  /\ faults \in Seq(Fallible)

-------------------------------------------------------------------------------
(* The matrix.  Row i starts at the cell for <<i, i>>, which only the last *)
(* row uses; rows overlap so that this cell is <<n - 2, n - 1>> in a       *)
(* matrix without room to spare.                                           *)

Slot(i, j) ==
  IF i = n - 1 /\ j = n - 1 /\ capacity = n THEN <<n - 2, n - 1>> ELSE <<i, j>>

Get(i, j) == cell[Slot(i, j)]

Filled(slots, result) ==
  [c \in Cells |-> IF c \in slots THEN result ELSE cell[c]]

(* Mutant of Alive: a file is given up one pair too early.                 *)
AliveOffByOne(i) == Get(i, n - 1) # "error" /\ equal[i] < n - 2

(* A file is worked on until its cell in the last column holds an error or *)
(* all its pairs are decided.                                              *)
Alive(i) == Get(i, n - 1) # "error" /\ equal[i] < n - 1

Counted(files) == [i \in Files |-> IF i \in files THEN equal[i] + 1 ELSE equal[i]]

Others(i) == Files \ {i}

Fails(kind) ==
  /\ kind \in Fallible
  /\ Len(faults) < MaxFaults[program]
  /\ faults' = Append(faults, kind)

Goto(step) ==
  /\ pc' = step
  /\ row' = 0

Init ==
  /\ program \in Programs
  /\ capacity \in Capacities
  /\ content = <<>>
  /\ rel = <<>>
  /\ cell = [c \in Cells |-> "unknown"]
  /\ equal = [i \in Files |-> 0]
  /\ fd = [i \in Files |-> "none"]
  /\ max = n
  /\ buffer = [i \in Files |-> Stale]
  /\ pc = "idle"
  /\ row = 0
  /\ page = 1
  /\ nIdenticals = 0
  /\ lines = {}
  /\ faults = <<>>

(* compareFiles is called for a group: any files of one size, and for      *)
(* samearchive any names in its archives.                                  *)
NextGroup ==
  /\ pc = "idle"
  /\ content' \in [Files -> [1 .. Pages -> Values]]
  /\ rel' \in [Files -> RelPaths]
  /\ program # "samearchive" => \A i \in Files : rel'[i] = rel'[0]
  /\ Goto("precheck")
  /\ UNCHANGED <<program, capacity, matrix, max, buffer, page, nIdenticals, lines, faults>>

NoGroup ==
  /\ content' = <<>>
  /\ rel' = <<>>
  /\ max' = n
  /\ buffer' = [i \in Files |-> Stale]
  /\ page' = 1
  /\ nIdenticals' = 0
  /\ lines' = {}
  /\ Goto("idle")
  /\ UNCHANGED <<program, capacity>>

(* samearchive's preCheck: the names differ, so nobody needs the result.   *)
PreCheck(i, j) == rel[i] # rel[j]

AvoidDiskAccess ==
  /\ pc = "precheck"
  /\ LET apart == {p \in Pairs : PreCheck(p[1], p[2])}
     IN /\ cell' = Filled(apart, "different")
        /\ equal' = [i \in Files |-> equal[i] + Cardinality({p \in apart : i \in {p[1], p[2]}})]
  /\ max' = n
  /\ Goto("open")
  /\ UNCHANGED <<group, fd, buffer, page, nIdenticals, lines, faults>>

-------------------------------------------------------------------------------
(* readOnlyOncesOpen, one file a step.                                     *)

OpenFile ==
  /\ fd' = [fd EXCEPT ![row] = "open"]
  /\ row' = row + 1
  /\ UNCHANGED <<cell, equal, max, pc, faults>>

(* Mutant of OpenNoDescriptors: one descriptor too few is given back.      *)
OpenNoDescriptorsOffByOne ==
  /\ Fails("nofile")
  /\ max' = IF row > Slack /\ max > row - Slack THEN row - Slack ELSE row \div 2
  /\ fd' = [i \in Files |->
              IF i = row THEN "failed"
              ELSE IF i \in max' + 1 .. row /\ fd[i] = "open" THEN "closed"
              ELSE fd[i]]
  /\ Goto("buffer")
  /\ UNCHANGED <<cell, equal>>

(* Mutant of OpenNoDescriptors: max is not lowered.                        *)
OpenNoDescriptorsKeepingMax ==
  /\ Fails("nofile")
  /\ max' = max
  /\ fd' = [fd EXCEPT ![row] = "failed"]
  /\ Goto("buffer")
  /\ UNCHANGED <<cell, equal>>

(* No descriptors left: give some back and open no more.  The first file's *)
(* descriptor is never given back.                                         *)
OpenNoDescriptors ==
  /\ Fails("nofile")
  /\ max' = IF row > Slack /\ max > row - Slack THEN row - Slack ELSE row \div 2
  /\ fd' = [i \in Files |->
              IF i = row THEN "failed"
              ELSE IF i \in max' .. row /\ i # 0 /\ fd[i] = "open" THEN "closed"
              ELSE fd[i]]
  /\ Goto("buffer")
  /\ UNCHANGED <<cell, equal>>

(* Unlike a failure to read, this marks the last column: from row on, no   *)
(* file is worked on any more.                                             *)
OpenError ==
  /\ Fails("open")
  /\ fd' = [fd EXCEPT ![row] = "failed"]
  /\ cell' = Filled({Slot(row, n - 1) : j \in 0 .. row - 1}
                      \cup {Slot(j, n - 1) : j \in row + 1 .. n - 1}, "error")
  /\ equal' = Counted(Others(row))
  /\ row' = row + 1
  /\ UNCHANGED <<max, pc>>

Open ==
  /\ pc = "open"
  /\ \/ /\ row < max /\ Alive(row)
        /\ OpenFile \/ OpenNoDescriptors \/ OpenError
     \/ /\ row < max /\ ~Alive(row)
        /\ row' = row + 1
        /\ UNCHANGED <<matrix, max, pc, faults>>
     \/ /\ row >= max
        /\ Goto("buffer")
        /\ UNCHANGED <<matrix, max, faults>>
  /\ UNCHANGED <<group, buffer, page, nIdenticals, lines>>

(* The page buffers.                                                       *)
GetBuffer ==
  /\ pc = "buffer"
  /\ Goto("read")
  /\ page' = 1
  /\ UNCHANGED <<group, matrix, max, buffer, nIdenticals, lines, faults>>

(* bad_alloc: compareFiles is called again, for this group or, when        *)
(* solveMemoryProblem removed it, for the next one.  The matrix is kept.   *)
OutOfMemory ==
  /\ pc = "buffer"
  /\ Fails("memory")
  /\ NoGroup
  /\ UNCHANGED matrix

-------------------------------------------------------------------------------
(* readOnlyOncesCompare: first a page of every file, then the comparisons. *)

NextRow == IF row < n - 1 THEN row' = row + 1 /\ UNCHANGED pc ELSE Goto("compare")

RowError ==
  /\ cell' = Filled({p \in Pairs : row \in {p[1], p[2]}}, "error")
  /\ equal' = Counted(Others(row))
  /\ UNCHANGED buffer

ReadPage ==
  \/ /\ buffer' = [buffer EXCEPT ![row] = content[row][page]]
     /\ UNCHANGED <<cell, equal, faults>>
  \/ /\ Fails("read")
     /\ RowError

(* The descriptor the matrix holds.                                        *)
ReadHeld ==
  /\ row <= max
  /\ \/ fd[row] = "open" /\ ReadPage
     \/ fd[row] # "open" /\ RowError /\ UNCHANGED faults
  /\ NextRow
  /\ UNCHANGED <<fd, max>>

(* Open the file, seek, read and close it again.  When there are no        *)
(* descriptors, one more file gives up its own; when no file has one left  *)
(* the code counts max down past 0 and runs off its arrays.                *)
ReadReopened ==
  /\ row > max
  /\ \/ /\ ReadPage
        /\ fd' = [fd EXCEPT ![row] = "closed"]
        /\ UNCHANGED max
        /\ NextRow
     \/ /\ Fails("open")
        /\ RowError
        /\ UNCHANGED <<fd, max>>
        /\ NextRow
     \/ /\ Fails("nofile") /\ max > 0
        /\ max' = max - 1
        /\ fd' = [fd EXCEPT ![row] = "closed", ![max - 1] = "closed"]
        /\ buffer' = [buffer EXCEPT ![row] = content[row][page]]
        /\ UNCHANGED <<cell, equal>>
        /\ NextRow
     \/ /\ Fails("nofile") /\ max = 0
        /\ Goto("crashed")
        /\ UNCHANGED <<matrix, max, buffer>>

Read ==
  /\ pc = "read"
  /\ \/ /\ Alive(row) /\ fd[row] # "failed"
        /\ ReadHeld \/ ReadReopened
     \/ /\ ~Alive(row) \/ fd[row] = "failed"
        /\ NextRow
        /\ UNCHANGED <<matrix, max, buffer, faults>>
  /\ UNCHANGED <<group, page, nIdenticals, lines>>

(* Mutant of Differ: a file that could not be read is compared as well.    *)
DifferIgnoringErrors(i) ==
  {j \in i + 1 .. n - 1 :
     equal[j] # n - 1 /\ Get(i, j) # "different" /\ buffer[i] # buffer[j]}

Differ(i) ==
  {j \in i + 1 .. n - 1 :
     /\ equal[j] # n - 1
     /\ Get(j, n - 1) # "error"
     /\ Get(i, j) # "different"
     /\ buffer[i] # buffer[j]}

CompareRow ==
  IF Alive(row)
  THEN /\ cell' = Filled({<<row, j>> : j \in Differ(row)}, "different")
       /\ equal' = [i \in Files |->
                      IF i = row THEN equal[i] + Cardinality(Differ(row))
                      ELSE IF i \in Differ(row) THEN equal[i] + 1
                      ELSE equal[i]]
  ELSE UNCHANGED <<cell, equal>>

Compare ==
  /\ pc = "compare"
  /\ CompareRow
  /\ IF row < n - 1 THEN row' = row + 1 /\ UNCHANGED <<pc, page>>
     ELSE /\ page' = page + 1
          /\ Goto(IF page < Pages THEN "read" ELSE "close")
  /\ UNCHANGED <<group, fd, max, buffer, nIdenticals, lines, faults>>

(* readOnlyOncesClose.                                                     *)
Close ==
  /\ pc = "close"
  /\ fd' = [i \in Files |-> IF i < max /\ fd[i] = "open" THEN "closed" ELSE fd[i]]
  /\ Goto("mark")
  /\ UNCHANGED <<group, cell, equal, max, buffer, page, nIdenticals, lines, faults>>

-------------------------------------------------------------------------------
(* readOnlyOncesMark and processResults.                                   *)

Mark ==
  /\ pc = "mark"
  /\ LET undecided == {p \in Pairs : cell[p] = "unknown"}
     IN /\ cell' = Filled(undecided, "identical")
        /\ nIdenticals' = Cardinality(undecided)
  /\ Goto("logic")
  /\ UNCHANGED <<group, equal, fd, max, buffer, page, lines, faults>>

(* What row says about two later files: both identical to it, or just one. *)
Implied(p, result) ==
  /\ row < p[1]
  /\ {Get(row, p[1]), Get(row, p[2])} = {"identical", result}

(* Mutant of MarkByLogic: nothing is marked.                               *)
MarkNothingByLogic ==
  /\ pc = "logic"
  /\ Goto("report")
  /\ UNCHANGED <<group, matrix, max, buffer, page, nIdenticals, lines, faults>>

(* Mutant of MarkByLogic: what follows by logic is counted all the same.   *)
MarkByLogicCounting ==
  /\ pc = "logic"
  /\ cell' = [p \in Cells |->
                IF p \in Pairs /\ Implied(p, "identical") THEN "identical by logic"
                ELSE IF p \in Pairs /\ Implied(p, "different") THEN "different by logic"
                ELSE cell[p]]
  /\ IF row < n - 1 THEN row' = row + 1 /\ UNCHANGED pc ELSE Goto("report")
  /\ UNCHANGED <<group, equal, fd, max, buffer, page, nIdenticals, lines, faults>>

MarkByLogic ==
  /\ pc = "logic"
  /\ cell' = [p \in Cells |->
                IF p \in Pairs /\ Implied(p, "identical") THEN "identical by logic"
                ELSE IF p \in Pairs /\ Implied(p, "different") THEN "different by logic"
                ELSE cell[p]]
  /\ nIdenticals' = nIdenticals - Cardinality({p \in Pairs : Implied(p, "identical")})
  /\ IF row < n - 1 THEN row' = row + 1 /\ UNCHANGED pc ELSE Goto("report")
  /\ UNCHANGED <<group, equal, fd, max, buffer, page, lines, faults>>

(* Mutant of Selected: the default of samefile for every program.          *)
SelectedByDefault == {"identical"}

Selected ==
  IF program = "samefile" THEN {"identical"} ELSE {"identical", "identical by logic"}

(* Mutant of Report: the two files of a line change places.                *)
ReportSwapped ==
  /\ pc = "report"
  /\ lines' = {<<p[2], p[1]>> : p \in {q \in Pairs : cell[q] \in Selected}}
  /\ Goto("done")
  /\ UNCHANGED <<group, matrix, max, buffer, page, nIdenticals, faults>>

(* processResults calls printFileCompare, which for samearchive leaves out *)
(* pairs with different names.                                             *)
Report ==
  /\ pc = "report"
  /\ lines' = {p \in Pairs : cell[p] \in Selected /\ rel[p[1]] = rel[p[2]]}
  /\ Goto("done")
  /\ UNCHANGED <<group, matrix, max, buffer, page, nIdenticals, faults>>

(* Mutant of Reset: the counters keep what an earlier group left.          *)
ResetKeepingCounts ==
  /\ pc = "done"
  /\ cell' = [c \in Cells |-> "unknown"]
  /\ fd' = [i \in Files |-> "none"]
  /\ faults' = <<>>
  /\ NoGroup
  /\ UNCHANGED equal

(* match.reset: the matrix is clean for the next group.                    *)
Reset ==
  /\ pc = "done"
  /\ cell' = [c \in Cells |-> "unknown"]
  /\ equal' = [i \in Files |-> 0]
  /\ fd' = [i \in Files |-> "none"]
  /\ faults' = <<>>
  /\ NoGroup

Next ==
  \/ NextGroup \/ AvoidDiskAccess \/ Open \/ GetBuffer \/ OutOfMemory
  \/ Read \/ Compare \/ Close \/ Mark \/ MarkByLogic \/ Report \/ Reset

Spec == Init /\ [][Next]_vars

-------------------------------------------------------------------------------
NoFaults == faults = <<>>

Struck(kind) == \E k \in DOMAIN faults : faults[k] = kind

(* Files whose identity is to be reported.                                 *)
Alike(i, j) == content[i] = content[j] /\ rel[i] = rel[j]

Class(i) == {j \in Files : Alike(i, j)}

(* A file no line names second: what is left once the files in the third   *)
(* field are removed.                                                      *)
Left == {i \in Files : \A p \in lines : p[2] # i}

(* Two files are told apart only by a page in which they differ, or by     *)
(* their names; a file that could not be read, whose buffer still holds    *)
(* an old page, is not compared at all (readOnlyOncesCompare's checks of   *)
(* the last column).                                                       *)
DifferentIsTrue ==
  pc \in {"open", "buffer", "read", "compare", "close", "mark"}
  /\ ~Struck("nofile") /\ ~Struck("memory") =>
    \A p \in Pairs : cell[p] = "different" => ~Alike(p[1], p[2])

(* A file's counter is the number of files it was told apart from, also in *)
(* a matrix that served an earlier group: a file is given up before its    *)
(* last page only when it is like no other.                                *)
CountsDifferences ==
  pc \in {"open", "buffer", "read", "compare", "close", "mark"} /\ NoFaults =>
    \A i \in Files :
      equal[i] = Cardinality({p \in Pairs : i \in {p[1], p[2]} /\ cell[p] = "different"})

(* The files of a reported line have the same content, although not every  *)
(* page of every file was read and compared (samefile.1: two filenames     *)
(* with identical contence).                                               *)
ReportedAreAlike ==
  pc = "done" /\ NoFaults => \A p \in lines : Alike(p[1], p[2])

(* The same without the proviso that every call succeeded.                 *)
ReportedAreAlikeAlways ==
  pc = "done" => \A p \in lines : Alike(p[1], p[2])

(* Removing the files in the third field leaves one file of each content   *)
(* (samefile.1, INTERNALS); by default each of them is listed once, so the *)
(* sizes in the first column add up to the space that is gained.           *)
OneOfEachLeft ==
  pc = "done" /\ NoFaults =>
    /\ \A i \in Files : Cardinality(Class(i) \cap Left) = 1
    /\ program = "samefile" => Cardinality(lines) = n - Cardinality(Left)

(* samefile -x and samearchive list every pair of files that are alike,    *)
(* whether it was compared or follows by logic.                            *)
FullListComplete ==
  pc = "done" /\ NoFaults /\ program # "samefile" =>
    lines = {p \in Pairs : Alike(p[1], p[2])}

(* The statistics count every superfluous file once: marking by logic      *)
(* takes back just the pairs that readOnlyOncesMark counted too often.     *)
WasteIsCounted ==
  pc = "done" /\ NoFaults => nIdenticals = n - Cardinality({Class(i) : i \in Files})

(* No descriptor stays open when a group is done with, also not when they  *)
(* ran out; the first file's is the exception if they ran out that early.  *)
DescriptorsClosed ==
  pc = "done" /\ ~Struck("memory") =>
    \A i \in Files : fd[i] = "open" => i = 0 /\ Struck("nofile")

(* A file that is worked on has been tried to open: descriptor 0, standard *)
(* input, is never read in its place.                                      *)
NeverReadsStdin ==
  pc = "read" /\ ~Struck("memory") =>
    \A i \in Files : i <= max /\ Alive(i) => fd[i] # "none"
===============================================================================
