------------------------------- MODULE Archives -------------------------------
(***************************************************************************)
(*   find dir1 | fsort | samearchive-lite dir1 dir2 ...                    *)
(*                                                                         *)
(* samearchive-lite reads what fsort prints, as soon as it is printed;     *)
(* with option -o these are the names as they came.                        *)
(***************************************************************************)
EXTENDS Lite

CONSTANTS
  Inputs,    (* the names find may print                                   *)
  EntryOf,   (* what fsort's lstat gave for a name, see Fsort              *)
  Half,      (* an int goes from -Half to Half - 1                         *)
  Located    (* name or directory -> [dir, rel], the directory that it is  *)
             (* in or is itself and its name there                         *)

VARIABLES
  found,                             (* the names find printed             *)
  toFile, input, arr, stage, stdout, file,   (* fsort                      *)
  taken                              (* the names samearchive-lite has read*)

Existing == {n \in Names : InodeOf[n] # Absent}

F == INSTANCE Fsort WITH Found <- Existing

fsort == <<toFile, input, arr, stage, stdout, file>>

ASSUME ArchivesAssumption ==
  /\ Half \in Nat \ {0}
  /\ \A n \in Existing : EntryOf[n] \in F!Entries /\ EntryOf[n].size = Size[InodeOf[n]]
  /\ \A names \in Inputs : names \in Seq(Names)

allVars == <<vars, found, fsort, taken>>

ArchivesInit ==
  /\ Init
  /\ F!FsortInit
  /\ taken = 0
  /\ found = input

FsortStep ==
  /\ F!FsortStep
  /\ UNCHANGED <<vars, taken, found>>

TakeName ==
  /\ taken < Len(stdout)
  /\ ReadPath(stdout[taken + 1])
  /\ taken' = taken + 1
  /\ UNCHANGED <<fsort, found>>

End ==
  /\ stage = "done" /\ taken = Len(stdout)
  /\ EndOfInput
  /\ UNCHANGED <<fsort, taken, found>>

LiteStep ==
  /\ Compare
  /\ UNCHANGED <<fsort, taken, found>>

WriteStep ==
  /\ \E i \in Shared : Write(i)
  /\ UNCHANGED <<fsort, taken, found>>

ArchivesNext == FsortStep \/ TakeName \/ End \/ LiteStep \/ WriteStep

ArchivesSpec == ArchivesInit /\ [][ArchivesNext]_allVars

-------------------------------------------------------------------------------
(* The types of both programs' variables.                                  *)
ArchivesTypeOK ==
  /\ TypeOK
  /\ F!FsortTypeOK
  /\ taken \in 0 .. Len(stdout)

Directory(j) == Located[Arguments[j]].dir

(* A file is known by its directory and its name there, and a name that is *)
(* moved keeps the latter.                                                 *)
ASSUME LocatedAssumption ==
  /\ \A x \in Names : Located[x] = [dir |-> Located[x].dir, rel |-> Located[x].rel]
  /\ \A x, y \in Names : Located[x] = Located[y] => InodeOf[x] = InodeOf[y]
  /\ \A i, j \in 1 .. Len(Arguments) : Archive(i) = Archive(j) => Directory(i) = Directory(j)
  /\ \A x \in Names : Begins(Archive(1), x) /\ Located[x].dir = Directory(1) =>
       \A j \in 2 .. Len(Arguments) :
         Located[Moved(x, Archive(1), Archive(j))] =
           [dir |-> Directory(j), rel |-> Located[x].rel]

(* No name that find printed is in a directory whose name only begins like *)
(* the first argument.                                                     *)
InFirstArchive ==
  \A m \in DOMAIN found :
    Begins(Archive(1), found[m]) => Located[found[m]].dir = Directory(1)

(* What samearchive-lite is for: two files with the same name relative to  *)
(* the first archive and another one, and with the same content.           *)
Counterparts(x, y) ==
  /\ Located[x].dir = Directory(1)
  /\ \E j \in 2 .. Len(Arguments) :
       Directory(j) # Directory(1) /\ Located[y].dir = Directory(j)
  /\ Located[x].rel = Located[y].rel
  /\ Wanted(x) /\ IsFile(y)
  /\ InodeOf[x] # InodeOf[y]
  /\ <<InodeOf[x], InodeOf[y]>> \in Alike(content)

Place(line) == <<Located[line.f1], Located[line.f2]>>

(* In the end every pair of files with the same relative path and the same *)
(* content was reported, and no other pair (man/samearchive-lite.1: "The   *)
(* output will only contain filename pairs that have the same relative     *)
(* path from the archive base"), through fsort, the prefix test, the       *)
(* doubled directories and a cache whose slots collide.                    *)
ReportComplete ==
  pc = "ended" /\ calm /\ InFirstArchive =>
    {Place(report[m]) : m \in DOMAIN report} =
      {<<Located[p[1]], Located[p[2]]>> :
         p \in {q \in {found[m] : m \in DOMAIN found} \X Names :
                   Counterparts(q[1], q[2])}}

FileSize(line) == Size[InodeOf[line.f1]]

(* fsort's comparison does not contradict itself: sizes, devices and inode *)
(* numbers differ by no more than an int holds.                            *)
AllFoundNear ==
  \A l, m \in DOMAIN found :
    {found[l], found[m]} \subseteq Existing =>
      F!AllNear(EntryOf[found[l]], EntryOf[found[m]])

(* Larger files are reported first (man/samearchive-lite.1: "The output is *)
(* sorted in reverse order by size as the primary key"): fsort's order,    *)
(* without -o, which its comparison keeps as long as numbers are near.     *)
ReportSorted ==
  ~toFile /\ AllFoundNear =>
    \A l, m \in DOMAIN report : l < m => FileSize(report[l]) >= FileSize(report[m])
===============================================================================
