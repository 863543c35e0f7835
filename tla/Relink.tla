-------------------------------- MODULE Relink --------------------------------
(***************************************************************************)
(* sameln: replacing one of two identical files by a link to the other.    *)
(*                                                                         *)
(* Every sameln process works through the lines of a samefile report.  A   *)
(* line names two files; the flags of the run choose which one is kept     *)
(* (dst) and which one becomes a link to it (src).  The process takes the  *)
(* meta data of both files, compares them (or trusts its result cache) and *)
(* then relinks with five system calls: link src to a backup name, unlink  *)
(* src, link dst to src, and unlink the backup, with a restore of the      *)
(* backup when the link could not be made.                                 *)
(*                                                                         *)
(* Any number of processes share one file system.  Every system call is a  *)
(* step of its own, any of them may fail, and a process may be killed      *)
(* between any two of them.                                                *)
(***************************************************************************)
EXTENDS Naturals, FiniteSets

CONSTANTS
  Procs,        (* sameln processes                                        *)
  Paths,        (* the names that occur in reports                         *)
  BackupOf,     (* path -> the name path.sameln.0                          *)
  Dev,          (* path -> the file system its directory is on             *)
  Inodes,       (* inode numbers                                           *)
  Data,         (* contents of regular files                               *)
  Lines,        (* process -> the [dst, src] lines its report may hold     *)
  InitEntry,    (* path -> the inode it names at first                     *)
  InitContent,  (* inode -> its content at first                           *)
  Symlink,      (* option -s: symlink across file systems                  *)
  Fallible,     (* the system calls that may fail for reasons of their own *)
  MaxLines,     (* bound: process -> the lines it reads                    *)
  MaxCrashes,   (* bound: kills, over all processes                        *)
  Absent        (* the directory holds no such name                        *)

PathNames == Paths \cup {BackupOf[n] : n \in Paths}

ASSUME PathsAssumption ==
  /\ Absent \notin Inodes
  /\ IsFiniteSet(Paths)
  /\ Data \cap Paths = {}
  /\ Symlink \in BOOLEAN
  /\ MaxLines \in [Procs -> Nat]
  /\ MaxCrashes \in Nat

ASSUME InitialFiles ==
  /\ InitEntry \in [Paths -> Inodes]
  /\ InitContent \in [Inodes -> Data]

ASSUME LinesAssumption ==
  Lines \in [Procs -> SUBSET [dst : Paths, src : Paths]]

(* The backup is the path with ".sameln.0" appended: two paths never share *)
(* one, and no report names one.                                           *)
ASSUME BackupNames ==
  /\ \A n \in Paths : BackupOf[n] \notin Paths
  /\ \A m, n \in Paths : BackupOf[m] = BackupOf[n] => m = n

VARIABLES
  entry,    (* name -> the inode it names, or Absent                       *)
  content,  (* inode -> data, or the path a symbolic link points to        *)
  pc,       (* process -> the system call it is about to make              *)
  line,     (* process -> the line it works on                             *)
  ino,      (* process -> the inodes lstat gave for the line               *)
  cache,    (* process -> remembered comparison results, by inode pair     *)
  outcome,  (* process -> what became of its last line                     *)
  lines,    (* process -> the number of lines it has finished              *)
  crashes   (* the number of kills so far                                  *)

vars == <<entry, content, pc, line, ino, cache, outcome, lines, crashes>>

Steps == {"read", "compare", "backup", "remove", "link", "restore", "undo", "delete"}

Outcomes == {"none", "skipped", "untouched", "dismissed", "again", "success",
             "failed_remove", "failed_link", "failed_restore", "failed_delete"}

NoLine == [dst |-> Absent, src |-> Absent]

FilesTypeOK ==
  /\ entry \in [PathNames -> Inodes \cup {Absent}]
  /\ content \in [Inodes -> Data \cup Paths]

ProcsTypeOK ==
  /\ pc \in [Procs -> Steps]
  /\ line \in [Procs -> [dst : Paths, src : Paths] \cup {NoLine}]
  /\ ino \in [Procs -> [dst : Inodes, src : Inodes] \cup {NoLine}]
  /\ outcome \in [Procs -> Outcomes]
  /\ lines \in [Procs -> Nat]
  /\ crashes \in Nat
  /\ \A p \in Procs : pc[p] # "read" =>
       line[p] \in Lines[p] /\ ino[p] \in [dst : Inodes, src : Inodes]

(* The variables have their types, and a process at work has a line of its *)
(* own report and the inodes lstat gave for it.                            *)
TypeOK ==
  /\ FilesTypeOK
  /\ ProcsTypeOK
  /\ cache \in [Procs -> [Inodes \X Inodes -> {"none", "identical", "other"}]]

-------------------------------------------------------------------------------
(* The file system.                                                        *)

Present(n) == entry[n] # Absent

Named(i) == \E n \in PathNames : entry[n] = i

IsLink(i) == content[i] \in Paths

(* link(2) makes a new name for what an old name refers to.                *)
CanLink(old, new) == Present(old) /\ ~Present(new)

Follow(i) == IF i # Absent /\ IsLink(i) THEN entry[content[i]] ELSE i

(* The inode at the end of the symbolic links that start at n, or Absent   *)
(* for a dangling link or a cycle.                                         *)
Deref(n) ==
  IF ~Present(n) \/ ~IsLink(entry[n]) THEN entry[n]
  ELSE LET hop[k \in 0 .. Cardinality(Paths)] ==
             IF k = 0 THEN entry[n] ELSE Follow(hop[k - 1])
           last == hop[Cardinality(Paths)]
       IN IF last = Absent \/ IsLink(last) THEN Absent ELSE last

Readable(n) == Deref(n) # Absent

Reads(n) == content[Deref(n)]

-------------------------------------------------------------------------------
Init ==
  /\ entry = [n \in PathNames |-> IF n \in Paths THEN InitEntry[n] ELSE Absent]
  /\ content = InitContent
  /\ pc = [p \in Procs |-> "read"]
  /\ line = [p \in Procs |-> NoLine]
  /\ ino = [p \in Procs |-> NoLine]
  /\ cache = [p \in Procs |-> [pair \in Inodes \X Inodes |-> "none"]]
  /\ outcome = [p \in Procs |-> "none"]
  /\ lines = [p \in Procs |-> 0]
  /\ crashes = 0

Src(p) == line[p].src
Dst(p) == line[p].dst
Backup(p) == BackupOf[line[p].src]
SameDev(p) == Dev[Dst(p)] = Dev[Src(p)]

Goto(p, step) ==
  /\ pc' = [pc EXCEPT ![p] = step]
  /\ UNCHANGED <<line, ino, outcome, lines, crashes>>

(* The line is done with; the process goes on with the next one.           *)
Finish(p, result) ==
  /\ pc' = [pc EXCEPT ![p] = "read"]
  /\ line' = [line EXCEPT ![p] = NoLine]
  /\ ino' = [ino EXCEPT ![p] = NoLine]
  /\ outcome' = [outcome EXCEPT ![p] = result]
  /\ lines' = [lines EXCEPT ![p] = @ + 1]
  /\ UNCHANGED crashes

SetEntry(n, i) == entry' = [entry EXCEPT ![n] = i]

(* Mutant of ReadLine: the meta data of the previous line is kept.         *)
ReadLineWithoutStat(p) ==
  /\ pc[p] = "read"
  /\ lines[p] < MaxLines[p]
  /\ \E l \in Lines[p] : line' = [line EXCEPT ![p] = l]
  /\ pc' = [pc EXCEPT ![p] = "compare"]
  /\ UNCHANGED <<entry, content, ino, cache, outcome, lines, crashes>>

(* A line is read; lstat of both its files.                                *)
TakeLine(p, l) ==
  /\ \/ /\ Present(l.dst) /\ Present(l.src)
        /\ pc' = [pc EXCEPT ![p] = "compare"]
        /\ line' = [line EXCEPT ![p] = l]
        /\ ino' = [ino EXCEPT ![p] = [dst |-> entry[l.dst], src |-> entry[l.src]]]
        /\ outcome' = [outcome EXCEPT ![p] = "none"]
        /\ UNCHANGED <<lines, crashes>>
     \/ /\ ~Present(l.dst) \/ ~Present(l.src)
        /\ Finish(p, "skipped")
  /\ UNCHANGED <<entry, content, cache>>

ReadLine(p) ==
  /\ pc[p] = "read"
  /\ lines[p] < MaxLines[p]
  /\ \E l \in Lines[p] : TakeLine(p, l)

(* Mutant of Fcmp: files of the same size are taken to be identical.       *)
FcmpSizeOnly(p) ==
  IF IsLink(ino[p].dst) = IsLink(ino[p].src) THEN "identical" ELSE "other"

(* fcmp: the same inode, or the same size and the same bytes.  lstat gives *)
(* a symbolic link the length of its target as its size: never that of a   *)
(* regular file here, and taken to be the same for every symbolic link.    *)
Fcmp(p) ==
  IF \/ ino[p].dst = ino[p].src
     \/ /\ IsLink(ino[p].dst) = IsLink(ino[p].src)
        /\ Readable(Dst(p)) /\ Readable(Src(p))
        /\ Reads(Dst(p)) = Reads(Src(p))
  THEN "identical" ELSE "other"

(* What relink() does with a comparison before it touches anything.        *)
Decide(p, result) ==
  \/ /\ result = "other"
     /\ Finish(p, "untouched")
  \/ /\ result = "identical" /\ ino[p].dst = ino[p].src
     /\ Finish(p, "dismissed")
  \/ /\ result = "identical" /\ ino[p].dst # ino[p].src
     /\ ~Symlink /\ ~SameDev(p)
     /\ Finish(p, "again")
  \/ /\ result = "identical" /\ ino[p].dst # ino[p].src
     /\ Symlink \/ SameDev(p)
     /\ Goto(p, "backup")

(* The pair is not in the cache, or another pair has taken its slot.       *)
Compare(p) ==
  /\ pc[p] = "compare"
  /\ cache' = [cache EXCEPT ![p][<<ino[p].dst, ino[p].src>>] = Fcmp(p)]
  /\ Decide(p, Fcmp(p))
  /\ UNCHANGED <<entry, content>>

(* The pair is in the cache: nothing is read.                              *)
CompareCached(p) ==
  /\ pc[p] = "compare"
  /\ cache[p][<<ino[p].dst, ino[p].src>>] # "none"
  /\ Decide(p, cache[p][<<ino[p].dst, ino[p].src>>])
  /\ UNCHANGED <<entry, content, cache>>

(* Mutant of MakeBackup: the versions before 1.2, which made no backup.    *)
MakeNoBackup(p) ==
  /\ pc[p] = "backup"
  /\ Goto(p, "remove")
  /\ UNCHANGED <<entry, content, cache>>

(* Mutant of MakeBackup: try again for as long as the name is taken.       *)
MakeBackupRetrying(p) ==
  /\ pc[p] = "backup"
  /\ CanLink(Src(p), Backup(p))
  /\ SetEntry(Backup(p), entry[Src(p)])
  /\ Goto(p, "remove")
  /\ UNCHANGED <<content, cache>>

(* link(src, backup).  A failure is not noticed: backup_error holds the    *)
(* result of a comparison, so it is never negative.                        *)
MakeBackup(p) ==
  /\ pc[p] = "backup"
  /\ \/ /\ CanLink(Src(p), Backup(p))
        /\ SetEntry(Backup(p), entry[Src(p)])
     \/ /\ ~CanLink(Src(p), Backup(p)) \/ "backup" \in Fallible
        /\ UNCHANGED entry
  /\ Goto(p, "remove")
  /\ UNCHANGED <<content, cache>>

(* unlink(src).                                                            *)
RemoveSource(p) ==
  /\ pc[p] = "remove"
  /\ \/ /\ Present(Src(p))
        /\ SetEntry(Src(p), Absent)
        /\ Goto(p, "link")
     \/ /\ ~Present(Src(p)) \/ "remove" \in Fallible
        /\ Finish(p, "failed_remove")
        /\ UNCHANGED entry
  /\ UNCHANGED <<content, cache>>

(* link(dst, src).                                                         *)
PlaceHardLink(p) ==
  /\ SameDev(p)
  /\ CanLink(Dst(p), Src(p))
  /\ SetEntry(Src(p), entry[Dst(p)])
  /\ UNCHANGED content

(* Mutant of PlaceSymlink: the arguments of symlink the wrong way round.   *)
PlaceSymlinkSwapped(p) ==
  /\ ~SameDev(p)
  /\ ~Present(Src(p))
  /\ \E i \in {j \in Inodes : ~Named(j)} :
       /\ SetEntry(Src(p), i)
       /\ content' = [content EXCEPT ![i] = Src(p)]

(* symlink(dst, src): takes an inode no name refers to.                    *)
PlaceSymlink(p) ==
  /\ ~SameDev(p)
  /\ ~Present(Src(p))
  /\ \E i \in {j \in Inodes : ~Named(j)} :
       /\ SetEntry(Src(p), i)
       /\ content' = [content EXCEPT ![i] = Dst(p)]

PlaceLink(p) ==
  /\ pc[p] = "link"
  /\ \/ /\ PlaceHardLink(p) \/ PlaceSymlink(p)
        /\ Goto(p, "delete")
     \/ /\ \/ SameDev(p) /\ ~CanLink(Dst(p), Src(p))
           \/ ~SameDev(p) /\ Present(Src(p))
           \/ "link" \in Fallible
        /\ Goto(p, "restore")
        /\ UNCHANGED <<entry, content>>
  /\ UNCHANGED cache

(* Mutant of RestoreSource: the backup is deleted without being restored.  *)
RestoreNothing(p) ==
  /\ pc[p] = "restore"
  /\ Goto(p, "undo")
  /\ UNCHANGED <<entry, content, cache>>

(* link(backup, src), after the link to dst could not be made.             *)
RestoreSource(p) ==
  /\ pc[p] = "restore"
  /\ \/ /\ CanLink(Backup(p), Src(p))
        /\ SetEntry(Src(p), entry[Backup(p)])
        /\ Goto(p, "undo")
     \/ /\ ~CanLink(Backup(p), Src(p)) \/ "restore" \in Fallible
        /\ Finish(p, "failed_restore")
        /\ UNCHANGED entry
  /\ UNCHANGED <<content, cache>>

(* unlink(backup), after the restore ("undo") or the new link ("delete").  *)
DeleteBackup(p) ==
  /\ pc[p] \in {"undo", "delete"}
  /\ \/ /\ Present(Backup(p))
        /\ SetEntry(Backup(p), Absent)
        /\ Finish(p, IF pc[p] = "undo" THEN "failed_link" ELSE "success")
     \/ /\ ~Present(Backup(p)) \/ "delete" \in Fallible
        /\ Finish(p, "failed_delete")
        /\ UNCHANGED entry
  /\ UNCHANGED <<content, cache>>

(* The process is killed; whoever ran it may run it again.                 *)
Crash(p) ==
  /\ crashes < MaxCrashes
  /\ crashes' = crashes + 1
  /\ pc' = [pc EXCEPT ![p] = "read"]
  /\ line' = [line EXCEPT ![p] = NoLine]
  /\ ino' = [ino EXCEPT ![p] = NoLine]
  /\ cache' = [cache EXCEPT ![p] = [pair \in Inodes \X Inodes |-> "none"]]
  /\ outcome' = [outcome EXCEPT ![p] = "none"]
  /\ UNCHANGED <<entry, content, lines>>

Work(p) ==
  \/ Compare(p) \/ CompareCached(p)
  \/ MakeBackup(p) \/ RemoveSource(p) \/ PlaceLink(p)
  \/ RestoreSource(p) \/ DeleteBackup(p)

Next == \E p \in Procs : ReadLine(p) \/ Work(p) \/ Crash(p)

Spec == Init /\ [][Next]_vars

(* A process that works on a line is scheduled until it is done with it.   *)
FairSpec == Spec /\ \A p \in Procs : WF_vars(Work(p))

-------------------------------------------------------------------------------
(* What the guarantees below take for granted.  Two processes do not       *)
(* replace the same path, and the link to the backup's name fails only     *)
(* when that name is taken.                                                *)
DisjointSources ==
  \A p, q \in Procs : p # q =>
    \A l \in Lines[p], m \in Lines[q] : l.src # m.src

BackupsWork == "backup" \notin Fallible

(* Symbolic links point one way: the lines that cross file systems keep    *)
(* the file of the lower level, and no other line keeps one of a higher    *)
(* level than the one it replaces.  Options -A and -Z see to that, with    *)
(* the places of the names in their order as levels.                       *)
LinksDescend ==
  \E level \in [Paths -> 0 .. Cardinality(Paths) - 1] :
    \A p \in Procs : \A l \in Lines[p] :
      IF Dev[l.dst] = Dev[l.src] THEN level[l.dst] <= level[l.src]
                                 ELSE level[l.dst] < level[l.src]

(* No file name is ever lost: at every moment, a kill included, the path   *)
(* or its backup is a name (sameln.cpp makes the backup before it unlinks, *)
(* and deletes it only once the path is a name again).                     *)
NameOrBackup == \A n \in Paths : Present(n) \/ Present(BackupOf[n])

Original(n) == InitContent[InitEntry[n]]

(* The files of a line had the same content at first.                      *)
ReportsRight ==
  \A p \in Procs : \A l \in Lines[p] : Original(l.dst) = Original(l.src)

(* Whatever a path or its backup can be read as is what the path held at   *)
(* first: relinking on a comparison or on a cached result, restoring, and  *)
(* backups that earlier runs left behind never give a path other content.  *)
ContentKept ==
  \A n \in Paths :
    \A m \in {n, BackupOf[n]} : Readable(m) => Reads(m) = Original(n)

(* Chains of symbolic links neither dangle nor form a cycle while no path  *)
(* is between its unlink and its new link.                                 *)
NoDanglingLink ==
  (\A n \in Paths : Present(n)) => \A n \in Paths : Readable(n)

LineEnds(p) == pc[p] # "read" /\ pc'[p] = "read"

(* A line leaves its file missing only when the result says so, with       *)
(* FAILED_RESTORE, or when the process is killed; and after a success or   *)
(* an undone link no backup is left.                                       *)
OutcomeTellsState ==
  [][\A p \in Procs : LineEnds(p) =>
       /\ outcome'[p] \notin {"none", "failed_restore"} => entry'[Src(p)] # Absent
       /\ outcome'[p] \in {"success", "failed_link"} => entry'[Backup(p)] = Absent]_vars

(* Every line that is begun is done with: no retry goes on for ever, also  *)
(* when an old backup occupies the backup's name.                          *)
LinesEnd == \A p \in Procs : pc[p] # "read" ~> pc[p] = "read"
===============================================================================
