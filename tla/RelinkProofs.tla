----------------------------- MODULE RelinkProofs -----------------------------
(***************************************************************************)
(* Proofs about Relink, for any number of processes, paths and lines.      *)
(***************************************************************************)
EXTENDS Relink, FiniteSetTheorems, WellFoundedInduction, TLAPS

USE DEF Src, Dst, Backup, Present, CanLink, SetEntry

-------------------------------------------------------------------------------
(* Type correctness.                                                       *)

(* A process at work has a line of its report, so it names real paths.     *)
LEMMA AtWork ==
  ASSUME ProcsTypeOK, NEW p \in Procs, pc[p] # "read"
  PROVE  /\ line[p] \in Lines[p]
         /\ Src(p) \in Paths /\ Dst(p) \in Paths
         /\ Src(p) \in PathNames /\ Dst(p) \in PathNames /\ Backup(p) \in PathNames
         /\ ino[p].dst \in Inodes /\ ino[p].src \in Inodes
<1>1. line[p] \in Lines[p] /\ ino[p] \in [dst : Inodes, src : Inodes]
  BY DEF ProcsTypeOK
<1>2. line[p] \in [dst : Paths, src : Paths]
  BY <1>1, LinesAssumption
<1> QED
  BY <1>1, <1>2 DEF PathNames

(* Going on to the next system call keeps the types of the process state.  *)
LEMMA GotoType ==
  ASSUME ProcsTypeOK, NEW p \in Procs, pc[p] # "read", NEW s \in Steps, Goto(p, s)
  PROVE  ProcsTypeOK'
BY DEF ProcsTypeOK, Goto

(* So does finishing a line.                                               *)
LEMMA FinishType ==
  ASSUME ProcsTypeOK, NEW p \in Procs, NEW r \in Outcomes, Finish(p, r)
  PROVE  ProcsTypeOK'
BY DEF ProcsTypeOK, Finish, Steps

(* A directory operation on a name keeps the type of the directory.        *)
LEMMA SetEntryType ==
  ASSUME FilesTypeOK, NEW n \in PathNames, NEW i \in Inodes \cup {Absent},
         SetEntry(n, i), UNCHANGED content
  PROVE  FilesTypeOK'
BY DEF FilesTypeOK

(* Either way a comparison goes, the types of the process state hold.      *)
LEMMA DecideType ==
  ASSUME ProcsTypeOK, NEW p \in Procs, pc[p] # "read", NEW r, Decide(p, r)
  PROVE  ProcsTypeOK'
BY GotoType, FinishType DEF Decide, Steps, Outcomes

(* Init and every step keep the types.                                     *)
THEOREM TypeInvariant == Spec => []TypeOK
<1>1. Init => TypeOK
  BY PathsAssumption, InitialFiles
  DEF Init, TypeOK, FilesTypeOK, ProcsTypeOK, Steps, Outcomes
<1>2. TypeOK /\ [Next]_vars => TypeOK'
  <2> SUFFICES ASSUME TypeOK, [Next]_vars PROVE TypeOK'
    OBVIOUS
  <2>0. FilesTypeOK /\ ProcsTypeOK
    BY DEF TypeOK
  <2>1. ASSUME NEW p \in Procs, ReadLine(p) PROVE TypeOK'
    <3>1. PICK l \in Lines[p] : TakeLine(p, l)
      BY <2>1 DEF ReadLine
    <3>2. l \in [dst : Paths, src : Paths]
      BY LinesAssumption
    <3>3. CASE Present(l.dst) /\ Present(l.src)
      <4>1. [dst |-> entry[l.dst], src |-> entry[l.src]] \in [dst : Inodes, src : Inodes]
        BY <2>0, <3>2, <3>3 DEF FilesTypeOK, PathNames
      <4>2. ProcsTypeOK'
        BY <2>0, <3>1, <3>2, <3>3, <4>1 DEF TakeLine, ProcsTypeOK, Steps, Outcomes
      <4> QED
        BY <3>1, <4>2 DEF TakeLine, TypeOK, FilesTypeOK
    <3>4. CASE ~(Present(l.dst) /\ Present(l.src))
      <4>1. ProcsTypeOK'
        BY <2>0, <3>1, <3>4, FinishType DEF TakeLine, Outcomes
      <4> QED
        BY <3>1, <4>1 DEF TakeLine, TypeOK, FilesTypeOK
    <3> QED
      BY <3>3, <3>4
  <2>2. ASSUME NEW p \in Procs, Compare(p) PROVE TypeOK'
    BY <2>0, <2>2, DecideType, AtWork DEF Compare, Fcmp, TypeOK, FilesTypeOK
  <2>3. ASSUME NEW p \in Procs, CompareCached(p) PROVE TypeOK'
    BY <2>0, <2>3, DecideType DEF CompareCached, TypeOK, FilesTypeOK
  <2>4. ASSUME NEW p \in Procs, MakeBackup(p) PROVE TypeOK'
    <3>1. ProcsTypeOK'
      BY <2>0, <2>4, GotoType DEF MakeBackup, Steps
    <3>2. FilesTypeOK'
      BY <2>0, <2>4, AtWork DEF MakeBackup, FilesTypeOK
    <3> QED
      BY <2>4, <3>1, <3>2 DEF MakeBackup, TypeOK
  <2>5. ASSUME NEW p \in Procs, RemoveSource(p) PROVE TypeOK'
    <3>1. ProcsTypeOK'
      BY <2>0, <2>5, GotoType, FinishType DEF RemoveSource, Steps, Outcomes
    <3>2. FilesTypeOK'
      BY <2>0, <2>5, AtWork DEF RemoveSource, FilesTypeOK
    <3> QED
      BY <2>5, <3>1, <3>2 DEF RemoveSource, TypeOK
  <2>6. ASSUME NEW p \in Procs, PlaceLink(p) PROVE TypeOK'
    <3>1. ProcsTypeOK'
      BY <2>0, <2>6, GotoType DEF PlaceLink, Steps
    <3>2. FilesTypeOK'
      BY <2>0, <2>6, AtWork
      DEF PlaceLink, PlaceHardLink, PlaceSymlink, FilesTypeOK
    <3> QED
      BY <2>6, <3>1, <3>2 DEF PlaceLink, TypeOK
  <2>7. ASSUME NEW p \in Procs, RestoreSource(p) PROVE TypeOK'
    <3>1. ProcsTypeOK'
      BY <2>0, <2>7, GotoType, FinishType DEF RestoreSource, Steps, Outcomes
    <3>2. FilesTypeOK'
      BY <2>0, <2>7, AtWork DEF RestoreSource, FilesTypeOK
    <3> QED
      BY <2>7, <3>1, <3>2 DEF RestoreSource, TypeOK
  <2>8. ASSUME NEW p \in Procs, DeleteBackup(p) PROVE TypeOK'
    <3>1. ProcsTypeOK'
      BY <2>0, <2>8, FinishType DEF DeleteBackup, Outcomes
    <3>2. FilesTypeOK'
      BY <2>0, <2>8, AtWork DEF DeleteBackup, FilesTypeOK
    <3> QED
      BY <2>8, <3>1, <3>2 DEF DeleteBackup, TypeOK
  <2>9. ASSUME NEW p \in Procs, Crash(p) PROVE TypeOK'
    BY <2>9 DEF Crash, TypeOK, FilesTypeOK, ProcsTypeOK, Steps, Outcomes
  <2>10. CASE UNCHANGED vars
    BY <2>10 DEF vars, TypeOK, FilesTypeOK, ProcsTypeOK
  <2> QED
    BY <2>1, <2>2, <2>3, <2>4, <2>5, <2>6, <2>7, <2>8, <2>9, <2>10 DEF Next, Work
<1> QED
  BY <1>1, <1>2, PTL DEF Spec

-------------------------------------------------------------------------------
(* No file name is ever lost.  NameOrBackup is not inductive: a process    *)
(* that is about to unlink its source must already have the backup, and    *)
(* one that is about to delete the backup must have put the source back.   *)
BackupInv ==
  /\ \A p \in Procs :
       /\ pc[p] \in {"compare", "backup", "remove", "undo", "delete"} => Present(Src(p))
       /\ pc[p] \in {"remove", "link", "restore"} => Present(Backup(p))
  /\ NameOrBackup

(* What a step of p leaves alone: the sources and backups of all others.   *)
LEMMA OthersUntouched ==
  ASSUME TypeOK, DisjointSources, NEW p \in Procs, NEW q \in Procs, p # q,
         pc[p] # "read", pc[q] # "read",
         NEW n \in {Src(p), Backup(p)}, NEW i, SetEntry(n, i)
  PROVE  entry'[Src(q)] = entry[Src(q)] /\ entry'[Backup(q)] = entry[Backup(q)]
<1>1. line[p] \in Lines[p] /\ line[q] \in Lines[q] /\ Src(p) \in Paths /\ Src(q) \in Paths
  BY AtWork DEF TypeOK
<1>2. Src(p) # Src(q)
  BY <1>1 DEF DisjointSources
<1>3. n # Src(q) /\ n # Backup(q)
  BY <1>1, <1>2, BackupNames
<1>4. Src(q) \in PathNames /\ Backup(q) \in PathNames
  BY AtWork DEF TypeOK
<1> QED
  BY <1>3, <1>4 DEF TypeOK, FilesTypeOK

(* A step that sets one of its own two names and goes on, or finishes, is  *)
(* harmless when it leaves its own part of the invariant true.             *)
LEMMA OwnStep ==
  ASSUME TypeOK, BackupInv, DisjointSources, NEW p \in Procs, pc[p] # "read",
         \/ UNCHANGED entry
         \/ \E n \in {Src(p), Backup(p)} : \E i : SetEntry(n, i),
         \/ \E s \in Steps : Goto(p, s)
         \/ \E r \in Outcomes : Finish(p, r),
         pc'[p] \in {"compare", "backup", "remove", "undo", "delete"} => entry'[Src(p)] # Absent,
         pc'[p] \in {"remove", "link", "restore"} => entry'[Backup(p)] # Absent,
         entry'[Src(p)] # Absent \/ entry'[Backup(p)] # Absent
  PROVE  BackupInv'
<1>1. Src(p) \in Paths /\ Src(p) \in PathNames /\ Backup(p) \in PathNames
  BY AtWork DEF TypeOK
<1>2. /\ pc \in [Procs -> Steps]
      /\ line \in [Procs -> [dst : Paths, src : Paths] \cup {NoLine}]
  BY DEF TypeOK, ProcsTypeOK
<1>3. \A q \in Procs : q # p => pc'[q] = pc[q] /\ line'[q] = line[q]
  BY <1>2 DEF Goto, Finish
<1>4. pc'[p] # "read" => line'[p] = line[p]
  BY <1>2 DEF Goto, Finish
<1>5. ASSUME NEW q \in Procs
      PROVE  /\ pc'[q] \in {"compare", "backup", "remove", "undo", "delete"} =>
                  entry'[Src(q)'] # Absent
             /\ pc'[q] \in {"remove", "link", "restore"} => entry'[Backup(q)'] # Absent
  <2>1. CASE q = p
    BY <1>4, <2>1
  <2>2. CASE q # p /\ pc[q] # "read"
    BY <1>3, <2>2, OthersUntouched DEF BackupInv
  <2>3. CASE q # p /\ pc[q] = "read"
    BY <1>3, <2>3
  <2> QED
    BY <2>1, <2>2, <2>3
<1>6. ASSUME NEW n \in Paths
      PROVE  entry'[n] # Absent \/ entry'[BackupOf[n]] # Absent
  <2>1. CASE n = Src(p)
    BY <2>1
  <2>2. CASE n # Src(p)
    <3>1. n # Backup(p) /\ BackupOf[n] # Src(p) /\ BackupOf[n] # Backup(p)
      BY <1>1, <2>2, BackupNames
    <3>2. n \in PathNames /\ BackupOf[n] \in PathNames
      BY DEF PathNames
    <3>3. CASE UNCHANGED entry
      BY <3>3 DEF BackupInv, NameOrBackup
    <3>4. ASSUME NEW m \in {Src(p), Backup(p)}, NEW i, SetEntry(m, i)
          PROVE  entry'[n] = entry[n] /\ entry'[BackupOf[n]] = entry[BackupOf[n]]
      <4>1. n # m /\ BackupOf[n] # m
        BY <2>2, <3>1
      <4> QED
        BY <3>2, <3>4, <4>1 DEF TypeOK, FilesTypeOK
    <3> QED
      BY <3>3, <3>4 DEF BackupInv, NameOrBackup
  <2> QED
    BY <2>1, <2>2
<1> QED
  BY <1>5, <1>6 DEF BackupInv, NameOrBackup

(* Whatever fails and whoever is killed, every path or its backup is a     *)
(* name, as long as making the backup does not fail unseen.                *)
THEOREM NoNameLost ==
  ASSUME DisjointSources, BackupsWork
  PROVE  Spec => []NameOrBackup
<1>1. Init => BackupInv
  BY PathsAssumption, InitialFiles, BackupNames DEF Init, BackupInv, NameOrBackup, PathNames
<1>2. TypeOK /\ BackupInv /\ [Next]_vars => BackupInv'
  <2> SUFFICES ASSUME TypeOK, BackupInv, [Next]_vars PROVE BackupInv'
    OBVIOUS
  <2>0. /\ entry \in [PathNames -> Inodes \cup {Absent}]
        /\ pc \in [Procs -> Steps]
        /\ \A p \in Procs : pc[p] # "read" =>
             /\ Src(p) \in Paths /\ Src(p) \in PathNames /\ Backup(p) \in PathNames
             /\ Src(p) # Backup(p)
             /\ Present(Src(p)) \/ Present(Backup(p))
    BY AtWork, BackupNames DEF TypeOK, FilesTypeOK, ProcsTypeOK, BackupInv, NameOrBackup
  <2>1. ASSUME NEW p \in Procs, ReadLine(p) PROVE BackupInv'
    <3>1. PICK l \in Lines[p] : TakeLine(p, l)
      BY <2>1 DEF ReadLine
    <3>2. /\ UNCHANGED entry
          /\ \A q \in Procs : q # p => pc'[q] = pc[q] /\ line'[q] = line[q]
      BY <3>1 DEF TakeLine, Finish, TypeOK, ProcsTypeOK
    <3>3. \/ pc'[p] = "read"
          \/ pc'[p] = "compare" /\ line'[p] = l /\ Present(l.src)
      BY <3>1 DEF TakeLine, Finish, TypeOK, ProcsTypeOK
    <3> QED
      BY <3>2, <3>3 DEF BackupInv, NameOrBackup
  <2>2. ASSUME NEW p \in Procs, NEW r, pc[p] = "compare", Decide(p, r), UNCHANGED entry
        PROVE  BackupInv'
    BY <2>0, <2>2, OwnStep DEF Decide, Goto, Finish, Steps, Outcomes, BackupInv
  <2>3. ASSUME NEW p \in Procs, Compare(p) \/ CompareCached(p) PROVE BackupInv'
    BY <2>2, <2>3 DEF Compare, CompareCached
  <2>4. ASSUME NEW p \in Procs, MakeBackup(p) PROVE BackupInv'
    <3>1. pc[p] = "backup" /\ pc'[p] = "remove" /\ Goto(p, "remove")
      BY <2>0, <2>4 DEF MakeBackup, Goto
    <3>2. Present(Src(p))
      BY <3>1 DEF BackupInv
    <3>3. /\ entry'[Src(p)] # Absent /\ entry'[Backup(p)] # Absent
          /\ \/ UNCHANGED entry
             \/ \E i : SetEntry(Backup(p), i)
      BY <2>0, <2>4, <3>1, <3>2, BackupsWork DEF MakeBackup, BackupsWork
    <3> QED
      BY <3>1, <3>3, OwnStep DEF Steps
  <2>5. ASSUME NEW p \in Procs, RemoveSource(p) PROVE BackupInv'
    BY <2>0, <2>5, OwnStep DEF RemoveSource, Goto, Finish, Steps, Outcomes, BackupInv
  <2>6. ASSUME NEW p \in Procs, PlaceLink(p) PROVE BackupInv'
    <3>1. pc[p] = "link" /\ Present(Backup(p)) /\ Src(p) # Backup(p) /\ Src(p) \in PathNames
      BY <2>0, <2>6 DEF PlaceLink, BackupInv
    <3>2. CASE PlaceHardLink(p) \/ PlaceSymlink(p)
      <4>1. \E i \in Inodes : SetEntry(Src(p), i)
        <5>1. CASE PlaceHardLink(p)
          BY <2>0, <3>1, <5>1, AtWork DEF PlaceHardLink, TypeOK
        <5>2. CASE PlaceSymlink(p)
          BY <5>2 DEF PlaceSymlink
        <5> QED
          BY <3>2, <5>1, <5>2
      <4>2. entry'[Src(p)] # Absent /\ entry'[Backup(p)] # Absent
        BY <2>0, <3>1, <4>1, PathsAssumption
      <4>3. \E s \in Steps : Goto(p, s)
        BY <2>6 DEF PlaceLink, Steps
      <4> QED
        BY <3>1, <4>1, <4>2, <4>3, OwnStep
    <3>3. CASE UNCHANGED entry /\ Goto(p, "restore")
      BY <2>0, <3>1, <3>3, OwnStep DEF Goto, Steps
    <3> QED
      BY <2>6, <3>2, <3>3 DEF PlaceLink
  <2>7. ASSUME NEW p \in Procs, RestoreSource(p) PROVE BackupInv'
    BY <2>0, <2>7, OwnStep DEF RestoreSource, Goto, Finish, Steps, Outcomes, BackupInv
  <2>8. ASSUME NEW p \in Procs, DeleteBackup(p) PROVE BackupInv'
    BY <2>0, <2>8, OwnStep DEF DeleteBackup, Finish, Outcomes, BackupInv
  <2>9. ASSUME NEW p \in Procs, Crash(p) PROVE BackupInv'
    BY <2>0, <2>9 DEF Crash, BackupInv, NameOrBackup, TypeOK, ProcsTypeOK
  <2>10. CASE UNCHANGED vars
    BY <2>10 DEF vars, BackupInv, NameOrBackup
  <2> QED
    BY <2>1, <2>3, <2>4, <2>5, <2>6, <2>7, <2>8, <2>9, <2>10 DEF Next, Work
<1>3. BackupInv => NameOrBackup
  BY DEF BackupInv
<1> QED
  BY <1>1, <1>2, <1>3, TypeInvariant, PTL DEF Spec

-------------------------------------------------------------------------------
(* No path ever reads as anything else.  Without symbolic links contents   *)
(* never change and every name, path or backup, refers to an inode with    *)
(* the content its path had at first.  For that to be inductive the line a *)
(* process works on must, once compared, join two paths of equal content,  *)
(* and a remembered "identical" must be true of the inodes it is about.    *)
SameContent(n, i) == InitContent[i] = Original(n)

ContentInv ==
  /\ content = InitContent
  /\ \A n \in Paths :
       /\ Present(n) => SameContent(n, entry[n])
       /\ Present(BackupOf[n]) => SameContent(n, entry[BackupOf[n]])
  /\ \A p \in Procs :
       /\ pc[p] # "read" => /\ SameContent(Dst(p), ino[p].dst)
                            /\ SameContent(Src(p), ino[p].src)
       /\ pc[p] \notin {"read", "compare"} =>
            Original(Dst(p)) = Original(Src(p)) /\ SameDev(p)
       /\ \A i, j \in Inodes :
            cache[p][<<i, j>>] = "identical" => InitContent[i] = InitContent[j]

(* Without symbolic links a name is read as the content of its inode.      *)
LEMMA PlainRead ==
  ASSUME TypeOK, content = InitContent, NEW n \in PathNames
  PROVE  Deref(n) = entry[n]
<1>1. Present(n) => content[entry[n]] \in Data
  BY InitialFiles DEF TypeOK, FilesTypeOK
<1> QED
  BY <1>1, PathsAssumption DEF Deref, IsLink

(* So a comparison says "identical" of equal contents only.                *)
LEMMA FcmpSound ==
  ASSUME TypeOK, ContentInv, NEW p \in Procs, pc[p] # "read", Fcmp(p) = "identical"
  PROVE  /\ Original(Dst(p)) = Original(Src(p))
         /\ InitContent[ino[p].dst] = InitContent[ino[p].src]
<1>1. Src(p) \in PathNames /\ Dst(p) \in PathNames /\ Src(p) \in Paths /\ Dst(p) \in Paths
  BY AtWork DEF TypeOK
<1>2. SameContent(Dst(p), ino[p].dst) /\ SameContent(Src(p), ino[p].src)
  BY DEF ContentInv
<1>3. CASE ino[p].dst = ino[p].src
  BY <1>2, <1>3 DEF SameContent
<1>4. CASE Readable(Dst(p)) /\ Readable(Src(p)) /\ Reads(Dst(p)) = Reads(Src(p))
  <2>1. Deref(Dst(p)) = entry[Dst(p)] /\ Deref(Src(p)) = entry[Src(p)]
    BY <1>1, PlainRead DEF ContentInv
  <2>2. Original(Dst(p)) = Original(Src(p))
    BY <1>1, <1>4, <2>1 DEF Readable, Reads, ContentInv, SameContent
  <2> QED
    BY <1>2, <2>2 DEF SameContent
<1> QED
  BY <1>3, <1>4 DEF Fcmp

(* Steps that touch the file system of src or its backup only, with an     *)
(* inode of the right content, keep the invariant.                         *)
LEMMA OwnContent ==
  ASSUME TypeOK, ContentInv, NEW p \in Procs, pc[p] \notin {"read", "compare"},
         \/ UNCHANGED entry
         \/ \E n \in {Src(p), Backup(p)} : \E i \in Inodes \cup {Absent} :
              SetEntry(n, i) /\ (i # Absent => SameContent(Src(p), i)),
         \/ \E s \in Steps : Goto(p, s)
         \/ \E r \in Outcomes : Finish(p, r),
         UNCHANGED <<content, cache>>
  PROVE  ContentInv'
<1>1. Src(p) \in Paths /\ Src(p) \in PathNames /\ Backup(p) \in PathNames
  BY AtWork DEF TypeOK
<1>2. ASSUME NEW n \in Paths, NEW m \in {n, BackupOf[n]}
      PROVE  entry'[m] # Absent => SameContent(n, entry'[m])
  <2>1. CASE UNCHANGED entry
    BY <2>1 DEF ContentInv
  <2>2. ASSUME NEW k \in {Src(p), Backup(p)}, NEW i \in Inodes \cup {Absent},
               SetEntry(k, i), i # Absent => SameContent(Src(p), i)
        PROVE  entry'[m] # Absent => SameContent(n, entry'[m])
    <3>1. m \in PathNames
      BY DEF PathNames
    <3>2. CASE m = k
      <4>1. n = Src(p)
        BY <1>1, <3>2, BackupNames
      <4> QED
        BY <2>2, <3>1, <3>2, <4>1 DEF TypeOK, FilesTypeOK
    <3>3. CASE m # k
      BY <2>2, <3>1, <3>3 DEF TypeOK, FilesTypeOK, ContentInv
    <3> QED
      BY <3>2, <3>3
  <2> QED
    BY <2>1, <2>2
<1>3. ASSUME NEW q \in Procs
      PROVE  /\ pc'[q] # "read" => pc[q] # "read" /\ line'[q] = line[q] /\ ino'[q] = ino[q]
             /\ pc'[q] \notin {"read", "compare"} => pc[q] \notin {"read", "compare"}
  <2>1. CASE q = p
    BY <2>1 DEF Goto, Finish, TypeOK, ProcsTypeOK
  <2>2. CASE q # p
    BY <2>2 DEF Goto, Finish, TypeOK, ProcsTypeOK
  <2> QED
    BY <2>1, <2>2
<1> QED
  BY <1>2, <1>3 DEF ContentInv, SameDev, SameContent, Original

(* As long as no symbolic links are made, whatever any path or its backup  *)
(* can be read as is what the path held at first, for any reports, any     *)
(* failures (the backup's too) and any number of processes and kills.      *)
THEOREM ContentAlwaysKept ==
  ASSUME Symlink = FALSE
  PROVE  Spec => []ContentKept
<1>1. Init => ContentInv
  <2> SUFFICES ASSUME Init PROVE ContentInv
    OBVIOUS
  <2>1. \A n \in Paths : n \in PathNames /\ BackupOf[n] \in PathNames /\ BackupOf[n] \notin Paths
    BY BackupNames DEF PathNames
  <2>2. \A n \in Paths : entry[n] = InitEntry[n] /\ entry[BackupOf[n]] = Absent
    BY <2>1 DEF Init
  <2>3. \A p \in Procs : pc[p] = "read"
    BY DEF Init
  <2>4. \A p \in Procs : \A i, j \in Inodes : cache[p][<<i, j>>] = "none"
    BY DEF Init
  <2> QED
    BY <2>2, <2>3, <2>4 DEF Init, ContentInv, SameContent, Original
<1>2. TypeOK /\ ContentInv /\ [Next]_vars => ContentInv'
  <2> SUFFICES ASSUME TypeOK, ContentInv, [Next]_vars PROVE ContentInv'
    OBVIOUS
  <2>0. /\ entry \in [PathNames -> Inodes \cup {Absent}]
        /\ pc \in [Procs -> Steps]
        /\ line \in [Procs -> [dst : Paths, src : Paths] \cup {NoLine}]
        /\ ino \in [Procs -> [dst : Inodes, src : Inodes] \cup {NoLine}]
        /\ cache \in [Procs -> [Inodes \X Inodes -> {"none", "identical", "other"}]]
        /\ \A p \in Procs : pc[p] # "read" =>
             /\ Src(p) \in Paths /\ Dst(p) \in Paths
             /\ Src(p) \in PathNames /\ Dst(p) \in PathNames /\ Backup(p) \in PathNames
             /\ ino[p].dst \in Inodes /\ ino[p].src \in Inodes
    BY AtWork DEF TypeOK, FilesTypeOK, ProcsTypeOK
  <2>1. ASSUME NEW p \in Procs, ReadLine(p) PROVE ContentInv'
    <3>1. PICK l \in Lines[p] : TakeLine(p, l)
      BY <2>1 DEF ReadLine
    <3>2. l.dst \in Paths /\ l.src \in Paths
      BY LinesAssumption
    <3>3. /\ UNCHANGED <<entry, content, cache>>
          /\ \A q \in Procs : q # p =>
               pc'[q] = pc[q] /\ line'[q] = line[q] /\ ino'[q] = ino[q]
      BY <2>0, <3>1 DEF TakeLine, Finish
    <3>4. \/ pc'[p] = "read"
          \/ /\ pc'[p] = "compare" /\ line'[p] = l
             /\ ino'[p].dst = entry[l.dst] /\ ino'[p].src = entry[l.src]
             /\ Present(l.dst) /\ Present(l.src)
      BY <2>0, <3>1 DEF TakeLine, Finish
    <3> QED
      BY <3>2, <3>3, <3>4 DEF ContentInv, SameContent, Original, SameDev
  <2>2. ASSUME NEW p \in Procs, NEW r, pc[p] = "compare", Decide(p, r),
               r = "identical" => Original(Dst(p)) = Original(Src(p)),
               UNCHANGED <<entry, content>>,
               \A q \in Procs : \A i, j \in Inodes :
                 cache'[q][<<i, j>>] = "identical" => InitContent[i] = InitContent[j]
        PROVE  ContentInv'
    <3>1. \A q \in Procs : q # p =>
            pc'[q] = pc[q] /\ line'[q] = line[q] /\ ino'[q] = ino[q]
      BY <2>0, <2>2 DEF Decide, Goto, Finish
    <3>2. \/ pc'[p] = "read"
          \/ /\ pc'[p] = "backup" /\ line'[p] = line[p] /\ ino'[p] = ino[p]
             /\ r = "identical" /\ SameDev(p)
      BY <2>0, <2>2 DEF Decide, Goto, Finish
    <3> QED
      BY <2>2, <3>1, <3>2 DEF ContentInv, SameContent, Original, SameDev
  <2>3. ASSUME NEW p \in Procs, Compare(p) PROVE ContentInv'
    <3>1. Fcmp(p) = "identical" => /\ Original(Dst(p)) = Original(Src(p))
                                   /\ InitContent[ino[p].dst] = InitContent[ino[p].src]
      BY <2>3, FcmpSound DEF Compare
    <3>2. ASSUME NEW q \in Procs, NEW i \in Inodes, NEW j \in Inodes,
                 cache'[q][<<i, j>>] = "identical"
          PROVE  InitContent[i] = InitContent[j]
      <4>1. CASE q = p /\ i = ino[p].dst /\ j = ino[p].src
        BY <2>0, <2>3, <3>1, <3>2, <4>1 DEF Compare
      <4>2. CASE ~(q = p /\ i = ino[p].dst /\ j = ino[p].src)
        <5>1. cache'[q][<<i, j>>] = cache[q][<<i, j>>]
          BY <2>0, <2>3, <4>2 DEF Compare
        <5> QED
          BY <3>2, <5>1 DEF ContentInv
      <4> QED
        BY <4>1, <4>2
    <3> QED
      BY <2>2, <2>3, <3>1, <3>2 DEF Compare
  <2>4. ASSUME NEW p \in Procs, CompareCached(p) PROVE ContentInv'
    <3>1. cache[p][<<ino[p].dst, ino[p].src>>] = "identical" =>
            Original(Dst(p)) = Original(Src(p))
      BY <2>0, <2>4 DEF CompareCached, ContentInv, SameContent
    <3> QED
      BY <2>2, <2>4, <3>1 DEF CompareCached, ContentInv
  <2>5. ASSUME NEW p \in Procs, MakeBackup(p) PROVE ContentInv'
    BY <2>0, <2>5, OwnContent DEF MakeBackup, ContentInv, Steps
  <2>6. ASSUME NEW p \in Procs, RemoveSource(p) PROVE ContentInv'
    BY <2>0, <2>6, OwnContent DEF RemoveSource, Steps, Outcomes
  <2>7. ASSUME NEW p \in Procs, PlaceLink(p) PROVE ContentInv'
    <3>1. pc[p] = "link" /\ SameDev(p) /\ Original(Dst(p)) = Original(Src(p))
      BY <2>7 DEF PlaceLink, ContentInv
    <3>2. PlaceHardLink(p) => SameContent(Src(p), entry[Dst(p)]) /\ entry[Dst(p)] \in Inodes
      BY <2>0, <3>1 DEF PlaceHardLink, ContentInv, SameContent
    <3> QED
      BY <2>0, <2>7, <3>1, <3>2, OwnContent
      DEF PlaceLink, PlaceHardLink, PlaceSymlink, Steps
  <2>8. ASSUME NEW p \in Procs, RestoreSource(p) PROVE ContentInv'
    BY <2>0, <2>8, OwnContent DEF RestoreSource, ContentInv, Steps, Outcomes
  <2>9. ASSUME NEW p \in Procs, DeleteBackup(p) PROVE ContentInv'
    BY <2>0, <2>9, OwnContent DEF DeleteBackup, Outcomes
  <2>10. ASSUME NEW p \in Procs, Crash(p) PROVE ContentInv'
    <3>1. /\ pc'[p] = "read" /\ UNCHANGED <<entry, content>>
          /\ \A q \in Procs : q # p =>
               pc'[q] = pc[q] /\ line'[q] = line[q] /\ ino'[q] = ino[q] /\ cache'[q] = cache[q]
          /\ \A i, j \in Inodes : cache'[p][<<i, j>>] = "none"
      BY <2>0, <2>10 DEF Crash
    <3> QED
      BY <3>1 DEF ContentInv, SameContent, Original, SameDev
  <2>11. CASE UNCHANGED vars
    BY <2>11 DEF vars, ContentInv, SameContent, Original, SameDev
  <2> QED
    BY <2>1, <2>3, <2>4, <2>5, <2>6, <2>7, <2>8, <2>9, <2>10, <2>11 DEF Next, Work
<1>3. TypeOK /\ ContentInv => ContentKept
  <2> SUFFICES ASSUME TypeOK, ContentInv, NEW n \in Paths, NEW m \in {n, BackupOf[n]}, Readable(m)
               PROVE  Reads(m) = Original(n)
    BY DEF ContentKept
  <2>1. m \in PathNames
    BY DEF PathNames
  <2>2. Deref(m) = entry[m] /\ Present(m)
    BY <2>1, PlainRead DEF ContentInv, Readable
  <2> QED
    BY <2>2 DEF Reads, ContentInv, SameContent
<1> QED
  BY <1>1, <1>2, <1>3, TypeInvariant, PTL DEF Spec
-------------------------------------------------------------------------------
(* What the outcome of a line says.  A process that may end its line with  *)
(* any result but FAILED_RESTORE has its source in place; that also holds  *)
(* when a backup could not be made, since nobody else replaces the source. *)
SourceInv ==
  \A p \in Procs :
    pc[p] \in {"compare", "backup", "remove", "undo", "delete"} => Present(Src(p))

(* A step of p that keeps its line or ends it keeps SourceInv, if the      *)
(* source is there where p needs it.                                       *)
LEMMA OwnSource ==
  ASSUME TypeOK, SourceInv, DisjointSources, NEW p \in Procs, pc[p] # "read",
         \/ UNCHANGED entry
         \/ \E n \in {Src(p), Backup(p)} : \E i : SetEntry(n, i),
         \/ \E s \in Steps : Goto(p, s)
         \/ \E r \in Outcomes : Finish(p, r),
         pc'[p] \in {"compare", "backup", "remove", "undo", "delete"} => entry'[Src(p)] # Absent
  PROVE  SourceInv'
<1>1. /\ pc \in [Procs -> Steps]
      /\ line \in [Procs -> [dst : Paths, src : Paths] \cup {NoLine}]
  BY DEF TypeOK, ProcsTypeOK
<1>2. \A q \in Procs : q # p => pc'[q] = pc[q] /\ line'[q] = line[q]
  BY <1>1 DEF Goto, Finish
<1>3. pc'[p] # "read" => line'[p] = line[p]
  BY <1>1 DEF Goto, Finish
<1>4. ASSUME NEW q \in Procs
      PROVE  pc'[q] \in {"compare", "backup", "remove", "undo", "delete"} =>
               entry'[Src(q)'] # Absent
  <2>1. CASE q = p
    BY <1>3, <2>1
  <2>2. CASE q # p /\ pc[q] # "read"
    BY <1>2, <2>2, OthersUntouched DEF SourceInv
  <2>3. CASE q # p /\ pc[q] = "read"
    BY <1>2, <2>3
  <2> QED
    BY <2>1, <2>2, <2>3
<1> QED
  BY <1>4 DEF SourceInv

(* Every step keeps the sources in place.                                  *)
LEMMA SourceStep ==
  ASSUME TypeOK, SourceInv, DisjointSources, [Next]_vars
  PROVE  SourceInv'
<1>0. /\ entry \in [PathNames -> Inodes \cup {Absent}]
      /\ pc \in [Procs -> Steps]
      /\ \A p \in Procs : pc[p] # "read" =>
           /\ Src(p) \in Paths /\ Src(p) \in PathNames /\ Backup(p) \in PathNames
           /\ Src(p) # Backup(p)
  BY AtWork, BackupNames DEF TypeOK, FilesTypeOK, ProcsTypeOK
<1>1. ASSUME NEW p \in Procs, ReadLine(p) PROVE SourceInv'
  <2>1. PICK l \in Lines[p] : TakeLine(p, l)
    BY <1>1 DEF ReadLine
  <2>2. /\ UNCHANGED entry
        /\ \A q \in Procs : q # p => pc'[q] = pc[q] /\ line'[q] = line[q]
    BY <2>1 DEF TakeLine, Finish, TypeOK, ProcsTypeOK
  <2>3. \/ pc'[p] = "read"
        \/ pc'[p] = "compare" /\ line'[p] = l /\ Present(l.src)
    BY <2>1 DEF TakeLine, Finish, TypeOK, ProcsTypeOK
  <2> QED
    BY <2>2, <2>3 DEF SourceInv
<1>2. ASSUME NEW p \in Procs, NEW r, pc[p] = "compare", Decide(p, r), UNCHANGED entry
      PROVE  SourceInv'
  BY <1>0, <1>2, OwnSource DEF Decide, Goto, Finish, Steps, Outcomes, SourceInv
<1>3. ASSUME NEW p \in Procs, Compare(p) \/ CompareCached(p) PROVE SourceInv'
  BY <1>2, <1>3 DEF Compare, CompareCached
<1>4. ASSUME NEW p \in Procs, MakeBackup(p) PROVE SourceInv'
  BY <1>0, <1>4, OwnSource DEF MakeBackup, Goto, Steps, SourceInv
<1>5. ASSUME NEW p \in Procs, RemoveSource(p) PROVE SourceInv'
  BY <1>0, <1>5, OwnSource DEF RemoveSource, Goto, Finish, Steps, Outcomes
<1>6. ASSUME NEW p \in Procs, PlaceLink(p) PROVE SourceInv'
  <2>1. pc[p] = "link" /\ Src(p) \in PathNames
    BY <1>0, <1>6 DEF PlaceLink
  <2>2. CASE (PlaceHardLink(p) \/ PlaceSymlink(p)) /\ Goto(p, "delete")
    <3>1. \E i \in Inodes : SetEntry(Src(p), i)
      <4>1. CASE PlaceHardLink(p)
        BY <1>0, <2>1, <4>1, AtWork DEF PlaceHardLink, TypeOK
      <4>2. CASE PlaceSymlink(p)
        BY <4>2 DEF PlaceSymlink
      <4> QED
        BY <2>2, <4>1, <4>2
    <3>2. entry'[Src(p)] # Absent
      BY <1>0, <2>1, <3>1, PathsAssumption
    <3> QED
      BY <2>1, <2>2, <3>1, <3>2, OwnSource DEF Steps
  <2>3. CASE UNCHANGED entry /\ Goto(p, "restore")
    BY <1>0, <2>1, <2>3, OwnSource DEF Goto, Steps
  <2> QED
    BY <1>6, <2>2, <2>3 DEF PlaceLink
<1>7. ASSUME NEW p \in Procs, RestoreSource(p) PROVE SourceInv'
  BY <1>0, <1>7, OwnSource DEF RestoreSource, Goto, Finish, Steps, Outcomes
<1>8. ASSUME NEW p \in Procs, DeleteBackup(p) PROVE SourceInv'
  BY <1>0, <1>8, OwnSource DEF DeleteBackup, Finish, Outcomes
<1>9. ASSUME NEW p \in Procs, Crash(p) PROVE SourceInv'
  BY <1>0, <1>9 DEF Crash, SourceInv, TypeOK, ProcsTypeOK
<1>10. CASE UNCHANGED vars
  BY <1>10 DEF vars, SourceInv
<1> QED
  BY <1>1, <1>3, <1>4, <1>5, <1>6, <1>7, <1>8, <1>9, <1>10 DEF Next, Work

(* The step that ends a line, and what its result says.                    *)
LEMMA EndTellsState ==
  ASSUME TypeOK, SourceInv, NEW p \in Procs, LineEnds(p), NEW q \in Procs,
         ReadLine(q) \/ Work(q) \/ Crash(q)
  PROVE  /\ outcome'[p] \notin {"none", "failed_restore"} => entry'[Src(p)] # Absent
         /\ outcome'[p] \in {"success", "failed_link"} => entry'[Backup(p)] = Absent
<1>0. /\ entry \in [PathNames -> Inodes \cup {Absent}]
      /\ pc \in [Procs -> Steps] /\ outcome \in [Procs -> Outcomes]
      /\ pc[p] # "read" /\ pc'[p] = "read"
      /\ Src(p) \in PathNames /\ Backup(p) \in PathNames /\ Src(p) # Backup(p)
  BY AtWork, BackupNames DEF TypeOK, FilesTypeOK, ProcsTypeOK, LineEnds
<1>1. q = p
  BY <1>0 DEF ReadLine, TakeLine, Work, Compare, CompareCached, Decide, MakeBackup,
              RemoveSource, PlaceLink, RestoreSource, DeleteBackup, Crash, Goto, Finish
<1>2. ~ReadLine(p)
  BY <1>0 DEF ReadLine
<1>3. CASE Compare(p) \/ CompareCached(p)
  <2>1. UNCHANGED entry /\ Present(Src(p))
    BY <1>3 DEF Compare, CompareCached, SourceInv
  <2>2. outcome'[p] \in {"untouched", "dismissed", "again"}
    BY <1>0, <1>3 DEF Compare, CompareCached, Decide, Goto, Finish
  <2> QED
    BY <2>1, <2>2
<1>4. CASE RemoveSource(p)
  <2>1. UNCHANGED entry /\ Present(Src(p)) /\ outcome'[p] = "failed_remove"
    BY <1>0, <1>4 DEF RemoveSource, Goto, Finish, SourceInv
  <2> QED
    BY <2>1
<1>5. CASE RestoreSource(p)
  BY <1>0, <1>5 DEF RestoreSource, Goto, Finish
<1>6. CASE DeleteBackup(p)
  <2>1. Present(Src(p))
    BY <1>6 DEF DeleteBackup, SourceInv
  <2>2. \/ SetEntry(Backup(p), Absent)
        \/ UNCHANGED entry /\ outcome'[p] = "failed_delete"
    BY <1>0, <1>6 DEF DeleteBackup, Finish
  <2> QED
    BY <1>0, <2>1, <2>2
<1>7. CASE Crash(p)
  BY <1>0, <1>7 DEF Crash
<1>8. ~MakeBackup(p) /\ ~PlaceLink(p)
  BY <1>0 DEF MakeBackup, PlaceLink, Goto
<1> QED
  BY <1>1, <1>2, <1>3, <1>4, <1>5, <1>6, <1>7, <1>8 DEF Work

(* A line leaves its file missing only with FAILED_RESTORE or by a kill,   *)
(* and a success leaves no backup (sameln.cpp, relink): for any failures,  *)
(* a backup that could not be made included.                               *)
THEOREM OutcomeAlwaysTells ==
  ASSUME DisjointSources
  PROVE  Spec => OutcomeTellsState
<1>1. Init => SourceInv
  BY DEF Init, SourceInv
<1>2. TypeOK /\ SourceInv /\ [Next]_vars => SourceInv'
  BY SourceStep
<1>3. TypeOK /\ SourceInv /\ [Next]_vars =>
        [\A p \in Procs : LineEnds(p) =>
           /\ outcome'[p] \notin {"none", "failed_restore"} => entry'[Src(p)] # Absent
           /\ outcome'[p] \in {"success", "failed_link"} => entry'[Backup(p)] = Absent]_vars
  BY EndTellsState DEF Next
<1> QED
  BY <1>1, <1>2, <1>3, TypeInvariant, PTL DEF Spec, OutcomeTellsState
-------------------------------------------------------------------------------
(* Symbolic links.  What a name refers to afterwards, a name of the same   *)
(* file referred to before, or the link to the file kept has been placed.  *)

(* One directory operation changes one name.                               *)
LEMMA OneNameSet ==
  ASSUME FilesTypeOK, NEW k \in PathNames, NEW i \in Inodes \cup {Absent}, SetEntry(k, i),
         NEW m \in PathNames
  PROVE  entry'[m] = IF m = k THEN i ELSE entry[m]
BY DEF FilesTypeOK

(* The content of what a path or its backup names after a step of p.       *)
LEMMA ContentAfterWork ==
  ASSUME TypeOK, NEW p \in Procs, Work(p), NEW n \in Paths, NEW m \in {n, BackupOf[n]},
         entry'[m] # Absent
  PROVE  \/ \E k \in {n, BackupOf[n]} : Present(k) /\ content'[entry'[m]] = content[entry[k]]
         \/ /\ pc[p] # "read" /\ n = Src(p)
            /\ IF SameDev(p)
               THEN Present(Dst(p)) /\ content'[entry'[m]] = content[entry[Dst(p)]]
               ELSE content'[entry'[m]] = Dst(p)
<1>1. FilesTypeOK /\ ProcsTypeOK /\ m \in PathNames
  BY DEF TypeOK, PathNames
<1>2. pc[p] # "read"
  BY DEF Work, Compare, CompareCached, MakeBackup, RemoveSource, PlaceLink, RestoreSource,
     DeleteBackup
<1>3. /\ Src(p) \in Paths /\ Src(p) \in PathNames /\ Dst(p) \in PathNames
      /\ Backup(p) \in PathNames /\ BackupOf[Src(p)] = Backup(p)
  BY <1>1, <1>2, AtWork
<1>4. /\ m = Src(p) \/ m = Backup(p) => n = Src(p)
      /\ n = Src(p) => m = Src(p) \/ m = Backup(p)
  BY <1>3, BackupNames
<1>5. CASE entry' = entry /\ content' = content
  BY <1>5
<1>6. ASSUME NEW k \in {Src(p), Backup(p)}, SetEntry(k, Absent), content' = content
      PROVE  \E l \in {n, BackupOf[n]} : Present(l) /\ content'[entry'[m]] = content[entry[l]]
  <2>1. entry'[m] = entry[m]
    BY <1>1, <1>3, <1>6, OneNameSet
  <2> QED
    BY <1>6, <2>1
<1>7. ASSUME NEW k \in {Src(p), Backup(p)}, NEW l \in {Src(p), Backup(p)},
             Present(l), SetEntry(k, entry[l]), content' = content
      PROVE  \E j \in {n, BackupOf[n]} : Present(j) /\ content'[entry'[m]] = content[entry[j]]
  <2>1. entry[l] \in Inodes \cup {Absent}
    BY <1>1, <1>3 DEF FilesTypeOK
  <2>2. entry'[m] = IF m = k THEN entry[l] ELSE entry[m]
    <3>1. k \in PathNames
      BY <1>3
    <3> HIDE DEF SetEntry
    <3>2. SetEntry(k, entry[l])
      BY <1>7
    <3> QED
      BY <1>1, <2>1, <3>1, <3>2, OneNameSet
  <2>3. CASE m = k
    <3>1. n = Src(p) /\ l \in {n, BackupOf[n]}
      BY <1>3, <1>4, <2>3
    <3> QED
      BY <1>7, <2>2, <2>3, <3>1
  <2>4. CASE m # k
    BY <1>7, <2>2, <2>4
  <2> QED
    BY <2>3, <2>4
<1>8. CASE PlaceHardLink(p)
  <2>1. /\ SameDev(p) /\ Present(Dst(p)) /\ SetEntry(Src(p), entry[Dst(p)])
        /\ content' = content /\ entry[Dst(p)] \in Inodes \cup {Absent}
    BY <1>1, <1>3, <1>8 DEF PlaceHardLink, FilesTypeOK
  <2>2. entry'[m] = IF m = Src(p) THEN entry[Dst(p)] ELSE entry[m]
    <3> HIDE DEF SetEntry
    <3> QED
      BY <1>1, <1>3, <2>1, OneNameSet
  <2>3. CASE m = Src(p)
    <3>1. n = Src(p) /\ content' = content /\ entry'[m] = entry[Dst(p)]
      BY <1>4, <2>1, <2>2, <2>3
    <3>2. content'[entry'[m]] = content[entry[Dst(p)]]
      BY <3>1
    <3> QED
      BY <1>2, <2>1, <3>1, <3>2
  <2>4. CASE m # Src(p)
    <3>1. Present(m) /\ content'[entry'[m]] = content[entry[m]]
      BY <2>1, <2>2, <2>4
    <3> QED
      BY <3>1
  <2> QED
    BY <2>3, <2>4
<1>9. CASE PlaceSymlink(p)
  <2>1. PICK i \in Inodes : /\ ~Named(i) /\ SetEntry(Src(p), i)
                            /\ content' = [content EXCEPT ![i] = Dst(p)]
    BY <1>9 DEF PlaceSymlink
  <2>2. entry'[m] = IF m = Src(p) THEN i ELSE entry[m]
    <3> HIDE DEF SetEntry
    <3> QED
      BY <1>1, <1>3, <2>1, OneNameSet
  <2>3. ~SameDev(p)
    BY <1>9 DEF PlaceSymlink
  <2>4. CASE m = Src(p)
    <3>1. content'[entry'[m]] = Dst(p)
      BY <1>1, <2>1, <2>2, <2>4 DEF FilesTypeOK
    <3> QED
      BY <1>2, <1>4, <2>3, <2>4, <3>1
  <2>5. CASE m # Src(p)
    <3>1. entry'[m] = entry[m] /\ entry[m] # i /\ Present(m)
      BY <1>1, <2>1, <2>2, <2>5 DEF Named
    <3>2. content'[entry'[m]] = content[entry[m]]
      BY <1>1, <2>1, <3>1 DEF FilesTypeOK
    <3> QED
      BY <3>1, <3>2
  <2> QED
    BY <2>4, <2>5
<1>10. \/ entry' = entry /\ content' = content
       \/ \E k \in {Src(p), Backup(p)} : SetEntry(k, Absent) /\ content' = content
       \/ \E k, l \in {Src(p), Backup(p)} :
            Present(l) /\ SetEntry(k, entry[l]) /\ content' = content
       \/ PlaceHardLink(p) \/ PlaceSymlink(p)
  <2>1. CASE Compare(p) \/ CompareCached(p)
    BY <2>1 DEF Compare, CompareCached
  <2>2. CASE MakeBackup(p)
    BY <2>2 DEF MakeBackup
  <2>3. CASE RemoveSource(p)
    BY <2>3 DEF RemoveSource
  <2>4. CASE PlaceLink(p)
    BY <2>4 DEF PlaceLink
  <2>5. CASE RestoreSource(p)
    BY <2>5 DEF RestoreSource
  <2>6. CASE DeleteBackup(p)
    BY <2>6 DEF DeleteBackup
  <2> QED
    BY <2>1, <2>2, <2>3, <2>4, <2>5, <2>6 DEF Work
<1> QED
  BY <1>5, <1>6, <1>7, <1>8, <1>9, <1>10

(* Reading a line and a kill leave the files alone.                        *)
LEMMA FilesChangeByWork ==
  ASSUME [Next]_vars, UNCHANGED <<entry, content>> => FALSE
  PROVE  \E p \in Procs : Work(p)
<1>1. ASSUME NEW p \in Procs, ReadLine(p) PROVE UNCHANGED <<entry, content>>
  BY <1>1 DEF ReadLine, TakeLine
<1>2. ASSUME NEW p \in Procs, Crash(p) PROVE UNCHANGED <<entry, content>>
  BY <1>2 DEF Crash
<1> QED
  BY <1>1, <1>2 DEF Next, vars
-------------------------------------------------------------------------------
(* Following symbolic links.                                               *)

(* Induction over the numbers up to n, as a fact about sets.               *)
LEMMA Upwards ==
  ASSUME NEW n \in Nat, NEW S, 0 \in S, \A k \in 0 .. n - 1 : k \in S => k + 1 \in S
  PROVE  0 .. n \subseteq S
<1> DEFINE Out == (0 .. n) \ S
<1>1. SUFFICES ASSUME Out # {} PROVE FALSE
  OBVIOUS
<1>2. Out \subseteq Nat
  OBVIOUS
<1>3. PICK m \in Out : \A i \in Out : ~(<<i, m>> \in OpToRel(<, Nat))
  <2> HIDE DEF Out
  <2> QED
    BY <1>1, <1>2, NatLessThanWellFounded, WFMin
<1>4. m # 0 /\ m - 1 \in 0 .. n - 1 /\ m \in Nat
  OBVIOUS
<1>5. m - 1 \in Out
  BY <1>4
<1>6. <<m - 1, m>> \in OpToRel(<, Nat)
  BY <1>4 DEF OpToRel
<1> QED
  BY <1>3, <1>5, <1>6

(* There is a function that follows the links n times, from any inode.     *)
LEMMA HopExists ==
  ASSUME NEW n \in Nat, NEW x
  PROVE  \E f : f = [k \in 0 .. n |-> IF k = 0 THEN x ELSE Follow(f[k - 1])]
<1> DEFINE Runs(m) == \E f : f = [k \in 0 .. m |-> IF k = 0 THEN x ELSE Follow(f[k - 1])]
           S == {m \in Nat : Runs(m)}
<1>1. Runs(0)
  <2> DEFINE f == [k \in 0 .. 0 |-> x]
  <2>1. f = [k \in 0 .. 0 |-> IF k = 0 THEN x ELSE Follow(f[k - 1])]
    OBVIOUS
  <2> QED
    BY <2>1
<1>2. ASSUME NEW m \in Nat, Runs(m) PROVE Runs(m + 1)
  <2>1. PICK f : f = [k \in 0 .. m |-> IF k = 0 THEN x ELSE Follow(f[k - 1])]
    BY <1>2
  <2> DEFINE g == [k \in 0 .. m + 1 |-> IF k = 0 THEN x ELSE Follow(f[k - 1])]
  <2>2. ASSUME NEW k \in 0 .. m PROVE g[k] = f[k]
    BY <2>1
  <2>3. ASSUME NEW k \in 0 .. m + 1, k # 0 PROVE g[k] = Follow(g[k - 1])
    <3>1. k - 1 \in 0 .. m
      BY <2>3
    <3> QED
      BY <2>2, <2>3, <3>1
  <2>4. g = [k \in 0 .. m + 1 |-> IF k = 0 THEN x ELSE Follow(g[k - 1])]
    BY <2>3
  <2> QED
    BY <2>4
<1> HIDE DEF Runs
<1>3. 0 \in S /\ \A k \in 0 .. n - 1 : k \in S => k + 1 \in S
  BY <1>1, <1>2
<1>4. 0 .. n \subseteq S
  <2> HIDE DEF S
  <2> QED
    BY <1>3, Upwards
<1>5. Runs(n)
  BY <1>4
<1> QED
  BY <1>5 DEF Runs

(* What Deref does with a symbolic link: it hops as often as there are     *)
(* paths.                                                                  *)
LEMMA DerefHops ==
  ASSUME NEW n, Present(n), IsLink(entry[n])
  PROVE  \E hop :
           /\ hop[0] = entry[n]
           /\ \A k \in 1 .. Cardinality(Paths) : hop[k] = Follow(hop[k - 1])
           /\ LET last == hop[Cardinality(Paths)]
              IN Deref(n) = IF last = Absent \/ IsLink(last) THEN Absent ELSE last
<1> DEFINE N == Cardinality(Paths)
           Hops(f) == f = [k \in 0 .. N |-> IF k = 0 THEN entry[n] ELSE Follow(f[k - 1])]
           hop == CHOOSE f : Hops(f)
<1>1. N \in Nat
  BY PathsAssumption, FS_CardinalityType
<1>2. Hops(hop)
  <2>1. \E f : Hops(f)
    BY <1>1, HopExists
  <2> QED
    BY <2>1
<1>3. Deref(n) = IF hop[N] = Absent \/ IsLink(hop[N]) THEN Absent ELSE hop[N]
  BY DEF Deref
<1>4. /\ hop[0] = entry[n]
      /\ \A k \in 1 .. N : hop[k] = Follow(hop[k - 1])
  <2> HIDE DEF hop
  <2> QED
    BY <1>1, <1>2
<1> HIDE DEF hop
<1> QED
  BY <1>3, <1>4
-------------------------------------------------------------------------------
(* No chain of links dangles or is a cycle, as each link is of a higher    *)
(* level than what it points to.                                           *)
PointsDown(level) ==
  \A n \in Paths : \A m \in {n, BackupOf[n]} :
    Present(m) /\ IsLink(entry[m]) => level[content[entry[m]]] < level[n]

(* Then hopping ends at a file before it has gone through all levels.      *)
LEMMA DownIsReadable ==
  ASSUME TypeOK, NEW level \in [Paths -> 0 .. Cardinality(Paths) - 1], PointsDown(level),
         \A n \in Paths : Present(n), NEW n \in Paths
  PROVE  Readable(n)
<1> DEFINE N == Cardinality(Paths)
<1>0. /\ N \in Nat
      /\ entry \in [PathNames -> Inodes \cup {Absent}] /\ Paths \subseteq PathNames
      /\ \A m \in Paths : level[m] \in Nat /\ level[m] < N
  BY PathsAssumption, FS_CardinalityType DEF TypeOK, FilesTypeOK, PathNames
<1>1. CASE ~IsLink(entry[n])
  BY <1>1 DEF Readable, Deref
<1>2. CASE IsLink(entry[n])
  <2>1. PICK hop :
          /\ hop[0] = entry[n]
          /\ \A k \in 1 .. N : hop[k] = Follow(hop[k - 1])
          /\ Deref(n) = IF hop[N] = Absent \/ IsLink(hop[N]) THEN Absent ELSE hop[N]
    BY <1>2, DerefHops
  <2> DEFINE Low(k) == /\ hop[k] \in Inodes
                       /\ IsLink(hop[k]) => /\ content[hop[k]] \in Paths
                                            /\ level[content[hop[k]]] + k + 2 <= N
             S == {k \in Nat : Low(k)}
  <2>2. Low(0)
    <3>1. hop[0] \in Inodes /\ content[entry[n]] \in Paths
      BY <1>0, <1>2, <2>1 DEF IsLink
    <3>2. level[content[entry[n]]] < level[n]
      BY <1>2 DEF PointsDown
    <3> QED
      BY <1>0, <2>1, <3>1, <3>2
  <2>3. ASSUME NEW k \in 0 .. N - 1, Low(k) PROVE Low(k + 1)
    <3>1. hop[k + 1] = Follow(hop[k]) /\ k \in Nat
      <4>1. k + 1 \in 1 .. N /\ (k + 1) - 1 = k
        BY <1>0
      <4> QED
        BY <2>1, <4>1
    <3>2. CASE ~IsLink(hop[k])
      BY <2>3, <3>1, <3>2 DEF Follow
    <3>3. CASE IsLink(hop[k])
      <4> DEFINE c == content[hop[k]]
      <4>1. c \in Paths /\ level[c] + k + 2 <= N /\ hop[k + 1] = entry[c]
        BY <2>3, <3>1, <3>3, PathsAssumption DEF Follow
      <4>2. entry[c] \in Inodes
        BY <1>0, <4>1
      <4>3. IsLink(entry[c]) =>
              content[entry[c]] \in Paths /\ level[content[entry[c]]] < level[c]
        BY <4>1 DEF IsLink, PointsDown
      <4>4. IsLink(entry[c]) => level[content[entry[c]]] + (k + 1) + 2 <= N
        <5> HIDE DEF c
        <5> QED
          BY <1>0, <3>1, <4>1, <4>3
      <4> QED
        BY <4>1, <4>2, <4>3, <4>4
    <3> QED
      BY <3>2, <3>3
  <2>4. Low(N)
    <3> HIDE DEF Low
    <3>1. 0 \in S /\ \A k \in 0 .. N - 1 : k \in S => k + 1 \in S
      BY <2>2, <2>3
    <3>2. 0 .. N \subseteq S
      <4> HIDE DEF S
      <4> QED
        BY <1>0, <3>1, Upwards
    <3> QED
      BY <1>0, <3>2
  <2>5. hop[N] \in Inodes /\ ~IsLink(hop[N])
    BY <1>0, <2>4
  <2> QED
    BY <2>1, <2>5, PathsAssumption DEF Readable
<1> QED
  BY <1>1, <1>2

(* Without lines that make links point at each other, no symbolic link     *)
(* dangles and none is part of a cycle, unless a path is missing, for any  *)
(* number of processes, whatever fails and whatever backups are left.      *)
THEOREM LinksNeverDangle ==
  ASSUME LinksDescend
  PROVE  Spec => []NoDanglingLink
<1>1. PICK level \in [Paths -> 0 .. Cardinality(Paths) - 1] :
        \A p \in Procs : \A l \in Lines[p] :
          IF Dev[l.dst] = Dev[l.src] THEN level[l.dst] <= level[l.src]
                                     ELSE level[l.dst] < level[l.src]
  BY DEF LinksDescend
<1> DEFINE Inv == PointsDown(level)
<1>2. Init => Inv
  <2> SUFFICES ASSUME Init, NEW n \in Paths, NEW m \in {n, BackupOf[n]}, Present(m)
               PROVE  ~IsLink(entry[m])
    BY DEF PointsDown
  <2>1. m \in PathNames /\ entry[m] \in Inodes /\ content = InitContent
    BY InitialFiles DEF Init, PathNames
  <2> QED
    BY <2>1, InitialFiles, PathsAssumption DEF IsLink
<1>3. TypeOK /\ Inv /\ [Next]_vars => Inv'
  <2> SUFFICES ASSUME TypeOK, Inv, [Next]_vars,
                      NEW n \in Paths, NEW m \in {n, BackupOf[n]},
                      entry'[m] # Absent, content'[entry'[m]] \in Paths
               PROVE  level[content'[entry'[m]]] < level[n]
    BY DEF PointsDown, IsLink
  <2>1. CASE UNCHANGED <<entry, content>>
    BY <2>1 DEF PointsDown, IsLink
  <2>2. ASSUME NEW p \in Procs, Work(p) PROVE level[content'[entry'[m]]] < level[n]
    <3>1. CASE \E k \in {n, BackupOf[n]} :
                 Present(k) /\ content'[entry'[m]] = content[entry[k]]
      BY <3>1 DEF PointsDown, IsLink
    <3>2. CASE /\ pc[p] # "read" /\ n = Src(p)
               /\ IF SameDev(p)
                  THEN Present(Dst(p)) /\ content'[entry'[m]] = content[entry[Dst(p)]]
                  ELSE content'[entry'[m]] = Dst(p)
      <4>1. /\ Dst(p) \in Paths /\ Src(p) \in Paths
            /\ IF SameDev(p) THEN level[Dst(p)] <= level[Src(p)]
                             ELSE level[Dst(p)] < level[Src(p)]
        BY <1>1, <3>2, AtWork DEF TypeOK, SameDev
      <4>2. \A q \in Paths : level[q] \in Int
        BY PathsAssumption, FS_CardinalityType
      <4>3. CASE SameDev(p)
        <5>1. level[content'[entry'[m]]] < level[Dst(p)]
          BY <3>2, <4>1, <4>3 DEF PointsDown, IsLink
        <5> QED
          BY <3>2, <4>1, <4>2, <4>3, <5>1
      <4>4. CASE ~SameDev(p)
        BY <3>2, <4>1, <4>4
      <4> QED
        BY <4>3, <4>4
    <3> QED
      BY <2>2, <3>1, <3>2, ContentAfterWork
  <2> QED
    BY <2>1, <2>2, FilesChangeByWork
<1>4. TypeOK /\ Inv => NoDanglingLink
  BY DownIsReadable DEF NoDanglingLink
<1> HIDE DEF Inv
<1> QED
  BY <1>2, <1>3, <1>4, TypeInvariant, PTL DEF Spec
-------------------------------------------------------------------------------
(* What is read through links.                                             *)
RightContent ==
  \A n \in Paths : \A m \in {n, BackupOf[n]} :
    Present(m) => LET c == content[entry[m]]
                  IN IF c \in Paths THEN Original(c) = Original(n) ELSE c = Original(n)

(* Each hop leads to a path that held the same content at first.           *)
LEMMA RightIsRead ==
  ASSUME TypeOK, RightContent, NEW n \in Paths, NEW m \in {n, BackupOf[n]}, Readable(m)
  PROVE  Reads(m) = Original(n)
<1> DEFINE N == Cardinality(Paths)
<1>0. N \in Nat
  BY PathsAssumption, FS_CardinalityType
<1>1. CASE ~Present(m) \/ ~IsLink(entry[m])
  BY <1>1 DEF Readable, Reads, Deref, RightContent, IsLink
<1>2. CASE Present(m) /\ IsLink(entry[m])
  <2>1. PICK hop :
          /\ hop[0] = entry[m]
          /\ \A k \in 1 .. N : hop[k] = Follow(hop[k - 1])
          /\ Deref(m) = IF hop[N] = Absent \/ IsLink(hop[N]) THEN Absent ELSE hop[N]
    BY <1>2, DerefHops
  <2> DEFINE Right(k) == hop[k] # Absent =>
               LET c == content[hop[k]]
               IN IF c \in Paths THEN Original(c) = Original(n) ELSE c = Original(n)
             S == {k \in Nat : Right(k)}
  <2>2. Right(0)
    BY <1>2, <2>1 DEF RightContent
  <2>3. ASSUME NEW k \in 0 .. N - 1, Right(k) PROVE Right(k + 1)
    <3>1. hop[k + 1] = Follow(hop[k])
      <4>1. k + 1 \in 1 .. N /\ (k + 1) - 1 = k
        BY <1>0
      <4> QED
        BY <2>1, <4>1
    <3>2. CASE hop[k] = Absent \/ ~IsLink(hop[k])
      BY <2>3, <3>1, <3>2 DEF Follow
    <3>3. CASE hop[k] # Absent /\ IsLink(hop[k])
      <4>1. /\ content[hop[k]] \in Paths /\ Original(content[hop[k]]) = Original(n)
            /\ hop[k + 1] = entry[content[hop[k]]]
        BY <2>3, <3>1, <3>3 DEF Follow, IsLink
      <4> QED
        BY <4>1 DEF RightContent
    <3> QED
      BY <3>2, <3>3
  <2>4. Right(N)
    <3> HIDE DEF Right
    <3>1. 0 \in S /\ \A k \in 0 .. N - 1 : k \in S => k + 1 \in S
      BY <2>2, <2>3
    <3>2. 0 .. N \subseteq S
      <4> HIDE DEF S
      <4> QED
        BY <1>0, <3>1, Upwards
    <3> QED
      BY <1>0, <3>2
  <2>5. Deref(m) = hop[N] /\ hop[N] # Absent /\ ~IsLink(hop[N])
    BY <2>1 DEF Readable
  <2> QED
    BY <2>4, <2>5 DEF Reads, IsLink
<1> QED
  BY <1>1, <1>2

(* With symbolic links too, whatever a path or its backup can be read as   *)
(* is what the path held at first, if the reports are right about that:    *)
(* the cache may hold results about inodes that have been used again.      *)
THEOREM LinkedContentKept ==
  ASSUME ReportsRight
  PROVE  Spec => []ContentKept
<1>1. Init => RightContent
  <2> SUFFICES ASSUME Init, NEW n \in Paths, NEW m \in {n, BackupOf[n]}, Present(m)
               PROVE  content[entry[m]] = Original(n) /\ content[entry[m]] \notin Paths
    BY DEF RightContent
  <2>1. m \in PathNames /\ content = InitContent
    BY DEF Init, PathNames
  <2>2. m = n /\ entry[m] = InitEntry[n] /\ InitEntry[n] \in Inodes
    BY <2>1, InitialFiles, BackupNames DEF Init
  <2> QED
    BY <2>1, <2>2, InitialFiles, PathsAssumption DEF Original
<1>2. TypeOK /\ RightContent /\ [Next]_vars => RightContent'
  <2> SUFFICES ASSUME TypeOK, RightContent, [Next]_vars,
                      NEW n \in Paths, NEW m \in {n, BackupOf[n]}, entry'[m] # Absent
               PROVE  LET c == content'[entry'[m]]
                      IN IF c \in Paths THEN Original(c) = Original(n) ELSE c = Original(n)
    BY DEF RightContent, Original
  <2>1. CASE UNCHANGED <<entry, content>>
    BY <2>1 DEF RightContent
  <2>2. ASSUME NEW p \in Procs, Work(p)
        PROVE  LET c == content'[entry'[m]]
               IN IF c \in Paths THEN Original(c) = Original(n) ELSE c = Original(n)
    <3>1. CASE \E k \in {n, BackupOf[n]} :
                 Present(k) /\ content'[entry'[m]] = content[entry[k]]
      BY <3>1 DEF RightContent
    <3>2. CASE /\ pc[p] # "read" /\ n = Src(p)
               /\ IF SameDev(p)
                  THEN Present(Dst(p)) /\ content'[entry'[m]] = content[entry[Dst(p)]]
                  ELSE content'[entry'[m]] = Dst(p)
      <4>1. Dst(p) \in Paths /\ Original(Dst(p)) = Original(Src(p))
        BY <3>2, AtWork DEF TypeOK, ReportsRight
      <4>2. CASE SameDev(p)
        BY <3>2, <4>1, <4>2 DEF RightContent
      <4>3. CASE ~SameDev(p)
        BY <3>2, <4>1, <4>3
      <4> QED
        BY <4>2, <4>3
    <3> QED
      BY <2>2, <3>1, <3>2, ContentAfterWork
  <2> QED
    BY <2>1, <2>2, FilesChangeByWork
<1>3. TypeOK /\ RightContent => ContentKept
  BY RightIsRead DEF ContentKept
<1> QED
  BY <1>1, <1>2, <1>3, TypeInvariant, PTL DEF Spec
===============================================================================
