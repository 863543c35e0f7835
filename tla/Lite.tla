---------------------------------- MODULE Lite --------------------------------
(***************************************************************************)
(* samearchive-lite: every file of the first archive is compared with the  *)
(* files of the same relative name in the other archives.                  *)
(*                                                                         *)
(* A name on the standard input that begins with the first argument gets   *)
(* the other arguments in its place, one after the other; lstat of the new *)
(* name decides whether there is a file to compare.  Comparisons are       *)
(* remembered in the result cache.                                         *)
(*                                                                         *)
(* Meanwhile other programs may write to the files, without changing their *)
(* lengths, and reading a file may fail.                                   *)
(***************************************************************************)
EXTENDS Integers, Sequences

CONSTANTS
  Names,
  Inodes,          (* records of a device and an inode number              *)
  InodeOf,         (* name -> the inode it names, or Absent                *)
  Regular,         (* the inodes of regular files                          *)
  Size,            (* inode -> its size                                    *)
  Contents,
  InitContents,    (* what the files may hold at first                     *)
  Shared,          (* the files that other programs write to               *)
  Arguments,       (* the directories on the command line                  *)
  Stripped(_),     (* a directory without its trailing slash               *)
  Begins(_, _),    (* the second name begins with the first                *)
  Moved(_, _, _),  (* a name, with its beginning replaced by another       *)
  MinSize, MaxSize,  (* option -g, and the largest size                    *)
  Slots, Slot(_),  (* the cache's slots, and that of a pair of inodes      *)
  Readable,        (* no open and no read fails                            *)
  Absent

ASSUME LiteAssumption ==
  /\ \A i \in Inodes : i \in [dev : Nat, ino : Nat]
  /\ Absent \notin Inodes
  /\ InodeOf \in [Names -> Inodes \cup {Absent}]
  /\ Size \in [Inodes -> Nat]
  /\ \A c \in InitContents : c \in [Inodes -> Contents]
  /\ Shared \subseteq Inodes
  /\ Len(Arguments) \in Nat /\ Len(Arguments) >= 2
  /\ \A p \in Inodes \X Inodes : Slot(p) \in Slots
  /\ Readable \in BOOLEAN

VARIABLES
  content,  (* inode -> what it holds                                      *)
  pc,       (* "read", "compare" or "ended"                                *)
  f1,       (* the name read                                               *)
  k,        (* the argument that takes the first one's place               *)
  cache,    (* slot -> the pair remembered there, with its result          *)
  report,   (* the lines printed                                           *)
  alike,    (* history: the pairs that were alike at any time              *)
  calm      (* history: no file was written to, and no read failed         *)

vars == <<content, pc, f1, k, cache, report, alike, calm>>

Pairs == Inodes \X Inodes

Results == {"identical", "different", "error"}

NoEntry == [pair |-> <<Absent, Absent>>, result |-> "error"]

(* The variables have their types, and a name that is compared names a     *)
(* file.                                                                   *)
TypeOK ==
  /\ content \in [Inodes -> Contents]
  /\ pc \in {"read", "compare", "ended"}
  /\ k \in 2 .. Len(Arguments)
  /\ cache \in [Slots -> [pair : Pairs, result : Results] \cup {NoEntry}]
  /\ report \in Seq([f1 : Names, f2 : Names])
  /\ alike \subseteq Pairs
  /\ calm \in BOOLEAN
  /\ pc = "compare" => f1 \in Names /\ InodeOf[f1] \in Inodes

Alike(c) == {p \in Pairs : Size[p[1]] = Size[p[2]] /\ c[p[1]] = c[p[2]]}

-------------------------------------------------------------------------------
(* The command line: only the first two directories lose their slash, and  *)
(* one that was given before is left out.                                  *)
Archive(j) == IF j <= 2 THEN Stripped(Arguments[j]) ELSE Arguments[j]

Double(j) == \E i \in 1 .. j - 1 : Archive(i) = Archive(j)

ASSUME MovedAssumption ==
  \A n \in Names : Begins(Archive(1), n) =>
    \A j \in 2 .. Len(Arguments) : Moved(n, Archive(1), Archive(j)) \in Names

Init ==
  /\ content \in InitContents
  /\ pc = "read"
  /\ f1 = Absent
  /\ k = 2
  /\ cache = [s \in Slots |-> NoEntry]
  /\ report = <<>>
  /\ alike = Alike(content)
  /\ calm = TRUE

IsFile(n) == InodeOf[n] # Absent /\ InodeOf[n] \in Regular

Wanted(n) ==
  /\ IsFile(n)
  /\ MinSize < Size[InodeOf[n]] /\ Size[InodeOf[n]] <= MaxSize
  /\ Begins(Archive(1), n)

ReadPath(n) ==
  /\ pc = "read"
  /\ \/ ~Wanted(n) /\ UNCHANGED <<pc, f1, k>>
     \/ Wanted(n) /\ pc' = "compare" /\ f1' = n /\ k' = 2
  /\ UNCHANGED <<content, cache, report, alike, calm>>

EndOfInput ==
  /\ pc = "read"
  /\ pc' = "ended"
  /\ UNCHANGED <<content, f1, k, cache, report, alike, calm>>

(* Mutant of Advance: the argument behind the last one is taken too.       *)
AdvanceTooFar ==
  \/ k <= Len(Arguments) /\ k' = k + 1 /\ UNCHANGED pc
  \/ k > Len(Arguments) /\ pc' = "read" /\ UNCHANGED k

(* The next directory, or the next name.                                   *)
Advance ==
  \/ k < Len(Arguments) /\ k' = k + 1 /\ UNCHANGED pc
  \/ k = Len(Arguments) /\ pc' = "read" /\ UNCHANGED k

(* Mutant of Comparable: files with the same inode number are taken for    *)
(* one file, whatever their devices.                                       *)
ComparableByNumber(f2) ==
  /\ IsFile(f2)
  /\ InodeOf[f2].ino # InodeOf[f1].ino
  /\ Size[InodeOf[f1]] = Size[InodeOf[f2]]

(* lstat of the other name.                                                *)
Comparable(f2) ==
  /\ IsFile(f2)
  /\ InodeOf[f2] # InodeOf[f1]
  /\ Size[InodeOf[f1]] = Size[InodeOf[f2]]

(* Mutant of Remembered: the slot's pair may be another one.               *)
RememberedInSlot(p) == cache[Slot(p)] # NoEntry

Remembered(p) == cache[Slot(p)].pair = p

(* fcmp.                                                                   *)
Fcmp(p, result) ==
  \/ result = "identical" /\ content[p[1]] = content[p[2]]
  \/ result = "different" /\ content[p[1]] # content[p[2]]
  \/ result = "error" /\ ~Readable

Answer(f2, result) ==
  report' = IF result = "identical"
            THEN Append(report, [f1 |-> f1, f2 |-> f2]) ELSE report

CompareWith(f2) ==
  LET p == <<InodeOf[f1], InodeOf[f2]>>
  IN \/ /\ Remembered(p)
        /\ Answer(f2, cache[Slot(p)].result)
        /\ UNCHANGED <<cache, calm>>
     \/ /\ ~Remembered(p)
        /\ \E result \in Results :
             /\ Fcmp(p, result)
             /\ cache' = [cache EXCEPT ![Slot(p)] = [pair |-> p, result |-> result]]
             /\ calm' = (calm /\ result # "error")
             /\ Answer(f2, result)

Compare ==
  /\ pc = "compare"
  /\ LET f2 == Moved(f1, Archive(1), Archive(k))
     IN \/ ~Double(k) /\ Comparable(f2) /\ CompareWith(f2)
        \/ (Double(k) \/ ~Comparable(f2)) /\ UNCHANGED <<cache, calm, report>>
  /\ Advance
  /\ UNCHANGED <<content, f1, alike>>

(* Another program writes to a file.                                       *)
Write(i) ==
  /\ pc # "ended"
  /\ \E c \in Contents \ {content[i]} : content' = [content EXCEPT ![i] = c]
  /\ alike' = alike \cup Alike(content')
  /\ calm' = FALSE
  /\ UNCHANGED <<pc, f1, k, cache, report>>

Next ==
  \/ \E n \in Names : ReadPath(n)
  \/ EndOfInput \/ Compare
  \/ \E i \in Shared : Write(i)

Spec == Init /\ [][Next]_vars

-------------------------------------------------------------------------------
(* Every line is about two different files, one under the first directory  *)
(* and one of the same name under another, of one size and alike at some   *)
(* time while the program ran: a result in the cache is never that of      *)
(* other files (cache.cpp, samearchive-lite.cpp), though it may be out of  *)
(* date.                                                                   *)
ReportedWereAlike ==
  \A m \in DOMAIN report :
    LET line == report[m]
    IN /\ Wanted(line.f1)
       /\ \E j \in 2 .. Len(Arguments) :
            ~Double(j) /\ line.f2 = Moved(line.f1, Archive(1), Archive(j))
       /\ InodeOf[line.f1] # InodeOf[line.f2]
       /\ <<InodeOf[line.f1], InodeOf[line.f2]>> \in alike
===============================================================================
