------------------------------ MODULE Attributes ------------------------------
(***************************************************************************)
(* samechflags, samechmod and samechown: an attribute of both files of a   *)
(* line is changed, and the line is printed again for the next program.    *)
(*                                                                         *)
(* The action driver takes the meta data of both files and then calls the  *)
(* program's action, which computes the new attributes from that meta data *)
(* and makes one system call for each file.  The files are not compared.   *)
(*                                                                         *)
(* Any number of these programs work on one file system, each with lines   *)
(* of its own; where the lines come from, and what else happens to the     *)
(* files, is left to the module that composes them.                        *)
(***************************************************************************)
EXTENDS Integers, Sequences

CONSTANTS
  Procs,      (* processes                                                 *)
  Names,      (* the names that occur in lines                             *)
  Inodes,
  Dirs,       (* directories                                               *)
  DirOf,      (* name -> its directory part, or NoDir                      *)
  Small,      (* inodes whose size options -g and -m leave out             *)
  Flags,      (* file flags                                                *)
  Modes,      (* permission bits                                           *)
  Ids,        (* users and groups                                          *)
  Garbled,    (* a line that cannot be decoded                             *)
  NoDir, Absent

Objects == Inodes \cup Dirs
Pairs == [f1 : Names, f2 : Names]
Attrs == [flags : SUBSET Flags, mode : SUBSET Modes, uid : Ids, gid : Ids]
Stats == [ino : Inodes, attr : Attrs]

(* An argument such as "noschg" or "u+w" says which bits are set and which *)
(* cleared, an octal number which ones there are ("absolute"); samechown   *)
(* has an owner and a group.                                               *)
Programs ==
  [name : {"samechflags"}, directory : BOOLEAN, absolute : BOOLEAN,
   set : SUBSET Flags, clear : SUBSET Flags]
  \cup
  [name : {"samechmod"}, directory : BOOLEAN, absolute : BOOLEAN,
   set : SUBSET Modes, clear : SUBSET Modes]
  \cup
  [name : {"samechown"}, directory : BOOLEAN, owner : Ids, group : Ids]


VARIABLES
  entry,   (* name -> the inode it names, or Absent                        *)
  attr,    (* inode or directory -> its attributes                         *)
  options, (* process -> the program it runs, with its options             *)
  pc,      (* process -> what it is about to do                            *)
  line,    (* process -> the line it works on                              *)
  stats,   (* process -> what lstat gave for its files                     *)
  out      (* process -> the lines printed                                 *)

vars == <<entry, attr, options, pc, line, stats, out>>

NoStat == [ino |-> Absent, attr |-> Absent]

(* The variables have their types, and a process has read the meta data    *)
(* from which it computes attributes.                                      *)
TypeOK ==
  /\ entry \in [Names -> Inodes \cup {Absent}]
  /\ attr \in [Objects -> Attrs]
  /\ options \in [Procs -> Programs]
  /\ pc \in [Procs -> {"read", "stat1", "stat2", "left", "right"}]
  /\ line \in [Procs -> Pairs \cup {Garbled}]
  /\ stats \in [Procs -> [s1 : Stats \cup {NoStat}, s2 : Stats \cup {NoStat}]]
  /\ out \in [Procs -> Seq(Pairs \cup {Garbled})]
  /\ \A p \in Procs :
       /\ pc[p] # "read" => line[p] \in Pairs
       /\ pc[p] \in {"stat2", "left", "right"} => stats[p].s1 \in Stats
       /\ pc[p] \in {"left", "right"} => stats[p].s2 \in Stats

Present(n) == entry[n] # Absent

Stat(n) == [ino |-> entry[n], attr |-> attr[entry[n]]]

-------------------------------------------------------------------------------
(* What the programs make of attributes.                                   *)

NewBits(p, bits) ==
  IF options[p].absolute THEN options[p].set
  ELSE (bits \cup options[p].set) \ options[p].clear

(* The attribute that the call changes, computed from s; whatever else the *)
(* file has by now stays, as in a.                                         *)
Changed(p, a, s) ==
  CASE options[p].name = "samechflags" -> [a EXCEPT !.flags = NewBits(p, s.flags)]
    [] options[p].name = "samechmod"   -> [a EXCEPT !.mode = NewBits(p, s.mode)]
    [] options[p].name = "samechown"   ->
         [a EXCEPT !.uid = options[p].owner, !.gid = options[p].group]

(* mychown does nothing if one of the files has the owner or the group     *)
(* already.                                                                *)
ForeignTo(p, s) == s.uid # options[p].owner /\ s.gid # options[p].group

(* Whether the call is made for the file that had the attributes s.        *)
Calls(p, s) ==
  CASE options[p].name = "samechflags" -> TRUE
    [] options[p].name = "samechmod"   -> NewBits(p, s.mode) # s.mode
    [] options[p].name = "samechown"   ->
         ForeignTo(p, stats[p].s1.attr) /\ ForeignTo(p, stats[p].s2.attr)

(* What the call works on: with -d the name's directory part.              *)
Target(p, n) == IF options[p].directory THEN DirOf[n] ELSE entry[n]

-------------------------------------------------------------------------------
Init ==
  /\ pc = [p \in Procs |-> "read"]
  /\ line = [p \in Procs |-> Garbled]
  /\ stats = [p \in Procs |-> [s1 |-> NoStat, s2 |-> NoStat]]
  /\ out = [p \in Procs |-> <<>>]

Goto(p, step) == pc' = [pc EXCEPT ![p] = step]

PrintAgain(p, l) == out' = [out EXCEPT ![p] = Append(@, l)]

(* The line is handed on as it came.                                       *)
Skip(p, l) ==
  /\ Goto(p, "read")
  /\ PrintAgain(p, l)

Proceed(p, step) ==
  /\ Goto(p, step)
  /\ UNCHANGED out

ReadLine(p, l) ==
  /\ pc[p] = "read"
  /\ line' = [line EXCEPT ![p] = l]
  /\ IF l = Garbled THEN Skip(p, l) ELSE Proceed(p, "stat1")
  /\ UNCHANGED <<entry, attr, options, stats>>

Stat1(p) ==
  /\ pc[p] = "stat1"
  /\ \/ /\ Present(line[p].f1)
        /\ stats' = [stats EXCEPT ![p].s1 = Stat(line[p].f1)]
        /\ Proceed(p, "stat2")
     \/ /\ ~Present(line[p].f1)
        /\ Skip(p, line[p])
        /\ UNCHANGED stats
  /\ UNCHANGED <<entry, attr, options, line>>

NoDirectory(p) ==
  /\ options[p].directory
  /\ NoDir \in {DirOf[line[p].f1], DirOf[line[p].f2]}

(* Then the sizes are tested and, with -d, the names are cut.              *)
Stat2(p) ==
  /\ pc[p] = "stat2"
  /\ \/ /\ Present(line[p].f2)
        /\ stats' = [stats EXCEPT ![p].s2 = Stat(line[p].f2)]
        /\ IF {stats[p].s1.ino, entry[line[p].f2]} \cap Small # {} \/ NoDirectory(p)
           THEN Skip(p, line[p])
           ELSE Proceed(p, "left")
     \/ /\ ~Present(line[p].f2)
        /\ Skip(p, line[p])
        /\ UNCHANGED stats
  /\ UNCHANGED <<entry, attr, options, line>>

(* lchflags, lchmod or lchown; nobody looks at the result.                 *)
Change(p, n, s) ==
  LET target == Target(p, n)
  IN attr' = IF target \in Objects /\ Calls(p, s)
             THEN [attr EXCEPT ![target] = Changed(p, @, s)]
             ELSE attr

ChangeLeft(p) ==
  /\ pc[p] = "left"
  /\ Change(p, line[p].f1, stats[p].s1.attr)
  /\ Proceed(p, "right")
  /\ UNCHANGED <<entry, options, line, stats>>

(* The action has returned PRINT_AGAIN.                                    *)
ChangeRight(p) ==
  /\ pc[p] = "right"
  /\ Change(p, line[p].f2, stats[p].s2.attr)
  /\ Skip(p, line[p])
  /\ UNCHANGED <<entry, options, line, stats>>

Work(p) == Stat1(p) \/ Stat2(p) \/ ChangeLeft(p) \/ ChangeRight(p)
===============================================================================
