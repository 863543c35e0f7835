------------------------------- MODULE Pipeline -------------------------------
(***************************************************************************)
(* The command line of the manual (man/samechmod.1, option -p):            *)
(*                                                                         *)
(*   samefile | clear | sameln -p "samedelay | setLinked"                  *)
(*                    | samedelay | setOther                               *)
(*                                                                         *)
(* where clear, setLinked and setOther change attributes: clear takes      *)
(* schg away, so that the files can be linked, and the other two give it   *)
(* to them again.  sameln sends lines that it has consumed to its leaf     *)
(* pipe and prints those that it has not; a samedelay in either branch     *)
(* holds lines back until sameln is done with their files.                 *)
(*                                                                         *)
(* The programs are Attributes, Relink and Delay, coupled by their lines   *)
(* and by the file system: a call on an immutable file is refused.         *)
(***************************************************************************)
EXTENDS Files

CONSTANTS
  BackupOf, Data, InitContent,  (* see Relink                              *)
  Dirs, DirOf, NoDir,           (* see Attributes                          *)
  Flags, Modes, Ids,
  Immutable,                    (* the flag schg                           *)
  InitAttrs,                    (* the attributes of the files at first    *)
  OptionSets,                   (* the programs of clear and of both set   *)
  Reports,                      (* the reports samefile may print          *)
  Ln,                           (* the sameln process                      *)
  Absent

ASSUME PipelineAssumption ==
  /\ Absent \notin Inodes
  /\ Reports \subseteq Seq(Pairs)

(* The backup of n is n.sameln.0, which no report names.                   *)
ASSUME BackupAssumption ==
  /\ \A n \in Names : BackupOf[n] \notin Names
  /\ \A m, n \in Names : BackupOf[m] = BackupOf[n] => m = n

Stages == {"clear", "setLinked", "setOther"}
AllNames == Names \cup {BackupOf[n] : n \in Names}

VARIABLES
  entry, attr,                                      (* the file system     *)
  report, taken,    (* the lines of samefile; stage -> lines it has read   *)
  options, apc, aline, stats, aout,                 (* the three stages    *)
  lpc, lline, ino, cache, outcome, lines,           (* sameln              *)
  consumed, printed,          (* lines in its leaf pipe, and on its output *)
  unbacked,   (* history: names whose backup it was not allowed to make    *)
  hArr, hCapacity, hFirst, hOld, hStopping, hpc, hRead, hOut,
                              (* the samedelay behind the leaf pipe        *)
  oArr, oCapacity, oFirst, oOld, oStopping, opc, oRead, oOut
                              (* the samedelay behind the output           *)

stageVars == <<taken, options, apc, aline, stats, aout>>
lnVars == <<lpc, lline, ino, cache, outcome, lines, consumed, printed, unbacked>>
hVars == <<hArr, hCapacity, hFirst, hOld, hStopping, hpc, hRead, hOut>>
oVars == <<oArr, oCapacity, oFirst, oOld, oStopping, opc, oRead, oOut>>
vars == <<entry, attr, report, stageVars, lnVars, hVars, oVars>>

A == INSTANCE Attributes WITH
       Procs <- Stages, Names <- AllNames, Small <- {}, pc <- apc, line <- aline, out <- aout

ASSUME AttributesAssumption ==
  /\ InitAttrs \subseteq [A!Objects -> A!Attrs]
  /\ OptionSets \subseteq [Stages -> A!Programs]

(* sameln when every call succeeds that can, and when none has to.         *)
Free == INSTANCE Relink WITH
          Procs <- {Ln}, Paths <- Names, Dev <- [n \in Names |-> "disk"],
          Lines <- [p \in {Ln} |-> [dst : Names, src : Names]], Symlink <- FALSE,
          Fallible <- {}, MaxLines <- [p \in {Ln} |-> 0], MaxCrashes <- 0,
          content <- InitContent, pc <- lpc, line <- lline, crashes <- 0

Refused == INSTANCE Relink WITH
          Procs <- {Ln}, Paths <- Names, Dev <- [n \in Names |-> "disk"],
          Lines <- [p \in {Ln} |-> [dst : Names, src : Names]], Symlink <- FALSE,
          Fallible <- {"backup", "remove", "link", "restore", "delete"},
          MaxLines <- [p \in {Ln} |-> 0], MaxCrashes <- 0,
          content <- InitContent, pc <- lpc, line <- lline, crashes <- 0

(* A file that is linked has the size it had, so that samedelay can be     *)
(* given what the names were at first.                                     *)
H == INSTANCE Delay WITH
       gone <- {n \in Names : entry[n] = Absent},
       arr <- hArr, capacity <- hCapacity, first <- hFirst, old <- hOld,
       stopping <- hStopping, pc <- hpc, read <- hRead, out <- hOut
O == INSTANCE Delay WITH
       gone <- {n \in Names : entry[n] = Absent},
       arr <- oArr, capacity <- oCapacity, first <- oFirst, old <- oOld,
       stopping <- oStopping, pc <- opc, read <- oRead, out <- oOut

-------------------------------------------------------------------------------
Init ==
  /\ entry = [n \in AllNames |-> IF n \in Names THEN InitEntry[n] ELSE Absent]
  /\ attr \in InitAttrs
  /\ report \in Reports
  /\ taken = [s \in Stages |-> 0]
  /\ options \in OptionSets
  /\ A!Init
  /\ lpc = [p \in {Ln} |-> "read"]
  /\ lline = [p \in {Ln} |-> Free!NoLine]
  /\ ino = [p \in {Ln} |-> Free!NoLine]
  /\ cache = [p \in {Ln} |-> [pair \in Inodes \X Inodes |-> "none"]]
  /\ outcome = [p \in {Ln} |-> "none"]
  /\ lines = [p \in {Ln} |-> 0]
  /\ consumed = <<>> /\ printed = <<>> /\ unbacked = {}
  /\ H!Init
  /\ O!Init

(* The lines on the standard input of a stage.                             *)
InputOf(s) ==
  CASE s = "clear"     -> report
    [] s = "setLinked" -> hOut
    [] s = "setOther"  -> oOut

StageStep(s) ==
  /\ \/ /\ apc[s] = "read" /\ taken[s] < Len(InputOf(s))
        /\ taken' = [taken EXCEPT ![s] = @ + 1]
        /\ A!ReadLine(s, InputOf(s)[taken[s] + 1])
     \/ A!Work(s) /\ UNCHANGED taken
  /\ UNCHANGED <<report, lnVars, hVars, oVars>>

-------------------------------------------------------------------------------
(* The line sameln works on, and what it makes of a line: the name that    *)
(* comes first is kept.                                                    *)
Current == aout["clear"][lines[Ln] + 1]
Oriented(l) == [dst |-> l.f1, src |-> l.f2]

(* A call on a name needs a file, and a directory, that may be changed.    *)
Changeable(n) ==
  /\ Immutable \notin attr[DirOf[n]].flags
  /\ entry[n] # Absent => Immutable \notin attr[entry[n]].flags

Permitted ==
  CASE lpc[Ln] \in {"backup", "remove"} -> Changeable(lline[Ln].src)
    [] lpc[Ln] = "link" -> Changeable(lline[Ln].dst) /\ Changeable(lline[Ln].src)
    [] lpc[Ln] \in {"restore", "undo", "delete"} -> Changeable(BackupOf[lline[Ln].src])
    [] OTHER -> TRUE

LinkLine ==
  /\ lpc[Ln] = "read" /\ lines[Ln] < Len(aout["clear"])
  /\ Free!TakeLine(Ln, Oriented(Current))

LinkStep ==
  \/ Permitted /\ Free!Work(Ln)
  \/ ~Permitted /\ UNCHANGED entry /\ Refused!Work(Ln)

(* Mutant of HandOn: a line that could not be linked is not printed.       *)
HandOnConsumed ==
  /\ consumed' = IF lines'[Ln] > lines[Ln] /\ outcome'[Ln] \in {"success", "dismissed"}
                 THEN Append(consumed, Current) ELSE consumed
  /\ UNCHANGED printed

(* Where a line goes: into the leaf pipe when it is consumed, nowhere when *)
(* its files differ, and to the output otherwise.                          *)
HandOn ==
  LET done == lines'[Ln] > lines[Ln]
      result == outcome'[Ln]
  IN /\ consumed' = IF done /\ result \in {"success", "dismissed"}
                    THEN Append(consumed, Current) ELSE consumed
     /\ printed' = IF done /\ result \notin {"success", "dismissed", "untouched"}
                   THEN Append(printed, Current) ELSE printed

LnStep ==
  /\ LinkLine \/ LinkStep
  /\ HandOn
  /\ unbacked' = IF lpc[Ln] = "backup" /\ ~Permitted
                 THEN unbacked \cup {lline[Ln].src} ELSE unbacked
  /\ UNCHANGED <<attr, report, stageVars, hVars, oVars>>

-------------------------------------------------------------------------------
StageEnded(s, upstream) == upstream /\ apc[s] = "read" /\ taken[s] = Len(InputOf(s))
ClearEnded == StageEnded("clear", TRUE)
LnEnded == ClearEnded /\ lpc[Ln] = "read" /\ lines[Ln] = Len(aout["clear"])

(* Both samedelay: the next line, or the end of the input.                 *)
HoldLinked ==
  /\ UNCHANGED entry
  /\ \/ Len(hRead) < Len(consumed) /\ H!TakeLine(consumed[Len(hRead) + 1])
     \/ LnEnded /\ Len(hRead) = Len(consumed) /\ H!EndOfInput
     \/ H!FlushAtEnd
  /\ UNCHANGED <<attr, report, stageVars, lnVars, oVars>>

HoldOther ==
  /\ UNCHANGED entry
  /\ \/ Len(oRead) < Len(printed) /\ O!TakeLine(printed[Len(oRead) + 1])
     \/ LnEnded /\ Len(oRead) = Len(printed) /\ O!EndOfInput
     \/ O!FlushAtEnd
  /\ UNCHANGED <<attr, report, stageVars, lnVars, hVars>>

(* A signal to the samedelay behind the output; sameln does not notice that*)
(* nobody reads what it prints.                                            *)
QuitOther ==
  /\ UNCHANGED entry
  /\ O!Quit
  /\ UNCHANGED <<attr, report, stageVars, lnVars, hVars>>

Finished ==
  /\ LnEnded
  /\ StageEnded("setLinked", hpc = "ended")
  /\ StageEnded("setOther", opc = "ended")

Next ==
  \/ \E s \in Stages : StageStep(s)
  \/ LnStep
  \/ HoldLinked \/ HoldOther \/ QuitOther

Spec == Init /\ [][Next]_vars

(* Every program goes on as long as it has input or work; signals need not *)
(* come.                                                                   *)
FairSpec ==
  /\ Spec
  /\ \A s \in Stages : WF_vars(StageStep(s))
  /\ WF_vars(LnStep) /\ WF_vars(HoldLinked) /\ WF_vars(HoldOther)

-------------------------------------------------------------------------------
(* The parts have their types.                                             *)
TypeOK ==
  /\ A!TypeOK /\ Free!ProcsTypeOK
  /\ H!TypeOK /\ O!TypeOK
  /\ consumed \in Seq(Pairs) /\ printed \in Seq(Pairs)
  /\ unbacked \subseteq Names

(* Whatever another program of the pipeline makes immutable between two    *)
(* calls of sameln, a name whose backup was not refused is never lost: the *)
(* unlink, the link, the restore and the removal of the backup may each be *)
(* refused, also when earlier lines left old backups (sameln.cpp).         *)
LostOnlyUnbacked ==
  \A n \in Names : Free!Present(n) \/ Free!Present(BackupOf[n]) \/ n \in unbacked

(* No file name is ever lost (man/sameln.1: a backup that cannot be made   *)
(* stops the line "in order to prevent the loss of files").                *)
NameOrBackup == Free!NameOrBackup

(* A samedelay's lines come out as they went in, none lost, doubled or out *)
(* of order (samedelay.cpp), while programs on both sides are at work.     *)
LinesInOrder == H!LinesInOrder /\ O!LinesInOrder

Alike(l) == InitContent[InitEntry[l.f1]] = InitContent[InitEntry[l.f2]]

ReportedNames == UNION {{report[k].f1, report[k].f2} : k \in DOMAIN report}

(* Every line about n is one that samefile rightly printed.                *)
OnlyAlike(n) ==
  \A k \in DOMAIN report : n \in {report[k].f1, report[k].f2} => Alike(report[k])

(* Nothing is left to do for the program that a file of the line went to.  *)
Settled(s, n) ==
  LET target == A!Target(s, n)
  IN /\ target \in A!Objects
     /\ A!Changed(s, attr[target], attr[target]) = attr[target]

(* In the end every file of the report has its flag again (man/samechmod.1:*)
(* "Even if the files didn't have the schg flag it will end up with it,    *)
(* unless the files do not have identical contences"), or the mode that    *)
(* samechmod was to give it: no stage undoes for good what another did.    *)
(* samechown does not get that far, for it leaves both files alone when    *)
(* one of them has the owner already.                                      *)
EndsSettled ==
  <>(/\ Finished
     /\ ~oStopping /\ options["setOther"].name # "samechown" =>
          \A n \in ReportedNames : OnlyAlike(n) => Settled("setOther", n))

(* sameln is never refused a call because its file is given back its flag  *)
(* too soon (man/samechmod.1: "To eliminate this problem samedelay delays  *)
(* the line output until the new line and the old line have totaly         *)
(* different files on them").                                              *)
NeverPrevented ==
  outcome[Ln] \notin {"failed_remove", "failed_link", "failed_restore", "failed_delete"}
===============================================================================
