-------------------------------- MODULE Driver --------------------------------
(***************************************************************************)
(* The action driver with samerm: lines of a report come in, one of the    *)
(* two files of a line is removed, and lines go out.                       *)
(*                                                                         *)
(* For every line the driver takes the meta data of both files, compares   *)
(* them (or trusts its result cache, a direct-mapped table), chooses which *)
(* one is kept, and removes the other one.  Lines that could not be        *)
(* processed are printed, consumed ones go to a leaf file or pipe.         *)
(*                                                                         *)
(* Any number of processes share one directory; there are no backups.      *)
(***************************************************************************)
EXTENDS Integers, Sequences, FiniteSets

CONSTANTS
  Procs,        (* samerm processes                                        *)
  Names,        (* the names that occur in reports                         *)
  Rank,         (* name -> its place in the order of strcmp                *)
  Slashless,    (* names without a directory part                          *)
  Inodes,       (* inode numbers                                           *)
  InitEntry,    (* name -> the inode it names at first                     *)
  Content,      (* inode -> its content                                    *)
  MTime,        (* inode -> the time it was modified                       *)
  Small,        (* contents that minSize and maxSize leave out             *)
  Lines,        (* process -> the [f1, f2] lines its report may hold       *)
  Garbled,      (* a line that cannot be decoded                           *)
  OptionSets,   (* the options of all processes that may occur             *)
  Slot,         (* pair of inodes -> its slot in the cache                 *)
  Fallible,     (* the calls that may fail for reasons of their own        *)
  MaxLines,     (* bound: process -> the lines it reads                    *)
  Absent        (* the directory holds no such name                        *)

Orders == {"A", "At", "L", "Z", "Zt"}

ASSUME FilesAssumption ==
  /\ IsFiniteSet(Names)
  /\ Absent \notin Inodes
  /\ InitEntry \in [Names -> Inodes]
  /\ MTime \in [Inodes -> Nat]
  /\ DOMAIN Content = Inodes
  /\ Rank \in [Names -> Nat]
  /\ \A a, b \in Names : Rank[a] = Rank[b] => a = b

(* The names of a line are two directory entries.                          *)
ASSUME LinesAssumption ==
  /\ Lines \in [Procs -> SUBSET [f1 : Names, f2 : Names]]
  /\ \A p \in Procs : \A l \in Lines[p] : l.f1 # l.f2
  /\ Garbled \notin [f1 : Names, f2 : Names]
  /\ MaxLines \in [Procs -> Nat]

ASSUME OptionsAssumption ==
  OptionSets \subseteq [Procs -> [order : Orders, directory : BOOLEAN, quiet : BOOLEAN,
                                  leaf : {"none", "file", "pipe"}]]

ASSUME SlotAssumption == DOMAIN Slot = Inodes \X Inodes

VARIABLES
  entry,      (* name -> the inode it names, or Absent                     *)
  options,    (* process -> its options; a leaf option may be dropped      *)
  pc,         (* process -> what it is about to do                         *)
  line,       (* process -> the line it works on                           *)
  m,          (* process -> what lstat gave for its files                  *)
  choice,     (* process -> the file to keep and the file to remove        *)
  cache,      (* process -> slot -> a pair of inodes and its result        *)
  stopping,   (* process -> it got a signal                                *)
  lines, processed, untouched,   (* process -> its counters                *)
  dropped,    (* process -> lines of files that were found to differ       *)
  out,        (* process -> the lines printed                              *)
  leafs       (* process -> the lines in its leaf file or pipe             *)

vars == <<entry, options, pc, line, m, choice, cache, stopping, lines, processed,
          untouched, dropped, out, leafs>>

Steps == {"read", "stat1", "stat2", "check", "act", "ended", "crashed"}

Pairs == [f1 : Names, f2 : Names]
Stats == [ino : Inodes, nlink : Nat]
NoStat == [ino |-> Absent, nlink |-> 0]
NoChoice == [dst |-> Absent, src |-> Absent]
Slots == {Slot[pair] : pair \in Inodes \X Inodes}
Results == [key : Inodes \X Inodes, result : {"identical", "other"}]
NoResult == [key |-> <<Absent, Absent>>, result |-> "none"]

OptionsTypeOK ==
  options \in [Procs -> [order : Orders, directory : BOOLEAN, quiet : BOOLEAN,
                         leaf : {"none", "file", "pipe"}]]

CountersTypeOK ==
  /\ stopping \in [Procs -> BOOLEAN]
  /\ lines \in [Procs -> Nat]
  /\ processed \in [Procs -> Nat]
  /\ untouched \in [Procs -> Nat]
  /\ dropped \in [Procs -> Nat]

OutputTypeOK ==
  /\ out \in [Procs -> Seq(Pairs \cup {Garbled})]
  /\ leafs \in [Procs -> Seq(Pairs)]

WorkTypeOK ==
  /\ pc \in [Procs -> Steps]
  /\ line \in [Procs -> Pairs \cup {Garbled}]
  /\ m \in [Procs -> [s1 : Stats \cup {NoStat}, s2 : Stats \cup {NoStat}]]
  /\ choice \in [Procs -> [dst : Names, src : Names] \cup {NoChoice}]
  /\ cache \in [Procs -> [Slots -> Results \cup {NoResult}]]
  /\ \A p \in Procs :
       /\ pc[p] \in {"stat1", "stat2", "check", "act"} => line[p] \in Lines[p]
       /\ pc[p] \in {"stat2", "check", "act"} => m[p].s1 \in Stats
       /\ pc[p] \in {"check", "act"} => m[p].s2 \in Stats
       /\ pc[p] = "act" => choice[p] \in [dst : Names, src : Names]

(* The variables have their types, and a process has read the meta data of *)
(* the files it is about to compare.                                       *)
TypeOK ==
  /\ entry \in [Names -> Inodes \cup {Absent}]
  /\ OptionsTypeOK
  /\ CountersTypeOK
  /\ OutputTypeOK
  /\ WorkTypeOK

-------------------------------------------------------------------------------
Present(n) == entry[n] # Absent

Nlink(i) == Cardinality({n \in Names : entry[n] = i})

Stat(n) == [ino |-> entry[n], nlink |-> Nlink(entry[n])]

Init ==
  /\ entry = InitEntry
  /\ options \in OptionSets
  /\ pc = [p \in Procs |-> "read"]
  /\ line = [p \in Procs |-> Garbled]
  /\ m = [p \in Procs |-> [s1 |-> NoStat, s2 |-> NoStat]]
  /\ choice = [p \in Procs |-> NoChoice]
  /\ cache = [p \in Procs |-> [s \in Slots |-> NoResult]]
  /\ stopping = [p \in Procs |-> FALSE]
  /\ lines = [p \in Procs |-> 0]
  /\ processed = [p \in Procs |-> 0]
  /\ untouched = [p \in Procs |-> 0]
  /\ dropped = [p \in Procs |-> 0]
  /\ out = [p \in Procs |-> <<>>]
  /\ leafs = [p \in Procs |-> <<>>]

Goto(p, step) == pc' = [pc EXCEPT ![p] = step]

Increased(counter, p) == counter' = [counter EXCEPT ![p] = @ + 1]

(* Mutant of Skip: the line is printed but not counted.                    *)
SkipUncounted(p, l) ==
  /\ Goto(p, "read")
  /\ out' = [out EXCEPT ![p] = Append(@, l)]
  /\ UNCHANGED untouched

(* The line is printed for whoever reads the output.                       *)
Skip(p, l) ==
  /\ Goto(p, "read")
  /\ out' = [out EXCEPT ![p] = Append(@, l)]
  /\ Increased(untouched, p)

Proceed(p, step) ==
  /\ Goto(p, step)
  /\ UNCHANGED <<out, untouched>>

-------------------------------------------------------------------------------
(* actionProcessInput.                                                     *)

(* A signal.  The handler only sets a flag.                                *)
Quit(p) ==
  /\ ~stopping[p] /\ pc[p] \notin {"ended", "crashed"}
  /\ stopping' = [stopping EXCEPT ![p] = TRUE]
  /\ UNCHANGED <<entry, options, pc, line, m, choice, cache, lines, processed,
                 untouched, dropped, out, leafs>>

(* The flag is looked at once a line has been read; that line is lost.     *)
ReadLine(p) ==
  /\ pc[p] = "read"
  /\ lines[p] < MaxLines[p]
  /\ Increased(lines, p)
  /\ \E l \in Lines[p] \cup {Garbled} :
       /\ line' = [line EXCEPT ![p] = l]
       /\ \/ stopping[p] /\ Proceed(p, "ended")
          \/ ~stopping[p] /\ l = Garbled /\ Skip(p, l)
          \/ ~stopping[p] /\ l # Garbled /\ Proceed(p, "stat1")
  /\ UNCHANGED <<entry, options, m, choice, cache, stopping, processed, dropped, leafs>>

EndOfInput(p) ==
  /\ pc[p] = "read"
  /\ Goto(p, "ended")
  /\ UNCHANGED <<entry, options, line, m, choice, cache, stopping, lines, processed,
                 untouched, dropped, out, leafs>>

(* Mutant of Stat1: the result of lstat is not looked at.                  *)
Stat1Unchecked(p) ==
  /\ pc[p] = "stat1"
  /\ m' = [m EXCEPT ![p].s1 = Stat(line[p].f1)]
  /\ Proceed(p, "stat2")
  /\ UNCHANGED <<entry, options, line, choice, cache, stopping, lines, processed,
                 dropped, leafs>>

Stat1(p) ==
  /\ pc[p] = "stat1"
  /\ \/ /\ Present(line[p].f1)
        /\ m' = [m EXCEPT ![p].s1 = Stat(line[p].f1)]
        /\ Proceed(p, "stat2")
     \/ /\ ~Present(line[p].f1)
        /\ Skip(p, line[p])
        /\ UNCHANGED m
  /\ UNCHANGED <<entry, options, line, choice, cache, stopping, lines, processed,
                 dropped, leafs>>

(* The sizes of both files are tested once both are known.                 *)
Stat2(p) ==
  /\ pc[p] = "stat2"
  /\ \/ /\ Present(line[p].f2)
        /\ m' = [m EXCEPT ![p].s2 = Stat(line[p].f2)]
        /\ IF Content[m[p].s1.ino] \in Small \/ Content[entry[line[p].f2]] \in Small
           THEN Skip(p, line[p])
           ELSE Proceed(p, "check")
     \/ /\ ~Present(line[p].f2)
        /\ Skip(p, line[p])
        /\ UNCHANGED m
  /\ UNCHANGED <<entry, options, line, choice, cache, stopping, lines, processed,
                 dropped, leafs>>

-------------------------------------------------------------------------------
(* actionProcessInputAction.                                               *)

Key(p) == <<m[p].s1.ino, m[p].s2.ino>>

(* Mutant of Cached: only the first file of the pair is looked at.         *)
CachedByFirst(p) == cache[p][Slot[Key(p)]].key[1] = Key(p)[1]

(* cache == m.                                                             *)
Cached(p) == cache[p][Slot[Key(p)]].key = Key(p)

(* Mutant of Fcmp: files of different content count as identical.          *)
FcmpSizesOnly(p) ==
  LET opened == Present(line[p].f1) /\ Present(line[p].f2)
  IN {IF opened THEN "identical" ELSE "other"}

(* What fcmp may answer: files that are one inode are not opened; "other"  *)
(* is that the files differ, or an error.                                  *)
Fcmp(p) ==
  LET one == Key(p)[1] = Key(p)[2]
      opened == Present(line[p].f1) /\ Present(line[p].f2)
      alike == opened /\ Content[entry[line[p].f1]] = Content[entry[line[p].f2]]
  IN {r \in {"identical", "other"} :
        \/ r = "identical" /\ (one \/ alike)
        \/ r = "other" /\ ~one /\ (~alike \/ "open" \in Fallible)}

(* The result, which goes through the cache.                               *)
Compared(p, result) ==
  \/ /\ Cached(p)
     /\ result = cache[p][Slot[Key(p)]].result
     /\ UNCHANGED cache
  \/ /\ ~Cached(p)
     /\ result \in Fcmp(p)
     /\ cache' = [cache EXCEPT ![p][Slot[Key(p)]] = [key |-> Key(p), result |-> result]]

(* Whether f1 comes before f2, with what lstat gave for them.              *)
Precedes(order, l, s1, s2) ==
  CASE order = "A"  -> Rank[l.f1] < Rank[l.f2]
    [] order = "At" -> MTime[s1.ino] < MTime[s2.ino]
    [] order = "Z"  -> Rank[l.f1] >= Rank[l.f2]
    [] order = "Zt" -> MTime[s1.ino] >= MTime[s2.ino]
    [] order = "L"  -> s1.nlink > s2.nlink

(* Whether dst is f1 and src is f2.                                        *)
KeepsFirst(p) == Precedes(options[p].order, line[p], m[p].s1, m[p].s2)

Choice(p) ==
  IF KeepsFirst(p) THEN [dst |-> line[p].f1, src |-> line[p].f2]
  ELSE [dst |-> line[p].f2, src |-> line[p].f1]

(* Option -d takes the directories of both names.                          *)
NoDirectory(p) ==
  options[p].directory /\ {line[p].f1, line[p].f2} \cap Slashless # {}

(* A line of files that are not identical is dropped, not printed.         *)
Check(p) ==
  /\ pc[p] = "check"
  /\ \/ /\ Compared(p, "other")
        /\ Goto(p, "read")
        /\ Increased(untouched, p)
        /\ Increased(dropped, p)
        /\ UNCHANGED <<out, choice>>
     \/ /\ Compared(p, "identical")
        /\ UNCHANGED dropped
        /\ \/ NoDirectory(p) /\ Skip(p, line[p]) /\ UNCHANGED choice
           \/ /\ ~NoDirectory(p)
              /\ choice' = [choice EXCEPT ![p] = Choice(p)]
              /\ Proceed(p, "act")
  /\ UNCHANGED <<entry, options, line, m, stopping, lines, processed, leafs>>

(* The line is consumed.  A short write drops option -o, but also when it  *)
(* is option -p that failed: then there is no file to close.               *)
Consume(p) ==
  \/ /\ options[p].leaf = "none"
     /\ Goto(p, "read")
     /\ Increased(processed, p)
     /\ UNCHANGED <<options, leafs>>
  \/ /\ options[p].leaf # "none"
     /\ leafs' = [leafs EXCEPT ![p] = Append(@, line[p])]
     /\ Goto(p, "read")
     /\ Increased(processed, p)
     /\ UNCHANGED options
  \/ /\ options[p].leaf = "file" /\ "leaf" \in Fallible
     /\ options' = [options EXCEPT ![p].leaf = "none"]
     /\ Goto(p, "read")
     /\ Increased(processed, p)
     /\ UNCHANGED leafs
  \/ /\ options[p].leaf = "pipe" /\ "leaf" \in Fallible
     /\ Goto(p, "crashed")
     /\ UNCHANGED <<options, processed, leafs>>

(* Mutant of FailureCounts: nobody looks at the result of unlink.          *)
FailureNeverCounts(p) == FALSE

(* With -q a failing unlink counts as a success.                           *)
FailureCounts(p) == ~options[p].quiet

(* samerm.  A directory cannot be unlinked at all.                         *)
Remove(p) ==
  /\ pc[p] = "act"
  /\ \/ /\ Present(choice[p].src) /\ ~options[p].directory
        /\ entry' = [entry EXCEPT ![choice[p].src] = Absent]
        /\ Consume(p)
        /\ UNCHANGED <<out, untouched>>
     \/ /\ ~Present(choice[p].src) \/ options[p].directory \/ "unlink" \in Fallible
        /\ UNCHANGED entry
        /\ \/ ~FailureCounts(p) /\ Consume(p) /\ UNCHANGED <<out, untouched>>
           \/ FailureCounts(p) /\ Skip(p, line[p]) /\ UNCHANGED <<options, processed, leafs>>
  /\ UNCHANGED <<line, m, choice, cache, stopping, lines, dropped>>

Next ==
  \E p \in Procs :
    \/ Quit(p) \/ ReadLine(p) \/ EndOfInput(p)
    \/ Stat1(p) \/ Stat2(p) \/ Check(p) \/ Remove(p)

Spec == Init /\ [][Next]_vars

-------------------------------------------------------------------------------
Original(n) == Content[InitEntry[n]]

(* No content is lost: of the names that held it at first, one still does. *)
(* samerm compares before it removes, also through a cache whose slots are *)
(* shared, with reports that are out of date, and next to other samerm     *)
(* processes that keep names by the same order.                            *)
OneCopyKept ==
  \A n \in Names : \E k \in Names : Present(k) /\ Original(k) = Original(n)

(* With option -d nothing is removed.                                      *)
Removers(o) == {p \in Procs : ~o[p].directory}

Alone(o) == \A p, q \in Removers(o) : p = q

(* The processes that remove files keep the earlier file of each of their  *)
(* lines, in one order of all names; with -L, numbers of links change.     *)
Follows(o, place) ==
  \A p \in Removers(o) : o[p].order # "L" /\ \A l \in Lines[p] :
    LET stat(n) == [ino |-> InitEntry[n], nlink |-> 0]
    IN IF Precedes(o[p].order, l, stat(l.f1), stat(l.f2))
       THEN place[l.f1] < place[l.f2] ELSE place[l.f2] < place[l.f1]

OneOrder(o) ==
  \E place \in [Names -> 0 .. Cardinality(Names) - 1] : Follows(o, place)

(* What the guarantees about copies take for granted: one process alone    *)
(* removes files, or all that do follow one order of the names.            *)
OptionsAgree == \A o \in OptionSets : Alone(o) \/ OneOrder(o)

Promise ==
  INSTANCE KeepOne WITH Data <- [n \in Names |-> Original(n)],
                        there <- {n \in Names : Present(n)}

(* Names disappear one at a time, and at the moment of the unlink another  *)
(* name of the same content is there, whatever the other processes do      *)
(* between the comparison and the unlink.                                  *)
RemovesDuplicates == Promise!Spec

(* Every line that was read is printed, consumed or dropped as different,  *)
(* once, unless a signal made the process end with it; and the statistics  *)
(* say how many.                                                           *)
LinesAccounted ==
  \A p \in Procs : pc[p] \in {"read", "ended"} =>
    /\ untouched[p] = Len(out[p]) + dropped[p]
    /\ lines[p] - (processed[p] + untouched[p]) \in
         IF stopping[p] /\ pc[p] = "ended" THEN {0, 1} ELSE {0}

(* A line goes to the leaf file or pipe only if one of its files is gone   *)
(* (samerm.cpp: FAILED_REMOVE when the file couldn't be removed).  It is    *)
(* not so with -q, when the result of unlink is not looked at.             *)
ConsumedIsRemoved ==
  \A p \in Procs : ~options[p].quiet => \A k \in DOMAIN leafs[p] :
    ~Present(leafs[p][k].f1) \/ ~Present(leafs[p][k].f2)

===============================================================================
