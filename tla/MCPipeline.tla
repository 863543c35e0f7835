------------------------------ MODULE MCPipeline ------------------------------
(***************************************************************************)
(* A small instance of Pipeline: a, b, c and d are alike and share a       *)
(* directory; p and q, in another one, are alike and too small for         *)
(* samedelay, which has an option -g.                                      *)
(***************************************************************************)
EXTENDS Pipeline, TLC

CONSTANTS a, b, c, d, p, q, a0, b0, c0, d0, p0, q0, dir, sub, schg, uappnd, w, x,
          own, other

MCBackupOf == a :> a0 @@ b :> b0 @@ c :> c0 @@ d :> d0 @@ p :> p0 @@ q :> q0
MCInitEntry == a :> 1 @@ b :> 2 @@ c :> 3 @@ d :> 4 @@ p :> 5 @@ q :> 6
MCContent == <<"x", "x", "x", "x", "y", "y">>
MCSize == <<20, 20, 20, 20, 10, 10>>
MCDirOf == [n \in {a, b, c, d, p, q, a0, b0, c0, d0, p0, q0} |->
              IF n \in {p, q, p0, q0} THEN sub ELSE dir]

File(flags) == [flags |-> flags, mode |-> {w}, uid |-> other, gid |-> other]
Attrs(files, dirs) ==
  [o \in Inodes \cup Dirs |-> IF o \in Dirs THEN [File(dirs) EXCEPT !.mode = {w, x}]
                            ELSE File(files)]

(* The same with a fifth file that is like the first four.                 *)
MCFiveContent == [MCContent EXCEPT ![5] = "x"]
MCFiveSize == [MCSize EXCEPT ![5] = 20]
MCFiveDirOf == [n \in {a, b, c, d, p, q, a0, b0, c0, d0, p0, q0} |-> dir]

(* Either the files are immutable at first or their directories.           *)
MCInitAttrs == {Attrs({schg}, {}), Attrs({uappnd}, {schg})}

Chflags(set, clear, directory, absolute) ==
  [name |-> "samechflags", directory |-> directory, absolute |-> absolute,
   set |-> set, clear |-> clear]
Chown == [name |-> "samechown", directory |-> FALSE, owner |-> own, group |-> own]
Chmod(directory) ==
  [name |-> "samechmod", directory |-> directory, absolute |-> FALSE,
   set |-> {}, clear |-> {w}]

MCOptionSets ==
  {[clear |-> Chflags({}, {schg}, directory, FALSE),
    setLinked |-> set, setOther |-> set] :
      directory \in BOOLEAN,
      set \in {Chflags({schg}, {}, directory, FALSE) : directory \in BOOLEAN}
              \cup {Chmod(FALSE), Chown}}

(* The command line of the manual, without -d.                             *)
MCManual ==
  {[clear |-> Chflags({}, {schg}, FALSE, FALSE),
    setLinked |-> Chflags({schg}, {}, FALSE, FALSE),
    setOther |-> Chflags({schg}, {}, FALSE, FALSE)]}
MCImmutable == {Attrs({schg}, {})}

Pair(f, g) == [f1 |-> f, f2 |-> g]

(* A group of four files; all pairs of three; two groups, and then or      *)
(* instead a line about files that differ by now.                          *)
MCReports ==
  {<<Pair(a, b), Pair(a, c), Pair(a, d)>>,
   <<Pair(a, b), Pair(a, c), Pair(b, c)>>,
   <<Pair(a, b), Pair(p, q), Pair(b, p)>>,
   <<Pair(a, b), Pair(a, c), Pair(b, p)>>}

(* All pairs of a group of five, as samefile -x prints them.               *)
MCAllPairs ==
  {<<Pair(a, b), Pair(a, c), Pair(a, d), Pair(a, p),
     Pair(b, c), Pair(b, d), Pair(b, p),
     Pair(c, d), Pair(c, p), Pair(d, p)>>}
===============================================================================
