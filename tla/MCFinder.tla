------------------------------- MODULE MCFinder -------------------------------
(***************************************************************************)
(* Small instances of Finder.  In a table of four or eight slots, 6 and 7  *)
(* hash to the last slots and 1 to one of the first.                       *)
(***************************************************************************)
EXTENDS Finder

MCItems == 1 .. 5

MCHash == {h \in [MCItems -> {1, 6, 7}] : h[5] = 1 /\ h[1] # 7}

(* The names 1 .. 5 belong to files of five sizes; 6 and 7 are further     *)
(* names of file 2, and 8 is that of another file of its size.             *)
MCNames == 1 .. 8
MCInodeOf == [f \in MCNames |-> CASE f <= 5 -> f [] f \in {6, 7} -> 2 [] f = 8 -> 8]
MCSizeOf == [i \in {1, 2, 3, 4, 5, 8} |-> IF i = 8 THEN 2 ELSE i]

(* One file of each size: what becomes of the table.                       *)
Sizes ==
  [names : {1 .. 5}, hash : MCHash, match : {"none", "name"},
   addHardlinked : {FALSE}, report : {"none"}]

(* Files of one size and files with several names: what becomes of them.   *)
Shared ==
  [names : {{1, 2, 5, 6, 7, 8}}, hash : {[x \in MCItems |-> 1]}, match : Matches,
   addHardlinked : BOOLEAN, report : {"first", "all"}]

ByName == {c \in Shared : c.match = "name"}

MCCalls == Sizes \cup Shared
===============================================================================
