------------------------------- MODULE MCDriver -------------------------------
(***************************************************************************)
(* Small instances of Driver.  Of four names, a, b and c hold the same     *)
(* content, b and c are one inode, and d was changed after the report was  *)
(* made.                                                                   *)
(***************************************************************************)
EXTENDS Driver, TLC

CONSTANTS p1, p2, a, b, c, d, X, Y

MCRank == a :> 1 @@ b :> 2 @@ c :> 3 @@ d :> 4
MCInitEntry == a :> 1 @@ b :> 2 @@ c :> 2 @@ d :> 3
MCContent == <<X, X, Y>>
MCMTime == <<10, 20, 20>>

Pair(f, g) == [f1 |-> f, f2 |-> g]

MCLines == p1 :> {Pair(a, b), Pair(b, c), Pair(a, d)} @@ p2 :> {Pair(a, b), Pair(a, c)}

MCMaxLines == p1 :> 3 @@ p2 :> 1

(* Two slots: pairs with the same first inode share one.                   *)
MCSlot == [q \in Inodes \X Inodes |-> q[1] % 2]

Options(order, directory, quiet, leaf) ==
  [order |-> order, directory |-> directory, quiet |-> quiet, leaf |-> leaf]

(* Both processes with one order of names or times, with -At also -q; or,  *)
(* in the orders that go by the number of links, one process and one that  *)
(* removes nothing.                                                        *)
MCOptionSets ==
  {p1 :> Options(o, FALSE, o = "At", "file") @@ p2 :> Options(o, FALSE, FALSE, "none") :
     o \in {"A", "At", "Z", "Zt"}}
  \cup {p1 :> Options("L", FALSE, FALSE, "pipe") @@ p2 :> Options("Z", TRUE, FALSE, "file")}

ASSUME OneOrderOrProcess == OptionsAgree
===============================================================================
