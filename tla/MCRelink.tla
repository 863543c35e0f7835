------------------------------- MODULE MCRelink -------------------------------
(***************************************************************************)
(* Small instances of Relink.  Four files: a and b on one file system, c   *)
(* and d on another; a, b and c have the same content.                     *)
(***************************************************************************)
EXTENDS Relink, TLC

CONSTANTS p1, p2, a, b, c, d, aBackup, bBackup, cBackup, dBackup, X, Y, dev1, dev2

MCBackupOf == a :> aBackup @@ b :> bBackup @@ c :> cBackup @@ d :> dBackup
MCDev == a :> dev1 @@ b :> dev1 @@ c :> dev2 @@ d :> dev2
MCInodes == 1 .. 5
MCInitEntry == a :> 1 @@ b :> 2 @@ c :> 3 @@ d :> 4
MCInitContent == <<X, X, X, Y, Y>>

Onto(kept, replaced) == [dst |-> kept, src |-> replaced]

(* p1 links b and c to a while p2, run with the opposite order, links a to *)
(* b; and p2's report is out of date about d.                              *)
MCMaxLines == p1 :> 2 @@ p2 :> 1

MCLines == p1 :> {Onto(a, b), Onto(a, c)} @@ p2 :> {Onto(b, a), Onto(a, d)}

ASSUME ReportsAreDisjoint == DisjointSources
ASSUME LinksGoOneWay == LinksDescend
===============================================================================
