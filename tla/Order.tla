--------------------------------- MODULE Order --------------------------------
(***************************************************************************)
(* The comparison functions that the sorts of this repository are given:   *)
(* they return the difference of two numbers of 64 bits as an int.         *)
(***************************************************************************)
EXTENDS Integers

CONSTANT Half   (* an int goes from -Half to Half - 1; 2^31 in the code    *)

ASSUME HalfAssumption == Half \in Nat \ {0}

(* Mutant of Truncated: all but the sign bit is kept.                      *)
TruncatedTwice(x) == ((x + Half) % Half) - Half

Truncated(x) == ((x + Half) % (2 * Half)) - Half

(* rank: the place of the path among all paths, for strcmp.                *)
Entries == [size : Nat, dev : Nat, ino : Nat, rank : Nat]

(* entry_cmp: paths are compared the other way round.                      *)
EntryCmp(a, b) ==
  CASE a.size # b.size -> Truncated(a.size - b.size)
    [] a.size = b.size /\ a.dev # b.dev -> Truncated(a.dev - b.dev)
    [] a.size = b.size /\ a.dev = b.dev /\ a.ino # b.ino -> Truncated(a.ino - b.ino)
    [] OTHER -> b.rank - a.rank

(* SizeGroup::compare: larger sizes first.                                 *)
SizeCmp(x, y) == Truncated(y - x)

-------------------------------------------------------------------------------
(* The numbers are near enough for their difference to be an int.          *)
Near(x, y) == -Half <= x - y /\ x - y < Half

AllNear(a, b) == Near(a.size, b.size) /\ Near(a.dev, b.dev) /\ Near(a.ino, b.ino)
===============================================================================
