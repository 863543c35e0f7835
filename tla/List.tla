--------------------------------- MODULE List ---------------------------------
(***************************************************************************)
(* List<Filename>: the names of one file, in a linked list whose first     *)
(* node is part of the file's FileGroup.  A list is a sequence; names are  *)
(* compared by <.                                                          *)
(***************************************************************************)
EXTENDS Naturals, Sequences, SequencesExt

(* operator+=: the second node goes to the end, later ones come right      *)
(* after the first.                                                        *)
ListAdd(list, name) ==
  IF Len(list) < 2 THEN Append(list, name)
  ELSE InsertAt(list, 2, name)

(* One step of the insertion sort: in front of the first name, or else     *)
(* behind it and the smaller ones that follow it.                          *)
Inserted(sorted, name) ==
  LET behind == {k \in 2 .. Len(sorted) + 1 : k = Len(sorted) + 1 \/ sorted[k] >= name}
  IN InsertAt(sorted, IF name < sorted[1] THEN 1 ELSE Min(behind), name)

(* A list of one name, or of none, is left alone.  after[n]: n names have  *)
(* been inserted.                                                          *)
ListSorted(list) ==
  IF Len(list) < 2 THEN list
  ELSE LET after[n \in 0 .. Len(list) - 1] ==
             IF n = 0 THEN <<list[1]>> ELSE Inserted(after[n - 1], list[n + 1])
       IN after[Len(list) - 1]

(* Mutant of HardLinked: the loop ends after the first name in any case.   *)
HardLinkedToFirst(list, all) == {<<list[1], list[k]>> : k \in 2 .. Len(list)}

(* PrintHardLinked: every name with those behind it, or, unless the        *)
(* callback asks for more, the first one only.                             *)
HardLinked(list, all) ==
  {<<list[p[1]], list[p[2]]>> : p \in
     {q \in (1 .. Len(list)) \X (1 .. Len(list)) : q[1] < q[2] /\ (all \/ q[1] = 1)}}
===============================================================================
