-------------------------------- MODULE KeepOne -------------------------------
(***************************************************************************)
(* What a program that removes duplicates promises: names disappear one at *)
(* a time, and each only while another name of the same content is there.  *)
(***************************************************************************)
CONSTANTS
  Names,     (* the names there are at first                               *)
  Data       (* name -> the content it had at first                        *)

VARIABLE there   (* the names that are still there                         *)

Init == there = Names

Copies(n) == {k \in there \ {n} : Data[k] = Data[n]}

Remove(n) ==
  /\ n \in there
  /\ Copies(n) # {}
  /\ there' = there \ {n}

Next == \E n \in Names : Remove(n)

Spec == Init /\ [][Next]_there
===============================================================================
