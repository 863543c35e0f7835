--------------------------------- MODULE Fsort --------------------------------
(***************************************************************************)
(* fsort: the names on the standard input come out with those of the       *)
(* largest files first.                                                    *)
(*                                                                         *)
(* A name that lstat cannot find is printed at once.  The others are held  *)
(* until the end of the input, sorted by qsort, and printed from the last  *)
(* to the first, with option -o to a file; then every name is also printed *)
(* as it is read.                                                          *)
(***************************************************************************)
EXTENDS Order, Sequences, Functions

CONSTANTS
  Names,
  Found,     (* the names lstat finds                                      *)
  EntryOf,   (* name -> its entry, what lstat gave and the path's rank     *)
  Inputs     (* the sequences of names that may be on the standard input   *)

VARIABLES
  toFile,  (* option -o                                                    *)
  input,   (* the names that are still to be read                          *)
  arr,     (* the names that are held                                      *)
  stage,   (* "reading", "printing" or "done"                              *)
  stdout,
  file     (* the file of option -o                                        *)

FsortTypeOK ==
  /\ toFile \in BOOLEAN
  /\ input \in Seq(Names)
  /\ arr \in Seq(Found)
  /\ stage \in {"reading", "printing", "done"}
  /\ stdout \in Seq(Names)
  /\ file \in Seq(Names)

FsortInit ==
  /\ toFile \in BOOLEAN
  /\ input \in Inputs
  /\ arr = <<>>
  /\ stage = "reading"
  /\ stdout = <<>>
  /\ file = <<>>

Printed(n) == stdout' = Append(stdout, n)

ReadName ==
  /\ stage = "reading" /\ input # <<>>
  /\ LET n == Head(input)
     IN \/ n \notin Found /\ Printed(n) /\ UNCHANGED arr
        \/ /\ n \in Found
           /\ arr' = Append(arr, n)
           /\ IF toFile THEN Printed(n) ELSE UNCHANGED stdout
  /\ input' = Tail(input)
  /\ UNCHANGED <<stage, file>>

Arranged(order) == [k \in DOMAIN arr |-> arr[order[k]]]

InOrder(s) ==
  \A j, k \in DOMAIN s : j < k => EntryCmp(EntryOf[s[j]], EntryOf[s[k]]) <= 0

(* qsort: any order that the comparison allows, and any at all when the    *)
(* comparison contradicts itself.                                          *)
Arrangements ==
  LET all == {Arranged(order) : order \in Bijection(DOMAIN arr, DOMAIN arr)}
      sorted == {s \in all : InOrder(s)}
  IN IF sorted # {} THEN sorted ELSE all

Sort ==
  /\ stage = "reading" /\ input = <<>>
  /\ stage' = "printing"
  /\ arr' \in Arrangements
  /\ UNCHANGED <<input, stdout, file>>

(* Mutant of PrintLast: printed from the first to the last.                *)
PrintFirst ==
  /\ stage = "printing" /\ arr # <<>>
  /\ arr' = Tail(arr)
  /\ IF toFile THEN file' = Append(file, Head(arr)) /\ UNCHANGED stdout
               ELSE Printed(Head(arr)) /\ UNCHANGED file
  /\ UNCHANGED <<input, stage>>

PrintLast ==
  /\ stage = "printing" /\ arr # <<>>
  /\ LET last == arr[Len(arr)]
     IN IF toFile THEN file' = Append(file, last) /\ UNCHANGED stdout
                  ELSE Printed(last) /\ UNCHANGED file
  /\ arr' = SubSeq(arr, 1, Len(arr) - 1)
  /\ UNCHANGED <<input, stage>>

Exit ==
  /\ stage = "printing" /\ arr = <<>>
  /\ stage' = "done"
  /\ UNCHANGED <<input, arr, stdout, file>>

FsortStep ==
  /\ ReadName \/ Sort \/ PrintLast \/ Exit
  /\ UNCHANGED toFile
===============================================================================
