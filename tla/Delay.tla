--------------------------------- MODULE Delay --------------------------------
(***************************************************************************)
(* samedelay: lines pass through a buffer, so that a line goes out when    *)
(* the programs before it are done with its files.  It runs within the     *)
(* action driver, with an action of its own, and its buffer takes the      *)
(* lines that the driver would otherwise print.                            *)
(*                                                                         *)
(* Other programs remove and replace files in the meantime.                *)
(***************************************************************************)
EXTENDS Files

VARIABLES
  gone,       (* names that lstat does not find any more                   *)
  arr,        (* the lines that are held back                              *)
  capacity,   (* lines there is room for, arrCapacity                      *)
  first,      (* there was no line for buffer_action yet                   *)
  old,        (* the match_t of the previous line                          *)
  stopping,   (* it got a signal                                           *)
  pc,         (* "read", "flush" after the last line, or "ended"           *)
  read,       (* history: the lines that were read                         *)
  out         (* the lines printed                                         *)

vars == <<gone, arr, capacity, first, old, stopping, pc, read, out>>

Input == Pairs \cup {Garbled}

Matches == [ino1 : Inodes \cup {0}, ino2 : Inodes \cup {0}, size1 : Nat, size2 : Nat]

(* The variables have their types and the lines held back fit the buffer.  *)
TypeOK ==
  /\ gone \subseteq Names
  /\ arr \in Seq(Input)
  /\ capacity \in Nat \ {0}
  /\ Len(arr) <= capacity
  /\ first \in BOOLEAN /\ stopping \in BOOLEAN
  /\ old \in Matches
  /\ pc \in {"read", "flush", "ended"}
  /\ read \in Seq(Input)
  /\ out \in Seq(Input)

-------------------------------------------------------------------------------
Init ==
  /\ gone = {}
  /\ arr = <<>>
  /\ capacity = InitCapacity
  /\ first = TRUE
  /\ old = [ino1 |-> 0, ino2 |-> 0, size1 |-> 0, size2 |-> 0]
  /\ stopping = FALSE
  /\ pc = "read"
  /\ read = <<>>
  /\ out = <<>>

(* Other programs remove files and put others in their places.             *)
OthersWork ==
  /\ gone' \in SUBSET Names
  /\ UNCHANGED <<arr, capacity, first, old, stopping, pc, read, out>>

Quit ==
  /\ pc = "read" /\ ~stopping
  /\ stopping' = TRUE
  /\ UNCHANGED <<gone, arr, capacity, first, old, pc, read, out>>

(* What lstat gives for the files of a line.                               *)
Match(l) ==
  [ino1 |-> InitEntry[l.f1], ino2 |-> InitEntry[l.f2],
   size1 |-> Size[InitEntry[l.f1]], size2 |-> Size[InitEntry[l.f2]]]

(* The driver passes the line to buffer_action.                            *)
Accepted(l) ==
  /\ l # Garbled
  /\ {l.f1, l.f2} \cap gone = {}
  /\ \A s \in {Match(l).size1, Match(l).size2} : MinSize < s /\ s <= MaxSize

(* match_t::operator= does not copy the sizes.                             *)
Assigned(x, m) == [x EXCEPT !.ino1 = m.ino1, !.ino2 = m.ino2]

(* Mutant of BufferAdd: the buffer is never enlarged.                      *)
BufferAddInPlace(l) ==
  /\ arr' = Append(arr, l)
  /\ UNCHANGED <<capacity, out>>

BufferAdd(l) ==
  /\ arr' = Append(arr, l)
  /\ capacity' = IF Len(arr) = capacity THEN 2 * capacity ELSE capacity
  /\ UNCHANGED out

BufferFlush(l) ==
  /\ out' = out \o arr
  /\ arr' = <<l>>
  /\ UNCHANGED capacity

(* A size of the line is one of the previous line.                         *)
SameSize(m, x) == {m.size1, m.size2} \cap {x.size1, x.size2} # {}

BufferAction(l) ==
  LET m == Match(l)
      previous == IF first THEN Assigned(old, m) ELSE old
  IN /\ first' = FALSE
     /\ old' = Assigned(previous, m)
     /\ \/ (SameSize(m, previous) \/ arr = <<>>) /\ BufferAdd(l)
        \/ ~SameSize(m, previous) /\ arr # <<>> /\ BufferFlush(l)

(* Lines that the driver skips are held back too; the one that is read     *)
(* after a signal is lost.                                                 *)
TakeLine(l) ==
  /\ pc = "read"
  /\ read' = Append(read, l)
  /\ \/ stopping /\ pc' = "flush" /\ UNCHANGED <<arr, capacity, first, old, out>>
     \/ ~stopping /\ ~Accepted(l) /\ BufferAdd(l) /\ UNCHANGED <<first, old, pc>>
     \/ ~stopping /\ Accepted(l) /\ BufferAction(l) /\ UNCHANGED pc
  /\ UNCHANGED <<gone, stopping>>

ReadLine == \E l \in Input : TakeLine(l)

EndOfInput ==
  /\ pc = "read"
  /\ pc' = "flush"
  /\ UNCHANGED <<gone, arr, capacity, first, old, stopping, read, out>>

(* Mutant of FlushAtEnd: the lines that are held at the end are dropped.   *)
DropAtEnd ==
  /\ pc = "flush"
  /\ pc' = "ended"
  /\ arr' = <<>>
  /\ UNCHANGED <<gone, capacity, first, old, stopping, read, out>>

(* main.                                                                   *)
FlushAtEnd ==
  /\ pc = "flush"
  /\ pc' = "ended"
  /\ out' = out \o arr
  /\ arr' = <<>>
  /\ UNCHANGED <<gone, capacity, first, old, stopping, read>>

Next ==
  \/ OthersWork
  \/ Quit \/ ReadLine \/ EndOfInput \/ FlushAtEnd

Spec == Init /\ [][Next]_vars

-------------------------------------------------------------------------------
(* What was read without the line that is lost after a signal.             *)
Kept ==
  IF stopping /\ pc # "read" /\ Len(out) + Len(arr) < Len(read)
  THEN SubSeq(read, 1, Len(read) - 1)
  ELSE read

(* The lines come out as they went in, none lost, doubled or out of order, *)
(* whatever the buffer's size and the moments of its flushes; and at the   *)
(* end none is held.                                                       *)
LinesInOrder ==
  /\ out \o arr = Kept
  /\ pc = "ended" => arr = <<>>

(* The newest line is held until there is another one or the input ends.   *)
NewestHeld ==
  pc = "read" /\ read # <<>> => Len(out) < Len(read)
===============================================================================
