------------------------------ MODULE DelayProofs -----------------------------
(***************************************************************************)
(* Proofs about Delay, for any lines, files and initial capacity.          *)
(***************************************************************************)
EXTENDS Delay, SequenceTheorems, TLAPS

(* Adding to what is held is adding to all that has come in.               *)
LEMMA AddToHeld ==
  ASSUME NEW S, NEW s \in Seq(S), NEW t \in Seq(S), NEW x \in S
  PROVE  /\ s \o Append(t, x) = Append(s \o t, x)
         /\ (s \o t) \o <<x>> = Append(s \o t, x)
         /\ s \o t \in Seq(S) /\ Append(t, x) \in Seq(S)
         /\ Len(Append(t, x)) = Len(t) + 1
         /\ s \o <<>> = s /\ <<x>> \in Seq(S) /\ Len(<<x>>) = 1
<1>1. s \o Append(t, x) = Append(s \o t, x)
  OBVIOUS
<1>2. (s \o t) \o <<x>> = Append(s \o t, x)
  OBVIOUS
<1>3. s \o <<>> = s
  BY ConcatEmptySeq
<1> QED
  BY <1>1, <1>2, <1>3

(* The sequence before its last element was added.                         *)
LEMMA WithoutLast ==
  ASSUME NEW S, NEW s \in Seq(S), NEW x \in S
  PROVE  SubSeq(Append(s, x), 1, Len(Append(s, x)) - 1) = s
OBVIOUS

-------------------------------------------------------------------------------
(* All lines that came in are printed or held, while they come in and when *)
(* no more do; but for the one that a signal makes the process drop.       *)
Held == pc = "read" => out \o arr = read /\ (read # <<>> => arr # <<>>)

Left ==
  pc # "read" =>
    \/ out \o arr = read
    \/ /\ stopping /\ Len(out) + Len(arr) = Len(read) - 1
       /\ out \o arr = SubSeq(read, 1, Len(read) - 1)

HeldInv ==
  /\ TypeOK /\ Held /\ Left
  /\ pc = "ended" => arr = <<>>

(* The match_t of a line has its type.                                     *)
LEMMA MatchType ==
  ASSUME NEW l \in Pairs
  PROVE  Match(l) \in Matches
<1>1. l.f1 \in Names /\ l.f2 \in Names
  BY DEF Pairs
<1> QED
  BY <1>1, FilesAssumption DEF Match, Matches

(* buffer_add holds one line more and makes room for it.                   *)
LEMMA AddKeeps ==
  ASSUME TypeOK, NEW l \in Input, BufferAdd(l)
  PROVE  /\ arr' \in Seq(Input) /\ arr' # <<>> /\ out' = out
         /\ capacity' \in Nat \ {0} /\ Len(arr') <= capacity'
         /\ out' \o arr' = Append(out \o arr, l)
<1>1. /\ arr' \in Seq(Input) /\ Len(arr') = Len(arr) + 1
      /\ out' \o arr' = Append(out \o arr, l)
  BY AddToHeld DEF TypeOK, BufferAdd
<1>2. arr' # <<>>
  BY <1>1 DEF TypeOK
<1> QED
  BY <1>1, <1>2 DEF TypeOK, BufferAdd

(* buffer_flush holds the new line only.                                   *)
LEMMA FlushKeeps ==
  ASSUME TypeOK, NEW l \in Input, BufferFlush(l)
  PROVE  /\ arr' \in Seq(Input) /\ arr' # <<>> /\ out' \in Seq(Input)
         /\ capacity' \in Nat \ {0} /\ Len(arr') <= capacity'
         /\ out' \o arr' = Append(out \o arr, l)
<1>1. /\ arr' \in Seq(Input) /\ Len(arr') = 1 /\ out' \in Seq(Input)
      /\ out' \o arr' = Append(out \o arr, l)
  BY AddToHeld DEF TypeOK, BufferFlush
<1> QED
  BY <1>1 DEF TypeOK, BufferFlush

(* A line that is read is held, or it is the one that is lost.             *)
LEMMA ReadKeeps == HeldInv /\ ReadLine => HeldInv'
<1> SUFFICES ASSUME HeldInv, ReadLine PROVE HeldInv'
  OBVIOUS
<1>0. PICK l \in Input : TakeLine(l)
  BY DEF ReadLine
<1>1. /\ read' = Append(read, l)
      /\ \/ stopping /\ pc' = "flush" /\ UNCHANGED <<arr, capacity, first, old, out>>
         \/ ~stopping /\ ~Accepted(l) /\ BufferAdd(l) /\ UNCHANGED <<first, old, pc>>
         \/ ~stopping /\ Accepted(l) /\ BufferAction(l) /\ UNCHANGED pc
  BY <1>0 DEF TakeLine
<1>2. /\ TypeOK /\ pc = "read" /\ out \o arr = read /\ UNCHANGED <<gone, stopping>>
      /\ read' \in Seq(Input)
  BY <1>0, <1>1, AddToHeld DEF HeldInv, Held, TakeLine, TypeOK
<1>3. CASE stopping /\ pc' = "flush" /\ UNCHANGED <<arr, capacity, first, old, out>>
  <2>1. SubSeq(read', 1, Len(read') - 1) = read
    BY <1>1, <1>2, WithoutLast DEF TypeOK
  <2>2. Len(out') + Len(arr') = Len(read') - 1
    BY <1>1, <1>2, <1>3 DEF TypeOK
  <2>3. TypeOK'
    BY <1>2, <1>3 DEF TypeOK
  <2> QED
    BY <1>2, <1>3, <2>1, <2>2, <2>3 DEF HeldInv, Held, Left
<1>4. CASE (BufferAdd(l) \/ BufferFlush(l)) /\ UNCHANGED pc
           /\ first' \in BOOLEAN /\ old' \in Matches
  <2>1. /\ arr' \in Seq(Input) /\ arr' # <<>> /\ out' \in Seq(Input)
        /\ capacity' \in Nat \ {0} /\ Len(arr') <= capacity'
        /\ out' \o arr' = Append(out \o arr, l)
    BY <1>2, <1>4, AddKeeps, FlushKeeps DEF TypeOK
  <2>2. TypeOK'
    BY <1>2, <1>4, <2>1 DEF TypeOK
  <2> QED
    BY <1>1, <1>2, <1>4, <2>1, <2>2 DEF HeldInv, Held, Left
<1>5. CASE ~stopping /\ ~Accepted(l) /\ BufferAdd(l) /\ UNCHANGED <<first, old, pc>>
  BY <1>2, <1>4, <1>5 DEF TypeOK
<1>6. CASE Accepted(l) /\ BufferAction(l) /\ UNCHANGED pc
  <2>1. Match(l) \in Matches
    BY <1>6, MatchType DEF Accepted, Input
  <2>2. old' \in Matches
    <3>1. \A x \in Matches : Assigned(x, Match(l)) \in Matches
      BY <2>1 DEF Assigned, Matches
    <3> QED
      BY <1>2, <1>6, <3>1 DEF BufferAction, TypeOK
  <2> QED
    BY <1>4, <1>6, <2>2 DEF BufferAction
<1> QED
  BY <1>1, <1>3, <1>5, <1>6

(* No line is lost, doubled or out of order, and the types hold.           *)
THEOREM HeldAlways == Spec => []HeldInv
<1>1. Init => HeldInv
  <2> SUFFICES ASSUME Init PROVE HeldInv
    OBVIOUS
  <2>1. old \in Matches
    BY DEF Init, Matches
  <2>2. Len(arr) = 0 /\ capacity \in Nat \ {0} /\ 0 <= capacity
    BY CapacityAssumption DEF Init
  <2>3. arr \in Seq(Input) /\ read \in Seq(Input) /\ out \in Seq(Input)
    BY DEF Init
  <2>4. TypeOK
    BY <2>1, <2>2, <2>3 DEF Init, TypeOK
  <2>5. out \o arr = read
    BY ConcatEmptySeq DEF Init
  <2> QED
    BY <2>4, <2>5 DEF Init, HeldInv, Held, Left
<1>2. HeldInv /\ [Next]_vars => HeldInv'
  <2> SUFFICES ASSUME HeldInv, [Next]_vars PROVE HeldInv'
    OBVIOUS
  <2>1. CASE OthersWork
    BY <2>1 DEF OthersWork, HeldInv, TypeOK, Held, Left
  <2>2. CASE Quit
    BY <2>2 DEF Quit, HeldInv, TypeOK, Held, Left
  <2>3. CASE ReadLine
    BY <2>3, ReadKeeps
  <2>4. CASE EndOfInput
    BY <2>4 DEF EndOfInput, HeldInv, TypeOK, Held, Left
  <2>5. CASE FlushAtEnd
    <3>1. (out \o arr) \o <<>> = out \o arr /\ out \o arr \in Seq(Input)
      BY AddToHeld, ConcatEmptySeq DEF HeldInv, TypeOK
    <3>2. TypeOK'
      BY <2>5, <3>1 DEF FlushAtEnd, HeldInv, TypeOK
    <3> QED
      BY <2>5, <3>1, <3>2 DEF FlushAtEnd, HeldInv, Held, Left
  <2>6. CASE UNCHANGED vars
    BY <2>6 DEF vars, HeldInv, TypeOK, Held, Left
  <2> QED
    BY <2>1, <2>2, <2>3, <2>4, <2>5, <2>6 DEF Next
<1> QED
  BY <1>1, <1>2, PTL DEF Spec

(* buffer_add and buffer_flush keep the lines in order, whatever the sizes *)
(* of the files make the buffer do (samedelay.cpp).                        *)
THEOREM LinesKeptInOrder == Spec => []LinesInOrder
<1>1. HeldInv => LinesInOrder
  <2> SUFFICES ASSUME HeldInv PROVE LinesInOrder
    OBVIOUS
  <2>1. Len(out \o arr) = Len(out) + Len(arr) /\ Len(out) \in Nat /\ Len(arr) \in Nat
    BY DEF HeldInv, TypeOK
  <2>2. CASE out \o arr = read
    BY <2>1, <2>2 DEF HeldInv, LinesInOrder, Kept
  <2>3. CASE /\ stopping /\ pc # "read" /\ Len(out) + Len(arr) = Len(read) - 1
             /\ out \o arr = SubSeq(read, 1, Len(read) - 1)
    <3>1. Len(read) \in Nat
      BY DEF HeldInv, TypeOK
    <3> QED
      BY <2>1, <2>3, <3>1 DEF HeldInv, LinesInOrder, Kept
  <2> QED
    BY <2>2, <2>3 DEF HeldInv, Held, Left
<1> QED
  BY <1>1, HeldAlways, PTL

(* The newest line stays in the buffer until another one comes.            *)
THEOREM NewestIsHeld == Spec => []NewestHeld
<1>1. HeldInv => NewestHeld
  BY DEF HeldInv, Held, NewestHeld, TypeOK
<1> QED
  BY <1>1, HeldAlways, PTL
===============================================================================
