------------------------------ MODULE MCArchives ------------------------------
(***************************************************************************)
(* A small instance of Archives:                                           *)
(*   find ... | fsort | samearchive-lite a/ b/ c/ b                        *)
(* A name is the sequence of its parts, a directory ends in a slash or it  *)
(* does not, and the file system takes two slashes for one.                *)
(***************************************************************************)
EXTENDS Archives, SequencesExt, TLC

A == <<"a">>
B == <<"b">>
C == <<"c">>
Slash == <<"/">>

MCArguments == <<A \o Slash, B \o Slash, C \o Slash, B>>

MCStripped(d) == IF Last(d) = "/" THEN Front(d) ELSE d
MCBegins(d, n) == IsPrefix(d, n)
MCMoved(n, d, e) == e \o SubSeq(n, Len(d) + 1, Len(n))

(* The files, and what they are: device, inode, size, regular or not.  a0  *)
(* and b0 are directories that only begin like a and b.                    *)
File(d, rel) == d \o Slash \o rel
Tree ==
  File(A, <<"x">>) :> <<1, 1, 20>> @@ File(B, <<"x">>) :> <<2, 1, 20>> @@
  File(C, <<"x">>) :> <<1, 3, 20>> @@
  File(A, <<"y">>) :> <<1, 2, 90>> @@ File(B, <<"y">>) :> <<1, 2, 90>> @@
  File(C, <<"y">>) :> <<2, 2, 90>> @@
  File(A, <<"z">>) :> <<1, 5, 220>> @@ File(B, <<"z">>) :> <<1, 6, 220>> @@
  File(<<"a", "0">>, <<"x">>) :> <<1, 4, 90>> @@
  File(<<"b", "0">>, <<"x">>) :> <<2, 4, 90>> @@
  A :> <<1, 9, 4>>

MCInodes == {[dev |-> Tree[n][1], ino |-> Tree[n][2]] : n \in DOMAIN Tree}
MCInode(n) == [dev |-> Tree[n][1], ino |-> Tree[n][2]]
MCSize == [i \in MCInodes |-> Tree[CHOOSE n \in DOMAIN Tree : MCInode(n) = i][3]]
MCRegular == MCInodes \ {MCInode(A)}

Gone == File(A, <<"w">>)

(* One slash of two.                                                       *)
Canonical(n) ==
  IF \E j \in 1 .. Len(n) - 1 : n[j] = "/" /\ n[j + 1] = "/"
  THEN LET j == CHOOSE i \in 1 .. Len(n) - 1 : n[i] = "/" /\ n[i + 1] = "/"
       IN SubSeq(n, 1, j) \o SubSeq(n, j + 2, Len(n))
  ELSE n

Read == {n \in DOMAIN Tree : IsPrefix(A, n)} \cup {Gone}
MCNames ==
  DOMAIN Tree \cup {Gone}
    \cup {MCMoved(n, A, e) : n \in Read, e \in {B, C \o Slash}}
MCInodeOf ==
  [n \in MCNames |-> IF Canonical(n) \in DOMAIN Tree THEN MCInode(Canonical(n))
                                                     ELSE Absent]

(* The part before the first slash, and the part behind it.                *)
MCLocated ==
  [n \in MCNames \cup Range(MCArguments) |->
     LET name == Canonical(n)
         ends == {j \in DOMAIN name : name[j] = "/"}
     IN IF ends = {} THEN [dir |-> name, rel |-> <<>>]
        ELSE LET j == CHOOSE i \in ends : \A h \in ends : i <= h
             IN [dir |-> SubSeq(name, 1, j - 1), rel |-> SubSeq(name, j + 1, Len(name))]]

(* The alphabetical order of the names that get to fsort.                  *)
Ranks == <<A, File(A, <<"x">>), File(A, <<"y">>), File(A, <<"z">>),
           File(<<"a", "0">>, <<"x">>)>>
MCEntryOf ==
  [n \in {m \in MCNames : MCInodeOf[m] # Absent} |->
     [size |-> MCSize[MCInodeOf[n]], dev |-> MCInodeOf[n].dev, ino |-> MCInodeOf[n].ino,
      rank |-> IF n \in Range(Ranks) THEN CHOOSE j \in DOMAIN Ranks : Ranks[j] = n ELSE 0]]

(* Two pairs share a slot.                                                 *)
MCSlot(p) == (p[1].ino + p[2].ino) % 2

(* All alike, or the files of b differ from the others.                    *)
MCInitContents ==
  {[i \in MCInodes |-> "u"],
   [i \in MCInodes |-> IF i.dev = 2 \/ i.ino = 6 THEN "v" ELSE "u"]}

MCShared == {MCInode(File(B, <<"x">>))}

(* Without and with a directory that begins like the first argument, and a *)
(* file too large for fsort's comparison.                                  *)
MCInputs ==
  {<<A, File(A, <<"x">>), Gone, File(A, <<"y">>)>>,
   <<File(A, <<"y">>), File(A, <<"x">>), File(<<"a", "0">>, <<"x">>)>>,
   <<File(A, <<"z">>), File(A, <<"x">>), A>>}
===============================================================================
