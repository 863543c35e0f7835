--------------------------------- MODULE Files --------------------------------
(***************************************************************************)
(* The files and the lines that programs without a choice of their own, as *)
(* samedelay, work on.                                                     *)
(***************************************************************************)
EXTENDS Integers, Sequences

CONSTANTS
  Names,         (* the names that occur in lines                          *)
  Inodes,
  InitEntry,     (* name -> the inode it names at first                    *)
  Size,          (* inode -> its size                                      *)
  MinSize, MaxSize,   (* option -m: sizes above and up to these            *)
  Garbled,       (* a line that cannot be decoded                          *)
  InitCapacity   (* lines samedelay can hold at first, 1024 in the code    *)

Pairs == [f1 : Names, f2 : Names]

ASSUME FilesAssumption ==
  /\ InitEntry \in [Names -> Inodes]
  /\ Size \in [Inodes -> Nat]
  /\ MinSize \in Nat /\ MaxSize \in Nat

ASSUME LinesAssumption == Garbled \notin Pairs

ASSUME CapacityAssumption == InitCapacity \in Nat \ {0}
===============================================================================
