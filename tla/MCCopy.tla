-------------------------------- MODULE MCCopy --------------------------------
(***************************************************************************)
(* Small instances of Copy.  The source argument is bbb/: four files are   *)
(* below it, one of them with the name of a directory; two have names of   *)
(* its length or more that do not begin with it, and two shorter ones.     *)
(***************************************************************************)
EXTENDS Copy, TLC

CONSTANTS a, b, X, Y

MCArgument == <<b, b, b, Slash>>

Inside(rest) == MCArgument \o rest

MCBelow == {Inside(<<a>>), Inside(<<b, a>>), Inside(<<a, a>>), Inside(<<a, a, Slash, a>>)}
MCOutside == {<<a, b, b, b, a>>, <<a, a, a, a>>}
MCShorter == {<<a>>, <<a, a>>}

MCSources == MCBelow \cup MCOutside \cup MCShorter

(* bbb//a is another name of bbb/a.                                        *)
MCContent ==
  [name \in MCSources \cup {Inside(<<Slash, a>>)} |->
     IF name \in {Inside(<<a>>), Inside(<<Slash, a>>)} THEN <<X>>
     ELSE IF name = Inside(<<b, a>>) THEN <<Y>>
     ELSE IF name = Inside(<<a, a>>) THEN <<X, Y>> ELSE <<Y, X>>]

MCExisting == <<b, a, Slash, a>> :> <<Y, Y>>
MCFresh == {<<>>, <<Slash, b>>}

MCTwo == {Inside(<<a, a, Slash, a>>), Inside(<<b, a>>)}
MCNoTail == {<<>>}
NoFiles == [f \in {} |-> <<>>]
===============================================================================
