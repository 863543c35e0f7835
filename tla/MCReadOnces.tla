----------------------------- MODULE MCReadOnces -----------------------------
(***************************************************************************)
(* Small instances of ReadOnces.                                           *)
(***************************************************************************)
EXTENDS ReadOnces, TLC

CONSTANTS X, Y, r1, r2

Symmetry == Permutations({X, Y}) \cup Permutations({r1, r2})

(* Calls fail for samefile; the other programs share all that may fail.    *)
MCMaxFaults == [p \in Programs |-> IF p = "samefile" THEN 2 ELSE 0]
===============================================================================
