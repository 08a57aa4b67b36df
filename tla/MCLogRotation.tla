---------------------------- MODULE MCLogRotation ----------------------------
(* Instances of LogRotation: files of four bytes, lines of one to five.      *)
EXTENDS LogRotation, TLC

CONSTANTS l1, l2, l3, l4

FourLines == {l1, l2, l3, l4}

\* Lines are interchangeable.
Symmetry == Permutations(FourLines)
=============================================================================
