------------------------------- MODULE MCIpfs -------------------------------
(* Instances of Ipfs: two files, and hashes of which one may be unknown. *)
EXTENDS Ipfs

CONSTANTS f1, f2, h1, h2, h3

TwoFiles == {f1, f2}
ThreeHashes == {h1, h2, h3}
MCHashOf == [f \in File |-> IF f = f1 THEN h1 ELSE h2]
=============================================================================
