------------------------------ MODULE MCGCPKMS ------------------------------
(* Instances of GCPKMS for TLC.                                            *)
EXTENDS GCPKMS, TLC

CONSTANTS t1, t2

\* A rotation that changes the algorithm of the key.
MCHash == [v \in Versions |-> IF v = 1 THEN "sha256" ELSE "sha384"]

MCSymmetry == Permutations({t1, t2})
=============================================================================
