-------------------------- MODULE MCPointerTable --------------------------
(* Constants for the small instance of PointerTable: four keys on three     *)
(* blocks, so that there is always one outside, and three in one bucket.    *)
EXTENDS PointerTable, TLC

CONSTANTS k1, k2, k3, k4, c1

MCPathPrefix == {}
MCHash == k1 :> 0 @@ k2 :> 0 @@ k3 :> 0 @@ k4 :> 1

\* The keys of one bucket may be exchanged.
MCSymmetry == Permutations({k1, k2, k3})
=============================================================================
