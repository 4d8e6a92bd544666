----------------------------- MODULE MCDataPath -----------------------------
(* Constants for the small instance of DataPath.  The page of k1 is past    *)
(* the end of its file at first, so the keys are not interchangeable.       *)
EXTENDS DataPath, TLC

CONSTANTS k1, k2, c1, c2

MCSymmetry == Permutations({c1, c2})
=============================================================================
