------------------------------ MODULE MCIOPath ------------------------------
(* Constants for the small instance of IOPath: pages of four bytes, cache    *)
(* pages of four, and offsets that wrap after sixteen pages.                 *)
EXTENDS IOPath

MCPageIndexes == 0 .. 9 \cup 14 .. 19
=============================================================================
