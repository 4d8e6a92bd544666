----------------------------- MODULE MCMapping -----------------------------
(* Constants for the small instances of Mapping.  Two keys have paths one   *)
(* of which is a prefix of the other.                                       *)
EXTENDS Mapping

CONSTANTS test, testfile, data, c1, c2

MCPathPrefix == {<<test, testfile>>}
=============================================================================
