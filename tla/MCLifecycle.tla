---------------------------- MODULE MCLifecycle ----------------------------
(* Constants for the small instance of Lifecycle: two servers, two users and *)
(* two segments, so that an unlinked segment lives on beside its successor. *)
EXTENDS Lifecycle

CONSTANTS a1, a2, u1, u2, s1, s2
=============================================================================
