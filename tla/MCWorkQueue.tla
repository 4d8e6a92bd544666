---------------------------- MODULE MCWorkQueue ----------------------------
(* A ring of four slots and four works: the cursors wrap, the queue fills,  *)
(* and a full queue still leaves a work outside.                            *)
EXTENDS WorkQueue

CONSTANTS test, testfile, data, log

MCWorks == {test, testfile, data, log}
=============================================================================
