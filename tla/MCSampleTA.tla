---------------------------- MODULE MCSampleTA ----------------------------
(***************************************************************************)
(* Constants for the TLC run of SampleTA: two blocks that fit one ocall,   *)
(* as the 32-byte hash and the 256-byte test data do.                      *)
(***************************************************************************)
EXTENDS SampleTA

CONSTANTS ta1, id1, f1, d1, d2

MCHole == [key |-> NoKey, chain |-> << >>, part |-> 0]
OneTA == [a \in Apps |-> ta1]
OneFile == [id \in ObjectIDs |-> f1]
MCSaved == <<d1, d2>>
===========================================================================
