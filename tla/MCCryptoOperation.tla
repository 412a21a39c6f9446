------------------------- MODULE MCCryptoOperation -------------------------
(***************************************************************************)
(* Constants for the TLC runs of CryptoOperation.                          *)
(***************************************************************************)
EXTENDS CryptoOperation

GcmKinds == {"ENCRYPT", "DECRYPT"} \X {"GCM"}
OtherKinds == AllKinds \ GcmKinds

\* Payload chunks and handles are interchangeable.
Sym == Permutations(Chunks) \cup Permutations(Ops)

=============================================================================
