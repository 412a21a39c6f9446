---------------------------- MODULE MCSgxObject ----------------------------
(***************************************************************************)
(* Constants for the TLC run of SgxObject: two enclave binaries, three ids *)
(* that form one C string (they differ behind an embedded NUL), two of     *)
(* which also agree in the bytes that key_id takes.                        *)
(***************************************************************************)
EXTENDS SgxObject

CONSTANTS a1, a2, ta1, ta2, id1, id2, id3, f1, k1, k2

MCHole == [key |-> NoKey, chain |-> << >>, part |-> 0]
TwoTAs == [a \in Apps |-> IF a = a1 THEN ta1 ELSE ta2]
SharedFile == [id \in ObjectIDs |-> f1]
SharedKeyId == [id \in ObjectIDs |-> IF id = id3 THEN k2 ELSE k1]

\* The two ids with the same key_id are interchangeable, and so are the two
\* processes together with their binaries.
SwapApps == [x \in {a1, a2, ta1, ta2} |->
    CASE x = a1 -> a2 [] x = a2 -> a1 [] x = ta1 -> ta2 [] x = ta2 -> ta1]
Sym == Permutations({id1, id2}) \cup {SwapApps}
============================================================================
