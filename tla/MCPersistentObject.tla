------------------------ MODULE MCPersistentObject ------------------------
(***************************************************************************)
(* Constants for the TLC runs of PersistentObject.  A cipher block is two  *)
(* units and an ocall carries one or two blocks, so that short transfers   *)
(* tear blocks and a write takes more than one pass of the loop.           *)
(***************************************************************************)
EXTENDS StorageRefinement

CONSTANTS ta1, id1, id2, f1, f2

MCHole == [key |-> NoKey, chain |-> << >>, part |-> 0]

\* Every process loads the same enclave binary.
OneTA == [a \in Apps |-> ta1]

\* Every id its own file, or both ids the same C string.
OwnFile == [id \in ObjectIDs |-> IF id = id1 THEN f1 ELSE f2]
SharedFile == [id \in ObjectIDs |-> f1]

\* Data values, handle slots and object ids are interchangeable; ids are so
\* only where they share their file.
DataSym == Permutations(Data) \cup Permutations(Handles)
IdSym == DataSym \cup Permutations(ObjectIDs)

===========================================================================
