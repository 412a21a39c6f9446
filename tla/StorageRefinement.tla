-------------------------- MODULE StorageRefinement --------------------------
(***************************************************************************)
(* PersistentObject implements ObjectStore as long as the host makes no    *)
(* errors (MaxFaults = 0), a file is open once at a time (Exclusive) and   *)
(* the TA closes a handle once.                                            *)
(*                                                                         *)
(* The refinement mapping.  An owner's blocks are what the file decrypts   *)
(* to under the owner's key from the IV on.  A cursor is the descriptor's  *)
(* position in blocks, less what a read in progress has already taken, and *)
(* is spoilt while the handle's persist_iv is no block of the file.  The   *)
(* blocks a write still has to put are the plaintext of the part of its    *)
(* buffer behind offset.                                                   *)
(***************************************************************************)
EXTENDS PersistentObject

Cells == [o \in Keys |-> Decrypt(o, IV(o), file[FileOf[o[2]]])]

BlocksTaken(a, h) ==
    IF call[a].op = "read" /\ call[a].h = h THEN call[a].offset \div BLK ELSE 0

Cursor ==
    [a \in Apps |-> [h \in Handles |->
        IF Live(a, h)
        THEN [owner |-> Owner(a, h), mode |-> handle[a][h].mode,
              at |-> fdt[a][handle[a][h].desc].pos \div BLK - BlocksTaken(a, h),
              spoilt |-> handle[a][h].prev = Torn]
        ELSE [owner |-> << >>, mode |-> "r", at |-> 0, spoilt |-> FALSE]]]

Plaintext(u, from) ==
    [j \in 1..((Len(u) - from) \div BLK) |-> Last(u[from + j * BLK].chain)]

Fits(c, g) == g.mode = IF c.op = "write" THEN "w" ELSE "r"

Pending ==
    [a \in Apps |->
        LET c == call[a]
            P(op, h, rest, want) == [op |-> op, h |-> h, rest |-> rest, want |-> want]
        IN IF c = Idle THEN P("none", << >>, << >>, 0)
           ELSE IF ~Fits(c, handle[a][c.h]) THEN P("refused", c.h, << >>, 0)
           ELSE IF c.op = "write" THEN P("write", c.h, Plaintext(c.buf, c.offset), 0)
           ELSE P("read", c.h, << >>, c.count \div BLK)]

Outcome == [a \in Apps |-> [ok |-> ret[a].res = "SUCCESS", data |-> ret[a].data]]

Store == INSTANCE ObjectStore WITH
    Owners <- Keys,
    Place <- [o \in Keys |-> FileOf[o[2]]],
    Chunk <- CAP \div BLK,
    cells <- Cells,
    cursor <- Cursor,
    pending <- Pending,
    result <- Outcome

\* Storage behaves as the abstract store: chunked transfers, the advance of
\* persist_iv before the first ocall, kills in the middle of a transfer and a
\* second owner on the same file name never show in any other way.
ImplementsObjectStore == Store!StoreSpec
==============================================================================
