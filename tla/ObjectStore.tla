----------------------------- MODULE ObjectStore -----------------------------
(***************************************************************************)
(* What the persistent objects of api/keystone/tee-internal-api.c promise  *)
(* a TA when the host makes no errors and a file is open once at a time:   *)
(* every owner (an enclave binary and an object id) has a list of blocks,  *)
(* a handle is a cursor in the list of its owner, a write puts its blocks  *)
(* at the cursor in order, some at a time, and a read takes all there is   *)
(* up to the size asked for.  There are no files, descriptors, keys,       *)
(* ciphertexts or chaining values here.                                    *)
(*                                                                         *)
(* Three things the promise has to admit:                                  *)
(*   - a file holds the blocks of one owner at a time: what one owner      *)
(*     writes is Garbage to the others that use the same file name;        *)
(*   - the block behind an overwritten part can be anything afterwards;    *)
(*   - a write through a handle opened for reading is refused, and costs   *)
(*     the first block of the next read through that handle.               *)
(***************************************************************************)
EXTENDS Integers, Sequences

CONSTANTS
    Apps, Handles,
    Owners,         \* pairs of an enclave binary and an object id
    Place,          \* Place[o]: the file name of owner o's object
    Data, Garbage,
    Chunk,          \* blocks that reach the store in one step at most
    MaxBlocks       \* bound on the blocks of an object

VARIABLES
    cells,          \* cells[o]: the blocks of owner o's object
    cursor,         \* cursor[a][h]: an open object, or NoCursor
    pending,        \* pending[a]: the read or write in progress
    result          \* result[a]: what the last call returned

storeVars == <<cells, cursor, pending, result>>

NoCursor == [owner |-> << >>, mode |-> "r", at |-> 0, spoilt |-> FALSE]
NoCall == [op |-> "none", h |-> << >>, rest |-> << >>, want |-> 0]
Answer(ok, d) == [ok |-> ok, data |-> d]

StoreInit ==
    /\ cells = [o \in Owners |-> << >>]
    /\ cursor = [a \in Apps |-> [h \in Handles |-> NoCursor]]
    /\ pending = [a \in Apps |-> NoCall]
    /\ result = [a \in Apps |-> Answer(TRUE, << >>)]

Answers(a, ok, d) == result' = [result EXCEPT ![a] = Answer(ok, d)]
Calls(a, op, h, rest, want) ==
    /\ pending' = [pending EXCEPT ![a] =
                      [op |-> op, h |-> h, rest |-> rest, want |-> want]]
    /\ Answers(a, TRUE, << >>)

Least(m, n) == IF m < n THEN m ELSE n

\* The cells c of an owner after the blocks d have been put behind the first
\* p, with x as the block that follows.
Put(c, p, d, x) ==
    [j \in 1..(IF p + Len(d) > Len(c) THEN p + Len(d) ELSE Len(c)) |->
        IF j \in (p + 1)..(p + Len(d)) THEN d[j - p]
        ELSE IF j = p + Len(d) + 1 THEN x ELSE c[j]]

\* A call that is refused, or has nothing to move, only answers.
Immediate(a) ==
    /\ \E ok \in BOOLEAN : Answers(a, ok, << >>)
    /\ UNCHANGED <<pending, cursor, cells>>

\* An open, after which the object is empty if it truncates, and otherwise
\* what it was.
Open(a, h, o, mode, trunc) ==
    /\ UNCHANGED pending
    /\ cursor' = [cursor EXCEPT ![a][h] =
                     [owner |-> o, mode |-> mode, at |-> 0, spoilt |-> FALSE]]
    /\ cells' = [p \in Owners |-> IF trunc /\ Place[p] = Place[o]
                                  THEN << >> ELSE cells[p]]
    /\ Answers(a, TRUE, << >>)

StartWrite(a, h, d) ==
    /\ Calls(a, "write", h, d, 0)
    /\ cursor[a][h] # NoCursor /\ cursor[a][h].mode = "w"
    /\ UNCHANGED <<cursor, cells>>

WriteSome(a, m, x) ==
    /\ pending[a].op = "write"
    /\ m <= Len(pending[a].rest)
    /\ pending' = [pending EXCEPT ![a].rest =
                      SubSeq(pending[a].rest, m + 1, Len(pending[a].rest))]
    /\ LET h == pending[a].h
           d == SubSeq(pending[a].rest, 1, m)
           c == cursor[a][h]
       IN /\ cursor' = [cursor EXCEPT ![a][h].at = c.at + m]
          /\ cells' = [p \in Owners |->
                CASE p = c.owner -> Put(cells[p], c.at, d, x)
                  [] p # c.owner /\ Place[p] = Place[c.owner] ->
                       Put(cells[p], c.at, [j \in 1..m |-> Garbage], Garbage)
                  [] OTHER -> cells[p]]
    /\ UNCHANGED result

WriteDone(a) ==
    /\ pending[a].op = "write" /\ pending[a].rest = << >>
    /\ pending' = [pending EXCEPT ![a] = NoCall]
    /\ Answers(a, TRUE, << >>)
    /\ UNCHANGED <<cursor, cells>>

StartRead(a, h, n) ==
    /\ Calls(a, "read", h, << >>, n)
    /\ cursor[a][h] # NoCursor /\ cursor[a][h].mode = "r"
    /\ UNCHANGED <<cursor, cells>>

ReadDone(a) ==
    /\ pending[a].op = "read"
    /\ LET h == pending[a].h
           c == cursor[a][h]
           m == Least(pending[a].want, Len(cells[c.owner]) - c.at)
       IN /\ Answers(a, TRUE, [j \in 1..m |->
                 IF j = 1 /\ c.spoilt THEN Garbage ELSE cells[c.owner][c.at + j]])
          /\ cursor' = [cursor EXCEPT ![a][h].at = c.at + m,
                                      ![a][h].spoilt = @ /\ m = 0]
    /\ pending' = [pending EXCEPT ![a] = NoCall]
    /\ UNCHANGED cells

\* A read or a write through a handle opened for the other.
StartWrong(a, h) ==
    /\ Calls(a, "refused", h, << >>, 0)
    /\ cursor[a][h] # NoCursor
    /\ cursor' = [cursor EXCEPT ![a][h].spoilt = (cursor[a][h].mode = "r")]
    /\ UNCHANGED cells

RefusedDone(a) ==
    /\ pending[a].op = "refused"
    /\ pending' = [pending EXCEPT ![a] = NoCall]
    /\ Answers(a, FALSE, << >>)
    /\ UNCHANGED <<cursor, cells>>

Close(a, h) ==
    /\ UNCHANGED pending
    /\ cursor' = [cursor EXCEPT ![a][h] = NoCursor]
    /\ Answers(a, TRUE, << >>)
    /\ UNCHANGED cells

\* The instance returns, panics or is killed: what has been written stays.
Leave(a) ==
    /\ cursor' = [cursor EXCEPT ![a] = [h \in Handles |-> NoCursor]]
    /\ pending' = [pending EXCEPT ![a] = NoCall]
    /\ Answers(a, TRUE, << >>)
    /\ UNCHANGED cells

\* Between calls the TA makes the next one; a call in progress goes on.
StoreNext ==
    \E a \in Apps :
       \/ Leave(a)
       \/ /\ pending[a] = NoCall
          /\ \/ Immediate(a)
             \/ \E h \in Handles :
                   \/ Close(a, h) \/ StartWrong(a, h)
                   \/ \E o \in Owners, mode \in {"r", "w"}, trunc \in BOOLEAN :
                         Open(a, h, o, mode, trunc)
                   \/ \E n \in 1..MaxBlocks :
                         \/ StartRead(a, h, n)
                         \/ \E d \in [1..n -> Data] : StartWrite(a, h, d)
       \/ WriteDone(a) \/ ReadDone(a) \/ RefusedDone(a)
       \/ \E m \in 1..Chunk, x \in Data \cup {Garbage} : WriteSome(a, m, x)

StoreSpec == StoreInit /\ [][StoreNext]_storeVars
==============================================================================
