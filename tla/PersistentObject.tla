-------------------------- MODULE PersistentObject --------------------------
(***************************************************************************)
(* The persistent-object API of api/keystone/tee-internal-api.c on top of  *)
(* the file ocalls: TEE_Create/Open/Close/Read/WriteObject..., with the    *)
(* chunked transfer loops of edger/keyedge/Enclave_t.c and the life of the *)
(* enclave instances that call them (api/keystone/startup.c).              *)
(*                                                                         *)
(* One step of the model is one ocall, the only points at which another    *)
(* process can interleave, with all the enclave code up to the next one.   *)
(*                                                                         *)
(* AES-CBC is a free term algebra.  The ciphertext block that a handle     *)
(* produces under key k after encrypting the plaintext blocks s[1..n] from *)
(* the object's IV is [key |-> k, chain |-> s]: it depends on the key, the *)
(* IV and the whole history.  A block decrypts to its plaintext only under *)
(* its own key and with the block that preceded it as chaining value;      *)
(* anything else decrypts to Garbage.                                      *)
(*                                                                         *)
(* A definition Op_Variant is Op with one plausible mistake; nothing uses  *)
(* it but the sensitivity checks, which put it in the place of Op.         *)
(***************************************************************************)
EXTENDS HostFiles, SequencesExt

CONSTANTS
    TAs,            \* enclave measurements
    TaOf,           \* TaOf[a]: the enclave binary that process a loads
    ObjectIDs,      \* objectID arguments
    FileOf,         \* FileOf[id]: the C string the bytes of id form
    Data,           \* values of a 16-byte plaintext block
    Garbage,        \* what a block decrypts to under a wrong key or chain
    NoKey,          \* "no key": the key of holes and of torn blocks
    BLK,            \* units per cipher block (16 bytes)
    CAP,            \* units an ocall carries at most (256 bytes)
    Handles,        \* handle slots of an enclave's heap
    MaxBlocks,      \* bound on the blocks of a file, and of a handle's chain
    MaxOpens,       \* bound on the object handles opened per behaviour
    DoubleClose,    \* TRUE: the TA may close a handle it already closed
    Exclusive,      \* TRUE: no TA opens a file that is open elsewhere
    CanCrash        \* TRUE: host processes can be killed at any time

ASSUME ObjectAssumption ==
    /\ TaOf \in [Apps -> TAs]
    /\ FileOf \in [ObjectIDs -> Names]
    /\ Garbage \notin Data
    /\ NoKey \notin TAs \X ObjectIDs
    /\ BLK \in Nat \ {0} /\ CAP \in Nat \ {0} /\ CAP % BLK = 0
    /\ MaxBlocks \in Nat /\ MaxOpens \in Nat
    /\ Hole = [key |-> NoKey, chain |-> << >>, part |-> 0]
    /\ {DoubleClose, Exclusive, CanCrash} \subseteq BOOLEAN

VARIABLES
    inst,           \* inst[a]: the enclave instance of process a
    handle,         \* handle[a][h]: struct __TEE_ObjectHandle
    call,           \* call[a]: the API call in progress inside a transfer loop
    ret,            \* ret[a]: what the last completed call returned
    written,        \* history: every chain ever encrypted for an owner
    opens           \* history: object handles opened so far

vars == <<made, file, fdt, faults, inst, handle, call, ret, written, opens>>

(***************************************************************************)
(*                        Cipher blocks and units                          *)
(***************************************************************************)
Keys == TAs \X ObjectIDs      \* a key is named by what it is derived from
Chains == Seq(Data)
Unit == [key : Keys \cup {NoKey}, chain : Chains, part : 0..BLK]
Block == [key : Keys \cup {NoKey}, chain : Chains]

Torn == [key |-> NoKey, chain |-> << >>]    \* bytes that are no cipher block
IV(k) == [key |-> k, chain |-> << >>]

\* set_object_key: the report that attest_enclave signs covers the enclave's
\* measurement and the object id, so both determine key and IV.
set_object_key_NoId(a, id) == <<TaOf[a], CHOOSE i \in ObjectIDs : TRUE>>
set_object_key_PerProcess(a, id) == <<a, id>>
set_object_key(a, id) == <<TaOf[a], id>>

\* mbedtls_aes_crypt_cbc(ENCRYPT): the units of the blocks of d after chain s.
Encrypt(k, s, d) ==
    [i \in 1..(BLK * Len(d)) |->
        [key |-> k,
         chain |-> s \o SubSeq(d, 1, ((i - 1) \div BLK) + 1),
         part |-> ((i - 1) % BLK) + 1]]

\* The j-th block of a buffer of units.
BlockAt(u, j) ==
    LET p == (j - 1) * BLK
        f == u[p + 1]
    IN IF f.key # NoKey /\ f.chain # << >>
          /\ \A i \in 1..BLK :
                u[p + i] = [key |-> f.key, chain |-> f.chain, part |-> i]
       THEN [key |-> f.key, chain |-> f.chain]
       ELSE Torn

DecryptBlock(k, prev, c) ==
    IF c.key = k /\ c.chain # << >>
       /\ prev = [key |-> k, chain |-> Front(c.chain)]
    THEN Last(c.chain) ELSE Garbage

Decrypt_ECB(k, prev, u) ==
    [j \in 1..(Len(u) \div BLK) |->
        LET c == BlockAt(u, j) IN
        DecryptBlock(k, [key |-> k, chain |-> Front(c.chain)], c)]
Decrypt_FromIV(k, prev, u) ==
    [j \in 1..(Len(u) \div BLK) |->
        DecryptBlock(k, IF j = 1 THEN IV(k) ELSE BlockAt(u, j - 1), BlockAt(u, j))]

\* mbedtls_aes_crypt_cbc(DECRYPT) of a whole number of blocks after prev.
Decrypt(k, prev, u) ==
    [j \in 1..(Len(u) \div BLK) |->
        DecryptBlock(k, IF j = 1 THEN prev ELSE BlockAt(u, j - 1), BlockAt(u, j))]

(***************************************************************************)
(*                                 State                                   *)
(***************************************************************************)
NULL == [st |-> "null", id |-> NoFile, desc |-> -1, mode |-> "r", prev |-> Torn]
HandleRec == [st : {"null", "open", "closed"}, id : ObjectIDs \cup {NoFile},
              desc : Fds \cup {-1}, mode : Modes, prev : Block]
Closed_StillOpen(desc) ==
    [st |-> "open", id |-> NoFile, desc |-> desc, mode |-> "r", prev |-> Torn]
\* After mbedtls_aes_free only the descriptor number is left of a handle.
Closed(desc) ==
    [st |-> "closed", id |-> NoFile, desc |-> desc, mode |-> "r", prev |-> Torn]
Chained_Stuck(g, c) == g
\* Handle g with its persist_iv advanced to block c.
Chained(g, c) ==
    [st |-> g.st, id |-> g.id, desc |-> g.desc, mode |-> g.mode, prev |-> c]

Idle == [op |-> "idle", h |-> NoFile, buf |-> << >>, count |-> 0, offset |-> 0]
CallRec == [op : {"write", "read"}, h : Handles, buf : Seq(Unit),
            count : Nat, offset : Nat] \cup {Idle}

Moved_FullChunk(c, n, buf) ==
    [op |-> c.op, h |-> c.h, buf |-> buf, count |-> c.count, offset |-> c.offset + CAP]
\* The loop of call c after a pass that moved n units.
Moved(c, n, buf) ==
    [op |-> c.op, h |-> c.h, buf |-> buf, count |-> c.count, offset |-> c.offset + n]

Result == {"SUCCESS", "ITEM_NOT_FOUND", "BAD_PARAMETERS", "NOT_SUPPORTED", "OUT_OF_MEMORY",
           "ACCESS_DENIED", "SECURITY", "GENERIC"}
\* What a call hands back: its result and, for a read, the owner of the handle,
\* the size asked for, *count and the plaintext blocks.
Returned(r) == [res |-> r, owner |-> NoKey, size |-> 0, count |-> 0, data |-> << >>]
NoResult == Returned("SUCCESS")     \* nothing returned yet
ReadReturned(r, o, s, n, d) ==
    [res |-> r, owner |-> o, size |-> s, count |-> n, data |-> d]
RetRec == [res : Result, owner : Keys \cup {NoKey}, size : Nat, count : Nat,
           data : Seq(Data \cup {Garbage})]

Init ==
    /\ HostInit
    /\ inst = [a \in Apps |-> "none"]
    /\ handle = [a \in Apps |-> [h \in Handles |-> NULL]]
    /\ call = [a \in Apps |-> Idle]
    /\ ret = [a \in Apps |-> NoResult]
    /\ written = [o \in Keys |-> {}]
    /\ opens = 0

Running(a) == inst[a] = "run" /\ call[a] = Idle
KeyOf(a, h) == set_object_key(a, handle[a][h].id)
\* Whose object handle h is: what the key is meant to tell apart.
Owner(a, h) == <<TaOf[a], handle[a][h].id>>

Return(a, r) == ret' = [ret EXCEPT ![a] = r]

(***************************************************************************)
(* The life of an instance.  run_enclave starts a fresh one, with an empty *)
(* heap, for every command; leaving it (eapp_entry's EAPP_RETURN, or       *)
(* TEE_Panic's) discards the heap.  Neither touches host descriptors.      *)
(***************************************************************************)
LeaveInstance(a, how) ==
    /\ inst' = [inst EXCEPT ![a] = how]
    /\ handle' = [handle EXCEPT ![a] = [h \in Handles |-> NULL]]
    /\ call' = [call EXCEPT ![a] = Idle]
    /\ Return(a, NoResult)
    /\ UNCHANGED <<written, opens>>

TEE_Panic(a) == LeaveInstance(a, "panicked")

run_enclave(a) ==
    /\ inst[a] # "run"
    /\ inst' = [inst EXCEPT ![a] = "run"]
    /\ UNCHANGED <<hostVars, handle, call, ret, written, opens>>

EAPP_RETURN(a) ==
    /\ Running(a)
    /\ LeaveInstance(a, "none")
    /\ UNCHANGED hostVars

\* The host process is killed, at any point of a call.
Crash(a) ==
    /\ CanCrash
    /\ inst[a] = "run"
    /\ LeaveInstance(a, "none")
    /\ ProcessExit(a)

(***************************************************************************)
(* TEE_CreatePersistentObject (ocreat) and TEE_OpenPersistentObject.       *)
(***************************************************************************)
OpenArgs == [read : BOOLEAN, write : BOOLEAN, overwrite : BOOLEAN]

flags2flags_AlwaysWrite(flags, ocreat) ==
    [valid |-> flags.write \/ flags.read, mode |-> "w", creat |-> ocreat,
     trunc |-> flags.overwrite]

flags2flags(flags, ocreat) ==
    [valid |-> flags.write \/ flags.read,
     mode |-> IF flags.write THEN "w" ELSE "r",
     creat |-> ocreat,
     trunc |-> flags.overwrite]

\* The environment's discipline when Exclusive: nobody shares an open file.
MayOpen(id) ==
    Exclusive => \A b \in Apps, fd \in Fds : fdt[b][fd].name # FileOf[id]

OpenFails(a, res) ==
    /\ Return(a, Returned(res))
    /\ UNCHANGED handle

\* objectID is NULL, or longer than TEE_OBJECT_ID_MAX_LEN.
OpenBadID(a) ==
    /\ Running(a)
    /\ \E res \in {"ITEM_NOT_FOUND", "BAD_PARAMETERS"} : OpenFails(a, res)
    /\ UNCHANGED <<hostVars, inst, call, written, opens>>

OpenReadWrite(a, flags) ==
    /\ Running(a)
    /\ flags.read /\ flags.write
    /\ OpenFails(a, "NOT_SUPPORTED")
    /\ UNCHANGED <<hostVars, inst, call, written, opens>>

\* malloc of the file name or of the handle fails.
OpenNoMemory(a, flags) ==
    /\ Running(a)
    /\ ~(flags.read /\ flags.write)
    /\ Faults(1)
    /\ OpenFails(a, "OUT_OF_MEMORY")
    /\ UNCHANGED <<made, file, fdt, inst, call, written, opens>>

\* The ocall, then set_object_key.  When attest_enclave fails (k = 1) the
\* handle is freed but the descriptor is not closed.
OpenPersistentObject(a, id, flags, ocreat) ==
    /\ Running(a)
    /\ opens < MaxOpens /\ opens' = opens + 1
    /\ MayOpen(id)
    /\ ~(flags.read /\ flags.write)
    /\ \E desc \in Fds \cup {-1}, f \in 0..1, k \in 0..1 :
       /\ Faults(f + k)
       /\ ocall_open_file(a, FileOf[id], flags2flags(flags, ocreat), desc, f)
       /\ \/ /\ desc < 0 /\ k = 0
             /\ OpenFails(a, "ACCESS_DENIED")
          \/ /\ desc >= 0 /\ k = 1
             /\ OpenFails(a, "SECURITY")
          \/ /\ desc >= 0 /\ k = 0
             /\ \E h \in Handles :
                /\ handle[a][h].st # "open"
                /\ handle' = [handle EXCEPT ![a][h] =
                      [st |-> "open", id |-> id, desc |-> desc,
                       mode |-> IF flags.write THEN "w" ELSE "r",
                       prev |-> IV(set_object_key(a, id))]]
             /\ Return(a, Returned("SUCCESS"))
    /\ UNCHANGED <<inst, call, written>>

(***************************************************************************)
(* TEE_WriteObjectData and TEE_ReadObjectData up to the first ocall.       *)
(***************************************************************************)
Live(a, h) == handle[a][h].st = "open"

\* A NULL handle, or a size that is no multiple of the block size.
DataBadParameters(a) ==
    /\ Running(a)
    /\ Return(a, Returned("BAD_PARAMETERS"))
    /\ UNCHANGED <<hostVars, inst, handle, call, written, opens>>

\* malloc of the ciphertext buffer fails.
WriteNoMemory(a, h) ==
    /\ Running(a) /\ Live(a, h)
    /\ Faults(1)
    /\ Return(a, Returned("OUT_OF_MEMORY"))
    /\ UNCHANGED <<made, file, fdt, inst, handle, call, written, opens>>

\* The whole buffer is encrypted, and the chaining value advanced, before the
\* first ocall.  A handle opened for reading holds a decryption key schedule:
\* encrypting with it yields no block any key decrypts.  So does a chaining value
\* that is not of the handle's own key, which only a handle whose descriptor was
\* closed under it can have read (the block it makes decrypts at most right
\* behind that foreign one, and is counted as Torn).
TEE_WriteObjectData(a, h, d) ==
    /\ Running(a) /\ Live(a, h)
    /\ LET k == KeyOf(a, h)
           s == handle[a][h].prev.chain
           w == handle[a][h].mode = "w" /\ handle[a][h].prev.key = k
       IN /\ Len(s) + Len(d) <= MaxBlocks
          /\ IsOpen(a, handle[a][h].desc) =>
                fdt[a][handle[a][h].desc].pos + BLK * Len(d) <= BLK * MaxBlocks
          /\ handle' = [handle EXCEPT ![a][h] =
                           IF d = << >> THEN @
                           ELSE IF w THEN Chained(@, [key |-> k, chain |-> s \o d])
                           ELSE Chained(@, Torn)]
          /\ written' = [written EXCEPT ![Owner(a, h)] =
                            IF w THEN @ \cup {s \o SubSeq(d, 1, j) : j \in 1..Len(d)}
                            ELSE @]
          /\ IF d = << >>
                THEN /\ Return(a, Returned("SUCCESS"))
                     /\ UNCHANGED call
                ELSE /\ call' = [call EXCEPT ![a] =
                           [op |-> "write", h |-> h, offset |-> 0,
                            count |-> BLK * Len(d),
                            buf |-> IF w THEN Encrypt(k, s, d)
                                    ELSE [i \in 1..(BLK * Len(d)) |-> Hole]]]
                     /\ Return(a, NoResult)
    /\ UNCHANGED <<hostVars, inst, opens>>

TEE_ReadObjectData(a, h, blocks) ==
    /\ Running(a) /\ Live(a, h)
    /\ IF blocks = 0
          THEN /\ Return(a, Returned("SUCCESS"))
               /\ UNCHANGED call
          ELSE /\ call' = [call EXCEPT ![a] =
                     [op |-> "read", h |-> h, offset |-> 0,
                      count |-> BLK * blocks, buf |-> << >>]]
               /\ Return(a, NoResult)
    /\ UNCHANGED <<hostVars, inst, handle, written, opens>>

(***************************************************************************)
(* One pass of the loop of ocall_write_file_full: count never decreases,   *)
(* so the loop always ends with a call that moves nothing or fails.        *)
(***************************************************************************)
Clamp(n) == IF n > CAP THEN CAP ELSE n

\* A call that answers n <= 0 ends the loop.
LoopEnds_OnErrorOnly(n) == n < 0
LoopEnds(n) == n <= 0

LoopResult_LastCall(offset, n) == n
\* What the loop returns when a call answers n <= 0.
LoopResult(offset, n) == IF n < 0 /\ offset = 0 THEN n ELSE offset

ocall_write_file_full(a) ==
    /\ call[a].op = "write"
    /\ LET c == call[a]
           chunk == SubSeq(c.buf, c.offset + 1,
                           c.offset + Clamp(c.count - c.offset))
       IN \E n \in -1..CAP, f \in 0..1 :
          /\ ocall_write_file256(a, handle[a][c.h].desc, chunk, n, f)
          /\ Faults(f)
          /\ \/ /\ ~LoopEnds(n)
                /\ call' = [call EXCEPT ![a] = Moved(@, n, @.buf)]
                /\ UNCHANGED ret
             \/ /\ LoopEnds(n)
                /\ call' = [call EXCEPT ![a] = Idle]
                /\ Return(a, Returned(IF LoopResult(c.offset, n) < 0
                                      THEN "GENERIC" ELSE "SUCCESS"))
    /\ UNCHANGED <<inst, handle, written, opens>>

(***************************************************************************)
(* One pass of ocall_read_file_full and, when it ends, the rest of         *)
(* TEE_ReadObjectData.  m = 1: malloc of the decryption buffer fails.      *)
(***************************************************************************)
LastBlock_First(u) == BlockAt(u, 1)
LastBlock(u) == BlockAt(u, Len(u) \div BLK)   \* persist_iv after a decryption

ReadReturns(a, n, m) ==
    LET c == call[a]
        g == handle[a][c.h]
        k == KeyOf(a, c.h)
        R(res, cnt, d) == Return(a, ReadReturned(res, Owner(a, c.h), c.count, cnt, d))
        size == LoopResult(c.offset, n)
    IN \/ /\ size < 0 /\ m = 0
          /\ R("GENERIC", 0, << >>)
          /\ UNCHANGED handle
       \/ /\ size >= 0 /\ size % BLK # 0 /\ m = 0
          /\ R("GENERIC", size, << >>)
          /\ UNCHANGED handle
       \/ /\ size = 0 /\ m = 0
          /\ R("SUCCESS", 0, << >>)
          /\ UNCHANGED handle
       \/ /\ size > 0 /\ size % BLK = 0 /\ m = 1
          /\ R("OUT_OF_MEMORY", size, << >>)
          /\ UNCHANGED handle
       \/ /\ size > 0 /\ size % BLK = 0 /\ m = 0
          /\ R("SUCCESS", size,
               IF g.mode = "r" THEN Decrypt(k, g.prev, c.buf)
               ELSE [j \in 1..(size \div BLK) |-> Garbage])
          /\ handle' = [handle EXCEPT ![a][c.h] =
                           Chained(@, LastBlock(c.buf))]

ocall_read_file_full(a) ==
    /\ call[a].op = "read"
    /\ LET c == call[a]
           fd == handle[a][c.h].desc
       IN \E n \in -1..CAP, f \in 0..1, m \in 0..1 :
          /\ ocall_read_file256(a, fd, Clamp(c.count - c.offset), n, f)
          /\ Faults(f + m)
          /\ \/ /\ ~LoopEnds(n) /\ m = 0
                /\ call' = [call EXCEPT ![a] =
                              Moved(@, n, @.buf \o UnitsRead(a, fd, n))]
                /\ UNCHANGED <<ret, handle>>
             \/ /\ LoopEnds(n)
                /\ call' = [call EXCEPT ![a] = Idle]
                /\ ReadReturns(a, n, m)
    /\ UNCHANGED <<inst, written, opens>>

(***************************************************************************)
(* TEE_CloseObject.  The handle is neither freed nor marked, so nothing    *)
(* detects that it is closed a second time; st = "closed" records what the *)
(* TA has done and is not visible to the code.                             *)
(***************************************************************************)
TEE_CloseObject(a, h) ==
    /\ Running(a)
    /\ Live(a, h) \/ (DoubleClose /\ handle[a][h].st = "closed")
    /\ \E rv \in {0, -1}, f \in 0..1 :
       /\ ocall_close_file(a, handle[a][h].desc, rv, f)
       /\ Faults(f)
       /\ \/ /\ rv # 0
             /\ TEE_Panic(a)
          \/ /\ rv = 0
             /\ handle' = [handle EXCEPT ![a][h] = Closed(@.desc)]
             /\ Return(a, Returned("SUCCESS"))
             /\ UNCHANGED <<inst, call, written, opens>>

\* TEE_CloseObject(TEE_HANDLE_NULL) panics.
CloseNull(a) ==
    /\ Running(a)
    /\ TEE_Panic(a)
    /\ UNCHANGED hostVars

Next ==
    \E a \in Apps :
       \/ run_enclave(a) \/ EAPP_RETURN(a) \/ Crash(a)
       \/ OpenBadID(a) \/ DataBadParameters(a) \/ CloseNull(a)
       \/ \E flags \in OpenArgs : OpenReadWrite(a, flags) \/ OpenNoMemory(a, flags)
       \/ \E id \in ObjectIDs, flags \in OpenArgs, ocreat \in BOOLEAN :
             OpenPersistentObject(a, id, flags, ocreat)
       \/ \E h \in Handles :
             \/ WriteNoMemory(a, h)
             \/ \E n \in 0..MaxBlocks : \E d \in [1..n -> Data] :
                   TEE_WriteObjectData(a, h, d)
             \/ \E n \in 0..MaxBlocks : TEE_ReadObjectData(a, h, n)
             \/ TEE_CloseObject(a, h)
       \/ ocall_write_file_full(a) \/ ocall_read_file_full(a)

\* An ocall always answers: the host process keeps serving the enclave.
Fairness ==
    \A a \in Apps : WF_vars(ocall_write_file_full(a) \/ ocall_read_file_full(a))

Spec == Init /\ [][Next]_vars
FairSpec == Spec /\ Fairness

(***************************************************************************)
(*                               Properties                                *)
(***************************************************************************)

\* Every variable keeps its type, and a call in progress works on a live
\* handle, which has an object id and a descriptor number.
TypeOK ==
    /\ made \in SUBSET Names
    /\ file \in [Names -> Seq(Unit)]
    /\ fdt \in [Apps -> [Fds -> OpenFile]]
    /\ faults \in 0..MaxFaults
    /\ inst \in [Apps -> {"none", "run", "panicked"}]
    /\ handle \in [Apps -> [Handles -> HandleRec]]
    /\ call \in [Apps -> CallRec]
    /\ ret \in [Apps -> RetRec]
    /\ written \in [Keys -> SUBSET Chains]
    /\ opens \in 0..MaxOpens
    /\ \A a \in Apps : \A h \in Handles :
          Live(a, h) => handle[a][h].id \in ObjectIDs /\ handle[a][h].desc \in Fds
    /\ \A a \in Apps : call[a] # Idle => Live(a, call[a].h)

\* The transfer loops stay inside the caller's buffer: ocall_*_file_full adds
\* to offset only what a call moved, count is never adjusted, and yet no pass
\* reads or writes past buf[count], for a host that answers at most what it was
\* asked.  A write buffer is whole from the start, a read buffer holds exactly
\* what has been received.
LoopInBounds ==
    \A a \in Apps : call[a] # Idle =>
        /\ call[a].offset <= call[a].count
        /\ call[a].op = "write" => Len(call[a].buf) = call[a].count
        /\ call[a].op = "read" => Len(call[a].buf) = call[a].offset

\* Every cipher block in a file or in a transfer buffer is one that some handle
\* of the owner of the block's key encrypted: the inductive part of the two properties
\* that follow (TEE_WriteObjectData is the only source of ciphertext).
Genuine(u) == u.key # NoKey => u.chain \in written[u.key]

GenuineBlocks ==
    /\ \A n \in Names : \A i \in 1..Len(file[n]) : Genuine(file[n][i])
    /\ \A a \in Apps : \A i \in 1..Len(call[a].buf) : Genuine(call[a].buf[i])

\* No read hands a TA a plaintext block that was not written by a TA with the
\* same measurement under the same object id, whatever files share a name,
\* whatever the host loses, and even when a closed handle is closed again and
\* its descriptor already belongs to another object (set_object_key derives
\* the key from both).
OwnPlaintextOnly ==
    \A a \in Apps : \A j \in 1..Len(ret[a].data) :
        ret[a].data[j] # Garbage =>
            \E s \in written[ret[a].owner] : s # << >> /\ Last(s) = ret[a].data[j]

\* Two neighbouring blocks that both decrypt were encrypted one after the other
\* by one handle: torn writes, lost blocks, overwritten files and stale
\* chaining values never splice two contents together unnoticed
\* (TEE_ReadObjectData decrypts in CBC mode from the handle's persist_iv).
NoSplice ==
    \A a \in Apps : \A j \in 1..(Len(ret[a].data) - 1) :
        (ret[a].data[j] # Garbage /\ ret[a].data[j + 1] # Garbage) =>
            \E s \in written[ret[a].owner] :
                /\ Len(s) >= 2
                /\ s[Len(s) - 1] = ret[a].data[j]
                /\ s[Len(s)] = ret[a].data[j + 1]

\* As long as the TA closes each handle once, the descriptor of every live
\* handle is open on the handle's own file with the handle's access mode, and
\* no two live handles share one (TEE_CloseObject leaves desc in the handle,
\* and the host reuses the lowest free descriptor).
DescriptorsOwned ==
    \A a \in Apps : \A g, h \in Handles : Live(a, h) =>
        /\ IsOpen(a, handle[a][h].desc)
        /\ fdt[a][handle[a][h].desc].name = FileOf[handle[a][h].id]
        /\ fdt[a][handle[a][h].desc].mode = handle[a][h].mode
        /\ (Live(a, g) /\ g # h) => handle[a][g].desc # handle[a][h].desc

\* Data already in a file is only ever changed by a truncating open or by the
\* transfer loop of a live write handle of an object with that file name.
OnlyOwnFileChanges ==
    [][\A n \in Names : file'[n] # file[n] =>
          \/ file'[n] = << >>
          \/ \E a \in Apps : /\ call[a].op = "write"
                             /\ Live(a, call[a].h)
                             /\ handle[a][call[a].h].mode = "w"
                             /\ FileOf[handle[a][call[a].h].id] = n]_vars

\* File n begins with the encryption of s under k.
Holds(n, k, s) ==
    /\ Len(file[n]) >= BLK * Len(s)
    /\ SubSeq(file[n], 1, BLK * Len(s)) = Encrypt(k, << >>, s)

\* Without host faults and without shared files, what a write handle has
\* encrypted is what the file holds up to the handle's position, even when
\* earlier writers were killed in the middle of a transfer.
WriterInStep ==
    \A a \in Apps : \A h \in Handles :
        (Running(a) /\ Live(a, h) /\ handle[a][h].mode = "w") =>
            LET s == handle[a][h].prev.chain
                o == fdt[a][handle[a][h].desc]
            IN o.pos = BLK * Len(s) /\ Holds(o.name, KeyOf(a, h), s)

\* In the same conditions the chaining value of a read handle is the block just
\* before its position, unless the TA has called TEE_WriteObjectData on it
\* (which overwrites persist_iv before the host refuses the write).
ReaderInStep ==
    \A a \in Apps : \A h \in Handles :
        (Running(a) /\ Live(a, h) /\ handle[a][h].mode = "r"
            /\ handle[a][h].prev # Torn) =>
            LET o == fdt[a][handle[a][h].desc] IN
            /\ o.pos % BLK = 0
            /\ handle[a][h].prev = IF o.pos = 0 THEN IV(KeyOf(a, h))
                                   ELSE BlockAt(file[o.name], o.pos \div BLK)

\* This step is the return of a read that moved data.
ReadSucceeds(a) ==
    /\ call[a].op = "read" /\ call'[a] = Idle /\ inst'[a] = "run"
    /\ ret'[a].res = "SUCCESS"

\* The round trip: where the file holds the encryption of s under the reader's
\* key, a successful read returns exactly the blocks of s at the position it
\* read from (the check of gp/secure_stoage.c, "verify ok").
ReadBack ==
    [][\A a \in Apps :
          (ReadSucceeds(a) /\ handle[a][call[a].h].prev # Torn) =>
          LET o == fdt[a][handle[a][call[a].h].desc]
              to == o.pos \div BLK
              k == KeyOf(a, call[a].h)
          IN \A s \in written[Owner(a, call[a].h)] :
                (to <= Len(s) /\ Holds(o.name, k, s)) =>
                ret'[a].data = SubSeq(s, to - Len(ret'[a].data) + 1, to)]_vars

\* Every TEE_ReadObjectData and TEE_WriteObjectData returns or panics: the
\* loops end although count is never decremented.
CallReturns == \A a \in Apps : (call[a] # Idle) ~> (call[a] = Idle)

\* Claimed by the comment of TEE_ReadObjectData: the end of the stream is the
\* only reason for a successful read to deliver less than was asked for.
ShortReadOnlyAtEnd ==
    [][\A a \in Apps :
          (ReadSucceeds(a) /\ ret'[a].count < ret'[a].size) =>
          AtEnd(a, handle[a][call[a].h].desc)]_vars

=============================================================================
