------------------------------ MODULE SgxObject ------------------------------
(***************************************************************************)
(* The persistent objects of the SGX build (api/sgx/tee-internal-api.c).   *)
(* They differ from PersistentObject, whose state, types and host they     *)
(* use, in four ways:                                                      *)
(*  - a transfer is one ocall of any length (edger/App_ocalls_sgx.cpp), so *)
(*    call[a] is always Idle and a call is one step;                       *)
(*  - the AES key covers the enclave and the first SGX_KEYID_SIZE bytes of *)
(*    the object id, the IV the whole id;                                  *)
(*  - a read of a part of a block is not refused: the cipher is, and what  *)
(*    the fresh buffer held is returned;                                   *)
(*  - the status of an ocall is ignored, so when the ocall itself fails    *)
(*    its answer is whatever the uninitialised variable holds;             *)
(* and the enclave, its heap and its handles live as long as the process,  *)
(* over all the ecalls of main (samples/.../App-sgx.cpp).                  *)
(*                                                                         *)
(* The pair <<measurement, object id>> that names a key in                 *)
(* PersistentObject names here the IV a stream starts from.                *)
(***************************************************************************)
EXTENDS PersistentObject

CONSTANTS
    KeyId           \* KeyId[id]: the part of id that key_request.key_id takes

VARIABLES
    heap            \* heap[a]: plaintext blocks left in freed heap memory

sgxVars == <<vars, heap>>

SgxInit == Init /\ heap = [a \in Apps |-> {}]

(***************************************************************************)
(*                      set_object_key and the cipher                      *)
(***************************************************************************)
\* The report key (MRENCLAVE) beside the seal key (MRSIGNER, key_id).
AesKey_SealOnly(k) == <<KeyId[k[2]]>>
AesKey_NoKeyId(k) == <<k[1]>>
AesKey(k) == <<k[1], KeyId[k[2]]>>

\* The digest of that key and the whole id.
ObjectIV_KeyOnly(a, id) ==
    IV(<<TaOf[a], CHOOSE i \in ObjectIDs : KeyId[i] = KeyId[id]>>)
ObjectIV(a, id) == IV(<<TaOf[a], id>>)

\* Blocks c of streams under handle key k, behind chaining value prev.
SgxDecryptBlock(k, prev, c) ==
    IF c.key # NoKey /\ c.chain # << >> /\ AesKey(c.key) = AesKey(k)
       /\ prev = [key |-> c.key, chain |-> Front(c.chain)]
    THEN Last(c.chain) ELSE Garbage

SgxDecrypt(k, prev, u) ==
    [j \in 1..(Len(u) \div BLK) |->
        SgxDecryptBlock(k, IF j = 1 THEN prev ELSE BlockAt(u, j - 1), BlockAt(u, j))]

(***************************************************************************)
(* The life of the process.  abort() ends the enclave, the ecall fails and *)
(* main returns; sgx_destroy_enclave and exit leave nothing behind.        *)
(***************************************************************************)
SgxPanic(a) ==
    /\ LeaveInstance(a, "panicked")
    /\ heap' = [heap EXCEPT ![a] = {}]

initialize_enclave(a) ==
    /\ inst[a] = "none"
    /\ inst' = [inst EXCEPT ![a] = "run"]
    /\ UNCHANGED <<hostVars, handle, call, ret, written, opens, heap>>

MainReturns_EnclaveStays(a) ==
    /\ inst[a] # "none"
    /\ LeaveInstance(a, "none")
    /\ ProcessExit(a)
    /\ UNCHANGED heap

MainReturns(a) ==
    /\ inst[a] # "none"
    /\ LeaveInstance(a, "none")
    /\ heap' = [heap EXCEPT ![a] = {}]
    /\ ProcessExit(a)

(***************************************************************************)
(*                              The API calls                              *)
(***************************************************************************)
\* The error codes are not told apart here.
Failed(a) == Return(a, Returned("GENERIC"))

\* Calls refused for their arguments (a missing or long id, both access rights,
\* no handle, a size that is no multiple of 16) or because malloc fails first.
SgxRefused(a) ==
    /\ Running(a)
    /\ Failed(a)
    /\ UNCHANGED <<hostVars, inst, handle, call, written, opens, heap>>

SgxCloseNull(a) ==
    /\ Running(a)
    /\ SgxPanic(a)
    /\ UNCHANGED hostVars

\* The ocall fails: the host does nothing and the answer is left as it was.
OcallFails(f) == f = 1 /\ UNCHANGED <<made, file, fdt>>

\* k = 1: sgx_get_key fails, and the descriptor stays open.
SgxOpen(a, id, flags, ocreat) ==
    /\ Running(a) /\ opens < MaxOpens
    /\ MayOpen(id)
    /\ ~(flags.read /\ flags.write)
    /\ \E desc \in Fds \cup {-1}, f \in 0..1, k \in 0..1 :
       /\ Faults(f + k)
       /\ \/ ocall_open_file(a, FileOf[id], flags2flags(flags, ocreat), desc, f)
          \/ OcallFails(f)
       /\ \/ /\ (desc < 0 /\ k = 0) \/ (desc >= 0 /\ k = 1)
             /\ Failed(a)
             /\ UNCHANGED handle
          \/ /\ desc >= 0 /\ k = 0
             /\ \E h \in Handles :
                /\ handle[a][h].st # "open"
                /\ handle' = [handle EXCEPT ![a][h] =
                      [st |-> "open", id |-> id, desc |-> desc,
                       mode |-> IF flags.write THEN "w" ELSE "r",
                       prev |-> ObjectIV(a, id)]]
             /\ Return(a, Returned("SUCCESS"))
    /\ opens' = opens + 1
    /\ UNCHANGED <<inst, call, written, heap>>

\* The chain that handle h encrypts along; none with a decryption key schedule
\* or behind a block of another AES key.
Encrypts(a, h) ==
    LET g == handle[a][h] IN
    g.mode = "w" /\ g.prev.key # NoKey /\ AesKey(g.prev.key) = AesKey(Owner(a, h))

\* A short write is not told from a complete one.
WriteResult(n) == IF n < 0 THEN "GENERIC" ELSE "SUCCESS"

SgxWrite(a, h, d) ==
    /\ Running(a) /\ Live(a, h)
    /\ LET p == handle[a][h].prev
           w == Encrypts(a, h)
           fd == handle[a][h].desc
           data == IF w THEN Encrypt(p.key, p.chain, d)
                   ELSE [i \in 1..(BLK * Len(d)) |-> Hole]
       IN /\ Len(p.chain) + Len(d) <= MaxBlocks
          /\ IsOpen(a, fd) => fdt[a][fd].pos + BLK * Len(d) <= BLK * MaxBlocks
          /\ handle' = [handle EXCEPT ![a][h] =
                           IF d = << >> THEN @
                           ELSE IF w THEN Chained(@, [key |-> p.key, chain |-> p.chain \o d])
                           ELSE Chained(@, Torn)]
          /\ written' = [written EXCEPT ![Owner(a, h)] =
                            IF w THEN @ \cup {p.chain \o SubSeq(d, 1, j) : j \in 1..Len(d)}
                            ELSE @]
          /\ \E n \in -1..(BLK * Len(d)), f \in 0..1 :
                /\ Faults(f)
                /\ ocall_write_file256(a, fd, data, n, f) \/ OcallFails(f)
                /\ Return(a, Returned(WriteResult(n)))
    /\ UNCHANGED <<inst, call, opens, heap>>

\* A read.  m = 1: malloc of the decryption buffer fails.  After a decryption the
\* plaintext stays behind in that buffer, which is freed.
Blocks(n) == 1..((n + BLK - 1) \div BLK)

SgxRead(a, h, blocks) ==
    /\ Running(a) /\ Live(a, h)
    /\ \E n \in -1..(BLK * blocks), f \in 0..1, m \in 0..1, called \in BOOLEAN :
       LET g == handle[a][h]
           buf == IF called THEN UnitsRead(a, g.desc, n) ELSE [i \in 1..n |-> Hole]
           Reads(d) == Return(a, ReadReturned("SUCCESS", Owner(a, h), n, n, d))
       IN /\ Faults(f + m)
          /\ IF called THEN ocall_read_file256(a, g.desc, BLK * blocks, n, f)
                       ELSE OcallFails(f)
          /\ \/ /\ (n < 0 /\ m = 0) \/ (n > 0 /\ m = 1)
                /\ Failed(a)
                /\ UNCHANGED <<handle, heap>>
             \/ /\ n = 0 /\ m = 0
                /\ Return(a, Returned("SUCCESS"))
                /\ UNCHANGED <<handle, heap>>
             \/ /\ n > 0 /\ n % BLK # 0 /\ m = 0
                /\ \E d \in [Blocks(n) -> heap[a] \cup {Garbage}] : Reads(d)
                /\ UNCHANGED <<handle, heap>>
             \/ /\ n > 0 /\ n % BLK = 0 /\ m = 0
                /\ LET d == IF g.mode = "r" THEN SgxDecrypt(Owner(a, h), g.prev, buf)
                            ELSE [j \in Blocks(n) |-> Garbage]
                   IN /\ Reads(d)
                      /\ heap' = [heap EXCEPT ![a] = @ \cup (Range(d) \ {Garbage})]
                /\ handle' = [handle EXCEPT ![a][h] = Chained(@, LastBlock(buf))]
    /\ UNCHANGED <<inst, call, written, opens>>

SgxClose(a, h) ==
    /\ Running(a)
    /\ Live(a, h) \/ (DoubleClose /\ handle[a][h].st = "closed")
    /\ \E rv \in {0, -1}, f \in 0..1 :
       /\ ocall_close_file(a, handle[a][h].desc, rv, f) \/ OcallFails(f)
       /\ Faults(f)
       /\ \/ rv # 0 /\ SgxPanic(a)
          \/ /\ rv = 0
             /\ handle' = [handle EXCEPT ![a][h] = Closed(@.desc)]
             /\ Return(a, Returned("SUCCESS"))
             /\ UNCHANGED <<inst, call, written, opens, heap>>

SgxNext ==
    \E a \in Apps :
       \/ initialize_enclave(a) \/ MainReturns(a)
       \/ SgxRefused(a) \/ SgxCloseNull(a)
       \/ \E id \in ObjectIDs, flags \in OpenArgs, ocreat \in BOOLEAN :
             SgxOpen(a, id, flags, ocreat)
       \/ \E h \in Handles :
             \/ \E n \in 0..MaxBlocks : \E d \in [1..n -> Data] : SgxWrite(a, h, d)
             \/ \E n \in 0..MaxBlocks : SgxRead(a, h, n)
             \/ SgxClose(a, h)

SgxSpec == SgxInit /\ [][SgxNext]_sgxVars

(***************************************************************************)
(*                               Properties                                *)
(***************************************************************************)

\* The types, and what must not outlive an instance: a process that is not
\* there has no descriptors, and an enclave that is gone no handles and no
\* heap contents (abort, sgx_destroy_enclave and exit at the end of main).
SgxTypeOK ==
    /\ TypeOK
    /\ heap \in [Apps -> SUBSET Data]
    /\ \A a \in Apps : call[a] = Idle
    /\ \A a \in Apps : inst[a] # "run" =>
          heap[a] = {} /\ \A h \in Handles : handle[a][h] = NULL
    /\ \A a \in Apps : inst[a] = "none" => FreeFds(a) = Fds

\* The read of whole blocks whose result ret[a] is.
WholeRead(a) == ret[a].count % BLK = 0

\* Every plaintext block a read returns was written by a TA with the same
\* measurement.  A read of whole blocks moreover returns nothing of an object
\* whose id differs within the key_id part; a read of a partial block returns
\* heap contents, which can be of any object the enclave has read.
SgxPlaintextOwn ==
    \A a \in Apps : \A j \in 1..Len(ret[a].data) :
        ret[a].data[j] # Garbage =>
            \E o \in Keys :
               /\ o[1] = TaOf[a]
               /\ WholeRead(a) => KeyId[o[2]] = KeyId[ret[a].owner[2]]
               /\ \E s \in written[o] : s # << >> /\ Last(s) = ret[a].data[j]

\* The first block that a fresh handle reads and decrypts was the first block
\* of a stream under the very same object id: ids that share the key_id part
\* share the AES key, and only the IV tells their streams apart.
SgxFirstBlockOwn ==
    [][\A a \in Apps, h \in Handles :
          (/\ handle[a][h].st = "open" /\ handle'[a][h].st = "open"
           /\ handle[a][h].prev = ObjectIV(a, handle[a][h].id)
           /\ handle'[a][h].prev # handle[a][h].prev
           /\ handle[a][h].mode = "r"
           /\ Len(ret'[a].data) > 0 /\ ret'[a].data[1] # Garbage) =>
          <<ret'[a].data[1]>> \in written[Owner(a, h)]]_sgxVars
=============================================================================
