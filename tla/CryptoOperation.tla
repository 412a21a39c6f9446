--------------------------- MODULE CryptoOperation ---------------------------
(***************************************************************************)
(* The cryptographic operations and transient key objects of               *)
(* api/tee-internal-api-cryptlib.c: the handles a TA allocates, keys, uses *)
(* and frees, in any order the code lets it.  One action is one API call;  *)
(* a TA is single-threaded, so calls do not interleave.                    *)
(*                                                                         *)
(* Cryptography is a term algebra.  A payload chunk stands for some whole  *)
(* cipher blocks; a CBC input may have a tail shorter than a block beside  *)
(* its chunk.  AES-GCM encrypts chunk x at place pos of a message to       *)
(* [key, iv, pos, pt |-> x]; anything else at that place decrypts to       *)
(* Garbage.  A GCM tag is the key, nonce, AAD and the ciphertexts hashed   *)
(* since the message was started.  An AES-CBC ciphertext is the key, the   *)
(* IV and every chunk encrypted since that IV.  A hash is the sequence     *)
(* absorbed, a signature the key pair and the digest.                      *)
(*                                                                         *)
(* A definition Op_Variant is Op with one plausible mistake; nothing uses  *)
(* it but the sensitivity checks, which put it in the place of Op.         *)
(***************************************************************************)
EXTENDS Integers, Sequences, FiniteSets, SequencesExt

CONSTANTS
    Ops,        \* operation handles
    Objs,       \* transient object handles
    Kinds,      \* the mode and algorithm pairs the TA allocates
    Types,      \* the object types the TA allocates
    Chunks,     \* payload chunks
    Nonces,     \* 16-byte nonces
    Aads,       \* AAD arguments other than the empty one
    Lib,        \* CRYPTLIB: "mbed" (mbedTLS, tiny SHA-3) or "wolf" (wolfCrypt)
    Garbage,    \* a chunk that decrypts to nothing anybody encrypted
    Empty,      \* a chunk of length 0, an empty AAD
    MaxKeys,    \* bound on the keys generated
    MaxFeed,    \* bound on the chunks fed to a context
    MaxAads,    \* bound on the AAD chunks of a message
    MaxSealed   \* bound on the GCM messages sealed

AllKinds == ({"ENCRYPT", "DECRYPT"} \X {"CBC", "GCM"}) \cup
            ({"SIGN", "VERIFY"} \X {"ECDSA"}) \cup {<<"DIGEST", "SHA256">>}

ASSUME CryptoAssumption ==
    /\ Kinds \subseteq AllKinds
    /\ Types \subseteq {"AES", "ECDH_KEYPAIR", "ECDSA_KEYPAIR"}
    /\ {Garbage, Empty} \cap Chunks = {} /\ Garbage # Empty
    /\ Empty \notin Aads
    /\ Lib \in {"mbed", "wolf"}
    /\ MaxKeys \in Nat /\ MaxFeed \in Nat /\ MaxAads \in Nat /\ MaxSealed \in Nat

VARIABLES
    ta,         \* "run" or "panicked"
    op,         \* op[o]: struct __TEE_OperationHandle
    obj,        \* obj[b]: struct __TEE_ObjectHandle of a transient object
    keys,       \* history: number of keys generated so far
    sealed,     \* history: the GCM messages whose tag has been handed out
    signed,     \* history: the signatures handed out, each with the pair that
                \* its handle had been given
    plain,      \* history: plaintext side of what a handle's stream carried
    given,      \* history: the arguments each handle was given
    ret         \* the last call, the handle it was made on and its result

vars == <<ta, op, obj, keys, sealed, signed, plain, given, ret>>

(***************************************************************************)
(*                                 State                                   *)
(***************************************************************************)
ZeroKey == 0                    \* the bytes of a handle after memset
Keys == 0..MaxKeys
NoNonce == Empty

\* aegcm_state
GCM_ST_INIT == 1
GCM_ST_AAD == 2
GCM_ST_ACTIVE == 3
GCM_ST_FINAL == 4

Ciphertext == [key : Keys, iv : Nonces \cup {NoNonce}, pos : 1..(MaxFeed + 1),
               pt : Chunks \cup {Garbage}]
FIN == Empty                    \* what mbedtls_gcm_finish mixes into the hash
Fed == Seq(Ciphertext \cup Chunks \cup {FIN, Garbage})
CbcBlock == [key : Keys, iv : Nonces \cup {NoNonce},
             chain : Seq(Chunks \cup {Garbage})] \cup {Garbage}
Tags == [key : Keys, iv : Nonces \cup {NoNonce}, aad : Aads \cup {Empty}, ct : Fed]
Signatures == [key : Keys, digest : Chunks]

\* The terms are free: a chunk is no ciphertext, garbage no tag or signature.
ASSUME TermAssumption ==
    /\ \A x \in Chunks \cup {Garbage, Empty} : x \notin Ciphertext
    /\ Garbage \notin Tags /\ Garbage \notin Signatures

\* Library contexts inside the handle: GCM, CBC (persistent IV included) and
\* SHA-3.  set is FALSE before the library has initialised the context.
GcmCtx == [set : BOOLEAN, key : Keys, iv : Nonces \cup {NoNonce},
           aad : Aads \cup {Empty}, fed : Fed]
NoGcm == [set |-> FALSE, key |-> ZeroKey, iv |-> NoNonce, aad |-> Empty, fed |-> << >>]
CbcCtx == [set : BOOLEAN, key : Keys, iv : Nonces \cup {NoNonce}, prev : CbcBlock]
NoCbc == [set |-> FALSE, key |-> ZeroKey, iv |-> NoNonce, prev |-> Garbage]

OpRec == [live : BOOLEAN, kind : AllKinds, keySet : BOOLEAN, aekey : Keys,
          sigkey : Keys, state : 0..4, aeiv : Nonces \cup {NoNonce},
          gcm : GcmCtx, cbc : CbcCtx, sha : Seq(Chunks \cup {FIN})]
NewOp(kind, keySet, state) ==
    [live |-> TRUE, kind |-> kind, keySet |-> keySet, aekey |-> ZeroKey,
     sigkey |-> ZeroKey, state |-> state, aeiv |-> NoNonce,
     gcm |-> NoGcm, cbc |-> NoCbc, sha |-> << >>]
FreedOp == [NewOp(<<"DIGEST", "SHA256">>, FALSE, 0) EXCEPT !.live = FALSE]

ObjRec == [live : BOOLEAN, type : {"AES", "ECDH_KEYPAIR", "ECDSA_KEYPAIR"},
           keySet : BOOLEAN, key : Keys]
FreedObj == [live |-> FALSE, type |-> "AES", keySet |-> FALSE, key |-> ZeroKey]

\* What the TA has given a handle, whatever the handle keeps of it: the AES key
\* and the key pair last set, the key and the nonce in force at the last
\* TEE_AEInit or TEE_CipherInit, the last AAD, and every AAD chunk since
\* TEE_AEInit or the last final.
GivenRec == [key : Keys, pair : Keys, mkey : Keys, iv : Nonces \cup {NoNonce},
             aad : Aads \cup {Empty}, aads : Seq(Aads)]
NothingGiven == [key |-> ZeroKey, pair |-> ZeroKey, mkey |-> ZeroKey, iv |-> NoNonce,
                 aad |-> Empty, aads |-> << >>]

Results == {"SUCCESS", "BAD_PARAMETERS", "REFUSED", "SHORT_BUFFER", "MAC_INVALID",
            "SIGNATURE_INVALID", "PANIC"}

Init ==
    /\ ta = "run"
    /\ op = [o \in Ops |-> FreedOp]
    /\ obj = [b \in Objs |-> FreedObj]
    /\ keys = 0
    /\ sealed = {} /\ signed = {}
    /\ plain = [o \in Ops |-> << >>]
    /\ given = [o \in Ops |-> NothingGiven]
    /\ ret = [call |-> "none", op |-> Empty, res |-> "SUCCESS", data |-> << >>]

(***************************************************************************)
(*                           Calls and results                             *)
(***************************************************************************)
Live(o) == ta = "run" /\ op[o].live
Mode(o) == op[o].kind[1]
Alg(o) == op[o].kind[2]

Returns(call, o, res, data) ==
    ret' = [call |-> call, op |-> o, res |-> res, data |-> data]

\* The instance is gone, and its heap with it.
TEE_Panic(call) ==
    /\ ta' = "panicked"
    /\ op' = [o \in Ops |-> FreedOp]
    /\ obj' = [b \in Objs |-> FreedObj]
    /\ plain' = [o \in Ops |-> << >>]
    /\ given' = [o \in Ops |-> NothingGiven]
    /\ Returns(call, Empty, "PANIC", << >>)
    /\ UNCHANGED <<keys, sealed, signed>>

\* The next command runs in a fresh enclave with an empty heap.
Restart ==
    /\ ta = "panicked"
    /\ ta' = "run"
    /\ Returns("none", Empty, "SUCCESS", << >>)
    /\ UNCHANGED <<op, obj, keys, sealed, signed, plain, given>>

\* A call refused for its arguments alone (NULL handles or buffers, wrong
\* lengths, unsupported modes or algorithms) or for lack of memory: "REFUSED" is
\* whichever error code says so.
Refused ==
    /\ ta = "run"
    /\ Returns("refused", Empty, "REFUSED", << >>)
    /\ UNCHANGED <<ta, op, obj, keys, sealed, signed, plain, given>>

\* A void call on such arguments panics.
RefusedPanic == ta = "run" /\ TEE_Panic("refused")

(***************************************************************************)
(*                        Key objects and handles                          *)
(***************************************************************************)
TEE_AllocateTransientObject(b, type) ==
    /\ ta = "run" /\ ~obj[b].live
    /\ obj' = [obj EXCEPT ![b] =
                  [live |-> TRUE, type |-> type, keySet |-> FALSE, key |-> ZeroKey]]
    /\ Returns("AllocateTransientObject", Empty, "SUCCESS", << >>)
    /\ UNCHANGED <<ta, op, keys, sealed, signed, plain, given>>

\* One random key (pair); for AES objects its public half is the AES key.
\* Without random bytes the instance panics; what wolfCrypt returns is ignored.
TEE_GenerateKey(b) ==
    /\ ta = "run" /\ obj[b].live
    /\ \/ /\ obj[b].keySet
          /\ Returns("GenerateKey", Empty, "BAD_PARAMETERS", << >>)
          /\ UNCHANGED <<ta, op, obj, keys, sealed, signed, plain, given>>
       \/ ~obj[b].keySet /\ TEE_Panic("GenerateKey")
       \/ /\ ~obj[b].keySet
          /\ \E made \in IF Lib = "wolf" THEN BOOLEAN ELSE {TRUE} :
                /\ made => keys < MaxKeys
                /\ keys' = IF made THEN keys + 1 ELSE keys
                /\ obj' = [obj EXCEPT ![b].keySet = TRUE,
                                      ![b].key = IF made THEN keys + 1 ELSE @]
          /\ Returns("GenerateKey", Empty, "SUCCESS", << >>)
          /\ UNCHANGED <<ta, op, sealed, signed, plain, given>>

TEE_FreeTransientObject(b) ==
    /\ ta = "run" /\ obj[b].live
    /\ obj' = [obj EXCEPT ![b] = FreedObj]
    /\ Returns("FreeTransientObject", Empty, "SUCCESS", << >>)
    /\ UNCHANGED <<ta, op, keys, sealed, signed, plain, given>>

\* A digest handle is not cleared: flags and aegcm_state hold any value.
TEE_AllocateOperation(o, kind) ==
    /\ ta = "run" /\ ~op[o].live
    /\ \E keySet \in BOOLEAN, state \in 0..4 :
          /\ kind[1] # "DIGEST" => ~keySet /\ state = 0
          /\ op' = [op EXCEPT ![o] = NewOp(kind, keySet, state)]
    /\ plain' = [plain EXCEPT ![o] = << >>]
    /\ given' = [given EXCEPT ![o] = NothingGiven]
    /\ Returns("AllocateOperation", o, "SUCCESS", << >>)
    /\ UNCHANGED <<ta, obj, keys, sealed, signed>>

TEE_FreeOperation(o) ==
    /\ Live(o)
    /\ op' = [op EXCEPT ![o] = FreedOp]
    /\ plain' = [plain EXCEPT ![o] = << >>]
    /\ given' = [given EXCEPT ![o] = NothingGiven]
    /\ Returns("FreeOperation", o, "SUCCESS", << >>)
    /\ UNCHANGED <<ta, obj, keys, sealed, signed>>

\* The key is copied; neither its presence in the object nor the algorithm of
\* the operation is looked at, and the key of the other type stays.  (The comment
\* has it exist only until "another key is set into the operation".)
AesKeyCopied(o, b) == IF obj[b].type = "AES" THEN obj[b].key ELSE op[o].aekey
PairCopied_KeepsFirst(o, b) ==
    IF obj[b].type = "AES" \/ op[o].keySet THEN op[o].sigkey ELSE obj[b].key
PairCopied(o, b) == IF obj[b].type = "AES" THEN op[o].sigkey ELSE obj[b].key

TEE_SetOperationKey(o, b) ==
    /\ Live(o) /\ obj[b].live
    /\ op' = [op EXCEPT ![o].keySet = TRUE,
                        ![o].aekey = AesKeyCopied(o, b),
                        ![o].sigkey = PairCopied(o, b)]
    /\ given' = [given EXCEPT ![o] =
                    IF obj[b].type = "AES" THEN [@ EXCEPT !.key = obj[b].key]
                    ELSE [@ EXCEPT !.pair = obj[b].key]]
    /\ Returns("SetOperationKey", o, "SUCCESS", << >>)
    /\ UNCHANGED <<ta, obj, keys, sealed, signed, plain>>

(***************************************************************************)
(*                       Authenticated encryption                          *)
(***************************************************************************)
TEE_AEInit(o, nonce) ==
    /\ Live(o) /\ Alg(o) = "GCM"
    /\ \/ /\ ~op[o].keySet \/ op[o].state # 0
          /\ Returns("AEInit", o, "BAD_PARAMETERS", << >>)
          /\ UNCHANGED <<ta, op, obj, keys, sealed, signed, plain, given>>
       \/ /\ op[o].keySet /\ op[o].state = 0
          /\ op' = [op EXCEPT ![o].gcm = [NoGcm EXCEPT !.set = TRUE, !.key = op[o].aekey],
                              ![o].aeiv = nonce,
                              ![o].state = GCM_ST_INIT]
          /\ given' = [given EXCEPT ![o] = [@ EXCEPT !.mkey = given[o].key, !.iv = nonce,
                                                     !.aad = Empty, !.aads = << >>]]
          /\ Returns("AEInit", o, "SUCCESS", << >>)
          /\ UNCHANGED <<ta, obj, keys, sealed, signed, plain>>
       \/ /\ op[o].keySet /\ op[o].state = 0    \* the library runs out of memory
          /\ TEE_Panic("AEInit")

\* mbedtls_gcm_starts, or the AAD remembered for wc_AesGcmEncrypt: either way
\* a new message under the operation's nonce.  What was fed before is forgotten,
\* earlier chunks of AAD too.
Started(g, nonce, aad) ==
    [set |-> g.set, key |-> g.key, iv |-> nonce, aad |-> aad, fed |-> << >>]

Items_Always(x, y) == <<y>>
Items(x, y) == IF x = Empty THEN << >> ELSE <<y>>

AadRefused_Never(state) == FALSE
AadRefused(state) == state < GCM_ST_INIT

\* Only the state is checked, not the algorithm: on a digest handle, whose state
\* is whatever malloc returned, mbedTLS meets a context it has not initialised,
\* and fails or not.
TEE_AEUpdateAAD(o, aad) ==
    /\ Live(o)
    /\ \/ /\ AadRefused(op[o].state) \/ (Lib = "mbed" /\ ~op[o].gcm.set)
          /\ TEE_Panic("AEUpdateAAD")
       \/ /\ ~AadRefused(op[o].state)
          /\ aad # Empty => Len(given[o].aads) < MaxAads
          /\ op' = [op EXCEPT ![o].gcm = Started(@, op[o].aeiv, aad),
                              ![o].state = GCM_ST_AAD]
          /\ IF Mode(o) = "DIGEST" THEN UNCHANGED <<plain, given>>
             ELSE /\ plain' = [plain EXCEPT ![o] = << >>]
                  /\ given' = [given EXCEPT ![o].aad = aad,
                                            ![o].aads = @ \o Items(aad, aad)]
          /\ Returns("AEUpdateAAD", o, "SUCCESS", << >>)
          /\ UNCHANGED <<ta, obj, keys, sealed, signed>>

\* What TEE_AEUpdate and the two finals find after the TEE_AEUpdateAAD(NULL, 0)
\* they make themselves when the TA has not.
Ready(o) == IF op[o].state = GCM_ST_INIT
            THEN Started(op[o].gcm, op[o].aeiv, Empty) ELSE op[o].gcm
ReadyPlain(o) == IF op[o].state = GCM_ST_INIT THEN << >> ELSE plain[o]
ReadyState(o) == IF op[o].state = GCM_ST_INIT THEN GCM_ST_AAD ELSE op[o].state

\* Counter mode: the next chunk's place in the message.  wc_AesGcmEncrypt
\* starts from the nonce on every call.
Carried(fed) == Cardinality({i \in 1..Len(fed) : fed[i] # FIN})
Place(g) == IF Lib = "mbed" THEN Carried(g.fed) + 1 ELSE 1

\* The output for input x, in either direction.
GcmCrypt(g, x) ==
    IF x \in Chunks THEN [key |-> g.key, iv |-> g.iv, pos |-> Place(g), pt |-> x]
    ELSE IF x \in [key : {g.key}, iv : {g.iv}, pos : {Place(g)}, pt : Chunks]
         THEN x.pt ELSE Garbage

CtSide(o, g, x) == IF Mode(o) = "ENCRYPT" THEN GcmCrypt(g, x) ELSE x
PtSide(o, g, x) == IF Mode(o) = "ENCRYPT" THEN x ELSE GcmCrypt(g, x)

\* mbedtls_gcm_update hashes the ciphertext; wolfCrypt keeps no running hash.
Absorb(o, g, x) ==
    IF Lib = "mbed" THEN [g EXCEPT !.fed = @ \o Items(x, CtSide(o, g, x))] ELSE g

GcmTag(g, ct) == [key |-> g.key, iv |-> g.iv, aad |-> g.aad, ct |-> ct]

\* mbedtls_gcm_finish folds the lengths into the hash, so that the context
\* cannot go on with the same message afterwards.
Finished(g) ==
    IF Lib = "mbed" /\ (g.fed # << >> \/ g.aad # Empty)
    THEN [g EXCEPT !.fed = Append(@, FIN)] ELSE g

\* The tag of the message when x is its last chunk.
EncryptTag(o, g, x) ==
    GcmTag(g, IF Lib = "mbed" THEN Absorb(o, g, x).fed ELSE Items(x, GcmCrypt(g, x)))
DecryptTag_LastChunk(o, g, x) == GcmTag(g, Items(x, CtSide(o, g, x)))
DecryptTag(o, g, x) ==
    GcmTag(g, IF Lib = "mbed" THEN Absorb(o, g, x).fed ELSE Items(x, x))

\* The bound on a message, and what a handle is fed: plaintext, or anything
\* the network may deliver.
Room(o) == Len(ReadyPlain(o)) < MaxFeed /\ Len(Ready(o).fed) < MaxFeed
Deliverable(o) ==
    IF Mode(o) = "ENCRYPT" THEN Chunks
    ELSE {Garbage} \cup [key : {op[o].gcm.key}, iv : Nonces, pos : 1..MaxFeed, pt : Chunks]

AENotStarted(o, call) ==
    /\ op[o].state < GCM_ST_INIT
    /\ Returns(call, o, "BAD_PARAMETERS", << >>)
    /\ UNCHANGED <<op, sealed, plain, given>>

\* A message as the TA knows it: what the handle was given, not what it keeps,
\* and the plaintext since the last AAD.
Message(o, pt) == [key |-> given[o].mkey, iv |-> given[o].iv, aad |-> given[o].aad,
                   aads |-> given[o].aads, pt |-> pt]

\* The AAD of the next message starts afresh.
FinalGiven(o) == given' = [given EXCEPT ![o].aads = << >>]

TEE_AEUpdate(o, x) ==
    /\ Live(o) /\ Alg(o) = "GCM"
    /\ \/ AENotStarted(o, "AEUpdate")
       \/ /\ op[o].state >= GCM_ST_INIT /\ Room(o)
          /\ LET g == Ready(o) IN
             /\ op' = [op EXCEPT ![o].gcm = Absorb(o, g, x), ![o].state = GCM_ST_ACTIVE]
             /\ plain' = [plain EXCEPT ![o] = Append(ReadyPlain(o), PtSide(o, g, x))]
          /\ Returns("AEUpdate", o, "SUCCESS", << >>)
          /\ UNCHANGED <<sealed, given>>
    /\ UNCHANGED <<ta, obj, keys, signed>>

TEE_AEEncryptFinal(o, x) ==
    /\ Live(o) /\ Alg(o) = "GCM"
    /\ \/ AENotStarted(o, "AEEncryptFinal")
       \/ /\ op[o].state >= GCM_ST_INIT /\ Room(o) /\ Cardinality(sealed) < MaxSealed
          /\ LET g == Ready(o)
                 pt == ReadyPlain(o) \o Items(x, PtSide(o, g, x))
             IN /\ op' = [op EXCEPT ![o].gcm = Finished(Absorb(o, g, x)),
                                    ![o].state = GCM_ST_FINAL]
                /\ plain' = [plain EXCEPT ![o] = pt]
                /\ sealed' = sealed \cup
                      {[msg |-> Message(o, pt), tag |-> EncryptTag(o, g, x)]}
          /\ FinalGiven(o)
          /\ Returns("AEEncryptFinal", o, "SUCCESS", << >>)
    /\ UNCHANGED <<ta, obj, keys, signed>>

\* A wrong tag leaves aegcm_state alone.  mbedTLS has by then decrypted the last
\* chunk and finished the hash; wolfCrypt checks first.
TEE_AEDecryptFinal(o, x, tag) ==
    /\ Live(o) /\ Alg(o) = "GCM"
    /\ \/ AENotStarted(o, "AEDecryptFinal")
       \/ /\ op[o].state >= GCM_ST_INIT /\ Room(o)
          /\ LET g == Ready(o)
                 ok == tag = DecryptTag(o, g, x)
                 pt == ReadyPlain(o) \o (IF ok \/ Lib = "mbed"
                                         THEN Items(x, PtSide(o, g, x)) ELSE << >>)
             IN /\ op' = [op EXCEPT ![o].gcm = Finished(Absorb(o, g, x)),
                                    ![o].state = IF ok THEN GCM_ST_FINAL ELSE ReadyState(o)]
                /\ plain' = [plain EXCEPT ![o] = pt]
                /\ IF ok THEN Returns("AEDecryptFinal", o, "SUCCESS", Message(o, pt))
                   ELSE Returns("AEDecryptFinal", o, "MAC_INVALID", << >>)
          /\ FinalGiven(o)
          /\ UNCHANGED sealed
    /\ UNCHANGED <<ta, obj, keys, signed>>

(***************************************************************************)
(*                           Symmetric cipher                              *)
(***************************************************************************)
CbcStart(k, nonce) ==
    [set |-> TRUE, key |-> k, iv |-> nonce,
     prev |-> [key |-> k, iv |-> nonce, chain |-> << >>]]

TEE_CipherInit(o, nonce) ==
    /\ Live(o)
    /\ \/ /\ Alg(o) # "CBC" \/ ~op[o].keySet
          /\ TEE_Panic("CipherInit")
       \/ /\ Alg(o) = "CBC" /\ op[o].keySet
          /\ op' = [op EXCEPT ![o].cbc = CbcStart(op[o].aekey, nonce)]
          /\ plain' = [plain EXCEPT ![o] = << >>]
          /\ given' = [given EXCEPT ![o].mkey = given[o].key, ![o].iv = nonce]
          /\ Returns("CipherInit", o, "SUCCESS", << >>)
          /\ UNCHANGED <<ta, obj, keys, sealed, signed>>

CbcEncrypt(c, x) == [key |-> c.key, iv |-> c.iv, chain |-> Append(c.prev.chain, x)]
CbcDecrypt(c, b) ==
    IF b # Garbage /\ b.key = c.key
       /\ c.prev = [key |-> b.key, iv |-> b.iv, chain |-> Front(b.chain)]
    THEN Last(b.chain) ELSE Garbage

\* The persistent IV after chunk x: the ciphertext side of it.
CbcNext_Encrypt(o, c, x) == IF x = Empty THEN c.prev ELSE CbcEncrypt(c, x)
CbcNext(o, c, x) ==
    IF x = Empty THEN c.prev ELSE IF Mode(o) = "ENCRYPT" THEN CbcEncrypt(c, x) ELSE x
CbcPlain(o, c, x) == IF Mode(o) = "ENCRYPT" THEN x ELSE CbcDecrypt(c, x)

CbcInput(o) ==
    IF Mode(o) = "ENCRYPT" THEN Chunks
    ELSE {Garbage} \cup [key : 1..keys, iv : Nonces,
                         chain : UNION {[1..n -> Chunks] : n \in 1..MaxFeed}]

\* What the library takes of chunk x and a tail shorter than a block.  A length
\* with a tail is refused before anything is written or chained; wolfCrypt may
\* instead, by its version and build, process the whole blocks.
CbcTaken(x, tail) ==
    IF ~tail THEN {x} ELSE IF Lib = "wolf" THEN {x, Empty} ELSE {Empty}

\* The library's answer is dropped: whatever it has taken, the call succeeds and
\* *destLen is the length of the input, also where nothing has been written.  (The
\* comment says that the input "does not have to be a multiple of block size".)
\* Before TEE_CipherInit the key schedule is the zeroed handle: the call faults, or
\* leaves whatever the output buffer held.
TEE_CipherUpdate(o, x, tail) ==
    /\ Live(o) /\ Alg(o) = "CBC" /\ Len(plain[o]) < MaxFeed
    /\ LET c == op[o].cbc IN
       \/ /\ c.set
          /\ \E t \in CbcTaken(x, tail) :
                /\ op' = [op EXCEPT ![o].cbc.prev = CbcNext(o, c, t)]
                /\ plain' = [plain EXCEPT ![o] = @ \o Items(t, CbcPlain(o, c, t))]
          /\ Returns("CipherUpdate", o, "SUCCESS", << >>)
          /\ UNCHANGED <<ta, obj, keys, sealed, signed, given>>
       \/ /\ ~c.set
          /\ plain' = [plain EXCEPT ![o] = Append(@, Garbage)]
          /\ Returns("CipherUpdate", o, "SUCCESS", << >>)
          /\ UNCHANGED <<ta, op, obj, keys, sealed, signed, given>>
       \/ ~c.set /\ TEE_Panic("CipherUpdate")

TEE_CipherDoFinal(o, x, tail) == TEE_CipherUpdate(o, x, tail)

(***************************************************************************)
(*                               Digest                                    *)
(***************************************************************************)
TEE_DigestUpdate(o, x) ==
    /\ Live(o)
    /\ \/ /\ Mode(o) # "DIGEST"
          /\ TEE_Panic("DigestUpdate")
       \/ /\ Mode(o) = "DIGEST" /\ Len(op[o].sha) < MaxFeed
          /\ op' = [op EXCEPT ![o].sha = Append(@, x)]
          /\ plain' = [plain EXCEPT ![o] = Append(@, x)]
          /\ Returns("DigestUpdate", o, "SUCCESS", << >>)
          /\ UNCHANGED <<ta, obj, keys, sealed, signed, given>>

\* wc_Sha3_256_Final starts over; sha3_final of the tiny SHA-3 library pads and
\* permutes in place, and only sha3_init clears a context.  (The comment says of
\* either build that the operation "is reset to initial state and can be reused".)
AfterFinal(absorbed) == IF Lib = "wolf" THEN << >> ELSE Append(absorbed, FIN)

DigestShortBuffer_Absorbs(o, x) ==
    /\ Live(o) /\ Mode(o) = "DIGEST" /\ Len(op[o].sha) < MaxFeed
    /\ op' = [op EXCEPT ![o].sha = Append(@, x)]
    /\ Returns("DigestDoFinal", o, "SHORT_BUFFER", << >>)
    /\ UNCHANGED <<ta, obj, keys, sealed, signed, plain, given>>

\* The hash buffer is too small: nothing is absorbed.
DigestShortBuffer(o, x) ==
    /\ Live(o) /\ Mode(o) = "DIGEST"
    /\ Returns("DigestDoFinal", o, "SHORT_BUFFER", << >>)
    /\ UNCHANGED <<ta, op, obj, keys, sealed, signed, plain, given>>

\* Returns the hash, beside the message the TA has fed since the last final.
TEE_DigestDoFinal(o, x) ==
    /\ Live(o) /\ Mode(o) = "DIGEST"
    /\ LET h == op[o].sha \o Items(x, x) IN
       /\ Len(h) <= MaxFeed
       /\ op' = [op EXCEPT ![o].sha = AfterFinal(h)]
       /\ Returns("DigestDoFinal", o, "SUCCESS", <<h, plain[o] \o Items(x, x)>>)
    /\ plain' = [plain EXCEPT ![o] = << >>]
    /\ UNCHANGED <<ta, obj, keys, sealed, signed, given>>

(***************************************************************************)
(*                              Signatures                                 *)
(***************************************************************************)
\* wolfCrypt signs nothing with a key that was never made; that is not reported.
TEE_AsymmetricSignDigest(o, d) ==
    /\ Live(o) /\ Mode(o) = "SIGN"
    /\ \/ /\ ~op[o].keySet
          /\ Returns("SignDigest", o, "BAD_PARAMETERS", << >>)
          /\ UNCHANGED signed
       \/ /\ op[o].keySet
          /\ signed' = IF Lib = "wolf" /\ op[o].sigkey = ZeroKey THEN signed
                       ELSE signed \cup {[pair |-> given[o].pair,
                                          sig |-> [key |-> op[o].sigkey, digest |-> d]]}
          /\ Returns("SignDigest", o, "SUCCESS", << >>)
    /\ UNCHANGED <<ta, op, obj, keys, sealed, plain, given>>

Verifies(k, d, sig) == sig = [key |-> k, digest |-> d]

VerifyResult(k, d, sig) ==
    IF Verifies(k, d, sig) THEN "SUCCESS" ELSE "SIGNATURE_INVALID"

TEE_AsymmetricVerifyDigest(o, d, sig) ==
    /\ Live(o) /\ Mode(o) = "VERIFY"
    /\ \/ /\ ~op[o].keySet
          /\ Returns("VerifyDigest", o, "BAD_PARAMETERS", << >>)
       \/ /\ op[o].keySet
          /\ Returns("VerifyDigest", o, VerifyResult(op[o].sigkey, d, sig),
                     <<given[o].pair, d>>)
    /\ UNCHANGED <<ta, op, obj, keys, sealed, signed, plain, given>>

Next ==
    \/ Restart \/ Refused \/ RefusedPanic
    \/ \E b \in Objs :
          \/ \E type \in Types : TEE_AllocateTransientObject(b, type)
          \/ TEE_GenerateKey(b) \/ TEE_FreeTransientObject(b)
    \/ \E o \in Ops :
          \/ \E kind \in Kinds : TEE_AllocateOperation(o, kind)
          \/ TEE_FreeOperation(o)
          \/ \E b \in Objs : TEE_SetOperationKey(o, b)
          \/ \E n \in Nonces : TEE_AEInit(o, n) \/ TEE_CipherInit(o, n)
          \/ \E aad \in Aads \cup {Empty} : TEE_AEUpdateAAD(o, aad)
          \/ \E x \in Deliverable(o) : TEE_AEUpdate(o, x)
          \/ \E x \in Deliverable(o) \cup {Empty} :
                \/ TEE_AEEncryptFinal(o, x)
                \/ \E tag \in {m.tag : m \in sealed} \cup {Garbage} :
                      TEE_AEDecryptFinal(o, x, tag)
          \/ \E x \in CbcInput(o) \cup {Empty}, tail \in BOOLEAN :
                TEE_CipherUpdate(o, x, tail) \/ TEE_CipherDoFinal(o, x, tail)
          \/ \E x \in Chunks : TEE_DigestUpdate(o, x)
          \/ \E x \in Chunks \cup {Empty} : DigestShortBuffer(o, x) \/ TEE_DigestDoFinal(o, x)
          \/ \E d \in Chunks :
                \/ TEE_AsymmetricSignDigest(o, d)
                \/ \E sig \in {s.sig : s \in signed} \cup {Garbage} : TEE_AsymmetricVerifyDigest(o, d, sig)

Spec == Init /\ [][Next]_vars

(***************************************************************************)
(*                               Properties                                *)
(***************************************************************************)

\* The types of the handles and histories.
TypeOK ==
    /\ ta \in {"run", "panicked"}
    /\ op \in [Ops -> OpRec]
    /\ obj \in [Objs -> ObjRec]
    /\ keys \in Keys
    /\ plain \in [Ops -> Seq(Chunks \cup {Garbage})]
    /\ given \in [Ops -> GivenRec]
    /\ ret.res \in Results

\* aegcm_state tells the truth about the library's context: from GCM_ST_INIT on
\* the operation has a key and the context an expanded one, and from GCM_ST_AAD
\* on the context was started with the operation's nonce, so that
\* mbedtls_gcm_update never runs on a context that gcm_starts has not prepared.
AeStateSound ==
    \A o \in Ops : (op[o].live /\ Alg(o) = "GCM") =>
        /\ op[o].state >= GCM_ST_INIT => op[o].keySet /\ op[o].gcm.set
        /\ op[o].state >= GCM_ST_AAD => op[o].gcm.iv = op[o].aeiv /\ op[o].aeiv \in Nonces

\* When TEE_AEDecryptFinal accepts a tag, everything the handle has delivered
\* since the last TEE_AEUpdateAAD, through TEE_AEUpdate too, is exactly the
\* plaintext of one sealed message: one that was made with the key and the nonce
\* that this TA gave to TEE_AEInit, whatever keys it has set since, and with the
\* AAD of its last TEE_AEUpdateAAD.  Of AAD and data before that call it says
\* nothing: the code forgets them.
Authentic ==
    (ret.call = "AEDecryptFinal" /\ ret.res = "SUCCESS") =>
        \E m \in sealed : /\ m.msg.key = ret.data.key /\ m.msg.iv = ret.data.iv
                          /\ m.msg.aad = ret.data.aad /\ m.msg.pt = ret.data.pt

\* What the comment of TEE_AEUpdateAAD claims: it "feeds a new chunk of AAD" and
\* may be called again, so that an accepted message agrees with a sealed one in
\* every chunk of AAD since TEE_AEInit, and not in the last alone.
AllAadAuthentic ==
    (ret.call = "AEDecryptFinal" /\ ret.res = "SUCCESS") =>
        \E m \in sealed : m.msg = ret.data

\* As long as every chunk decrypts, the persistent IV is the ciphertext of
\* precisely the chunks that the library has taken, under the key and the nonce
\* that the TA gave to TEE_CipherInit: no later key, no earlier stream and no
\* input of a length that is refused or cut off moves the chain, so that the
\* next whole block still decrypts.
CbcStreamFaithful ==
    \A o \in Ops : (op[o].live /\ op[o].cbc.set /\ Garbage \notin Range(plain[o])) =>
        op[o].cbc.prev = [key |-> given[o].mkey, iv |-> given[o].iv, chain |-> plain[o]]

\* The hash is that of the chunks fed since the handle was allocated or last
\* finalised, whatever short-buffer failures came between.
DigestExact ==
    (ret.call = "DigestDoFinal" /\ ret.res = "SUCCESS") => ret.data[1] = ret.data[2]

\* A digest verifies only if a handle signed it that had been given the very key
\* pair that the TA last gave to the verifying handle, whatever was in either
\* before and whether or not the key object still exists; with wolfCrypt, whose
\* failures TEE_GenerateKey hides, that pair was really made.
VerifiedWasSigned ==
    (ret.call = "VerifyDigest" /\ ret.res = "SUCCESS") =>
        \E s \in signed : /\ s.pair = ret.data[1] /\ s.sig.digest = ret.data[2]
                          /\ Lib = "wolf" => s.pair # ZeroKey

=============================================================================
