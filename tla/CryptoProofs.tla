---------------------------- MODULE CryptoProofs ----------------------------
(***************************************************************************)
(* Proofs about CryptoOperation, for every number of handles, key objects, *)
(* keys, nonces and chunks and every length of the streams.                *)
(***************************************************************************)
EXTENDS CryptoOperation, SequenceTheorems, FiniteSetTheorems, TLAPS

USE CryptoAssumption, TermAssumption

(***************************************************************************)
(* What a sequence of hashed ciphertexts decrypts to.  Entry i of fed that *)
(* is no FIN stands for chunk Rank(fed, i) of pt, and Opens says that pt   *)
(* is exactly that: a relation, but one that determines pt from fed.       *)
(***************************************************************************)
Plain == Seq(Chunks \cup {Garbage})

Opened(k, iv, j, c) ==
    IF c \in [key : {k}, iv : {iv}, pos : {j}, pt : Chunks] THEN c.pt ELSE Garbage
Rank(fed, i) == Cardinality({j \in 1..i : fed[j] # FIN})
Opens(k, iv, fed, pt) ==
    /\ Len(pt) = Carried(fed)
    /\ \A i \in 1..Len(fed) :
          fed[i] # FIN => pt[Rank(fed, i)] = Opened(k, iv, Rank(fed, i), fed[i])
    /\ \A j \in 1..Len(pt) : \E i \in 1..Len(fed) : fed[i] # FIN /\ Rank(fed, i) = j

\* Ranks count positions.
LEMMA RankType ==
  ASSUME NEW fed, NEW i \in Nat
  PROVE  /\ Rank(fed, i) \in 0..i
         /\ IsFiniteSet({j \in 1..i : fed[j] # FIN})
         /\ (i > 0 /\ fed[i] # FIN) => Rank(fed, i) > 0
  <1> DEFINE R == {j \in 1..i : fed[j] # FIN}
  <1>1. IsFiniteSet(1..i) /\ Cardinality(1..i) = i
    <2>1. 1 \in Int /\ i \in Int /\ (1 > i => i = 0) /\ i - 1 + 1 = i
      OBVIOUS
    <2> QED BY <2>1, FS_Interval
  <1>2. R \in SUBSET (1..i)
    OBVIOUS
  <1> HIDE DEF R
  <1>3. IsFiniteSet(R) /\ Cardinality(R) <= i /\ Cardinality(R) \in Nat
    <2>1. IsFiniteSet(R) /\ Cardinality(R) <= Cardinality(1..i)
      BY <1>1, <1>2, FS_Subset, Zenon
    <2>2. Cardinality(R) \in Nat
      BY <2>1, FS_CardinalityType
    <2> QED BY <1>1, <2>1, <2>2
  <1>4. (i > 0 /\ fed[i] # FIN) => R # {}
    BY DEF R
  <1>5. R # {} => Cardinality(R) # 0
    BY <1>3, FS_EmptySet
  <1> QED BY <1>3, <1>4, <1>5 DEF Rank, R

\* One more entry leaves the ranks of the others alone, and has the next rank
\* unless it is a FIN.
LEMMA RankAppend ==
  ASSUME NEW S, NEW fed \in Seq(S), NEW c
  PROVE  /\ Carried(fed) \in 0..Len(fed)
         /\ \A i \in 1..Len(fed) : Rank(Append(fed, c), i) = Rank(fed, i)
         /\ c # FIN => /\ Carried(Append(fed, c)) = Carried(fed) + 1
                       /\ Rank(Append(fed, c), Len(fed) + 1) = Carried(fed) + 1
         /\ c = FIN => Carried(Append(fed, c)) = Carried(fed)
  <1> DEFINE n == Len(fed)
             f == Append(fed, c)
             A == {j \in 1..n : fed[j] # FIN}
             B == {j \in 1..(n + 1) : f[j] # FIN}
  <1>1. n \in Nat /\ Len(f) = n + 1 /\ f[n + 1] = c /\ \A i \in 1..n : f[i] = fed[i]
    OBVIOUS
  <1>2. Carried(fed) = Rank(fed, n) /\ Carried(f) = Rank(f, n + 1)
    BY <1>1 DEF Carried, Rank
  <1> HIDE DEF f
  <1>3. ASSUME NEW i \in 1..n PROVE Rank(f, i) = Rank(fed, i)
    <2>1. {j \in 1..i : f[j] # FIN} = {j \in 1..i : fed[j] # FIN}
      BY <1>1
    <2> QED BY <2>1 DEF Rank
  <1>4. B = IF c # FIN THEN A \cup {n + 1} ELSE A
    BY <1>1
  <1>5. n + 1 \notin A /\ IsFiniteSet(A)
    <2>1. n + 1 \notin A
      BY <1>1
    <2>2. IsFiniteSet(A)
      BY <1>1, RankType, Zenon DEF A
    <2> QED BY <2>1, <2>2
  <1>6. Rank(fed, n) = Cardinality(A) /\ Rank(f, n + 1) = Cardinality(B)
    BY DEF Rank
  <1> HIDE DEF A, B
  <1>7. c # FIN => Cardinality(B) = Cardinality(A) + 1
    BY <1>4, <1>5, FS_AddElement
  <1>8. Rank(fed, n) \in 0..n
    BY <1>1, RankType
  <1> QED BY <1>2, <1>3, <1>4, <1>6, <1>7, <1>8 DEF f

\* The empty message.
LEMMA OpensEmpty == ASSUME NEW k, NEW iv PROVE Opens(k, iv, << >>, << >>)
  <1>1. {i \in 1..0 : << >>[i] # FIN} = {}
    OBVIOUS
  <1>2. Carried(<< >>) = 0
    BY <1>1, FS_EmptySet DEF Carried
  <1> QED BY <1>2 DEF Opens

\* One more ciphertext opens to one more chunk.
LEMMA OpensChunk ==
  ASSUME NEW k, NEW iv, NEW S, NEW fed \in Seq(S), NEW pt \in Plain,
         Opens(k, iv, fed, pt), NEW c, c # FIN,
         NEW x, x = Opened(k, iv, Carried(fed) + 1, c)
  PROVE  Opens(k, iv, Append(fed, c), Append(pt, x))
  <1> DEFINE f == Append(fed, c)
             p == Append(pt, x)
             n == Len(fed)
  <1>1. /\ n \in Nat /\ Len(f) = n + 1 /\ f[n + 1] = c
        /\ \A i \in 1..n : f[i] = fed[i]
    OBVIOUS
  <1>2. /\ Len(p) = Len(pt) + 1 /\ p[Len(pt) + 1] = x /\ Len(pt) \in Nat
        /\ \A i \in 1..Len(pt) : p[i] = pt[i]
    BY DEF Plain
  <1>3. /\ Carried(fed) \in 0..n
        /\ \A i \in 1..n : Rank(f, i) = Rank(fed, i)
        /\ Carried(f) = Carried(fed) + 1
        /\ Rank(f, n + 1) = Carried(fed) + 1
    BY RankAppend
  <1>4. Len(pt) = Carried(fed)
    BY DEF Opens
  <1> HIDE DEF f, p
  <1>5. Len(p) = Carried(f)
    BY <1>2, <1>3, <1>4
  <1>6. ASSUME NEW i \in 1..Len(f), f[i] # FIN
        PROVE  p[Rank(f, i)] = Opened(k, iv, Rank(f, i), f[i])
    <2>1. CASE i = n + 1
      BY <1>1, <1>2, <1>3, <1>4, <2>1
    <2>2. CASE i \in 1..n
      <3>1. f[i] = fed[i] /\ Rank(f, i) = Rank(fed, i)
        BY <1>1, <1>3, <2>2
      <3>2. pt[Rank(fed, i)] = Opened(k, iv, Rank(fed, i), fed[i])
        BY <1>6, <2>2, <3>1 DEF Opens
      <3>3. Rank(fed, i) \in 1..Len(pt)
        <4>1. {j \in 1..i : fed[j] # FIN} \in SUBSET {j \in 1..n : fed[j] # FIN}
          BY <1>1, <2>2
        <4>2. IsFiniteSet({j \in 1..n : fed[j] # FIN})
          BY <1>1, RankType
        <4>3. Cardinality({j \in 1..i : fed[j] # FIN})
                 <= Cardinality({j \in 1..n : fed[j] # FIN})
          BY <4>1, <4>2, FS_Subset
        <4>4. Rank(fed, i) <= Carried(fed)
          BY <4>3 DEF Rank, Carried
        <4>5. i \in Nat /\ i > 0 /\ fed[i] # FIN
          BY <1>1, <1>6, <2>2, <3>1
        <4>6. Rank(fed, i) > 0 /\ Rank(fed, i) \in Nat
          <5>1. Rank(fed, i) \in 0..i /\ Rank(fed, i) > 0
            BY <4>5, RankType, Zenon
          <5> QED BY <5>1
        <4> DEFINE r == Rank(fed, i)
        <4> HIDE DEF r
        <4>7. r \in Nat /\ r > 0 /\ r <= Len(pt)
          BY <1>4, <4>4, <4>6 DEF r
        <4>8. r \in 1..Len(pt)
          BY <1>2, <4>7
        <4> QED BY <4>8 DEF r
      <3> QED BY <1>2, <3>1, <3>2, <3>3
    <2> QED BY <1>1, <2>1, <2>2
  <1>7. ASSUME NEW j \in 1..Len(p)
        PROVE  \E i \in 1..Len(f) : f[i] # FIN /\ Rank(f, i) = j
    <2>1. CASE j = Len(pt) + 1
      <3>1. n + 1 \in 1..Len(f) /\ f[n + 1] # FIN /\ Rank(f, n + 1) = j
        BY <1>1, <1>3, <1>4, <2>1
      <3> QED BY <3>1
    <2>2. CASE j \in 1..Len(pt)
      <3>1. PICK i \in 1..n : fed[i] # FIN /\ Rank(fed, i) = j
        BY <2>2 DEF Opens
      <3> QED BY <1>1, <1>3, <3>1
    <2> QED BY <1>2, <2>1, <2>2
  <1>8. Opens(k, iv, f, p)
    BY <1>5, <1>6, <1>7 DEF Opens
  <1> QED BY <1>8 DEF f, p

\* mbedtls_gcm_finish adds a FIN, which stands for no chunk.
LEMMA OpensFin ==
  ASSUME NEW k, NEW iv, NEW S, NEW fed \in Seq(S), NEW pt \in Plain,
         Opens(k, iv, fed, pt)
  PROVE  Opens(k, iv, Append(fed, FIN), pt)
  <1> DEFINE f == Append(fed, FIN)
             n == Len(fed)
  <1>1. /\ n \in Nat /\ Len(f) = n + 1 /\ f[n + 1] = FIN
        /\ \A i \in 1..n : f[i] = fed[i]
    OBVIOUS
  <1>2. Carried(f) = Carried(fed) /\ \A i \in 1..n : Rank(f, i) = Rank(fed, i)
    BY RankAppend
  <1> HIDE DEF f
  <1>3. Opens(k, iv, f, pt)
    <2>1. \A i \in 1..Len(f) : f[i] # FIN => i \in 1..n
      BY <1>1
    <2>2. 1..n \subseteq 1..Len(f)
      BY <1>1
    <2> QED BY <1>1, <1>2, <2>1, <2>2 DEF Opens
  <1> QED BY <1>3 DEF f

\* What the ciphertexts open to is determined by them: two messages with one
\* tag carry one plaintext.
LEMMA OpensUnique ==
  ASSUME NEW k, NEW iv, NEW fed, NEW p \in Plain, NEW q \in Plain,
         Opens(k, iv, fed, p), Opens(k, iv, fed, q)
  PROVE  p = q
  <1>1. Len(p) = Len(q)
    BY DEF Opens
  <1>2. ASSUME NEW j \in 1..Len(p) PROVE p[j] = q[j]
    <2>1. PICK i \in 1..Len(fed) : fed[i] # FIN /\ Rank(fed, i) = j
      BY DEF Opens
    <2> QED BY <2>1 DEF Opens
  <1> QED BY <1>1, <1>2, SeqEqual DEF Plain

(***************************************************************************)
(* The inductive invariant, one handle r with its plaintext history p at a *)
(* time: its type, that only CBC operations have a CBC context, what       *)
(* aegcm_state promises, and what the library contexts have to do with the *)
(* plaintext that went through the handle.                                 *)
(***************************************************************************)
CbcChain == [key : Keys, iv : Nonces \cup {NoNonce}, chain : Plain]

HandleType(r, p) == r \in OpRec /\ p \in Plain

\* Only TEE_CipherInit sets a CBC context, on a CBC operation, and there nothing
\* moves aegcm_state.
CbcOnly(r) ==
    /\ r.cbc.set => r.live /\ r.kind[2] = "CBC"
    /\ (r.live /\ r.kind[2] = "CBC") => r.state = 0
    /\ (r.cbc.set /\ r.kind[1] = "ENCRYPT") => r.cbc.prev \in CbcChain

CbcFaithful(r, p) ==
    (r.live /\ r.cbc.set /\ Garbage \notin Range(p)) =>
        r.cbc.prev = [key |-> r.cbc.key, iv |-> r.cbc.iv, chain |-> p]

AeState(r) ==
    (r.live /\ r.kind[2] = "GCM") =>
        /\ r.state >= GCM_ST_INIT => r.keySet /\ r.gcm.set /\ r.aeiv \in Nonces
        /\ r.state >= GCM_ST_AAD => r.gcm.iv = r.aeiv

DigestFed(r, p) ==
    (Lib = "wolf" /\ r.live /\ r.kind[1] = "DIGEST") => r.sha = p

GcmOpens(r, p) ==
    (Lib = "mbed" /\ r.live /\ r.kind[2] = "GCM" /\ r.state >= GCM_ST_AAD) =>
        Opens(r.gcm.key, r.gcm.iv, r.gcm.fed, p)

HandleInv(r, p) ==
    /\ HandleType(r, p) /\ CbcOnly(r) /\ CbcFaithful(r, p) /\ AeState(r)
    /\ DigestFed(r, p) /\ GcmOpens(r, p)

HandlesInv ==
    /\ op \in [Ops -> OpRec] /\ plain \in [Ops -> Plain]
    /\ \A o \in Ops : HandleInv(op[o], plain[o])
Rest ==
    /\ ta \in {"run", "panicked"}
    /\ obj \in [Objs -> ObjRec]
    /\ keys \in Keys
    /\ ret.res \in Results

\* Every sealed message opens to its plaintext.
SealedOpens ==
    Lib = "mbed" =>
    \A m \in sealed :
        /\ m.tag = [key |-> m.msg.key, iv |-> m.msg.iv, aad |-> m.msg.aad, ct |-> m.tag.ct]
        /\ m.msg.pt \in Plain
        /\ Opens(m.msg.key, m.msg.iv, m.tag.ct, m.msg.pt)

Inv == HandlesInv /\ Rest /\ SealedOpens

(***************************************************************************)
(* What a handle keeps is what it was given: its keys are the last ones    *)
(* set, and a context in use still has the key and the nonce of its own    *)
(* initialisation and the last AAD, whatever has been set since.           *)
(***************************************************************************)
GcmGiven(r, h) ==
    (r.live /\ r.kind[2] = "GCM") =>
        /\ r.state >= GCM_ST_INIT => r.gcm.key = h.mkey /\ r.aeiv = h.iv
        /\ r.state = GCM_ST_INIT => h.aad = Empty
        /\ r.state >= GCM_ST_AAD => r.gcm.aad = h.aad

CbcGiven(r, h) == r.cbc.set => r.cbc.key = h.mkey /\ r.cbc.iv = h.iv

GivenFits(r, h) ==
    /\ h \in GivenRec
    /\ r.aekey = h.key /\ r.sigkey = h.pair
    /\ GcmGiven(r, h) /\ CbcGiven(r, h)

GivenInv ==
    /\ given \in [Ops -> GivenRec]
    /\ \A o \in Ops : GivenFits(op[o], given[o])

\* Every signature is one under the pair its handle had been given, and with
\* wolfCrypt that pair exists.
SignedFits ==
    \A s \in signed : /\ s.sig = [key |-> s.pair, digest |-> s.sig.digest]
                      /\ Lib = "wolf" => s.pair # ZeroKey

FullInv == Inv /\ GivenInv /\ SignedFits

\* One handle changes.
LEMMA HandleStep ==
  ASSUME HandlesInv, NEW o \in Ops, NEW r, NEW p, HandleInv(r, p),
         op' = [op EXCEPT ![o] = r], plain' = [plain EXCEPT ![o] = p]
  PROVE  HandlesInv'
  <1>1. r \in OpRec /\ p \in Plain
    BY DEF HandleInv, HandleType
  <1>2. op' \in [Ops -> OpRec] /\ plain' \in [Ops -> Plain]
    BY <1>1 DEF HandlesInv
  <1>3. ASSUME NEW q \in Ops PROVE HandleInv(op'[q], plain'[q])
    <2>1. CASE q = o
      BY <2>1 DEF HandlesInv
    <2>2. CASE q # o
      <3>1. op'[q] = op[q] /\ plain'[q] = plain[q]
        BY <2>2 DEF HandlesInv
      <3> QED BY <3>1 DEF HandlesInv
    <2> QED BY <2>1, <2>2
  <1> QED BY <1>2, <1>3 DEF HandlesInv

\* The contexts of a fresh handle.
LEMMA FreshTypes ==
  /\ NoGcm \in GcmCtx /\ NoCbc \in CbcCtx
  /\ ~NoCbc.set
  /\ << >> \in Plain /\ << >> \in Fed
  /\ 0 \in Keys
  BY DEF NoGcm, GcmCtx, NoCbc, CbcCtx, CbcBlock, Plain, Fed, Keys, ZeroKey

\* TEE_AllocateOperation: a digest handle holds any flags and state, the others
\* none.
LEMMA NewHandle ==
  ASSUME NEW kind \in AllKinds, NEW keySet \in BOOLEAN, NEW state \in 0..4,
         kind[1] # "DIGEST" => ~keySet /\ state = 0
  PROVE  HandleInv(NewOp(kind, keySet, state), << >>)
  <1> DEFINE r == NewOp(kind, keySet, state)
  <1>1. /\ r.live /\ r.kind = kind /\ r.state = state /\ r.cbc = NoCbc
        /\ r.sha = << >>
    BY DEF NewOp
  <1>2. r \in OpRec
    BY FreshTypes DEF NewOp, OpRec, ZeroKey, NoNonce
  <1>3. kind[2] \in {"CBC", "GCM"} => kind[1] # "DIGEST"
    BY DEF AllKinds
  <1> HIDE DEF r
  <1>4. r.kind[2] \in {"CBC", "GCM"} => r.state = 0
    BY <1>1, <1>3
  <1>5. HandleInv(r, << >>)
    BY <1>1, <1>2, <1>4, FreshTypes
       DEF HandleInv, HandleType, CbcOnly, CbcFaithful, AeState, DigestFed, GcmOpens,
           GCM_ST_INIT, GCM_ST_AAD
  <1> QED BY <1>5 DEF r

\* TEE_FreeOperation, and the heap of a new instance.
LEMMA FreedHandle == HandleInv(FreedOp, << >>)
  <1> DEFINE k == <<"DIGEST", "SHA256">>
             n == NewOp(k, FALSE, 0)
  <1>1. k \in AllKinds
    BY DEF AllKinds
  <1>2. HandleInv(n, << >>) /\ n.cbc = NoCbc
    <2>1. 0 \in 0..4 /\ FALSE \in BOOLEAN /\ (k[1] # "DIGEST" => ~FALSE /\ 0 = 0)
      OBVIOUS
    <2>2. n.cbc = NoCbc
      BY DEF NewOp
    <2> HIDE DEF k
    <2>3. HandleInv(n, << >>)
      BY <1>1, <2>1, NewHandle, Zenon
    <2> QED BY <2>2, <2>3
  <1>3. n \in OpRec /\ FreedOp = [n EXCEPT !.live = FALSE]
    BY <1>2 DEF HandleInv, HandleType, FreedOp
  <1> HIDE DEF n
  <1>4. FreedOp \in OpRec /\ ~FreedOp.live /\ FreedOp.cbc = NoCbc
    BY <1>2, <1>3 DEF OpRec
  <1> QED BY <1>4, FreshTypes DEF HandleInv, HandleType, CbcOnly, CbcFaithful, AeState,
                                  DigestFed, GcmOpens

\* TEE_SetOperationKey changes the keys alone.
LEMMA KeyHandle ==
  ASSUME NEW r, NEW p, HandleInv(r, p), NEW a \in Keys, NEW s \in Keys
  PROVE  HandleInv([r EXCEPT !.keySet = TRUE, !.aekey = a, !.sigkey = s], p)
  <1> DEFINE q == [r EXCEPT !.keySet = TRUE, !.aekey = a, !.sigkey = s]
  <1>1. r \in OpRec /\ p \in Plain
    BY DEF HandleInv, HandleType
  <1>2. q \in OpRec
    BY <1>1 DEF OpRec
  <1>3. /\ q.keySet /\ q.live = r.live /\ q.kind = r.kind /\ q.state = r.state
        /\ q.aeiv = r.aeiv /\ q.gcm = r.gcm /\ q.cbc = r.cbc /\ q.sha = r.sha
    BY <1>1 DEF OpRec
  <1> HIDE DEF q
  <1>4. HandleInv(q, p)
    BY <1>1, <1>2, <1>3 DEF HandleInv, HandleType, CbcOnly, CbcFaithful, AeState,
                            DigestFed, GcmOpens
  <1> QED BY <1>4 DEF q

\* TEE_AEInit on a fresh GCM handle.
LEMMA InitHandle ==
  ASSUME NEW r, NEW p, HandleInv(r, p), r.live, r.kind[2] = "GCM", r.keySet,
         NEW nonce \in Nonces
  PROVE  HandleInv([r EXCEPT !.gcm = [NoGcm EXCEPT !.set = TRUE, !.key = r.aekey],
                             !.aeiv = nonce, !.state = GCM_ST_INIT], p)
  <1> DEFINE g == [NoGcm EXCEPT !.set = TRUE, !.key = r.aekey]
             q == [r EXCEPT !.gcm = g, !.aeiv = nonce, !.state = GCM_ST_INIT]
  <1>1. r \in OpRec /\ p \in Plain
    BY DEF HandleInv, HandleType
  <1>2. g \in GcmCtx /\ g.set
    BY <1>1, FreshTypes DEF GcmCtx, OpRec
  <1> HIDE DEF g
  <1>3. q \in OpRec
    <2>1. GCM_ST_INIT \in 0..4 /\ nonce \in Nonces \cup {NoNonce}
      BY DEF GCM_ST_INIT
    <2> QED BY <1>1, <1>2, <2>1 DEF OpRec
  <1>4. /\ q.keySet /\ q.live = r.live /\ q.kind = r.kind /\ q.state = 1
        /\ q.aeiv = nonce /\ q.gcm = g /\ q.cbc = r.cbc /\ q.sha = r.sha
    BY <1>1 DEF OpRec, GCM_ST_INIT
  <1> HIDE DEF q
  <1>5. r.kind[1] # "DIGEST"
    BY <1>1 DEF OpRec, AllKinds
  <1>6. ~r.cbc.set
    BY DEF HandleInv, CbcOnly
  <1>7. HandleType(q, p) /\ CbcOnly(q) /\ CbcFaithful(q, p) /\ DigestFed(q, p)
    BY <1>1, <1>3, <1>4, <1>5, <1>6 DEF HandleType, CbcOnly, CbcFaithful, DigestFed
  <1>8. AeState(q) /\ GcmOpens(q, p)
    BY <1>2, <1>4 DEF AeState, GcmOpens, GCM_ST_AAD
  <1>9. HandleInv(q, p)
    BY <1>7, <1>8 DEF HandleInv
  <1> QED BY <1>9 DEF q, g

\* A started context.
LEMMA StartedType ==
  ASSUME NEW g \in GcmCtx, NEW nonce \in Nonces \cup {NoNonce}, NEW aad \in Aads \cup {Empty}
  PROVE  /\ Started(g, nonce, aad) \in GcmCtx
         /\ Started(g, nonce, aad).set = g.set
         /\ Started(g, nonce, aad).key = g.key
         /\ Started(g, nonce, aad).iv = nonce
         /\ Started(g, nonce, aad).fed = << >>
  BY FreshTypes DEF Started, GcmCtx

\* A GCM handle whose context becomes g and whose history becomes p, once the
\* message is started.
LEMMA GcmHandle ==
  ASSUME NEW r, NEW p0, HandleInv(r, p0), r.live, r.kind[2] = "GCM",
         r.state >= GCM_ST_INIT,
         NEW g \in GcmCtx, g.set, g.iv = r.aeiv,
         NEW st \in GCM_ST_AAD..GCM_ST_FINAL, NEW p \in Plain,
         Lib = "mbed" => Opens(g.key, g.iv, g.fed, p)
  PROVE  HandleInv([r EXCEPT !.gcm = g, !.state = st], p)
  <1> DEFINE q == [r EXCEPT !.gcm = g, !.state = st]
  <1>1. r \in OpRec
    BY DEF HandleInv, HandleType
  <1>2. st \in 0..4 /\ st >= 2
    BY DEF GCM_ST_AAD, GCM_ST_FINAL
  <1>3. q \in OpRec
    BY <1>1, <1>2 DEF OpRec
  <1>4. /\ q.keySet = r.keySet /\ q.live = r.live /\ q.kind = r.kind /\ q.state = st
        /\ q.aeiv = r.aeiv /\ q.gcm = g /\ q.cbc = r.cbc /\ q.sha = r.sha
    BY <1>1 DEF OpRec
  <1> HIDE DEF q
  <1>5. r.kind[1] # "DIGEST"
    BY <1>1 DEF OpRec, AllKinds
  <1>6. ~r.cbc.set /\ r.keySet /\ r.aeiv \in Nonces
    BY DEF HandleInv, CbcOnly, AeState
  <1>7. HandleInv(q, p)
    BY <1>3, <1>4, <1>5, <1>6
       DEF HandleInv, HandleType, CbcOnly, CbcFaithful, AeState, DigestFed, GcmOpens
  <1> QED BY <1>7 DEF q

\* TEE_AEUpdateAAD.  On a digest handle it moves only what is not looked at.
LEMMA AadHandle ==
  ASSUME NEW r, NEW p, HandleInv(r, p), r.live, r.state >= GCM_ST_INIT,
         NEW aad \in Aads \cup {Empty}
  PROVE  HandleInv([r EXCEPT !.gcm = Started(r.gcm, r.aeiv, aad), !.state = GCM_ST_AAD],
                   IF r.kind[1] = "DIGEST" THEN p ELSE << >>)
  <1> DEFINE g == Started(r.gcm, r.aeiv, aad)
             q == [r EXCEPT !.gcm = g, !.state = GCM_ST_AAD]
             p2 == IF r.kind[1] = "DIGEST" THEN p ELSE << >>
  <1>1. r \in OpRec /\ p \in Plain
    BY DEF HandleInv, HandleType
  <1>2. /\ g \in GcmCtx /\ g.set = r.gcm.set /\ g.iv = r.aeiv /\ g.fed = << >>
    BY <1>1, StartedType DEF OpRec
  <1> HIDE DEF g
  <1>3. CASE r.kind[2] = "GCM"
    <2>1. r.kind[1] # "DIGEST"
      BY <1>1, <1>3 DEF OpRec, AllKinds
    <2>2. g.set
      BY <1>2, <1>3 DEF HandleInv, AeState
    <2>3. Opens(g.key, g.iv, g.fed, << >>)
      BY <1>2, OpensEmpty
    <2>4. GCM_ST_AAD \in GCM_ST_AAD..GCM_ST_FINAL /\ << >> \in Plain
      BY FreshTypes DEF GCM_ST_AAD, GCM_ST_FINAL
    <2>5. HandleInv(q, << >>)
      BY <1>2, <1>3, <2>2, <2>3, <2>4, GcmHandle
    <2> QED BY <2>1, <2>5 DEF g
  <1>4. CASE r.kind[2] # "GCM"
    <2>1. q \in OpRec
      <3>1. GCM_ST_AAD \in 0..4
        BY DEF GCM_ST_AAD
      <3> QED BY <1>1, <1>2, <3>1 DEF OpRec
    <2>2. /\ q.keySet = r.keySet /\ q.live = r.live /\ q.kind = r.kind
          /\ q.aeiv = r.aeiv /\ q.gcm = g /\ q.cbc = r.cbc /\ q.sha = r.sha
      BY <1>1 DEF OpRec
    <2> HIDE DEF q
    <2>3. r.kind[2] # "CBC"
      BY DEF HandleInv, CbcOnly, GCM_ST_INIT
    <2>4. ~r.cbc.set
      BY <2>3 DEF HandleInv, CbcOnly
    <2>5. HandleInv(q, p2)
      BY <1>1, <1>4, <2>1, <2>2, <2>3, <2>4, FreshTypes
         DEF HandleInv, HandleType, CbcOnly, CbcFaithful, AeState, DigestFed, GcmOpens
    <2> QED BY <2>5 DEF q, g
  <1> QED BY <1>3, <1>4

(***************************************************************************)
(*                      Feeding a GCM message                              *)
(***************************************************************************)

\* The two sides of one chunk: a ciphertext that is no FIN, and what it opens to.
LEMMA CryptSides ==
  ASSUME HandlesInv, NEW o \in Ops, op[o].kind[2] = "GCM", NEW g \in GcmCtx,
         Len(g.fed) < MaxFeed, NEW x \in Deliverable(o)
  PROVE  /\ x # Empty
         /\ PtSide(o, g, x) \in Chunks \cup {Garbage}
         /\ CtSide(o, g, x) \in Ciphertext \cup {Garbage}
         /\ CtSide(o, g, x) # FIN
         /\ Lib = "mbed" => PtSide(o, g, x) =
                               Opened(g.key, g.iv, Carried(g.fed) + 1, CtSide(o, g, x))
  <1> DEFINE pl == Place(g)
  <1>1. g.fed \in Fed /\ g.key \in Keys /\ g.iv \in Nonces \cup {NoNonce}
    BY DEF GcmCtx
  <1>2. Len(g.fed) \in Nat /\ Carried(g.fed) \in 0..Len(g.fed)
    <2> DEFINE S == Ciphertext \cup Chunks \cup {FIN, Garbage}
               f == g.fed
    <2>1. f \in Seq(S)
      BY <1>1 DEF Fed
    <2> HIDE DEF S, f
    <2>2. Carried(f) \in 0..Len(f)
      BY <2>1, RankAppend, Zenon
    <2> QED BY <2>1, <2>2 DEF f
  <1>3. pl \in 1..(MaxFeed + 1)
    <2> DEFINE l == Len(g.fed)
               m == Carried(g.fed)
    <2>1. l \in Nat /\ m \in 0..l /\ l < MaxFeed /\ (pl = m + 1 \/ pl = 1)
      BY <1>2 DEF Place
    <2> HIDE DEF l, m, pl
    <2> QED BY <2>1
  <1>4. Lib = "mbed" => pl = Carried(g.fed) + 1
    BY DEF Place
  <1> HIDE DEF pl
  <1>5. op[o] \in OpRec
    BY DEF HandlesInv
  <1>6. CASE Mode(o) = "ENCRYPT"
    <2>1. x \in Chunks
      BY <1>6 DEF Deliverable
    <2> DEFINE c == [key |-> g.key, iv |-> g.iv, pos |-> pl, pt |-> x]
    <2>2. CtSide(o, g, x) = c /\ PtSide(o, g, x) = x
      BY <1>6, <2>1 DEF CtSide, PtSide, GcmCrypt, pl
    <2>3. c \in Ciphertext
      BY <1>1, <1>3, <2>1 DEF Ciphertext
    <2>4. x # Empty /\ c # FIN
      BY <2>1, <2>3 DEF FIN
    <2>5. Opened(g.key, g.iv, pl, c) = x
      BY <2>1 DEF Opened
    <2> QED BY <1>4, <2>1, <2>2, <2>3, <2>4, <2>5
  <1>7. CASE Mode(o) # "ENCRYPT"
    <2>1. op[o].gcm.key \in Keys
      BY <1>5 DEF OpRec, GcmCtx
    <2>2. \/ x = Garbage
          \/ x \in [key : {op[o].gcm.key}, iv : Nonces, pos : 1..MaxFeed, pt : Chunks]
      BY <1>7 DEF Deliverable
    <2>3. x \in Ciphertext \cup {Garbage}
      <3>1. 1..MaxFeed \subseteq 1..(MaxFeed + 1)
        OBVIOUS
      <3> QED BY <2>1, <2>2, <3>1 DEF Ciphertext
    <2>4. x \notin Chunks /\ x # Empty
      BY <2>3
    <2>5. CtSide(o, g, x) = x /\ PtSide(o, g, x) = GcmCrypt(g, x)
      BY <1>7 DEF CtSide, PtSide
    <2>6. GcmCrypt(g, x) = Opened(g.key, g.iv, pl, x)
      BY <2>4 DEF GcmCrypt, Opened, pl
    <2>7. Opened(g.key, g.iv, pl, x) \in Chunks \cup {Garbage}
      BY DEF Opened
    <2> QED BY <1>4, <2>3, <2>4, <2>5, <2>6, <2>7 DEF FIN
  <1> QED BY <1>6, <1>7

\* Items adds one item, or none for an empty argument.
LEMMA ItemsAdded ==
  ASSUME NEW S, NEW s \in Seq(S), NEW x, NEW y
  PROVE  s \o Items(x, y) = IF x = Empty THEN s ELSE Append(s, y)
  <1>1. s \o << >> = s /\ s \o <<y>> = Append(s, y)
    OBVIOUS
  <1> QED BY <1>1 DEF Items

\* The context and the plaintext after one more, possibly empty, chunk.
LEMMA MessageStep ==
  ASSUME HandlesInv, NEW o \in Ops, op[o].kind[2] = "GCM", NEW g \in GcmCtx,
         Len(g.fed) < MaxFeed, NEW x \in Deliverable(o) \cup {Empty}, NEW p \in Plain,
         Lib = "mbed" => Opens(g.key, g.iv, g.fed, p)
  PROVE  /\ Absorb(o, g, x) \in GcmCtx
         /\ Absorb(o, g, x).set = g.set /\ Absorb(o, g, x).key = g.key
         /\ Absorb(o, g, x).iv = g.iv /\ Absorb(o, g, x).aad = g.aad
         /\ p \o Items(x, PtSide(o, g, x)) \in Plain
         /\ Lib = "mbed" => Opens(g.key, g.iv, Absorb(o, g, x).fed,
                                  p \o Items(x, PtSide(o, g, x)))
  <1> DEFINE ct == CtSide(o, g, x)
             pt == PtSide(o, g, x)
             fed == g.fed \o Items(x, ct)
             p2 == p \o Items(x, pt)
  <1>1. g.fed \in Fed
    BY DEF GcmCtx
  <1>2. fed = IF x = Empty THEN g.fed ELSE Append(g.fed, ct)
    BY <1>1, ItemsAdded DEF Fed
  <1>3. p2 = IF x = Empty THEN p ELSE Append(p, pt)
    BY ItemsAdded DEF Plain
  <1>4. x # Empty => /\ pt \in Chunks \cup {Garbage}
                     /\ ct \in Ciphertext \cup {Garbage}
                     /\ ct # FIN
                     /\ Lib = "mbed" => pt = Opened(g.key, g.iv, Carried(g.fed) + 1, ct)
    BY CryptSides
  <1> HIDE DEF ct, pt
  <1>5. fed \in Fed /\ p2 \in Plain
    BY <1>1, <1>2, <1>3, <1>4 DEF Fed, Plain
  <1>6. ASSUME Lib = "mbed" PROVE Opens(g.key, g.iv, fed, p2)
    <2>1. CASE x = Empty
      BY <1>2, <1>3, <1>6, <2>1
    <2>2. CASE x # Empty
      <3>1. Opens(g.key, g.iv, Append(g.fed, ct), Append(p, pt))
        BY <1>1, <1>4, <1>6, <2>2, OpensChunk DEF Fed
      <3> QED BY <1>2, <1>3, <2>2, <3>1
    <2> QED BY <2>1, <2>2
  <1>7. Absorb(o, g, x) = IF Lib = "mbed" THEN [g EXCEPT !.fed = fed] ELSE g
    BY DEF Absorb, ct
  <1> HIDE DEF fed
  <1>8. [g EXCEPT !.fed = fed] \in GcmCtx
    BY <1>5 DEF GcmCtx
  <1>9. /\ [g EXCEPT !.fed = fed].set = g.set /\ [g EXCEPT !.fed = fed].key = g.key
        /\ [g EXCEPT !.fed = fed].iv = g.iv /\ [g EXCEPT !.fed = fed].aad = g.aad
        /\ [g EXCEPT !.fed = fed].fed = fed
    BY DEF GcmCtx
  <1> DEFINE h == [g EXCEPT !.fed = fed]
  <1> HIDE DEF h, p2
  <1>10. /\ Absorb(o, g, x) \in GcmCtx
         /\ Absorb(o, g, x).set = g.set /\ Absorb(o, g, x).key = g.key
         /\ Absorb(o, g, x).iv = g.iv /\ Absorb(o, g, x).aad = g.aad
         /\ Lib = "mbed" => Opens(g.key, g.iv, Absorb(o, g, x).fed, p2)
    <2>1. /\ h \in GcmCtx /\ h.set = g.set /\ h.key = g.key /\ h.iv = g.iv
          /\ h.aad = g.aad /\ h.fed = fed
      BY <1>8, <1>9 DEF h
    <2>2. Absorb(o, g, x) = IF Lib = "mbed" THEN h ELSE g
      BY <1>7 DEF h
    <2> QED BY <1>6, <2>1, <2>2
  <1> QED BY <1>5, <1>10 DEF p2, pt

\* mbedtls_gcm_finish changes nothing that the message opens to.
LEMMA FinishedType ==
  ASSUME NEW g \in GcmCtx, NEW p \in Plain,
         Lib = "mbed" => Opens(g.key, g.iv, g.fed, p)
  PROVE  /\ Finished(g) \in GcmCtx
         /\ Finished(g).set = g.set /\ Finished(g).key = g.key
         /\ Finished(g).iv = g.iv /\ Finished(g).aad = g.aad
         /\ Lib = "mbed" => Opens(g.key, g.iv, Finished(g).fed, p)
  <1> DEFINE fed == Append(g.fed, FIN)
             h == [g EXCEPT !.fed = fed]
  <1>1. g.fed \in Fed /\ fed \in Fed
    BY DEF GcmCtx, Fed
  <1>2. Lib = "mbed" => Opens(g.key, g.iv, fed, p)
    BY <1>1, OpensFin DEF Fed
  <1> HIDE DEF fed
  <1>3. /\ h \in GcmCtx /\ h.set = g.set /\ h.key = g.key /\ h.iv = g.iv
        /\ h.aad = g.aad /\ h.fed = fed
    BY <1>1 DEF GcmCtx
  <1>4. Finished(g) = h \/ Finished(g) = g
    BY DEF Finished, fed
  <1> HIDE DEF h
  <1> QED BY <1>2, <1>3, <1>4

\* What the update and the finals find: a started message.
LEMMA ReadyFacts ==
  ASSUME HandlesInv, NEW o \in Ops, op[o].live, op[o].kind[2] = "GCM",
         op[o].state >= GCM_ST_INIT
  PROVE  /\ Ready(o) \in GcmCtx /\ Ready(o).set /\ Ready(o).iv = op[o].aeiv
         /\ ReadyPlain(o) \in Plain
         /\ Lib = "mbed" => Opens(Ready(o).key, Ready(o).iv, Ready(o).fed, ReadyPlain(o))
         /\ ReadyState(o) \in GCM_ST_AAD..GCM_ST_FINAL
  <1>1. HandleInv(op[o], plain[o])
    BY DEF HandlesInv
  <1>2. op[o] \in OpRec /\ plain[o] \in Plain
    BY <1>1 DEF HandleInv, HandleType
  <1>3. op[o].gcm \in GcmCtx /\ op[o].aeiv \in Nonces \cup {NoNonce} /\ op[o].state \in 0..4
    BY <1>2 DEF OpRec
  <1>4. op[o].gcm.set
    BY <1>1 DEF HandleInv, AeState
  <1>5. CASE op[o].state = GCM_ST_INIT
    <2> DEFINE g == Started(op[o].gcm, op[o].aeiv, Empty)
    <2>1. /\ g \in GcmCtx /\ g.set = op[o].gcm.set /\ g.iv = op[o].aeiv /\ g.fed = << >>
      BY SMTT(60), <1>3, StartedType
    <2>2. Opens(g.key, g.iv, g.fed, << >>)
      BY <2>1, OpensEmpty
    <2>3. Ready(o) = g /\ ReadyPlain(o) = << >> /\ ReadyState(o) = GCM_ST_AAD
      BY <1>5 DEF Ready, ReadyPlain, ReadyState
    <2>4. GCM_ST_AAD \in GCM_ST_AAD..GCM_ST_FINAL
      BY DEF GCM_ST_AAD, GCM_ST_FINAL
    <2> HIDE DEF g
    <2> QED BY <1>4, <2>1, <2>2, <2>3, <2>4, FreshTypes
  <1>6. CASE op[o].state # GCM_ST_INIT
    <2>1. op[o].state \in GCM_ST_AAD..GCM_ST_FINAL /\ op[o].state >= GCM_ST_AAD
      BY <1>3, <1>6 DEF GCM_ST_INIT, GCM_ST_AAD, GCM_ST_FINAL
    <2>2. Ready(o) = op[o].gcm /\ ReadyPlain(o) = plain[o] /\ ReadyState(o) = op[o].state
      BY <1>6 DEF Ready, ReadyPlain, ReadyState
    <2>3. op[o].gcm.iv = op[o].aeiv
      BY <1>1, <2>1 DEF HandleInv, AeState
    <2>4. Lib = "mbed" => Opens(op[o].gcm.key, op[o].gcm.iv, op[o].gcm.fed, plain[o])
      BY <1>1, <2>1 DEF HandleInv, GcmOpens
    <2> QED BY <1>2, <1>3, <1>4, <2>1, <2>2, <2>3, <2>4
  <1> QED BY <1>5, <1>6

(***************************************************************************)
(*                     CBC streams and digests                             *)
(***************************************************************************)

\* An extended history is free of garbage only if it was before.
LEMMA RangeAppend ==
  ASSUME NEW p \in Plain, NEW y, Garbage \notin Range(Append(p, y))
  PROVE  y # Garbage /\ Garbage \notin Range(p)
  <1> DEFINE q == Append(p, y)
  <1>1. /\ Len(p) \in Nat /\ DOMAIN p = 1..Len(p) /\ DOMAIN q = 1..(Len(p) + 1)
        /\ q[Len(p) + 1] = y /\ \A i \in 1..Len(p) : q[i] = p[i]
    BY DEF Plain
  <1> HIDE DEF q
  <1>2. \A i \in DOMAIN q : q[i] # Garbage
    BY DEF Range, q
  <1> QED BY <1>1, <1>2 DEF Range

\* TEE_CipherInit starts a stream.
LEMMA CbcStartHandle ==
  ASSUME NEW r, NEW p, HandleInv(r, p), r.live, r.kind[2] = "CBC", NEW nonce \in Nonces
  PROVE  HandleInv([r EXCEPT !.cbc = CbcStart(r.aekey, nonce)], << >>)
  <1> DEFINE c == CbcStart(r.aekey, nonce)
             q == [r EXCEPT !.cbc = c]
  <1>1. r \in OpRec
    BY DEF HandleInv, HandleType
  <1>2. r.aekey \in Keys
    BY <1>1 DEF OpRec
  <1> DEFINE b == [key |-> r.aekey, iv |-> nonce, chain |-> << >>]
  <1>3. b \in CbcChain /\ b \in CbcBlock
    BY <1>2, FreshTypes DEF CbcChain, CbcBlock, Plain
  <1>4. /\ c.set /\ c.key = r.aekey /\ c.iv = nonce /\ c.prev = b
    BY DEF CbcStart
  <1>5. c \in CbcCtx
    BY <1>2, <1>3 DEF CbcStart, CbcCtx
  <1> HIDE DEF c
  <1>6. q \in OpRec
    BY <1>1, <1>5 DEF OpRec
  <1>7. /\ q.live = r.live /\ q.kind = r.kind /\ q.state = r.state
        /\ q.cbc = c
    BY <1>1 DEF OpRec
  <1>8. r.kind[1] # "DIGEST" /\ r.kind[2] # "GCM" /\ r.state = 0
    <2>1. r.state = 0
      BY DEF HandleInv, CbcOnly
    <2> QED BY <1>1, <2>1 DEF OpRec, AllKinds
  <1> HIDE DEF q, b
  <1>9. c.prev = [key |-> c.key, iv |-> c.iv, chain |-> << >>]
    BY <1>4 DEF b
  <1>10. HandleType(q, << >>) /\ CbcOnly(q)
    BY <1>3, <1>4, <1>6, <1>7, <1>8, FreshTypes DEF HandleType, CbcOnly
  <1>11. CbcFaithful(q, << >>) /\ AeState(q) /\ DigestFed(q, << >>) /\ GcmOpens(q, << >>)
    BY <1>7, <1>8, <1>9 DEF CbcFaithful, AeState, DigestFed, GcmOpens
  <1> QED BY <1>10, <1>11 DEF HandleInv, q, c

\* One more chunk of a stream: its ciphertext becomes the persistent IV.
LEMMA CbcNextHandle ==
  ASSUME NEW r, NEW p, HandleInv(r, p), r.live, r.kind[2] = "CBC", r.cbc.set,
         NEW b \in CbcBlock, r.kind[1] = "ENCRYPT" => b \in CbcChain,
         NEW y \in Chunks \cup {Garbage},
         (y # Garbage /\ Garbage \notin Range(p)) =>
            b = [key |-> r.cbc.key, iv |-> r.cbc.iv, chain |-> Append(p, y)]
  PROVE  HandleInv([r EXCEPT !.cbc.prev = b], Append(p, y))
  <1> DEFINE c == [r.cbc EXCEPT !.prev = b]
             q == [r EXCEPT !.cbc = c]
             p2 == Append(p, y)
  <1>1. r \in OpRec /\ p \in Plain
    BY DEF HandleInv, HandleType
  <1>2. r.cbc \in CbcCtx
    BY <1>1 DEF OpRec
  <1>3. c \in CbcCtx /\ c.set /\ c.key = r.cbc.key /\ c.iv = r.cbc.iv /\ c.prev = b
    BY <1>2 DEF CbcCtx
  <1>4. p2 \in Plain
    BY <1>1 DEF Plain
  <1>5. [r EXCEPT !.cbc.prev = b] = q
    BY <1>1 DEF OpRec
  <1> HIDE DEF c
  <1>6. q \in OpRec
    BY <1>1, <1>3 DEF OpRec
  <1>7. q.live = r.live /\ q.kind = r.kind /\ q.state = r.state /\ q.cbc = c
    BY <1>1 DEF OpRec
  <1>8. r.kind[1] # "DIGEST" /\ r.kind[2] # "GCM" /\ r.state = 0
    <2>1. r.state = 0
      BY DEF HandleInv, CbcOnly
    <2> QED BY <1>1, <2>1 DEF OpRec, AllKinds
  <1> HIDE DEF q
  <1>9. HandleType(q, p2) /\ CbcOnly(q)
    BY <1>3, <1>4, <1>6, <1>7, <1>8 DEF HandleType, CbcOnly
  <1>10. CbcFaithful(q, p2)
    <2>1. Garbage \notin Range(p2) => y # Garbage /\ Garbage \notin Range(p)
      BY <1>1, RangeAppend
    <2> QED BY <1>3, <1>7, <2>1 DEF CbcFaithful
  <1>11. AeState(q) /\ DigestFed(q, p2) /\ GcmOpens(q, p2)
    BY <1>7, <1>8 DEF AeState, DigestFed, GcmOpens
  <1> QED BY <1>5, <1>9, <1>10, <1>11 DEF HandleInv

\* A decrypted block was encrypted right behind the persistent IV.
LEMMA CbcDecrypted ==
  ASSUME NEW c, NEW b, NEW p \in Plain,
         \/ b = Garbage
         \/ b \in CbcChain /\ b.chain \in Seq(Chunks) /\ b.chain # << >>
  PROVE  /\ CbcDecrypt(c, b) \in Chunks \cup {Garbage}
         /\ (CbcDecrypt(c, b) # Garbage
               /\ c.prev = [key |-> c.key, iv |-> c.iv, chain |-> p]) =>
            b = [key |-> c.key, iv |-> c.iv, chain |-> Append(p, CbcDecrypt(c, b))]
  <1>1. CASE b = Garbage
    BY <1>1 DEF CbcDecrypt
  <1>2. CASE b \in CbcChain /\ b.chain \in Seq(Chunks) /\ b.chain # << >>
    <2> DEFINE s == b.chain
    <2>1. /\ Front(s) \in Seq(Chunks) /\ Last(s) \in Chunks
          /\ s = Append(Front(s), Last(s))
      BY <1>2 DEF Front, Last
    <2>2. b = [key |-> b.key, iv |-> b.iv, chain |-> s]
      BY <1>2 DEF CbcChain
    <2> HIDE DEF s
    <2>3. CbcDecrypt(c, b) # Garbage =>
             /\ b.key = c.key /\ CbcDecrypt(c, b) = Last(s)
             /\ c.prev = [key |-> b.key, iv |-> b.iv, chain |-> Front(s)]
      BY DEF CbcDecrypt, s
    <2>4. CbcDecrypt(c, b) \in Chunks \cup {Garbage}
      BY <2>1, <2>3
    <2>5. ASSUME CbcDecrypt(c, b) # Garbage,
                 c.prev = [key |-> c.key, iv |-> c.iv, chain |-> p]
          PROVE  b.iv = c.iv /\ Front(s) = p /\ b.key = c.key
      BY <2>3, <2>5
    <2> QED BY <2>1, <2>2, <2>3, <2>4, <2>5
  <1> QED BY <1>1, <1>2

\* TEE_DigestUpdate and TEE_DigestDoFinal on a digest handle.
LEMMA DigestHandle ==
  ASSUME NEW r, NEW p, HandleInv(r, p), r.live, r.kind[1] = "DIGEST",
         NEW sha \in Seq(Chunks \cup {FIN}), NEW p2 \in Plain,
         Lib = "wolf" => sha = p2
  PROVE  HandleInv([r EXCEPT !.sha = sha], p2)
  <1> DEFINE q == [r EXCEPT !.sha = sha]
  <1>1. r \in OpRec
    BY DEF HandleInv, HandleType
  <1>2. q \in OpRec
    BY <1>1 DEF OpRec
  <1>3. /\ q.live = r.live /\ q.kind = r.kind /\ q.state = r.state /\ q.cbc = r.cbc
        /\ q.sha = sha
    BY <1>1 DEF OpRec
  <1>4. r.kind[2] \notin {"GCM", "CBC"}
    BY <1>1 DEF OpRec, AllKinds
  <1> HIDE DEF q
  <1>5. ~r.cbc.set
    BY <1>4 DEF HandleInv, CbcOnly
  <1>6. HandleInv(q, p2)
    BY <1>2, <1>3, <1>4, <1>5
       DEF HandleInv, HandleType, CbcOnly, CbcFaithful, AeState, DigestFed, GcmOpens
  <1> QED BY <1>6 DEF q

(***************************************************************************)
(*                              The actions                                *)
(***************************************************************************)

\* A call that leaves the handles and the histories alone.
LEMMA HandlesKept ==
  ASSUME Inv, UNCHANGED <<op, plain, sealed>> PROVE HandlesInv' /\ SealedOpens'
  BY DEF Inv, HandlesInv, SealedOpens

\* A call's result.
LEMMA ReturnsType ==
  ASSUME NEW c, NEW o, NEW res \in Results, NEW d, Returns(c, o, res, d)
  PROVE  ret'.res \in Results /\ ret'.call = c /\ ret'.op = o /\ ret'.res = res /\ ret'.data = d
  BY DEF Returns

\* A new instance starts with an empty heap.
LEMMA HeapFresh ==
  ASSUME NEW f, f = [o \in Ops |-> FreedOp], NEW p, p = [o \in Ops |-> << >>]
  PROVE  /\ f \in [Ops -> OpRec] /\ p \in [Ops -> Plain]
         /\ \A o \in Ops : HandleInv(f[o], p[o])
  <1>1. FreedOp \in OpRec /\ << >> \in Plain
    BY FreedHandle DEF HandleInv, HandleType
  <1> QED BY <1>1, FreedHandle

\* A panic ends the instance.
LEMMA PanicInv ==
  ASSUME Inv, NEW c, TEE_Panic(c) PROVE Inv'
  <1>1. HandlesInv'
    BY HeapFresh DEF TEE_Panic, HandlesInv
  <1>2. Rest'
    BY FreshTypes DEF Inv, TEE_Panic, Rest, Returns, FreedObj, ObjRec, Results, ZeroKey
  <1>3. SealedOpens'
    BY DEF Inv, TEE_Panic, SealedOpens
  <1> QED BY <1>1, <1>2, <1>3 DEF Inv

\* The calls that touch no operation handle.
LEMMA ObjectInv ==
  ASSUME Inv, NEW b \in Objs,
         \/ \E type \in Types : TEE_AllocateTransientObject(b, type)
         \/ TEE_GenerateKey(b) \/ TEE_FreeTransientObject(b)
  PROVE  Inv'
  <1>0. obj \in [Objs -> ObjRec] /\ keys \in Keys /\ ta \in {"run", "panicked"}
    BY DEF Inv, Rest
  <1>1. CASE \E type \in Types : TEE_AllocateTransientObject(b, type)
    <2>1. PICK type \in Types : TEE_AllocateTransientObject(b, type)
      BY <1>1
    <2>2. [live |-> TRUE, type |-> type, keySet |-> FALSE, key |-> ZeroKey] \in ObjRec
      BY FreshTypes DEF ObjRec, ZeroKey
    <2>3. obj' \in [Objs -> ObjRec]
      BY <1>0, <2>1, <2>2 DEF TEE_AllocateTransientObject
    <2>4. ret'.res \in Results /\ UNCHANGED <<ta, op, keys, sealed, plain>>
      BY <2>1 DEF TEE_AllocateTransientObject, Returns, Results
    <2> QED BY <2>3, <2>4, HandlesKept DEF Inv, Rest
  <1>2. CASE TEE_FreeTransientObject(b)
    <2>1. obj' \in [Objs -> ObjRec]
      BY <1>0, <1>2, FreshTypes DEF TEE_FreeTransientObject, FreedObj, ObjRec, ZeroKey
    <2>2. ret'.res \in Results /\ UNCHANGED <<ta, op, keys, sealed, plain>>
      BY <1>2 DEF TEE_FreeTransientObject, Returns, Results
    <2> QED BY <2>1, <2>2, HandlesKept DEF Inv, Rest
  <1>3. CASE TEE_GenerateKey(b)
    <2>1. CASE TEE_Panic("GenerateKey")
      BY <2>1, PanicInv
    <2>2. CASE ~TEE_Panic("GenerateKey")
      <3>1. ret'.res \in Results /\ UNCHANGED <<ta, op, sealed, plain>>
        <4>1. /\ \/ Returns("GenerateKey", Empty, "BAD_PARAMETERS", << >>)
                 \/ Returns("GenerateKey", Empty, "SUCCESS", << >>)
              /\ UNCHANGED <<ta, op, sealed, plain>>
          BY <1>3, <2>2, Zenon DEF TEE_GenerateKey
        <4> QED BY <4>1 DEF Returns, Results
      <3>2. keys' \in Keys /\ obj' \in [Objs -> ObjRec]
        <4>1. CASE UNCHANGED <<keys, obj>>
          BY <1>0, <4>1
        <4>2. CASE \E made \in BOOLEAN :
                      /\ made => keys < MaxKeys
                      /\ keys' = IF made THEN keys + 1 ELSE keys
                      /\ obj' = [obj EXCEPT ![b].keySet = TRUE,
                                            ![b].key = IF made THEN keys + 1 ELSE @]
          <5>1. PICK made \in BOOLEAN :
                      /\ made => keys < MaxKeys
                      /\ keys' = IF made THEN keys + 1 ELSE keys
                      /\ obj' = [obj EXCEPT ![b].keySet = TRUE,
                                            ![b].key = IF made THEN keys + 1 ELSE @]
            BY <4>2
          <5>2. keys' \in Keys
            BY <1>0, <5>1 DEF Keys
          <5>3. made => keys + 1 \in Keys
            BY <1>0, <5>1 DEF Keys
          <5>4. obj' \in [Objs -> ObjRec]
            <6> DEFINE v == IF made THEN keys + 1 ELSE obj[b].key
                       r == [obj[b] EXCEPT !.keySet = TRUE, !.key = v]
            <6>1. obj[b] \in ObjRec
              BY <1>0
            <6>2. v \in Keys
              BY <5>3, <6>1 DEF ObjRec
            <6>3. obj' = [obj EXCEPT ![b] = r]
              BY <1>0, <5>1 DEF ObjRec
            <6> HIDE DEF v
            <6>4. r \in ObjRec
              BY <6>1, <6>2 DEF ObjRec
            <6> HIDE DEF r
            <6> QED BY <1>0, <6>3, <6>4
          <5> QED BY <5>2, <5>4
        <4> QED BY <1>3, <2>2, <4>1, <4>2 DEF TEE_GenerateKey
      <3> QED BY <1>0, <3>1, <3>2, HandlesKept DEF Inv, Rest
    <2> QED BY <2>1, <2>2
  <1> QED BY <1>1, <1>2, <1>3

\* The rest of the state when only handle o and the histories move.
LEMMA OpCall ==
  ASSUME Inv, NEW o \in Ops, NEW r, NEW p, HandleInv(r, p),
         op' = [op EXCEPT ![o] = r], plain' = [plain EXCEPT ![o] = p],
         UNCHANGED <<ta, obj, keys>>, ret'.res \in Results, SealedOpens'
  PROVE  Inv'
  <1>1. HandlesInv'
    BY HandleStep DEF Inv
  <1> QED BY <1>1 DEF Inv, Rest

\* The life of a handle.
LEMMA LifeInv ==
  ASSUME Inv, NEW o \in Ops,
         \/ \E kind \in Kinds : TEE_AllocateOperation(o, kind)
         \/ TEE_FreeOperation(o)
         \/ \E b \in Objs : TEE_SetOperationKey(o, b)
  PROVE  Inv'
  <1>0. HandleInv(op[o], plain[o]) /\ op[o] \in OpRec /\ op \in [Ops -> OpRec]
        /\ plain \in [Ops -> Plain] /\ obj \in [Objs -> ObjRec]
    BY DEF Inv, HandlesInv, Rest
  <1>1. ASSUME UNCHANGED sealed PROVE SealedOpens'
    BY <1>1 DEF Inv, SealedOpens
  <1>2. CASE \E kind \in Kinds : TEE_AllocateOperation(o, kind)
    <2>1. PICK kind \in Kinds : TEE_AllocateOperation(o, kind)
      BY <1>2
    <2>2. PICK keySet \in BOOLEAN, state \in 0..4 :
            /\ kind[1] # "DIGEST" => ~keySet /\ state = 0
            /\ op' = [op EXCEPT ![o] = NewOp(kind, keySet, state)]
      BY <2>1 DEF TEE_AllocateOperation
    <2>3. kind \in AllKinds
      OBVIOUS
    <2>4. HandleInv(NewOp(kind, keySet, state), << >>)
      BY <2>2, <2>3, NewHandle
    <2>5. /\ plain' = [plain EXCEPT ![o] = << >>] /\ ret'.res \in Results
          /\ UNCHANGED <<ta, obj, keys, sealed>>
      BY <2>1 DEF TEE_AllocateOperation, Returns, Results
    <2> QED BY <1>1, <2>2, <2>4, <2>5, OpCall
  <1>3. CASE TEE_FreeOperation(o)
    <2>1. /\ op' = [op EXCEPT ![o] = FreedOp]
          /\ plain' = [plain EXCEPT ![o] = << >>] /\ ret'.res \in Results
          /\ UNCHANGED <<ta, obj, keys, sealed>>
      BY <1>3 DEF TEE_FreeOperation, Returns, Results
    <2> QED BY <1>1, <2>1, FreedHandle, OpCall
  <1>4. CASE \E b \in Objs : TEE_SetOperationKey(o, b)
    <2>1. PICK b \in Objs : TEE_SetOperationKey(o, b)
      BY <1>4
    <2> DEFINE a == AesKeyCopied(o, b)
               s == PairCopied(o, b)
               r == [op[o] EXCEPT !.keySet = TRUE, !.aekey = a, !.sigkey = s]
    <2>2. a \in Keys /\ s \in Keys
      BY <1>0 DEF OpRec, ObjRec, AesKeyCopied, PairCopied
    <2>3. op' = [op EXCEPT ![o] = r]
      BY <1>0, <2>1 DEF TEE_SetOperationKey, OpRec
    <2> HIDE DEF a, s
    <2>4. HandleInv(r, plain[o])
      BY <1>0, <2>2, KeyHandle
    <2>5. /\ plain' = [plain EXCEPT ![o] = plain[o]] /\ ret'.res \in Results
          /\ UNCHANGED <<ta, obj, keys, sealed>>
      BY <1>0, <2>1 DEF TEE_SetOperationKey, Returns, Results
    <2> HIDE DEF r
    <2> QED BY <1>1, <2>3, <2>4, <2>5, OpCall
  <1> QED BY <1>2, <1>3, <1>4

\* A call on handle o that is refused with a result and changes nothing.
LEMMA RefusedCall ==
  ASSUME Inv, UNCHANGED <<ta, op, obj, keys, sealed, plain>>, ret'.res \in Results
  PROVE  Inv'
  BY HandlesKept DEF Inv, Rest

\* TEE_AEInit and TEE_AEUpdateAAD.
LEMMA AEStartInv ==
  ASSUME Inv, NEW o \in Ops,
         \/ \E n \in Nonces : TEE_AEInit(o, n)
         \/ \E aad \in Aads \cup {Empty} : TEE_AEUpdateAAD(o, aad)
  PROVE  Inv'
  <1>0. HandleInv(op[o], plain[o]) /\ op[o] \in OpRec /\ op \in [Ops -> OpRec]
        /\ plain \in [Ops -> Plain]
    BY DEF Inv, HandlesInv
  <1>1. ASSUME UNCHANGED sealed PROVE SealedOpens'
    BY <1>1 DEF Inv, SealedOpens
  <1>2. ASSUME NEW n \in Nonces, TEE_AEInit(o, n) PROVE Inv'
    <2>1. CASE /\ Returns("AEInit", o, "BAD_PARAMETERS", << >>)
               /\ UNCHANGED <<ta, op, obj, keys, sealed, signed, plain>>
      <3>1. ret'.res \in Results
        BY <2>1 DEF Returns, Results
      <3> QED BY <2>1, <3>1, RefusedCall
    <2>2. CASE TEE_Panic("AEInit")
      BY <2>2, PanicInv
    <2> DEFINE r == [op[o] EXCEPT !.gcm = [NoGcm EXCEPT !.set = TRUE, !.key = op[o].aekey],
                                  !.aeiv = n, !.state = GCM_ST_INIT]
    <2>3. CASE /\ op[o].keySet /\ op[o].state = 0
               /\ op' = [op EXCEPT ![o].gcm = [NoGcm EXCEPT !.set = TRUE, !.key = op[o].aekey],
                                   ![o].aeiv = n, ![o].state = GCM_ST_INIT]
               /\ Returns("AEInit", o, "SUCCESS", << >>)
               /\ UNCHANGED <<ta, obj, keys, sealed, signed, plain>>
      <3>1. op' = [op EXCEPT ![o] = r]
        BY <1>0, <2>3 DEF OpRec
      <3>2. op[o].live /\ op[o].kind[2] = "GCM"
        BY <1>2 DEF TEE_AEInit, Live, Alg
      <3>3. HandleInv(r, plain[o])
        BY <1>0, <2>3, <3>2, InitHandle
      <3>4. plain' = [plain EXCEPT ![o] = plain[o]] /\ ret'.res \in Results
        BY <1>0, <2>3 DEF Returns, Results
      <3> HIDE DEF r
      <3> QED BY <1>1, <2>3, <3>1, <3>3, <3>4, OpCall
    <2> QED BY <1>2, <2>1, <2>2, <2>3 DEF TEE_AEInit
  <1>3. ASSUME NEW aad \in Aads \cup {Empty}, TEE_AEUpdateAAD(o, aad) PROVE Inv'
    <2> DEFINE r == [op[o] EXCEPT !.gcm = Started(op[o].gcm, op[o].aeiv, aad),
                                  !.state = GCM_ST_AAD]
               p == IF op[o].kind[1] = "DIGEST" THEN plain[o] ELSE << >>
    <2>1. CASE TEE_Panic("AEUpdateAAD")
      BY <2>1, PanicInv
    <2>2. CASE /\ ~AadRefused(op[o].state)
               /\ op' = [op EXCEPT ![o].gcm = Started(@, op[o].aeiv, aad),
                                   ![o].state = GCM_ST_AAD]
               /\ IF Mode(o) = "DIGEST" THEN UNCHANGED <<plain, given>>
                  ELSE plain' = [plain EXCEPT ![o] = << >>]
               /\ Returns("AEUpdateAAD", o, "SUCCESS", << >>)
               /\ UNCHANGED <<ta, obj, keys, sealed, signed>>
      <3>1. op' = [op EXCEPT ![o] = r] /\ plain' = [plain EXCEPT ![o] = p]
        BY <1>0, <2>2 DEF OpRec, Mode
      <3>2. op[o].live
        BY <1>3 DEF TEE_AEUpdateAAD, Live
      <3>3. op[o].state >= GCM_ST_INIT
        <4>1. op[o].state \in 0..4
          BY <1>0 DEF OpRec
        <4> QED BY <2>2, <4>1 DEF AadRefused, GCM_ST_INIT
      <3>4. HandleInv(r, p)
        BY <1>0, <3>2, <3>3, AadHandle
      <3>5. ret'.res \in Results
        BY <2>2 DEF Returns, Results
      <3> HIDE DEF r, p
      <3> QED BY <1>1, <2>2, <3>1, <3>4, <3>5, OpCall
    <2> QED BY <1>3, <2>1, <2>2 DEF TEE_AEUpdateAAD
  <1> QED BY <1>2, <1>3

\* Where a message stands after one more chunk of TEE_AEUpdate or of a final.
FedBy(o, x) == Absorb(o, Ready(o), x)
PlainBy(o, x) == ReadyPlain(o) \o Items(x, PtSide(o, Ready(o), x))

\* The facts about it that the three calls share.
LEMMA FeedFacts ==
  ASSUME Inv, NEW o \in Ops, op[o].live, op[o].kind[2] = "GCM",
         op[o].state >= GCM_ST_INIT, Room(o), NEW x \in Deliverable(o) \cup {Empty}
  PROVE  /\ FedBy(o, x) \in GcmCtx /\ FedBy(o, x).set
         /\ FedBy(o, x).key = Ready(o).key /\ FedBy(o, x).aad = Ready(o).aad
         /\ FedBy(o, x).iv = Ready(o).iv /\ FedBy(o, x).iv = op[o].aeiv
         /\ PlainBy(o, x) \in Plain
         /\ Lib = "mbed" =>
              Opens(FedBy(o, x).key, FedBy(o, x).iv, FedBy(o, x).fed, PlainBy(o, x))
  <1> DEFINE g == Ready(o)
             p == ReadyPlain(o)
  <1>0. HandlesInv
    BY DEF Inv
  <1>1. /\ g \in GcmCtx /\ g.set /\ g.iv = op[o].aeiv /\ p \in Plain
        /\ Lib = "mbed" => Opens(g.key, g.iv, g.fed, p)
    BY <1>0, ReadyFacts
  <1>2. Len(g.fed) < MaxFeed
    BY DEF Room
  <1> HIDE DEF g, p
  <1>3. /\ Absorb(o, g, x) \in GcmCtx
        /\ Absorb(o, g, x).set = g.set /\ Absorb(o, g, x).key = g.key
        /\ Absorb(o, g, x).iv = g.iv /\ Absorb(o, g, x).aad = g.aad
        /\ p \o Items(x, PtSide(o, g, x)) \in Plain
        /\ Lib = "mbed" => Opens(g.key, g.iv, Absorb(o, g, x).fed,
                                 p \o Items(x, PtSide(o, g, x)))
    BY <1>0, <1>1, <1>2, MessageStep
  <1> QED BY <1>1, <1>3 DEF FedBy, PlainBy, g, p

\* The context it goes on with is the one that was given.
LEMMA ReadyGiven ==
  ASSUME HandlesInv, GivenInv, NEW o \in Ops, op[o].live, op[o].kind[2] = "GCM",
         op[o].state >= GCM_ST_INIT
  PROVE  Ready(o).key = given[o].mkey /\ Ready(o).iv = given[o].iv
         /\ Ready(o).aad = given[o].aad
  <1>1. GcmGiven(op[o], given[o]) /\ op[o].state \in 0..4
    BY DEF GivenInv, GivenFits, HandlesInv, OpRec
  <1>2. Ready(o).iv = op[o].aeiv
    BY ReadyFacts
  <1>3. CASE op[o].state = GCM_ST_INIT
    <2>1. Ready(o).key = op[o].gcm.key /\ Ready(o).aad = Empty
      BY <1>3 DEF Ready, Started
    <2> QED BY <1>1, <1>2, <1>3, <2>1 DEF GcmGiven
  <1>4. CASE op[o].state # GCM_ST_INIT
    <2>1. Ready(o) = op[o].gcm /\ op[o].state >= GCM_ST_AAD
      BY <1>1, <1>4 DEF Ready, GCM_ST_INIT, GCM_ST_AAD
    <2> QED BY <1>1, <1>2, <2>1 DEF GcmGiven
  <1> QED BY <1>3, <1>4

\* TEE_AEUpdate.
LEMMA AEUpdateInv ==
  ASSUME Inv, NEW o \in Ops, NEW x \in Deliverable(o), TEE_AEUpdate(o, x)
  PROVE  Inv'
  <1>0. HandleInv(op[o], plain[o]) /\ op[o] \in OpRec /\ op \in [Ops -> OpRec]
        /\ plain \in [Ops -> Plain] /\ HandlesInv
    BY DEF Inv, HandlesInv
  <1>1. ASSUME UNCHANGED sealed PROVE SealedOpens'
    BY <1>1 DEF Inv, SealedOpens
  <1>2. op[o].live /\ op[o].kind[2] = "GCM" /\ UNCHANGED <<ta, obj, keys>>
    BY DEF TEE_AEUpdate, Live, Alg
  <1>3. CASE AENotStarted(o, "AEUpdate")
    <2>1. ret'.res \in Results /\ UNCHANGED <<op, sealed, plain>>
      BY <1>3 DEF AENotStarted, Returns, Results
    <2> QED BY <1>2, <2>1, RefusedCall
  <1>4. CASE /\ op[o].state >= GCM_ST_INIT /\ Room(o)
             /\ op' = [op EXCEPT ![o].gcm = FedBy(o, x), ![o].state = GCM_ST_ACTIVE]
             /\ plain' = [plain EXCEPT ![o] =
                            Append(ReadyPlain(o), PtSide(o, Ready(o), x))]
             /\ Returns("AEUpdate", o, "SUCCESS", << >>)
             /\ UNCHANGED sealed
    <2> DEFINE r == [op[o] EXCEPT !.gcm = FedBy(o, x), !.state = GCM_ST_ACTIVE]
    <2>1. /\ FedBy(o, x) \in GcmCtx /\ FedBy(o, x).set /\ FedBy(o, x).iv = op[o].aeiv
          /\ PlainBy(o, x) \in Plain
          /\ Lib = "mbed" =>
               Opens(FedBy(o, x).key, FedBy(o, x).iv, FedBy(o, x).fed, PlainBy(o, x))
      BY <1>2, <1>4, FeedFacts
    <2>2. GCM_ST_ACTIVE \in GCM_ST_AAD..GCM_ST_FINAL
      BY DEF GCM_ST_AAD, GCM_ST_ACTIVE, GCM_ST_FINAL
    <2>3. HandleInv(r, PlainBy(o, x))
      BY <1>0, <1>2, <1>4, <2>1, <2>2, GcmHandle
    <2>4. op' = [op EXCEPT ![o] = r]
      BY <1>0, <1>4 DEF OpRec
    <2>5. x # Empty
      <3>1. Ready(o) \in GcmCtx /\ Len(Ready(o).fed) < MaxFeed
        BY <1>0, <1>2, <1>4, ReadyFacts DEF Room
      <3> QED BY <1>0, <1>2, <3>1, CryptSides
    <2>6. plain' = [plain EXCEPT ![o] = PlainBy(o, x)]
      <3>1. ReadyPlain(o) \in Seq(Chunks \cup {Garbage})
        BY <1>0, <1>2, <1>4, ReadyFacts DEF Plain
      <3>2. PlainBy(o, x) = Append(ReadyPlain(o), PtSide(o, Ready(o), x))
        BY <2>5, <3>1, ItemsAdded DEF PlainBy
      <3> QED BY <1>4, <3>2
    <2>7. ret'.res \in Results
      BY <1>4 DEF Returns, Results
    <2> HIDE DEF r
    <2> QED BY <1>1, <1>2, <1>4, <2>3, <2>4, <2>6, <2>7, OpCall
  <1> QED BY <1>3, <1>4 DEF TEE_AEUpdate, FedBy

\* The handle after either final: the chunk absorbed and the hash finished.
LEMMA FinalHandle ==
  ASSUME Inv, NEW o \in Ops, op[o].live, op[o].kind[2] = "GCM",
         op[o].state >= GCM_ST_INIT, Room(o), NEW x \in Deliverable(o) \cup {Empty},
         NEW st \in GCM_ST_AAD..GCM_ST_FINAL,
         NEW p \in Plain, Lib = "mbed" => p = PlainBy(o, x)
  PROVE  /\ HandleInv([op[o] EXCEPT !.gcm = Finished(FedBy(o, x)), !.state = st], p)
         /\ Finished(FedBy(o, x)).key = Ready(o).key
         /\ Finished(FedBy(o, x)).iv = Ready(o).iv
         /\ Finished(FedBy(o, x)).aad = Ready(o).aad
  <1> DEFINE g == FedBy(o, x)
             f == Finished(g)
  <1>0. HandleInv(op[o], plain[o])
    BY DEF Inv, HandlesInv
  <1>1. /\ g \in GcmCtx /\ g.set /\ g.key = Ready(o).key /\ g.aad = Ready(o).aad
        /\ g.iv = Ready(o).iv /\ g.iv = op[o].aeiv
        /\ Lib = "mbed" => Opens(g.key, g.iv, g.fed, p)
    BY FeedFacts
  <1> HIDE DEF g
  <1>2. /\ f \in GcmCtx /\ f.set = g.set /\ f.key = g.key /\ f.iv = g.iv /\ f.aad = g.aad
        /\ Lib = "mbed" => Opens(g.key, g.iv, f.fed, p)
    BY <1>1, FinishedType
  <1> HIDE DEF f
  <1>3. HandleInv([op[o] EXCEPT !.gcm = f, !.state = st], p)
    BY <1>0, <1>1, <1>2, GcmHandle
  <1> QED BY <1>1, <1>2, <1>3 DEF f, g

\* TEE_AEEncryptFinal: what is sealed opens to what the handle was fed.
LEMMA AEEncryptFinalInv ==
  ASSUME Inv, GivenInv, NEW o \in Ops, NEW x \in Deliverable(o) \cup {Empty},
         TEE_AEEncryptFinal(o, x)
  PROVE  Inv'
  <1>0. op[o] \in OpRec /\ op \in [Ops -> OpRec] /\ plain \in [Ops -> Plain]
    BY DEF Inv, HandlesInv
  <1>1. op[o].live /\ op[o].kind[2] = "GCM" /\ UNCHANGED <<ta, obj, keys>>
    BY DEF TEE_AEEncryptFinal, Live, Alg
  <1>2. CASE AENotStarted(o, "AEEncryptFinal")
    <2>1. ret'.res \in Results /\ UNCHANGED <<op, sealed, plain>>
      BY <1>2 DEF AENotStarted, Returns, Results
    <2> QED BY <1>1, <2>1, RefusedCall
  <1> DEFINE g == Ready(o)
             m == [msg |-> Message(o, PlainBy(o, x)), tag |-> EncryptTag(o, g, x)]
  <1>3. CASE /\ op[o].state >= GCM_ST_INIT /\ Room(o)
             /\ op' = [op EXCEPT ![o].gcm = Finished(FedBy(o, x)),
                                 ![o].state = GCM_ST_FINAL]
             /\ plain' = [plain EXCEPT ![o] = PlainBy(o, x)]
             /\ sealed' = sealed \cup {m}
             /\ Returns("AEEncryptFinal", o, "SUCCESS", << >>)
    <2> DEFINE r == [op[o] EXCEPT !.gcm = Finished(FedBy(o, x)), !.state = GCM_ST_FINAL]
    <2>1. GCM_ST_FINAL \in GCM_ST_AAD..GCM_ST_FINAL
      BY DEF GCM_ST_AAD, GCM_ST_FINAL
    <2>2. /\ PlainBy(o, x) \in Plain /\ FedBy(o, x).key = g.key /\ FedBy(o, x).iv = g.iv
          /\ Lib = "mbed" =>
               Opens(FedBy(o, x).key, FedBy(o, x).iv, FedBy(o, x).fed, PlainBy(o, x))
      BY <1>1, <1>3, FeedFacts
    <2>3. HandleInv(r, PlainBy(o, x))
      BY <1>1, <1>3, <2>1, <2>2, FinalHandle
    <2>4. op' = [op EXCEPT ![o] = r]
      BY <1>0, <1>3 DEF OpRec
    <2>given. g.key = given[o].mkey /\ g.iv = given[o].iv /\ g.aad = given[o].aad
      BY <1>1, <1>3, ReadyGiven DEF Inv
    <2>5. ASSUME Lib = "mbed"
          PROVE  /\ m.tag = [key |-> m.msg.key, iv |-> m.msg.iv, aad |-> m.msg.aad,
                             ct |-> m.tag.ct]
                 /\ m.msg.pt = PlainBy(o, x) /\ m.msg.key = g.key /\ m.msg.iv = g.iv
                 /\ m.tag.ct = FedBy(o, x).fed
      BY <2>5, <2>given DEF EncryptTag, GcmTag, FedBy, Message
    <2> HIDE DEF m
    <2>6. SealedOpens'
      BY <1>3, <2>2, <2>5 DEF Inv, SealedOpens
    <2>7. ret'.res \in Results
      BY <1>3 DEF Returns, Results
    <2> HIDE DEF r
    <2> QED BY <1>1, <1>3, <2>3, <2>4, <2>6, <2>7, OpCall
  <1> QED BY <1>2, <1>3 DEF TEE_AEEncryptFinal, FedBy, PlainBy

\* TEE_AEDecryptFinal, whether or not the tag is right.
LEMMA AEDecryptFinalInv ==
  ASSUME Inv, NEW o \in Ops, NEW x \in Deliverable(o) \cup {Empty}, NEW tag,
         TEE_AEDecryptFinal(o, x, tag)
  PROVE  Inv'
  <1>0. op[o] \in OpRec /\ op \in [Ops -> OpRec] /\ plain \in [Ops -> Plain] /\ HandlesInv
    BY DEF Inv, HandlesInv
  <1>1. op[o].live /\ op[o].kind[2] = "GCM" /\ UNCHANGED <<ta, obj, keys>>
    BY DEF TEE_AEDecryptFinal, Live, Alg
  <1>2. CASE AENotStarted(o, "AEDecryptFinal")
    <2>1. ret'.res \in Results /\ UNCHANGED <<op, sealed, plain>>
      BY <1>2 DEF AENotStarted, Returns, Results
    <2> QED BY <1>1, <2>1, RefusedCall
  <1> DEFINE ok == tag = DecryptTag(o, Ready(o), x)
             st == IF ok THEN GCM_ST_FINAL ELSE ReadyState(o)
             p == ReadyPlain(o) \o (IF ok \/ Lib = "mbed"
                                    THEN Items(x, PtSide(o, Ready(o), x)) ELSE << >>)
  <1>3. CASE /\ op[o].state >= GCM_ST_INIT /\ Room(o)
             /\ op' = [op EXCEPT ![o].gcm = Finished(FedBy(o, x)), ![o].state = st]
             /\ plain' = [plain EXCEPT ![o] = p]
             /\ \/ Returns("AEDecryptFinal", o, "SUCCESS", Message(o, p))
                \/ Returns("AEDecryptFinal", o, "MAC_INVALID", << >>)
             /\ UNCHANGED sealed
    <2> DEFINE r == [op[o] EXCEPT !.gcm = Finished(FedBy(o, x)), !.state = st]
    <2>1. st \in GCM_ST_AAD..GCM_ST_FINAL
      <3>1. GCM_ST_FINAL \in GCM_ST_AAD..GCM_ST_FINAL
        BY DEF GCM_ST_AAD, GCM_ST_FINAL
      <3>2. ReadyState(o) \in GCM_ST_AAD..GCM_ST_FINAL
        BY <1>0, <1>1, <1>3, ReadyFacts
      <3> QED BY <3>1, <3>2
    <2>2. p \in Plain /\ (Lib = "mbed" => p = PlainBy(o, x))
      <3>1. PlainBy(o, x) \in Plain
        BY <1>1, <1>3, FeedFacts
      <3>2. ReadyPlain(o) \in Plain
        BY <1>0, <1>1, <1>3, ReadyFacts
      <3>3. ReadyPlain(o) \o << >> = ReadyPlain(o)
        BY <3>2 DEF Plain
      <3> QED BY <3>1, <3>2, <3>3 DEF PlainBy
    <2>3. op' = [op EXCEPT ![o] = r]
      BY <1>0, <1>3 DEF OpRec
    <2> HIDE DEF st, p
    <2>4. HandleInv(r, p)
      BY <1>1, <1>3, <2>1, <2>2, FinalHandle
    <2>5. ret'.res \in Results
      BY <1>3 DEF Returns, Results
    <2>6. SealedOpens'
      BY <1>3 DEF Inv, SealedOpens
    <2> HIDE DEF r
    <2> QED BY <1>1, <1>3, <2>3, <2>4, <2>5, <2>6, OpCall
  <1> QED BY <1>2, <1>3 DEF TEE_AEDecryptFinal, FedBy

\* TEE_CipherInit, TEE_CipherUpdate and TEE_CipherDoFinal.
LEMMA CipherInv ==
  ASSUME Inv, NEW o \in Ops,
         \/ \E n \in Nonces : TEE_CipherInit(o, n)
         \/ \E x \in CbcInput(o) \cup {Empty}, tail \in BOOLEAN :
               TEE_CipherUpdate(o, x, tail)
  PROVE  Inv'
  <1>0. HandleInv(op[o], plain[o]) /\ op[o] \in OpRec /\ op \in [Ops -> OpRec]
        /\ plain \in [Ops -> Plain] /\ plain[o] \in Plain /\ keys \in Keys
    BY DEF Inv, HandlesInv, Rest
  <1>1. ASSUME UNCHANGED sealed PROVE SealedOpens'
    BY <1>1 DEF Inv, SealedOpens
  <1>2. ASSUME NEW n \in Nonces, TEE_CipherInit(o, n) PROVE Inv'
    <2>1. CASE TEE_Panic("CipherInit")
      BY <2>1, PanicInv
    <2> DEFINE r == [op[o] EXCEPT !.cbc = CbcStart(op[o].aekey, n)]
    <2>2. CASE /\ Alg(o) = "CBC"
               /\ op' = [op EXCEPT ![o].cbc = CbcStart(op[o].aekey, n)]
               /\ plain' = [plain EXCEPT ![o] = << >>]
               /\ Returns("CipherInit", o, "SUCCESS", << >>)
               /\ UNCHANGED <<ta, obj, keys, sealed, signed>>
      <3>1. op[o].live /\ op[o].kind[2] = "CBC"
        BY <1>2, <2>2 DEF TEE_CipherInit, Live, Alg
      <3>2. HandleInv(r, << >>)
        BY <1>0, <3>1, CbcStartHandle
      <3>3. op' = [op EXCEPT ![o] = r] /\ ret'.res \in Results
        BY <1>0, <2>2 DEF Returns, Results
      <3> HIDE DEF r
      <3> QED BY <1>1, <2>2, <3>2, <3>3, OpCall
    <2> QED BY <1>2, <2>1, <2>2 DEF TEE_CipherInit
  <1>3. ASSUME NEW z \in CbcInput(o) \cup {Empty}, NEW tail \in BOOLEAN,
               TEE_CipherUpdate(o, z, tail)
        PROVE  Inv'
    <2> DEFINE c == op[o].cbc
    <2>0. op[o].live /\ op[o].kind[2] = "CBC"
      BY <1>3 DEF TEE_CipherUpdate, Live, Alg
    <2>1. CASE TEE_Panic("CipherUpdate")
      BY <2>1, PanicInv
    <2>2. CASE /\ ~c.set
               /\ plain' = [plain EXCEPT ![o] = Append(@, Garbage)]
               /\ Returns("CipherUpdate", o, "SUCCESS", << >>)
               /\ UNCHANGED <<ta, op, obj, keys, sealed, signed>>
      <3>1. Append(plain[o], Garbage) \in Plain
        BY <1>0 DEF Plain
      <3>2. op[o].kind[1] # "DIGEST"
        BY <1>0, <2>0 DEF OpRec, AllKinds
      <3>3. HandleInv(op[o], Append(plain[o], Garbage))
        BY <1>0, <2>0, <2>2, <3>1, <3>2
           DEF HandleInv, HandleType, CbcFaithful, DigestFed, GcmOpens
      <3>4. op' = [op EXCEPT ![o] = op[o]] /\ ret'.res \in Results
            /\ plain' = [plain EXCEPT ![o] = Append(plain[o], Garbage)]
        BY <1>0, <2>2 DEF Returns, Results
      <3> QED BY <1>1, <2>2, <3>3, <3>4, OpCall
    <2>3. ASSUME NEW x \in CbcInput(o), x # Empty, c.set,
                 op' = [op EXCEPT ![o].cbc.prev = CbcNext(o, c, x)],
                 plain' = [plain EXCEPT ![o] = @ \o Items(x, CbcPlain(o, c, x))],
                 ret'.res \in Results, UNCHANGED <<ta, obj, keys, sealed, signed>>
          PROVE  Inv'
      <3> DEFINE b == CbcNext(o, c, x)
                 y == CbcPlain(o, c, x)
                 r == [op[o] EXCEPT !.cbc.prev = b]
      <3>1. c \in CbcCtx
        BY <1>0 DEF OpRec
      <3>2. Garbage \notin Range(plain[o]) =>
               c.prev = [key |-> c.key, iv |-> c.iv, chain |-> plain[o]]
        BY <1>0, <2>0, <2>3 DEF HandleInv, CbcFaithful
      <3>3. ASSUME Mode(o) = "ENCRYPT" PROVE HandleInv(r, Append(plain[o], y))
        <4>1. x \in Chunks /\ y = x /\ b = CbcEncrypt(c, x)
          BY <2>3, <3>3 DEF CbcInput, CbcNext, CbcPlain
        <4>2. c.prev \in CbcChain
          BY <1>0, <2>3, <3>3 DEF HandleInv, CbcOnly, Mode
        <4>3. c.prev.chain \in Plain /\ c.key \in Keys /\ c.iv \in Nonces \cup {NoNonce}
          BY <3>1, <4>2 DEF CbcChain, CbcCtx
        <4>4. Append(c.prev.chain, x) \in Plain
          BY <4>1, <4>3 DEF Plain
        <4>5. b \in CbcChain /\ b \in CbcBlock
          BY <4>1, <4>3, <4>4 DEF CbcEncrypt, CbcChain, CbcBlock, Plain
        <4>6. Garbage \notin Range(plain[o]) =>
                 b = [key |-> c.key, iv |-> c.iv, chain |-> Append(plain[o], y)]
          <5> SUFFICES ASSUME Garbage \notin Range(plain[o])
                       PROVE  b = [key |-> c.key, iv |-> c.iv, chain |-> Append(plain[o], y)]
            OBVIOUS
          <5>1. c.prev.chain = plain[o]
            BY <3>2
          <5>2. b = [key |-> c.key, iv |-> c.iv, chain |-> Append(c.prev.chain, x)]
            BY <4>1 DEF CbcEncrypt
          <5> HIDE DEF b, c, y
          <5> QED BY <4>1, <5>1, <5>2
        <4> HIDE DEF b, y
        <4>7. HandleInv(r, Append(plain[o], y))
          BY <1>0, <2>0, <2>3, <4>1, <4>5, <4>6, CbcNextHandle
        <4> QED BY <4>7
      <3>4. ASSUME Mode(o) # "ENCRYPT" PROVE HandleInv(r, Append(plain[o], y))
        <4>1. b = x /\ y = CbcDecrypt(c, x)
          BY <2>3, <3>4 DEF CbcNext, CbcPlain
        <4>2. \/ x = Garbage
              \/ x \in CbcChain /\ x.chain \in Seq(Chunks) /\ x.chain # << >>
          <5>1. CASE x = Garbage
            BY <5>1
          <5>2. CASE x \in [key : 1..keys, iv : Nonces,
                            chain : UNION {[1..n -> Chunks] : n \in 1..MaxFeed}]
            <6>1. PICK n \in 1..MaxFeed : x.chain \in [1..n -> Chunks]
              BY <5>2
            <6>2. x.chain \in Seq(Chunks) /\ Len(x.chain) = n /\ n > 0
              BY <6>1, SeqDef
            <6>3. x.chain # << >> /\ x.chain \in Plain
              BY <6>2 DEF Plain
            <6>4. 1..keys \subseteq Keys
              BY <1>0 DEF Keys
            <6>5. x \in CbcChain
              BY <5>2, <6>3, <6>4 DEF CbcChain
            <6> QED BY <6>2, <6>3, <6>5
          <5> QED BY <2>3, <3>4, <5>1, <5>2 DEF CbcInput
        <4>3. x \in CbcBlock
          BY <4>2 DEF CbcBlock, CbcChain, Plain
        <4>4. /\ y \in Chunks \cup {Garbage}
              /\ (y # Garbage /\ Garbage \notin Range(plain[o])) =>
                    b = [key |-> c.key, iv |-> c.iv, chain |-> Append(plain[o], y)]
          BY <1>0, <3>2, <4>1, <4>2, CbcDecrypted
        <4>5. op[o].kind[1] # "ENCRYPT"
          BY <3>4 DEF Mode
        <4> HIDE DEF b, y
        <4>6. HandleInv(r, Append(plain[o], y))
          BY <1>0, <2>0, <2>3, <4>1, <4>3, <4>4, <4>5, CbcNextHandle
        <4> QED BY <4>6
      <3>5. /\ op' = [op EXCEPT ![o] = r] /\ ret'.res \in Results
            /\ plain' = [plain EXCEPT ![o] = Append(plain[o], y)]
        <4>1. plain[o] \o Items(x, y) = Append(plain[o], y)
          BY <1>0, <2>3, ItemsAdded DEF Plain
        <4>2. plain' = [plain EXCEPT ![o] = plain[o] \o Items(x, y)]
          BY <1>0, <2>3
        <4>3. op' = [op EXCEPT ![o] = r] /\ ret'.res \in Results
          BY <1>0, <2>3
        <4> QED BY <4>1, <4>2, <4>3
      <3> HIDE DEF r, y
      <3> QED BY <1>1, <2>3, <3>3, <3>4, <3>5, OpCall
    <2>4. ASSUME c.set, op' = [op EXCEPT ![o].cbc.prev = CbcNext(o, c, Empty)],
                 NEW y, plain' = [plain EXCEPT ![o] = @ \o Items(Empty, y)],
                 ret'.res \in Results, UNCHANGED <<ta, obj, keys, sealed, signed>>
          PROVE  Inv'
      <3>1. plain[o] \o Items(Empty, y) = plain[o]
        BY <1>0, ItemsAdded DEF Plain
      <3>2. CbcNext(o, c, Empty) = c.prev
        BY DEF CbcNext
      <3>3. op[o].cbc \in CbcCtx
        BY <1>0 DEF OpRec
      <3>4. [op[o] EXCEPT !.cbc.prev = c.prev] = op[o]
        BY <1>0, <3>3 DEF OpRec, CbcCtx
      <3>5. op' = [op EXCEPT ![o] = op[o]] /\ plain' = [plain EXCEPT ![o] = plain[o]]
        BY <1>0, <2>4, <3>1, <3>2, <3>4
      <3> QED BY <1>0, <1>1, <2>4, <3>5, OpCall
    <2>5. CASE /\ c.set
               /\ \E t \in CbcTaken(z, tail) :
                     /\ op' = [op EXCEPT ![o].cbc.prev = CbcNext(o, c, t)]
                     /\ plain' = [plain EXCEPT ![o] = @ \o Items(t, CbcPlain(o, c, t))]
               /\ Returns("CipherUpdate", o, "SUCCESS", << >>)
               /\ UNCHANGED <<ta, obj, keys, sealed, signed, given>>
      <3>1. PICK t \in CbcTaken(z, tail) :
              /\ op' = [op EXCEPT ![o].cbc.prev = CbcNext(o, c, t)]
              /\ plain' = [plain EXCEPT ![o] = @ \o Items(t, CbcPlain(o, c, t))]
        BY <2>5
      <3>2. t \in CbcInput(o) \cup {Empty}
        BY DEF CbcTaken
      <3>3. ret'.res \in Results
        BY <2>5 DEF Returns, Results
      <3> QED BY <2>3, <2>4, <2>5, <3>1, <3>2, <3>3
    <2> QED BY <1>3, <2>1, <2>2, <2>5 DEF TEE_CipherUpdate
  <1> QED BY <1>2, <1>3

\* The digest calls.
LEMMA DigestInv ==
  ASSUME Inv, NEW o \in Ops,
         \/ \E x \in Chunks : TEE_DigestUpdate(o, x)
         \/ \E x \in Chunks \cup {Empty} : DigestShortBuffer(o, x) \/ TEE_DigestDoFinal(o, x)
  PROVE  Inv'
  <1>0. HandleInv(op[o], plain[o]) /\ op[o] \in OpRec /\ op \in [Ops -> OpRec]
        /\ plain \in [Ops -> Plain] /\ plain[o] \in Plain
    BY DEF Inv, HandlesInv
  <1>1. ASSUME UNCHANGED sealed PROVE SealedOpens'
    BY <1>1 DEF Inv, SealedOpens
  <1>2. op[o].sha \in Seq(Chunks \cup {FIN})
    BY <1>0 DEF OpRec
  <1>3. (Lib = "wolf" /\ op[o].live /\ op[o].kind[1] = "DIGEST") => op[o].sha = plain[o]
    BY <1>0 DEF HandleInv, DigestFed
  <1>4. ASSUME NEW x \in Chunks, TEE_DigestUpdate(o, x) PROVE Inv'
    <2>1. CASE TEE_Panic("DigestUpdate")
      BY <2>1, PanicInv
    <2> DEFINE h == Append(op[o].sha, x)
               r == [op[o] EXCEPT !.sha = h]
    <2>2. CASE /\ Mode(o) = "DIGEST"
               /\ op' = [op EXCEPT ![o].sha = Append(@, x)]
               /\ plain' = [plain EXCEPT ![o] = Append(@, x)]
               /\ Returns("DigestUpdate", o, "SUCCESS", << >>)
               /\ UNCHANGED <<ta, obj, keys, sealed, signed>>
      <3>1. op[o].live /\ op[o].kind[1] = "DIGEST"
        BY <1>4, <2>2 DEF TEE_DigestUpdate, Live, Mode
      <3>2. h \in Seq(Chunks \cup {FIN}) /\ Append(plain[o], x) \in Plain
        BY <1>0, <1>2 DEF Plain
      <3>3. Lib = "wolf" => h = Append(plain[o], x)
        BY <1>3, <3>1
      <3>4. op' = [op EXCEPT ![o] = r] /\ ret'.res \in Results
            /\ plain' = [plain EXCEPT ![o] = Append(plain[o], x)]
        BY <1>0, <2>2 DEF Returns, Results
      <3> HIDE DEF h
      <3>5. HandleInv(r, Append(plain[o], x))
        BY <1>0, <3>1, <3>2, <3>3, DigestHandle
      <3> HIDE DEF r
      <3> QED BY <1>1, <2>2, <3>4, <3>5, OpCall
    <2> QED BY <1>4, <2>1, <2>2 DEF TEE_DigestUpdate
  <1>5. ASSUME NEW x \in Chunks \cup {Empty}, DigestShortBuffer(o, x) PROVE Inv'
    <2>1. ret'.res \in Results /\ UNCHANGED <<ta, op, obj, keys, sealed, plain>>
      BY <1>5 DEF DigestShortBuffer, Returns, Results
    <2> QED BY <2>1, RefusedCall
  <1>6. ASSUME NEW x \in Chunks \cup {Empty}, TEE_DigestDoFinal(o, x) PROVE Inv'
    <2> DEFINE h == op[o].sha \o Items(x, x)
               a == AfterFinal(h)
               r == [op[o] EXCEPT !.sha = a]
    <2>1. op[o].live /\ op[o].kind[1] = "DIGEST"
      BY <1>6 DEF TEE_DigestDoFinal, Live, Mode
    <2>2. h \in Seq(Chunks \cup {FIN})
      <3>1. h = IF x = Empty THEN op[o].sha ELSE Append(op[o].sha, x)
        BY <1>2, ItemsAdded
      <3>2. x # Empty => x \in Chunks
        OBVIOUS
      <3> HIDE DEF h
      <3> QED BY <1>2, <3>1, <3>2
    <2>3. /\ op' = [op EXCEPT ![o].sha = a]
          /\ plain' = [plain EXCEPT ![o] = << >>] /\ ret'.res \in Results
          /\ UNCHANGED <<ta, obj, keys, sealed>>
      BY <1>6 DEF TEE_DigestDoFinal, Returns, Results
    <2> HIDE DEF h
    <2>4. a \in Seq(Chunks \cup {FIN}) /\ (Lib = "wolf" => a = << >>)
      BY <2>2 DEF AfterFinal
    <2> HIDE DEF a
    <2>5. HandleInv(r, << >>)
      BY <1>0, <2>1, <2>4, FreshTypes, DigestHandle
    <2>6. op' = [op EXCEPT ![o] = r]
      BY <1>0, <2>3
    <2> HIDE DEF r
    <2> QED BY <1>1, <2>3, <2>5, <2>6, OpCall
  <1> QED BY <1>4, <1>5, <1>6

\* The signature calls.
LEMMA SignInv ==
  ASSUME Inv, NEW o \in Ops, NEW d \in Chunks,
         \/ TEE_AsymmetricSignDigest(o, d)
         \/ \E sig \in {s.sig : s \in signed} \cup {Garbage} :
               TEE_AsymmetricVerifyDigest(o, d, sig)
  PROVE  Inv'
  <1>1. UNCHANGED <<ta, op, obj, keys, sealed, plain>>
    BY DEF TEE_AsymmetricSignDigest, TEE_AsymmetricVerifyDigest
  <1>2. ret'.res \in Results
    <2>1. \A k, e, sig : VerifyResult(k, e, sig) \in Results
      BY DEF VerifyResult, Results
    <2> QED BY <2>1 DEF TEE_AsymmetricSignDigest, TEE_AsymmetricVerifyDigest, Returns, Results
  <1> QED BY <1>1, <1>2, RefusedCall

\* The initial state.
LEMMA InitInv == Init => Inv
  <1> SUFFICES ASSUME Init PROVE Inv
    OBVIOUS
  <1>1. HandlesInv
    BY HeapFresh DEF Init, HandlesInv
  <1>2. Rest
    BY FreshTypes DEF Init, Rest, FreedObj, ObjRec, Results, ZeroKey
  <1>3. SealedOpens
    BY DEF Init, SealedOpens
  <1> QED BY <1>1, <1>2, <1>3 DEF Inv

\* Every step preserves the invariant.
LEMMA StepInv == Inv /\ GivenInv /\ [Next]_vars => Inv'
  <1> SUFFICES ASSUME Inv, GivenInv, [Next]_vars PROVE Inv'
    OBVIOUS
  <1>1. CASE UNCHANGED vars
    BY <1>1, HandlesKept DEF vars, Inv, Rest
  <1>2. CASE Restart
    <2>1. ret'.res \in Results /\ UNCHANGED <<op, obj, keys, sealed, plain>> /\ ta' = "run"
      BY <1>2 DEF Restart, Returns, Results
    <2> QED BY <2>1, HandlesKept DEF Inv, Rest
  <1>3. CASE Refused
    <2>1. ret'.res \in Results /\ UNCHANGED <<ta, op, obj, keys, sealed, plain>>
      BY <1>3 DEF Refused, Returns, Results
    <2> QED BY <2>1, RefusedCall
  <1>4. CASE RefusedPanic
    BY <1>4, PanicInv DEF RefusedPanic
  <1>5. CASE \E b \in Objs :
               \/ \E type \in Types : TEE_AllocateTransientObject(b, type)
               \/ TEE_GenerateKey(b) \/ TEE_FreeTransientObject(b)
    BY <1>5, ObjectInv
  <1>6. ASSUME NEW o \in Ops,
               \/ \E kind \in Kinds : TEE_AllocateOperation(o, kind)
               \/ TEE_FreeOperation(o)
               \/ \E b \in Objs : TEE_SetOperationKey(o, b)
        PROVE  Inv'
    BY <1>6, LifeInv
  <1>7. ASSUME NEW o \in Ops,
               \/ \E n \in Nonces : TEE_AEInit(o, n)
               \/ \E aad \in Aads \cup {Empty} : TEE_AEUpdateAAD(o, aad)
        PROVE  Inv'
    BY <1>7, AEStartInv
  <1>8. ASSUME NEW o \in Ops,
               \/ \E x \in Deliverable(o) : TEE_AEUpdate(o, x)
               \/ \E x \in Deliverable(o) \cup {Empty} :
                     \/ TEE_AEEncryptFinal(o, x)
                     \/ \E tag \in {m.tag : m \in sealed} \cup {Garbage} :
                           TEE_AEDecryptFinal(o, x, tag)
        PROVE  Inv'
    BY <1>8, AEUpdateInv, AEEncryptFinalInv, AEDecryptFinalInv
  <1>9. ASSUME NEW o \in Ops,
               \/ \E n \in Nonces : TEE_CipherInit(o, n)
               \/ \E x \in CbcInput(o) \cup {Empty}, tail \in BOOLEAN :
                     TEE_CipherUpdate(o, x, tail) \/ TEE_CipherDoFinal(o, x, tail)
        PROVE  Inv'
    BY <1>9, CipherInv DEF TEE_CipherDoFinal
  <1>10. ASSUME NEW o \in Ops,
               \/ \E x \in Chunks : TEE_DigestUpdate(o, x)
               \/ \E x \in Chunks \cup {Empty} :
                     DigestShortBuffer(o, x) \/ TEE_DigestDoFinal(o, x)
        PROVE  Inv'
    BY <1>10, DigestInv
  <1>11. ASSUME NEW o \in Ops, NEW d \in Chunks,
               \/ TEE_AsymmetricSignDigest(o, d)
               \/ \E sig \in {s.sig : s \in signed} \cup {Garbage} :
                     TEE_AsymmetricVerifyDigest(o, d, sig)
        PROVE  Inv'
    BY <1>11, SignInv
  <1> QED
    BY <1>1, <1>2, <1>3, <1>4, <1>5, <1>6, <1>7, <1>8, <1>9, <1>10, <1>11 DEF Next

(***************************************************************************)
(* What the handles keep is what they were given.                          *)
(***************************************************************************)

\* One handle is given something.
LEMMA GivenStep ==
  ASSUME HandlesInv, GivenInv, NEW o \in Ops, NEW r, NEW h, GivenFits(r, h),
         op' = [op EXCEPT ![o] = r], given' = [given EXCEPT ![o] = h]
  PROVE  GivenInv'
  <1>1. h \in GivenRec
    BY DEF GivenFits
  <1>2. given' \in [Ops -> GivenRec]
    BY <1>1 DEF GivenInv
  <1>3. ASSUME NEW q \in Ops PROVE GivenFits(op'[q], given'[q])
    <2>1. CASE q = o
      BY <2>1 DEF HandlesInv, GivenInv
    <2>2. CASE q # o
      <3>1. op'[q] = op[q] /\ given'[q] = given[q]
        BY <2>2 DEF HandlesInv, GivenInv
      <3> QED BY <3>1 DEF GivenInv
    <2> QED BY <2>1, <2>2
  <1> QED BY <1>2, <1>3 DEF GivenInv

\* A call that gives no handle anything and leaves their contexts alone.
LEMMA GivenKept ==
  ASSUME GivenInv, UNCHANGED <<op, given>> PROVE GivenInv'
  BY DEF GivenInv

\* Nothing is given to a handle that has just been allocated or freed.
LEMMA NothingFits ==
  /\ NothingGiven \in GivenRec
  /\ \A kind \in AllKinds, keySet \in BOOLEAN, state \in 0..4 :
        (kind[1] # "DIGEST" => ~keySet /\ state = 0) =>
            GivenFits(NewOp(kind, keySet, state), NothingGiven)
  /\ GivenFits(FreedOp, NothingGiven)
  <1>1. NothingGiven \in GivenRec /\ NothingGiven.key = ZeroKey /\ NothingGiven.pair = ZeroKey
    BY FreshTypes DEF NothingGiven, GivenRec, ZeroKey, NoNonce
  <1>2. ASSUME NEW kind \in AllKinds, NEW keySet \in BOOLEAN, NEW state \in 0..4,
               kind[1] # "DIGEST" => ~keySet /\ state = 0
        PROVE  GivenFits(NewOp(kind, keySet, state), NothingGiven)
    <2> DEFINE r == NewOp(kind, keySet, state)
    <2>1. /\ r.kind = kind /\ r.state = state /\ r.cbc = NoCbc
          /\ r.aekey = ZeroKey /\ r.sigkey = ZeroKey
      BY DEF NewOp
    <2>2. kind[2] = "GCM" => state = 0
      BY <1>2 DEF AllKinds
    <2> HIDE DEF r
    <2>3. GivenFits(r, NothingGiven)
      BY <1>1, <2>1, <2>2, FreshTypes
         DEF GivenFits, GcmGiven, CbcGiven, GCM_ST_INIT, GCM_ST_AAD
    <2> QED BY <2>3 DEF r
  <1>3. GivenFits(FreedOp, NothingGiven)
    <2>1. /\ ~FreedOp.live /\ FreedOp.cbc = NoCbc
          /\ FreedOp.aekey = ZeroKey /\ FreedOp.sigkey = ZeroKey
      BY DEF FreedOp, NewOp
    <2> QED BY <1>1, <2>1, FreshTypes DEF GivenFits, GcmGiven, CbcGiven
  <1> QED BY <1>1, <1>2, <1>3

\* Nor to the handles of a new instance.
LEMMA GivenFresh ==
  ASSUME NEW f, f = [o \in Ops |-> FreedOp], NEW h, h = [o \in Ops |-> NothingGiven]
  PROVE  /\ h \in [Ops -> GivenRec] /\ \A o \in Ops : GivenFits(f[o], h[o])
  BY NothingFits

LEMMA GivenPanic == ASSUME NEW c, TEE_Panic(c) PROVE GivenInv'
  BY GivenFresh DEF TEE_Panic, GivenInv

\* A handle that keeps its keys and what its contexts were started with.
LEMMA FitsKept ==
  ASSUME NEW r, NEW q, NEW h, GivenFits(r, h),
         q.aekey = r.aekey, q.sigkey = r.sigkey, q.live = r.live, q.kind = r.kind,
         q.state = r.state, q.aeiv = r.aeiv, q.gcm = r.gcm,
         q.cbc.set = r.cbc.set, q.cbc.key = r.cbc.key, q.cbc.iv = r.cbc.iv
  PROVE  GivenFits(q, h)
  BY DEF GivenFits, GcmGiven, CbcGiven

\* TEE_AllocateOperation, TEE_FreeOperation and TEE_SetOperationKey.
LEMMA LifeGiven ==
  ASSUME Inv, GivenInv, NEW o \in Ops,
         \/ \E kind \in Kinds : TEE_AllocateOperation(o, kind)
         \/ TEE_FreeOperation(o)
         \/ \E b \in Objs : TEE_SetOperationKey(o, b)
  PROVE  GivenInv'
  <1>0. HandlesInv /\ op \in [Ops -> OpRec] /\ op[o] \in OpRec /\ obj \in [Objs -> ObjRec]
        /\ given \in [Ops -> GivenRec] /\ given[o] \in GivenRec /\ GivenFits(op[o], given[o])
    BY DEF Inv, HandlesInv, Rest, GivenInv
  <1>1. CASE \E kind \in Kinds : TEE_AllocateOperation(o, kind)
    <2>1. PICK kind \in Kinds : TEE_AllocateOperation(o, kind)
      BY <1>1
    <2>2. PICK keySet \in BOOLEAN, state \in 0..4 :
            /\ kind[1] # "DIGEST" => ~keySet /\ state = 0
            /\ op' = [op EXCEPT ![o] = NewOp(kind, keySet, state)]
      BY <2>1 DEF TEE_AllocateOperation
    <2>3. kind \in AllKinds /\ given' = [given EXCEPT ![o] = NothingGiven]
      BY <2>1 DEF TEE_AllocateOperation
    <2>4. GivenFits(NewOp(kind, keySet, state), NothingGiven)
      BY <2>2, <2>3, NothingFits
    <2> QED BY <1>0, <2>2, <2>3, <2>4, GivenStep
  <1>2. CASE TEE_FreeOperation(o)
    <2>1. op' = [op EXCEPT ![o] = FreedOp] /\ given' = [given EXCEPT ![o] = NothingGiven]
      BY <1>2 DEF TEE_FreeOperation
    <2> QED BY <1>0, <2>1, NothingFits, GivenStep
  <1>3. CASE \E b \in Objs : TEE_SetOperationKey(o, b)
    <2>1. PICK b \in Objs : TEE_SetOperationKey(o, b)
      BY <1>3
    <2> DEFINE a == AesKeyCopied(o, b)
               s == PairCopied(o, b)
               r == [op[o] EXCEPT !.keySet = TRUE, !.aekey = a, !.sigkey = s]
               h == IF obj[b].type = "AES"
                    THEN [given[o] EXCEPT !.key = obj[b].key]
                    ELSE [given[o] EXCEPT !.pair = obj[b].key]
    <2>2. op' = [op EXCEPT ![o] = r] /\ given' = [given EXCEPT ![o] = h]
      BY <1>0, <2>1 DEF TEE_SetOperationKey, OpRec
    <2>3. obj[b].key \in Keys
      BY <1>0 DEF ObjRec
    <2>4. /\ h \in GivenRec /\ h.key = a /\ h.pair = s /\ h.mkey = given[o].mkey
          /\ h.iv = given[o].iv /\ h.aad = given[o].aad
      BY <1>0, <2>3 DEF GivenRec, GivenFits, AesKeyCopied, PairCopied
    <2> HIDE DEF a, s, h
    <2>5. /\ r.aekey = a /\ r.sigkey = s /\ r.live = op[o].live /\ r.kind = op[o].kind
          /\ r.state = op[o].state /\ r.aeiv = op[o].aeiv /\ r.gcm = op[o].gcm
          /\ r.cbc = op[o].cbc
      BY <1>0 DEF OpRec
    <2> HIDE DEF r
    <2>6. GivenFits(r, h)
      BY <1>0, <2>4, <2>5 DEF GivenFits, GcmGiven, CbcGiven
    <2> QED BY <1>0, <2>2, <2>6, GivenStep
  <1> QED BY <1>1, <1>2, <1>3

\* Arguments of TEE_AEInit, TEE_AEUpdateAAD and TEE_CipherInit.
LEMMA GivenTypes ==
  ASSUME NEW h \in GivenRec, NEW n \in Nonces, NEW aad \in Aads \cup {Empty}
  PROVE  /\ [h EXCEPT !.mkey = h.key, !.iv = n, !.aad = Empty, !.aads = << >>] \in GivenRec
         /\ [h EXCEPT !.mkey = h.key, !.iv = n] \in GivenRec
         /\ [h EXCEPT !.aads = << >>] \in GivenRec
  <1>1. << >> \in Seq(Aads)
    OBVIOUS
  <1> QED BY <1>1 DEF GivenRec

LEMMA AadGivenType ==
  ASSUME NEW h \in GivenRec, NEW aad \in Aads \cup {Empty}
  PROVE  [h EXCEPT !.aad = aad, !.aads = @ \o Items(aad, aad)] \in GivenRec
  <1> DEFINE l == h.aads \o Items(aad, aad)
  <1>1. h.aads \in Seq(Aads)
    BY DEF GivenRec
  <1>2. l = IF aad = Empty THEN h.aads ELSE Append(h.aads, aad)
    BY <1>1, ItemsAdded
  <1> HIDE DEF l
  <1>3. l \in Seq(Aads)
    BY <1>1, <1>2
  <1>4. [h EXCEPT !.aad = aad, !.aads = l] \in GivenRec
    BY <1>3 DEF GivenRec
  <1> QED BY <1>4 DEF l

\* TEE_AEInit: the context expands the key that was given last.
LEMMA AEInitGiven ==
  ASSUME Inv, GivenInv, NEW o \in Ops, NEW n \in Nonces, TEE_AEInit(o, n)
  PROVE  GivenInv'
  <1>0. HandlesInv /\ op \in [Ops -> OpRec] /\ op[o] \in OpRec /\ HandleInv(op[o], plain[o])
        /\ given \in [Ops -> GivenRec] /\ given[o] \in GivenRec /\ GivenFits(op[o], given[o])
    BY DEF Inv, HandlesInv, GivenInv
  <1>1. CASE UNCHANGED <<op, given>>
    BY <1>1, GivenKept
  <1>2. CASE TEE_Panic("AEInit")
    BY <1>2, GivenPanic
  <1> DEFINE g == [NoGcm EXCEPT !.set = TRUE, !.key = op[o].aekey]
             r == [op[o] EXCEPT !.gcm = g, !.aeiv = n, !.state = GCM_ST_INIT]
             h == [given[o] EXCEPT !.mkey = given[o].key, !.iv = n,
                                   !.aad = Empty, !.aads = << >>]
  <1>3. CASE /\ op' = [op EXCEPT ![o].gcm = g, ![o].aeiv = n, ![o].state = GCM_ST_INIT]
             /\ given' = [given EXCEPT ![o] = h]
    <2>1. op' = [op EXCEPT ![o] = r]
      BY <1>0, <1>3 DEF OpRec
    <2>2. op[o].live /\ op[o].kind[2] = "GCM"
      BY DEF TEE_AEInit, Live, Alg
    <2>3. ~op[o].cbc.set
      BY <1>0, <2>2 DEF HandleInv, CbcOnly
    <2>4. h \in GivenRec
      BY <1>0, GivenTypes
    <2>5. /\ h.key = given[o].key /\ h.pair = given[o].pair /\ h.mkey = given[o].key
          /\ h.iv = n /\ h.aad = Empty
      BY <1>0 DEF GivenRec
    <2>6. g.key = op[o].aekey
      BY DEF NoGcm
    <2> HIDE DEF g
    <2>7. /\ r.aekey = op[o].aekey /\ r.sigkey = op[o].sigkey /\ r.state = 1
          /\ r.aeiv = n /\ r.gcm = g /\ r.cbc = op[o].cbc
      BY <1>0 DEF OpRec, GCM_ST_INIT
    <2> HIDE DEF r, h
    <2>8. GivenFits(r, h)
      BY <1>0, <2>3, <2>4, <2>5, <2>6, <2>7
         DEF GivenFits, GcmGiven, CbcGiven, GCM_ST_INIT, GCM_ST_AAD
    <2> QED BY <1>0, <1>3, <2>1, <2>8, GivenStep
  <1> QED BY <1>1, <1>2, <1>3 DEF TEE_AEInit

\* TEE_AEUpdateAAD: the context keeps its key and takes the AAD.
LEMMA AadGiven ==
  ASSUME Inv, GivenInv, NEW o \in Ops, NEW aad \in Aads \cup {Empty}, TEE_AEUpdateAAD(o, aad)
  PROVE  GivenInv'
  <1>0. HandlesInv /\ op \in [Ops -> OpRec] /\ op[o] \in OpRec /\ HandleInv(op[o], plain[o])
        /\ given \in [Ops -> GivenRec] /\ given[o] \in GivenRec /\ GivenFits(op[o], given[o])
    BY DEF Inv, HandlesInv, GivenInv
  <1>1. CASE TEE_Panic("AEUpdateAAD")
    BY <1>1, GivenPanic
  <1> DEFINE g == Started(op[o].gcm, op[o].aeiv, aad)
             r == [op[o] EXCEPT !.gcm = g, !.state = GCM_ST_AAD]
             h == [given[o] EXCEPT !.aad = aad, !.aads = @ \o Items(aad, aad)]
             k == IF Mode(o) = "DIGEST" THEN given[o] ELSE h
  <1>2. CASE /\ ~AadRefused(op[o].state)
             /\ op' = [op EXCEPT ![o].gcm = Started(@, op[o].aeiv, aad),
                                 ![o].state = GCM_ST_AAD]
             /\ IF Mode(o) = "DIGEST" THEN UNCHANGED given
                ELSE given' = [given EXCEPT ![o].aad = aad,
                                            ![o].aads = @ \o Items(aad, aad)]
    <2>1. op' = [op EXCEPT ![o] = r]
      BY <1>0, <1>2 DEF OpRec
    <2>2. given' = [given EXCEPT ![o] = k]
      BY <1>0, <1>2 DEF GivenRec
    <2>3. h \in GivenRec
      BY <1>0, AadGivenType
    <2>4. /\ h.key = given[o].key /\ h.pair = given[o].pair /\ h.mkey = given[o].mkey
          /\ h.iv = given[o].iv /\ h.aad = aad
      BY <1>0 DEF GivenRec
    <2>5. g.key = op[o].gcm.key /\ g.aad = aad
      BY DEF Started
    <2> HIDE DEF g
    <2>6. /\ r.aekey = op[o].aekey /\ r.sigkey = op[o].sigkey /\ r.state = 2
          /\ r.live = op[o].live /\ r.kind = op[o].kind
          /\ r.aeiv = op[o].aeiv /\ r.gcm = g /\ r.cbc = op[o].cbc
      BY <1>0 DEF OpRec, GCM_ST_AAD
    <2>7. op[o].state >= GCM_ST_INIT
      <3>1. op[o].state \in 0..4
        BY <1>0 DEF OpRec
      <3> QED BY <1>2, <3>1 DEF AadRefused, GCM_ST_INIT
    <2>8. Mode(o) = "DIGEST" => op[o].kind[2] # "GCM"
      BY <1>0 DEF Mode, OpRec, AllKinds
    <2> HIDE DEF r, h
    <2>9. GivenFits(r, k)
      BY <1>0, <2>3, <2>4, <2>5, <2>6, <2>7, <2>8
         DEF GivenFits, GcmGiven, CbcGiven, GCM_ST_INIT, GCM_ST_AAD
    <2> HIDE DEF k
    <2> QED BY <1>0, <2>1, <2>2, <2>9, GivenStep
  <1> QED BY <1>1, <1>2 DEF TEE_AEUpdateAAD

\* TEE_AEUpdate and the finals go on with the message that was started.
LEMMA FedGiven ==
  ASSUME Inv, GivenInv, NEW o \in Ops, op[o].live, op[o].kind[2] = "GCM",
         op[o].state >= GCM_ST_INIT, NEW g, g.key = Ready(o).key, g.aad = Ready(o).aad,
         NEW st \in GCM_ST_AAD..GCM_ST_FINAL,
         NEW h, h = given[o] \/ h = [given[o] EXCEPT !.aads = << >>],
         op' = [op EXCEPT ![o].gcm = g, ![o].state = st], given' = [given EXCEPT ![o] = h]
  PROVE  GivenInv'
  <1>0. HandlesInv /\ op \in [Ops -> OpRec] /\ op[o] \in OpRec /\ HandleInv(op[o], plain[o])
        /\ given \in [Ops -> GivenRec] /\ given[o] \in GivenRec /\ GivenFits(op[o], given[o])
    BY DEF Inv, HandlesInv, GivenInv
  <1> DEFINE r == [op[o] EXCEPT !.gcm = g, !.state = st]
  <1>1. op' = [op EXCEPT ![o] = r]
    BY <1>0 DEF OpRec
  <1>2. /\ h \in GivenRec /\ h.key = given[o].key /\ h.pair = given[o].pair
        /\ h.mkey = given[o].mkey /\ h.iv = given[o].iv /\ h.aad = given[o].aad
    <2>1. << >> \in Seq(Aads)
      OBVIOUS
    <2> QED BY <1>0, <2>1 DEF GivenRec
  <1>3. g.key = given[o].mkey /\ g.aad = given[o].aad
    BY <1>0, ReadyGiven
  <1>4. st # GCM_ST_INIT
    BY DEF GCM_ST_INIT, GCM_ST_AAD, GCM_ST_FINAL
  <1>5. /\ r.aekey = op[o].aekey /\ r.sigkey = op[o].sigkey /\ r.state = st
        /\ r.aeiv = op[o].aeiv /\ r.gcm = g /\ r.cbc = op[o].cbc
    BY <1>0 DEF OpRec
  <1>6. ~op[o].cbc.set
    BY <1>0 DEF HandleInv, CbcOnly
  <1> HIDE DEF r
  <1>7. GivenFits(r, h)
    BY <1>0, <1>2, <1>3, <1>4, <1>5, <1>6 DEF GivenFits, GcmGiven, CbcGiven
  <1> QED BY <1>0, <1>1, <1>7, GivenStep

LEMMA AEGiven ==
  ASSUME Inv, GivenInv, NEW o \in Ops,
         \/ \E x \in Deliverable(o) : TEE_AEUpdate(o, x)
         \/ \E x \in Deliverable(o) \cup {Empty} :
               \/ TEE_AEEncryptFinal(o, x)
               \/ \E tag \in {m.tag : m \in sealed} \cup {Garbage} :
                     TEE_AEDecryptFinal(o, x, tag)
  PROVE  GivenInv'
  <1>0. HandlesInv /\ given \in [Ops -> GivenRec] /\ op[o].state \in 0..4
    BY DEF Inv, GivenInv, HandlesInv, OpRec
  <1>fin. FinalGiven(o) => given' = [given EXCEPT ![o] = [given[o] EXCEPT !.aads = << >>]]
    BY <1>0 DEF FinalGiven, GivenRec
  <1>1. CASE UNCHANGED <<op, given>>
    BY <1>1, GivenKept
  <1>2. ASSUME NEW x \in Deliverable(o), TEE_AEUpdate(o, x), ~UNCHANGED <<op, given>>
        PROVE  GivenInv'
    <2>1. /\ op[o].live /\ op[o].kind[2] = "GCM" /\ op[o].state >= GCM_ST_INIT /\ Room(o)
          /\ op' = [op EXCEPT ![o].gcm = FedBy(o, x), ![o].state = GCM_ST_ACTIVE]
          /\ UNCHANGED given
      BY <1>2 DEF TEE_AEUpdate, AENotStarted, Live, Alg, FedBy
    <2>2. FedBy(o, x).key = Ready(o).key /\ FedBy(o, x).aad = Ready(o).aad
      BY <2>1, FeedFacts
    <2>3. GCM_ST_ACTIVE \in GCM_ST_AAD..GCM_ST_FINAL
      BY DEF GCM_ST_AAD, GCM_ST_ACTIVE, GCM_ST_FINAL
    <2>4. given' = [given EXCEPT ![o] = given[o]]
      BY <1>0, <2>1
    <2> QED BY <2>1, <2>2, <2>3, <2>4, FedGiven
  <1>3. ASSUME NEW x \in Deliverable(o) \cup {Empty}, ~UNCHANGED <<op, given>>,
               \/ TEE_AEEncryptFinal(o, x)
               \/ \E tag : TEE_AEDecryptFinal(o, x, tag)
        PROVE  GivenInv'
    <2> DEFINE f == Finished(FedBy(o, x))
    <2>1. /\ op[o].live /\ op[o].kind[2] = "GCM" /\ op[o].state >= GCM_ST_INIT /\ Room(o)
          /\ given' = [given EXCEPT ![o] = [given[o] EXCEPT !.aads = << >>]]
      BY <1>3, <1>fin DEF TEE_AEEncryptFinal, TEE_AEDecryptFinal, AENotStarted, Live, Alg
    <2>2. \E st \in {GCM_ST_FINAL, ReadyState(o)} :
             op' = [op EXCEPT ![o].gcm = f, ![o].state = st]
      BY <1>3 DEF TEE_AEEncryptFinal, TEE_AEDecryptFinal, AENotStarted, FedBy
    <2>3. PICK st \in {GCM_ST_FINAL, ReadyState(o)} :
             op' = [op EXCEPT ![o].gcm = f, ![o].state = st]
      BY <2>2
    <2>4. st \in GCM_ST_AAD..GCM_ST_FINAL /\ GCM_ST_FINAL \in GCM_ST_AAD..GCM_ST_FINAL
      <3>1. GCM_ST_FINAL \in GCM_ST_AAD..GCM_ST_FINAL
        BY DEF GCM_ST_AAD, GCM_ST_FINAL
      <3>2. ReadyState(o) \in GCM_ST_AAD..GCM_ST_FINAL
        BY <1>0, <2>1, ReadyFacts
      <3> QED BY <3>1, <3>2
    <2>5. PlainBy(o, x) \in Plain
          /\ (Lib = "mbed" => PlainBy(o, x) = PlainBy(o, x))
      BY <2>1, FeedFacts
    <2>6. f.key = Ready(o).key /\ f.aad = Ready(o).aad
      BY <2>1, <2>4, <2>5, FinalHandle
    <2> HIDE DEF f
    <2> QED BY <2>1, <2>3, <2>4, <2>6, FedGiven
  <1> QED BY <1>1, <1>2, <1>3

\* TEE_CipherInit expands the key that was given last; the updates keep it.
LEMMA CipherGiven ==
  ASSUME Inv, GivenInv, NEW o \in Ops,
         \/ \E n \in Nonces : TEE_CipherInit(o, n)
         \/ \E x \in CbcInput(o) \cup {Empty}, tail \in BOOLEAN :
               TEE_CipherUpdate(o, x, tail)
  PROVE  GivenInv'
  <1>0. HandlesInv /\ op \in [Ops -> OpRec] /\ op[o] \in OpRec /\ HandleInv(op[o], plain[o])
        /\ given \in [Ops -> GivenRec] /\ given[o] \in GivenRec /\ GivenFits(op[o], given[o])
        /\ op[o].cbc \in CbcCtx
    BY DEF Inv, HandlesInv, GivenInv, OpRec
  <1>1. ASSUME NEW n \in Nonces, TEE_CipherInit(o, n) PROVE GivenInv'
    <2>1. CASE TEE_Panic("CipherInit")
      BY <2>1, GivenPanic
    <2> DEFINE c == CbcStart(op[o].aekey, n)
               r == [op[o] EXCEPT !.cbc = c]
               h == [given[o] EXCEPT !.mkey = given[o].key, !.iv = n]
    <2>2. CASE /\ Alg(o) = "CBC" /\ op' = [op EXCEPT ![o].cbc = c]
               /\ given' = [given EXCEPT ![o].mkey = given[o].key, ![o].iv = n]
      <3>1. op' = [op EXCEPT ![o] = r] /\ given' = [given EXCEPT ![o] = h]
        BY <1>0, <2>2 DEF OpRec, GivenRec
      <3>2. h \in GivenRec
        BY <1>0 DEF GivenRec
      <3>3. h.key = given[o].key /\ h.pair = given[o].pair /\ h.mkey = given[o].key /\ h.iv = n
        BY <1>0 DEF GivenRec
      <3>4. c.key = op[o].aekey /\ c.iv = n
        BY DEF CbcStart
      <3> HIDE DEF c
      <3>5. /\ r.aekey = op[o].aekey /\ r.sigkey = op[o].sigkey
            /\ r.kind = op[o].kind /\ r.cbc = c
        BY <1>0 DEF OpRec
      <3>6. op[o].kind[2] # "GCM"
        BY <2>2 DEF Alg
      <3> HIDE DEF r, h
      <3>7. GivenFits(r, h)
        BY <1>0, <3>2, <3>3, <3>4, <3>5, <3>6 DEF GivenFits, GcmGiven, CbcGiven
      <3> QED BY <1>0, <3>1, <3>7, GivenStep
    <2> QED BY <1>1, <2>1, <2>2 DEF TEE_CipherInit
  <1>2. ASSUME NEW x, NEW tail, TEE_CipherUpdate(o, x, tail) PROVE GivenInv'
    <2>1. CASE TEE_Panic("CipherUpdate")
      BY <2>1, GivenPanic
    <2>2. CASE UNCHANGED <<op, given>>
      BY <2>2, GivenKept
    <2>3. CASE /\ \E t : op' = [op EXCEPT ![o].cbc.prev = CbcNext(o, op[o].cbc, t)]
               /\ UNCHANGED given
      <3>1. PICK b : op' = [op EXCEPT ![o].cbc.prev = b]
        BY <2>3
      <3> DEFINE c == [op[o].cbc EXCEPT !.prev = b]
                 r == [op[o] EXCEPT !.cbc = c]
      <3>2. op' = [op EXCEPT ![o] = r] /\ given' = [given EXCEPT ![o] = given[o]]
        BY <1>0, <2>3, <3>1 DEF OpRec
      <3>3. c.set = op[o].cbc.set /\ c.key = op[o].cbc.key /\ c.iv = op[o].cbc.iv
        BY <1>0 DEF CbcCtx
      <3> HIDE DEF c
      <3>4. /\ r.aekey = op[o].aekey /\ r.sigkey = op[o].sigkey /\ r.live = op[o].live
            /\ r.kind = op[o].kind /\ r.state = op[o].state /\ r.aeiv = op[o].aeiv
            /\ r.gcm = op[o].gcm /\ r.cbc = c
        BY <1>0 DEF OpRec
      <3> HIDE DEF r
      <3>5. GivenFits(r, given[o])
        BY <1>0, <3>3, <3>4, FitsKept
      <3> QED BY <1>0, <3>2, <3>5, GivenStep
    <2> QED BY <1>2, <2>1, <2>2, <2>3 DEF TEE_CipherUpdate
  <1> QED BY <1>1, <1>2

\* The digest calls move the hash alone.
LEMMA DigestGiven ==
  ASSUME Inv, GivenInv, NEW o \in Ops,
         \/ \E x \in Chunks : TEE_DigestUpdate(o, x)
         \/ \E x \in Chunks \cup {Empty} : DigestShortBuffer(o, x) \/ TEE_DigestDoFinal(o, x)
  PROVE  GivenInv'
  <1>0. HandlesInv /\ op \in [Ops -> OpRec] /\ op[o] \in OpRec
        /\ given \in [Ops -> GivenRec] /\ GivenFits(op[o], given[o])
    BY DEF Inv, HandlesInv, GivenInv
  <1>1. CASE TEE_Panic("DigestUpdate")
    BY <1>1, GivenPanic
  <1>2. CASE UNCHANGED <<op, given>>
    BY <1>2, GivenKept
  <1>3. CASE (\E s : op' = [op EXCEPT ![o].sha = s]) /\ UNCHANGED given
    <2>1. PICK s : op' = [op EXCEPT ![o].sha = s]
      BY <1>3
    <2> DEFINE r == [op[o] EXCEPT !.sha = s]
    <2>2. op' = [op EXCEPT ![o] = r] /\ given' = [given EXCEPT ![o] = given[o]]
      BY <1>0, <1>3, <2>1
    <2>3. /\ r.aekey = op[o].aekey /\ r.sigkey = op[o].sigkey /\ r.live = op[o].live
          /\ r.kind = op[o].kind /\ r.state = op[o].state /\ r.aeiv = op[o].aeiv
          /\ r.gcm = op[o].gcm /\ r.cbc = op[o].cbc
      BY <1>0 DEF OpRec
    <2> HIDE DEF r
    <2>4. GivenFits(r, given[o])
      BY <1>0, <2>3, FitsKept
    <2> QED BY <1>0, <2>2, <2>4, GivenStep
  <1>4. ASSUME NEW x \in Chunks, TEE_DigestUpdate(o, x), ~TEE_Panic("DigestUpdate")
        PROVE  (\E s : op' = [op EXCEPT ![o].sha = s]) /\ UNCHANGED given
    <2>1. op' = [op EXCEPT ![o].sha = Append(op[o].sha, x)] /\ UNCHANGED given
      BY <1>0, <1>4 DEF TEE_DigestUpdate
    <2> QED BY <2>1
  <1>5. ASSUME NEW x \in Chunks \cup {Empty}, TEE_DigestDoFinal(o, x)
        PROVE  (\E s : op' = [op EXCEPT ![o].sha = s]) /\ UNCHANGED given
    BY <1>5 DEF TEE_DigestDoFinal
  <1>6. ASSUME NEW x \in Chunks \cup {Empty}, DigestShortBuffer(o, x)
        PROVE  UNCHANGED <<op, given>>
    BY <1>6 DEF DigestShortBuffer
  <1> QED BY <1>1, <1>2, <1>3, <1>4, <1>5, <1>6

\* Every step.
LEMMA GivenInvStep == Inv /\ GivenInv /\ [Next]_vars => GivenInv'
  <1> SUFFICES ASSUME Inv, GivenInv, [Next]_vars PROVE GivenInv'
    OBVIOUS
  <1>1. CASE UNCHANGED vars
    BY <1>1, GivenKept DEF vars
  <1>2. CASE Restart \/ Refused
    BY <1>2, GivenKept DEF Restart, Refused
  <1>3. CASE RefusedPanic
    BY <1>3, GivenPanic DEF RefusedPanic
  <1>4. ASSUME NEW b \in Objs,
               \/ \E type \in Types : TEE_AllocateTransientObject(b, type)
               \/ TEE_GenerateKey(b) \/ TEE_FreeTransientObject(b)
        PROVE  GivenInv'
    <2>1. TEE_Panic("GenerateKey") \/ UNCHANGED <<op, given>>
      BY <1>4, Zenon DEF TEE_AllocateTransientObject, TEE_GenerateKey, TEE_FreeTransientObject
    <2> QED BY <2>1, GivenPanic, GivenKept
  <1>5. ASSUME NEW o \in Ops, NEW d \in Chunks,
               \/ TEE_AsymmetricSignDigest(o, d)
               \/ \E sig : TEE_AsymmetricVerifyDigest(o, d, sig)
        PROVE  GivenInv'
    BY <1>5, GivenKept DEF TEE_AsymmetricSignDigest, TEE_AsymmetricVerifyDigest
  <1> QED BY <1>1, <1>2, <1>3, <1>4, <1>5, LifeGiven, AEInitGiven, AadGiven, AEGiven,
             CipherGiven, DigestGiven DEF Next, TEE_CipherDoFinal

\* A signature is made under the pair that its handle was given.
LEMMA SignedStep == Inv /\ GivenInv /\ SignedFits /\ [Next]_vars => SignedFits'
  <1> SUFFICES ASSUME Inv, GivenInv, SignedFits, [Next]_vars PROVE SignedFits'
    OBVIOUS
  <1>1. CASE UNCHANGED signed
    BY <1>1 DEF SignedFits
  <1>2. ASSUME NEW o \in Ops, NEW d \in Chunks, TEE_AsymmetricSignDigest(o, d)
        PROVE  SignedFits'
    <2> DEFINE s == [pair |-> given[o].pair, sig |-> [key |-> op[o].sigkey, digest |-> d]]
    <2>1. \/ signed' = signed
          \/ signed' = signed \cup {s} /\ ~(Lib = "wolf" /\ op[o].sigkey = ZeroKey)
      BY <1>2 DEF TEE_AsymmetricSignDigest
    <2>2. op[o].sigkey = given[o].pair
      BY DEF GivenInv, GivenFits
    <2>3. s.sig = [key |-> s.pair, digest |-> s.sig.digest] /\ s.pair = op[o].sigkey
      BY <2>2
    <2> HIDE DEF s
    <2> QED BY <2>1, <2>3 DEF SignedFits
  <1>3. ASSUME NEW o \in Ops, NEW d \in Chunks, NEW sig, TEE_AsymmetricVerifyDigest(o, d, sig)
        PROVE  UNCHANGED signed
    BY <1>3 DEF TEE_AsymmetricVerifyDigest
  <1>4. ASSUME NEW c, TEE_Panic(c) PROVE UNCHANGED signed
    BY <1>4 DEF TEE_Panic
  <1>5. CASE Restart \/ Refused \/ RefusedPanic
    BY <1>1, <1>4, <1>5 DEF Restart, Refused, RefusedPanic
  <1>6. ASSUME NEW b \in Objs,
               \/ \E type \in Types : TEE_AllocateTransientObject(b, type)
               \/ TEE_GenerateKey(b) \/ TEE_FreeTransientObject(b)
        PROVE  UNCHANGED signed
    BY <1>4, <1>6, Zenon
       DEF TEE_AllocateTransientObject, TEE_GenerateKey, TEE_FreeTransientObject
  <1>7. ASSUME NEW o \in Ops,
               \/ \E kind \in Kinds : TEE_AllocateOperation(o, kind)
               \/ TEE_FreeOperation(o)
               \/ \E b \in Objs : TEE_SetOperationKey(o, b)
               \/ \E n \in Nonces : TEE_AEInit(o, n) \/ TEE_CipherInit(o, n)
               \/ \E aad \in Aads \cup {Empty} : TEE_AEUpdateAAD(o, aad)
        PROVE  UNCHANGED signed
    BY <1>4, <1>7, Zenon
       DEF TEE_AllocateOperation, TEE_FreeOperation, TEE_SetOperationKey, TEE_AEInit,
           TEE_CipherInit, TEE_AEUpdateAAD
  <1>8. ASSUME NEW o \in Ops,
               \/ \E x : TEE_AEUpdate(o, x) \/ TEE_AEEncryptFinal(o, x)
               \/ \E x, tag : TEE_AEDecryptFinal(o, x, tag)
               \/ \E x, tail : TEE_CipherUpdate(o, x, tail)
               \/ \E x : TEE_DigestUpdate(o, x) \/ DigestShortBuffer(o, x)
               \/ \E x : TEE_DigestDoFinal(o, x)
        PROVE  UNCHANGED signed
    BY <1>4, <1>8, Zenon
       DEF TEE_AEUpdate, TEE_AEEncryptFinal, TEE_AEDecryptFinal, TEE_CipherUpdate,
           TEE_DigestUpdate, DigestShortBuffer, TEE_DigestDoFinal
  <1>9. CASE UNCHANGED vars
    BY <1>1, <1>9 DEF vars
  <1>10. CASE Next
    BY <1>1, <1>2, <1>3, <1>5, <1>6, <1>7, <1>8, <1>10, Zenon DEF Next, TEE_CipherDoFinal
  <1> QED BY <1>9, <1>10

(***************************************************************************)
(*                              The theorems                               *)
(***************************************************************************)

\* The invariant holds in every behaviour.
LEMMA AlwaysInv == Spec => []FullInv
  <1>1. Init => GivenInv /\ SignedFits
    BY GivenFresh DEF Init, GivenInv, SignedFits
  <1>2. Init => FullInv
    BY <1>1, InitInv DEF FullInv
  <1>3. FullInv /\ [Next]_vars => FullInv'
    BY StepInv, GivenInvStep, SignedStep DEF FullInv
  <1> QED BY <1>2, <1>3, PTL DEF Spec

\* The handles and histories keep their types: no call leaves a context, a key
\* or a state in a handle that its struct has no place for.
THEOREM TypeCorrect == Spec => []TypeOK
  <1>1. FullInv => TypeOK
    BY DEF FullInv, GivenInv, Inv, HandlesInv, Rest, TypeOK, Plain
  <1> QED BY <1>1, AlwaysInv, PTL

\* aegcm_state tells the truth about the library's context, in whatever order a
\* TA calls TEE_AEInit, TEE_AEUpdateAAD, TEE_AEUpdate and the finals.
THEOREM AeStateIsSound == Spec => []AeStateSound
  <1>1. FullInv => AeStateSound
    <2> SUFFICES ASSUME FullInv, NEW o \in Ops, op[o].live, Alg(o) = "GCM"
                 PROVE  /\ op[o].state >= GCM_ST_INIT => op[o].keySet /\ op[o].gcm.set
                        /\ op[o].state >= GCM_ST_AAD =>
                              op[o].gcm.iv = op[o].aeiv /\ op[o].aeiv \in Nonces
      BY DEF AeStateSound
    <2>1. AeState(op[o]) /\ op[o].state \in 0..4
      BY DEF FullInv, Inv, HandlesInv, HandleInv, OpRec
    <2>2. op[o].state >= GCM_ST_AAD => op[o].state >= GCM_ST_INIT
      BY <2>1 DEF GCM_ST_AAD, GCM_ST_INIT
    <2> QED BY <2>1, <2>2 DEF AeState, Alg
  <1> QED BY <1>1, AlwaysInv, PTL

\* As long as every chunk decrypts, the persistent IV of a CBC handle is the
\* ciphertext of precisely the chunks that the library has taken, under the key
\* and the nonce that were given to TEE_CipherInit, whatever keys are set and
\* whatever lengths are refused or cut off in between.
THEOREM CbcStreamsAreFaithful == Spec => []CbcStreamFaithful
  <1>1. FullInv => CbcStreamFaithful
    <2> SUFFICES ASSUME FullInv, NEW o \in Ops, op[o].live, op[o].cbc.set,
                        Garbage \notin Range(plain[o])
                 PROVE  op[o].cbc.prev = [key |-> given[o].mkey, iv |-> given[o].iv,
                                          chain |-> plain[o]]
      BY DEF CbcStreamFaithful
    <2>1. CbcFaithful(op[o], plain[o])
      BY DEF FullInv, Inv, HandlesInv, HandleInv
    <2>2. CbcGiven(op[o], given[o])
      BY DEF FullInv, GivenInv, GivenFits
    <2> QED BY <2>1, <2>2 DEF CbcFaithful, CbcGiven
  <1> QED BY <1>1, AlwaysInv, PTL

\* The calls whose success promises something.
Promising == {"AEDecryptFinal", "DigestDoFinal", "VerifyDigest"}
Promises(call) == ret.call = call /\ ret.res = "SUCCESS"

\* Only three calls return such a success.
LEMMA PromisesKept ==
  ASSUME Next, NEW call \in Promising, Promises(call)'
  PROVE  \E o \in Ops :
           \/ /\ call = "AEDecryptFinal"
              /\ \E x \in Deliverable(o) \cup {Empty},
                    tag \in {m.tag : m \in sealed} \cup {Garbage} : TEE_AEDecryptFinal(o, x, tag)
           \/ /\ call = "DigestDoFinal"
              /\ \E x \in Chunks \cup {Empty} : TEE_DigestDoFinal(o, x)
           \/ /\ call = "VerifyDigest"
              /\ \E d \in Chunks, sig \in {s.sig : s \in signed} \cup {Garbage} :
                    TEE_AsymmetricVerifyDigest(o, d, sig)
  <1>0. ret'.call \in Promising /\ ret'.call = call /\ ret'.res = "SUCCESS"
    BY DEF Promises
  <1>1. ASSUME NEW c, TEE_Panic(c) PROVE FALSE
    BY <1>0, <1>1 DEF TEE_Panic, Returns
  <1>2. ~Restart /\ ~Refused /\ ~RefusedPanic
    BY <1>0, <1>1 DEF Restart, Refused, RefusedPanic, Returns, Promising
  <1>calls. \A c, p, r, d : Returns(c, p, r, d) => c \in Promising
    BY <1>0 DEF Returns
  <1>others. /\ "AllocateTransientObject" \notin Promising /\ "GenerateKey" \notin Promising
        /\ "FreeTransientObject" \notin Promising /\ "AllocateOperation" \notin Promising
        /\ "FreeOperation" \notin Promising /\ "SetOperationKey" \notin Promising
        /\ "AEInit" \notin Promising /\ "CipherInit" \notin Promising
        /\ "AEUpdateAAD" \notin Promising
    BY DEF Promising
  <1>3. ASSUME NEW b \in Objs
        PROVE  /\ \A type \in Types : ~TEE_AllocateTransientObject(b, type)
               /\ ~TEE_GenerateKey(b) /\ ~TEE_FreeTransientObject(b)
    BY <1>1, <1>calls, <1>others, Zenon
       DEF TEE_AllocateTransientObject, TEE_GenerateKey, TEE_FreeTransientObject
  <1>4. ASSUME NEW o \in Ops
        PROVE  /\ \A kind \in Kinds : ~TEE_AllocateOperation(o, kind)
               /\ ~TEE_FreeOperation(o)
               /\ \A b \in Objs : ~TEE_SetOperationKey(o, b)
    BY <1>calls, <1>others, Zenon DEF TEE_AllocateOperation, TEE_FreeOperation, TEE_SetOperationKey
  <1>5. ASSUME NEW o \in Ops
        PROVE  /\ \A n \in Nonces : ~TEE_AEInit(o, n) /\ ~TEE_CipherInit(o, n)
               /\ \A aad \in Aads \cup {Empty} : ~TEE_AEUpdateAAD(o, aad)
    BY <1>1, <1>calls, <1>others, Zenon DEF TEE_AEInit, TEE_CipherInit, TEE_AEUpdateAAD
  <1>6. ASSUME NEW o \in Ops, NEW x
        PROVE  ~TEE_AEUpdate(o, x) /\ ~TEE_AEEncryptFinal(o, x)
    BY <1>0 DEF TEE_AEUpdate, TEE_AEEncryptFinal, AENotStarted, Returns, Promising
  <1>7. ASSUME NEW o \in Ops, NEW x
        PROVE  /\ \A tail : ~TEE_CipherUpdate(o, x, tail) /\ ~TEE_CipherDoFinal(o, x, tail)
               /\ ~TEE_DigestUpdate(o, x) /\ ~DigestShortBuffer(o, x)
               /\ ~TEE_AsymmetricSignDigest(o, x)
    <2>0. "CipherUpdate" \notin Promising
      BY DEF Promising
    <2>1. ASSUME NEW tail PROVE ~TEE_CipherUpdate(o, x, tail)
      BY <1>1, <1>calls, <2>0, Zenon DEF TEE_CipherUpdate
    <2>2. ~TEE_DigestUpdate(o, x) /\ ~DigestShortBuffer(o, x)
      BY <1>0, <1>1 DEF TEE_DigestUpdate, DigestShortBuffer, Returns, Promising
    <2>3. ~TEE_AsymmetricSignDigest(o, x)
      BY <1>0 DEF TEE_AsymmetricSignDigest, Returns, Promising
    <2> QED BY <2>1, <2>2, <2>3 DEF TEE_CipherDoFinal
  <1>8. PICK o \in Ops :
          \/ \E x \in Deliverable(o) \cup {Empty},
                tag \in {m.tag : m \in sealed} \cup {Garbage} : TEE_AEDecryptFinal(o, x, tag)
          \/ \E x \in Chunks \cup {Empty} : TEE_DigestDoFinal(o, x)
          \/ \E d \in Chunks, sig \in {s.sig : s \in signed} \cup {Garbage} :
                TEE_AsymmetricVerifyDigest(o, d, sig)
    BY <1>2, <1>3, <1>4, <1>5, <1>6, <1>7, Zenon DEF Next
  <1>9. ASSUME NEW x, NEW tag, TEE_AEDecryptFinal(o, x, tag) PROVE call = "AEDecryptFinal"
    BY <1>0, <1>9 DEF TEE_AEDecryptFinal, AENotStarted, Returns
  <1>10. ASSUME NEW x, TEE_DigestDoFinal(o, x) PROVE call = "DigestDoFinal"
    BY <1>0, <1>10 DEF TEE_DigestDoFinal, Returns
  <1>11. ASSUME NEW d, NEW sig, TEE_AsymmetricVerifyDigest(o, d, sig) PROVE call = "VerifyDigest"
    BY <1>0, <1>11 DEF TEE_AsymmetricVerifyDigest, Returns
  <1> QED BY <1>8, <1>9, <1>10, <1>11, Zenon

\* With wolfCrypt the hash that TEE_DigestDoFinal returns is that of exactly the
\* chunks fed since the handle was allocated or last finalised.
THEOREM DigestsAreExact == ASSUME Lib = "wolf" PROVE Spec => []DigestExact
  <1>1. Init => DigestExact
    BY DEF Init, DigestExact
  <1>2. FullInv /\ DigestExact /\ [Next]_vars => DigestExact'
    <2> SUFFICES ASSUME FullInv, DigestExact, [Next]_vars, Promises("DigestDoFinal")'
                 PROVE  ret'.data[1] = ret'.data[2]
      BY DEF DigestExact, Promises
    <2>1. CASE UNCHANGED vars
      BY <2>1 DEF vars, Promises, DigestExact
    <2>2. CASE Next
      <3>1. PICK o \in Ops, x \in Chunks \cup {Empty} : TEE_DigestDoFinal(o, x)
        BY <2>2, PromisesKept DEF Promising
      <3>2. op[o].live /\ op[o].kind[1] = "DIGEST"
        BY <3>1 DEF TEE_DigestDoFinal, Live, Mode
      <3>3. op[o].sha = plain[o]
        BY <3>2 DEF FullInv, Inv, HandlesInv, HandleInv, DigestFed
      <3>4. ret'.data = <<op[o].sha \o Items(x, x), plain[o] \o Items(x, x)>>
        BY <3>1 DEF TEE_DigestDoFinal, Returns
      <3> QED BY <3>3, <3>4
    <2> QED BY <2>1, <2>2
  <1> QED BY <1>1, <1>2, AlwaysInv, PTL DEF Spec

\* A digest that TEE_AsymmetricVerifyDigest accepts was signed by a handle that
\* had been given the key pair that the verifying handle was given last, whatever
\* was in the two handles before and whatever became of the key object; with
\* wolfCrypt it is a pair that was really made.
THEOREM VerifiedDigestsWereSigned == Spec => []VerifiedWasSigned
  <1>1. Init => VerifiedWasSigned
    BY DEF Init, VerifiedWasSigned
  <1>2. FullInv /\ VerifiedWasSigned /\ [Next]_vars => VerifiedWasSigned'
    <2> SUFFICES ASSUME FullInv, VerifiedWasSigned, [Next]_vars, Promises("VerifyDigest")'
                 PROVE  \E s \in signed' : /\ s.pair = ret'.data[1]
                                           /\ s.sig.digest = ret'.data[2]
                                           /\ Lib = "wolf" => s.pair # ZeroKey
      BY DEF VerifiedWasSigned, Promises
    <2>1. CASE UNCHANGED vars
      BY <2>1 DEF vars, Promises, VerifiedWasSigned
    <2>2. CASE Next
      <3>1. PICK o \in Ops, d \in Chunks, sig \in {s.sig : s \in signed} \cup {Garbage} :
              TEE_AsymmetricVerifyDigest(o, d, sig)
        BY <2>2, PromisesKept DEF Promising
      <3> DEFINE v == [key |-> op[o].sigkey, digest |-> d]
      <3>2. op[o].sigkey \in Keys
        BY DEF FullInv, Inv, HandlesInv, OpRec
      <3>3. v \in Signatures /\ v.key = op[o].sigkey /\ v.digest = d
        BY <3>2 DEF Signatures
      <3>4. /\ ret'.data = <<given[o].pair, d>> /\ UNCHANGED signed
            /\ VerifyResult(op[o].sigkey, d, sig) = "SUCCESS"
        BY <3>1 DEF TEE_AsymmetricVerifyDigest, Returns, Promises
      <3>5. sig = v
        BY <3>4 DEF VerifyResult, Verifies
      <3> HIDE DEF v
      <3>6. PICK s \in signed : s.sig = v
        BY <3>3, <3>5
      <3>7. /\ s.sig = [key |-> s.pair, digest |-> s.sig.digest]
            /\ Lib = "wolf" => s.pair # ZeroKey
        BY DEF FullInv, SignedFits
      <3>8. s.sig.key = s.pair
        BY <3>7
      <3>9. op[o].sigkey = given[o].pair
        BY DEF FullInv, GivenInv, GivenFits
      <3>10. s.pair = given[o].pair /\ s.sig.digest = d
        BY <3>3, <3>6, <3>8, <3>9
      <3> QED BY <3>4, <3>7, <3>10
    <2> QED BY <2>1, <2>2
  <1> QED BY <1>1, <1>2, AlwaysInv, PTL DEF Spec

\* With mbedTLS, when TEE_AEDecryptFinal accepts a tag, what the handle has
\* delivered since the last TEE_AEUpdateAAD is the plaintext of one message that
\* was sealed with the key and the nonce that the TA gave to TEE_AEInit and the
\* AAD it gave last, however the deliveries were cut up.
THEOREM AcceptedIsAuthentic == ASSUME Lib = "mbed" PROVE Spec => []Authentic
  <1>1. Init => Authentic
    BY DEF Init, Authentic
  <1>2. FullInv /\ Authentic /\ [Next]_vars => Authentic'
    <2> SUFFICES ASSUME FullInv, Authentic, [Next]_vars, Promises("AEDecryptFinal")'
                 PROVE  \E m \in sealed' :
                           /\ m.msg.key = ret'.data.key /\ m.msg.iv = ret'.data.iv
                           /\ m.msg.aad = ret'.data.aad /\ m.msg.pt = ret'.data.pt
      BY DEF Authentic, Promises
    <2>inv. Inv /\ HandlesInv /\ GivenInv
      BY DEF FullInv, Inv
    <2>1. CASE UNCHANGED vars
      BY <2>1 DEF vars, Promises, Authentic
    <2>2. CASE Next
      <3>0. PICK o \in Ops :
              \E x \in Deliverable(o) \cup {Empty},
                 tag \in {m.tag : m \in sealed} \cup {Garbage} : TEE_AEDecryptFinal(o, x, tag)
        BY <2>2, PromisesKept DEF Promising
      <3>1. PICK x \in Deliverable(o) \cup {Empty},
                 tag \in {m.tag : m \in sealed} \cup {Garbage} : TEE_AEDecryptFinal(o, x, tag)
        BY <3>0
      <3> DEFINE g == FedBy(o, x)
                 t == GcmTag(Ready(o), g.fed)
      <3>2. op[o].live /\ op[o].kind[2] = "GCM"
        BY <3>1 DEF TEE_AEDecryptFinal, Live, Alg
      <3>3. /\ op[o].state >= GCM_ST_INIT /\ Room(o) /\ UNCHANGED sealed
            /\ tag = t /\ ret'.data = Message(o, PlainBy(o, x))
        <4>1. ~AENotStarted(o, "AEDecryptFinal")
          BY DEF AENotStarted, Returns, Promises
        <4>2. DecryptTag(o, Ready(o), x) = t
          BY DEF DecryptTag, FedBy
        <4>3. tag = DecryptTag(o, Ready(o), x)
          BY <3>1, <4>1 DEF TEE_AEDecryptFinal, Returns, Promises
        <4> QED BY <3>1, <4>1, <4>2, <4>3 DEF TEE_AEDecryptFinal, Returns, PlainBy
      <3>4. /\ ret'.data.key = Ready(o).key /\ ret'.data.iv = Ready(o).iv
            /\ ret'.data.aad = Ready(o).aad /\ ret'.data.pt = PlainBy(o, x)
        BY <2>inv, <3>2, <3>3, ReadyGiven DEF Message
      <3>5. /\ g \in GcmCtx /\ g.key = Ready(o).key /\ g.iv = Ready(o).iv
            /\ g.aad = Ready(o).aad /\ PlainBy(o, x) \in Plain
            /\ Opens(g.key, g.iv, g.fed, PlainBy(o, x))
        BY <2>inv, <3>2, <3>3, FeedFacts
      <3> HIDE DEF g
      <3>6. /\ t.key = g.key /\ t.iv = g.iv /\ t.aad = g.aad /\ t.ct = g.fed /\ t \in Tags
        BY <3>5 DEF GcmTag, Tags, GcmCtx
      <3> HIDE DEF t
      <3>7. PICK m \in sealed : m.tag = t
        BY <3>3, <3>6
      <3>8. /\ m.tag = [key |-> m.msg.key, iv |-> m.msg.iv, aad |-> m.msg.aad,
                        ct |-> m.tag.ct]
            /\ m.msg.pt \in Plain /\ Opens(m.msg.key, m.msg.iv, m.tag.ct, m.msg.pt)
        BY <2>inv DEF Inv, SealedOpens
      <3>9. m.msg.key = t.key /\ m.msg.iv = t.iv /\ m.msg.aad = t.aad
        BY <3>7, <3>8
      <3>10. Opens(g.key, g.iv, g.fed, m.msg.pt)
        BY <3>6, <3>7, <3>8, <3>9
      <3>11. m.msg.pt = PlainBy(o, x)
        BY <3>5, <3>8, <3>10, OpensUnique
      <3> QED BY <3>3, <3>4, <3>5, <3>6, <3>9, <3>11
    <2> QED BY <2>1, <2>2
  <1> QED BY <1>1, <1>2, AlwaysInv, PTL DEF Spec

=============================================================================
