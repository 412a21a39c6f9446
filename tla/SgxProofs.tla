------------------------------ MODULE SgxProofs ------------------------------
(***************************************************************************)
(* Proofs about SgxObject, for every number of processes, enclaves,        *)
(* objects, files, handles and faults, every block size and every way of   *)
(* cutting an object id down to a key_id.                                  *)
(*                                                                         *)
(* Objects whose ids share the key_id part share the AES key, so a block   *)
(* in a file is only known to belong to one of several owners.  The        *)
(* invariant therefore speaks of the streams under an AES key, and says of *)
(* first blocks, which the IV of the whole id ties to one owner, that the  *)
(* owner is the very one that the block names.                             *)
(***************************************************************************)
EXTENDS SgxObject, PersistentObjectProofs

USE HostAssumption, ObjectAssumption

(***************************************************************************)
(*                         The inductive invariant                         *)
(***************************************************************************)
\* The owners whose streams one AES key encrypts.
Siblings(k) == {o \in Keys : AesKey(o) = AesKey(k)}

\* The chains that a block under key k can have when W[o] are those of owner o.
Streams(W) ==
    [k \in Keys |-> {s \in UNION {W[o] : o \in Siblings(k)} : Len(s) = 1 => s \in W[k]}]

\* The plaintext blocks written by TAs with measurement t.
Measured(W, t) ==
    {x \in Data : \E o \in Keys : o[1] = t /\ \E s \in W[o] : s # << >> /\ Last(s) = x}

\* The data of result r was written by TAs with measurement t, and the data of
\* a read of whole blocks under an id with the key_id part of the reader's.
RetOwn(W, t, r) ==
    \A j \in 1..Len(r.data) : r.data[j] # Garbage =>
        \E o \in Keys : /\ o[1] = t
                        /\ r.count % BLK = 0 => KeyId[o[2]] = KeyId[r.owner[2]]
                        /\ \E s \in W[o] : s # << >> /\ Last(s) = r.data[j]

Origins ==
    /\ \A n \in Names : AllGenuine(Streams(written), file[n])
    /\ \A a \in Apps : heap[a] \subseteq Measured(written, TaOf[a])
    /\ \A a \in Apps : RetOwn(written, TaOf[a], ret[a])

\* An open handle of process a with the fields its type does not show: at the
\* start of a stream its chaining value is the IV of its own object.
GoodHandle(a, g) ==
    g.st = "open" => /\ g.id \in ObjectIDs /\ g.desc \in Fds
                     /\ (g.prev.key # NoKey /\ g.prev.chain = << >>) =>
                           g.prev.key = <<TaOf[a], g.id>>

FreshOwn == \A a \in Apps : \A h \in Handles : GoodHandle(a, handle[a][h])

SgxInv == SgxTypeOK /\ FreshOwn /\ Origins

(***************************************************************************)
(*                         Streams and their growth                        *)
(***************************************************************************)

\* Streams gives every key a set of chains, and more of them for more chains.
LEMMA StreamsGrow ==
  ASSUME NEW W \in [Keys -> SUBSET Chains], NEW V \in [Keys -> SUBSET Chains],
         \A k \in Keys : W[k] \subseteq V[k]
  PROVE  /\ Streams(W) \in [Keys -> SUBSET Chains]
         /\ Streams(V) \in [Keys -> SUBSET Chains]
         /\ \A k \in Keys : Streams(W)[k] \subseteq Streams(V)[k]
         /\ \A t : Measured(W, t) \subseteq Measured(V, t)
         /\ \A t, r : RetOwn(W, t, r) => RetOwn(V, t, r)
  <1>1. /\ Streams(W) \in [Keys -> SUBSET Chains]
        /\ Streams(V) \in [Keys -> SUBSET Chains]
    BY DEF Streams, Siblings
  <1>2. ASSUME NEW k \in Keys, NEW s \in Streams(W)[k] PROVE s \in Streams(V)[k]
    <2>1. PICK o \in Siblings(k) : s \in W[o]
      BY <1>2 DEF Streams
    <2>2. o \in Keys /\ s \in V[o]
      BY <2>1 DEF Siblings
    <2>3. Len(s) = 1 => s \in V[k]
      BY <1>2 DEF Streams
    <2> QED BY <2>1, <2>2, <2>3 DEF Streams
  <1>3. \A t : Measured(W, t) \subseteq Measured(V, t)
    BY DEF Measured
  <1>4. ASSUME NEW t, NEW r, RetOwn(W, t, r) PROVE RetOwn(V, t, r)
    BY <1>4 DEF RetOwn
  <1> QED BY <1>1, <1>2, <1>3, <1>4

\* A chain under a key was written by a TA with the measurement of the key
\* under an id with its key_id; a chain of one block under that very id.
LEMMA StreamOwner ==
  ASSUME NEW W \in [Keys -> SUBSET Chains], NEW k \in Keys, NEW s \in Streams(W)[k]
  PROVE  /\ \E o \in Keys : o[1] = k[1] /\ KeyId[o[2]] = KeyId[k[2]] /\ s \in W[o]
         /\ Len(s) = 1 => s \in W[k]
  <1>1. PICK o \in Siblings(k) : s \in W[o]
    BY DEF Streams
  <1>2. o \in Keys /\ o[1] = k[1] /\ KeyId[o[2]] = KeyId[k[2]]
    BY <1>1 DEF Siblings, AesKey
  <1> QED BY <1>1, <1>2 DEF Streams

(***************************************************************************)
(*                      Assembling the invariant                           *)
(***************************************************************************)

\* What the invariant says of types.
LEMMA SgxParts ==
  ASSUME SgxInv
  PROVE  /\ Safe /\ HostOK /\ HandlesOK /\ CallsOK /\ CountersOK /\ InstOK
         /\ RetOK /\ WrittenOK
         /\ heap \in [Apps -> SUBSET Data]
         /\ \A a \in Apps : call[a] = Idle
  <1>1. TypeOK /\ heap \in [Apps -> SUBSET Data] /\ \A a \in Apps : call[a] = Idle
    BY DEF SgxInv, SgxTypeOK
  <1>2. LoopInBounds
    BY <1>1 DEF LoopInBounds
  <1> QED BY <1>1, <1>2, TypeParts DEF Safe

\* A call of a running process a that returns: one handle may change, the files
\* and the chains grow by genuine blocks, the result and the heap are owned.
LEMMA RunStep ==
  ASSUME SgxInv, NEW a \in Apps, Running(a), HostOK', CountersOK',
         UNCHANGED <<inst, call>>,
         \A b \in Apps \ {a} : fdt'[b] = fdt[b],
         WrittenOK', \A k \in Keys : written[k] \subseteq written'[k],
         \A n \in Names : AllGenuine(Streams(written'), file'[n]),
         \/ handle' = handle
         \/ \E h \in Handles, g \in HandleRec :
               GoodHandle(a, g) /\ handle' = [handle EXCEPT ![a][h] = g],
         NEW r \in RetRec, RetOwn(written', TaOf[a], r), Return(a, r),
         NEW H \in SUBSET Data, H \subseteq Measured(written', TaOf[a]),
         heap' = [heap EXCEPT ![a] = H]
  PROVE  SgxInv'
  <1>0. /\ HandlesOK /\ CallsOK /\ InstOK /\ RetOK /\ WrittenOK
        /\ heap \in [Apps -> SUBSET Data]
        /\ \A b \in Apps : call[b] = Idle
    BY SgxParts
  <1>1. FreshOwn
    BY DEF SgxInv
  <1>2. HandlesOK' /\ FreshOwn' /\ \A b \in Apps \ {a} : handle'[b] = handle[b]
    <2>1. CASE handle' = handle
      BY <1>0, <1>1, <2>1 DEF HandlesOK, FreshOwn, Live
    <2>2. CASE \E h \in Handles, g \in HandleRec :
                  GoodHandle(a, g) /\ handle' = [handle EXCEPT ![a][h] = g]
      <3>1. PICK h \in Handles, g \in HandleRec :
               GoodHandle(a, g) /\ handle' = [handle EXCEPT ![a][h] = g]
        BY <2>2
      <3>2. HandlesOK'
        BY <1>0, <3>1, HandleSet DEF GoodHandle
      <3>3. ASSUME NEW b \in Apps, NEW i \in Handles PROVE GoodHandle(b, handle'[b][i])
        <4>1. handle'[b][i] = IF b = a /\ i = h THEN g ELSE handle[b][i]
          BY <1>0, <3>1 DEF HandlesOK
        <4>2. GoodHandle(b, handle[b][i])
          BY <1>1 DEF FreshOwn
        <4>3. CASE b = a /\ i = h
          <5>1. handle'[b][i] = g
            BY <4>1, <4>3
          <5>2. GoodHandle(b, g)
            BY <3>1, <4>3
          <5> QED BY <5>1, <5>2
        <4>4. CASE ~(b = a /\ i = h)
          <5>1. handle'[b][i] = handle[b][i]
            BY <4>1, <4>4
          <5> QED BY <4>2, <5>1
        <4> QED BY <4>3, <4>4
      <3>4. \A b \in Apps \ {a} : handle'[b] = handle[b]
        BY <1>0, <3>1 DEF HandlesOK
      <3>5. FreshOwn'
        BY <3>3 DEF FreshOwn, GoodHandle
      <3> QED BY <3>2, <3>4, <3>5
    <2> QED BY <2>1, <2>2
  <1>3. CallsOK' /\ InstOK' /\ RetOK' /\ \A b \in Apps : call'[b] = Idle
    BY <1>0 DEF CallsOK, InstOK, RetOK, Return
  <1>4. TypeOK'
    BY <1>2, <1>3, TypePartsNext
  <1>5. /\ heap' \in [Apps -> SUBSET Data] /\ heap'[a] = H
        /\ \A b \in Apps \ {a} : heap'[b] = heap[b]
    BY <1>0
  <1>6. inst'[a] = "run" /\ \A b \in Apps : inst'[b] = inst[b]
    BY DEF Running
  <1>7. ASSUME NEW b \in Apps, inst'[b] # "run"
        PROVE  heap'[b] = {} /\ \A h \in Handles : handle'[b][h] = NULL
    <2>1. b # a /\ inst[b] # "run"
      BY <1>6, <1>7
    <2>2. heap[b] = {} /\ \A h \in Handles : handle[b][h] = NULL
      BY <2>1 DEF SgxInv, SgxTypeOK
    <2> QED BY <1>2, <1>5, <2>1, <2>2
  <1>8. ASSUME NEW b \in Apps, inst'[b] = "none" PROVE (FreeFds(b) = Fds)'
    <2>1. b # a /\ inst[b] = "none"
      BY <1>6, <1>8
    <2>2. FreeFds(b) = Fds
      BY <2>1 DEF SgxInv, SgxTypeOK
    <2> QED BY <2>1, <2>2 DEF FreeFds
  <1>9. SgxTypeOK'
    BY <1>3, <1>4, <1>5, <1>7, <1>8 DEF SgxTypeOK
  <1>10. Origins'
    <2>1. /\ \A t : Measured(written, t) \subseteq Measured(written', t)
          /\ \A t, q : RetOwn(written, t, q) => RetOwn(written', t, q)
      BY <1>0, StreamsGrow DEF WrittenOK
    <2>2. \A b \in Apps : heap'[b] \subseteq Measured(written', TaOf[b])
      BY <1>5, <2>1 DEF SgxInv, Origins
    <2>3. ASSUME NEW b \in Apps PROVE RetOwn(written', TaOf[b], ret'[b])
      <3>1. RetOwn(written, TaOf[b], ret[b])
        BY DEF SgxInv, Origins
      <3>2. ret'[b] = IF b = a THEN r ELSE ret[b]
        BY <1>0 DEF RetOK, Return
      <3>3. RetOwn(written', TaOf[b], ret[b])
        BY <2>1, <3>1
      <3>4. CASE b = a
        <4>1. ret'[b] = r
          BY <3>2, <3>4
        <4> QED BY <3>4, <4>1
      <3>5. CASE b # a
        <4>1. ret'[b] = ret[b]
          BY <3>2, <3>5
        <4> QED BY <3>3, <4>1
      <3> QED BY <3>4, <3>5
    <2> QED BY <2>2, <2>3 DEF Origins
  <1> QED BY <1>2, <1>9, <1>10 DEF SgxInv

\* The end of an enclave: abort, or the return of main, with which the kernel
\* closes the process's descriptors.
LEMMA LeaveStep ==
  ASSUME SgxInv, NEW a \in Apps, NEW how \in {"none", "panicked"},
         LeaveInstance(a, how), HostOK', CountersOK', file' = file,
         heap' = [heap EXCEPT ![a] = {}],
         \A b \in Apps \ {a} : fdt'[b] = fdt[b],
         how = "none" => \A fd \in Fds : fdt'[a][fd].name = NoFile
  PROVE  SgxInv'
  <1>0. /\ Safe /\ HandlesOK /\ InstOK /\ RetOK /\ heap \in [Apps -> SUBSET Data]
        /\ call \in [Apps -> CallRec] /\ \A b \in Apps : call[b] = Idle
    BY SgxParts DEF CallsOK
  <1>1. TypeOK'
    BY <1>0, LeaveSafe DEF Safe
  <1>2. /\ inst'[a] = how /\ handle'[a] = [h \in Handles |-> NULL]
        /\ call'[a] = Idle /\ ret'[a] = NoResult /\ heap'[a] = {}
        /\ \A b \in Apps \ {a} : /\ inst'[b] = inst[b] /\ handle'[b] = handle[b]
                                 /\ call'[b] = call[b] /\ ret'[b] = ret[b]
                                 /\ heap'[b] = heap[b]
        /\ written' = written /\ heap' \in [Apps -> SUBSET Data]
    BY <1>0 DEF LeaveInstance, HandlesOK, InstOK, RetOK, Return
  <1>3. \A b \in Apps : inst'[b] # "run" =>
           heap'[b] = {} /\ \A h \in Handles : handle'[b][h] = NULL
    BY <1>2 DEF SgxInv, SgxTypeOK
  <1>4. ASSUME NEW b \in Apps, inst'[b] = "none" PROVE (FreeFds(b) = Fds)'
    <2>1. CASE b = a
      BY <1>2, <1>4, <2>1 DEF FreeFds
    <2>2. CASE b # a
      <3>1. FreeFds(b) = Fds
        BY <1>2, <1>4, <2>2 DEF SgxInv, SgxTypeOK
      <3> QED BY <2>2, <3>1 DEF FreeFds
    <2> QED BY <2>1, <2>2
  <1>5. SgxTypeOK'
    BY <1>0, <1>1, <1>2, <1>3, <1>4 DEF SgxTypeOK
  <1>6. FreshOwn'
    <2>1. NULL.st # "open"
      BY DEF NULL
    <2>2. ASSUME NEW b \in Apps, NEW h \in Handles PROVE GoodHandle(b, handle'[b][h])
      <3>1. CASE b = a
        <4>1. handle'[b][h] = NULL
          BY <1>2, <3>1
        <4> QED BY <2>1, <4>1 DEF GoodHandle
      <3>2. CASE b # a
        <4>1. handle'[b][h] = handle[b][h]
          BY <1>2, <3>2
        <4>2. GoodHandle(b, handle[b][h])
          BY DEF SgxInv, FreshOwn
        <4> QED BY <4>1, <4>2
      <3> QED BY <3>1, <3>2
    <2> QED BY <2>2 DEF FreshOwn, GoodHandle
  <1>7. Origins'
    <2>1. NoResult.data = << >>
      BY DEF NoResult, Returned
    <2>2. RetOwn(written', TaOf[a], NoResult)
      BY <2>1 DEF RetOwn
    <2>3. \A b \in Apps : RetOwn(written', TaOf[b], ret'[b])
      BY <1>2, <2>2 DEF SgxInv, Origins
    <2>4. \A b \in Apps : heap'[b] \subseteq Measured(written', TaOf[b])
      BY <1>2 DEF SgxInv, Origins
    <2>5. \A n \in Names : AllGenuine(Streams(written'), file'[n])
      BY <1>2 DEF SgxInv, Origins
    <2> QED BY <2>3, <2>4, <2>5 DEF Origins
  <1> QED BY <1>5, <1>6, <1>7 DEF SgxInv

(***************************************************************************)
(*                     The host and the cipher                             *)
(***************************************************************************)

\* An ocall of process a disturbs no descriptor of another process.
LEMMA OwnDescriptors ==
  ASSUME HostOK, NEW a \in Apps, NEW fd, NEW r, NEW f
  PROVE  /\ \A n, of : ocall_open_file(a, n, of, r, f) =>
               \A b \in Apps \ {a} : fdt'[b] = fdt[b]
         /\ ocall_close_file(a, fd, r, f) => \A b \in Apps \ {a} : fdt'[b] = fdt[b]
         /\ \A d : ocall_write_file256(a, fd, d, r, f) =>
               \A b \in Apps \ {a} : fdt'[b] = fdt[b]
         /\ \A n : ocall_read_file256(a, fd, n, r, f) =>
               \A b \in Apps \ {a} : fdt'[b] = fdt[b]
         /\ OcallFails(f) => \A b \in Apps \ {a} : fdt'[b] = fdt[b]
  BY DEF HostOK, ocall_open_file, ocall_close_file, ocall_write_file256,
         ocall_read_file256, OcallFails

\* An open empties a file at most.
LEMMA OpenFileGenuine ==
  ASSUME HostOK, NEW a \in Apps, NEW n \in Names, NEW of, NEW r, NEW f, NEW W,
         ocall_open_file(a, n, of, r, f),
         \A m \in Names : AllGenuine(W, file[m])
  PROVE  \A m \in Names : AllGenuine(W, file'[m])
  <1>1. file' = file \/ file' = [file EXCEPT ![n] = << >>]
    BY DEF ocall_open_file
  <1>2. AllGenuine(W, << >>)
    BY NoDataSound
  <1>3. \A m \in Names : file'[m] = file[m] \/ file'[m] = << >>
    BY <1>1 DEF HostOK
  <1>4. ASSUME NEW m \in Names PROVE AllGenuine(W, file'[m])
    <2>1. CASE file'[m] = file[m]
      BY <2>1
    <2>2. CASE file'[m] = << >>
      BY <1>2, <2>2
    <2> QED BY <1>3, <2>1, <2>2
  <1> QED BY <1>4

\* A write puts units of its buffer into a file, and holes at most.
LEMMA WriteFileGenuine ==
  ASSUME HostOK, NEW a \in Apps, NEW fd, NEW d \in Seq(Unit), NEW r \in Int, NEW f, NEW W,
         ocall_write_file256(a, fd, d, r, f), AllGenuine(W, d),
         \A m \in Names : AllGenuine(W, file[m])
  PROVE  \A m \in Names : AllGenuine(W, file'[m])
  <1>1. CASE file' = file
    BY <1>1
  <1>2. CASE file' # file
    <2>1. /\ Writable(a, fd)
          /\ r = Len(d) \/ r \in 1..(Len(d) - 1)
          /\ file' = [file EXCEPT ![fdt[a][fd].name] =
                         Splice(@, fdt[a][fd].pos, SubSeq(d, 1, r))]
      BY <1>2 DEF ocall_write_file256
    <2>2. fdt[a][fd].name \in Names /\ fdt[a][fd].pos \in Nat
      BY <2>1, OpenFd DEF Writable, OpenFile
    <2> DEFINE fn == fdt[a][fd].name
               fp == fdt[a][fd].pos
               part == SubSeq(d, 1, r)
    <2>3. r \in 0..Len(d)
      BY <2>1
    <2>4. /\ part \in Seq(Unit) /\ Len(part) = r
          /\ \A i \in 1..r : part[i] = d[i]
      <3>1. /\ SubSeq(d, 0 + 1, 0 + r) \in Seq(Unit)
            /\ Len(SubSeq(d, 0 + 1, 0 + r)) = r
            /\ \A i \in 1..r : SubSeq(d, 0 + 1, 0 + r)[i] = d[0 + i]
        BY <2>3, Slice
      <3>2. SubSeq(d, 0 + 1, 0 + r) = part /\ \A i \in 1..r : d[0 + i] = d[i]
        BY <2>3
      <3> QED BY <3>1, <3>2
    <2> HIDE DEF fn, fp, part
    <2>5. AllGenuine(W, part)
      BY <2>3, <2>4 DEF AllGenuine
    <2>6. file[fn] \in Seq(Unit) /\ AllGenuine(W, file[fn])
      BY <2>2 DEF HostOK, fn
    <2>7. AllGenuine(W, Splice(file[fn], fp, part))
      BY <2>2, <2>4, <2>5, <2>6, SpliceGenuine DEF fp
    <2>8. file' = [file EXCEPT ![fn] = Splice(file[fn], fp, part)]
      BY <2>1 DEF fn, fp, part
    <2>9. ASSUME NEW m \in Names PROVE AllGenuine(W, file'[m])
      <3>1. CASE m = fn
        <4>1. file'[m] = Splice(file[fn], fp, part)
          BY <2>2, <2>8, <3>1 DEF HostOK, fn
        <4> QED BY <2>7, <4>1
      <3>2. CASE m # fn
        <4>1. file'[m] = file[m]
          BY <2>8, <3>2 DEF HostOK
        <4> QED BY <4>1
      <3> QED BY <3>1, <3>2
    <2> QED BY <2>9
  <1> QED BY <1>1, <1>2

\* What a read delivers is genuine when the files are.
LEMMA ReadUnitsGenuine ==
  ASSUME HostOK, NEW a \in Apps, NEW fd, NEW n \in Nat, NEW r \in Int, NEW f, NEW W,
         ocall_read_file256(a, fd, n, r, f), r > 0,
         \A m \in Names : AllGenuine(W, file[m])
  PROVE  /\ UnitsRead(a, fd, r) \in Seq(Unit) /\ Len(UnitsRead(a, fd, r)) = r
         /\ AllGenuine(W, UnitsRead(a, fd, r))
  <1> DEFINE u == UnitsRead(a, fd, r)
             fn == fdt[a][fd].name
             fp == fdt[a][fd].pos
  <1>1. /\ u \in Seq(Unit) /\ Len(u) = r /\ IsOpen(a, fd)
        /\ \A i \in 1..r : u[i] = file[fn][fp + i]
        /\ fp + r <= Len(file[fn])
    <2>1. Delivered(a, fd, r)
      BY ReadHost
    <2> QED BY <2>1 DEF Delivered
  <1>2. fn \in Names /\ fp \in Nat
    BY <1>1, OpenFd DEF OpenFile
  <1>3. AllGenuine(W, file[fn]) /\ file[fn] \in Seq(Unit)
    BY <1>2 DEF HostOK
  <1> HIDE DEF u, fn, fp
  <1>4. \A i \in 1..r : fp + i \in 1..Len(file[fn])
    BY <1>1, <1>2, <1>3
  <1>5. AllGenuine(W, u)
    BY <1>1, <1>3, <1>4, SMTT(60) DEF AllGenuine
  <1> QED BY <1>1, <1>5 DEF u

\* A buffer that no cipher touched.
LEMMA Holes ==
  ASSUME NEW m \in Nat, NEW W
  PROVE  LET u == [i \in 1..m |-> Hole]
         IN u \in Seq(Unit) /\ Len(u) = m /\ AllGenuine(W, u)
  <1> DEFINE u == [i \in 1..m |-> Hole]
  <1>1. Hole \in Unit /\ Hole.key = NoKey
    BY DEF Unit, Chains
  <1>2. u \in [1..m -> Unit] /\ \A i \in 1..m : u[i].key = NoKey
    BY <1>1
  <1> HIDE DEF u
  <1>3. u \in Seq(Unit) /\ Len(u) = m
    BY <1>2, SeqDef
  <1>4. AllGenuine(W, u)
    BY <1>2, <1>3 DEF AllGenuine
  <1> QED BY <1>3, <1>4 DEF u

\* A chain of one block is the sequence of its last block.
LEMMA OneBlock ==
  ASSUME NEW s \in Seq(Data), s # << >>, Front(s) = << >>
  PROVE  Len(s) = 1 /\ s = <<Last(s)>>
  <1> DEFINE l == Len(s) - 1
  <1>1. l \in Nat
    OBVIOUS
  <1>2. \A i \in 1..l : s[i] \in Data
    BY <1>1
  <1>3. Front(s) = SubSeq(s, 1, l)
    BY DEF Front
  <1> HIDE DEF l
  <1>4. Len(SubSeq(s, 1, l)) = IF 1 <= l THEN l - 1 + 1 ELSE 0
    BY <1>1, <1>2, SubSeqProperties
  <1>5. Len(SubSeq(s, 1, l)) = 0
    <2>1. Len(Front(s)) = 0
      OBVIOUS
    <2> QED BY <1>3, <2>1
  <1>6. l = 0
    BY <1>1, <1>4, <1>5
  <1>7. Len(s) = 1
    BY <1>1, <1>6 DEF l
  <1>8. Last(s) = s[1]
    BY <1>7 DEF Last
  <1>9. <<Last(s)>> = s
    BY <1>7, <1>8
  <1> QED BY <1>7, <1>9

\* What one block decrypts to under the AES key of k: if it is no garbage, the
\* last block of a chain that an owner with that AES key wrote; right behind the
\* IV of k, the first block that k itself wrote.
LEMMA SgxDecryptOwn ==
  ASSUME NEW W \in [Keys -> SUBSET Chains], NEW k \in Keys, NEW p \in Block,
         NEW u \in Seq(Unit), AllGenuine(Streams(W), u), NEW j \in 1..(Len(u) \div BLK),
         NEW x, x = SgxDecryptBlock(k, p, BlockAt(u, j)), x # Garbage
  PROVE  /\ x \in Data
         /\ \E o \in Keys : /\ o[1] = k[1] /\ KeyId[o[2]] = KeyId[k[2]]
                            /\ \E s \in W[o] : s # << >> /\ Last(s) = x
         /\ p = IV(k) => <<x>> \in W[k]
  <1> DEFINE c == BlockAt(u, j)
  <1>1. /\ c.key # NoKey /\ c.chain # << >> /\ AesKey(c.key) = AesKey(k)
        /\ p = [key |-> c.key, chain |-> Front(c.chain)]
        /\ x = Last(c.chain)
    BY DEF SgxDecryptBlock
  <1>2. c \in Block
    BY BlockAtType
  <1>3. c # Torn
    BY <1>1 DEF Torn
  <1>4. PICK i \in 1..Len(u) : c.key = u[i].key /\ c.chain = u[i].chain
    BY <1>3, BlockAtType
  <1> HIDE DEF c
  <1>5. c.key \in Keys /\ c.chain \in Seq(Data)
    BY <1>1, <1>2 DEF Block, Chains
  <1>6. c.chain \in Streams(W)[c.key]
    BY <1>1, <1>4 DEF AllGenuine
  <1>7. x \in Data
    BY <1>1, <1>5 DEF Last
  <1>8. c.key[1] = k[1] /\ KeyId[c.key[2]] = KeyId[k[2]]
    BY <1>1 DEF AesKey
  <1>9. PICK o \in Keys : /\ o[1] = c.key[1] /\ KeyId[o[2]] = KeyId[c.key[2]]
                          /\ c.chain \in W[o]
    BY <1>5, <1>6, StreamOwner
  <1>10. ASSUME p = IV(k) PROVE <<x>> \in W[k]
    <2>1. c.key = k /\ Front(c.chain) = << >>
      BY <1>1, <1>10 DEF IV
    <2>2. Len(c.chain) = 1 /\ c.chain = <<x>>
      BY <1>1, <1>5, <2>1, OneBlock
    <2>3. c.chain \in W[k]
      BY <1>5, <1>6, <2>1, <2>2, StreamOwner
    <2> QED BY <2>2, <2>3
  <1> QED BY <1>1, <1>7, <1>8, <1>9, <1>10

\* The blocks of D that are no garbage were written by owners with k's AES key.
DataOwned(W, k, D) ==
    \A j \in 1..Len(D) : D[j] # Garbage =>
        \E o \in Keys : /\ o[1] = k[1] /\ KeyId[o[2]] = KeyId[k[2]]
                        /\ \E s \in W[o] : s # << >> /\ Last(s) = D[j]

\* A buffer of whole blocks decrypts to blocks that owners with the AES key of k
\* wrote, or to garbage.
LEMMA SgxDecryptSound ==
  ASSUME NEW W \in [Keys -> SUBSET Chains], NEW k \in Keys, NEW p \in Block,
         NEW u \in Seq(Unit), AllGenuine(Streams(W), u),
         NEW D, D = SgxDecrypt(k, p, u)
  PROVE  /\ D \in Seq(Data \cup {Garbage})
         /\ DataOwned(W, k, D)
         /\ (p = IV(k) /\ Len(D) > 0 /\ D[1] # Garbage) => <<D[1]>> \in W[k]
  <1> DEFINE m == Len(u) \div BLK
             q(j) == IF j = 1 THEN p ELSE BlockAt(u, j - 1)
  <1>1. m \in Nat
    <2>1. Len(u) \in Nat
      OBVIOUS
    <2> QED BY <2>1, DivMod
  <1>2. D = [j \in 1..m |-> SgxDecryptBlock(k, q(j), BlockAt(u, j))]
    BY DEF SgxDecrypt
  <1>3. \A j \in 1..m : q(j) \in Block
    <2> SUFFICES ASSUME NEW j \in 1..m PROVE q(j) \in Block
      OBVIOUS
    <2>1. j # 1 => j - 1 \in 1..m
      BY <1>1
    <2> QED BY <2>1, BlockAtType
  <1>4. q(1) = p
    OBVIOUS
  <1> DEFINE Own(x) == \E o \in Keys : /\ o[1] = k[1] /\ KeyId[o[2]] = KeyId[k[2]]
                                       /\ \E s \in W[o] : s # << >> /\ Last(s) = x
  <1>5. ASSUME NEW j \in 1..m, D[j] # Garbage
        PROVE  D[j] \in Data /\ Own(D[j]) /\ (q(j) = IV(k) => <<D[j]>> \in W[k])
    <2>1. D[j] = SgxDecryptBlock(k, q(j), BlockAt(u, j))
      BY <1>2
    <2>2. q(j) \in Block /\ j \in 1..(Len(u) \div BLK)
      BY <1>3
    <2> HIDE DEF q, m
    <2> QED BY <1>5, <2>1, <2>2, SgxDecryptOwn
  <1> HIDE DEF q, m, Own
  <1>6. DOMAIN D = 1..m /\ \A j \in 1..m : D[j] \in Data \cup {Garbage}
    BY <1>2, <1>5
  <1>7. D \in [1..m -> Data \cup {Garbage}]
    BY <1>2, <1>6
  <1>8. D \in Seq(Data \cup {Garbage}) /\ Len(D) = m
    BY <1>1, <1>7, SeqDef
  <1>9. \A j \in 1..Len(D) : D[j] # Garbage => Own(D[j])
    BY <1>5, <1>8
  <1>10. (p = IV(k) /\ Len(D) > 0 /\ D[1] # Garbage) => <<D[1]>> \in W[k]
    BY <1>1, <1>4, <1>5, <1>8
  <1> QED BY <1>8, <1>9, <1>10 DEF Own, DataOwned

(***************************************************************************)
(*                             The actions                                 *)
(***************************************************************************)

\* A result without data.
LEMMA NothingReturned ==
  ASSUME NEW W, NEW t, NEW r \in Result
  PROVE  Returned(r) \in RetRec /\ RetOwn(W, t, Returned(r))
  <1>1. Returned(r).data = << >>
    BY DEF Returned
  <1> QED BY <1>1, RecordTypes DEF RetOwn

\* SgxOpen: the descriptor may be none of the process's when the ocall failed.
LEMMA SgxOpenInv ==
  ASSUME SgxInv, NEW a \in Apps, NEW id \in ObjectIDs, NEW flags \in OpenArgs,
         NEW ocreat \in BOOLEAN, SgxOpen(a, id, flags, ocreat)
  PROVE  SgxInv'
  <1> DEFINE of == flags2flags(flags, ocreat)
  <1>0. /\ HostOK /\ HandlesOK /\ CountersOK /\ WrittenOK
        /\ heap \in [Apps -> SUBSET Data]
    BY SgxParts
  <1>1. of \in OpenFlags /\ FileOf[id] \in Names
    BY DEF flags2flags, OpenArgs, OpenFlags, Modes
  <1> HIDE DEF of
  <1>2. PICK desc \in Fds \cup {-1}, f \in 0..1, k \in 0..1 :
          /\ Faults(f + k)
          /\ \/ ocall_open_file(a, FileOf[id], of, desc, f)
             \/ OcallFails(f)
          /\ \/ /\ (desc < 0 /\ k = 0) \/ (desc >= 0 /\ k = 1)
                /\ Failed(a)
                /\ UNCHANGED handle
             \/ /\ desc >= 0 /\ k = 0
                /\ \E h \in Handles :
                   /\ handle[a][h].st # "open"
                   /\ handle' = [handle EXCEPT ![a][h] =
                         [st |-> "open", id |-> id, desc |-> desc,
                          mode |-> IF flags.write THEN "w" ELSE "r",
                          prev |-> ObjectIV(a, id)]]
                /\ Return(a, Returned("SUCCESS"))
    BY DEF SgxOpen, of
  <1>3. /\ Running(a) /\ opens < MaxOpens /\ opens' = opens + 1
        /\ UNCHANGED <<inst, call, written, heap>>
    BY DEF SgxOpen
  <1>4. HostOK'
    <2>1. OcallFails(f) => HostOK'
      BY <1>0 DEF OcallFails, HostOK
    <2>2. ocall_open_file(a, FileOf[id], of, desc, f) => HostOK'
      BY <1>0, <1>1, OpenHost
    <2> QED BY <1>2, <2>1, <2>2
  <1>5. CountersOK'
    <2>1. opens' \in 0..MaxOpens
      BY <1>0, <1>3 DEF CountersOK
    <2> QED BY <1>0, <1>2, <2>1, FaultsType
  <1>6. \A b \in Apps \ {a} : fdt'[b] = fdt[b]
    BY <1>0, <1>2, OwnDescriptors
  <1>7. \A n \in Names : AllGenuine(Streams(written'), file'[n])
    <2>1. \A n \in Names : AllGenuine(Streams(written), file[n])
      BY DEF SgxInv, Origins
    <2>2. ASSUME OcallFails(f) PROVE \A n \in Names : AllGenuine(Streams(written), file'[n])
      <3>1. file' = file
        BY <2>2 DEF OcallFails
      <3> QED BY <2>1, <3>1
    <2>3. ASSUME ocall_open_file(a, FileOf[id], of, desc, f)
          PROVE \A n \in Names : AllGenuine(Streams(written), file'[n])
      BY <1>0, <1>1, <2>1, <2>3, OpenFileGenuine
    <2> QED BY <1>2, <1>3, <2>2, <2>3
  <1>8. \/ handle' = handle
        \/ \E h \in Handles, g \in HandleRec :
              GoodHandle(a, g) /\ handle' = [handle EXCEPT ![a][h] = g]
    <2> DEFINE g == [st |-> "open", id |-> id, desc |-> desc,
                     mode |-> IF flags.write THEN "w" ELSE "r",
                     prev |-> ObjectIV(a, id)]
    <2>1. ASSUME desc >= 0 PROVE g \in HandleRec /\ GoodHandle(a, g)
      <3>1. ObjectIV(a, id) \in Block /\ ObjectIV(a, id).key = <<TaOf[a], id>>
        BY DEF ObjectIV, IV, Block, Chains, Keys
      <3>2. desc \in Fds
        BY <2>1 DEF Fds
      <3>3. g \in HandleRec
        BY <3>1, <3>2 DEF HandleRec, Modes
      <3>4. GoodHandle(a, g)
        BY <3>1, <3>2 DEF GoodHandle
      <3> QED BY <3>3, <3>4
    <2>2. handle' = handle \/ (desc >= 0 /\ \E h \in Handles :
             handle' = [handle EXCEPT ![a][h] = g])
      BY <1>2
    <2> HIDE DEF g
    <2> QED BY <2>1, <2>2
  <1>9. PICK r \in {"SUCCESS", "GENERIC"} : Return(a, Returned(r))
    BY <1>2 DEF Failed
  <1>10. Returned(r) \in RetRec /\ RetOwn(written', TaOf[a], Returned(r))
    BY NothingReturned DEF Result
  <1>11. heap' = [heap EXCEPT ![a] = heap[a]] /\ heap[a] \in SUBSET Data
         /\ heap[a] \subseteq Measured(written', TaOf[a])
    BY <1>0, <1>3 DEF SgxInv, Origins
  <1>12. WrittenOK' /\ \A q \in Keys : written[q] \subseteq written'[q]
    BY <1>0, <1>3 DEF WrittenOK
  <1> QED BY <1>3, <1>4, <1>5, <1>6, <1>7, <1>8, <1>9, <1>10, <1>11, <1>12, RunStep

\* SgxClose, with or without an abort.
LEMMA SgxCloseInv ==
  ASSUME SgxInv, NEW a \in Apps, NEW h \in Handles, SgxClose(a, h)
  PROVE  SgxInv'
  <1>0. /\ HostOK /\ HandlesOK /\ CountersOK /\ WrittenOK
        /\ heap \in [Apps -> SUBSET Data]
    BY SgxParts
  <1>1. PICK rv \in {0, -1}, f \in 0..1 :
          /\ ocall_close_file(a, handle[a][h].desc, rv, f) \/ OcallFails(f)
          /\ Faults(f)
          /\ \/ rv # 0 /\ SgxPanic(a)
             \/ /\ rv = 0
                /\ handle' = [handle EXCEPT ![a][h] = Closed(handle[a][h].desc)]
                /\ Return(a, Returned("SUCCESS"))
                /\ UNCHANGED <<inst, call, written, opens, heap>>
    BY DEF SgxClose
  <1>2. HostOK' /\ file' = file
    <2>1. OcallFails(f) => HostOK' /\ file' = file
      BY <1>0 DEF OcallFails, HostOK
    <2> QED BY <1>0, <1>1, <2>1, CloseHost
  <1>3. CountersOK'
    <2>1. opens' = opens
      BY <1>1 DEF SgxPanic, LeaveInstance
    <2> QED BY <1>0, <1>1, <2>1, FaultsType DEF CountersOK
  <1>4. \A b \in Apps \ {a} : fdt'[b] = fdt[b]
    BY <1>0, <1>1, OwnDescriptors
  <1>5. CASE SgxPanic(a)
    BY <1>2, <1>3, <1>4, <1>5, LeaveStep DEF SgxPanic
  <1>6. CASE /\ handle' = [handle EXCEPT ![a][h] = Closed(handle[a][h].desc)]
             /\ Return(a, Returned("SUCCESS"))
             /\ UNCHANGED <<inst, call, written, opens, heap>>
    <2> DEFINE g == Closed(handle[a][h].desc)
    <2>1. g \in HandleRec /\ g.st = "closed"
      <3>1. handle[a][h] \in HandleRec
        BY <1>0 DEF HandlesOK
      <3> QED BY <3>1 DEF HandleRec, Closed, Torn, Block, Chains, Modes
    <2>2. handle' = [handle EXCEPT ![a][h] = g]
      BY <1>6
    <2> HIDE DEF g
    <2>3. GoodHandle(a, g)
      BY <2>1 DEF GoodHandle
    <2>4. Running(a)
      BY DEF SgxClose
    <2>5. \A n \in Names : AllGenuine(Streams(written'), file'[n])
      BY <1>2, <1>6 DEF SgxInv, Origins
    <2>6. /\ Returned("SUCCESS") \in RetRec
          /\ RetOwn(written', TaOf[a], Returned("SUCCESS"))
      BY NothingReturned DEF Result
    <2>7. heap' = [heap EXCEPT ![a] = heap[a]] /\ heap[a] \in SUBSET Data
          /\ heap[a] \subseteq Measured(written', TaOf[a])
      BY <1>0, <1>6 DEF SgxInv, Origins
    <2>8. WrittenOK' /\ \A q \in Keys : written[q] \subseteq written'[q]
      BY <1>0, <1>6 DEF WrittenOK
    <2>9. \E i \in Handles, e \in HandleRec :
             GoodHandle(a, e) /\ handle' = [handle EXCEPT ![a][i] = e]
      BY <2>1, <2>2, <2>3
    <2> QED BY <1>2, <1>3, <1>4, <1>6, <2>4, <2>5, <2>6, <2>7, <2>8, <2>9, RunStep
  <1> QED BY <1>1, <1>5, <1>6

\* SgxWrite: what it encrypts is a stream under the AES key of the owner, and the
\* first block of a stream one of the owner itself.
LEMMA SgxWriteInv ==
  ASSUME SgxInv, NEW a \in Apps, NEW h \in Handles, NEW d \in Chains, SgxWrite(a, h, d)
  PROVE  SgxInv'
  <1> DEFINE g == handle[a][h]
             k == g.prev.key
             s == g.prev.chain
             w == Encrypts(a, h)
             own == Owner(a, h)
             data == IF w THEN Encrypt(k, s, d) ELSE [i \in 1..(BLK * Len(d)) |-> Hole]
             new == {s \o SubSeq(d, 1, j) : j \in 1..Len(d)}
             g2 == IF d = << >> THEN g
                   ELSE IF w THEN Chained(g, [key |-> k, chain |-> s \o d])
                   ELSE Chained(g, Torn)
  <1>0. /\ HostOK /\ HandlesOK /\ CountersOK /\ WrittenOK
        /\ heap \in [Apps -> SUBSET Data]
    BY SgxParts
  <1>1. Running(a) /\ Live(a, h) /\ UNCHANGED <<inst, call, opens, heap>>
    BY DEF SgxWrite
  <1>2. g \in HandleRec /\ g.st = "open" /\ g.id \in ObjectIDs /\ g.desc \in Fds
    BY <1>0, <1>1 DEF HandlesOK, Live
  <1>3. own \in Keys /\ s \in Chains /\ k \in Keys \cup {NoKey}
    BY <1>2 DEF Owner, Keys, HandleRec, Block
  <1>4. w => k \in Keys /\ AesKey(k) = AesKey(own)
    BY <1>3 DEF Encrypts
  <1>5. w /\ s = << >> => k = own
    <2>1. GoodHandle(a, g)
      BY DEF SgxInv, FreshOwn
    <2> QED BY <1>2, <2>1 DEF GoodHandle, Encrypts, Owner
  <1>6. handle' = [handle EXCEPT ![a][h] = g2]
    BY DEF SgxWrite
  <1>7. written' = [written EXCEPT ![own] = IF w THEN written[own] \cup new ELSE written[own]]
    BY DEF SgxWrite
  <1>8. PICK n \in -1..(BLK * Len(d)), f \in 0..1 :
          /\ Faults(f)
          /\ ocall_write_file256(a, g.desc, data, n, f) \/ OcallFails(f)
          /\ Return(a, Returned(WriteResult(n)))
    BY DEF SgxWrite
  <1>9. BLK * Len(d) \in Nat /\ n \in Int
    BY MulNat DEF Chains
  <1>10. new \in SUBSET Chains /\ \A e \in new : e # << >>
    BY <1>3, ChainType
  <1>11. /\ WrittenOK' /\ \A q \in Keys : written[q] \subseteq written'[q]
         /\ w => new \subseteq written'[own]
    <2> HIDE DEF new, w, own
    <2> QED BY <1>0, <1>3, <1>7, <1>10 DEF WrittenOK
  <1>12. ASSUME w PROVE new \subseteq Streams(written')[k]
    <2>1. k \in Keys /\ own \in Siblings(k)
      BY <1>3, <1>4, <1>12 DEF Siblings
    <2> SUFFICES ASSUME NEW j \in 1..Len(d)
                 PROVE  s \o SubSeq(d, 1, j) \in Streams(written')[k]
      OBVIOUS
    <2> DEFINE e == s \o SubSeq(d, 1, j)
    <2>2. e \in written'[own]
      BY <1>11, <1>12
    <2>3. Len(e) = Len(s) + j /\ Len(s) \in Nat
      <3>1. s \in Seq(Data)
        BY <1>3 DEF Chains
      <3> HIDE DEF s
      <3>2. Len(s) \in Nat
        BY <3>1
      <3>3. Len(e) = Len(s) + j
        BY <1>3, ChainType
      <3> QED BY <3>2, <3>3
    <2>4. Len(e) = 1 => k = own
      <3>1. Len(e) = 1 => Len(s) = 0
        BY <2>3
      <3>2. Len(s) = 0 => s = << >>
        BY <1>3 DEF Chains
      <3> QED BY <1>5, <1>12, <3>1, <3>2
    <2> HIDE DEF e, k, own, s, w, new
    <2>5. e \in UNION {written'[o] : o \in Siblings(k)}
      BY <2>1, <2>2
    <2>6. e \in Streams(written')[k]
      BY <2>1, <2>2, <2>4, <2>5 DEF Streams
    <2> QED BY <2>6 DEF e
  <1>13. data \in Seq(Unit) /\ AllGenuine(Streams(written'), data)
    <2>1. CASE w
      <3>1. data = Encrypt(k, s, d) /\ k \in Keys
        BY <1>4, <2>1
      <3>2. new \subseteq Streams(written')[k]
        BY <1>12, <2>1
      <3> HIDE DEF k, s, data, w
      <3>3. Encrypt(k, s, d) \in Seq(Unit)
        BY <1>3, <3>1, EncryptType
      <3>4. AllOf(Encrypt(k, s, d), k, new)
        BY <1>3, <3>1, EncryptType, ZenonT(60)
      <3> HIDE DEF new
      <3> QED BY <3>1, <3>2, <3>3, <3>4 DEF AllGenuine, AllOf
    <2>2. CASE ~w
      <3> DEFINE m == BLK * Len(d)
      <3>1. data = [i \in 1..m |-> Hole]
        BY <2>2
      <3>2. m \in Nat
        BY <1>9
      <3> HIDE DEF m, data
      <3> QED BY <3>1, <3>2, Holes
    <2> QED BY <2>1, <2>2
  <1>14. g2 \in HandleRec /\ GoodHandle(a, g2)
    <2>1. Torn \in Block /\ Torn.key = NoKey
      BY DEF Torn, Block, Chains
    <2>2. CASE d = << >>
      BY <1>2, <2>2 DEF SgxInv, FreshOwn
    <2>3. CASE d # << >> /\ w
      <3> DEFINE c == [key |-> k, chain |-> s \o d]
      <3>1. s \o d \in Chains /\ s \o d # << >>
        <4>1. s \in Seq(Data) /\ d \in Seq(Data) /\ Len(d) > 0
          BY <1>3, <2>3 DEF Chains
        <4> HIDE DEF s
        <4>2. s \o d \in Seq(Data) /\ Len(s \o d) = Len(s) + Len(d)
          BY <4>1, ConcatProperties
        <4>3. Len(s \o d) > 0
          BY <4>1, <4>2
        <4> QED BY <4>2, <4>3 DEF Chains
      <3>2. c \in Block /\ c.chain # << >>
        BY <1>4, <2>3, <3>1 DEF Block
      <3>3. g2 = Chained(g, c)
        BY <2>3
      <3> HIDE DEF c, g2, g
      <3> QED BY <1>2, <3>2, <3>3 DEF Chained, HandleRec, GoodHandle
    <2>4. CASE d # << >> /\ ~w
      <3>1. g2 = Chained(g, Torn)
        BY <2>4
      <3> HIDE DEF g2, g
      <3> QED BY <1>2, <2>1, <3>1 DEF Chained, HandleRec, GoodHandle
    <2> QED BY <2>2, <2>3, <2>4
  <1>15. \E i \in Handles, e \in HandleRec :
            GoodHandle(a, e) /\ handle' = [handle EXCEPT ![a][i] = e]
    <2> HIDE DEF g2
    <2> QED BY <1>6, <1>14
  <1>16. \A m \in Names : AllGenuine(Streams(written'), file[m])
    <2>1. /\ Streams(written) \in [Keys -> SUBSET Chains]
          /\ Streams(written') \in [Keys -> SUBSET Chains]
          /\ \A q \in Keys : Streams(written)[q] \subseteq Streams(written')[q]
      BY <1>0, <1>11, StreamsGrow DEF WrittenOK
    <2>2. \A u \in Seq(Unit) : AllGenuine(Streams(written), u) => AllGenuine(Streams(written'), u)
      BY <2>1, Grow
    <2> QED BY <1>0, <2>2 DEF HostOK, SgxInv, Origins
  <1> HIDE DEF data, g, g2, new, w, own, k, s
  <1>17. HostOK' /\ \A m \in Names : AllGenuine(Streams(written'), file'[m])
    <2>1. ASSUME OcallFails(f)
          PROVE  HostOK' /\ \A m \in Names : AllGenuine(Streams(written'), file'[m])
      <3>1. HostOK' /\ file' = file
        BY <1>0, <2>1 DEF OcallFails, HostOK
      <3> QED BY <1>16, <3>1
    <2>2. ASSUME ocall_write_file256(a, g.desc, data, n, f)
          PROVE  HostOK' /\ \A m \in Names : AllGenuine(Streams(written'), file'[m])
      <3>1. HostOK'
        BY <1>0, <1>9, <1>13, <2>2, WriteHost
      <3> DEFINE W == Streams(written')
      <3>2. AllGenuine(W, data) /\ \A m \in Names : AllGenuine(W, file[m])
        BY <1>13, <1>16
      <3> HIDE DEF W
      <3>3. \A m \in Names : AllGenuine(W, file'[m])
        BY <1>0, <1>9, <1>13, <2>2, <3>2, WriteFileGenuine
      <3> QED BY <3>1, <3>3 DEF W
    <2> QED BY <1>8, <2>1, <2>2
  <1>18. CountersOK'
    BY <1>0, <1>1, <1>8, FaultsType DEF CountersOK
  <1>19. \A b \in Apps \ {a} : fdt'[b] = fdt[b]
    BY <1>0, <1>8, OwnDescriptors
  <1>20. /\ Returned(WriteResult(n)) \in RetRec
         /\ RetOwn(written', TaOf[a], Returned(WriteResult(n)))
    <2>1. WriteResult(n) \in Result
      BY DEF WriteResult, Result
    <2> QED BY <2>1, NothingReturned
  <1>21. heap' = [heap EXCEPT ![a] = heap[a]] /\ heap[a] \in SUBSET Data
         /\ heap[a] \subseteq Measured(written', TaOf[a])
    <2>1. \A t : Measured(written, t) \subseteq Measured(written', t)
      BY <1>0, <1>11, StreamsGrow DEF WrittenOK
    <2> QED BY <1>0, <1>1, <2>1 DEF SgxInv, Origins
  <1> QED BY <1>1, <1>8, <1>11, <1>15, <1>17, <1>18, <1>19, <1>20, <1>21, RunStep

\* The answer n of the ocall of a read, which may fail, and the buffer it leaves.
ReadAnswer(a, fd, size, n, f, called) ==
    IF called THEN ocall_read_file256(a, fd, size, n, f) ELSE OcallFails(f)
ReadBuffer(a, fd, n, called) ==
    IF called THEN UnitsRead(a, fd, n) ELSE [i \in 1..n |-> Hole]

\* The buffer of a read: genuine units of the file, or none when the ocall failed.
LEMMA SgxBuffer ==
  ASSUME SgxInv, NEW a \in Apps, NEW fd, NEW size \in Nat, NEW n \in Int, n > 0, NEW f,
         NEW called \in BOOLEAN, ReadAnswer(a, fd, size, n, f, called),
         NEW buf, buf = ReadBuffer(a, fd, n, called)
  PROVE  buf \in Seq(Unit) /\ Len(buf) = n /\ AllGenuine(Streams(written), buf)
  <1>0. HostOK /\ \A m \in Names : AllGenuine(Streams(written), file[m])
    BY SgxParts DEF SgxInv, Origins
  <1>1. CASE called
    <2> DEFINE W == Streams(written)
    <2>1. ocall_read_file256(a, fd, size, n, f) /\ buf = UnitsRead(a, fd, n)
      BY <1>1 DEF ReadAnswer, ReadBuffer
    <2>2. \A m \in Names : AllGenuine(W, file[m])
      BY <1>0
    <2> HIDE DEF W
    <2>3. /\ UnitsRead(a, fd, n) \in Seq(Unit) /\ Len(UnitsRead(a, fd, n)) = n
          /\ AllGenuine(W, UnitsRead(a, fd, n))
      BY <1>0, <2>1, <2>2, ReadUnitsGenuine
    <2>4. buf \in Seq(Unit) /\ Len(buf) = n /\ AllGenuine(W, buf)
      BY <2>1, <2>3
    <2> QED BY <2>4 DEF W
  <1>2. CASE ~called
    <2>1. buf = [i \in 1..n |-> Hole] /\ n \in Nat
      BY <1>2 DEF ReadBuffer
    <2> QED BY ZenonT(60), <2>1, Holes
  <1> QED BY <1>1, <1>2

\* What a read hands back has its type.
LEMMA ReadResult ==
  ASSUME NEW k \in Keys, NEW n \in Nat, NEW d \in Seq(Data \cup {Garbage}),
         NEW r, r = ReadReturned("SUCCESS", k, n, n, d)
  PROVE  r \in RetRec /\ r.data = d /\ r.count = n /\ r.owner = k
  BY DEF ReadReturned, RetRec, Result

\* The chaining value that a read leaves is a block, and no IV.
LEMMA LastBlockRead ==
  ASSUME NEW u \in Seq(Unit), Len(u) > 0, Len(u) % BLK = 0
  PROVE  /\ LastBlock(u) \in Block
         /\ LastBlock(u).key # NoKey => LastBlock(u).chain # << >>
  <1> DEFINE l == Len(u)
             m == l \div BLK
  <1>1. l \in Nat /\ l > 0 /\ l % BLK = 0
    OBVIOUS
  <1> HIDE DEF l
  <1> DEFINE r == l % BLK
  <1>2. m \in Nat /\ r \in 0..(BLK - 1) /\ l = BLK * m + r
    BY <1>1
  <1> HIDE DEF m
  <1>3. m # 0
    BY <1>1, <1>2
  <1>4. m \in 1..m
    BY <1>2, <1>3
  <1>5. LastBlock(u) = BlockAt(u, m) /\ m \in 1..(Len(u) \div BLK)
    BY <1>4 DEF LastBlock, m, l
  <1>6. BlockAt(u, m) \in Block
    BY <1>5, BlockAtType
  <1>7. BlockAt(u, m).key # NoKey => BlockAt(u, m).chain # << >>
    BY DEF BlockAt, Torn
  <1> QED BY <1>5, <1>6, <1>7

\* SgxRead: decrypted blocks are owned; a partial block brings back what the
\* enclave's own reads left in its heap.
LEMMA SgxReadInv ==
  ASSUME SgxInv, NEW a \in Apps, NEW h \in Handles, NEW blocks \in Nat,
         SgxRead(a, h, blocks)
  PROVE  SgxInv'
  <1> DEFINE g == handle[a][h]
             own == Owner(a, h)
             Buf(n, called) == IF called THEN UnitsRead(a, g.desc, n)
                               ELSE [i \in 1..n |-> Hole]
             Reads(n, d) == Return(a, ReadReturned("SUCCESS", own, n, n, d))
             Plain(n, called) == IF g.mode = "r" THEN SgxDecrypt(own, g.prev, Buf(n, called))
                                 ELSE [j \in Blocks(n) |-> Garbage]
  <1>0. /\ HostOK /\ HandlesOK /\ CountersOK /\ WrittenOK
        /\ heap \in [Apps -> SUBSET Data]
    BY SgxParts
  <1>1. Running(a) /\ Live(a, h) /\ UNCHANGED <<inst, call, written, opens>>
    BY DEF SgxRead
  <1>2. g \in HandleRec /\ g.st = "open" /\ g.id \in ObjectIDs /\ g.desc \in Fds
    BY <1>0, <1>1 DEF HandlesOK, Live
  <1>3. own \in Keys /\ g.prev \in Block /\ own[1] = TaOf[a]
    BY <1>2 DEF Owner, Keys, HandleRec
  <1>4. PICK n \in -1..(BLK * blocks), f \in 0..1, m \in 0..1, called \in BOOLEAN :
          /\ Faults(f + m)
          /\ IF called THEN ocall_read_file256(a, g.desc, BLK * blocks, n, f)
                       ELSE OcallFails(f)
          /\ \/ /\ (n < 0 /\ m = 0) \/ (n > 0 /\ m = 1)
                /\ Failed(a)
                /\ UNCHANGED <<handle, heap>>
             \/ /\ n = 0 /\ m = 0
                /\ Return(a, Returned("SUCCESS"))
                /\ UNCHANGED <<handle, heap>>
             \/ /\ n > 0 /\ n % BLK # 0 /\ m = 0
                /\ \E d \in [Blocks(n) -> heap[a] \cup {Garbage}] : Reads(n, d)
                /\ UNCHANGED <<handle, heap>>
             \/ /\ n > 0 /\ n % BLK = 0 /\ m = 0
                /\ /\ Reads(n, Plain(n, called))
                   /\ heap' = [heap EXCEPT ![a] = @ \cup (Range(Plain(n, called)) \ {Garbage})]
                /\ handle' = [handle EXCEPT ![a][h] = Chained(@, LastBlock(Buf(n, called)))]
    BY ZenonT(60) DEF SgxRead
  <1>5. BLK * blocks \in Nat /\ n \in Int
    BY MulNat
  <1>6. HostOK' /\ file' = file
    <2>1. CASE called
      BY <1>0, <1>4, <1>5, <2>1, ReadHost
    <2>2. CASE ~called
      BY <1>0, <1>4, <2>2 DEF OcallFails, HostOK
    <2> QED BY <2>1, <2>2
  <1>7. CountersOK'
    <2>1. f + m \in Nat
      OBVIOUS
    <2> QED BY <1>0, <1>1, <1>4, <2>1, FaultsType DEF CountersOK
  <1>8. \A b \in Apps \ {a} : fdt'[b] = fdt[b]
    BY <1>0, <1>4, OwnDescriptors
  <1>9. \A i \in Names : AllGenuine(Streams(written'), file'[i])
    BY <1>1, <1>6 DEF SgxInv, Origins
  <1>10. WrittenOK' /\ \A q \in Keys : written[q] \subseteq written'[q]
    BY <1>0, <1>1 DEF WrittenOK
  <1>11. heap[a] \in SUBSET Data /\ heap[a] \subseteq Measured(written', TaOf[a])
    BY <1>0, <1>1 DEF SgxInv, Origins
  <1>12. ASSUME heap' = heap PROVE heap' = [heap EXCEPT ![a] = heap[a]]
    BY <1>0, <1>12
  <1> HIDE DEF g, own
  <1>13. ASSUME NEW r \in {"SUCCESS", "GENERIC"}, Return(a, Returned(r)),
                UNCHANGED <<handle, heap>>
         PROVE  SgxInv'
    <2>1. Returned(r) \in RetRec /\ RetOwn(written', TaOf[a], Returned(r))
      BY NothingReturned DEF Result
    <2> QED BY <1>1, <1>6, <1>7, <1>8, <1>9, <1>10, <1>11, <1>12, <1>13, <2>1, RunStep
  <1>14. ASSUME n > 0, n % BLK # 0, UNCHANGED <<handle, heap>>,
                NEW d \in [Blocks(n) -> heap[a] \cup {Garbage}], Reads(n, d)
         PROVE  SgxInv'
    <2> DEFINE m1 == (n + BLK - 1) \div BLK
               r == ReadReturned("SUCCESS", own, n, n, d)
    <2>1. m1 \in Nat /\ n \in Nat
      <3>1. n + BLK - 1 \in Nat /\ n \in Nat
        BY <1>5, <1>14
      <3> QED BY <3>1, DivMod
    <2>2. d \in [1..m1 -> Data \cup {Garbage}] /\ d \in [1..m1 -> heap[a] \cup {Garbage}]
      BY <1>11 DEF Blocks
    <2> HIDE DEF m1
    <2>3. d \in Seq(Data \cup {Garbage}) /\ Len(d) = m1
      BY <2>1, <2>2, SeqDef
    <2>4. r \in RetRec /\ r.data = d /\ r.count = n /\ r.owner = own
      BY <1>3, <2>1, <2>3, ReadResult
    <2> HIDE DEF r
    <2>5. RetOwn(written', TaOf[a], r)
      <3> SUFFICES ASSUME NEW j \in 1..Len(d), d[j] # Garbage
                   PROVE  \E o \in Keys : /\ o[1] = TaOf[a]
                                          /\ \E s \in written'[o] : s # << >> /\ Last(s) = d[j]
        BY <1>14, <2>4 DEF RetOwn
      <3>1. d[j] \in heap[a]
        BY <2>2, <2>3
      <3>2. d[j] \in Measured(written', TaOf[a])
        BY <1>11, <3>1
      <3> QED BY <3>2 DEF Measured
    <2>6. Return(a, r)
      BY <1>14 DEF r
    <2> QED BY <1>1, <1>6, <1>7, <1>8, <1>9, <1>10, <1>11, <1>12, <1>14, <2>4, <2>5, <2>6,
               RunStep
  <1>15. ASSUME n > 0, n % BLK = 0, Reads(n, Plain(n, called)),
                heap' = [heap EXCEPT ![a] = @ \cup (Range(Plain(n, called)) \ {Garbage})],
                handle' = [handle EXCEPT ![a][h] = Chained(@, LastBlock(Buf(n, called)))]
         PROVE  SgxInv'
    <2> DEFINE u == Buf(n, called)
               D == Plain(n, called)
               r == ReadReturned("SUCCESS", own, n, n, D)
               c == LastBlock(u)
               g2 == Chained(g, c)
               H == heap[a] \cup (Range(D) \ {Garbage})
               Own(x) == \E o \in Keys : /\ o[1] = own[1] /\ KeyId[o[2]] = KeyId[own[2]]
                                         /\ \E s \in written'[o] : s # << >> /\ Last(s) = x
    <2>1. u \in Seq(Unit) /\ Len(u) = n /\ AllGenuine(Streams(written), u)
      <3> DEFINE z == BLK * blocks
      <3>1. z \in Nat /\ ReadAnswer(a, g.desc, z, n, f, called)
        BY <1>4, <1>5 DEF ReadAnswer
      <3>2. u = ReadBuffer(a, g.desc, n, called)
        BY DEF ReadBuffer
      <3> HIDE DEF z, u
      <3> QED BY <1>5, <1>15, <3>1, <3>2, SgxBuffer
    <2>2. n \in Nat
      BY <1>5, <1>15
    <2>3. D = IF g.mode = "r" THEN SgxDecrypt(own, g.prev, u) ELSE [j \in Blocks(n) |-> Garbage]
      OBVIOUS
    <2> HIDE DEF u, D
    <2>4. D \in Seq(Data \cup {Garbage}) /\ \A j \in 1..Len(D) : D[j] # Garbage => Own(D[j])
      <3>1. CASE g.mode = "r"
        <4>1. D = SgxDecrypt(own, g.prev, u)
          BY <2>3, <3>1
        <4>2. written' \in [Keys -> SUBSET Chains] /\ AllGenuine(Streams(written'), u)
          BY <1>0, <1>1, <2>1 DEF WrittenOK
        <4> DEFINE V == written'
        <4>3. V \in [Keys -> SUBSET Chains] /\ AllGenuine(Streams(V), u)
          BY <4>2
        <4> HIDE DEF V
        <4>4. D \in Seq(Data \cup {Garbage}) /\ DataOwned(V, own, D)
          BY <1>3, <2>1, <4>1, <4>3, SgxDecryptSound
        <4> QED BY <4>4 DEF V, DataOwned
      <3>2. CASE g.mode # "r"
        <4> DEFINE m1 == (n + BLK - 1) \div BLK
        <4>1. m1 \in Nat
          <5>1. n + BLK - 1 \in Nat
            BY <2>2
          <5> QED BY <5>1, DivMod
        <4>2. D = [j \in 1..m1 |-> Garbage]
          BY <2>3, <3>2 DEF Blocks
        <4> HIDE DEF m1
        <4>3. D \in [1..m1 -> Data \cup {Garbage}] /\ \A j \in 1..m1 : D[j] = Garbage
          BY <4>2
        <4>4. D \in Seq(Data \cup {Garbage}) /\ Len(D) = m1
          BY <4>1, <4>3, SeqDef
        <4> QED BY <4>3, <4>4
      <3> QED BY <3>1, <3>2
    <2>5. r \in RetRec /\ r.data = D /\ r.count = n /\ r.owner = own
      BY <1>3, <2>2, <2>4, ReadResult
    <2>6. RetOwn(written', TaOf[a], r)
      <3> HIDE DEF r
      <3> QED BY <1>3, <2>4, <2>5 DEF RetOwn
    <2>7. H \in SUBSET Data /\ H \subseteq Measured(written', TaOf[a])
      <3> SUFFICES ASSUME NEW x \in Range(D), x # Garbage
                   PROVE  x \in Data /\ x \in Measured(written', TaOf[a])
        BY <1>11
      <3>1. PICK j \in 1..Len(D) : x = D[j]
        BY <2>4 DEF Range
      <3>2. x \in Data /\ Own(x)
        BY <2>4, <3>1
      <3> QED BY <1>3, <3>2 DEF Measured
    <2>8. c \in Block /\ (c.key # NoKey => c.chain # << >>)
      BY <1>15, <2>1, LastBlockRead
    <2>9. g2 \in HandleRec /\ GoodHandle(a, g2)
      <3> HIDE DEF c
      <3> QED BY <1>2, <2>8 DEF Chained, HandleRec, GoodHandle
    <2>10. handle' = [handle EXCEPT ![a][h] = g2]
      BY <1>15 DEF g, u
    <2>11. heap' = [heap EXCEPT ![a] = H] /\ Return(a, r)
      BY <1>15 DEF D
    <2> HIDE DEF g2, H, r
    <2>12. \E i \in Handles, e \in HandleRec :
             GoodHandle(a, e) /\ handle' = [handle EXCEPT ![a][i] = e]
      BY <2>9, <2>10
    <2> QED BY <1>1, <1>6, <1>7, <1>8, <1>9, <1>10, <2>5, <2>6, <2>7, <2>11, <2>12, RunStep
  <1> HIDE DEF Buf, Reads, Plain
  <1> QED BY <1>4, <1>13, <1>14, <1>15 DEF Failed

\* The initial state.
LEMMA SgxInitInv == SgxInit => SgxInv
  <1> SUFFICES ASSUME SgxInit PROVE SgxInv
    OBVIOUS
  <1>1. TypeOK
    BY InitSafe DEF SgxInit, Safe
  <1>2. /\ heap = [a \in Apps |-> {}] /\ inst = [a \in Apps |-> "none"]
        /\ handle = [a \in Apps |-> [h \in Handles |-> NULL]]
        /\ call = [a \in Apps |-> Idle] /\ ret = [a \in Apps |-> NoResult]
        /\ file = [n \in Names |-> << >>]
        /\ fdt = [a \in Apps |-> [fd \in Fds |-> ClosedFd]]
    BY DEF SgxInit, Init, HostInit
  <1>3. SgxTypeOK
    BY <1>1, <1>2 DEF SgxTypeOK, FreeFds, ClosedFd
  <1>4. FreshOwn
    BY <1>2 DEF FreshOwn, GoodHandle, NULL
  <1>5. Origins
    <2>1. NoResult.data = << >>
      BY DEF NoResult, Returned
    <2>2. \A a \in Apps : RetOwn(written, TaOf[a], ret[a])
      BY <1>2, <2>1 DEF RetOwn
    <2>3. \A n \in Names : AllGenuine(Streams(written), file[n])
      BY <1>2 DEF AllGenuine
    <2> QED BY <1>2, <2>2, <2>3 DEF Origins
  <1> QED BY <1>3, <1>4, <1>5 DEF SgxInv

\* The start of an enclave.
LEMMA SgxStartInv ==
  ASSUME SgxInv, NEW a \in Apps, initialize_enclave(a)
  PROVE  SgxInv'
  <1>0. /\ HostOK /\ HandlesOK /\ CallsOK /\ CountersOK /\ InstOK /\ RetOK /\ WrittenOK
        /\ heap \in [Apps -> SUBSET Data] /\ \A b \in Apps : call[b] = Idle
    BY SgxParts
  <1>1. /\ inst' = [inst EXCEPT ![a] = "run"]
        /\ UNCHANGED <<made, file, fdt, faults, handle, call, ret, written, opens, heap>>
    BY DEF initialize_enclave, hostVars
  <1>2. HostOK' /\ HandlesOK' /\ CallsOK' /\ CountersOK' /\ RetOK' /\ WrittenOK' /\ InstOK'
    BY <1>0, <1>1 DEF HostOK, HandlesOK, CallsOK, CountersOK, RetOK, WrittenOK, InstOK, Live
  <1>3. TypeOK'
    BY <1>2, TypePartsNext
  <1>4. \A b \in Apps : inst'[b] = inst[b] \/ inst'[b] = "run"
    BY <1>0, <1>1 DEF InstOK
  <1>5. \A b \in Apps : inst'[b] # "run" =>
           heap'[b] = {} /\ \A h \in Handles : handle'[b][h] = NULL
    BY <1>1, <1>4 DEF SgxInv, SgxTypeOK
  <1>6. \A b \in Apps : inst'[b] = "none" => (FreeFds(b) = Fds)'
    BY <1>1, <1>4 DEF SgxInv, SgxTypeOK, FreeFds
  <1>7. SgxTypeOK'
    BY <1>0, <1>1, <1>3, <1>5, <1>6 DEF SgxTypeOK
  <1>8. FreshOwn' /\ Origins'
    BY <1>1 DEF SgxInv, FreshOwn, GoodHandle, Origins
  <1> QED BY <1>7, <1>8 DEF SgxInv

\* Every step preserves the invariant.
LEMMA SgxStepInv == SgxInv /\ [SgxNext]_sgxVars => SgxInv'
  <1> SUFFICES ASSUME SgxInv, [SgxNext]_sgxVars PROVE SgxInv'
    OBVIOUS
  <1>0. /\ HostOK /\ HandlesOK /\ CountersOK /\ WrittenOK
        /\ heap \in [Apps -> SUBSET Data]
    BY SgxParts
  <1>1. CASE UNCHANGED sgxVars
    <2>1. UNCHANGED <<made, file, fdt, faults, inst, handle, call, ret, written, opens, heap>>
      BY <1>1 DEF sgxVars, vars
    <2> QED BY <2>1 DEF SgxInv, SgxTypeOK, TypeOK, FreshOwn, GoodHandle, Origins, Live,
                        FreeFds
  <1>2. ASSUME NEW a \in Apps, MainReturns(a) PROVE SgxInv'
    <2>1. HostOK' /\ CountersOK' /\ file' = file
      BY <1>0, <1>2 DEF MainReturns, ProcessExit, LeaveInstance, HostOK, CountersOK,
                        ClosedFd, OpenFile, Modes
    <2>2. fdt' = [fdt EXCEPT ![a] = [fd \in Fds |-> ClosedFd]]
      BY <1>2 DEF MainReturns, ProcessExit
    <2>3. /\ \A b \in Apps \ {a} : fdt'[b] = fdt[b]
          /\ \A fd \in Fds : fdt'[a][fd].name = NoFile
      BY <1>0, <2>2 DEF HostOK, ClosedFd
    <2> QED BY <1>2, <2>1, <2>3, LeaveStep DEF MainReturns
  <1>3. ASSUME NEW a \in Apps, SgxCloseNull(a) PROVE SgxInv'
    <2>1. HostOK' /\ CountersOK' /\ file' = file /\ fdt' = fdt
      BY <1>0, <1>3 DEF SgxCloseNull, SgxPanic, LeaveInstance, hostVars, HostOK, CountersOK
    <2> QED BY <1>3, <2>1, LeaveStep DEF SgxCloseNull, SgxPanic
  <1>4. ASSUME NEW a \in Apps, SgxRefused(a) PROVE SgxInv'
    <2>1. /\ Running(a) /\ Return(a, Returned("GENERIC"))
          /\ UNCHANGED <<made, file, fdt, faults, inst, handle, call, written, opens, heap>>
      BY <1>4 DEF SgxRefused, Failed, hostVars
    <2>2. HostOK' /\ CountersOK' /\ WrittenOK'
      BY <1>0, <2>1 DEF HostOK, CountersOK, WrittenOK
    <2>3. /\ \A b \in Apps \ {a} : fdt'[b] = fdt[b]
          /\ \A k \in Keys : written[k] \subseteq written'[k]
          /\ \A n \in Names : AllGenuine(Streams(written'), file'[n])
      BY <2>1 DEF SgxInv, Origins
    <2>4. /\ Returned("GENERIC") \in RetRec
          /\ RetOwn(written', TaOf[a], Returned("GENERIC"))
      BY NothingReturned DEF Result
    <2>5. heap' = [heap EXCEPT ![a] = heap[a]] /\ heap[a] \in SUBSET Data
          /\ heap[a] \subseteq Measured(written', TaOf[a])
      BY <1>0, <2>1 DEF SgxInv, Origins
    <2> QED BY <2>1, <2>2, <2>3, <2>4, <2>5, RunStep
  <1>5. ASSUME NEW a \in Apps, NEW h \in Handles, NEW n \in 0..MaxBlocks,
               NEW d \in [1..n -> Data], SgxWrite(a, h, d)
        PROVE  SgxInv'
    <2>1. d \in Chains
      BY SeqDef DEF Chains
    <2> QED BY <1>5, <2>1, SgxWriteInv
  <1>6. ASSUME NEW a \in Apps, NEW h \in Handles, NEW n \in 0..MaxBlocks, SgxRead(a, h, n)
        PROVE  SgxInv'
    BY <1>6, SgxReadInv
  <1> QED
    <2>1. ASSUME SgxNext PROVE SgxInv'
      BY <1>2, <1>3, <1>4, <1>5, <1>6, <2>1, SgxStartInv, SgxOpenInv, SgxCloseInv DEF SgxNext
    <2> QED BY <1>1, <2>1

\* The SGX build keeps its types, and neither the handles and heap of an enclave
\* nor the descriptors of a process outlive it, whatever ocalls fail.
THEOREM SgxTypeCorrect == SgxSpec => []SgxTypeOK
  <1>1. SgxInv => SgxTypeOK
    BY DEF SgxInv
  <1> QED BY <1>1, SgxInitInv, SgxStepInv, PTL DEF SgxSpec

\* Although reads of partial blocks hand out stale heap memory and failed ocalls
\* leave uninitialised answers, a TA only ever sees plaintext of its own
\* measurement; a read of whole blocks only that of ids with the same key_id.
THEOREM SgxPlaintextIsOwn == SgxSpec => []SgxPlaintextOwn
  <1>1. SgxInv => SgxPlaintextOwn
    BY DEF SgxInv, Origins, RetOwn, SgxPlaintextOwn, WholeRead
  <1> QED BY <1>1, SgxInitInv, SgxStepInv, PTL DEF SgxSpec

\* A read changes no handle but its own.
LEMMA ReadMoves ==
  ASSUME NEW a \in Apps, NEW h \in Handles, NEW blocks, SgxRead(a, h, blocks)
  PROVE  \E e : handle' = handle \/ handle' = [handle EXCEPT ![a][h] = e]
  <1> DEFINE g == handle[a][h]
             Buf(n, called) == IF called THEN UnitsRead(a, g.desc, n)
                               ELSE [i \in 1..n |-> Hole]
             own == Owner(a, h)
             Reads(n, d) == Return(a, ReadReturned("SUCCESS", own, n, n, d))
             Plain(n, called) == IF g.mode = "r" THEN SgxDecrypt(own, g.prev, Buf(n, called))
                                 ELSE [j \in Blocks(n) |-> Garbage]
  <1>1. PICK n \in -1..(BLK * blocks), f \in 0..1, m \in 0..1, called \in BOOLEAN :
          /\ Faults(f + m)
          /\ IF called THEN ocall_read_file256(a, g.desc, BLK * blocks, n, f)
                       ELSE OcallFails(f)
          /\ \/ /\ (n < 0 /\ m = 0) \/ (n > 0 /\ m = 1)
                /\ Failed(a)
                /\ UNCHANGED <<handle, heap>>
             \/ /\ n = 0 /\ m = 0
                /\ Return(a, Returned("SUCCESS"))
                /\ UNCHANGED <<handle, heap>>
             \/ /\ n > 0 /\ n % BLK # 0 /\ m = 0
                /\ \E d \in [Blocks(n) -> heap[a] \cup {Garbage}] : Reads(n, d)
                /\ UNCHANGED <<handle, heap>>
             \/ /\ n > 0 /\ n % BLK = 0 /\ m = 0
                /\ /\ Reads(n, Plain(n, called))
                   /\ heap' = [heap EXCEPT ![a] = @ \cup (Range(Plain(n, called)) \ {Garbage})]
                /\ handle' = [handle EXCEPT ![a][h] = Chained(@, LastBlock(Buf(n, called)))]
    BY ZenonT(60) DEF SgxRead
  <1> HIDE DEF Plain, Reads
  <1>2. UNCHANGED handle \/ handle' = [handle EXCEPT ![a][h] = Chained(@, LastBlock(Buf(n, called)))]
    BY <1>1, Zenon
  <1> QED BY <1>2

\* A read that advances the handle returned what the ciphertext decrypts to.
LEMMA AdvancingRead ==
  ASSUME SgxInv, NEW a \in Apps, NEW h \in Handles, NEW blocks \in Nat,
         SgxRead(a, h, blocks), handle' # handle, handle[a][h].mode = "r"
  PROVE  \E u \in Seq(Unit) :
            /\ AllGenuine(Streams(written), u)
            /\ ret'[a].data = SgxDecrypt(Owner(a, h), handle[a][h].prev, u)
  <1> DEFINE g == handle[a][h]
             own == Owner(a, h)
             Buf(n, called) == IF called THEN UnitsRead(a, g.desc, n)
                               ELSE [i \in 1..n |-> Hole]
             Reads(n, d) == Return(a, ReadReturned("SUCCESS", own, n, n, d))
             Plain(n, called) == IF g.mode = "r" THEN SgxDecrypt(own, g.prev, Buf(n, called))
                                 ELSE [j \in Blocks(n) |-> Garbage]
  <1>1. PICK n \in -1..(BLK * blocks), f \in 0..1, m \in 0..1, called \in BOOLEAN :
          /\ Faults(f + m)
          /\ IF called THEN ocall_read_file256(a, g.desc, BLK * blocks, n, f)
                       ELSE OcallFails(f)
          /\ \/ /\ (n < 0 /\ m = 0) \/ (n > 0 /\ m = 1)
                /\ Failed(a)
                /\ UNCHANGED <<handle, heap>>
             \/ /\ n = 0 /\ m = 0
                /\ Return(a, Returned("SUCCESS"))
                /\ UNCHANGED <<handle, heap>>
             \/ /\ n > 0 /\ n % BLK # 0 /\ m = 0
                /\ \E d \in [Blocks(n) -> heap[a] \cup {Garbage}] : Reads(n, d)
                /\ UNCHANGED <<handle, heap>>
             \/ /\ n > 0 /\ n % BLK = 0 /\ m = 0
                /\ /\ Reads(n, Plain(n, called))
                   /\ heap' = [heap EXCEPT ![a] = @ \cup (Range(Plain(n, called)) \ {Garbage})]
                /\ handle' = [handle EXCEPT ![a][h] = Chained(@, LastBlock(Buf(n, called)))]
    BY ZenonT(60) DEF SgxRead
  <1> DEFINE u == Buf(n, called)
             z == BLK * blocks
             D == SgxDecrypt(own, g.prev, u)
  <1>2. n > 0 /\ Reads(n, Plain(n, called))
    BY <1>1
  <1>3. Reads(n, D)
    BY <1>2
  <1>4. z \in Nat /\ n \in Int /\ ReadAnswer(a, g.desc, z, n, f, called)
    BY <1>1, MulNat DEF ReadAnswer
  <1>5. u = ReadBuffer(a, g.desc, n, called)
    BY DEF ReadBuffer
  <1> HIDE DEF z, u, g
  <1>6. u \in Seq(Unit) /\ AllGenuine(Streams(written), u)
    BY <1>2, <1>4, <1>5, SgxBuffer
  <1> HIDE DEF D, own
  <1>7. ret'[a].data = D
    BY <1>3, SgxParts DEF Return, RetOK, ReadReturned
  <1> QED BY <1>6, <1>7 DEF D, own, g

\* Objects whose ids share the key_id part are encrypted with one AES key, and
\* still the first block that a fresh handle decrypts is always one that was
\* written under exactly the handle's id: the IV covers the whole id.
THEOREM SgxFirstBlockIsOwn == SgxSpec => SgxFirstBlockOwn
  <1> DEFINE Fresh(a, h) ==
               /\ handle[a][h].st = "open" /\ handle'[a][h].st = "open"
               /\ handle[a][h].prev = ObjectIV(a, handle[a][h].id)
               /\ handle'[a][h].prev # handle[a][h].prev
               /\ handle[a][h].mode = "r"
               /\ Len(ret'[a].data) > 0 /\ ret'[a].data[1] # Garbage
             P == \A a \in Apps, h \in Handles :
                     Fresh(a, h) => <<ret'[a].data[1]>> \in written[Owner(a, h)]
  <1>1. SgxInv /\ [SgxNext]_sgxVars => [P]_sgxVars
    <2> SUFFICES ASSUME SgxInv, SgxNext, NEW a \in Apps, NEW h \in Handles, Fresh(a, h)
                 PROVE  <<ret'[a].data[1]>> \in written[Owner(a, h)]
      OBVIOUS
    <2>0. HandlesOK /\ RetOK /\ WrittenOK
      BY SgxParts
    <2>1. handle'[a][h] # handle[a][h]
      OBVIOUS
    <2>2. ret'[a].data # << >>
      OBVIOUS
    <2>3. PICK b \in Apps :
             \/ initialize_enclave(b) \/ MainReturns(b)
             \/ SgxRefused(b) \/ SgxCloseNull(b)
             \/ \E id \in ObjectIDs, flags \in OpenArgs, ocreat \in BOOLEAN :
                   SgxOpen(b, id, flags, ocreat)
             \/ \E i \in Handles :
                   \/ \E n \in 0..MaxBlocks : \E d \in [1..n -> Data] : SgxWrite(b, i, d)
                   \/ \E n \in 0..MaxBlocks : SgxRead(b, i, n)
                   \/ SgxClose(b, i)
      BY DEF SgxNext
    <2>4. ASSUME initialize_enclave(b) \/ SgxRefused(b) PROVE FALSE
      BY <2>1, <2>4 DEF initialize_enclave, SgxRefused
    <2>5. ASSUME NEW how, LeaveInstance(b, how) PROVE FALSE
      <3>1. handle'[a] = handle[a] \/ handle'[a] = [i \in Handles |-> NULL]
        BY <2>0, <2>5 DEF LeaveInstance, HandlesOK
      <3>2. handle'[a][h] = NULL
        BY <2>1, <3>1
      <3> QED BY <3>2 DEF NULL
    <2>6. ASSUME NEW r, NEW i \in Handles, NEW e, Return(b, Returned(r)),
                 handle' = handle \/ handle' = [handle EXCEPT ![b][i] = e]
          PROVE  FALSE
      <3>1. b = a
        BY <2>0, <2>1, <2>6 DEF HandlesOK
      <3>2. ret'[a].data = << >>
        BY <2>0, <2>6, <3>1 DEF Return, RetOK, Returned
      <3> QED BY <2>2, <3>2
    <2>7. ASSUME NEW id \in ObjectIDs, NEW flags \in OpenArgs, NEW ocreat \in BOOLEAN,
                 SgxOpen(b, id, flags, ocreat)
          PROVE  FALSE
      <3>1. \E r : Return(b, Returned(r))
        BY <2>7 DEF SgxOpen, Failed
      <3>2. \E i \in Handles : \E e : handle' = handle \/ handle' = [handle EXCEPT ![b][i] = e]
        BY <2>7 DEF SgxOpen
      <3> QED BY <2>6, <3>1, <3>2
    <2>8. ASSUME NEW i \in Handles, NEW n \in 0..MaxBlocks, NEW d \in [1..n -> Data],
                 SgxWrite(b, i, d)
          PROVE  FALSE
      <3>1. \E r : Return(b, Returned(r))
        BY <2>8 DEF SgxWrite
      <3>2. \E e : handle' = [handle EXCEPT ![b][i] = e]
        BY <2>8 DEF SgxWrite
      <3> QED BY <2>6, <3>1, <3>2
    <2>9. ASSUME NEW i \in Handles, SgxClose(b, i) PROVE FALSE
      <3>1. \/ LeaveInstance(b, "panicked")
            \/ /\ Return(b, Returned("SUCCESS"))
               /\ handle' = [handle EXCEPT ![b][i] = Closed(handle[b][i].desc)]
        BY <2>9 DEF SgxClose, SgxPanic
      <3> QED BY <2>5, <2>6, <3>1
    <2>10. ASSUME NEW i \in Handles, NEW n \in 0..MaxBlocks, SgxRead(b, i, n)
           PROVE  <<ret'[a].data[1]>> \in written[Owner(a, h)]
      <3>1. \E e : handle' = handle \/ handle' = [handle EXCEPT ![b][i] = e]
        BY <2>10, ReadMoves
      <3>2. b = a /\ i = h
        BY <2>0, <2>1, <3>1 DEF HandlesOK
      <3>3. handle' # handle /\ n \in Nat
        BY <2>1
      <3>4. PICK u \in Seq(Unit) :
              /\ AllGenuine(Streams(written), u)
              /\ ret'[a].data = SgxDecrypt(Owner(a, h), handle[a][h].prev, u)
        BY <2>10, <3>2, <3>3, AdvancingRead
      <3> DEFINE own == Owner(a, h)
                 D == ret'[a].data
      <3>5. own \in Keys /\ handle[a][h].prev \in Block /\ handle[a][h].prev = IV(own)
        <4>1. handle[a][h] \in HandleRec /\ handle[a][h].id \in ObjectIDs
          BY <2>0 DEF HandlesOK, Live
        <4> QED BY <4>1 DEF Owner, Keys, HandleRec, ObjectIV, IV
      <3>6. D = SgxDecrypt(own, handle[a][h].prev, u) /\ Len(D) > 0 /\ D[1] # Garbage
        BY <3>4
      <3> HIDE DEF own, D
      <3>7. <<D[1]>> \in written[own]
        BY <2>0, <3>4, <3>5, <3>6, SgxDecryptSound DEF WrittenOK
      <3> QED BY <3>7 DEF own, D
    <2>11. ASSUME MainReturns(b) \/ SgxCloseNull(b) PROVE FALSE
      BY <2>5, <2>11 DEF MainReturns, SgxCloseNull, SgxPanic
    <2> QED BY <2>3, <2>4, <2>7, <2>8, <2>9, <2>10, <2>11
  <1>2. SgxFirstBlockOwn <=> [][P]_sgxVars
    BY DEF SgxFirstBlockOwn
  <1> HIDE DEF P
  <1> QED BY <1>1, <1>2, SgxInitInv, SgxStepInv, PTL DEF SgxSpec

=============================================================================
