----------------------- MODULE PersistentObjectProofs -----------------------
(***************************************************************************)
(* Proofs about PersistentObject, for every number of processes, objects,  *)
(* files, handles, descriptors and faults and every block and ocall size:  *)
(* types, the bounds of the transfer loops, what a handle's descriptor     *)
(* stands for, and where what a read returns comes from.  While the TA     *)
(* closes each handle once, every live handle keeps a descriptor of its    *)
(* own, open on its own file, and so no transfer loop ever changes the     *)
(* file of another object.  Whatever the TA does and whichever calls of    *)
(* the host fail, a TA reads back only what one of its kind wrote under    *)
(* the same object id.                                                     *)
(***************************************************************************)
EXTENDS PersistentObject, SequenceTheorems, TLAPS

USE HostAssumption, ObjectAssumption

(***************************************************************************)
(*                     Arithmetic and sequence lemmas                      *)
(***************************************************************************)

\* BLK * n is a natural number for a natural n, and monotone in n.
LEMMA MulNat == ASSUME NEW n \in Nat PROVE BLK * n \in Nat
  OBVIOUS

\* The quotient and the remainder of a unit index by the block size: the
\* block a unit of Encrypt belongs to and its place in that block.
LEMMA DivMod ==
  ASSUME NEW i \in Nat
  PROVE  i \div BLK \in Nat /\ i % BLK \in 0..(BLK - 1) /\ BLK * (i \div BLK) <= i
  OBVIOUS

\* Block j of a buffer of n units, counted as Decrypt does, starts inside it.
LEMMA BlockStart ==
  ASSUME NEW n \in Nat, NEW j \in 1..(n \div BLK)
  PROVE  (j - 1) * BLK + 1 \in 1..n /\ \A i \in 1..BLK : (j - 1) * BLK + i \in 1..n
  <1>1. n \div BLK \in Nat /\ BLK * (n \div BLK) <= n
    BY DivMod
  <1>2. BLK * j <= BLK * (n \div BLK)
    BY <1>1
  <1>3. (j - 1) * BLK = BLK * j - BLK
    OBVIOUS
  <1>4. (j - 1) * BLK >= 0
    OBVIOUS
  <1> QED BY <1>1, <1>2, <1>3, <1>4

\* The r units of c after its first p: the slice that a transfer moves.
LEMMA Slice ==
  ASSUME NEW c \in Seq(Unit), NEW p \in Nat, NEW r \in Nat, p + r <= Len(c)
  PROVE  /\ SubSeq(c, p + 1, p + r) \in Seq(Unit)
         /\ Len(SubSeq(c, p + 1, p + r)) = r
         /\ \A i \in 1..r : SubSeq(c, p + 1, p + r)[i] = c[p + i]
  <1> DEFINE m == p + 1
             n == p + r
             q == SubSeq(c, m, n)
  <1>1. m \in Int /\ n \in Int
    OBVIOUS
  <1>2. \A i \in m..n : c[i] \in Unit
    OBVIOUS
  <1> HIDE DEF m, n
  <1>3. /\ q \in Seq(Unit)
        /\ Len(q) = IF m <= n THEN n - m + 1 ELSE 0
        /\ \A i \in 1..(n - m + 1) : q[i] = c[m + i - 1]
    BY <1>1, <1>2, SubSeqProperties
  <1>4. q = SubSeq(c, p + 1, p + r)
    BY DEF m, n
  <1> HIDE DEF q
  <1>5. n - m + 1 = r /\ (m <= n <=> 1 <= r)
    BY DEF m, n
  <1>6. Len(q) = r
    BY <1>3, <1>5
  <1>7. ASSUME NEW i \in 1..r PROVE q[i] = c[p + i]
    <2>1. q[i] = c[m + i - 1]
      BY <1>3, <1>5
    <2>2. m + i - 1 = p + i
      BY DEF m
    <2> QED BY <2>1, <2>2
  <1> QED BY <1>3, <1>4, <1>6, <1>7


(***************************************************************************)
(*                Types of the host operations' effects                    *)
(***************************************************************************)
HostOK ==
    /\ made \in SUBSET Names
    /\ file \in [Names -> Seq(Unit)]
    /\ fdt \in [Apps -> [Fds -> OpenFile]]

\* A descriptor that is not free is an open file with a name.
LEMMA OpenFd ==
  ASSUME HostOK, NEW a \in Apps, NEW fd, IsOpen(a, fd)
  PROVE  fd \in Fds /\ fdt[a][fd] \in OpenFile /\ fdt[a][fd].name \in Names
  BY DEF HostOK, IsOpen, OpenFile

\* What ocall_open_file may do to the host's state.
LEMMA OpenHost ==
  ASSUME HostOK, NEW a \in Apps, NEW n \in Names, NEW of \in OpenFlags,
         NEW r \in Fds \cup {-1}, NEW f,
         ocall_open_file(a, n, of, r, f)
  PROVE  /\ HostOK'
         /\ f \in 0..1
         /\ r >= 0 => r \in FreeFds(a)
  <1>1. CASE CanOpen(a, n, of) /\ LowestFree(a, r) /\ f = 0
             /\ made' = made \cup {n}
             /\ file' = (IF of.trunc THEN [file EXCEPT ![n] = << >>] ELSE file)
             /\ fdt' = [fdt EXCEPT ![a][r] =
                           [name |-> n, pos |-> 0, mode |-> of.mode]]
    <2>1. r \in FreeFds(a) /\ r \in Fds
      BY <1>1 DEF LowestFree, FreeFds
    <2>2. made' \in SUBSET Names
      BY <1>1 DEF HostOK
    <2>3. file' \in [Names -> Seq(Unit)]
      BY <1>1 DEF HostOK
    <2>4. fdt' \in [Apps -> [Fds -> OpenFile]]
      BY <1>1, <2>1 DEF HostOK, OpenFile, OpenFlags
    <2> QED BY <1>1, <2>1, <2>2, <2>3, <2>4 DEF HostOK
  <1>2. CASE r = -1 /\ f = (IF CanOpen(a, n, of) THEN 1 ELSE 0)
             /\ UNCHANGED <<made, file, fdt>>
    BY <1>2 DEF HostOK
  <1> QED BY <1>1, <1>2 DEF ocall_open_file

\* What ocall_close_file may do to the host's state.
LEMMA CloseHost ==
  ASSUME HostOK, NEW a \in Apps, NEW fd, NEW r, NEW f,
         ocall_close_file(a, fd, r, f)
  PROVE  HostOK' /\ f \in 0..1 /\ file' = file
  <1>1. ClosedFd \in OpenFile
    BY DEF ClosedFd, OpenFile, Modes
  <1>2. f \in 0..1 /\ file' = file /\ made' = made
    BY DEF ocall_close_file
  <1>3. fdt' = fdt \/ (fd \in Fds /\ fdt' = [fdt EXCEPT ![a][fd] = ClosedFd])
    <2>1. IsOpen(a, fd) => fd \in Fds
      BY DEF IsOpen
    <2> QED BY <2>1 DEF ocall_close_file
  <1>4. fdt' \in [Apps -> [Fds -> OpenFile]]
    <2>1. CASE fdt' = fdt
      BY <2>1 DEF HostOK
    <2>2. CASE fd \in Fds /\ fdt' = [fdt EXCEPT ![a][fd] = ClosedFd]
      BY <1>1, <2>2 DEF HostOK
    <2> QED BY <1>3, <2>1, <2>2
  <1> QED BY <1>2, <1>4 DEF HostOK

\* Splicing units into a file gives a file of units.
LEMMA SpliceType ==
  ASSUME NEW c \in Seq(Unit), NEW p \in Nat, NEW d \in Seq(Unit)
  PROVE  Splice(c, p, d) \in Seq(Unit)
  <1>1. Hole \in Unit
    BY DEF Unit, Chains
  <1> DEFINE n == IF p + Len(d) > Len(c) THEN p + Len(d) ELSE Len(c)
  <1>2. n \in Nat
    OBVIOUS
  <1>3. ASSUME NEW i \in 1..n
        PROVE  (IF i > p /\ i <= p + Len(d) THEN d[i - p]
                ELSE IF i <= Len(c) THEN c[i] ELSE Hole) \in Unit
    BY <1>1
  <1>4. Splice(c, p, d) \in [1..n -> Unit]
    BY <1>3 DEF Splice
  <1> HIDE DEF n
  <1> QED BY <1>2, <1>4, SeqDef

\* What ocall_write_file256 may do to the host's state: on success it moved
\* at most what it was given.
LEMMA WriteHost ==
  ASSUME HostOK, NEW a \in Apps, NEW fd, NEW d \in Seq(Unit), NEW r \in Int, NEW f,
         ocall_write_file256(a, fd, d, r, f)
  PROVE  HostOK' /\ f \in 0..1 /\ r <= Len(d)
  <1>1. CASE /\ Writable(a, fd)
             /\ \/ r = Len(d) /\ f = 0
                \/ r \in 1..(Len(d) - 1) /\ f = 1
             /\ file' = (IF r = 0 THEN file
                         ELSE [file EXCEPT ![fdt[a][fd].name] =
                                 Splice(@, fdt[a][fd].pos, SubSeq(d, 1, r))])
             /\ fdt' = [fdt EXCEPT ![a][fd] = Advance(@, r)]
             /\ made' = made
    <2>1. r \in 0..Len(d) /\ f \in 0..1
      BY <1>1
    <2>2. fd \in Fds /\ fdt[a][fd] \in OpenFile /\ fdt[a][fd].name \in Names
      BY <1>1, OpenFd DEF Writable
    <2>3. fdt[a][fd].pos \in Nat
      BY <2>2 DEF OpenFile
    <2>4. SubSeq(d, 1, r) \in Seq(Unit)
      BY <2>1
    <2>5. Splice(file[fdt[a][fd].name], fdt[a][fd].pos, SubSeq(d, 1, r)) \in Seq(Unit)
      BY <2>2, <2>3, <2>4, SpliceType DEF HostOK
    <2>6. file' \in [Names -> Seq(Unit)]
      BY <1>1, <2>2, <2>5 DEF HostOK
    <2>7. fdt' \in [Apps -> [Fds -> OpenFile]]
      BY <1>1, <2>1, <2>2, <2>3 DEF HostOK, OpenFile, Advance
    <2> QED BY <1>1, <2>1, <2>6, <2>7 DEF HostOK
  <1>2. CASE r = -1 /\ f = (IF Writable(a, fd) THEN 1 ELSE 0)
             /\ UNCHANGED <<made, file, fdt>>
    BY <1>2 DEF HostOK
  <1> QED BY <1>1, <1>2 DEF ocall_write_file256

\* The r units that a read of fd delivers are those of the file at its position.
Delivered(a, fd, r) ==
    LET u == UnitsRead(a, fd, r)
        o == fdt[a][fd]
    IN /\ u \in Seq(Unit) /\ Len(u) = r
       /\ IsOpen(a, fd)
       /\ \A i \in 1..r : u[i] = file[o.name][o.pos + i]
       /\ o.pos + r <= Len(file[o.name])

\* What ocall_read_file256 may do to the host's state: the units read are
\* units of the file, as many as were reported and no more than asked for.
LEMMA ReadHost ==
  ASSUME HostOK, NEW a \in Apps, NEW fd, NEW n \in Nat, NEW r \in Int, NEW f,
         ocall_read_file256(a, fd, n, r, f)
  PROVE  /\ HostOK' /\ f \in 0..1 /\ r <= n /\ file' = file
         /\ r > 0 => Delivered(a, fd, r)
  <1>1. CASE /\ Readable(a, fd)
             /\ \/ r = Available(a, fd, n) /\ f = 0
                \/ r \in 1..(Available(a, fd, n) - 1) /\ f = 1
             /\ fdt' = [fdt EXCEPT ![a][fd] = Advance(@, r)]
             /\ UNCHANGED <<made, file>>
    <2>1. fd \in Fds /\ fdt[a][fd] \in OpenFile /\ fdt[a][fd].name \in Names
      BY <1>1, OpenFd DEF Readable
    <2>2. fdt[a][fd].pos \in Nat /\ file[fdt[a][fd].name] \in Seq(Unit)
      BY <2>1 DEF OpenFile, HostOK
    <2>3. /\ Available(a, fd, n) \in 0..n
          /\ Available(a, fd, n) > 0 =>
                fdt[a][fd].pos + Available(a, fd, n) <= Len(file[fdt[a][fd].name])
      <3> DEFINE l == Len(file[fdt[a][fd].name])
                 p == fdt[a][fd].pos
      <3>1. l \in Nat /\ p \in Nat
        BY <2>2
      <3>2. Available(a, fd, n) = IF l - p < 0 THEN 0 ELSE IF l - p < n THEN l - p ELSE n
        BY DEF Available
      <3> HIDE DEF l, p
      <3>3. Available(a, fd, n) \in 0..n
            /\ (Available(a, fd, n) > 0 => p + Available(a, fd, n) <= l)
        BY <3>1, <3>2
      <3> QED BY <3>3 DEF l, p
    <2>4. r \in 0..Available(a, fd, n) /\ f \in 0..1
      BY <1>1, <2>3
    <2>5. fdt' \in [Apps -> [Fds -> OpenFile]]
      BY <1>1, <2>1, <2>2, <2>3, <2>4 DEF HostOK, OpenFile, Advance
    <2>6. r > 0 => fdt[a][fd].pos + r <= Len(file[fdt[a][fd].name])
      <3> DEFINE l == Len(file[fdt[a][fd].name])
                 p == fdt[a][fd].pos
                 v == Available(a, fd, n)
      <3>1. l \in Nat /\ p \in Nat
        BY <2>2
      <3>2. v \in Nat /\ r \in 0..v /\ (v > 0 => p + v <= l)
        BY <2>3, <2>4
      <3> HIDE DEF l, p, v
      <3>3. r > 0 => p + r <= l
        BY <3>1, <3>2
      <3> QED BY <3>3 DEF l, p
    <2>7. ASSUME r > 0
          PROVE  /\ UnitsRead(a, fd, r) \in Seq(Unit)
                 /\ Len(UnitsRead(a, fd, r)) = r
                 /\ \A i \in 1..r : UnitsRead(a, fd, r)[i]
                                       = file[fdt[a][fd].name][fdt[a][fd].pos + i]
      <3> DEFINE c == file[fdt[a][fd].name]
                 p == fdt[a][fd].pos
      <3>1. c \in Seq(Unit) /\ p \in Nat /\ r \in Nat /\ p + r <= Len(c)
        BY <2>2, <2>3, <2>4, <2>6, <2>7
      <3> HIDE DEF c, p
      <3>2. /\ SubSeq(c, p + 1, p + r) \in Seq(Unit)
            /\ Len(SubSeq(c, p + 1, p + r)) = r
            /\ \A i \in 1..r : SubSeq(c, p + 1, p + r)[i] = c[p + i]
        BY <3>1, Slice
      <3> QED BY <3>2 DEF UnitsRead, c, p
    <2>8. r <= n
      BY <2>3, <2>4
    <2>9. r > 0 => Delivered(a, fd, r)
      BY <1>1, <2>6, <2>7 DEF Delivered, Readable
    <2> QED BY <1>1, <2>4, <2>5, <2>8, <2>9 DEF HostOK
  <1>2. CASE /\ r = -1 /\ f = (IF Readable(a, fd) THEN 1 ELSE 0)
             /\ UNCHANGED <<made, file, fdt>>
    BY <1>2 DEF HostOK
  <1> QED BY <1>1, <1>2 DEF ocall_read_file256


(***************************************************************************)
(*                   Types of the cipher's operators                       *)
(***************************************************************************)

\* The key of an object under the enclave of process a.
LEMMA KeyType ==
  ASSUME NEW a \in Apps, NEW id \in ObjectIDs
  PROVE  set_object_key(a, id) \in Keys
  BY DEF set_object_key, Keys

\* The key of a handle is that of its owner.
LEMMA OwnerKey == \A a, h : Owner(a, h) = KeyOf(a, h)
  BY DEF Owner, KeyOf, set_object_key

\* The chains of the blocks of d after s.
LEMMA ChainType ==
  ASSUME NEW s \in Chains, NEW d \in Chains, NEW j \in 1..Len(d)
  PROVE  /\ s \o SubSeq(d, 1, j) \in Chains
         /\ Len(s \o SubSeq(d, 1, j)) = Len(s) + j
         /\ s \o SubSeq(d, 1, j) # << >>
  <1>1. \A i \in 1..j : d[i] \in Data
    BY DEF Chains
  <1>2. SubSeq(d, 1, j) \in Seq(Data) /\ Len(SubSeq(d, 1, j)) = j
    BY <1>1, SubSeqProperties
  <1>3. /\ s \o SubSeq(d, 1, j) \in Seq(Data)
        /\ Len(s \o SubSeq(d, 1, j)) = Len(s) + Len(SubSeq(d, 1, j))
    BY <1>2, ConcatProperties DEF Chains
  <1>4. Len(s) \in Nat /\ j > 0
    BY DEF Chains
  <1>5. s \o SubSeq(d, 1, j) # << >>
    BY <1>2, <1>3, <1>4
  <1> QED BY <1>2, <1>3, <1>5 DEF Chains

\* Every unit of u has key k and a chain of C.
AllOf(u, k, C) == \A i \in 1..Len(u) : u[i].key = k /\ u[i].chain \in C

\* Encrypting d yields BLK units per block, all with a chain of d after s.
LEMMA EncryptType ==
  ASSUME NEW k \in Keys, NEW s \in Chains, NEW d \in Chains
  PROVE  /\ Encrypt(k, s, d) \in Seq(Unit)
         /\ Len(Encrypt(k, s, d)) = BLK * Len(d)
         /\ AllOf(Encrypt(k, s, d), k, {s \o SubSeq(d, 1, j) : j \in 1..Len(d)})
  <1> DEFINE m == BLK * Len(d)
             e(i) == [key |-> k,
                      chain |-> s \o SubSeq(d, 1, ((i - 1) \div BLK) + 1),
                      part |-> ((i - 1) % BLK) + 1]
  <1>1. m \in Nat
    BY MulNat DEF Chains
  <1>2. ASSUME NEW i \in 1..m
        PROVE  e(i) \in Unit /\ ((i - 1) \div BLK) + 1 \in 1..Len(d)
    <2>1. i - 1 \in Nat
      BY <1>1
    <2>2. /\ (i - 1) \div BLK \in Nat
          /\ (i - 1) % BLK \in 0..(BLK - 1)
          /\ BLK * ((i - 1) \div BLK) <= i - 1
      BY <2>1, DivMod
    <2>3. (i - 1) \div BLK < Len(d)
      <3>1. BLK * ((i - 1) \div BLK) < BLK * Len(d)
        BY <1>1, <2>2
      <3>2. Len(d) \in Nat
        BY DEF Chains
      <3> QED BY <2>2, <3>1, <3>2
    <2>4. Len(d) \in Nat
      BY DEF Chains
    <2>5. ((i - 1) \div BLK) + 1 \in 1..Len(d)
      BY <2>2, <2>3, <2>4
    <2>6. s \o SubSeq(d, 1, ((i - 1) \div BLK) + 1) \in Chains
      BY <2>5, ChainType
    <2>7. ((i - 1) % BLK) + 1 \in 0..BLK
      BY <2>2
    <2> QED BY <2>5, <2>6, <2>7 DEF Unit
  <1>3. Encrypt(k, s, d) = [i \in 1..m |-> e(i)]
    BY DEF Encrypt
  <1>4. Encrypt(k, s, d) \in [1..m -> Unit]
    <2>1. \A i \in 1..m : e(i) \in Unit
      BY <1>2
    <2> HIDE DEF m, e
    <2> QED BY <1>3, <2>1
  <1>5. Encrypt(k, s, d) \in Seq(Unit) /\ Len(Encrypt(k, s, d)) = m
    <2> HIDE DEF m, e
    <2> QED BY <1>1, <1>4, SeqDef
  <1>6. ASSUME NEW i \in 1..m
        PROVE  /\ Encrypt(k, s, d)[i].key = k
               /\ Encrypt(k, s, d)[i].chain \in {s \o SubSeq(d, 1, j) : j \in 1..Len(d)}
    <2> DEFINE q == ((i - 1) \div BLK) + 1
               ch == s \o SubSeq(d, 1, q)
               pt == ((i - 1) % BLK) + 1
    <2>1. Encrypt(k, s, d)[i] = [key |-> k, chain |-> ch, part |-> pt]
      BY <1>3
    <2>2. q \in 1..Len(d)
      BY <1>2
    <2> HIDE DEF ch, pt, e
    <2>3. Encrypt(k, s, d)[i].key = k /\ Encrypt(k, s, d)[i].chain = ch
      BY <2>1
    <2> HIDE DEF q
    <2> QED BY <2>2, <2>3 DEF ch
  <1> QED
    <2> DEFINE E == Encrypt(k, s, d)
    <2> HIDE DEF m, e, E
    <2>1. AllOf(E, k, {s \o SubSeq(d, 1, j) : j \in 1..Len(d)})
      BY <1>5, <1>6 DEF AllOf, E
    <2> QED BY <1>5, <2>1 DEF E, m

\* A block of a buffer is a block, with the key and chain of one of its units
\* unless it is torn.
LEMMA BlockAtType ==
  ASSUME NEW u \in Seq(Unit), NEW j \in 1..(Len(u) \div BLK)
  PROVE  /\ BlockAt(u, j) \in Block
         /\ BlockAt(u, j) # Torn =>
               \E i \in 1..Len(u) : /\ BlockAt(u, j).key = u[i].key
                                    /\ BlockAt(u, j).chain = u[i].chain
  <1>1. (j - 1) * BLK + 1 \in 1..Len(u)
    BY BlockStart
  <1>2. u[(j - 1) * BLK + 1] \in Unit
    BY <1>1, SMTT(60)
  <1>3. Torn \in Block
    BY DEF Torn, Block, Chains
  <1>4. \/ BlockAt(u, j) = Torn
        \/ BlockAt(u, j) = [key |-> u[(j - 1) * BLK + 1].key,
                            chain |-> u[(j - 1) * BLK + 1].chain]
    BY DEF BlockAt
  <1>5. [key |-> u[(j - 1) * BLK + 1].key, chain |-> u[(j - 1) * BLK + 1].chain] \in Block
    BY <1>2 DEF Unit, Block
  <1>6. CASE BlockAt(u, j) = Torn
    BY <1>3, <1>6
  <1>7. CASE BlockAt(u, j) = [key |-> u[(j - 1) * BLK + 1].key,
                              chain |-> u[(j - 1) * BLK + 1].chain]
    <2>1. BlockAt(u, j) \in Block
      BY <1>5, <1>7
    <2>2. /\ BlockAt(u, j).key = u[(j - 1) * BLK + 1].key
          /\ BlockAt(u, j).chain = u[(j - 1) * BLK + 1].chain
      BY <1>7
    <2> QED BY <1>1, <2>1, <2>2
  <1> QED BY <1>4, <1>6, <1>7

\* A block decrypts to data or to garbage.
LEMMA DecryptBlockType ==
  ASSUME NEW k, NEW p, NEW c \in Block
  PROVE  DecryptBlock(k, p, c) \in Data \cup {Garbage}
  <1>1. c.chain # << >> => Last(c.chain) \in Data
    BY DEF Block, Chains, Last
  <1> QED BY <1>1 DEF DecryptBlock

\* Decrypt yields one block of data or garbage per cipher block.
LEMMA DecryptType ==
  ASSUME NEW k, NEW p, NEW u \in Seq(Unit)
  PROVE  /\ Decrypt(k, p, u) \in Seq(Data \cup {Garbage})
         /\ Len(Decrypt(k, p, u)) = Len(u) \div BLK
  <1> DEFINE m == Len(u) \div BLK
             e(j) == DecryptBlock(k, IF j = 1 THEN p ELSE BlockAt(u, j - 1), BlockAt(u, j))
  <1>1. m \in Nat
    <2>1. Len(u) \in Nat
      OBVIOUS
    <2> QED BY <2>1, DivMod
  <1>2. \A j \in 1..m : e(j) \in Data \cup {Garbage}
    BY BlockAtType, DecryptBlockType
  <1>3. Decrypt(k, p, u) = [j \in 1..m |-> e(j)]
    BY DEF Decrypt
  <1>4. Decrypt(k, p, u) \in [1..m -> Data \cup {Garbage}]
    BY <1>2, <1>3
  <1> HIDE DEF m, e
  <1>5. Decrypt(k, p, u) \in Seq(Data \cup {Garbage}) /\ Len(Decrypt(k, p, u)) = m
    BY <1>1, <1>4, SeqDef
  <1> QED BY <1>5 DEF m


(***************************************************************************)
(*                           Type correctness                              *)
(***************************************************************************)
HandlesOK ==
    /\ handle \in [Apps -> [Handles -> HandleRec]]
    /\ \A a \in Apps : \A h \in Handles :
          Live(a, h) => handle[a][h].id \in ObjectIDs /\ handle[a][h].desc \in Fds
CallsOK ==
    /\ call \in [Apps -> CallRec]
    /\ \A a \in Apps : call[a] # Idle => Live(a, call[a].h)
CountersOK == faults \in 0..MaxFaults /\ opens \in 0..MaxOpens
InstOK == inst \in [Apps -> {"none", "run", "panicked"}]
RetOK == ret \in [Apps -> RetRec]
WrittenOK == written \in [Keys -> SUBSET Chains]

\* TypeOK is the conjunction of its parts.
LEMMA TypeParts ==
  TypeOK <=> /\ HostOK /\ HandlesOK /\ CallsOK /\ CountersOK
             /\ InstOK /\ RetOK /\ WrittenOK
  BY DEF TypeOK, HostOK, HandlesOK, CallsOK, CountersOK, InstOK, RetOK, WrittenOK

\* The invariant proved first: types, and the loops' buffer bounds that the
\* types of the transferred data depend on.
Safe == TypeOK /\ LoopInBounds

\* The records the actions build have the types of the variables.
LEMMA RecordTypes ==
  /\ NULL \in HandleRec /\ NULL.st # "open"
  /\ Idle \in CallRec
  /\ NoResult \in RetRec
  /\ \A r \in Result : Returned(r) \in RetRec
  <1>1. << >> \in Chains /\ << >> \in Seq(Data \cup {Garbage})
    BY DEF Chains
  <1> QED BY <1>1 DEF NULL, HandleRec, Torn, Block, Modes, Idle, CallRec, NoResult,
                      Returned, RetRec, Result

\* Faults counts up to its bound.
LEMMA FaultsType ==
  ASSUME CountersOK, NEW k \in Nat, Faults(k), opens' \in 0..MaxOpens
  PROVE  CountersOK'
  BY DEF CountersOK, Faults

\* A finished call, and one that leaves the handles alone.
LEMMA CallEnds ==
  ASSUME CallsOK, HandlesOK, NEW a \in Apps, call' = [call EXCEPT ![a] = Idle],
         \A b \in Apps \ {a} : handle'[b] = handle[b]
  PROVE  CallsOK'
  <1>1. call' \in [Apps -> CallRec]
    BY RecordTypes DEF CallsOK
  <1>2. ASSUME NEW b \in Apps, call'[b] # Idle PROVE (Live(b, call[b].h))' 
    <2>1. b # a /\ call'[b] = call[b]
      BY <1>2 DEF CallsOK
    <2> QED BY <1>2, <2>1 DEF CallsOK, Live
  <1> QED BY <1>1, <1>2 DEF CallsOK

\* The loops of the other processes are not disturbed.
LEMMA BoundsKept ==
  ASSUME CallsOK, LoopInBounds, NEW a \in Apps, NEW c \in CallRec,
         call' = [call EXCEPT ![a] = c],
         c # Idle => /\ c.offset <= c.count
                     /\ c.op = "write" => Len(c.buf) = c.count
                     /\ c.op = "read" => Len(c.buf) = c.offset
  PROVE  LoopInBounds'
  BY DEF CallsOK, LoopInBounds


\* A read buffer grows by what a pass received.
LEMMA ConcatUnits ==
  \A b, u \in Seq(Unit) : b \o u \in Seq(Unit) /\ Len(b \o u) = Len(b) + Len(u)
  BY ConcatProperties

\* The units a successful read delivers.
LEMMA ReadUnits ==
  ASSUME HostOK, NEW a \in Apps, NEW fd, NEW n \in Nat, NEW r \in Int, NEW f,
         ocall_read_file256(a, fd, n, r, f), r > 0
  PROVE  UnitsRead(a, fd, r) \in Seq(Unit) /\ Len(UnitsRead(a, fd, r)) = r
  BY ReadHost DEF Delivered

\* One handle of process a becomes g.
LEMMA HandleSet ==
  ASSUME HandlesOK, NEW a \in Apps, NEW h \in Handles, NEW g \in HandleRec,
         g.st = "open" => g.id \in ObjectIDs /\ g.desc \in Fds,
         handle' = [handle EXCEPT ![a][h] = g]
  PROVE  HandlesOK'
  BY DEF HandlesOK, Live

\* A call that only reports a result.
LEMMA OnlyReturns ==
  ASSUME Safe, NEW a \in Apps, NEW r \in RetRec, Return(a, r), HostOK', CountersOK',
         UNCHANGED <<inst, handle, call, written>>
  PROVE  Safe'
  <1>1. RetOK'
    BY DEF Safe, TypeOK, RetOK, Return
  <1>2. HandlesOK' /\ CallsOK' /\ InstOK' /\ WrittenOK' /\ LoopInBounds'
    BY DEF Safe, TypeOK, HandlesOK, CallsOK, InstOK, WrittenOK, LoopInBounds, Live
  <1>3. TypeOK' <=> /\ HostOK' /\ HandlesOK' /\ CallsOK' /\ CountersOK'
                    /\ InstOK' /\ RetOK' /\ WrittenOK'
    BY DEF TypeOK, HostOK, HandlesOK, CallsOK, CountersOK, InstOK, RetOK, WrittenOK
  <1> QED BY <1>1, <1>2, <1>3 DEF Safe

\* TypeOK in the next state from its parts.
LEMMA TypePartsNext ==
  ASSUME HostOK', HandlesOK', CallsOK', CountersOK', InstOK', RetOK', WrittenOK'
  PROVE  TypeOK'
  BY DEF TypeOK, HostOK, HandlesOK, CallsOK, CountersOK, InstOK, RetOK, WrittenOK

\* The end of an instance, by return, panic or crash.
LEMMA LeaveSafe ==
  ASSUME Safe, NEW a \in Apps, NEW how \in {"none", "panicked"},
         LeaveInstance(a, how), HostOK', CountersOK'
  PROVE  Safe'
  <1>0. HandlesOK /\ CallsOK /\ InstOK /\ RetOK /\ WrittenOK
    BY TypeParts DEF Safe
  <1>1. HandlesOK'
    BY <1>0, RecordTypes DEF LeaveInstance, HandlesOK, Live
  <1>2. CallsOK'
    BY <1>0, CallEnds DEF LeaveInstance, HandlesOK
  <1>3. InstOK' /\ RetOK' /\ WrittenOK'
    BY <1>0, RecordTypes DEF LeaveInstance, InstOK, RetOK, WrittenOK, Return
  <1>4. LoopInBounds'
    BY <1>0, BoundsKept, RecordTypes DEF LeaveInstance, Safe
  <1> QED BY <1>1, <1>2, <1>3, <1>4, TypePartsNext DEF Safe

\* The initial state.
LEMMA InitSafe == Init => Safe
  <1> SUFFICES ASSUME Init PROVE Safe
    OBVIOUS
  <1>1. HostOK
    BY DEF Init, HostInit, HostOK, ClosedFd, OpenFile, Modes
  <1>2. HandlesOK
    BY RecordTypes DEF Init, HandlesOK, Live
  <1>3. CallsOK /\ LoopInBounds
    BY RecordTypes DEF Init, CallsOK, LoopInBounds
  <1>4. CountersOK /\ InstOK /\ WrittenOK
    BY DEF Init, HostInit, CountersOK, InstOK, WrittenOK
  <1>5. RetOK
    BY RecordTypes DEF Init, RetOK
  <1> QED BY <1>1, <1>2, <1>3, <1>4, <1>5, TypeParts DEF Safe


\* TEE_CreatePersistentObject and TEE_OpenPersistentObject past their checks.
LEMMA OpenSafe ==
  ASSUME Safe, NEW a \in Apps, NEW id \in ObjectIDs, NEW flags \in OpenArgs,
         NEW ocreat \in BOOLEAN, OpenPersistentObject(a, id, flags, ocreat)
  PROVE  Safe'
  <1> DEFINE of == flags2flags(flags, ocreat)
  <1>0. HostOK /\ HandlesOK /\ CallsOK /\ CountersOK /\ InstOK /\ RetOK /\ WrittenOK
    BY TypeParts DEF Safe
  <1>1. of \in OpenFlags
    BY DEF flags2flags, OpenArgs, OpenFlags, Modes
  <1> HIDE DEF of
  <1>2. PICK desc \in Fds \cup {-1}, f \in 0..1, k \in 0..1 :
          /\ ocall_open_file(a, FileOf[id], of, desc, f)
          /\ Faults(f + k)
          /\ \/ /\ desc < 0 /\ k = 0
                /\ OpenFails(a, "ACCESS_DENIED")
             \/ /\ desc >= 0 /\ k = 1
                /\ OpenFails(a, "SECURITY")
             \/ /\ desc >= 0 /\ k = 0
                /\ \E h \in Handles :
                   /\ handle[a][h].st # "open"
                   /\ handle' = [handle EXCEPT ![a][h] =
                         [st |-> "open", id |-> id, desc |-> desc,
                          mode |-> IF flags.write THEN "w" ELSE "r",
                          prev |-> IV(set_object_key(a, id))]]
                /\ Return(a, Returned("SUCCESS"))
    BY DEF OpenPersistentObject, of
  <1>3. HostOK'
    BY <1>0, <1>1, <1>2, OpenHost
  <1>4. CountersOK'
    <2>1. opens' \in 0..MaxOpens
      BY <1>0 DEF OpenPersistentObject, CountersOK
    <2> QED BY <1>0, <1>2, <2>1, FaultsType
  <1>5. UNCHANGED <<inst, call, written>> /\ call[a] = Idle
    BY DEF OpenPersistentObject, Running
  <1>6. CASE OpenFails(a, "ACCESS_DENIED") \/ OpenFails(a, "SECURITY")
    BY <1>3, <1>4, <1>5, <1>6, OnlyReturns, RecordTypes DEF OpenFails, Result
  <1>7. CASE /\ desc >= 0
             /\ \E h \in Handles :
                   /\ handle[a][h].st # "open"
                   /\ handle' = [handle EXCEPT ![a][h] =
                         [st |-> "open", id |-> id, desc |-> desc,
                          mode |-> IF flags.write THEN "w" ELSE "r",
                          prev |-> IV(set_object_key(a, id))]]
             /\ Return(a, Returned("SUCCESS"))
    <2> DEFINE g == [st |-> "open", id |-> id, desc |-> desc,
                     mode |-> IF flags.write THEN "w" ELSE "r",
                     prev |-> IV(set_object_key(a, id))]
    <2>1. IV(set_object_key(a, id)) \in Block
      BY KeyType DEF IV, Block, Chains
    <2>2. desc \in Fds
      BY <1>7 DEF Fds
    <2>3. g \in HandleRec /\ g.id \in ObjectIDs /\ g.desc \in Fds /\ g.st = "open"
      BY <2>1, <2>2 DEF HandleRec, Modes
    <2>4. PICK h \in Handles : handle' = [handle EXCEPT ![a][h] = g]
      BY <1>7
    <2> HIDE DEF g
    <2>5. HandlesOK'
      BY <1>0, <2>3, <2>4, HandleSet
    <2>6. CallsOK'
      BY <1>0, <1>5, <2>3, <2>4 DEF CallsOK, HandlesOK, Live
    <2>7. RetOK'
      BY <1>0, <1>7, RecordTypes DEF RetOK, Return, Result
    <2>8. InstOK' /\ WrittenOK' /\ LoopInBounds'
      BY <1>0, <1>5 DEF InstOK, WrittenOK, LoopInBounds, Safe
    <2> QED BY <1>3, <1>4, <2>5, <2>6, <2>7, <2>8, TypePartsNext DEF Safe
  <1> QED BY <1>2, <1>6, <1>7

\* TEE_WriteObjectData up to the first ocall.
LEMMA WriteStartSafe ==
  ASSUME Safe, NEW a \in Apps, NEW h \in Handles, NEW d \in Chains,
         TEE_WriteObjectData(a, h, d)
  PROVE  Safe'
  <1>0. HostOK /\ HandlesOK /\ CallsOK /\ CountersOK /\ InstOK /\ RetOK /\ WrittenOK
    BY TypeParts DEF Safe
  <1> DEFINE g == handle[a][h]
             k == KeyOf(a, h)
             w == g.mode = "w" /\ g.prev.key = k
             s == g.prev.chain
             buf == IF w THEN Encrypt(k, s, d) ELSE [i \in 1..(BLK * Len(d)) |-> Hole]
             c == [op |-> "write", h |-> h, offset |-> 0, count |-> BLK * Len(d),
                   buf |-> buf]
             g2 == IF d = << >> THEN g
                   ELSE IF w THEN Chained(g, [key |-> k, chain |-> s \o d])
                   ELSE Chained(g, Torn)
             new == {s \o SubSeq(d, 1, j) : j \in 1..Len(d)}
  <1>1. g \in HandleRec /\ g.st = "open" /\ g.id \in ObjectIDs /\ g.desc \in Fds
    BY <1>0 DEF TEE_WriteObjectData, HandlesOK, Live
  <1>2. k \in Keys /\ s \in Chains
    BY <1>1, KeyType DEF KeyOf, HandleRec, Block
  <1>3. s \o d \in Chains
    BY <1>2, ConcatProperties DEF Chains
  <1>4. g2 \in HandleRec /\ g2.st = "open" /\ g2.id \in ObjectIDs /\ g2.desc \in Fds
    <2>1. Torn \in Block /\ [key |-> k, chain |-> s \o d] \in Block
      BY <1>2, <1>3 DEF Torn, Block, Chains
    <2> HIDE DEF k, s
    <2> QED BY <1>1, <2>1 DEF Chained, HandleRec
  <1>5. handle' = [handle EXCEPT ![a][h] = g2]
    BY DEF TEE_WriteObjectData
  <1>6. HandlesOK'
    <2> HIDE DEF g2
    <2> QED BY <1>0, <1>4, <1>5, HandleSet
  <1>7. WrittenOK'
    <2>1. new \in SUBSET Chains
      BY <1>2, ChainType
    <2>2. written' = [written EXCEPT ![k] = IF w THEN @ \cup new ELSE @]
      BY OwnerKey DEF TEE_WriteObjectData
    <2> HIDE DEF k, new, w
    <2> QED BY <1>0, <1>2, <2>1, <2>2 DEF WrittenOK
  <1>8. HostOK' /\ CountersOK' /\ InstOK'
    BY <1>0 DEF TEE_WriteObjectData, HostOK, CountersOK, InstOK, hostVars
  <1>9. RetOK'
    <2>1. Return(a, Returned("SUCCESS")) \/ Return(a, NoResult)
      BY DEF TEE_WriteObjectData
    <2> QED BY <1>0, <2>1, RecordTypes DEF RetOK, Return, Result
  <1>10. Live(a, h)' /\ \A b \in Apps : \A i \in Handles : Live(b, i) => Live(b, i)'
    <2> HIDE DEF g2
    <2> QED BY <1>0, <1>4, <1>5 DEF Live, HandlesOK
  <1>11. CallsOK' /\ LoopInBounds'
    <2>1. CASE d = << >>
      <3>1. call' = call
        BY <2>1 DEF TEE_WriteObjectData
      <3> QED BY <1>0, <1>10, <3>1 DEF CallsOK, LoopInBounds, Safe, CallRec
    <2>2. CASE d # << >>
      <3>1. call' = [call EXCEPT ![a] = c]
        BY <2>2 DEF TEE_WriteObjectData
      <3>2. BLK * Len(d) \in Nat
        BY MulNat DEF Chains
      <3>3. buf \in Seq(Unit) /\ Len(buf) = BLK * Len(d)
        <4>1. CASE w
          BY <1>2, <4>1, EncryptType
        <4>2. CASE ~w
          <5> DEFINE m == BLK * Len(d)
          <5>1. Hole \in Unit
            BY DEF Unit, Chains
          <5>2. buf = [i \in 1..m |-> Hole]
            BY <4>2
          <5> HIDE DEF m, buf
          <5>3. buf \in [1..m -> Unit]
            BY <5>1, <5>2
          <5>4. m \in Nat
            BY <3>2 DEF m
          <5>5. buf \in Seq(Unit) /\ Len(buf) = m
            BY <5>3, <5>4, SeqDef
          <5> QED BY <5>5 DEF m
        <4> QED BY <4>1, <4>2
      <3> HIDE DEF buf
      <3>4. c \in CallRec /\ c.h = h /\ c.op = "write" /\ c.offset <= c.count
            /\ Len(c.buf) = c.count
        BY <3>2, <3>3 DEF CallRec
      <3> HIDE DEF c
      <3>5. LoopInBounds'
        BY <1>0, <3>1, <3>4, BoundsKept DEF Safe
      <3>6. call' \in [Apps -> CallRec]
        BY <1>0, <3>1, <3>4 DEF CallsOK
      <3>7. ASSUME NEW b \in Apps, call'[b] # Idle PROVE Live(b, call[b].h)'
        <4>1. CASE b = a
          BY <1>0, <1>10, <3>1, <3>4, <4>1 DEF CallsOK
        <4>2. CASE b # a
          <5>1. call'[b] = call[b]
            BY <1>0, <3>1, <4>2 DEF CallsOK
          <5>2. call[b] \in CallRec /\ call[b] # Idle
            BY <1>0, <3>7, <5>1 DEF CallsOK
          <5>3. call[b].h \in Handles
            BY <5>2 DEF CallRec
          <5>4. Live(b, call[b].h)
            BY <1>0, <5>2 DEF CallsOK
          <5>5. handle'[b][call[b].h].st = "open"
            BY <1>10, <5>3, <5>4 DEF Live
          <5> QED BY <5>1, <5>5 DEF Live
        <4> QED BY <4>1, <4>2
      <3> QED BY <3>5, <3>6, <3>7 DEF CallsOK
    <2> QED BY <2>1, <2>2
  <1> QED BY <1>6, <1>7, <1>8, <1>9, <1>11, TypePartsNext DEF Safe


\* A loop record replaced by another on the same handle, handles unchanged.
LEMMA CallSet ==
  ASSUME CallsOK, NEW a \in Apps, NEW c \in CallRec,
         call' = [call EXCEPT ![a] = c], handle' = handle,
         c # Idle => Live(a, c.h)
  PROVE  CallsOK'
  BY DEF CallsOK, Live

\* TEE_ReadObjectData up to the first ocall.
LEMMA ReadStartSafe ==
  ASSUME Safe, NEW a \in Apps, NEW h \in Handles, NEW n \in Nat,
         TEE_ReadObjectData(a, h, n)
  PROVE  Safe'
  <1>0. HostOK /\ HandlesOK /\ CallsOK /\ CountersOK /\ InstOK /\ RetOK /\ WrittenOK
    BY TypeParts DEF Safe
  <1> DEFINE c == [op |-> "read", h |-> h, offset |-> 0, count |-> BLK * n, buf |-> << >>]
  <1>1. HostOK' /\ CountersOK' /\ InstOK' /\ HandlesOK' /\ WrittenOK' /\ handle' = handle
    BY <1>0 DEF TEE_ReadObjectData, HostOK, CountersOK, InstOK, hostVars, HandlesOK,
                WrittenOK, Live
  <1>2. RetOK'
    <2>1. Return(a, Returned("SUCCESS")) \/ Return(a, NoResult)
      BY DEF TEE_ReadObjectData
    <2> QED BY <1>0, <2>1, RecordTypes DEF RetOK, Return, Result
  <1>3. CallsOK' /\ LoopInBounds'
    <2>1. CASE n = 0
      <3>1. call' = call
        BY <2>1 DEF TEE_ReadObjectData
      <3> QED BY <1>0, <1>1, <3>1 DEF CallsOK, LoopInBounds, Safe, Live
    <2>2. CASE n # 0
      <3>1. call' = [call EXCEPT ![a] = c] /\ Live(a, h)
        BY <2>2 DEF TEE_ReadObjectData
      <3>2. BLK * n \in Nat
        BY MulNat
      <3>3. c \in CallRec /\ c.h = h /\ c.op = "read" /\ c.offset <= c.count
            /\ Len(c.buf) = c.offset
        BY <3>2 DEF CallRec
      <3> HIDE DEF c
      <3> QED BY <1>0, <1>1, <3>1, <3>3, CallSet, BoundsKept DEF Safe
    <2> QED BY <2>1, <2>2
  <1> QED BY <1>1, <1>2, <1>3, TypePartsNext DEF Safe

\* One pass of ocall_write_file_full.
LEMMA WriteLoopSafe ==
  ASSUME Safe, NEW a \in Apps, ocall_write_file_full(a)
  PROVE  Safe'
  <1>0. HostOK /\ HandlesOK /\ CallsOK /\ CountersOK /\ InstOK /\ RetOK /\ WrittenOK
    BY TypeParts DEF Safe
  <1> DEFINE c == call[a]
             fd == handle[a][c.h].desc
             chunk == SubSeq(c.buf, c.offset + 1, c.offset + Clamp(c.count - c.offset))
  <1>1. c \in CallRec /\ c # Idle /\ c.op = "write" /\ Live(a, c.h)
    <2>1. call[a].op = "write"
      BY DEF ocall_write_file_full
    <2> QED BY <1>0, <2>1 DEF CallsOK, Idle
  <1>2. /\ c.h \in Handles /\ c.buf \in Seq(Unit) /\ c.count \in Nat /\ c.offset \in Nat
        /\ c.offset <= c.count /\ Len(c.buf) = c.count
    BY <1>1 DEF CallRec, Safe, LoopInBounds
  <1> HIDE DEF c
  <1>3. chunk \in Seq(Unit) /\ Len(chunk) = Clamp(c.count - c.offset)
    <2>1. Clamp(c.count - c.offset) \in 0..(c.count - c.offset)
      BY <1>2 DEF Clamp
    <2>2. \A i \in (c.offset + 1)..(c.offset + Clamp(c.count - c.offset)) : c.buf[i] \in Unit
      BY <1>2, <2>1
    <2> QED BY <1>2, <2>1, <2>2, SubSeqProperties
  <1> HIDE DEF fd, chunk
  <1>4. PICK n \in -1..CAP, f \in 0..1 :
          /\ ocall_write_file256(a, fd, chunk, n, f)
          /\ Faults(f)
          /\ \/ /\ n > 0
                /\ call' = [call EXCEPT ![a] = Moved(c, n, c.buf)]
                /\ UNCHANGED ret
             \/ /\ n <= 0
                /\ call' = [call EXCEPT ![a] = Idle]
                /\ Return(a, Returned(IF LoopResult(c.offset, n) < 0
                                      THEN "GENERIC" ELSE "SUCCESS"))
    BY DEF ocall_write_file_full, LoopEnds, c, fd, chunk
  <1>5. HostOK' /\ n <= Len(chunk)
    <2>1. n \in Int
      OBVIOUS
    <2> QED BY <1>0, <1>3, <1>4, <2>1, WriteHost
  <1>6. UNCHANGED <<inst, handle, written, opens>>
    BY DEF ocall_write_file_full
  <1>7. CountersOK'
    BY <1>0, <1>4, <1>6, FaultsType DEF CountersOK
  <1>8. HandlesOK' /\ InstOK' /\ WrittenOK'
    BY <1>0, <1>6 DEF HandlesOK, InstOK, WrittenOK, Live
  <1>9. RetOK'
    BY <1>0, <1>4, RecordTypes DEF RetOK, Return, Result
  <1>10. CallsOK' /\ LoopInBounds'
    <2>1. CASE n > 0 /\ call' = [call EXCEPT ![a] = Moved(c, n, c.buf)]
      <3>1. Clamp(c.count - c.offset) <= c.count - c.offset
        BY <1>2 DEF Clamp
      <3>2. c.offset + n <= c.count /\ c.offset + n \in Nat
        BY <1>2, <1>3, <1>5, <2>1, <3>1
      <3>3. /\ Moved(c, n, c.buf) \in CallRec
            /\ Moved(c, n, c.buf).op = "write"
            /\ Moved(c, n, c.buf).h = c.h
            /\ Moved(c, n, c.buf).offset <= Moved(c, n, c.buf).count
            /\ Len(Moved(c, n, c.buf).buf) = Moved(c, n, c.buf).count
        BY <1>1, <1>2, <3>2 DEF Moved, CallRec
      <3> DEFINE v == Moved(c, n, c.buf)
      <3> HIDE DEF v
      <3>4. /\ v \in CallRec /\ v.op = "write" /\ v.h = c.h
            /\ v.offset <= v.count /\ Len(v.buf) = v.count
            /\ call' = [call EXCEPT ![a] = v]
        BY <2>1, <3>3 DEF v
      <3> QED BY <1>0, <1>1, <1>6, <3>4, CallSet, BoundsKept DEF Safe
    <2>2. CASE call' = [call EXCEPT ![a] = Idle]
      BY <1>0, <1>6, <2>2, CallEnds, BoundsKept, RecordTypes DEF Safe
    <2> QED BY <1>4, <2>1, <2>2
  <1> QED BY <1>5, <1>7, <1>8, <1>9, <1>10, TypePartsNext DEF Safe


\* One pass of ocall_read_file_full, with the decryption when it is the last.
LEMMA ReadLoopSafe ==
  ASSUME Safe, NEW a \in Apps, ocall_read_file_full(a)
  PROVE  Safe'
  <1>0. HostOK /\ HandlesOK /\ CallsOK /\ CountersOK /\ InstOK /\ RetOK /\ WrittenOK
    BY TypeParts DEF Safe
  <1> DEFINE c == call[a]
             g == handle[a][c.h]
             left == Clamp(c.count - c.offset)
  <1>1. c \in CallRec /\ c # Idle /\ c.op = "read" /\ Live(a, c.h)
    <2>1. call[a].op = "read"
      BY DEF ocall_read_file_full
    <2> QED BY <1>0, <2>1 DEF CallsOK, Idle
  <1>2. /\ c.h \in Handles /\ c.buf \in Seq(Unit) /\ c.count \in Nat /\ c.offset \in Nat
        /\ c.offset <= c.count /\ Len(c.buf) = c.offset
    BY <1>1 DEF CallRec, Safe, LoopInBounds
  <1>3. g \in HandleRec /\ g.st = "open" /\ g.id \in ObjectIDs /\ g.desc \in Fds
    BY <1>0, <1>1, <1>2 DEF HandlesOK, Live
  <1>4. KeyOf(a, c.h) \in Keys
    BY <1>3, KeyType DEF KeyOf
  <1> HIDE DEF c
  <1>5. left \in Nat /\ left <= c.count - c.offset
    BY <1>2 DEF Clamp
  <1> HIDE DEF g, left
  <1>6. PICK n \in -1..CAP, f \in 0..1, m \in 0..1 :
          /\ ocall_read_file256(a, g.desc, left, n, f)
          /\ Faults(f + m)
          /\ \/ /\ n > 0 /\ m = 0
                /\ call' = [call EXCEPT ![a] =
                              Moved(c, n, c.buf \o UnitsRead(a, g.desc, n))]
                /\ UNCHANGED <<ret, handle>>
             \/ /\ n <= 0
                /\ call' = [call EXCEPT ![a] = Idle]
                /\ ReadReturns(a, n, m)
    <2>1. \E n \in -1..CAP, f \in 0..1, m \in 0..1 :
            /\ ocall_read_file256(a, g.desc, left, n, f)
            /\ Faults(f + m)
            /\ \/ /\ ~LoopEnds(n) /\ m = 0
                  /\ call' = [call EXCEPT ![a] =
                                Moved(c, n, c.buf \o UnitsRead(a, g.desc, n))]
                  /\ UNCHANGED <<ret, handle>>
               \/ /\ LoopEnds(n)
                  /\ call' = [call EXCEPT ![a] = Idle]
                  /\ ReadReturns(a, n, m)
      BY Zenon DEF ocall_read_file_full, c, g, left
    <2>2. \A n \in -1..CAP : LoopEnds(n) <=> ~(n > 0)
      BY DEF LoopEnds
    <2>3. \A n \in -1..CAP : n <= 0 <=> ~(n > 0)
      OBVIOUS
    <2> QED BY <2>1, <2>2, <2>3, ZenonT(60)
  <1>7. n \in Int /\ f + m \in Nat
    OBVIOUS
  <1>8. /\ HostOK' /\ n <= left
        /\ n > 0 => /\ UnitsRead(a, g.desc, n) \in Seq(Unit)
                    /\ Len(UnitsRead(a, g.desc, n)) = n
    <2>1. ocall_read_file256(a, g.desc, left, n, f)
      BY <1>6
    <2>2. HostOK' /\ n <= left
      BY <1>0, <1>5, <1>7, <2>1, ReadHost
    <2>3. n > 0 => /\ UnitsRead(a, g.desc, n) \in Seq(Unit)
                   /\ Len(UnitsRead(a, g.desc, n)) = n
      BY <1>0, <1>5, <1>7, <2>1, ReadUnits
    <2> QED BY <2>2, <2>3
  <1>9. UNCHANGED <<inst, written, opens>>
    BY DEF ocall_read_file_full
  <1>10. CountersOK' /\ InstOK' /\ WrittenOK'
    BY <1>0, <1>6, <1>7, <1>9, FaultsType DEF CountersOK, InstOK, WrittenOK
  <1>11. CASE /\ n > 0
              /\ call' = [call EXCEPT ![a] =
                            Moved(c, n, c.buf \o UnitsRead(a, g.desc, n))]
              /\ UNCHANGED <<ret, handle>>
    <2> DEFINE u == UnitsRead(a, g.desc, n)
               v == Moved(c, n, c.buf \o u)
    <2>1. u \in Seq(Unit) /\ Len(u) = n
      BY <1>8, <1>11
    <2> HIDE DEF u
    <2>2. c.buf \o u \in Seq(Unit) /\ Len(c.buf \o u) = c.offset + n
      <3> DEFINE b == c.buf
      <3>1. b \in Seq(Unit) /\ Len(b) = c.offset
        BY <1>2
      <3> HIDE DEF b
      <3>2. b \o u \in Seq(Unit) /\ Len(b \o u) = Len(b) + Len(u)
        BY <2>1, <3>1, ConcatUnits
      <3> QED BY <2>1, <3>1, <3>2 DEF b
    <2>3. c.offset + n <= c.count /\ c.offset + n \in Nat
      BY <1>2, <1>5, <1>7, <1>8, <1>11
    <2>4. /\ v \in CallRec /\ v.op = "read" /\ v.h = c.h
          /\ v.offset <= v.count /\ Len(v.buf) = v.offset
      BY <1>1, <1>2, <2>2, <2>3 DEF Moved, CallRec
    <2>5. call' = [call EXCEPT ![a] = v]
      BY <1>11 DEF u
    <2> HIDE DEF v
    <2>6. CallsOK' /\ LoopInBounds'
      BY <1>0, <1>1, <1>11, <2>4, <2>5, CallSet, BoundsKept DEF Safe
    <2>7. HandlesOK' /\ RetOK'
      BY <1>0, <1>11 DEF HandlesOK, RetOK, Live
    <2> QED BY <1>8, <1>10, <2>6, <2>7, TypePartsNext DEF Safe
  <1>12. CASE n <= 0 /\ call' = [call EXCEPT ![a] = Idle] /\ ReadReturns(a, n, m)
    <2> DEFINE size == LoopResult(c.offset, n)
               data == IF g.mode = "r" THEN Decrypt(KeyOf(a, c.h), g.prev, c.buf)
                       ELSE [j \in 1..(size \div BLK) |-> Garbage]
               last == LastBlock(c.buf)
    <2>1. size \in Int /\ (size >= 0 => size = c.offset)
      BY <1>2, <1>7, <1>12 DEF LoopResult
    <2>2. /\ \/ \E r \in Result, i \in Nat :
                   Return(a, ReadReturned(r, KeyOf(a, c.h), c.count, i, << >>))
             \/ /\ size > 0 /\ size % BLK = 0
                /\ Return(a, ReadReturned("SUCCESS", KeyOf(a, c.h), c.count, size, data))
          /\ \/ handle' = handle
             \/ /\ size > 0 /\ size % BLK = 0
                /\ handle' = [handle EXCEPT ![a][c.h] = Chained(g, last)]
      <3> HIDE DEF data, last
      <3>1. \/ /\ size < 0
               /\ Return(a, ReadReturned("GENERIC", KeyOf(a, c.h), c.count, 0, << >>))
               /\ UNCHANGED handle
            \/ /\ size >= 0
               /\ Return(a, ReadReturned("GENERIC", KeyOf(a, c.h), c.count, size, << >>))
               /\ UNCHANGED handle
            \/ /\ size = 0
               /\ Return(a, ReadReturned("SUCCESS", KeyOf(a, c.h), c.count, 0, << >>))
               /\ UNCHANGED handle
            \/ /\ size > 0
               /\ Return(a, ReadReturned("OUT_OF_MEMORY", KeyOf(a, c.h), c.count, size, << >>))
               /\ UNCHANGED handle
            \/ /\ size > 0 /\ size % BLK = 0
               /\ Return(a, ReadReturned("SUCCESS", KeyOf(a, c.h), c.count, size, data))
               /\ handle' = [handle EXCEPT ![a][c.h] = Chained(g, last)]
        BY <1>12, OwnerKey DEF ReadReturns, c, g, data, last
      <3> HIDE DEF size
      <3> QED BY <2>1, <3>1 DEF Result
    <2>3. size > 0 => /\ size \div BLK \in 1..(Len(c.buf) \div BLK) \/ size % BLK # 0
                      /\ size \div BLK \in Nat
      BY <1>2, <2>1, SMTT(60)
    <2>4. data \in Seq(Data \cup {Garbage}) \/ ~(size > 0 /\ size % BLK = 0)
      <3>1. CASE g.mode = "r"
        BY <1>2, <3>1, DecryptType
      <3>2. CASE g.mode # "r" /\ size > 0
        <4> DEFINE q == size \div BLK
        <4>1. data = [j \in 1..q |-> Garbage] /\ q \in Nat
          BY <2>3, <3>2
        <4> HIDE DEF q, data
        <4>2. data \in [1..q -> Data \cup {Garbage}]
          BY <4>1
        <4> QED BY <4>1, <4>2, SeqDef
      <3> QED BY <3>1, <3>2
    <2> HIDE DEF data
    <2>5. (size > 0 /\ size % BLK = 0) => last \in Block
      BY <1>2, <2>1, <2>3, BlockAtType DEF LastBlock
    <2> HIDE DEF last, size
    <2>6. HandlesOK' /\ \A b \in Apps \ {a} : handle'[b] = handle[b]
      <3>1. CASE handle' = handle
        BY <1>0, <3>1 DEF HandlesOK, Live
      <3>2. CASE last \in Block /\ handle' = [handle EXCEPT ![a][c.h] = Chained(g, last)]
        <4> DEFINE e == Chained(g, last)
        <4>1. e \in HandleRec /\ e.id \in ObjectIDs /\ e.desc \in Fds
          BY <1>3, <3>2 DEF Chained, HandleRec
        <4>2. handle' = [handle EXCEPT ![a][c.h] = e]
          BY <3>2
        <4> HIDE DEF e
        <4>3. HandlesOK'
          BY <1>0, <1>2, <4>1, <4>2, HandleSet
        <4> QED BY <1>0, <4>2, <4>3 DEF HandlesOK
      <3> QED BY <2>2, <2>5, <3>1, <3>2
    <2>7. CallsOK' /\ LoopInBounds'
      BY <1>0, <1>12, <2>6, CallEnds, BoundsKept, RecordTypes DEF Safe
    <2>8. RetOK'
      <3>1. CASE \E r \in Result, i \in Nat :
                   Return(a, ReadReturned(r, KeyOf(a, c.h), c.count, i, << >>))
        <4>1. PICK r \in Result, i \in Nat :
                   Return(a, ReadReturned(r, KeyOf(a, c.h), c.count, i, << >>))
          BY <3>1
        <4>2. ReadReturned(r, KeyOf(a, c.h), c.count, i, << >>) \in RetRec
          BY <1>2, <1>4, <4>1 DEF ReadReturned, RetRec
        <4> QED BY <1>0, <4>1, <4>2 DEF RetOK, Return
      <3>2. CASE /\ size > 0 /\ size % BLK = 0
                 /\ Return(a, ReadReturned("SUCCESS", KeyOf(a, c.h), c.count, size, data))
        <4>1. ReadReturned("SUCCESS", KeyOf(a, c.h), c.count, size, data) \in RetRec
          BY <1>2, <1>4, <2>1, <2>4, <3>2 DEF ReadReturned, RetRec, Result
        <4> QED BY <1>0, <3>2, <4>1 DEF RetOK, Return
      <3> QED BY <2>2, <3>1, <3>2
    <2> QED BY <1>8, <1>10, <2>6, <2>7, <2>8, TypePartsNext DEF Safe
  <1> QED BY <1>6, <1>11, <1>12

\* TEE_CloseObject, with or without a panic.
LEMMA CloseSafe ==
  ASSUME Safe, NEW a \in Apps, NEW h \in Handles, TEE_CloseObject(a, h)
  PROVE  Safe'
  <1>0. HostOK /\ HandlesOK /\ CallsOK /\ CountersOK /\ InstOK /\ RetOK /\ WrittenOK
    BY TypeParts DEF Safe
  <1>1. PICK rv \in {0, -1}, f \in 0..1 :
          /\ ocall_close_file(a, handle[a][h].desc, rv, f)
          /\ Faults(f)
          /\ \/ rv # 0 /\ TEE_Panic(a)
             \/ /\ rv = 0
                /\ handle' = [handle EXCEPT ![a][h] = Closed(handle[a][h].desc)]
                /\ Return(a, Returned("SUCCESS"))
                /\ UNCHANGED <<inst, call, written, opens>>
    BY DEF TEE_CloseObject
  <1>2. HostOK'
    BY <1>0, <1>1, CloseHost
  <1>3. CountersOK'
    <2>1. opens' = opens
      BY <1>1 DEF TEE_Panic, LeaveInstance
    <2> QED BY <1>0, <1>1, <2>1, FaultsType DEF CountersOK
  <1>4. CASE TEE_Panic(a)
    BY <1>2, <1>3, <1>4, LeaveSafe DEF TEE_Panic
  <1>5. CASE /\ handle' = [handle EXCEPT ![a][h] = Closed(handle[a][h].desc)]
             /\ Return(a, Returned("SUCCESS"))
             /\ UNCHANGED <<inst, call, written, opens>>
    <2> DEFINE g == Closed(handle[a][h].desc)
    <2>1. g \in HandleRec /\ g.st = "closed"
      <3>1. handle[a][h] \in HandleRec
        BY <1>0 DEF HandlesOK
      <3> QED BY <3>1 DEF HandleRec, Closed, Torn, Block, Chains, Modes
    <2> HIDE DEF g
    <2>2. handle' = [handle EXCEPT ![a][h] = g]
      BY <1>5 DEF g
    <2>3. HandlesOK'
      BY <1>0, <2>1, <2>2, HandleSet
    <2>4. call[a] = Idle
      BY DEF TEE_CloseObject, Running
    <2>5. CallsOK'
      BY <1>0, <1>5, <2>2, <2>4 DEF CallsOK, HandlesOK, Live
    <2>6. RetOK' /\ InstOK' /\ WrittenOK' /\ LoopInBounds'
      BY <1>0, <1>5, RecordTypes DEF RetOK, Return, Result, InstOK, WrittenOK,
                                     LoopInBounds, Safe
    <2> QED BY <1>2, <1>3, <2>3, <2>5, <2>6, TypePartsNext DEF Safe
  <1> QED BY <1>1, <1>4, <1>5


\* Every step preserves types and loop bounds.
LEMMA StepSafe == Safe /\ [Next]_vars => Safe'
  <1> SUFFICES ASSUME Safe, [Next]_vars PROVE Safe'
    OBVIOUS
  <1>0. HostOK /\ HandlesOK /\ CallsOK /\ CountersOK /\ InstOK /\ RetOK /\ WrittenOK
    BY TypeParts DEF Safe
  <1>1. CASE UNCHANGED vars
    BY <1>1 DEF vars, Safe, TypeOK, LoopInBounds, Live
  <1>2. ASSUME NEW a \in Apps, run_enclave(a) PROVE Safe'
    <2>1. HostOK' /\ HandlesOK' /\ CallsOK' /\ CountersOK' /\ RetOK' /\ WrittenOK'
          /\ LoopInBounds'
      BY <1>0, <1>2 DEF run_enclave, hostVars, HostOK, HandlesOK, CallsOK, CountersOK,
                        RetOK, WrittenOK, LoopInBounds, Safe, Live
    <2>2. InstOK'
      BY <1>0, <1>2 DEF run_enclave, InstOK
    <2> QED BY <2>1, <2>2, TypePartsNext DEF Safe
  <1>3. ASSUME NEW a \in Apps, EAPP_RETURN(a) \/ CloseNull(a) PROVE Safe'
    <2>1. HostOK' /\ CountersOK'
      BY <1>0, <1>3 DEF EAPP_RETURN, CloseNull, TEE_Panic, LeaveInstance, hostVars,
                        HostOK, CountersOK
    <2> QED BY <1>3, <2>1, LeaveSafe DEF EAPP_RETURN, CloseNull, TEE_Panic
  <1>4. ASSUME NEW a \in Apps, Crash(a) PROVE Safe'
    <2>1. HostOK'
      BY <1>0, <1>4 DEF Crash, ProcessExit, HostOK, ClosedFd, OpenFile, Modes
    <2>2. CountersOK'
      BY <1>0, <1>4 DEF Crash, ProcessExit, LeaveInstance, CountersOK
    <2> QED BY <1>4, <2>1, <2>2, LeaveSafe DEF Crash
  <1>5. ASSUME NEW a \in Apps, OpenBadID(a) \/ DataBadParameters(a) PROVE Safe'
    <2>1. \E r \in Result : Return(a, Returned(r))
      BY <1>5 DEF OpenBadID, OpenFails, DataBadParameters, Result
    <2>2. UNCHANGED <<hostVars, inst, handle, call, written, opens>>
      BY <1>5 DEF OpenBadID, OpenFails, DataBadParameters
    <2>3. HostOK' /\ CountersOK'
      BY <1>0, <2>2 DEF hostVars, HostOK, CountersOK
    <2> QED BY <2>1, <2>2, <2>3, OnlyReturns, RecordTypes
  <1>6. ASSUME NEW a \in Apps, NEW flags \in OpenArgs,
               OpenReadWrite(a, flags) \/ OpenNoMemory(a, flags)
        PROVE  Safe'
    <2>1. \E r \in Result : Return(a, Returned(r))
      BY <1>6 DEF OpenReadWrite, OpenNoMemory, OpenFails, Result
    <2>2. UNCHANGED <<made, file, fdt, inst, handle, call, written, opens>>
      BY <1>6 DEF OpenReadWrite, OpenNoMemory, OpenFails, hostVars
    <2>3. faults' = faults \/ Faults(1)
      BY <1>6 DEF OpenReadWrite, OpenNoMemory, hostVars
    <2>4. HostOK' /\ CountersOK'
      BY <1>0, <2>2, <2>3 DEF HostOK, CountersOK, Faults
    <2> QED BY <2>1, <2>2, <2>4, OnlyReturns, RecordTypes
  <1>7. ASSUME NEW a \in Apps, NEW h \in Handles, WriteNoMemory(a, h) PROVE Safe'
    <2>1. Returned("OUT_OF_MEMORY") \in RetRec
      BY RecordTypes DEF Result
    <2>2. HostOK' /\ CountersOK'
      BY <1>0, <1>7 DEF WriteNoMemory, HostOK, CountersOK, Faults
    <2> QED BY <1>7, <2>1, <2>2, OnlyReturns DEF WriteNoMemory
  <1>8. ASSUME NEW a \in Apps, NEW h \in Handles, NEW n \in 0..MaxBlocks,
               NEW d \in [1..n -> Data], TEE_WriteObjectData(a, h, d)
        PROVE  Safe'
    <2>1. d \in Chains
      BY SeqDef DEF Chains
    <2> QED BY <1>8, <2>1, WriteStartSafe
  <1>9. ASSUME NEW a \in Apps, NEW h \in Handles, NEW n \in 0..MaxBlocks,
               TEE_ReadObjectData(a, h, n)
        PROVE  Safe'
    BY <1>9, ReadStartSafe
  <1> QED
    <2>1. ASSUME Next PROVE Safe'
      BY <1>2, <1>3, <1>4, <1>5, <1>6, <1>7, <1>8, <1>9, <2>1, OpenSafe, CloseSafe,
         WriteLoopSafe, ReadLoopSafe DEF Next
    <2> QED BY <1>1, <2>1

\* The persistent-object API keeps its types: handles, calls, descriptors and
\* file contents stay well formed, whatever transfers of the host fail or are short.
THEOREM TypeCorrect == Spec => []TypeOK
  <1>1. Safe => TypeOK
    BY DEF Safe
  <1> QED BY <1>1, InitSafe, StepSafe, PTL DEF Spec

\* The chunked loops of ocall_read_file_full and ocall_write_file_full never
\* leave the caller's buffer, for every block size and ocall size and every host
\* that answers at most what it was asked, or fails.  (A longer answer, which the
\* code does not check for, is not a step of HostFiles.)
THEOREM LoopsInBounds == Spec => []LoopInBounds
  <1>1. Safe => LoopInBounds
    BY DEF Safe
  <1> QED BY <1>1, InitSafe, StepSafe, PTL DEF Spec

(***************************************************************************)
(* DescriptorsOwned is inductive with the types: open takes a descriptor   *)
(* that is free, hence nobody's; close gives one back together with the    *)
(* only handle that has it; nothing else changes what a descriptor names.  *)
(***************************************************************************)
Owns(a) ==
    \A g, h \in Handles : Live(a, h) =>
        /\ IsOpen(a, handle[a][h].desc)
        /\ fdt[a][handle[a][h].desc].name = FileOf[handle[a][h].id]
        /\ fdt[a][handle[a][h].desc].mode = handle[a][h].mode
        /\ (Live(a, g) /\ g # h) => handle[a][g].desc # handle[a][h].desc

\* DescriptorsOwned speaks of each process on its own.
LEMMA OwnsParts == DescriptorsOwned <=> \A a \in Apps : Owns(a)
  BY DEF DescriptorsOwned, Owns

LEMMA OwnsAll ==
  ASSUME \A a \in Apps : Owns(a)'
  PROVE  DescriptorsOwned'
  BY SMTT(60) DEF DescriptorsOwned, Owns

\* What handle h of process a asks of its descriptor.
OwnsNow(a, h) ==
    /\ IsOpen(a, handle[a][h].desc)
    /\ fdt[a][handle[a][h].desc].name = FileOf[handle[a][h].id]
    /\ fdt[a][handle[a][h].desc].mode = handle[a][h].mode

LEMMA OwnsByHandle ==
  ASSUME NEW a \in Apps, \A h \in Handles : Live(a, h)' => OwnsNow(a, h)',
         \A g, h \in Handles : (Live(a, g)' /\ Live(a, h)' /\ g # h) =>
                                 handle'[a][g].desc # handle'[a][h].desc
  PROVE  Owns(a)'
  BY DEF Owns, OwnsNow

LEMMA OwnsOne ==
  ASSUME NEW a \in Apps, Owns(a), NEW h \in Handles, Live(a, h)
  PROVE  OwnsNow(a, h)
  BY DEF Owns, OwnsNow

LEMMA OwnsTwo ==
  ASSUME NEW a \in Apps, Owns(a), NEW g \in Handles, NEW h \in Handles,
         Live(a, g), Live(a, h), g # h
  PROVE  handle[a][g].desc # handle[a][h].desc
  BY DEF Owns

\* A process whose descriptors and handles are left alone keeps owning them.
LEMMA OwnsKept ==
  ASSUME NEW a \in Apps, Owns(a), fdt'[a] = fdt[a], handle'[a] = handle[a]
  PROVE  Owns(a)'
  BY DEF Owns, Live, IsOpen

\* Moving the position of a descriptor, or the chaining value of a handle,
\* keeps what the descriptors of process a stand for.
LEMMA OwnsMoved ==
  ASSUME NEW a \in Apps, Owns(a), HandlesOK,
         \A fd \in Fds : /\ fdt'[a][fd].name = fdt[a][fd].name
                         /\ fdt'[a][fd].mode = fdt[a][fd].mode,
         \A h \in Handles : /\ handle'[a][h].st = handle[a][h].st
                            /\ handle'[a][h].id = handle[a][h].id
                            /\ handle'[a][h].desc = handle[a][h].desc
                            /\ handle'[a][h].mode = handle[a][h].mode
  PROVE  Owns(a)'
  BY DEF Owns, Live, IsOpen, HandlesOK

\* A process without live handles owns whatever they ask for.
LEMMA OwnsNothing ==
  ASSUME NEW a \in Apps, \A h \in Handles : handle'[a][h].st # "open"
  PROVE  Owns(a)'
  BY DEF Owns, Live

\* The end of an instance, by return, panic or crash.
LEMMA LeaveOwned ==
  ASSUME Safe, DescriptorsOwned, NEW a \in Apps, NEW how, LeaveInstance(a, how),
         \A b \in Apps \ {a} : fdt'[b] = fdt[b]
  PROVE  DescriptorsOwned'
  <1>0. HandlesOK
    BY TypeParts DEF Safe
  <1>1. ASSUME NEW b \in Apps, b # a PROVE Owns(b)'
    <2>1. fdt'[b] = fdt[b] /\ handle'[b] = handle[b]
      BY <1>0, <1>1 DEF LeaveInstance, HandlesOK
    <2>2. Owns(b)
      BY OwnsParts
    <2> QED BY <1>0, <2>1, <2>2, OwnsKept
  <1>2. Owns(a)'
    BY <1>0, OwnsNothing, RecordTypes DEF LeaveInstance, HandlesOK
  <1>3. \A b \in Apps : Owns(b)'
    BY <1>1, <1>2
  <1> QED BY <1>3, OwnsAll

\* A descriptor of process a is advanced, and chaining values may change.
LEMMA MoveOwned ==
  ASSUME Safe, DescriptorsOwned,
         \A b \in Apps : \A fd \in Fds : /\ fdt'[b][fd].name = fdt[b][fd].name
                                         /\ fdt'[b][fd].mode = fdt[b][fd].mode,
         \A b \in Apps : \A h \in Handles : /\ handle'[b][h].st = handle[b][h].st
                                            /\ handle'[b][h].id = handle[b][h].id
                                            /\ handle'[b][h].desc = handle[b][h].desc
                                            /\ handle'[b][h].mode = handle[b][h].mode
  PROVE  DescriptorsOwned'
  <1>0. HandlesOK
    BY TypeParts DEF Safe
  <1>1. ASSUME NEW b \in Apps PROVE Owns(b)'
    BY <1>0, OwnsParts, OwnsMoved
  <1> QED BY <1>1 DEF DescriptorsOwned, Owns

\* TEE_CreatePersistentObject and TEE_OpenPersistentObject: the descriptor that
\* the host returns was free, so no live handle has it.
LEMMA OpenOwned ==
  ASSUME Safe, DescriptorsOwned, NEW a \in Apps, NEW id \in ObjectIDs,
         NEW flags \in OpenArgs, NEW ocreat \in BOOLEAN,
         OpenPersistentObject(a, id, flags, ocreat)
  PROVE  DescriptorsOwned'
  <1>0. HostOK /\ HandlesOK
    BY TypeParts DEF Safe
  <1> DEFINE of == flags2flags(flags, ocreat)
             md == IF flags.write THEN "w" ELSE "r"
  <1>1. of.mode = md /\ md \in Modes
    BY DEF flags2flags, Modes
  <1> HIDE DEF of, md
  <1>2. PICK desc \in Fds \cup {-1}, f \in 0..1, k \in 0..1 :
          /\ ocall_open_file(a, FileOf[id], of, desc, f)
          /\ \/ handle' = handle
             \/ /\ desc >= 0
                /\ \E h \in Handles :
                   /\ handle[a][h].st # "open"
                   /\ handle' = [handle EXCEPT ![a][h] =
                         [st |-> "open", id |-> id, desc |-> desc, mode |-> md,
                          prev |-> IV(set_object_key(a, id))]]
    BY DEF OpenPersistentObject, OpenFails, of, md
  <1>3. \/ fdt' = fdt /\ desc = -1
        \/ /\ desc \in FreeFds(a)
           /\ fdt' = [fdt EXCEPT ![a][desc] = [name |-> FileOf[id], pos |-> 0, mode |-> md]]
    BY <1>1, <1>2 DEF ocall_open_file, LowestFree
  <1>4. ASSUME NEW b \in Apps, b # a PROVE Owns(b)'
    <2>1. fdt'[b] = fdt[b] /\ handle'[b] = handle[b]
      BY <1>0, <1>2, <1>3, <1>4 DEF HostOK, HandlesOK
    <2> QED BY <2>1, OwnsParts, OwnsKept
  <1>5. Owns(a)'
    <2>0. Owns(a)
      BY OwnsParts
    <2>1. CASE fdt' = fdt /\ desc = -1
      BY <1>2, <2>0, <2>1, OwnsKept
    <2>2. CASE /\ desc \in FreeFds(a)
               /\ fdt' = [fdt EXCEPT ![a][desc] =
                             [name |-> FileOf[id], pos |-> 0, mode |-> md]]
      <3>1. desc \in Fds /\ fdt[a][desc].name = NoFile
        BY <2>2 DEF FreeFds
      <3>2. \A h \in Handles : Live(a, h) => handle[a][h].desc # desc
        BY <2>0, <3>1 DEF Owns, IsOpen
      <3>3. \A fd \in Fds : fd # desc => fdt'[a][fd] = fdt[a][fd]
        BY <1>0, <2>2 DEF HostOK
      <3>4. fdt'[a][desc].name = FileOf[id] /\ fdt'[a][desc].mode = md
        BY <1>0, <2>2, <3>1 DEF HostOK
      <3>5. FileOf[id] \in Names /\ FileOf[id] # NoFile
        OBVIOUS
      <3>6. CASE handle' = handle
        BY <1>0, <2>0, <3>2, <3>3, <3>6 DEF Owns, Live, IsOpen, HandlesOK
      <3>7. CASE \E h \in Handles :
                   /\ handle[a][h].st # "open"
                   /\ handle' = [handle EXCEPT ![a][h] =
                         [st |-> "open", id |-> id, desc |-> desc, mode |-> md,
                          prev |-> IV(set_object_key(a, id))]]
        <4>1. PICK h \in Handles :
                /\ handle[a][h].st # "open"
                /\ handle' = [handle EXCEPT ![a][h] =
                      [st |-> "open", id |-> id, desc |-> desc, mode |-> md,
                       prev |-> IV(set_object_key(a, id))]]
          BY <3>7
        <4>2. /\ handle'[a][h].id = id /\ handle'[a][h].desc = desc
              /\ handle'[a][h].mode = md
              /\ \A i \in Handles : i # h => handle'[a][i] = handle[a][i]
          BY <1>0, <4>1 DEF HandlesOK
        <4>3. \A i \in Handles : (i # h /\ Live(a, i)') =>
                 /\ Live(a, i) /\ handle'[a][i] = handle[a][i]
                 /\ handle[a][i].desc \in Fds /\ handle[a][i].desc # desc
          BY <1>0, <3>2, <4>2 DEF Live, HandlesOK
        <4>4. ASSUME NEW i \in Handles, Live(a, i)', i # h
              PROVE  /\ fdt'[a][handle'[a][i].desc] = fdt[a][handle[a][i].desc]
                     /\ Live(a, i) /\ handle'[a][i] = handle[a][i]
                     /\ handle'[a][i].desc # desc
          BY <3>3, <4>3, <4>4
        <4>5. ASSUME NEW i \in Handles, Live(a, i)', i # h PROVE OwnsNow(a, i)'
          <5>1. OwnsNow(a, i)
            BY <2>0, <4>4, <4>5, OwnsOne
          <5> QED BY <4>4, <4>5, <5>1 DEF OwnsNow, IsOpen
        <4>6. OwnsNow(a, h)'
          BY <3>1, <3>4, <3>5, <4>2 DEF OwnsNow, IsOpen
        <4>7. ASSUME NEW i \in Handles, NEW j \in Handles, Live(a, i)', Live(a, j)', i # j
              PROVE  handle'[a][i].desc # handle'[a][j].desc
          <5>1. CASE i # h /\ j # h
            BY <2>0, <4>4, <4>7, <5>1, OwnsTwo
          <5>2. CASE i = h \/ j = h
            BY <4>2, <4>4, <4>7, <5>2
          <5> QED BY <5>1, <5>2
        <4>8. \A i \in Handles : Live(a, i)' => OwnsNow(a, i)'
          BY <4>5, <4>6
        <4> QED BY <4>7, <4>8, OwnsByHandle
      <3> QED BY <1>2, <3>6, <3>7
    <2> QED BY <1>3, <2>1, <2>2
  <1>6. \A b \in Apps : Owns(b)'
    BY <1>4, <1>5
  <1> QED BY <1>6, OwnsAll

\* TEE_CloseObject of a live handle: the descriptor given back is its own, and
\* no other live handle has it.
LEMMA CloseOwned ==
  ASSUME Safe, DescriptorsOwned, ~DoubleClose, NEW a \in Apps, NEW h \in Handles,
         TEE_CloseObject(a, h)
  PROVE  DescriptorsOwned'
  <1>0. HostOK /\ HandlesOK
    BY TypeParts DEF Safe
  <1> DEFINE fd == handle[a][h].desc
  <1>1. Live(a, h) /\ fd \in Fds
    BY <1>0 DEF TEE_CloseObject, HandlesOK
  <1>2. PICK rv \in {0, -1}, f \in 0..1 :
          /\ ocall_close_file(a, fd, rv, f)
          /\ \/ TEE_Panic(a)
             \/ handle' = [handle EXCEPT ![a][h] = Closed(fd)]
    BY DEF TEE_CloseObject
  <1> HIDE DEF fd
  <1>3. fdt' = fdt \/ fdt' = [fdt EXCEPT ![a][fd] = ClosedFd]
    BY <1>2 DEF ocall_close_file
  <1>4. \A b \in Apps \ {a} : fdt'[b] = fdt[b]
    BY <1>0, <1>3 DEF HostOK
  <1>5. CASE TEE_Panic(a)
    BY <1>4, <1>5, LeaveOwned DEF TEE_Panic
  <1>6. CASE handle' = [handle EXCEPT ![a][h] = Closed(fd)]
    <2>1. ASSUME NEW b \in Apps, b # a PROVE Owns(b)'
      BY <1>0, <1>4, <1>6, <2>1, OwnsParts, OwnsKept DEF HandlesOK
    <2>2. Owns(a)
      BY OwnsParts
    <2>3. /\ handle'[a][h].st # "open"
          /\ \A i \in Handles : i # h => handle'[a][i] = handle[a][i]
      BY <1>0, <1>6 DEF HandlesOK, Closed
    <2>4. \A i \in Handles : Live(a, i)' =>
             /\ Live(a, i) /\ i # h /\ handle'[a][i] = handle[a][i]
             /\ handle[a][i].desc \in Fds /\ handle[a][i].desc # fd
      BY <1>0, <1>1, <2>2, <2>3 DEF Live, Owns, HandlesOK, fd
    <2>5. \A i \in Fds : i # fd => fdt'[a][i] = fdt[a][i]
      BY <1>0, <1>3 DEF HostOK
    <2>6. Owns(a)'
      <3>1. ASSUME NEW i \in Handles, Live(a, i)' PROVE OwnsNow(a, i)'
        <4>1. /\ Live(a, i) /\ handle'[a][i] = handle[a][i]
              /\ handle[a][i].desc \in Fds /\ handle[a][i].desc # fd
          BY <2>4, <3>1
        <4>2. fdt'[a][handle[a][i].desc] = fdt[a][handle[a][i].desc]
          BY <2>5, <4>1
        <4>3. OwnsNow(a, i)
          BY <2>2, <4>1, OwnsOne
        <4> QED BY <4>1, <4>2, <4>3 DEF OwnsNow, IsOpen
      <3>2. ASSUME NEW g \in Handles, NEW i \in Handles, Live(a, g)', Live(a, i)', g # i
            PROVE  handle'[a][g].desc # handle'[a][i].desc
        <4>1. /\ Live(a, i) /\ handle'[a][i] = handle[a][i]
              /\ Live(a, g) /\ handle'[a][g] = handle[a][g]
          BY <2>4, <3>2
        <4> QED BY <2>2, <3>2, <4>1, OwnsTwo
      <3> QED BY <3>1, <3>2, OwnsByHandle
    <2>7. \A b \in Apps : Owns(b)'
      BY <2>1, <2>6
    <2> QED BY <2>7, OwnsAll
  <1> QED BY <1>2, <1>5, <1>6

\* A pass of a transfer loop only advances the descriptor it works on.
LEMMA TransferKeeps ==
  ASSUME HostOK, NEW a \in Apps, NEW fd, NEW r,
         fdt' = fdt \/ (IsOpen(a, fd) /\ fdt' = [fdt EXCEPT ![a][fd] = Advance(@, r)])
  PROVE  \A b \in Apps : \A i \in Fds : /\ fdt'[b][i].name = fdt[b][i].name
                                        /\ fdt'[b][i].mode = fdt[b][i].mode
  BY DEF HostOK, IsOpen, Advance

\* Advancing a chaining value leaves the rest of the handle alone.
LEMMA ChainedKeeps ==
  ASSUME HandlesOK, NEW a \in Apps, NEW h \in Handles, NEW c,
         \/ handle' = handle
         \/ handle' = [handle EXCEPT ![a][h] = Chained(handle[a][h], c)]
  PROVE  \A b \in Apps : \A i \in Handles : /\ handle'[b][i].st = handle[b][i].st
                                            /\ handle'[b][i].id = handle[b][i].id
                                            /\ handle'[b][i].desc = handle[b][i].desc
                                            /\ handle'[b][i].mode = handle[b][i].mode
  BY DEF HandlesOK, Chained

\* What a step of a transfer does to the descriptors and to the handles.
LEMMA WriteLoopMoves ==
  ASSUME Safe, NEW a \in Apps, ocall_write_file_full(a)
  PROVE  /\ handle' = handle
         /\ \E fd, r : \/ fdt' = fdt
                       \/ IsOpen(a, fd) /\ fdt' = [fdt EXCEPT ![a][fd] = Advance(@, r)]
  BY DEF ocall_write_file_full, ocall_write_file256, Writable

\* The same for a pass of the read loop, whose last one advances persist_iv.
LEMMA ReadLoopMoves ==
  ASSUME Safe, NEW a \in Apps, ocall_read_file_full(a)
  PROVE  /\ \E h \in Handles : \E c :
               \/ handle' = handle
               \/ handle' = [handle EXCEPT ![a][h] = Chained(handle[a][h], c)]
         /\ \E fd, r : \/ fdt' = fdt
                       \/ IsOpen(a, fd) /\ fdt' = [fdt EXCEPT ![a][fd] = Advance(@, r)]
  <1>0. CallsOK
    BY TypeParts DEF Safe
  <1>1. call[a].op = "read"
    BY DEF ocall_read_file_full
  <1>2. call[a].h \in Handles
    BY <1>0, <1>1 DEF CallsOK, CallRec, Idle
  <1>3. \/ handle' = handle
        \/ \E c : handle' = [handle EXCEPT ![a][call[a].h] =
                                Chained(handle[a][call[a].h], c)]
    BY DEF ocall_read_file_full, ReadReturns
  <1>4. \E fd, r : \/ fdt' = fdt
                   \/ IsOpen(a, fd) /\ fdt' = [fdt EXCEPT ![a][fd] = Advance(@, r)]
    BY DEF ocall_read_file_full, ocall_read_file256, Readable
  <1> QED BY <1>2, <1>3, <1>4

\* Every step keeps every live handle the owner of its descriptor.
LEMMA StepOwned ==
  ASSUME ~DoubleClose
  PROVE  Safe /\ DescriptorsOwned /\ [Next]_vars => DescriptorsOwned'
  <1> SUFFICES ASSUME Safe, DescriptorsOwned, [Next]_vars PROVE DescriptorsOwned'
    OBVIOUS
  <1>0. HostOK /\ HandlesOK
    BY TypeParts DEF Safe
  <1>1. ASSUME UNCHANGED <<fdt, handle>> PROVE DescriptorsOwned'
    BY <1>1 DEF DescriptorsOwned, Live, IsOpen
  <1>2. ASSUME NEW a \in Apps, run_enclave(a) \/ OpenBadID(a) \/ DataBadParameters(a)
        PROVE  DescriptorsOwned'
    BY <1>1, <1>2 DEF run_enclave, OpenBadID, DataBadParameters, OpenFails, hostVars
  <1>3. ASSUME NEW a \in Apps, EAPP_RETURN(a) \/ CloseNull(a) \/ Crash(a)
        PROVE  DescriptorsOwned'
    <2>1. \A b \in Apps \ {a} : fdt'[b] = fdt[b]
      BY <1>0, <1>3 DEF EAPP_RETURN, CloseNull, Crash, ProcessExit, hostVars, HostOK
    <2> QED BY <1>3, <2>1, LeaveOwned DEF EAPP_RETURN, CloseNull, Crash, TEE_Panic
  <1>4. ASSUME NEW a \in Apps, NEW flags \in OpenArgs,
               OpenReadWrite(a, flags) \/ OpenNoMemory(a, flags)
        PROVE  DescriptorsOwned'
    BY <1>1, <1>4 DEF OpenReadWrite, OpenNoMemory, OpenFails, hostVars
  <1>5. ASSUME NEW a \in Apps, NEW h \in Handles, WriteNoMemory(a, h)
        PROVE  DescriptorsOwned'
    BY <1>1, <1>5 DEF WriteNoMemory
  <1>6. ASSUME NEW a \in Apps, NEW h \in Handles, NEW n \in 0..MaxBlocks,
               NEW d \in [1..n -> Data], TEE_WriteObjectData(a, h, d)
        PROVE  DescriptorsOwned'
    <2>1. \E c : \/ handle' = handle
                 \/ handle' = [handle EXCEPT ![a][h] = Chained(handle[a][h], c)]
      BY ZenonT(60), <1>0, <1>6 DEF TEE_WriteObjectData, HandlesOK
    <2>2. fdt' = fdt
      BY <1>6 DEF TEE_WriteObjectData, hostVars
    <2> QED BY <1>0, <2>1, <2>2, ChainedKeeps, MoveOwned
  <1>7. ASSUME NEW a \in Apps, NEW h \in Handles, NEW n \in 0..MaxBlocks,
               TEE_ReadObjectData(a, h, n)
        PROVE  DescriptorsOwned'
    BY <1>1, <1>7 DEF TEE_ReadObjectData, hostVars
  <1>8. ASSUME NEW a \in Apps, ocall_write_file_full(a) PROVE DescriptorsOwned'
    BY <1>0, <1>8, WriteLoopMoves, TransferKeeps, MoveOwned
  <1>9. ASSUME NEW a \in Apps, ocall_read_file_full(a) PROVE DescriptorsOwned'
    <2>1. PICK h \in Handles : \E c :
               \/ handle' = handle
               \/ handle' = [handle EXCEPT ![a][h] = Chained(handle[a][h], c)]
      BY <1>9, ReadLoopMoves
    <2>2. \A b \in Apps : \A i \in Fds : /\ fdt'[b][i].name = fdt[b][i].name
                                         /\ fdt'[b][i].mode = fdt[b][i].mode
      <3>1. PICK fd, r : \/ fdt' = fdt
                         \/ IsOpen(a, fd) /\ fdt' = [fdt EXCEPT ![a][fd] = Advance(@, r)]
        BY <1>9, ReadLoopMoves
      <3> QED BY <1>0, <3>1, TransferKeeps
    <2>3. \A b \in Apps : \A i \in Handles : /\ handle'[b][i].st = handle[b][i].st
                                             /\ handle'[b][i].id = handle[b][i].id
                                             /\ handle'[b][i].desc = handle[b][i].desc
                                             /\ handle'[b][i].mode = handle[b][i].mode
      BY <1>0, <2>1, ChainedKeeps
    <2> QED BY <2>2, <2>3, MoveOwned
  <1>10. ASSUME UNCHANGED vars PROVE DescriptorsOwned'
    BY <1>1, <1>10 DEF vars
  <1> QED
    <2>1. ASSUME NEW a \in Apps, NEW id \in ObjectIDs, NEW flags \in OpenArgs,
                 NEW ocreat \in BOOLEAN, OpenPersistentObject(a, id, flags, ocreat)
          PROVE  DescriptorsOwned'
      BY <2>1, OpenOwned
    <2>2. ASSUME NEW a \in Apps, NEW h \in Handles, TEE_CloseObject(a, h)
          PROVE  DescriptorsOwned'
      BY <2>2, CloseOwned
    <2>3. ASSUME Next PROVE DescriptorsOwned'
      BY <1>2, <1>3, <1>4, <1>5, <1>6, <1>7, <1>8, <1>9, <2>1, <2>2, <2>3 DEF Next
    <2> QED BY <1>10, <2>3

\* As long as the TA closes each handle once, every live handle owns a descriptor
\* that is open on its file with its access mode: no host fault, crash or
\* interleaving of TEE_OpenPersistentObject and TEE_CloseObject makes two
\* handles share one.
THEOREM DescriptorsStayOwned ==
  ASSUME ~DoubleClose
  PROVE  Spec => []DescriptorsOwned
  <1>1. Init => DescriptorsOwned
    BY RecordTypes DEF Init, DescriptorsOwned, Live
  <1>2. Safe /\ DescriptorsOwned /\ [Next]_vars => DescriptorsOwned'
    BY StepOwned
  <1> QED BY <1>1, <1>2, InitSafe, StepSafe, PTL DEF Spec

\* A step that changes a file is a truncating open or a pass of the write loop
\* through the descriptor of the calling handle.
LEMMA FileChanges ==
  ASSUME [Next]_vars, Safe, NEW n \in Names, file'[n] # file[n]
  PROVE  \/ file'[n] = << >>
         \/ \E a \in Apps : /\ call[a].op = "write"
                            /\ Writable(a, handle[a][call[a].h].desc)
                            /\ fdt[a][handle[a][call[a].h].desc].name = n
  <1>0. HostOK
    BY TypeParts DEF Safe
  <1>1. ASSUME NEW a \in Apps, run_enclave(a) \/ EAPP_RETURN(a) \/ Crash(a)
               \/ OpenBadID(a) \/ DataBadParameters(a) \/ CloseNull(a)
        PROVE  FALSE
    BY <1>1 DEF run_enclave, EAPP_RETURN, Crash, ProcessExit, OpenBadID,
                DataBadParameters, CloseNull, hostVars
  <1>2. ASSUME NEW a \in Apps, NEW flags \in OpenArgs,
               OpenReadWrite(a, flags) \/ OpenNoMemory(a, flags)
        PROVE  FALSE
    BY <1>2 DEF OpenReadWrite, OpenNoMemory, hostVars
  <1>3. ASSUME NEW a \in Apps, NEW h \in Handles,
               \/ WriteNoMemory(a, h)
               \/ \E m \in 0..MaxBlocks : \E d \in [1..m -> Data] : TEE_WriteObjectData(a, h, d)
               \/ \E m \in 0..MaxBlocks : TEE_ReadObjectData(a, h, m)
               \/ TEE_CloseObject(a, h)
        PROVE  FALSE
    <2>1. file' = file
      BY <1>3 DEF WriteNoMemory, TEE_ReadObjectData, TEE_CloseObject, ocall_close_file,
                  TEE_WriteObjectData, hostVars
    <2> QED BY <2>1
  <1>4. ASSUME NEW a \in Apps, ocall_read_file_full(a) PROVE FALSE
    BY <1>4 DEF ocall_read_file_full, ocall_read_file256
  <1>5. ASSUME NEW a \in Apps, NEW id \in ObjectIDs, NEW flags \in OpenArgs,
               NEW ocreat \in BOOLEAN, OpenPersistentObject(a, id, flags, ocreat)
        PROVE  file'[n] = << >>
    <2>1. file' = file \/ file' = [file EXCEPT ![FileOf[id]] = << >>]
      BY <1>5 DEF OpenPersistentObject, ocall_open_file
    <2> QED BY <1>0, <2>1 DEF HostOK
  <1>6. ASSUME NEW a \in Apps, ocall_write_file_full(a)
        PROVE  /\ call[a].op = "write"
               /\ Writable(a, handle[a][call[a].h].desc)
               /\ fdt[a][handle[a][call[a].h].desc].name = n
    <2> DEFINE fd == handle[a][call[a].h].desc
    <2>1. /\ call[a].op = "write"
          /\ \/ file' = file
             \/ /\ Writable(a, fd)
                /\ \E c : file' = [file EXCEPT ![fdt[a][fd].name] = c]
      BY <1>6 DEF ocall_write_file_full, ocall_write_file256
    <2> HIDE DEF fd
    <2>2. Writable(a, fd) /\ fdt[a][fd].name = n
      BY <1>0, <2>1 DEF HostOK
    <2> QED BY <2>1, <2>2 DEF fd
  <1>7. CASE UNCHANGED vars
    BY <1>7 DEF vars
  <1> QED
    <2>1. CASE Next
      <3>1. PICK a \in Apps :
               \/ run_enclave(a) \/ EAPP_RETURN(a) \/ Crash(a)
               \/ OpenBadID(a) \/ DataBadParameters(a) \/ CloseNull(a)
               \/ \E flags \in OpenArgs : OpenReadWrite(a, flags) \/ OpenNoMemory(a, flags)
               \/ \E id \in ObjectIDs, flags \in OpenArgs, ocreat \in BOOLEAN :
                     OpenPersistentObject(a, id, flags, ocreat)
               \/ \E h \in Handles :
                     \/ WriteNoMemory(a, h)
                     \/ \E m \in 0..MaxBlocks : \E d \in [1..m -> Data] :
                           TEE_WriteObjectData(a, h, d)
                     \/ \E m \in 0..MaxBlocks : TEE_ReadObjectData(a, h, m)
                     \/ TEE_CloseObject(a, h)
               \/ ocall_write_file_full(a) \/ ocall_read_file_full(a)
        BY <2>1, Zenon DEF Next
      <3>2. CASE \/ run_enclave(a) \/ EAPP_RETURN(a) \/ Crash(a)
                 \/ OpenBadID(a) \/ DataBadParameters(a) \/ CloseNull(a)
        BY <1>1, <3>2
      <3>3. CASE \E flags \in OpenArgs : OpenReadWrite(a, flags) \/ OpenNoMemory(a, flags)
        BY <1>2, <3>3
      <3>4. CASE \E id \in ObjectIDs, flags \in OpenArgs, ocreat \in BOOLEAN :
                    OpenPersistentObject(a, id, flags, ocreat)
        BY <1>5, <3>4
      <3>5. CASE \E h \in Handles :
                    \/ WriteNoMemory(a, h)
                    \/ \E m \in 0..MaxBlocks : \E d \in [1..m -> Data] :
                          TEE_WriteObjectData(a, h, d)
                    \/ \E m \in 0..MaxBlocks : TEE_ReadObjectData(a, h, m)
                    \/ TEE_CloseObject(a, h)
        BY <1>3, <3>5
      <3>6. CASE ocall_write_file_full(a)
        BY <1>6, <3>6
      <3>7. CASE ocall_read_file_full(a)
        BY <1>4, <3>7
      <3> QED BY <3>1, <3>2, <3>3, <3>4, <3>5, <3>6, <3>7, Zenon
    <2> QED BY <1>7, <2>1

\* Under the same discipline no object's data is ever changed through a handle
\* of another object: bytes already in a file are only touched by a truncating
\* open of that name or by TEE_WriteObjectData on a live write handle of an object
\* with that name.
THEOREM OwnFileOnly ==
  ASSUME ~DoubleClose
  PROVE  Spec => OnlyOwnFileChanges
  <1> DEFINE A == \A n \in Names : file'[n] # file[n] =>
                    \/ file'[n] = << >>
                    \/ \E a \in Apps : /\ call[a].op = "write"
                                       /\ Live(a, call[a].h)
                                       /\ handle[a][call[a].h].mode = "w"
                                       /\ FileOf[handle[a][call[a].h].id] = n
  <1>1. ASSUME Safe, DescriptorsOwned, [Next]_vars PROVE A
    <2>1. ASSUME NEW a \in Apps, NEW n \in Names, call[a].op = "write",
                 Writable(a, handle[a][call[a].h].desc),
                 fdt[a][handle[a][call[a].h].desc].name = n
          PROVE  /\ Live(a, call[a].h)
                 /\ handle[a][call[a].h].mode = "w"
                 /\ FileOf[handle[a][call[a].h].id] = n
      <3>1. CallsOK
        BY <1>1, TypeParts DEF Safe
      <3>2. call[a] # Idle /\ call[a] \in CallRec
        BY <2>1, <3>1 DEF CallsOK, Idle
      <3>3. Live(a, call[a].h) /\ call[a].h \in Handles
        BY <3>1, <3>2 DEF CallsOK, CallRec
      <3> QED BY ZenonT(60), <1>1, <2>1, <3>3 DEF DescriptorsOwned, Writable
    <2> QED BY ZenonT(60), <1>1, <2>1, FileChanges
  <1>2. Safe /\ DescriptorsOwned /\ [Next]_vars => [A]_vars
    BY <1>1
  <1>3. Spec => []DescriptorsOwned
    BY DescriptorsStayOwned
  <1>4. Spec => []Safe
    BY InitSafe, StepSafe, PTL DEF Spec
  <1>5. Spec => [][A]_vars
    <2> HIDE DEF A
    <2> QED BY <1>2, <1>3, <1>4, PTL DEF Spec
  <1> QED BY <1>5 DEF OnlyOwnFileChanges

(***************************************************************************)
(* Provenance: every unit with a key, in a file or in a transfer buffer,   *)
(* belongs to a chain that TEE_WriteObjectData encrypted under that key.   *)
(* What a read may return follows from it, and is not inductive by itself. *)
(***************************************************************************)

\* Every unit of u with a key belongs to a chain of W under that key.
AllGenuine(W, u) == \A i \in 1..Len(u) : u[i].key # NoKey => u[i].chain \in W[u[i].key]

\* The plaintext blocks D end chains of the set C, and two neighbours one chain.
DataSound(C, D) ==
    /\ \A j \in 1..Len(D) : D[j] # Garbage => \E s \in C : s # << >> /\ Last(s) = D[j]
    /\ \A j \in 1..(Len(D) - 1) : (D[j] # Garbage /\ D[j + 1] # Garbage) =>
          \E s \in C : Len(s) >= 2 /\ s[Len(s) - 1] = D[j] /\ s[Len(s)] = D[j + 1]

RetSound(W, r) == r.data = << >> \/ (r.owner \in Keys /\ DataSound(W[r.owner], r.data))

Provenance ==
    /\ \A n \in Names : AllGenuine(written, file[n])
    /\ \A a \in Apps : AllGenuine(written, call[a].buf)
    /\ \A a \in Apps : RetSound(written, ret[a])

\* Provenance is what the three properties need.
LEMMA ProvenanceImplies ==
  TypeOK /\ Provenance => GenuineBlocks /\ OwnPlaintextOnly /\ NoSplice
  <1> SUFFICES ASSUME TypeOK, Provenance
               PROVE  GenuineBlocks /\ OwnPlaintextOnly /\ NoSplice
    OBVIOUS
  <1>1. GenuineBlocks
    BY DEF Provenance, AllGenuine, GenuineBlocks, Genuine
  <1>2. OwnPlaintextOnly
    BY DEF Provenance, RetSound, DataSound, OwnPlaintextOnly
  <1>3. NoSplice
    BY DEF Provenance, RetSound, DataSound, NoSplice
  <1> QED BY <1>1, <1>2, <1>3

\* What a buffer of genuine units decrypts to: every block that is not garbage
\* ends a chain written under the key, and two in a row end one chain.
LEMMA DecryptGenuine ==
  ASSUME WrittenOK, NEW k \in Keys, NEW p \in Block, NEW u \in Seq(Unit),
         \A i \in 1..Len(u) : Genuine(u[i])
  PROVE  DataSound(written[k], Decrypt(k, p, u))
  <1> DEFINE m == Len(u) \div BLK
             b(j) == BlockAt(u, j)
             q(j) == IF j = 1 THEN p ELSE b(j - 1)
             D == Decrypt(k, p, u)
  <1>1. m \in Nat /\ Len(D) = m
    <2>1. Len(u) \in Nat
      OBVIOUS
    <2> QED BY <2>1, DivMod, DecryptType
  <1>2. \A j \in 1..m : D[j] = DecryptBlock(k, q(j), b(j))
    BY DEF Decrypt
  <1>3. \A j \in 1..m : b(j) \in Block
    BY BlockAtType
  <1>4. ASSUME NEW j \in 1..m, b(j).key = k PROVE b(j).chain \in written[k]
    <2>1. k # NoKey
      BY DEF Keys
    <2>2. b(j) # Torn
      BY <1>4, <2>1 DEF Torn
    <2>3. PICK i \in 1..Len(u) : b(j).key = u[i].key /\ b(j).chain = u[i].chain
      BY <2>2, BlockAtType
    <2>4. u[i].chain \in written[u[i].key]
      BY <1>4, <2>1, <2>3 DEF Genuine
    <2> QED BY <1>4, <2>3, <2>4
  <1> HIDE DEF m, b, q, D
  <1>5. ASSUME NEW j \in 1..m, D[j] # Garbage
        PROVE  /\ b(j).key = k /\ b(j).chain # << >> /\ b(j).chain \in written[k]
               /\ b(j).chain \in Seq(Data)
               /\ q(j) = [key |-> k, chain |-> Front(b(j).chain)]
               /\ D[j] = Last(b(j).chain)
    <2>1. /\ b(j).key = k /\ b(j).chain # << >>
          /\ q(j) = [key |-> k, chain |-> Front(b(j).chain)]
          /\ D[j] = Last(b(j).chain)
      BY <1>2, <1>5 DEF DecryptBlock
    <2>2. b(j).chain \in Seq(Data)
      BY <1>3 DEF Block, Chains
    <2> QED BY <1>4, <2>1, <2>2
  <1>6. ASSUME NEW j \in 1..Len(D), D[j] # Garbage
        PROVE  \E s \in written[k] : s # << >> /\ Last(s) = D[j]
    BY <1>1, <1>5, <1>6
  <1>7. ASSUME NEW j \in 1..(Len(D) - 1), D[j] # Garbage, D[j + 1] # Garbage
        PROVE  \E s \in written[k] : /\ Len(s) >= 2
                                     /\ s[Len(s) - 1] = D[j]
                                     /\ s[Len(s)] = D[j + 1]
    <2> DEFINE s == b(j + 1).chain
    <2>1. j \in 1..m /\ j + 1 \in 1..m
      BY <1>1
    <2>2. q(j + 1) = b(j)
      BY <2>1 DEF q
    <2>3. /\ s # << >> /\ s \in written[k] /\ s \in Seq(Data)
          /\ b(j) = [key |-> k, chain |-> Front(s)] /\ D[j + 1] = Last(s)
      BY <1>5, <1>7, <2>1, <2>2
    <2>4. b(j).chain # << >> /\ D[j] = Last(b(j).chain)
      BY <1>5, <1>7, <2>1
    <2>5. Front(s) # << >> /\ D[j] = Last(Front(s))
      BY <2>3, <2>4
    <2> HIDE DEF s
    <2>6. Front(s) \in Seq(Data) /\ Len(Front(s)) = Len(s) - 1
          /\ \A i \in 1..(Len(s) - 1) : Front(s)[i] = s[i]
      <3> DEFINE l == Len(s) - 1
      <3>1. Len(s) \in Nat /\ Len(s) >= 1 /\ l \in Nat
        BY <2>3
      <3>2. \A i \in 1..l : s[i] \in Data
        BY <2>3, <3>1
      <3>3. Front(s) = SubSeq(s, 1, l)
        BY DEF Front
      <3> HIDE DEF l
      <3>4. /\ SubSeq(s, 1, l) \in Seq(Data)
            /\ Len(SubSeq(s, 1, l)) = IF 1 <= l THEN l - 1 + 1 ELSE 0
            /\ \A i \in 1..(l - 1 + 1) : SubSeq(s, 1, l)[i] = s[1 + i - 1]
        BY <3>1, <3>2, SubSeqProperties
      <3>5. /\ Len(SubSeq(s, 1, l)) = l
            /\ \A i \in 1..l : SubSeq(s, 1, l)[i] = s[i]
        BY <3>1, <3>4
      <3> QED BY <3>3, <3>4, <3>5 DEF l
    <2>7. Len(s) >= 2
      BY <2>3, <2>5, <2>6
    <2>8. D[j] = s[Len(s) - 1] /\ D[j + 1] = s[Len(s)]
      BY <2>3, <2>5, <2>6, <2>7 DEF Last
    <2> QED BY <2>3, <2>7, <2>8
  <1> QED BY <1>6, <1>7 DEF D, DataSound

\* More chains make nothing that was genuine or sound less so.
LEMMA Grow ==
  ASSUME NEW W \in [Keys -> SUBSET Chains], NEW V \in [Keys -> SUBSET Chains],
         \A k \in Keys : W[k] \subseteq V[k]
  PROVE  /\ \A u \in Seq(Unit) : AllGenuine(W, u) => AllGenuine(V, u)
         /\ \A r \in RetRec : RetSound(W, r) => RetSound(V, r)
  <1>1. ASSUME NEW u \in Seq(Unit), AllGenuine(W, u) PROVE AllGenuine(V, u)
    <2>1. ASSUME NEW i \in 1..Len(u) PROVE u[i].key \in Keys \cup {NoKey}
      <3>1. u[i] \in Unit
        OBVIOUS
      <3> QED BY <3>1 DEF Unit
    <2> QED BY <1>1, <2>1 DEF AllGenuine
  <1>2. ASSUME NEW r \in RetRec, RetSound(W, r) PROVE RetSound(V, r)
    BY <1>2 DEF RetSound, DataSound
  <1> QED BY <1>1, <1>2

\* The buffer of a call is a sequence of units.
LEMMA BufType == ASSUME NEW c \in CallRec PROVE c.buf \in Seq(Unit)
  <1>1. Idle.buf \in Seq(Unit)
    BY DEF Idle
  <1>2. CASE c = Idle
    BY <1>1, <1>2
  <1>3. CASE c # Idle
    BY <1>3 DEF CallRec
  <1> QED BY <1>2, <1>3

\* A step keeps Provenance when whatever it puts into a file, a buffer or a
\* result is genuine.
LEMMA Keep ==
  ASSUME Safe, Safe', Provenance,
         \A k \in Keys : written[k] \subseteq written'[k],
         \A n \in Names : file'[n] = file[n] \/ AllGenuine(written', file'[n]),
         \A a \in Apps : call'[a].buf = call[a].buf \/ AllGenuine(written', call'[a].buf),
         \A a \in Apps : ret'[a] = ret[a] \/ RetSound(written', ret'[a])
  PROVE  Provenance'
  <1>1. /\ written \in [Keys -> SUBSET Chains] /\ written' \in [Keys -> SUBSET Chains]
        /\ file \in [Names -> Seq(Unit)] /\ ret \in [Apps -> RetRec]
        /\ call \in [Apps -> CallRec]
    BY DEF Safe, TypeOK
  <1>2. \A a \in Apps : call[a].buf \in Seq(Unit)
    BY <1>1, BufType
  <1>3. /\ \A u \in Seq(Unit) : AllGenuine(written, u) => AllGenuine(written', u)
        /\ \A r \in RetRec : RetSound(written, r) => RetSound(written', r)
    BY <1>1, Grow
  <1>4. /\ \A n \in Names : AllGenuine(written', file[n])
        /\ \A a \in Apps : AllGenuine(written', call[a].buf)
        /\ \A a \in Apps : RetSound(written', ret[a])
    BY <1>1, <1>2, <1>3 DEF Provenance
  <1>5. \A n \in Names : AllGenuine(written', file'[n])
    BY <1>4
  <1>6. \A a \in Apps : AllGenuine(written', call'[a].buf)
    BY <1>4
  <1>7. \A a \in Apps : RetSound(written', ret'[a])
    BY <1>4
  <1> QED BY <1>5, <1>6, <1>7 DEF Provenance

\* Results that carry no data are sound, empty buffers genuine.
LEMMA NoDataSound ==
  ASSUME NEW W
  PROVE  /\ \A r : RetSound(W, Returned(r))
         /\ RetSound(W, NoResult)
         /\ AllGenuine(W, << >>)
         /\ Idle.buf = << >>
  BY DEF RetSound, Returned, NoResult, AllGenuine, Idle

\* A call that returns no data leaves sound results.
LEMMA OnlyResult ==
  ASSUME NEW R \in [Apps -> RetRec], NEW a \in Apps, NEW r, NEW W,
         NEW Q, Q = [R EXCEPT ![a] = Returned(r)]
  PROVE  \A b \in Apps : Q[b] = R[b] \/ RetSound(W, Q[b])
  <1>1. RetSound(W, Returned(r))
    BY NoDataSound
  <1>2. Q[a] = Returned(r) /\ \A b \in Apps \ {a} : Q[b] = R[b]
    OBVIOUS
  <1> QED BY <1>1, <1>2

\* The soundness of a read's result, from that of its data.
LEMMA ReadSound ==
  ASSUME NEW W, NEW k \in Keys, NEW D, NEW r, NEW n, NEW i,
         DataSound(W[k], D)
  PROVE  RetSound(W, ReadReturned(r, k, n, i, D))
  <1> DEFINE e == ReadReturned(r, k, n, i, D)
  <1>1. e.owner = k /\ e.data = D
    BY DEF ReadReturned
  <1> HIDE DEF e
  <1>2. RetSound(W, e)
    BY <1>1 DEF RetSound
  <1> QED BY <1>2 DEF e

\* Joining genuine buffers.
LEMMA ConcatGenuine ==
  ASSUME NEW W, NEW b \in Seq(Unit), NEW u \in Seq(Unit),
         AllGenuine(W, b), AllGenuine(W, u)
  PROVE  AllGenuine(W, b \o u)
  <1> DEFINE q == b \o u
  <1>1. /\ Len(q) = Len(b) + Len(u) /\ Len(b) \in Nat /\ Len(u) \in Nat
        /\ \A i \in 1..Len(q) : q[i] = IF i <= Len(b) THEN b[i] ELSE u[i - Len(b)]
    BY ConcatProperties
  <1> HIDE DEF q
  <1>2. ASSUME NEW i \in 1..Len(q), q[i].key # NoKey PROVE q[i].chain \in W[q[i].key]
    <2>1. CASE i <= Len(b)
      <3>1. i \in 1..Len(b) /\ q[i] = b[i]
        BY <1>1, <2>1
      <3> QED BY <1>2, <3>1 DEF AllGenuine
    <2>2. CASE ~(i <= Len(b))
      <3>1. i - Len(b) \in 1..Len(u) /\ q[i] = u[i - Len(b)]
        BY <1>1, <2>2
      <3> QED BY <1>2, <3>1 DEF AllGenuine
    <2> QED BY <2>1, <2>2
  <1>3. AllGenuine(W, q)
    BY <1>2 DEF AllGenuine
  <1> QED BY <1>3 DEF q

\* A file into which genuine units are spliced is genuine.
LEMMA SpliceGenuine ==
  ASSUME NEW W, NEW c \in Seq(Unit), NEW p \in Nat, NEW d \in Seq(Unit),
         AllGenuine(W, c), AllGenuine(W, d)
  PROVE  AllGenuine(W, Splice(c, p, d))
  <1> DEFINE n == IF p + Len(d) > Len(c) THEN p + Len(d) ELSE Len(c)
             e == Splice(c, p, d)
  <1>1. n \in Nat
    OBVIOUS
  <1>2. e = [i \in 1..n |-> IF i > p /\ i <= p + Len(d) THEN d[i - p]
                             ELSE IF i <= Len(c) THEN c[i] ELSE Hole]
    BY DEF Splice
  <1>3. e \in Seq(Unit) /\ Len(e) = n
    <2>1. e \in Seq(Unit)
      BY SpliceType
    <2>2. DOMAIN e = 1..n
      BY <1>2
    <2> HIDE DEF e, n
    <2> QED BY <1>1, <2>1, <2>2
  <1>4. ASSUME NEW i \in 1..n
        PROVE  \/ e[i] = Hole
               \/ \E j \in 1..Len(d) : e[i] = d[j]
               \/ \E j \in 1..Len(c) : e[i] = c[j]
    <2>1. CASE i > p /\ i <= p + Len(d)
      <3>1. e[i] = d[i - p] /\ i - p \in 1..Len(d)
        BY <1>2, <2>1
      <3> QED BY <3>1
    <2>2. CASE ~(i > p /\ i <= p + Len(d)) /\ i <= Len(c)
      <3>1. e[i] = c[i] /\ i \in 1..Len(c)
        BY <1>2, <2>2
      <3> QED BY <3>1
    <2>3. CASE ~(i > p /\ i <= p + Len(d)) /\ ~(i <= Len(c))
      BY <1>2, <2>3
    <2> QED BY <2>1, <2>2, <2>3
  <1> HIDE DEF e, n
  <1>5. AllGenuine(W, e)
    <2>1. Hole.key = NoKey
      OBVIOUS
    <2>2. ASSUME NEW i \in 1..n, e[i].key # NoKey PROVE e[i].chain \in W[e[i].key]
      BY <1>4, <2>1, <2>2 DEF AllGenuine
    <2> QED BY <1>3, <2>2 DEF AllGenuine
  <1> QED BY <1>5 DEF e

\* What a read of the host delivers is genuine when the files are.
LEMMA ReadGenuine ==
  ASSUME HostOK, \A n \in Names : AllGenuine(written, file[n]),
         NEW a \in Apps, NEW fd, NEW n \in Nat, NEW r \in Int, NEW f,
         ocall_read_file256(a, fd, n, r, f), r > 0
  PROVE  UnitsRead(a, fd, r) \in Seq(Unit) /\ AllGenuine(written, UnitsRead(a, fd, r))
  <1> DEFINE u == UnitsRead(a, fd, r)
             fn == fdt[a][fd].name
             fp == fdt[a][fd].pos
  <1>1. /\ u \in Seq(Unit) /\ Len(u) = r /\ IsOpen(a, fd)
        /\ \A i \in 1..r : u[i] = file[fn][fp + i]
        /\ fp + r <= Len(file[fn])
    <2>1. Delivered(a, fd, r)
      BY ReadHost
    <2> QED BY <2>1 DEF Delivered
  <1>2. fn \in Names /\ fp \in Nat
    BY <1>1, OpenFd DEF OpenFile
  <1>3. AllGenuine(written, file[fn]) /\ file[fn] \in Seq(Unit)
    BY <1>2 DEF HostOK
  <1> HIDE DEF u, fn, fp
  <1>4. \A i \in 1..r : fp + i \in 1..Len(file[fn])
    BY <1>1, <1>2, <1>3
  <1>5. AllGenuine(written, u)
    BY <1>1, <1>3, <1>4, SMTT(60) DEF AllGenuine
  <1> QED BY <1>1, <1>5 DEF u

(***************************************************************************)
(*                           The actions                                   *)
(***************************************************************************)

\* A call or an exit that moves no data.
LEMMA QuietStep ==
  ASSUME Safe, Safe', Provenance, NEW a \in Apps, UNCHANGED written,
         \A n \in Names : file'[n] = file[n] \/ file'[n] = << >>,
         call' = call \/ call' = [call EXCEPT ![a] = Idle],
         \E r : RetSound(written, r) /\ ret' \in {ret, [ret EXCEPT ![a] = r]}
  PROVE  Provenance'
  <1>1. call \in [Apps -> CallRec] /\ ret \in [Apps -> RetRec]
    BY DEF Safe, TypeOK
  <1>2. \A n \in Names : file'[n] = file[n] \/ AllGenuine(written', file'[n])
    BY NoDataSound
  <1>3. \A b \in Apps : call'[b].buf = call[b].buf \/ AllGenuine(written', call'[b].buf)
    BY <1>1, NoDataSound
  <1>4. \A b \in Apps : ret'[b] = ret[b] \/ RetSound(written', ret'[b])
    BY <1>1
  <1> QED BY <1>2, <1>3, <1>4, Keep

\* Opening only ever empties a file.
LEMMA OpenProvenance ==
  ASSUME Safe, Safe', Provenance, NEW a \in Apps, NEW id \in ObjectIDs,
         NEW flags \in OpenArgs, NEW ocreat \in BOOLEAN,
         OpenPersistentObject(a, id, flags, ocreat)
  PROVE  Provenance'
  <1>1. PICK desc \in Fds \cup {-1}, f \in 0..1 :
          ocall_open_file(a, FileOf[id], flags2flags(flags, ocreat), desc, f)
    BY DEF OpenPersistentObject
  <1>2. file \in [Names -> Seq(Unit)] /\ FileOf[id] \in Names
    BY DEF Safe, TypeOK
  <1>3. file' \in {file, [file EXCEPT ![FileOf[id]] = << >>]}
    BY <1>1 DEF ocall_open_file
  <1>4. \A n \in Names : file'[n] = file[n] \/ file'[n] = << >>
    BY <1>2, <1>3
  <1>5. call' = call /\ UNCHANGED written
    BY DEF OpenPersistentObject
  <1>6. \E r : ret' = [ret EXCEPT ![a] = Returned(r)]
    BY DEF OpenPersistentObject, OpenFails, Return
  <1>7. \E r : RetSound(written, r) /\ ret' \in {ret, [ret EXCEPT ![a] = r]}
    BY <1>6, NoDataSound
  <1> QED BY <1>4, <1>5, <1>7, QuietStep

\* The ciphertext of a write is genuine when the transfer starts, because the
\* chains it consists of are recorded in the same step.
LEMMA WriteProvenance ==
  ASSUME Safe, Safe', Provenance, NEW a \in Apps, NEW h \in Handles, NEW d \in Chains,
         TEE_WriteObjectData(a, h, d)
  PROVE  Provenance'
  <1> DEFINE k == KeyOf(a, h)
             s == handle[a][h].prev.chain
             w == handle[a][h].mode = "w" /\ handle[a][h].prev.key = k
             new == {s \o SubSeq(d, 1, j) : j \in 1..Len(d)}
             buf == IF w THEN Encrypt(k, s, d) ELSE [i \in 1..(BLK * Len(d)) |-> Hole]
  <1>1. /\ call \in [Apps -> CallRec] /\ ret \in [Apps -> RetRec]
        /\ written \in [Keys -> SUBSET Chains] /\ Live(a, h)
        /\ handle[a][h] \in HandleRec /\ handle[a][h].id \in ObjectIDs
    <2>1. HandlesOK /\ CallsOK /\ RetOK /\ WrittenOK
      BY TypeParts DEF Safe
    <2>2. Live(a, h)
      BY DEF TEE_WriteObjectData
    <2> QED BY <2>1, <2>2 DEF HandlesOK, CallsOK, RetOK, WrittenOK
  <1>2. k \in Keys /\ s \in Chains
    BY <1>1, KeyType DEF KeyOf, HandleRec, Block
  <1>3. written' = [written EXCEPT ![k] = IF w THEN written[k] \cup new ELSE written[k]]
    BY OwnerKey DEF TEE_WriteObjectData
  <1>4. /\ \A q \in Keys : written[q] \subseteq written'[q]
        /\ w => new \subseteq written'[k]
    BY <1>1, <1>2, <1>3
  <1>5. file' = file
    BY DEF TEE_WriteObjectData, hostVars
  <1>6. \A b \in Apps : ret'[b] = ret[b] \/ RetSound(written', ret'[b])
    <2>1. \E r : ret' = [ret EXCEPT ![a] = Returned(r)]
      BY DEF TEE_WriteObjectData, Return, NoResult
    <2> QED BY <1>1, <2>1, OnlyResult
  <1>7. AllGenuine(written', buf)
    <2>1. BLK * Len(d) \in Nat
      BY MulNat DEF Chains
    <2>2. CASE w
      <3>3. buf = Encrypt(k, s, d)
        BY <2>2
      <3> HIDE DEF k, s, buf
      <3>1. AllOf(Encrypt(k, s, d), k, new)
        BY <1>2, EncryptType, ZenonT(60)
      <3> HIDE DEF new
      <3> QED BY <1>4, <2>2, <3>1, <3>3 DEF AllGenuine, AllOf
    <2>3. CASE ~w
      <3> DEFINE m == BLK * Len(d)
      <3>1. buf = [i \in 1..m |-> Hole]
        BY <2>3
      <3> HIDE DEF m, buf
      <3>2. m \in Nat
        BY <2>1 DEF m
      <3>3. Len(buf) = m /\ \A i \in 1..m : buf[i].key = NoKey
        BY <3>1, <3>2
      <3> QED BY <3>3 DEF AllGenuine
    <2> QED BY <2>2, <2>3
  <1>8. \A b \in Apps : call'[b].buf = call[b].buf \/ AllGenuine(written', call'[b].buf)
    <2>1. CASE d = << >>
      BY <2>1 DEF TEE_WriteObjectData
    <2>2. CASE d # << >>
      <3>1. call' = [call EXCEPT ![a] = [op |-> "write", h |-> h, offset |-> 0,
                                         count |-> BLK * Len(d), buf |-> buf]]
        BY <2>2 DEF TEE_WriteObjectData
      <3> HIDE DEF buf
      <3>2. call'[a].buf = buf /\ \A b \in Apps \ {a} : call'[b] = call[b]
        BY <1>1, <3>1
      <3> QED BY <1>7, <3>2
    <2> QED BY <2>1, <2>2
  <1> HIDE DEF k, s, w, new, buf
  <1> QED BY <1>4, <1>5, <1>6, <1>8, Keep

\* The start of a read.
LEMMA ReadProvenance ==
  ASSUME Safe, Safe', Provenance, NEW a \in Apps, NEW h \in Handles, NEW n \in Nat,
         TEE_ReadObjectData(a, h, n)
  PROVE  Provenance'
  <1>1. call \in [Apps -> CallRec] /\ ret \in [Apps -> RetRec]
    BY DEF Safe, TypeOK
  <1>2. file' = file /\ written' = written
    BY DEF TEE_ReadObjectData, hostVars
  <1>3. \A b \in Apps : ret'[b] = ret[b] \/ RetSound(written', ret'[b])
    <2>1. \E r : ret' = [ret EXCEPT ![a] = Returned(r)]
      BY DEF TEE_ReadObjectData, Return, NoResult
    <2> QED BY <1>1, <2>1, OnlyResult
  <1>4. \A b \in Apps : call'[b].buf = call[b].buf \/ AllGenuine(written', call'[b].buf)
    <2> DEFINE c == [op |-> "read", h |-> h, offset |-> 0, count |-> BLK * n, buf |-> << >>]
    <2>1. c.buf = << >>
      OBVIOUS
    <2>2. call' = call \/ call' = [call EXCEPT ![a] = c]
      BY DEF TEE_ReadObjectData
    <2> HIDE DEF c
    <2> QED BY <1>1, <2>1, <2>2, NoDataSound
  <1> QED BY <1>2, <1>3, <1>4, Keep

\* One pass of the write loop moves genuine units into the file.
LEMMA WriteLoopProvenance ==
  ASSUME Safe, Safe', Provenance, NEW a \in Apps, ocall_write_file_full(a)
  PROVE  Provenance'
  <1> DEFINE c == call[a]
             fd == handle[a][c.h].desc
             chunk == SubSeq(c.buf, c.offset + 1, c.offset + Clamp(c.count - c.offset))
  <1>0. HostOK /\ CallsOK /\ RetOK /\ HandlesOK
    BY TypeParts DEF Safe
  <1>1. c \in CallRec /\ c # Idle /\ c.op = "write"
    <2>1. call[a].op = "write"
      BY DEF ocall_write_file_full
    <2> QED BY <1>0, <2>1 DEF CallsOK, Idle
  <1>2. /\ c.buf \in Seq(Unit) /\ c.count \in Nat /\ c.offset \in Nat
        /\ c.offset <= c.count /\ Len(c.buf) = c.count
    BY <1>1 DEF CallRec, Safe, LoopInBounds
  <1>3. AllGenuine(written, c.buf)
    BY DEF Provenance
  <1>4. PICK n \in -1..CAP, f \in 0..1 :
          /\ ocall_write_file256(a, fd, chunk, n, f)
          /\ \/ /\ n > 0
                /\ call' = [call EXCEPT ![a] = Moved(c, n, c.buf)]
                /\ UNCHANGED ret
             \/ /\ n <= 0
                /\ call' = [call EXCEPT ![a] = Idle]
                /\ Return(a, Returned(IF LoopResult(c.offset, n) < 0
                                      THEN "GENERIC" ELSE "SUCCESS"))
    BY DEF ocall_write_file_full, LoopEnds
  <1>5. UNCHANGED written
    BY DEF ocall_write_file_full
  <1> HIDE DEF c, fd
  <1>6. /\ chunk \in Seq(Unit) /\ AllGenuine(written, chunk)
    <2> DEFINE o == c.offset
               l == Clamp(c.count - c.offset)
               b == c.buf
    <2>1. o \in Nat /\ b \in Seq(Unit) /\ l \in Nat /\ o + l <= Len(b)
      BY <1>2 DEF Clamp
    <2> HIDE DEF o, l, b
    <2>2. /\ SubSeq(b, o + 1, o + l) \in Seq(Unit)
          /\ Len(SubSeq(b, o + 1, o + l)) = l
          /\ \A i \in 1..l : SubSeq(b, o + 1, o + l)[i] = b[o + i]
      BY <2>1, Slice
    <2>3. \A i \in 1..l : o + i \in 1..Len(b)
      BY <2>1
    <2>4. AllGenuine(written, b)
      BY <1>3 DEF b
    <2>5. AllGenuine(written, SubSeq(b, o + 1, o + l))
      <3> DEFINE q == SubSeq(b, o + 1, o + l)
      <3>1. Len(q) = l /\ \A i \in 1..l : q[i] = b[o + i]
        BY <2>2
      <3> HIDE DEF q
      <3>2. AllGenuine(written, q)
        BY <2>3, <2>4, <3>1 DEF AllGenuine
      <3> QED BY <3>2 DEF q
    <2> QED BY <2>2, <2>5 DEF o, l, b
  <1> HIDE DEF chunk
  <1>7. \A m \in Names : file'[m] = file[m] \/ AllGenuine(written', file'[m])
    <2>1. CASE file' = file
      BY <2>1
    <2>2. CASE /\ Writable(a, fd) /\ n \in 0..Len(chunk)
               /\ file' = [file EXCEPT ![fdt[a][fd].name] =
                             Splice(@, fdt[a][fd].pos, SubSeq(chunk, 1, n))]
      <3> DEFINE o == fdt[a][fd]
                 part == SubSeq(chunk, 1, n)
      <3>1. o.name \in Names /\ o.pos \in Nat
        BY <1>0, <2>2, OpenFd DEF Writable, OpenFile
      <3>2. part \in Seq(Unit) /\ AllGenuine(written, part)
        <4>1. \A i \in 1..n : chunk[i] \in Unit
          BY <1>6, <2>2
        <4>2. n \in Nat
          BY <1>6, <2>2
        <4>3. /\ SubSeq(chunk, 1, n) \in Seq(Unit)
              /\ Len(SubSeq(chunk, 1, n)) = n
              /\ \A i \in 1..n : SubSeq(chunk, 1, n)[i] = chunk[i]
          BY <4>1, <4>2, SubSeqProperties
        <4>4. \A i \in 1..n : i \in 1..Len(chunk)
          BY <1>6, <2>2
        <4> QED BY <1>6, <4>3, <4>4 DEF AllGenuine
      <3> HIDE DEF part
      <3>3. file[o.name] \in Seq(Unit) /\ AllGenuine(written, file[o.name])
        BY <1>0, <3>1 DEF HostOK, Provenance
      <3>4. AllGenuine(written, Splice(file[o.name], o.pos, part))
        BY <3>1, <3>2, <3>3, SpliceGenuine
      <3>5. file' = [file EXCEPT ![o.name] = Splice(file[o.name], o.pos, part)]
        BY <2>2 DEF part
      <3> HIDE DEF o
      <3> QED BY <1>0, <1>5, <3>1, <3>4, <3>5 DEF HostOK
    <2> QED
      <3>1. Len(chunk) \in Nat
        BY <1>6
      <3> QED BY <1>4, <2>1, <2>2, <3>1 DEF ocall_write_file256
  <1>8. \A b \in Apps : call'[b].buf = call[b].buf \/ AllGenuine(written', call'[b].buf)
    <2>1. CASE call' = [call EXCEPT ![a] = Moved(c, n, c.buf)]
      <3> DEFINE v == Moved(c, n, c.buf)
      <3>1. v.buf = call[a].buf
        BY DEF Moved, c
      <3> HIDE DEF v
      <3>2. call' = [call EXCEPT ![a] = v]
        BY <2>1 DEF v
      <3> QED BY <1>0, <3>1, <3>2 DEF CallsOK
    <2>2. CASE call' = [call EXCEPT ![a] = Idle]
      BY <1>0, <2>2, NoDataSound DEF CallsOK
    <2> QED BY <1>4, <2>1, <2>2
  <1>9. \A b \in Apps : ret'[b] = ret[b] \/ RetSound(written', ret'[b])
    <2>1. \/ ret' = ret
          \/ \E r : ret' = [ret EXCEPT ![a] = Returned(r)]
      BY <1>4 DEF Return
    <2> QED BY <1>0, <2>1, OnlyResult DEF RetOK
  <1> QED BY <1>5, <1>7, <1>8, <1>9, Keep

\* One pass of the read loop takes units from a file; the last one decrypts
\* what was received.
LEMMA ReadLoopProvenance ==
  ASSUME Safe, Safe', Provenance, NEW a \in Apps, ocall_read_file_full(a)
  PROVE  Provenance'
  <1> DEFINE c == call[a]
             g == handle[a][c.h]
             k == KeyOf(a, c.h)
             left == Clamp(c.count - c.offset)
  <1>0. HostOK /\ HandlesOK /\ CallsOK /\ RetOK /\ WrittenOK
    BY TypeParts DEF Safe
  <1>1. c \in CallRec /\ c # Idle /\ c.op = "read" /\ Live(a, c.h)
    <2>1. call[a].op = "read"
      BY DEF ocall_read_file_full
    <2> QED BY <1>0, <2>1 DEF CallsOK, Idle
  <1>2. /\ c.h \in Handles /\ c.buf \in Seq(Unit) /\ c.count \in Nat /\ c.offset \in Nat
        /\ c.offset <= c.count /\ Len(c.buf) = c.offset
    BY <1>1 DEF CallRec, Safe, LoopInBounds
  <1>3. g \in HandleRec /\ g.id \in ObjectIDs
    BY <1>0, <1>1, <1>2 DEF HandlesOK, Live
  <1>4. k \in Keys /\ g.prev \in Block
    BY <1>3, KeyType DEF KeyOf, HandleRec
  <1>5. left \in Nat
    BY <1>2 DEF Clamp
  <1>6. AllGenuine(written, c.buf)
    BY DEF Provenance
  <1>7. PICK n \in -1..CAP, f \in 0..1, m \in 0..1 :
          /\ ocall_read_file256(a, g.desc, left, n, f)
          /\ \/ /\ n > 0 /\ m = 0
                /\ call' = [call EXCEPT ![a] =
                              Moved(c, n, c.buf \o UnitsRead(a, g.desc, n))]
                /\ UNCHANGED <<ret, handle>>
             \/ /\ n <= 0
                /\ call' = [call EXCEPT ![a] = Idle]
                /\ ReadReturns(a, n, m)
    <2>1. \E n \in -1..CAP, f \in 0..1, m \in 0..1 :
            /\ ocall_read_file256(a, g.desc, left, n, f)
            /\ Faults(f + m)
            /\ \/ /\ ~LoopEnds(n) /\ m = 0
                  /\ call' = [call EXCEPT ![a] =
                                Moved(c, n, c.buf \o UnitsRead(a, g.desc, n))]
                  /\ UNCHANGED <<ret, handle>>
               \/ /\ LoopEnds(n)
                  /\ call' = [call EXCEPT ![a] = Idle]
                  /\ ReadReturns(a, n, m)
      BY Zenon DEF ocall_read_file_full
    <2>2. \A n \in -1..CAP : LoopEnds(n) <=> ~(n > 0)
      BY DEF LoopEnds
    <2>3. \A n \in -1..CAP : n <= 0 <=> ~(n > 0)
      OBVIOUS
    <2> QED BY <2>1, <2>2, <2>3, ZenonT(60)
  <1>8. UNCHANGED written /\ UNCHANGED file
    BY <1>7 DEF ocall_read_file_full, ocall_read_file256
  <1>9. n \in Int
    OBVIOUS
  <1>10. CASE /\ n > 0
              /\ call' = [call EXCEPT ![a] =
                            Moved(c, n, c.buf \o UnitsRead(a, g.desc, n))]
              /\ UNCHANGED <<ret, handle>>
    <2> DEFINE u == UnitsRead(a, g.desc, n)
               b == c.buf
               v == Moved(c, n, b \o u)
    <2> HIDE DEF left, k, g, c
    <2>1. u \in Seq(Unit) /\ AllGenuine(written, u)
      BY <1>0, <1>5, <1>7, <1>9, <1>10, ReadGenuine DEF Provenance
    <2>4. b \in Seq(Unit) /\ AllGenuine(written, b)
      BY <1>2, <1>6
    <2>5. v.buf = b \o u /\ call' = [call EXCEPT ![a] = v]
      BY <1>10 DEF Moved
    <2> HIDE DEF u, b, v
    <2>7. AllGenuine(written, b \o u)
      BY <2>1, <2>4, ConcatGenuine
    <2>8. \A q \in Apps : call'[q].buf = call[q].buf \/ AllGenuine(written', call'[q].buf)
      BY <1>0, <1>8, <2>5, <2>7 DEF CallsOK
    <2> QED BY <1>8, <1>10, <2>8, Keep
  <1>11. CASE n <= 0 /\ call' = [call EXCEPT ![a] = Idle] /\ ReadReturns(a, n, m)
    <2> DEFINE size == LoopResult(c.offset, n)
               data == IF g.mode = "r" THEN Decrypt(k, g.prev, c.buf)
                       ELSE [j \in 1..(size \div BLK) |-> Garbage]
    <2>1. \/ \E r, i : ret' = [ret EXCEPT ![a] = ReadReturned(r, k, c.count, i, << >>)]
          \/ /\ size > 0
             /\ ret' = [ret EXCEPT ![a] = ReadReturned("SUCCESS", k, c.count, size, data)]
      <3> HIDE DEF data, size
      <3> QED BY <1>11, OwnerKey DEF ReadReturns, Return, data, size
    <2>2. size > 0 => size = c.offset /\ size \div BLK \in Nat
      <3>1. size > 0 => size = c.offset
        BY <1>2, <1>9, <1>11 DEF LoopResult
      <3> QED BY <1>2, <3>1, DivMod
    <2>3. size > 0 => \A r, i : RetSound(written, ReadReturned(r, k, c.count, i, data))
      <3> SUFFICES ASSUME size > 0, NEW r, NEW i
                   PROVE  RetSound(written, ReadReturned(r, k, c.count, i, data))
        OBVIOUS
      <3>1. CASE g.mode = "r"
        <4> DEFINE D == Decrypt(k, g.prev, c.buf)
        <4>1. data = D
          BY <3>1
        <4>2. \A i1 \in 1..Len(c.buf) : Genuine(c.buf[i1])
          BY <1>6 DEF AllGenuine, Genuine
        <4> HIDE DEF k, g, c, data
        <4>3. DataSound(written[k], D)
          BY <1>0, <1>2, <1>4, <4>2, DecryptGenuine
        <4> HIDE DEF D
        <4> QED BY <1>4, <4>1, <4>3, ReadSound
      <3>2. CASE g.mode # "r"
        <4> DEFINE l == size \div BLK
        <4>1. data = [j \in 1..l |-> Garbage] /\ l \in Nat
          BY <2>2, <3>2
        <4> HIDE DEF k, g, c, data, size, l
        <4>2. Len(data) = l /\ \A j \in 1..l : data[j] = Garbage
          BY <4>1
        <4>3. \A j \in 1..(l - 1) : j \in 1..l
          BY <4>1
        <4>4. DataSound(written[k], data)
          BY <4>2, <4>3 DEF DataSound
        <4> QED BY <1>4, <4>4, ReadSound
      <3> QED BY <3>1, <3>2
    <2>4. \A r, i : RetSound(written, ReadReturned(r, k, c.count, i, << >>))
      BY DEF RetSound, ReadReturned
    <2> HIDE DEF size, data, k, c, g
    <2>5. \E r : RetSound(written, r) /\ ret' \in {ret, [ret EXCEPT ![a] = r]}
      BY <2>1, <2>3, <2>4
    <2> QED BY <1>8, <1>11, <2>5, QuietStep
  <1> QED BY <1>7, <1>10, <1>11

\* Nothing is genuine or not at the start.
LEMMA InitProvenance == Init => Provenance
  <1> SUFFICES ASSUME Init PROVE Provenance
    OBVIOUS
  <1>1. \A n \in Names : AllGenuine(written, file[n])
    BY NoDataSound DEF Init, HostInit
  <1>2. \A a \in Apps : AllGenuine(written, call[a].buf) /\ RetSound(written, ret[a])
    BY NoDataSound DEF Init
  <1> QED BY <1>1, <1>2 DEF Provenance

\* Every step preserves Provenance.
LEMMA StepProvenance == Safe /\ Safe' /\ Provenance /\ [Next]_vars => Provenance'
  <1> SUFFICES ASSUME Safe, Safe', Provenance, [Next]_vars PROVE Provenance'
    OBVIOUS
  <1>0. \E r : RetSound(written, r) /\ r = NoResult
    BY NoDataSound
  <1>1. CASE UNCHANGED vars
    BY <1>1, Keep DEF vars
  <1>2. ASSUME NEW a \in Apps, run_enclave(a) PROVE Provenance'
    BY <1>2, <1>0, QuietStep DEF run_enclave, hostVars
  <1>3. ASSUME NEW a \in Apps, NEW how, LeaveInstance(a, how), file' = file
        PROVE  Provenance'
    BY <1>3, <1>0, QuietStep DEF LeaveInstance, Return
  <1>4. ASSUME NEW a \in Apps, EAPP_RETURN(a) \/ CloseNull(a) \/ Crash(a)
        PROVE  Provenance'
    BY <1>3, <1>4 DEF EAPP_RETURN, CloseNull, Crash, TEE_Panic, ProcessExit, hostVars
  <1>5. ASSUME NEW a \in Apps, NEW r, Return(a, Returned(r)),
               UNCHANGED <<file, call, written>>
        PROVE  Provenance'
    <2>1. RetSound(written, Returned(r))
      BY NoDataSound
    <2> QED BY <1>5, <2>1, QuietStep DEF Return
  <1>6. ASSUME NEW a \in Apps, OpenBadID(a) \/ DataBadParameters(a) PROVE Provenance'
    BY <1>5, <1>6 DEF OpenBadID, OpenFails, DataBadParameters, hostVars
  <1>7. ASSUME NEW a \in Apps, NEW flags \in OpenArgs,
               OpenReadWrite(a, flags) \/ OpenNoMemory(a, flags)
        PROVE  Provenance'
    BY <1>5, <1>7 DEF OpenReadWrite, OpenNoMemory, OpenFails, hostVars
  <1>8. ASSUME NEW a \in Apps, NEW h \in Handles, WriteNoMemory(a, h) PROVE Provenance'
    BY <1>5, <1>8 DEF WriteNoMemory
  <1>9. ASSUME NEW a \in Apps, NEW h \in Handles, NEW n \in 0..MaxBlocks,
               NEW d \in [1..n -> Data], TEE_WriteObjectData(a, h, d)
        PROVE  Provenance'
    <2>1. d \in Chains
      BY SeqDef DEF Chains
    <2> QED BY <1>9, <2>1, WriteProvenance
  <1>10. ASSUME NEW a \in Apps, NEW h \in Handles, NEW n \in 0..MaxBlocks,
                TEE_ReadObjectData(a, h, n)
         PROVE  Provenance'
    BY <1>10, ReadProvenance
  <1>11. ASSUME NEW a \in Apps, NEW h \in Handles, TEE_CloseObject(a, h)
         PROVE  Provenance'
    <2>1. file' = file
      BY <1>11 DEF TEE_CloseObject, ocall_close_file
    <2>2. \/ LeaveInstance(a, "panicked")
          \/ Return(a, Returned("SUCCESS")) /\ UNCHANGED <<call, written>>
      BY <1>11 DEF TEE_CloseObject, TEE_Panic
    <2> QED BY <1>3, <1>5, <2>1, <2>2
  <1> QED
    <2>1. ASSUME Next PROVE Provenance'
      BY <1>2, <1>4, <1>6, <1>7, <1>8, <1>9, <1>10, <1>11, <2>1, OpenProvenance,
         WriteLoopProvenance, ReadLoopProvenance DEF Next
    <2> QED BY <1>1, <2>1

\* Every cipher block on the host or in transit was produced by a write of the
\* API under the block's own key.
THEOREM CiphertextGenuine == Spec => []GenuineBlocks
  <1>1. Safe /\ Provenance => GenuineBlocks
    BY ProvenanceImplies DEF Safe
  <1> QED BY <1>1, InitSafe, StepSafe, InitProvenance, StepProvenance, PTL DEF Spec

\* A TA reads back only what a TA of the same measurement wrote under the same
\* object id, even when handles are closed twice and files are shared.
THEOREM PlaintextIsOwn == Spec => []OwnPlaintextOnly
  <1>1. Safe /\ Provenance => OwnPlaintextOnly
    BY ProvenanceImplies DEF Safe
  <1> QED BY <1>1, InitSafe, StepSafe, InitProvenance, StepProvenance, PTL DEF Spec

\* Two neighbouring blocks of a read that both decrypt were written one after
\* the other: no torn, lost or overwritten transfer is spliced unnoticed.
THEOREM ReadsAreNotSpliced == Spec => []NoSplice
  <1>1. Safe /\ Provenance => NoSplice
    BY ProvenanceImplies DEF Safe
  <1> QED BY <1>1, InitSafe, StepSafe, InitProvenance, StepProvenance, PTL DEF Spec

=============================================================================
