-------------------------- MODULE RefinementProofs --------------------------
(***************************************************************************)
(* PersistentObject implements ObjectStore.  When the host makes no        *)
(* errors, a file is open once at a time and a TA closes a handle once,    *)
(* every step of the storage code is one step of the abstract store, or    *)
(* none at all, under the mapping of StorageRefinement.                    *)
(***************************************************************************)
EXTENDS StorageRefinement, RoundTripProofs

USE HostAssumption, ObjectAssumption

(***************************************************************************)
(*                       Numbers of blocks and of units                    *)
(***************************************************************************)

\* Units and blocks count alike.
LEMMA Units ==
  ASSUME NEW p \in Nat, NEW q \in Nat
  PROVE  /\ (BLK * p) \div BLK = p /\ BLK * p \in Nat
         /\ BLK * (p + q) = BLK * p + BLK * q
         /\ BLK * p <= BLK * q <=> p <= q
         /\ BLK * p = BLK * q <=> p = q
  <1>1. (BLK * p) \div BLK = p /\ BLK * p \in Nat
    <2>1. BLK * p + 0 = BLK * p /\ 0 \in 0..(BLK - 1) /\ BLK * p \in Nat
      BY MulNat
    <2>2. (BLK * p + 0) \div BLK = p
      BY <2>1, Quotient
    <2> QED BY <2>1, <2>2, Zenon
  <1>2. BLK * (p + q) = BLK * p + BLK * q
    OBVIOUS
  <1>3. BLK * p <= BLK * q <=> p <= q
    <2>1. ASSUME NEW x \in Nat, NEW y \in Nat, x <= y PROVE BLK * x <= BLK * y
      BY <2>1
    <2>2. ASSUME NEW x \in Nat, NEW y \in Nat, x < y PROVE BLK * x < BLK * y
      BY <2>2
    <2>3. BLK * p \in Nat /\ BLK * q \in Nat
      BY MulNat
    <2>4. CASE p <= q
      BY <2>1, <2>4
    <2>5. CASE q < p
      BY <2>2, <2>3, <2>5
    <2> QED BY <2>4, <2>5
  <1>4. BLK * p = BLK * q <=> p = q
    <2>1. BLK * p = BLK * q => (BLK * p) \div BLK = (BLK * q) \div BLK
      OBVIOUS
    <2>2. \A x \in Nat : (BLK * x) \div BLK = x
      <3> TAKE x \in Nat
      <3>1. BLK * x + 0 = BLK * x /\ 0 \in 0..(BLK - 1) /\ BLK * x \in Nat
        BY MulNat
      <3>2. (BLK * x + 0) \div BLK = x
        BY <3>1, Quotient
      <3> QED BY <3>1, <3>2, Zenon
    <2>3. (BLK * p) \div BLK = p /\ (BLK * q) \div BLK = q
      BY <2>2
    <2> QED BY <2>1, <2>3
  <1> QED BY <1>1, <1>2, <1>3, <1>4

\* A whole number of blocks, by its quotient.
LEMMA Blocks ==
  ASSUME NEW n \in Nat, Whole(n)
  PROVE  n \div BLK \in Nat /\ n = BLK * (n \div BLK)
  BY WholeQuotient

\* The blocks of whole numbers of units add, subtract and compare.
LEMMA BlockSums ==
  ASSUME NEW m \in Nat, NEW n \in Nat, Whole(m), Whole(n)
  PROVE  /\ (m + n) \div BLK = (m \div BLK) + (n \div BLK)
         /\ m <= n <=> m \div BLK <= n \div BLK
         /\ m = n <=> m \div BLK = n \div BLK
         /\ n <= m => (m - n) \div BLK = (m \div BLK) - (n \div BLK)
  <1> DEFINE p == m \div BLK
             q == n \div BLK
  <1>1. p \in Nat /\ q \in Nat /\ m = BLK * p /\ n = BLK * q
    BY Blocks
  <1> HIDE DEF p, q
  <1>2. m + n = BLK * (p + q)
    BY <1>1, Units
  <1>3. (BLK * (p + q)) \div BLK = p + q
    <2>1. p + q \in Nat
      BY <1>1
    <2> QED BY <2>1, Units
  <1>4. (m <= n <=> p <= q) /\ (m = n <=> p = q)
    BY <1>1, Units
  <1>5. ASSUME n <= m PROVE (m - n) \div BLK = p - q
    <2>1. q <= p
      BY <1>1, <1>5, Units
    <2>2. p - q \in Nat /\ q + (p - q) = p
      BY <1>1, <2>1
    <2>3. BLK * (q + (p - q)) = BLK * q + BLK * (p - q) /\ BLK * (p - q) \in Nat
      BY <1>1, <2>2, Units
    <2>4. m - n = BLK * (p - q)
      <3> DEFINE X == BLK * (p - q)
                 Y == BLK * q
      <3>1. m = Y + X /\ n = Y /\ X \in Nat /\ Y \in Nat
        BY <1>1, <2>2, <2>3
      <3> HIDE DEF X, Y
      <3>2. m - n = X
        BY <3>1
      <3> QED BY <3>2 DEF X
    <2>5. (BLK * (p - q)) \div BLK = p - q
      BY <2>2, Units
    <2> QED BY <2>4, <2>5
  <1> QED BY <1>2, <1>3, <1>4, <1>5 DEF p, q
(***************************************************************************)
(*                         The blocks of a file                            *)
(***************************************************************************)
NumBlocks(f) == Len(f) \div BLK

\* Buffers u and f agree on the units of block q + 1, which is number j.
SameUnits(u, f, q, j) ==
    j = q + 1 /\ \A i \in 1..BLK : u[BLK * q + i] = f[BLK * q + i]

\* Two buffers that agree on the units of a block agree on the block.
LEMMA SameBlock ==
  ASSUME NEW u, NEW f, NEW j, NEW q \in Nat, SameUnits(u, f, q, j)
  PROVE  BlockAt(u, j) = BlockAt(f, j)
  <1> DEFINE t == [i \in 1..BLK |-> f[BLK * q + i]]
  <1>1. 1 \in Nat /\ 1 \in 1..1 /\ BLK * 1 = BLK
    OBVIOUS
  <1>2. CopyOf(t, f, q, 1) /\ CopyOf(t, u, q, 1)
    BY <1>1 DEF CopyOf, SameUnits
  <1> HIDE DEF t
  <1>3. BlockAt(t, 1) = BlockAt(f, q + 1) /\ BlockAt(t, 1) = BlockAt(u, q + 1)
    BY <1>1, <1>2, BlockShift
  <1> QED BY <1>3 DEF SameUnits

\* The blocks of units that are the encryption of s from its start.
LEMMA EncBlocks ==
  ASSUME NEW k \in Keys, NEW s \in Chains, NEW n \in Nat, n <= Len(s), NEW f,
         \A i \in 1..(BLK * n) : f[i] = Enc(k, s)[i], NEW j \in 1..n
  PROVE  BlockAt(f, j) = ChainBlock(k, s, j)
  <1> DEFINE E == Enc(k, s)
  <1>1. 0 \in Nat /\ BLK * 0 = 0 /\ 0 + j = j /\ j \in 1..Len(s)
    BY DEF Chains
  <1>2. \A i \in 1..(BLK * n) : i = BLK * 0 + i
    BY <1>1, MulNat
  <1>3. CopyOf(f, E, 0, n)
    BY <1>2 DEF CopyOf
  <1>4. BlockAt(f, j) = BlockAt(E, 0 + j)
    <2> HIDE DEF E
    <2>1. ASSUME NEW u, NEW q \in Nat, CopyOf(f, u, q, n)
          PROVE  BlockAt(f, j) = BlockAt(u, q + j)
      BY <2>1, BlockShift
    <2> QED BY <1>1, <1>3, <2>1, Zenon
  <1>5. BlockAt(E, j) = ChainBlock(k, s, j)
    BY <1>1, EncBlock DEF Begins, ChainBlock
  <1> QED BY <1>1, <1>4, <1>5

\* A block of a chain is no torn block.
LEMMA ChainNotTorn ==
  ASSUME NEW k \in Keys, NEW c
  PROVE  [key |-> k, chain |-> c] # Torn
  BY DEF Torn, Keys

\* write(2) leaves what is behind the units it puts.
LEMMA SpliceTail ==
  ASSUME NEW c \in Seq(Unit), NEW p \in Nat, NEW d \in Seq(Unit),
         NEW i \in (p + Len(d) + 1)..Len(c)
  PROVE  Splice(c, p, d)[i] = c[i]
  <1> DEFINE m == IF p + Len(d) > Len(c) THEN p + Len(d) ELSE Len(c)
             e(l) == IF l > p /\ l <= p + Len(d) THEN d[l - p]
                     ELSE IF l <= Len(c) THEN c[l] ELSE Hole
  <1>1. Splice(c, p, d) = [l \in 1..m |-> e(l)]
    BY DEF Splice
  <1>2. i \in 1..m /\ ~(i <= p + Len(d)) /\ i <= Len(c)
    OBVIOUS
  <1>3. e(i) = c[i]
    BY <1>2
  <1> HIDE DEF m, e
  <1> QED BY <1>1, <1>2, <1>3

\* File f holds the encryption of s up to block P, and the m blocks of d that
\* follow it are put there.
Puts(k, s, f, P, m, d) ==
    /\ P + m <= Len(s) /\ BLK * P <= Len(f) /\ Whole(Len(f))
    /\ \A i \in 1..(BLK * P) : f[i] = Enc(k, s)[i]
    /\ Len(d) = BLK * m
    /\ \A i \in 1..(BLK * m) : d[i] = Enc(k, s)[BLK * P + i]

\* The blocks of the file after it: those of the chain, then what was there.
LEMMA PutBlocks ==
  ASSUME NEW k \in Keys, NEW s \in Chains, NEW f \in Seq(Unit), NEW P \in Nat, NEW m \in Nat,
         NEW d \in Seq(Unit), Puts(k, s, f, P, m, d)
  PROVE  LET f2 == Splice(f, BLK * P, d) IN
         /\ f2 \in Seq(Unit) /\ NumBlocks(f) \in Nat /\ P <= NumBlocks(f)
         /\ NumBlocks(f2) = IF P + m > NumBlocks(f) THEN P + m ELSE NumBlocks(f)
         /\ \A j \in 1..(P + m) : BlockAt(f2, j) = ChainBlock(k, s, j)
         /\ \A j \in 1..P : BlockAt(f, j) = ChainBlock(k, s, j)
         /\ \A j \in (P + m + 1)..NumBlocks(f) : BlockAt(f2, j) = BlockAt(f, j)
  <1> DEFINE f2 == Splice(f, BLK * P, d)
             E == Enc(k, s)
             p == BLK * P
             n == BLK * m
             F == NumBlocks(f)
  <1>0. /\ P + m <= Len(s) /\ p <= Len(f) /\ Whole(Len(f)) /\ \A i \in 1..p : f[i] = E[i]
        /\ Len(d) = n /\ \A i \in 1..n : d[i] = E[p + i]
    BY DEF Puts
  <1>1. p \in Nat /\ n \in Nat /\ P + m \in Nat /\ BLK * (P + m) = p + n /\ Len(s) \in Nat
    BY Units DEF Chains
  <1>2. F \in Nat /\ Len(f) = BLK * F
    BY <1>0, Blocks DEF NumBlocks
  <1>3. P <= F /\ (p + n > Len(f) <=> P + m > F)
    <2>1. p <= BLK * F <=> P <= F
      BY <1>2, Units
    <2>2. BLK * (P + m) <= BLK * F <=> P + m <= F
      BY <1>1, <1>2, Units
    <2> DEFINE l == Len(f)
    <2>3. p <= l /\ l = BLK * F
      BY <1>0, <1>2
    <2> HIDE DEF p, n, F, l
    <2>4. P <= F
      BY <2>1, <2>3
    <2>5. p + n <= l <=> P + m <= F
      BY <1>1, <2>2, <2>3
    <2>6. l \in Nat /\ p + n \in Nat
      BY <1>1, <1>2, <2>3, MulNat
    <2> QED BY <1>1, <1>2, <2>4, <2>5, <2>6 DEF l
  <1> HIDE DEF p, n, F, E
  <1>4. /\ Splice(f, p, d) \in Seq(Unit)
        /\ Len(Splice(f, p, d)) = IF p + n > Len(f) THEN p + n ELSE Len(f)
        /\ \A i \in 1..p : Splice(f, p, d)[i] = f[i]
        /\ \A i \in 1..n : Splice(f, p, d)[p + i] = d[i]
        /\ \A i \in (p + n + 1)..Len(f) : Splice(f, p, d)[i] = f[i]
    <2>1. /\ Splice(f, p, d) \in Seq(Unit)
          /\ Len(Splice(f, p, d)) = IF p + Len(d) > Len(f) THEN p + Len(d) ELSE Len(f)
          /\ \A i \in 1..p : Splice(f, p, d)[i] = f[i]
      BY SMTT(60), <1>0, <1>1, SpliceUnits
    <2>2. ASSUME NEW i \in 1..Len(d) PROVE Splice(f, p, d)[p + i] = d[i]
      <3>1. ASSUME NEW e \in Seq(Unit), NEW j \in 1..Len(e)
            PROVE  Splice(f, p, e)[p + j] = e[j]
        BY <1>0, <1>1, SpliceUnits
      <3> QED BY <3>1
    <2>3. ASSUME NEW i \in (p + Len(d) + 1)..Len(f) PROVE Splice(f, p, d)[i] = f[i]
      BY <1>1, SpliceTail
    <2> QED BY <1>0, <2>1, <2>2, <2>3
  <1>5. f2 = Splice(f, p, d)
    BY DEF p
  <1> HIDE DEF f2
  <1>6. ASSUME NEW i \in 1..(p + n) PROVE f2[i] = E[i]
    <2>1. CASE i \in 1..p
      BY <1>0, <1>4, <1>5, <2>1
    <2>2. CASE i \notin 1..p
      <3>1. i - p \in 1..n /\ i = p + (i - p)
        BY <1>1, <2>2
      <3> QED BY <1>0, <1>4, <1>5, <3>1
    <2> QED BY <2>1, <2>2
  <1>7. NumBlocks(f2) = IF P + m > F THEN P + m ELSE F
    <2>1. Len(f2) = IF P + m > F THEN BLK * (P + m) ELSE BLK * F
      BY <1>1, <1>2, <1>3, <1>4, <1>5
    <2>2. (BLK * (P + m)) \div BLK = P + m /\ (BLK * F) \div BLK = F
      BY <1>1, <1>2, Units
    <2> QED BY <2>1, <2>2 DEF NumBlocks
  <1>8. ASSUME NEW j \in 1..(P + m) PROVE BlockAt(f2, j) = ChainBlock(k, s, j)
    <2>1. \A i \in 1..(BLK * (P + m)) : f2[i] = Enc(k, s)[i]
      BY <1>1, <1>6 DEF E
    <2> DEFINE r == P + m
    <2>2. r \in Nat /\ r <= Len(s) /\ j \in 1..r /\ \A i \in 1..(BLK * r) : f2[i] = Enc(k, s)[i]
      BY <1>0, <1>1, <2>1
    <2> HIDE DEF r
    <2> QED BY <2>2, EncBlocks
  <1>9. ASSUME NEW j \in 1..P PROVE BlockAt(f, j) = ChainBlock(k, s, j)
    <2>1. \A i \in 1..(BLK * P) : f[i] = Enc(k, s)[i]
      BY <1>0 DEF E, p
    <2>2. P <= Len(s)
      BY <1>0, <1>1
    <2> QED BY <2>1, <2>2, EncBlocks
  <1>10. ASSUME NEW j \in (P + m + 1)..F PROVE BlockAt(f2, j) = BlockAt(f, j)
    <2> DEFINE q == j - 1
    <2>1. q \in Nat /\ q + 1 = j /\ P + m <= q /\ q + 1 <= F
      BY <1>1, <1>2
    <2> HIDE DEF q
    <2>2. BLK * (P + m) <= BLK * q /\ BLK * (q + 1) <= BLK * F /\ BLK * q \in Nat
      <3>1. q + 1 \in Nat
        BY <2>1
      <3> QED BY <1>1, <1>2, <2>1, <3>1, Units
    <2>3. BLK * (q + 1) = BLK * q + BLK
      BY <2>1
    <2> DEFINE y == BLK * q
    <2>4. p + n <= y /\ y + BLK <= Len(f) /\ y \in Nat /\ Len(f) \in Nat
      BY <1>1, <1>2, <2>2, <2>3
    <2>5. ASSUME NEW i \in 1..BLK PROVE f2[y + i] = f[y + i]
      <3> HIDE DEF y
      <3>1. y + i \in (p + n + 1)..Len(f)
        BY <1>1, <2>4
      <3> QED BY <1>4, <1>5, <3>1
    <2> HIDE DEF y
    <2>6. SameUnits(f2, f, q, j) /\ q \in Nat
      BY <2>1, <2>5 DEF y, SameUnits
    <2> QED BY <2>6, SameBlock
  <1> QED BY <1>2, <1>3, <1>4, <1>5, <1>7, <1>8, <1>9, <1>10 DEF f2, F, p

(***************************************************************************)
(*                        The cells of an owner                            *)
(***************************************************************************)
Stored(o, f) == Decrypt(o, IV(o), f)

\* What block j of file f is under key o.
CellOf(o, f, j) == DecryptBlock(o, IF j = 1 THEN IV(o) ELSE BlockAt(f, j - 1), BlockAt(f, j))

LEMMA StoredParts ==
  ASSUME NEW o \in Keys, NEW f \in Seq(Unit)
  PROVE  /\ Stored(o, f) = [j \in 1..NumBlocks(f) |-> CellOf(o, f, j)]
         /\ Len(Stored(o, f)) = NumBlocks(f)
         /\ \A j \in 1..NumBlocks(f) : CellOf(o, f, j) \in Data \cup {Garbage}
  <1>1. Stored(o, f) = [j \in 1..NumBlocks(f) |-> CellOf(o, f, j)]
    BY DEF Stored, Decrypt, CellOf, NumBlocks
  <1>2. Stored(o, f) \in Seq(Data \cup {Garbage}) /\ Len(Stored(o, f)) = NumBlocks(f)
    BY DecryptType DEF Stored, NumBlocks
  <1>3. ASSUME NEW j \in 1..NumBlocks(f) PROVE CellOf(o, f, j) \in Data \cup {Garbage}
    <2>1. Stored(o, f)[j] = CellOf(o, f, j)
      BY <1>1
    <2>2. Stored(o, f)[j] \in Data \cup {Garbage}
      BY <1>2
    <2> QED BY <2>1, <2>2
  <1> QED BY <1>1, <1>2, <1>3

\* Blocks that are those of a chain hold its data for the owner of the key, and
\* nothing for anybody else.
LEMMA ChainCell ==
  ASSUME NEW k \in Keys, NEW s \in Chains, NEW f, NEW j \in 1..Len(s),
         \A i \in 1..j : BlockAt(f, i) = ChainBlock(k, s, i)
  PROVE  /\ CellOf(k, f, j) = s[j]
         /\ \A o \in Keys : o # k => CellOf(o, f, j) = Garbage
  <1>1. BlockAt(f, j) = ChainBlock(k, s, j) /\ Len(s) \in Nat
    BY DEF Chains
  <1>2. (IF j = 1 THEN IV(k) ELSE BlockAt(f, j - 1)) = ChainBefore(k, s, j)
    <2>1. CASE j = 1
      BY <2>1 DEF ChainBefore
    <2>2. CASE j # 1
      <3>1. j - 1 \in 1..j
        BY <1>1, <2>2
      <3> QED BY <2>2, <3>1 DEF ChainBefore
    <2> QED BY <2>1, <2>2
  <1>3. CellOf(k, f, j) = s[j]
    BY <1>1, <1>2, DecryptsTo DEF CellOf
  <1>4. ASSUME NEW o \in Keys, o # k PROVE CellOf(o, f, j) = Garbage
    BY <1>1, <1>4 DEF CellOf, DecryptBlock, ChainBlock
  <1> QED BY <1>3, <1>4

\* The block behind blocks of another key is nothing to owner o.
LEMMA BehindForeign ==
  ASSUME NEW k \in Keys, NEW o \in Keys, o # k, NEW s, NEW f, NEW j \in Nat, j > 0,
         BlockAt(f, j) = ChainBlock(k, s, j)
  PROVE  CellOf(o, f, j + 1) = Garbage
  <1>1. j + 1 # 1 /\ (j + 1) - 1 = j
    OBVIOUS
  <1> QED BY <1>1 DEF CellOf, DecryptBlock, ChainBlock

\* The cell after put blocks: whatever the block there is to owner o now.
Behind(o, f2, n) == IF n + 1 <= NumBlocks(f2) THEN CellOf(o, f2, n + 1) ELSE Garbage

\* What a pass of the write loop that makes f2 of f is to the owner of the
\* handle, and to the other owners of objects with that file name.
PutSeen(k, s, f, f2, P, m) ==
    /\ Stored(k, f2) = Store!Put(Stored(k, f), P, [j \in 1..m |-> s[P + j]],
                                 Behind(k, f2, P + m))
    /\ Behind(k, f2, P + m) \in Data \cup {Garbage}
    /\ \A o \in Keys : o # k =>
          Stored(o, f2) = Store!Put(Stored(o, f), P, [j \in 1..m |-> Garbage], Garbage)

LEMMA PutCells ==
  ASSUME NEW k \in Keys, NEW s \in Chains, NEW f \in Seq(Unit), NEW P \in Nat, NEW m \in Nat,
         NEW d \in Seq(Unit), Puts(k, s, f, P, m, d), m > 0
  PROVE  PutSeen(k, s, f, Splice(f, BLK * P, d), P, m)
  <1> DEFINE f2 == Splice(f, BLK * P, d)
             F == NumBlocks(f)
             N == IF P + m > F THEN P + m ELSE F
  <1>1. /\ f2 \in Seq(Unit) /\ F \in Nat /\ P <= F /\ NumBlocks(f2) = N
        /\ \A j \in 1..(P + m) : BlockAt(f2, j) = ChainBlock(k, s, j)
        /\ \A j \in 1..P : BlockAt(f, j) = ChainBlock(k, s, j)
        /\ \A j \in (P + m + 1)..F : BlockAt(f2, j) = BlockAt(f, j)
    BY PutBlocks
  <1>2. P + m <= Len(s) /\ Len(s) \in Nat
    BY DEF Puts, Chains
  <1> HIDE DEF f2, F
  <1>3. ASSUME NEW o \in Keys, NEW j \in 1..P PROVE CellOf(o, f2, j) = CellOf(o, f, j)
    <2>0. j \in 1..(P + m)
      OBVIOUS
    <2>1. BlockAt(f2, j) = BlockAt(f, j)
      BY <1>1, <2>0
    <2>2. j # 1 => BlockAt(f2, j - 1) = BlockAt(f, j - 1)
      <3>1. j # 1 => j - 1 \in 1..P /\ j - 1 \in 1..(P + m)
        OBVIOUS
      <3> QED BY <1>1, <3>1
    <2> QED BY <2>1, <2>2 DEF CellOf
  <1>4. ASSUME NEW j \in 1..m
        PROVE  /\ CellOf(k, f2, P + j) = s[P + j]
               /\ \A o \in Keys : o # k => CellOf(o, f2, P + j) = Garbage
    <2> DEFINE l == P + j
    <2>1. l \in 1..Len(s) /\ \A i \in 1..l : BlockAt(f2, i) = ChainBlock(k, s, i)
      BY <1>1, <1>2
    <2> HIDE DEF l
    <2>2. CellOf(k, f2, l) = s[l] /\ \A o \in Keys : o # k => CellOf(o, f2, l) = Garbage
      <3>1. CellOf(k, f2, l) = s[l]
        BY <2>1, ChainCell
      <3>2. ASSUME NEW o \in Keys, o # k PROVE CellOf(o, f2, l) = Garbage
        BY <2>1, <3>1, <3>2, ChainCell
      <3> QED BY <3>1, <3>2
    <2> QED BY <2>2 DEF l
  <1>5. ASSUME NEW o \in Keys, o # k PROVE CellOf(o, f2, P + m + 1) = Garbage
    <2>1. P + m \in Nat /\ P + m > 0 /\ BlockAt(f2, P + m) = ChainBlock(k, s, P + m)
      BY <1>1
    <2> DEFINE l == P + m
    <2>2. l \in Nat /\ l > 0 /\ BlockAt(f2, l) = ChainBlock(k, s, l)
      BY <2>1
    <2> HIDE DEF l
    <2>3. CellOf(o, f2, l + 1) = Garbage
      BY <1>5, <2>2, BehindForeign
    <2> QED BY <2>3 DEF l
  <1>6. ASSUME NEW o \in Keys, NEW j \in (P + m + 2)..F PROVE CellOf(o, f2, j) = CellOf(o, f, j)
    <2>1. j \in (P + m + 1)..F /\ j - 1 \in (P + m + 1)..F /\ j # 1
      BY <1>1
    <2> QED BY <1>1, <2>1 DEF CellOf
  <1>7. ASSUME NEW o \in Keys
        PROVE  /\ Stored(o, f2) = [j \in 1..N |-> CellOf(o, f2, j)]
               /\ Len(Stored(o, f)) = F
               /\ \A j \in 1..F : Stored(o, f)[j] = CellOf(o, f, j)
    BY <1>1, StoredParts DEF F
  <1>8. ASSUME NEW o \in Keys, NEW e, NEW x, Len(e) = m,
               \A j \in 1..m : e[j] = CellOf(o, f2, P + j),
               P + m + 1 <= N => x = CellOf(o, f2, P + m + 1)
        PROVE  Stored(o, f2) = Store!Put(Stored(o, f), P, e, x)
    <2> DEFINE c == Stored(o, f)
               y(j) == IF j \in (P + 1)..(P + m) THEN e[j - P]
                       ELSE IF j = P + m + 1 THEN x ELSE c[j]
    <2>1. Store!Put(c, P, e, x) = [j \in 1..N |-> y(j)]
      BY <1>7, <1>8 DEF Store!Put
    <2>2. ASSUME NEW j \in 1..N PROVE y(j) = CellOf(o, f2, j)
      <3>1. CASE j \in 1..P
        BY <1>1, <1>3, <1>7, <3>1
      <3>2. CASE j \in (P + 1)..(P + m)
        <4>1. j - P \in 1..m /\ P + (j - P) = j
          BY <3>2
        <4> QED BY <1>8, <3>2, <4>1
      <3>3. CASE j = P + m + 1
        BY <1>8, <3>3
      <3>4. CASE j > P + m + 1
        <4>1. j \in (P + m + 2)..F /\ j \in 1..F /\ j \notin (P + 1)..(P + m)
          BY <1>1, <3>4
        <4> QED BY <1>6, <1>7, <4>1, <3>4
      <3> QED BY <3>1, <3>2, <3>3, <3>4
    <2> HIDE DEF y, N
    <2> QED BY <1>7, <2>1, <2>2
  <1>9. Behind(k, f2, P + m) \in Data \cup {Garbage}
    <2>1. CASE P + m + 1 <= N
      <3>1. P + m + 1 \in 1..NumBlocks(f2)
        BY <1>1, <2>1
      <3> QED BY <1>1, <2>1, <3>1, StoredParts DEF Behind
    <2>2. CASE ~(P + m + 1 <= N)
      BY <1>1, <2>2 DEF Behind
    <2> QED BY <2>1, <2>2
  <1>10. Stored(k, f2) = Store!Put(Stored(k, f), P, [j \in 1..m |-> s[P + j]],
                                   Behind(k, f2, P + m))
    <2> DEFINE e == [j \in 1..m |-> s[P + j]]
    <2>1. Len(e) = m /\ \A j \in 1..m : e[j] = CellOf(k, f2, P + j)
      <3>1. \A j \in 1..m : s[P + j] = CellOf(k, f2, P + j)
        BY <1>4
      <3>2. \A j \in 1..m : e[j] = CellOf(k, f2, P + j)
        BY <3>1, Zenon
      <3>3. Len(e) = m
        OBVIOUS
      <3> QED BY <3>2, <3>3
    <2>2. P + m + 1 <= N => Behind(k, f2, P + m) = CellOf(k, f2, P + m + 1)
      BY <1>1 DEF Behind
    <2> HIDE DEF e, N
    <2>3. Stored(k, f2) = Store!Put(Stored(k, f), P, e, Behind(k, f2, P + m))
      BY <1>8, <2>1, <2>2
    <2> QED BY <2>3 DEF e
  <1>11. ASSUME NEW o \in Keys, o # k
         PROVE  Stored(o, f2) = Store!Put(Stored(o, f), P, [j \in 1..m |-> Garbage], Garbage)
    <2> DEFINE e == [j \in 1..m |-> Garbage]
    <2>1. Len(e) = m /\ \A j \in 1..m : e[j] = CellOf(o, f2, P + j)
      <3>1. \A j \in 1..m : Garbage = CellOf(o, f2, P + j)
        BY <1>4, <1>11
      <3>2. \A j \in 1..m : e[j] = CellOf(o, f2, P + j)
        BY <3>1, Zenon
      <3>3. Len(e) = m
        OBVIOUS
      <3> QED BY <3>2, <3>3
    <2>2. Garbage = CellOf(o, f2, P + m + 1)
      BY <1>5, <1>11
    <2> HIDE DEF e, N
    <2>3. Stored(o, f2) = Store!Put(Stored(o, f), P, e, Garbage)
      BY <1>8, <2>1, <2>2
    <2> QED BY <2>3 DEF e
  <1> QED BY <1>9, <1>10, <1>11 DEF f2, PutSeen

(***************************************************************************)
(*                 What a transfer has still to move, and moves            *)
(***************************************************************************)

\* The last unit of block j of a chain's encryption carries the block's data.
LEMMA LastUnit ==
  ASSUME NEW k \in Keys, NEW s \in Chains, NEW j \in 1..Len(s)
  PROVE  Last(Enc(k, s)[BLK * j].chain) = s[j]
  <1>1. Len(s) \in Nat /\ s \in Seq(Data) /\ j \in Nat
    BY DEF Chains
  <1>2. BLK * j \in 1..(BLK * Len(s))
    <2>1. BLK * j <= BLK * Len(s) /\ BLK * j \in Nat /\ BLK * Len(s) \in Nat
      BY <1>1, Units
    <2>2. BLK * j # 0
      BY <1>1
    <2> QED BY <2>1, <2>2
  <1>3. (BLK * j - 1) \div BLK = j - 1
    <2>1. j - 1 \in Nat /\ BLK - 1 \in 0..(BLK - 1)
      OBVIOUS
    <2>2. BLK * (j - 1) + (BLK - 1) = BLK * j - 1
      OBVIOUS
    <2>3. (BLK * (j - 1) + (BLK - 1)) \div BLK = j - 1
      BY <2>1, Quotient
    <2> QED BY <2>2, <2>3, Zenon
  <1>4. Enc(k, s)[BLK * j] = UnitOf(k, s, BLK * j)
    BY <1>2, EncUnits
  <1>5. UnitOf(k, s, BLK * j).chain = SubSeq(s, 1, (j - 1) + 1)
    BY <1>3, Zenon DEF UnitOf
  <1>6. (j - 1) + 1 = j
    OBVIOUS
  <1> DEFINE t == SubSeq(s, 1, j)
  <1>7. t \in Seq(Data) /\ Len(t) = j /\ t[j] = s[j]
    BY <1>1, SubSeqProperties
  <1>8. Last(t) = s[j]
    <2> HIDE DEF t
    <2> QED BY <1>7 DEF Last
  <1> QED BY <1>4, <1>5, <1>6, <1>8

\* A write buffer holds, after its first y units, which are x blocks, the r blocks
\* of s after block P.
Carries(u, y, x, k, s, P, r) ==
    /\ y = BLK * x /\ P + r = Len(s) /\ Len(u) = BLK * (x + r)
    /\ \A i \in 1..(BLK * r) : u[BLK * x + i] = Enc(k, s)[BLK * P + i]

LEMMA PlaintextOf ==
  ASSUME NEW k \in Keys, NEW s \in Chains, NEW u, NEW y, NEW x \in Nat, NEW P \in Nat,
         NEW r \in Nat, Carries(u, y, x, k, s, P, r)
  PROVE  Plaintext(u, y) = [j \in 1..r |-> s[P + j]]
  <1>1. /\ y = BLK * x /\ P + r = Len(s) /\ Len(u) = BLK * (x + r)
        /\ \A i \in 1..(BLK * r) : u[BLK * x + i] = Enc(k, s)[BLK * P + i]
    BY DEF Carries
  <1>2. (Len(u) - BLK * x) \div BLK = r
    <2>1. BLK * (x + r) - BLK * x = BLK * r
      <3>1. BLK * (x + r) = BLK * x + BLK * r /\ BLK * x \in Nat /\ BLK * r \in Nat
        BY Units
      <3> DEFINE X == BLK * x
                 R == BLK * r
      <3> HIDE DEF X, R
      <3>2. (X + R) - X = R
        BY <3>1 DEF X, R
      <3> QED BY <3>1, <3>2 DEF X, R
    <2>2. (BLK * r) \div BLK = r
      BY Units
    <2> QED BY <1>1, <2>1, <2>2
  <1>3. ASSUME NEW j \in 1..r PROVE Last(u[BLK * x + j * BLK].chain) = s[P + j]
    <2>1. j * BLK = BLK * j /\ j \in Nat
      OBVIOUS
    <2>2. BLK * j \in 1..(BLK * r)
      <3>1. BLK * j <= BLK * r /\ BLK * j \in Nat /\ BLK * r \in Nat
        BY <2>1, Units
      <3>2. BLK * j # 0
        OBVIOUS
      <3> QED BY <3>1, <3>2
    <2>3. u[BLK * x + j * BLK] = Enc(k, s)[BLK * P + BLK * j]
      <3> DEFINE i == BLK * j
      <3>1. i \in 1..(BLK * r) /\ j * BLK = i
        BY <2>1, <2>2
      <3> HIDE DEF i
      <3>2. u[BLK * x + i] = Enc(k, s)[BLK * P + i]
        BY <1>1, <3>1, Zenon
      <3> QED BY <3>1, <3>2 DEF i
    <2>4. BLK * P + BLK * j = BLK * (P + j)
      BY <2>1, Units
    <2>5. P + j \in 1..Len(s)
      BY <1>1
    <2>6. Last(Enc(k, s)[BLK * (P + j)].chain) = s[P + j]
      BY <2>5, LastUnit
    <2> QED BY <2>3, <2>4, <2>6
  <1>4. Plaintext(u, BLK * x) = [j \in 1..r |-> Last(u[BLK * x + j * BLK].chain)]
    BY <1>2, Zenon DEF Plaintext
  <1> QED BY <1>1, <1>3, <1>4, Zenon

\* A write in progress through a handle in step.
Writing(g, o, f, c, k) ==
    /\ InStep(g, o, f, c, k) /\ g.mode = "w" /\ c.op = "write" /\ g.prev.chain \in Chains
    /\ c.offset \in Nat /\ c.count \in Nat /\ c.offset <= c.count /\ Len(c.buf) = c.count

\* It has the blocks of the chain behind the position still to move.
RestIs(g, o, c) ==
    LET s == g.prev.chain
        P == o.pos \div BLK
        r == (c.count - c.offset) \div BLK
    IN /\ P \in Nat /\ r \in Nat /\ o.pos = BLK * P /\ c.count - c.offset = BLK * r
       /\ P + r = Len(s)
       /\ Plaintext(c.buf, c.offset) = [j \in 1..r |-> s[P + j]]

LEMMA RestOf ==
  ASSUME NEW g, NEW o, NEW f, NEW c, NEW k \in Keys, Writing(g, o, f, c, k)
  PROVE  RestIs(g, o, c)
  <1> DEFINE s == g.prev.chain
             P == o.pos \div BLK
             r == (c.count - c.offset) \div BLK
             x == c.offset \div BLK
             L == c.count - c.offset
             u == c.buf
             E == Enc(k, s)
  <1>1. /\ o.pos \in Nat /\ Whole(o.pos) /\ Whole(c.offset) /\ Whole(c.count)
        /\ o.pos + L = BLK * Len(s)
        /\ \A i \in 1..L : u[c.offset + i] = E[o.pos + i]
        /\ s \in Chains /\ c.offset \in Nat /\ c.count \in Nat /\ c.offset <= c.count
        /\ Len(u) = c.count
    BY DEF Writing, InStep, Writer, Left
  <1>2. Whole(L) /\ L \in Nat
    BY <1>1, WholeSums
  <1>3. /\ P \in Nat /\ o.pos = BLK * P /\ r \in Nat /\ L = BLK * r
        /\ x \in Nat /\ c.offset = BLK * x
    BY <1>1, <1>2, Blocks
  <1>4. P + r = Len(s)
    <2>1. BLK * (P + r) = BLK * Len(s)
      BY <1>1, <1>3, Units
    <2>2. P + r \in Nat /\ Len(s) \in Nat
      <3> HIDE DEF P, r
      <3>1. Len(s) \in Nat
        BY <1>1 DEF Chains
      <3> QED BY <1>3, <3>1
    <2> DEFINE z == P + r
               l == Len(s)
    <2>3. BLK * z = BLK * l /\ z \in Nat /\ l \in Nat
      BY <2>1, <2>2
    <2> HIDE DEF z, l
    <2>4. z = l
      BY <2>3, Units
    <2> QED BY <2>4 DEF z, l
  <1>5. Len(u) = BLK * (x + r)
    <2>1. BLK * (x + r) = BLK * x + BLK * r
      BY <1>3, Units
    <2>2. c.count = c.offset + L
      BY <1>1
    <2>3. Len(u) = c.count
      BY <1>1
    <2> HIDE DEF x, r, L, u
    <2> QED BY <1>3, <2>1, <2>2, <2>3
  <1> HIDE DEF P, r, x, L, u, s, E
  <1>6. Carries(u, c.offset, x, k, s, P, r)
    <2>1. \A i \in 1..(BLK * r) : u[BLK * x + i] = E[BLK * P + i]
      BY <1>1, <1>3
    <2> QED BY <1>3, <1>4, <1>5, <2>1 DEF Carries, E
  <1>7. Plaintext(u, c.offset) = [j \in 1..r |-> s[P + j]]
    <2> DEFINE y == c.offset
    <2>1. s \in Chains /\ x \in Nat /\ P \in Nat /\ r \in Nat /\ Carries(u, y, x, k, s, P, r)
      BY <1>1, <1>3, <1>6
    <2> HIDE DEF y
    <2>2. Plaintext(u, y) = [j \in 1..r |-> s[P + j]]
      BY <2>1, PlaintextOf
    <2> QED BY <2>2 DEF y
  <1> QED BY <1>3, <1>4, <1>7 DEF P, r, u, s, L, RestIs

\* The m blocks of file f behind the first q, as its owner k reads them with
\* chaining value p: the block before them, or one that is spoilt.
BlockBefore(k, f, q, p) == p = Torn \/ p = IF q = 0 THEN IV(k) ELSE BlockAt(f, q)
DataRead(k, f, q, p, m) ==
    [j \in 1..m |-> IF j = 1 /\ p = Torn THEN Garbage ELSE Stored(k, f)[q + j]]

\* What the decryption of these blocks hands back: what is stored there, but
\* nothing for the first when the chaining value is spoilt.
LEMMA ReadCells ==
  ASSUME NEW k \in Keys, NEW f \in Seq(Unit), NEW u \in Seq(Unit), NEW q \in Nat, NEW m \in Nat,
         Len(u) = BLK * m, CopyOf(u, f, q, m), q + m <= NumBlocks(f), NumBlocks(f) \in Nat,
         NEW p, BlockBefore(k, f, q, p)
  PROVE  Decrypt(k, p, u) = DataRead(k, f, q, p, m)
  <1>1. Len(u) \div BLK = m
    BY Units
  <1>2. ASSUME NEW i \in 1..m PROVE BlockAt(u, i) = BlockAt(f, q + i)
    BY BlockShift
  <1>3. ASSUME NEW j \in 1..m PROVE Stored(k, f)[q + j] = CellOf(k, f, q + j)
    <2>1. q + j \in 1..NumBlocks(f)
      OBVIOUS
    <2> QED BY <2>1, StoredParts
  <1>4. ASSUME NEW j \in 1..m
        PROVE  DecryptBlock(k, IF j = 1 THEN p ELSE BlockAt(u, j - 1), BlockAt(u, j)) =
                   IF j = 1 /\ p = Torn THEN Garbage ELSE Stored(k, f)[q + j]
    <2>1. CASE j = 1 /\ p = Torn
      <3>1. k # NoKey
        BY DEF Keys
      <3> QED BY <2>1, <3>1 DEF DecryptBlock, Torn
    <2>2. CASE j = 1 /\ p # Torn
      <3>1. (IF q + j = 1 THEN IV(k) ELSE BlockAt(f, (q + j) - 1)) = p
        <4>1. (q + j = 1 <=> q = 0) /\ (q + j) - 1 = q
          BY <2>2
        <4> QED BY <2>2, <4>1 DEF BlockBefore
      <3> QED BY <1>2, <1>3, <2>2, <3>1 DEF CellOf
    <2>3. CASE j # 1
      <3>1. j - 1 \in 1..m /\ (q + j) - 1 = q + (j - 1) /\ q + j # 1
        BY <2>3
      <3>2. BlockAt(u, j - 1) = BlockAt(f, (q + j) - 1) /\ BlockAt(u, j) = BlockAt(f, q + j)
        BY <1>2, <3>1
      <3> QED BY <1>3, <2>3, <3>1, <3>2 DEF CellOf
    <2> QED BY <2>1, <2>2, <2>3
  <1>5. Decrypt(k, p, u) =
          [j \in 1..m |-> DecryptBlock(k, IF j = 1 THEN p ELSE BlockAt(u, j - 1), BlockAt(u, j))]
    BY <1>1, Zenon DEF Decrypt
  <1> QED BY <1>4, <1>5, Zenon DEF DataRead

(***************************************************************************)
(*                        The mapping, point by point                      *)
(***************************************************************************)
CursorRec(o, md, at, sp) == [owner |-> o, mode |-> md, at |-> at, spoilt |-> sp]
CursorAt(a, h) ==
    IF Live(a, h)
    THEN CursorRec(Owner(a, h), handle[a][h].mode,
                   OpenAt(a, h).pos \div BLK - BlocksTaken(a, h), handle[a][h].prev = Torn)
    ELSE Store!NoCursor

CallFor(op, h, rest, want) == [op |-> op, h |-> h, rest |-> rest, want |-> want]
\* What call c on handle g is to the store.
PendingOf(c, g) ==
    IF c = Idle THEN Store!NoCall
    ELSE IF ~Fits(c, g) THEN CallFor("refused", c.h, << >>, 0)
    ELSE IF c.op = "write" THEN CallFor("write", c.h, Plaintext(c.buf, c.offset), 0)
    ELSE CallFor("read", c.h, << >>, c.count \div BLK)

\* What the mapped variables are at each place.
LEMMA Mapped ==
  /\ Cells = [o \in Keys |-> Stored(o, file[FileOf[o[2]]])]
  /\ Cursor = [a \in Apps |-> [h \in Handles |-> CursorAt(a, h)]]
  /\ Pending = [a \in Apps |-> PendingOf(call[a], handle[a][call[a].h])]
  /\ Outcome = [a \in Apps |-> [ok |-> ret[a].res = "SUCCESS", data |-> ret[a].data]]
  <1>1. Cells = [o \in Keys |-> Stored(o, file[FileOf[o[2]]])]
    BY Zenon DEF Cells, Stored
  <1>2. Cursor = [a \in Apps |-> [h \in Handles |-> CursorAt(a, h)]]
    BY Zenon DEF Cursor, CursorAt, CursorRec, OpenAt, Store!NoCursor
  <1>3. Pending = [a \in Apps |-> PendingOf(call[a], handle[a][call[a].h])]
    BY Zenon DEF Pending, PendingOf, CallFor, Store!NoCall
  <1> QED BY <1>1, <1>2, <1>3, Zenon DEF Outcome

LEMMA ResultOf ==
  ASSUME RetOK, NEW a \in Apps, NEW r, Return(a, r)
  PROVE  Store!Answers(a, r.res = "SUCCESS", r.data)
  <1>1. ret' = [ret EXCEPT ![a] = r] /\ DOMAIN ret = Apps
    BY DEF RetOK, Return
  <1>2. Outcome' = [b \in Apps |-> [ok |-> ret'[b].res = "SUCCESS", data |-> ret'[b].data]]
    BY DEF Outcome
  <1>3. ASSUME NEW b \in Apps
        PROVE Outcome'[b] = IF b = a THEN [ok |-> r.res = "SUCCESS", data |-> r.data]
                                     ELSE Outcome[b]
    BY <1>1 DEF Outcome
  <1>4. Outcome' = [Outcome EXCEPT ![a] = [ok |-> r.res = "SUCCESS", data |-> r.data]]
    BY <1>1, <1>2, <1>3 DEF Outcome
  <1> QED BY <1>4 DEF Store!Answers, Store!Answer

\* A call that ends without data: what Returned and NoResult stand for.
LEMMA PlainResult ==
  ASSUME RetOK, NEW a \in Apps, NEW res, Return(a, Returned(res))
  PROVE  Store!Answers(a, res = "SUCCESS", << >>)
  <1>1. Returned(res).res = res /\ Returned(res).data = << >>
    BY DEF Returned
  <1>2. Store!Answers(a, Returned(res).res = "SUCCESS", Returned(res).data)
    BY ResultOf
  <1> QED BY <1>1, <1>2

\* Owners see only the files, and what each of them finds there.
LEMMA CellsSame == ASSUME file' = file PROVE Cells' = Cells
  BY DEF Cells

\* The cursors when one of them, or none, changes.
LEMMA CursorOne ==
  ASSUME NEW a \in Apps, NEW h \in Handles,
         \A b \in Apps : \A i \in Handles : (b # a \/ i # h) => CursorAt(b, i)' = CursorAt(b, i)
  PROVE  Cursor' = [Cursor EXCEPT ![a][h] = CursorAt(a, h)']
  <1>1. /\ Cursor = [b \in Apps |-> [i \in Handles |-> CursorAt(b, i)]]
        /\ Cursor' = [b \in Apps |-> [i \in Handles |-> CursorAt(b, i)']]
    <2>1. Cursor' = [b \in Apps |-> [i \in Handles |-> CursorAt(b, i)']]
      BY Zenon DEF Cursor, CursorAt, CursorRec, OpenAt, Store!NoCursor
    <2> QED BY Mapped, <2>1, Zenon
  <1> DEFINE X(b, i) == CursorAt(b, i)
             Y(b, i) == CursorAt(b, i)'
             v == Cursor'
  <1>2. /\ Cursor = [b \in Apps |-> [i \in Handles |-> X(b, i)]]
        /\ v = [b \in Apps |-> [i \in Handles |-> Y(b, i)]]
        /\ \A b \in Apps : \A i \in Handles : (b # a \/ i # h) => Y(b, i) = X(b, i)
    BY <1>1
  <1> HIDE DEF X, Y, v
  <1>3. v = [Cursor EXCEPT ![a][h] = Y(a, h)]
    BY <1>2
  <1> QED BY <1>3 DEF Y, v

\* A cursor stays when nothing that concerns its handle changes.
LEMMA CursorKept ==
  ASSUME NEW a \in Apps, NEW h \in Handles, handle'[a][h] = handle[a][h],
         Live(a, h) => /\ fdt'[a][handle[a][h].desc] = fdt[a][handle[a][h].desc]
                       /\ BlocksTaken(a, h)' = BlocksTaken(a, h)
  PROVE  CursorAt(a, h)' = CursorAt(a, h)
  <1>1. Live(a, h)' <=> Live(a, h)
    BY DEF Live
  <1>2. CASE Live(a, h)
    BY <1>1, <1>2 DEF CursorAt, OpenAt, Owner, CursorRec
  <1>3. CASE ~Live(a, h)
    BY <1>1, <1>3 DEF CursorAt, Store!NoCursor
  <1> QED BY <1>2, <1>3

\* The calls in progress when that of process a changes.
LEMMA PendingOne ==
  ASSUME NEW a \in Apps, \A b \in Apps : b # a => call'[b] = call[b] /\ handle'[b] = handle[b]
  PROVE  Pending' = [Pending EXCEPT ![a] = PendingOf(call'[a], handle'[a][call'[a].h])]
  <1> DEFINE X(b) == PendingOf(call[b], handle[b][call[b].h])
             Y(b) == PendingOf(call'[b], handle'[b][call'[b].h])
             v == Pending'
  <1>1. Pending = [b \in Apps |-> X(b)]
    BY Mapped, Zenon
  <1>2. v = [b \in Apps |-> Y(b)]
    BY Zenon DEF Pending, PendingOf, CallFor, Store!NoCall
  <1>3. \A b \in Apps : b # a => Y(b) = X(b)
    BY Zenon
  <1> HIDE DEF X, Y, v
  <1>4. v = [Pending EXCEPT ![a] = Y(a)]
    BY <1>1, <1>2, <1>3
  <1> QED BY <1>4 DEF Y, v

LEMMA PendingSame ==
  ASSUME call' = call, \A a \in Apps : call[a] # Idle => handle'[a] = handle[a]
  PROVE  Pending' = Pending
  <1> DEFINE X(b) == PendingOf(call[b], handle[b][call[b].h])
             Y(b) == PendingOf(call[b], handle'[b][call[b].h])
             v == Pending'
  <1>1. Pending = [b \in Apps |-> X(b)]
    BY Mapped, Zenon
  <1>2. v = [b \in Apps |-> Y(b)]
    BY Zenon DEF Pending, PendingOf, CallFor, Store!NoCall
  <1>3. \A b \in Apps : Y(b) = X(b)
    BY Zenon DEF PendingOf
  <1> HIDE DEF X, Y, v
  <1>4. v = Pending
    BY <1>1, <1>2, <1>3
  <1> QED BY <1>4 DEF v

(***************************************************************************)
(*                       Steps on one live handle                          *)
(***************************************************************************)

\* What the store sees of a live handle and the call of its process.
LEMMA HandleSeen ==
  ASSUME NEW a \in Apps, NEW h \in Handles, Live(a, h), call[a] = Idle \/ call[a].h = h
  PROVE  /\ Cursor[a][h] = CursorRec(Owner(a, h), handle[a][h].mode,
                                     OpenAt(a, h).pos \div BLK - BlocksTaken(a, h),
                                     handle[a][h].prev = Torn)
         /\ Cursor[a][h] # Store!NoCursor
         /\ Pending[a] = PendingOf(call[a], handle[a][h])
  <1>1. Cursor[a][h] = CursorAt(a, h) /\ Pending[a] = PendingOf(call[a], handle[a][call[a].h])
    BY Mapped, Zenon
  <1>2. Pending[a] = PendingOf(call[a], handle[a][h])
    BY <1>1, Zenon DEF PendingOf
  <1>3. CursorAt(a, h).owner # << >>
    BY DEF CursorAt, CursorRec, Owner
  <1> QED BY <1>1, <1>2, <1>3 DEF CursorAt, Store!NoCursor

\* The units taken by a call, in blocks.
LEMMA TakenIs ==
  ASSUME NEW c, NEW h, c = Idle \/ c.h = h
  PROVE  (IF c.op = "read" /\ c.h = h THEN c.offset \div BLK ELSE 0) = Got(c) \div BLK
  <1>1. 0 \div BLK = 0
    <2>1. BLK * 0 = 0 /\ (BLK * 0) \div BLK = 0
      BY Units
    <2> QED BY <2>1
  <1> QED BY <1>1, IdleParts DEF Got

SeenAs(a, h, g2, o2, c2) ==
    /\ Cursor' = [Cursor EXCEPT ![a][h] =
                     CursorRec(Owner(a, h), g2.mode, o2.pos \div BLK - Got(c2) \div BLK,
                               g2.prev = Torn)]
    /\ Pending' = [Pending EXCEPT ![a] = PendingOf(c2, g2)]
    /\ Cursor[a][h] = CursorRec(Owner(a, h), handle[a][h].mode,
                                OpenAt(a, h).pos \div BLK - Got(call[a]) \div BLK,
                                handle[a][h].prev = Torn)
    /\ Cursor[a][h] # Store!NoCursor
    /\ Pending[a] = PendingOf(call[a], handle[a][h])

LEMMA OneHandleSeen ==
  ASSUME Safe, DescriptorsOwned, NEW a \in Apps, NEW h \in Handles, Live(a, h),
         NEW g2, handle' = [handle EXCEPT ![a][h] = g2],
         g2.st = "open", g2.id = handle[a][h].id, g2.desc = handle[a][h].desc,
         NEW o2, fdt' = [fdt EXCEPT ![a][handle[a][h].desc] = o2],
         NEW c2, call' = [call EXCEPT ![a] = c2],
         c2 = Idle \/ c2.h = h, call[a] = Idle \/ call[a].h = h
  PROVE  SeenAs(a, h, g2, o2, c2)
  <1>0. HostOK /\ HandlesOK /\ CallsOK
    BY TypeParts DEF Safe
  <1> DEFINE fd == handle[a][h].desc
  <1>1. fd \in Fds
    BY LiveParts
  <1>2. /\ handle'[a][h] = g2
        /\ \A b \in Apps : \A i \in Handles : (b # a \/ i # h) => handle'[b][i] = handle[b][i]
        /\ \A b \in Apps : b # a => handle'[b] = handle[b]
    BY <1>0 DEF HandlesOK
  <1>3. /\ fdt'[a][fd] = o2
        /\ \A b \in Apps : \A d \in Fds : (b # a \/ d # fd) => fdt'[b][d] = fdt[b][d]
    BY <1>0, <1>1 DEF HostOK
  <1>4. call'[a] = c2 /\ \A b \in Apps : b # a => call'[b] = call[b]
    BY <1>0 DEF CallsOK
  <1>5. ASSUME NEW b \in Apps, NEW i \in Handles, b # a \/ i # h
        PROVE  CursorAt(b, i)' = CursorAt(b, i)
    <2>1. ASSUME Live(b, i) PROVE fdt'[b][handle[b][i].desc] = fdt[b][handle[b][i].desc]
      <3>1. b # a \/ handle[b][i].desc # fd
        BY <1>5, <2>1 DEF DescriptorsOwned
      <3>2. handle[b][i].desc \in Fds
        BY <2>1, LiveParts
      <3> QED BY <1>3, <3>1, <3>2
    <2>2. BlocksTaken(b, i)' = BlocksTaken(b, i)
      <3>1. CASE b # a
        BY <1>4, <3>1 DEF BlocksTaken
      <3>2. CASE b = a
        BY <1>4, <1>5, <3>2, IdleParts DEF BlocksTaken
      <3> QED BY <3>1, <3>2
    <2> QED BY <1>2, <1>5, <2>1, <2>2, CursorKept
  <1>6. Cursor' = [Cursor EXCEPT ![a][h] = CursorAt(a, h)']
    BY <1>5, CursorOne
  <1>7. CursorAt(a, h)' = CursorRec(Owner(a, h), g2.mode, o2.pos \div BLK - Got(c2) \div BLK,
                                    g2.prev = Torn)
    <2>1. Live(a, h)' /\ Owner(a, h)' = Owner(a, h) /\ OpenAt(a, h)' = o2
      BY <1>2, <1>3 DEF Live, Owner, OpenAt
    <2>2. BlocksTaken(a, h)' = Got(c2) \div BLK
      BY <1>4, TakenIs DEF BlocksTaken
    <2> QED BY <1>2, <2>1, <2>2 DEF CursorAt, CursorRec
  <1>8. Pending' = [Pending EXCEPT ![a] = PendingOf(c2, g2)]
    <2>1. Pending' = [Pending EXCEPT ![a] = PendingOf(call'[a], handle'[a][call'[a].h])]
      BY <1>2, <1>4, PendingOne
    <2>2. PendingOf(c2, handle'[a][c2.h]) = PendingOf(c2, g2)
      BY SMTT(60), <1>2 DEF PendingOf
    <2> QED BY <1>4, <2>1, <2>2
  <1>9. BlocksTaken(a, h) = Got(call[a]) \div BLK
    BY TakenIs DEF BlocksTaken
  <1> QED BY <1>6, <1>7, <1>8, <1>9, HandleSeen DEF SeenAs

\* A handle the store does not see move is one whose cursor is put back.
LEMMA CursorBack ==
  ASSUME NEW a \in Apps, NEW h \in Handles, Cursor' = [Cursor EXCEPT ![a][h] = Cursor[a][h]]
  PROVE  Cursor' = Cursor
  <1>1. Cursor = [b \in Apps |-> [i \in Handles |-> CursorAt(b, i)]]
    BY Mapped, Zenon
  <1> HIDE DEF CursorAt
  <1> DEFINE v == Cursor'
             c == Cursor
  <1>2. c = [b \in Apps |-> [i \in Handles |-> CursorAt(b, i)]] /\ v = [c EXCEPT ![a][h] = c[a][h]]
    BY <1>1
  <1> HIDE DEF v, c
  <1>3. v = c
    BY <1>2
  <1> QED BY <1>3 DEF v, c

\* The cursors with one of them, or a field of it, set.
WithCursor(a, h, c) == [Cursor EXCEPT ![a][h] = c]
WithSpoilt(a, h, y) == [Cursor EXCEPT ![a][h].spoilt = y]
WithAt(a, h, x) == [Cursor EXCEPT ![a][h].at = x]
WithBoth(a, h, x, y) == [Cursor EXCEPT ![a][h].at = x, ![a][h].spoilt = @ /\ y]

LEMMA CursorSet ==
  ASSUME NEW a \in Apps, NEW h \in Handles, NEW o, NEW md, NEW at, NEW sp \in BOOLEAN,
         Cursor[a][h] = CursorRec(o, md, at, sp), NEW x, NEW y \in BOOLEAN
  PROVE  /\ WithSpoilt(a, h, y) = WithCursor(a, h, CursorRec(o, md, at, y))
         /\ WithAt(a, h, x) = WithCursor(a, h, CursorRec(o, md, x, sp))
         /\ WithBoth(a, h, x, y) = WithCursor(a, h, CursorRec(o, md, x, sp /\ y))
  <1> DEFINE c == Cursor
             r == c[a][h]
  <1>1. c = [b \in Apps |-> [i \in Handles |-> CursorAt(b, i)]]
    BY Mapped, Zenon
  <1>2. r = [owner |-> o, mode |-> md, at |-> at, spoilt |-> sp]
    BY DEF CursorRec
  <1> HIDE DEF c
  <1>3. [c EXCEPT ![a][h].spoilt = y] =
           [c EXCEPT ![a][h] = [owner |-> o, mode |-> md, at |-> at, spoilt |-> y]]
    <2>1. [r EXCEPT !.spoilt = y] = [owner |-> o, mode |-> md, at |-> at, spoilt |-> y]
      BY <1>2 DEF r
    <2>2. [c EXCEPT ![a][h].spoilt = y] = [c EXCEPT ![a][h] = [r EXCEPT !.spoilt = y]]
      BY <1>1
    <2> QED BY <2>1, <2>2
  <1>4. [c EXCEPT ![a][h].at = x] =
           [c EXCEPT ![a][h] = [owner |-> o, mode |-> md, at |-> x, spoilt |-> sp]]
    <2>1. [r EXCEPT !.at = x] = [owner |-> o, mode |-> md, at |-> x, spoilt |-> sp]
      BY <1>2 DEF r
    <2>2. [c EXCEPT ![a][h].at = x] = [c EXCEPT ![a][h] = [r EXCEPT !.at = x]]
      BY <1>1
    <2> QED BY <2>1, <2>2
  <1>5. [c EXCEPT ![a][h].at = x, ![a][h].spoilt = @ /\ y] =
           [c EXCEPT ![a][h] = [owner |-> o, mode |-> md, at |-> x, spoilt |-> sp /\ y]]
    <2> DEFINE z == c[a][h].spoilt /\ y
    <2>1. z = (sp /\ y)
      BY <1>2
    <2>2. ASSUME NEW w
          PROVE  [c EXCEPT ![a][h].at = x, ![a][h].spoilt = w] =
                    [c EXCEPT ![a][h] = [r EXCEPT !.at = x, !.spoilt = w]]
      BY <1>1
    <2> HIDE DEF r
    <2>3. ASSUME NEW w
          PROVE  [r EXCEPT !.at = x, !.spoilt = w] =
                    [owner |-> o, mode |-> md, at |-> x, spoilt |-> w]
      <3> DEFINE r1 == [r EXCEPT !.at = x]
      <3>1. r1 = [owner |-> o, mode |-> md, at |-> x, spoilt |-> sp]
        BY <1>2
      <3>2. [r EXCEPT !.at = x, !.spoilt = w] = [r1 EXCEPT !.spoilt = w]
        OBVIOUS
      <3> HIDE DEF r1
      <3>3. [r1 EXCEPT !.spoilt = w] = [owner |-> o, mode |-> md, at |-> x, spoilt |-> w]
        BY <3>1
      <3> QED BY <3>2, <3>3, Zenon
    <2> DEFINE S == [owner |-> o, mode |-> md, at |-> x, spoilt |-> sp /\ y]
    <2> HIDE DEF z
    <2>4. [r EXCEPT !.at = x, !.spoilt = z] = S
      <3>1. [r EXCEPT !.at = x, !.spoilt = z] = [owner |-> o, mode |-> md, at |-> x, spoilt |-> z]
        BY <2>3, Zenon
      <3> QED BY <2>1, <3>1
    <2>5. [c EXCEPT ![a][h].at = x, ![a][h].spoilt = z] =
             [c EXCEPT ![a][h] = [r EXCEPT !.at = x, !.spoilt = z]]
      BY <2>2
    <2> HIDE DEF S
    <2>6. [c EXCEPT ![a][h].at = x, ![a][h].spoilt = z] = [c EXCEPT ![a][h] = S]
      BY <2>4, <2>5
    <2> QED BY <2>6, Zenon DEF z, S
  <1> QED BY <1>3, <1>4, <1>5, Zenon DEF c, CursorRec, WithSpoilt, WithAt, WithBoth, WithCursor

\* The same, one field at a time.
LEMMA CursorSpoilt ==
  ASSUME NEW a \in Apps, NEW h \in Handles, NEW o, NEW md, NEW at, NEW sp \in BOOLEAN,
         Cursor[a][h] = CursorRec(o, md, at, sp), NEW y \in BOOLEAN
  PROVE  WithSpoilt(a, h, y) = WithCursor(a, h, CursorRec(o, md, at, y))
  <1>1. /\ WithSpoilt(a, h, y) = WithCursor(a, h, CursorRec(o, md, at, y))
        /\ WithAt(a, h, at) = WithCursor(a, h, CursorRec(o, md, at, sp))
        /\ WithBoth(a, h, at, y) = WithCursor(a, h, CursorRec(o, md, at, sp /\ y))
    BY CursorSet
  <1> QED BY <1>1

LEMMA CursorMoves ==
  ASSUME NEW a \in Apps, NEW h \in Handles, NEW o, NEW md, NEW at, NEW sp \in BOOLEAN,
         Cursor[a][h] = CursorRec(o, md, at, sp), NEW x
  PROVE  WithAt(a, h, x) = WithCursor(a, h, CursorRec(o, md, x, sp))
  <1>1. /\ WithSpoilt(a, h, sp) = WithCursor(a, h, CursorRec(o, md, at, sp))
        /\ WithAt(a, h, x) = WithCursor(a, h, CursorRec(o, md, x, sp))
        /\ WithBoth(a, h, x, sp) = WithCursor(a, h, CursorRec(o, md, x, sp /\ sp))
    BY CursorSet
  <1> QED BY <1>1

\* A call that is refused or has nothing to move.
LEMMA ImmediateMaps ==
  ASSUME NEW a \in Apps, call[a] = Idle, UNCHANGED <<file, fdt, handle, call>>,
         NEW ok \in BOOLEAN, Store!Answers(a, ok, << >>)
  PROVE  Store!StoreNext
  <1>1. Pending[a] = Store!NoCall
    BY Mapped, Zenon DEF PendingOf
  <1>2. UNCHANGED <<Cells, Cursor, Pending>>
    BY DEF Cells, Cursor, Pending, BlocksTaken, Live, Owner
  <1>3. Store!Immediate(a)
    BY <1>2 DEF Store!Immediate
  <1> QED BY <1>1, <1>3 DEF Store!StoreNext

\* A write buffer just encrypted carries the data that the TA passed.
LEMMA Encrypted ==
  ASSUME NEW k \in Keys, NEW s \in Chains, NEW d \in Chains
  PROVE  Plaintext(Encrypt(k, s, d), 0) = d
  <1> DEFINE u == Encrypt(k, s, d)
             t == s \o d
             P == Len(s)
             r == Len(d)
  <1>1. P \in Nat /\ r \in Nat /\ 0 \in Nat /\ BLK * 0 = 0 /\ 0 + r = r
    BY DEF Chains
  <1>2. t \in Chains /\ Len(t) = P + r
    BY PrefixConcat
  <1>3. Len(u) = BLK * r
    BY EncryptType
  <1>4. \A i \in 1..(BLK * r) : u[i] = Enc(k, t)[BLK * P + i]
    BY EncConcat
  <1>5. ASSUME NEW j \in 1..r PROVE t[P + j] = d[j]
    BY <1>1 DEF Chains
  <1>6. d = [j \in 1..r |-> d[j]]
    BY DEF Chains
  <1> HIDE DEF u, t, P, r
  <1>7. Carries(u, 0, 0, k, t, P, r)
    <2>1. ASSUME NEW i \in 1..(BLK * r) PROVE BLK * 0 + i = i
      <3> DEFINE z == BLK * 0
      <3>1. z = 0 /\ i \in Int
        BY <1>1
      <3> HIDE DEF z
      <3>2. z + i = i
        BY <3>1
      <3> QED BY <3>2 DEF z
    <2>2. \A i \in 1..(BLK * r) : u[BLK * 0 + i] = Enc(k, t)[BLK * P + i]
      BY <1>4, <2>1
    <2> QED BY <1>1, <1>2, <1>3, <2>2 DEF Carries
  <1>8. Plaintext(u, 0) = [j \in 1..r |-> t[P + j]]
    BY <1>1, <1>2, <1>7, PlaintextOf
  <1>9. [j \in 1..r |-> t[P + j]] = [j \in 1..r |-> d[j]]
    BY <1>5
  <1> QED BY <1>6, <1>8, <1>9, Zenon DEF u

\* A call on a handle opened for the other kind of transfer starts: it leaves
\* persist_iv torn if the handle was opened for reading.
LEMMA Refuses ==
  ASSUME NEW a \in Apps, NEW h \in Handles, call[a] = Idle, NEW g2, NEW c2,
         SeenAs(a, h, g2, OpenAt(a, h), c2), Cells' = Cells,
         PendingOf(c2, g2) = CallFor("refused", h, << >>, 0), Got(c2) = Got(Idle),
         g2.mode = handle[a][h].mode, g2.prev = Torn <=> g2.mode = "r",
         Store!Answers(a, TRUE, << >>)
  PROVE  Store!StoreNext
  <1> DEFINE x == OpenAt(a, h).pos \div BLK - Got(Idle) \div BLK
             u == Owner(a, h)
             md == g2.mode
             z == (handle[a][h].prev = Torn)
             z2 == (g2.prev = Torn)
             y == (Cursor[a][h].mode = "r")
  <1>1. /\ Cursor' = WithCursor(a, h, CursorRec(u, md, x, z2))
        /\ Cursor[a][h] = CursorRec(u, md, x, z)
        /\ Cursor[a][h] # Store!NoCursor
        /\ Pending' = [Pending EXCEPT ![a] = PendingOf(c2, g2)]
    BY DEF SeenAs, WithCursor
  <1>2. y = z2 /\ y \in BOOLEAN /\ z \in BOOLEAN
    BY <1>1 DEF CursorRec
  <1> HIDE DEF x, u, md, z, z2, y
  <1>3. WithSpoilt(a, h, y) = WithCursor(a, h, CursorRec(u, md, x, y))
    BY <1>1, <1>2, CursorSpoilt
  <1>4. Cursor' = WithSpoilt(a, h, y)
    BY <1>1, <1>2, <1>3
  <1>5. Cursor' = [Cursor EXCEPT ![a][h].spoilt = (Cursor[a][h].mode = "r")]
    BY <1>4 DEF WithSpoilt, y
  <1>6. Store!StartWrong(a, h)
    BY <1>1, <1>5 DEF Store!StartWrong, Store!Calls, CallFor
  <1>7. Pending[a] = Store!NoCall
    BY Mapped, Zenon DEF PendingOf
  <1> QED BY <1>6, <1>7, Zenon DEF Store!StoreNext

\* TEE_WriteObjectData up to the first ocall.
LEMMA WriteStartMaps ==
  ASSUME Safe, DescriptorsOwned, StepInv, NEW a \in Apps, NEW h \in Handles,
         NEW n \in 0..MaxBlocks, NEW d \in [1..n -> Data], TEE_WriteObjectData(a, h, d)
  PROVE  Store!StoreNext
  <1> DEFINE g == handle[a][h]
             k == KeyOf(a, h)
             w == g.mode = "w" /\ g.prev.key = k
             s == g.prev.chain
             c == [op |-> "write", h |-> h, offset |-> 0, count |-> BLK * Len(d),
                   buf |-> IF w THEN Encrypt(k, s, d)
                           ELSE [i \in 1..(BLK * Len(d)) |-> Hole]]
             g2 == IF w THEN Chained(g, [key |-> k, chain |-> s \o d]) ELSE Chained(g, Torn)
             o == OpenAt(a, h)
  <1>0. RetOK
    BY TypeParts DEF Safe
  <1>1. Live(a, h) /\ call[a] = Idle /\ UNCHANGED <<file, fdt>>
    BY DEF TEE_WriteObjectData, Running, hostVars
  <1>2. g \in HandleRec /\ k \in Keys
    BY <1>1, LiveParts
  <1>3. s \in Chains /\ g.mode \in {"r", "w"} /\ d \in Chains /\ Len(d) = n
    <2>1. d \in Chains
      <3>1. n \in Nat
        OBVIOUS
      <3> QED BY <3>1, SeqDef DEF Chains
    <2>2. Len(d) = n
      OBVIOUS
    <2> QED BY <1>2, <2>1, <2>2 DEF HandleRec, Block, Modes
  <1>4. InStep(g, o, file[o.name], Idle, k)
    BY <1>1, IdleInStep
  <1>5. g.mode = "w" => w
    BY <1>4 DEF InStep, Writer
  <1>6. Pending[a] = Store!NoCall
    BY <1>1, Mapped, Zenon DEF PendingOf
  <1>7. CASE d = << >>
    <2>1. call' = call /\ Return(a, Returned("SUCCESS"))
      BY <1>7 DEF TEE_WriteObjectData
    <2>2. handle' = [handle EXCEPT ![a][h] = g]
      BY <1>7 DEF TEE_WriteObjectData
    <2>3. handle' = handle
      BY <1>1, <2>2, SameHost
    <2>4. Store!Answers(a, "SUCCESS" = "SUCCESS", << >>)
      BY <1>0, <2>1, PlainResult
    <2> QED BY <1>1, <2>1, <2>3, <2>4, ImmediateMaps
  <1>8. CASE d # << >>
    <2>1. handle' = [handle EXCEPT ![a][h] = g2]
      BY <1>8 DEF TEE_WriteObjectData
    <2>2. call' = [call EXCEPT ![a] = c] /\ Return(a, NoResult)
      BY <1>8 DEF TEE_WriteObjectData
    <2>3. /\ g2.st = "open" /\ g2.id = g.id /\ g2.desc = g.desc /\ g2.mode = g.mode
          /\ g2.prev = IF w THEN [key |-> k, chain |-> s \o d] ELSE Torn
      BY <1>1 DEF Chained, Live
    <2>4. c.op = "write" /\ c.h = h /\ c.offset = 0 /\ c # Idle
      BY IdleParts
    <2>5. w => c.buf = Encrypt(k, s, d)
      OBVIOUS
    <2>6. fdt' = [fdt EXCEPT ![a][g.desc] = o]
      BY <1>1, SameHost
    <2>7. Store!Answers(a, TRUE, << >>)
      <3>1. Store!Answers(a, "SUCCESS" = "SUCCESS", << >>)
        BY <1>0, <2>2, PlainResult DEF NoResult
      <3> QED BY <3>1
    <2> HIDE DEF g2, c
    <2>8. /\ SeenAs(a, h, g2, o, c)
          /\ Cursor' = [Cursor EXCEPT ![a][h] =
                 CursorRec(Owner(a, h), g2.mode, o.pos \div BLK - Got(c) \div BLK, g2.prev = Torn)]
          /\ Pending' = [Pending EXCEPT ![a] = PendingOf(c, g2)]
          /\ Cursor[a][h] = CursorRec(Owner(a, h), g.mode, o.pos \div BLK - Got(Idle) \div BLK,
                                      g.prev = Torn)
          /\ Cursor[a][h] # Store!NoCursor
      <3>1. SeenAs(a, h, g2, o, c)
        BY <1>1, <2>1, <2>2, <2>3, <2>4, <2>6, OneHandleSeen
      <3> QED BY <1>1, <3>1 DEF SeenAs
    <2>9. Got(c) = Got(Idle) /\ Cells' = Cells
      BY <1>1, <2>4, CellsSame, IdleParts DEF Got
    <2>10. CASE g.mode = "w"
      <3>1. PendingOf(c, g2) = CallFor("write", h, d, 0)
        <4>1. Plaintext(c.buf, c.offset) = d
          BY <1>2, <1>3, <1>5, <2>4, <2>5, <2>10, Encrypted
        <4> QED BY <2>3, <2>4, <2>10, <4>1 DEF PendingOf, Fits
      <3>2. (g2.prev = Torn) = (g.prev = Torn)
        <4>1. g2.prev # Torn
          BY <1>2, <1>5, <2>3, <2>10, ChainNotTorn
        <4>2. g.prev # Torn
          BY <1>2, <1>5, <2>10 DEF Torn, Keys
        <4> QED BY <4>1, <4>2
      <3>3. Cursor' = Cursor
        <4> DEFINE x == o.pos \div BLK - Got(c) \div BLK
        <4>1. /\ Cursor' = [Cursor EXCEPT ![a][h] =
                                CursorRec(Owner(a, h), g2.mode, x, g2.prev = Torn)]
              /\ Cursor[a][h] = CursorRec(Owner(a, h), g.mode, x, g.prev = Torn)
          BY <2>8, <2>9
        <4> HIDE DEF x
        <4>2. Cursor' = [Cursor EXCEPT ![a][h] = Cursor[a][h]]
          BY <2>3, <3>2, <4>1
        <4> QED BY <4>2, CursorBack
      <3>4. Cursor[a][h].mode = "w"
        BY <2>8, <2>10 DEF CursorRec
      <3>5. Store!StartWrite(a, h, d)
        BY <2>7, <2>8, <2>9, <3>1, <3>3, <3>4 DEF Store!StartWrite, Store!Calls, CallFor
      <3>6. n \in 1..MaxBlocks
        BY <1>3, <1>8
      <3> QED BY <1>6, <3>5, <3>6, Zenon DEF Store!StoreNext
    <2>11. CASE g.mode = "r"
      <3>1. PendingOf(c, g2) = CallFor("refused", h, << >>, 0)
        BY <2>3, <2>4, <2>11 DEF PendingOf, Fits
      <3>2. g2.prev = Torn /\ g2.mode = "r"
        BY <2>3, <2>11
      <3> QED BY <1>1, <2>3, <2>7, <2>8, <2>9, <3>1, <3>2, Refuses
    <2> QED BY <1>3, <2>10, <2>11
  <1> QED BY <1>7, <1>8

\* TEE_ReadObjectData up to the first ocall.
LEMMA ReadStartMaps ==
  ASSUME Safe, DescriptorsOwned, StepInv, NEW a \in Apps, NEW h \in Handles,
         NEW n \in 0..MaxBlocks, TEE_ReadObjectData(a, h, n)
  PROVE  Store!StoreNext
  <1> DEFINE g == handle[a][h]
             k == KeyOf(a, h)
             c == [op |-> "read", h |-> h, offset |-> 0, count |-> BLK * n, buf |-> << >>]
             o == OpenAt(a, h)
  <1>0. RetOK
    BY TypeParts DEF Safe
  <1>1. Live(a, h) /\ call[a] = Idle /\ UNCHANGED <<file, fdt, handle>>
    BY DEF TEE_ReadObjectData, Running, hostVars
  <1>2. g \in HandleRec /\ k \in Keys /\ g.mode \in {"r", "w"}
    BY <1>1, LiveParts DEF HandleRec, Modes
  <1>3. InStep(g, o, file[o.name], Idle, k)
    BY <1>1, IdleInStep
  <1>4. CASE n = 0
    <2>1. call' = call /\ Return(a, Returned("SUCCESS"))
      BY <1>4 DEF TEE_ReadObjectData
    <2>2. Store!Answers(a, "SUCCESS" = "SUCCESS", << >>)
      BY <1>0, <2>1, PlainResult
    <2> QED BY <1>1, <2>1, <2>2, ImmediateMaps
  <1>5. CASE n # 0
    <2>1. call' = [call EXCEPT ![a] = c] /\ Return(a, NoResult)
      BY <1>5 DEF TEE_ReadObjectData
    <2>2. c.op = "read" /\ c.h = h /\ c.offset = 0 /\ c.count = BLK * n /\ c # Idle
      BY IdleParts
    <2>3. /\ fdt' = [fdt EXCEPT ![a][g.desc] = o]
          /\ handle' = [handle EXCEPT ![a][h] = g]
      BY <1>1, SameHost
    <2>4. Store!Answers(a, TRUE, << >>)
      <3>1. Store!Answers(a, "SUCCESS" = "SUCCESS", << >>)
        BY <1>0, <2>1, PlainResult DEF NoResult
      <3> QED BY <3>1
    <2>5. g.st = "open"
      BY <1>1 DEF Live
    <2> HIDE DEF c
    <2>6. SeenAs(a, h, g, o, c)
      BY <1>1, <2>1, <2>2, <2>3, <2>5, OneHandleSeen
    <2>7. Got(c) = Got(Idle) /\ Cells' = Cells
      BY <1>1, <2>2, CellsSame, IdleParts DEF Got
    <2>8. CASE g.mode = "r"
      <3>1. PendingOf(c, g) = CallFor("read", h, << >>, n)
        <4>1. c.count \div BLK = n
          <5>1. n \in Nat
            OBVIOUS
          <5> QED BY <2>2, <5>1, Units
        <4> QED BY <2>2, <2>8, <4>1 DEF PendingOf, Fits
      <3>2. Cursor' = Cursor
        <4>1. Cursor' = [Cursor EXCEPT ![a][h] = Cursor[a][h]]
          BY <1>1, <2>6, <2>7 DEF SeenAs
        <4> QED BY <4>1, CursorBack
      <3>3. /\ Cursor[a][h].mode = "r" /\ Cursor[a][h] # Store!NoCursor
            /\ Pending' = [Pending EXCEPT ![a] = PendingOf(c, g)]
        BY <2>6, <2>8 DEF SeenAs, CursorRec
      <3>4. Store!StartRead(a, h, n)
        BY <2>4, <2>7, <3>1, <3>2, <3>3 DEF Store!StartRead, Store!Calls, CallFor
      <3>5. n \in 1..MaxBlocks
        BY <1>5
      <3>6. Pending[a] = Store!NoCall
        BY <1>1, Mapped, Zenon DEF PendingOf
      <3> QED BY <3>4, <3>5, <3>6, Zenon DEF Store!StoreNext
    <2>9. CASE g.mode = "w"
      <3>1. PendingOf(c, g) = CallFor("refused", h, << >>, 0)
        BY <2>2, <2>9 DEF PendingOf, Fits
      <3>2. g.prev # Torn
        BY <1>2, <1>3, <2>9 DEF InStep, Writer, Torn, Keys
      <3> QED BY <1>1, <2>4, <2>6, <2>7, <2>9, <3>1, <3>2, Refuses
    <2> QED BY <1>2, <2>8, <2>9
  <1> QED BY <1>4, <1>5

(***************************************************************************)
(*              Handles that come and go, and instances that end           *)
(***************************************************************************)

\* A process between calls has nothing pending.
LEMMA NothingPending ==
  ASSUME NEW a \in Apps, call[a] = Idle
  PROVE  Pending[a] = Store!NoCall
  BY Mapped, Zenon DEF PendingOf

\* The end of an instance.
LEMMA LeaveMaps ==
  ASSUME Safe, NEW a \in Apps, NEW how, LeaveInstance(a, how), file' = file,
         \A b \in Apps \ {a} : fdt'[b] = fdt[b]
  PROVE  Store!StoreNext
  <1>0. HandlesOK /\ CallsOK /\ RetOK
    BY TypeParts DEF Safe
  <1>1. /\ handle' = [handle EXCEPT ![a] = [h \in Handles |-> NULL]]
        /\ call' = [call EXCEPT ![a] = Idle] /\ Return(a, NoResult)
    BY DEF LeaveInstance
  <1>2. /\ \A h \in Handles : ~Live(a, h)'
        /\ \A b \in Apps : b # a => handle'[b] = handle[b] /\ call'[b] = call[b]
        /\ call'[a] = Idle
    BY <1>0, <1>1 DEF HandlesOK, CallsOK, Live, NULL
  <1>3. ASSUME NEW b \in Apps, NEW i \in Handles
        PROVE  CursorAt(b, i)' = IF b = a THEN Store!NoCursor ELSE CursorAt(b, i)
    <2>1. CASE b = a
      BY <1>2, <2>1 DEF CursorAt
    <2>2. CASE b # a
      <3>1. BlocksTaken(b, i)' = BlocksTaken(b, i)
        BY <1>2, <2>2 DEF BlocksTaken
      <3> QED BY <1>2, <2>2, <3>1, CursorKept
    <2> QED BY <2>1, <2>2
  <1>4. Cursor' = [Cursor EXCEPT ![a] = [h \in Handles |-> Store!NoCursor]]
    <2> DEFINE X(b, i) == CursorAt(b, i)
               Y(b, i) == CursorAt(b, i)'
               v == Cursor'
    <2>1. Cursor = [b \in Apps |-> [i \in Handles |-> X(b, i)]]
      BY Mapped, Zenon
    <2>2. v = [b \in Apps |-> [i \in Handles |-> Y(b, i)]]
      BY Zenon DEF Cursor, CursorAt, CursorRec, OpenAt, Store!NoCursor
    <2>3. \A b \in Apps : \A i \in Handles : Y(b, i) = IF b = a THEN Store!NoCursor ELSE X(b, i)
      BY <1>3
    <2> HIDE DEF X, Y, v
    <2>4. v = [Cursor EXCEPT ![a] = [h \in Handles |-> Store!NoCursor]]
      BY <2>1, <2>2, <2>3
    <2> QED BY <2>4 DEF v
  <1>5. Pending' = [Pending EXCEPT ![a] = Store!NoCall]
    <2>1. Pending' = [Pending EXCEPT ![a] = PendingOf(call'[a], handle'[a][call'[a].h])]
      BY <1>2, PendingOne
    <2>2. PendingOf(call'[a], handle'[a][call'[a].h]) = Store!NoCall
      BY <1>2, Zenon DEF PendingOf
    <2> QED BY <2>1, <2>2
  <1>6. Store!Answers(a, TRUE, << >>)
    <2>1. Store!Answers(a, "SUCCESS" = "SUCCESS", << >>)
      BY <1>0, <1>1, PlainResult DEF NoResult
    <2> QED BY <2>1
  <1>7. Store!Leave(a)
    BY <1>4, <1>5, <1>6, CellsSame DEF Store!Leave
  <1> QED BY <1>7, Zenon DEF Store!StoreNext

\* TEE_CloseObject: the cursor is gone.
LEMMA CloseMaps ==
  ASSUME Safe, DescriptorsOwned, ~DoubleClose, NEW a \in Apps, NEW h \in Handles,
         TEE_CloseObject(a, h)
  PROVE  Store!StoreNext
  <1>0. HostOK /\ HandlesOK /\ CallsOK /\ RetOK
    BY TypeParts DEF Safe
  <1> DEFINE fd == handle[a][h].desc
  <1>1. Live(a, h) /\ fd \in Fds /\ call[a] = Idle
    BY <1>0 DEF TEE_CloseObject, HandlesOK, Running
  <1>2. PICK rv \in {0, -1}, f \in 0..1 :
          /\ ocall_close_file(a, fd, rv, f)
          /\ \/ TEE_Panic(a)
             \/ /\ handle' = [handle EXCEPT ![a][h] = Closed(fd)] /\ call' = call
                /\ Return(a, Returned("SUCCESS"))
    BY DEF TEE_CloseObject
  <1>3. file' = file /\ (fdt' = fdt \/ fdt' = [fdt EXCEPT ![a][fd] = ClosedFd])
    BY <1>2 DEF ocall_close_file
  <1>4. /\ \A b \in Apps : \A d \in Fds : (b # a \/ d # fd) => fdt'[b][d] = fdt[b][d]
        /\ \A b \in Apps \ {a} : fdt'[b] = fdt[b]
    BY <1>0, <1>1, <1>3 DEF HostOK
  <1>5. CASE TEE_Panic(a)
    BY <1>3, <1>4, <1>5, LeaveMaps DEF TEE_Panic
  <1>6. CASE /\ handle' = [handle EXCEPT ![a][h] = Closed(fd)] /\ call' = call
             /\ Return(a, Returned("SUCCESS"))
    <2>1. /\ ~Live(a, h)'
          /\ \A b \in Apps : \A i \in Handles : (b # a \/ i # h) => handle'[b][i] = handle[b][i]
          /\ \A b \in Apps : b # a => handle'[b] = handle[b]
      BY <1>0, <1>6 DEF HandlesOK, Closed, Live
    <2>2. ASSUME NEW b \in Apps, NEW i \in Handles, b # a \/ i # h
          PROVE  CursorAt(b, i)' = CursorAt(b, i)
      <3>1. ASSUME Live(b, i) PROVE fdt'[b][handle[b][i].desc] = fdt[b][handle[b][i].desc]
        <4>1. handle[b][i].desc \in Fds /\ (b # a \/ handle[b][i].desc # fd)
          BY <1>1, <2>2, <3>1, LiveParts DEF DescriptorsOwned
        <4> QED BY <1>4, <4>1
      <3>2. BlocksTaken(b, i)' = BlocksTaken(b, i)
        BY <1>6 DEF BlocksTaken
      <3> QED BY <2>1, <2>2, <3>1, <3>2, CursorKept
    <2>3. Cursor' = [Cursor EXCEPT ![a][h] = Store!NoCursor]
      <3>1. Cursor' = [Cursor EXCEPT ![a][h] = CursorAt(a, h)']
        BY <2>2, CursorOne
      <3>2. CursorAt(a, h)' = Store!NoCursor
        BY <2>1 DEF CursorAt
      <3> QED BY <3>1, <3>2
    <2>4. Pending' = Pending
      BY <1>1, <1>6, <2>1, PendingSame
    <2>5. Store!Answers(a, TRUE, << >>)
      <3>1. Store!Answers(a, "SUCCESS" = "SUCCESS", << >>)
        BY <1>0, <1>6, PlainResult
      <3> QED BY <3>1
    <2>6. Store!Close(a, h)
      BY <1>3, <2>3, <2>4, <2>5, CellsSame DEF Store!Close
    <2> QED BY <1>1, <2>6, NothingPending, Zenon DEF Store!StoreNext
  <1> QED BY <1>2, <1>5, <1>6

\* An empty file holds no blocks for anybody.
LEMMA NothingStored ==
  ASSUME NEW o \in Keys
  PROVE  Stored(o, << >>) = << >>
  <1>1. << >> \in Seq(Unit) /\ NumBlocks(<< >>) = 0
    <2>1. BLK * 0 = 0 /\ (BLK * 0) \div BLK = 0
      BY Units
    <2> QED BY <2>1 DEF NumBlocks
  <1>2. Stored(o, << >>) = [j \in 1..0 |-> CellOf(o, << >>, j)]
    BY <1>1, StoredParts
  <1> QED BY <1>2

\* TEE_CreatePersistentObject and TEE_OpenPersistentObject: refused, or a new
\* cursor at the start of the object, which is empty if the open truncates.
LEMMA OpenMaps ==
  ASSUME Safe, DescriptorsOwned, Exclusive, MaxFaults = 0,
         NEW a \in Apps, NEW id \in ObjectIDs, NEW flags \in OpenArgs,
         NEW ocreat \in BOOLEAN, OpenPersistentObject(a, id, flags, ocreat)
  PROVE  Store!StoreNext
  <1>0. HostOK /\ HandlesOK /\ CallsOK /\ RetOK
    BY TypeParts DEF Safe
  <1> DEFINE of == flags2flags(flags, ocreat)
             md == IF flags.write THEN "w" ELSE "r"
             n == FileOf[id]
             k == set_object_key(a, id)
             g2(desc) == [st |-> "open", id |-> id, desc |-> desc, mode |-> md, prev |-> IV(k)]
             o2 == [name |-> n, pos |-> 0, mode |-> of.mode]
             own == <<TaOf[a], id>>
  <1>1. n \in Names /\ n # NoFile /\ md \in {"r", "w"} /\ flags.overwrite \in BOOLEAN
        /\ of.trunc = flags.overwrite
    BY DEF OpenArgs, flags2flags
  <1>2. k = own /\ own \in Keys /\ own[2] = id /\ IV(k) # Torn
    BY DEF set_object_key, Keys, IV, Torn
  <1> HIDE DEF of, md, n, k, own
  <1>3. PICK desc \in Fds \cup {-1}, f \in 0..1, x \in 0..1 :
          /\ ocall_open_file(a, n, of, desc, f)
          /\ Faults(f + x)
          /\ \/ /\ desc < 0 /\ x = 0
                /\ OpenFails(a, "ACCESS_DENIED")
             \/ /\ desc >= 0 /\ x = 1
                /\ OpenFails(a, "SECURITY")
             \/ /\ desc >= 0 /\ x = 0
                /\ \E h \in Handles :
                   /\ handle[a][h].st # "open"
                   /\ handle' = [handle EXCEPT ![a][h] = g2(desc)]
                /\ Return(a, Returned("SUCCESS"))
    BY DEF OpenPersistentObject, of, md, n, k
  <1>4. x = 0 /\ call' = call /\ call[a] = Idle
    <2>1. f + x = 0
      BY <1>3, NoFaults
    <2> QED BY <2>1 DEF OpenPersistentObject, Running
  <1>5. \A b \in Apps, fd \in Fds : fdt[b][fd].name # n
    BY DEF OpenPersistentObject, MayOpen, n
  <1> HIDE DEF g2, o2
  <1>6. CASE desc < 0 /\ OpenFails(a, "ACCESS_DENIED")
    <2>1. UNCHANGED <<file, fdt, handle>>
      BY <1>3, <1>6 DEF ocall_open_file, LowestFree, FreeFds, Fds, OpenFails
    <2>2. Store!Answers(a, "ACCESS_DENIED" = "SUCCESS", << >>)
      BY <1>0, <1>6, PlainResult DEF OpenFails
    <2>3. Store!Answers(a, FALSE, << >>)
      BY <2>2
    <2> QED BY <1>4, <2>1, <2>3, ImmediateMaps
  <1>7. CASE /\ desc >= 0 /\ Return(a, Returned("SUCCESS"))
             /\ \E h \in Handles :
                   /\ handle[a][h].st # "open"
                   /\ handle' = [handle EXCEPT ![a][h] = g2(desc)]
    <2>1. PICK h \in Handles :
             /\ handle[a][h].st # "open"
             /\ handle' = [handle EXCEPT ![a][h] = g2(desc)]
      BY <1>7
    <2>2. /\ desc \in FreeFds(a)
          /\ file' = IF flags.overwrite THEN [file EXCEPT ![n] = << >>] ELSE file
          /\ fdt' = [fdt EXCEPT ![a][desc] = o2]
      BY <1>1, <1>3, <1>7 DEF ocall_open_file, LowestFree, o2
    <2>3. desc \in Fds /\ fdt[a][desc].name = NoFile
      BY <2>2 DEF FreeFds
    <2>4. /\ fdt'[a][desc] = o2 /\ o2.pos = 0
          /\ \A b \in Apps : \A d \in Fds : (b # a \/ d # desc) => fdt'[b][d] = fdt[b][d]
      BY <1>0, <2>2, <2>3 DEF HostOK, o2
    <2>5. /\ handle'[a][h] = g2(desc)
          /\ \A b \in Apps : \A i \in Handles : (b # a \/ i # h) => handle'[b][i] = handle[b][i]
          /\ \A b \in Apps : b # a => handle'[b] = handle[b]
      BY <1>0, <2>1 DEF HandlesOK
    <2>6. ASSUME NEW b \in Apps, NEW i \in Handles, b # a \/ i # h
          PROVE  CursorAt(b, i)' = CursorAt(b, i)
      <3>1. ASSUME Live(b, i) PROVE fdt'[b][handle[b][i].desc] = fdt[b][handle[b][i].desc]
        <4>1. handle[b][i].desc \in Fds /\ fdt[b][handle[b][i].desc].name # NoFile
          BY <3>1, LiveParts DEF IsOpen
        <4>2. b # a \/ handle[b][i].desc # desc
          BY <2>3, <4>1
        <4> QED BY <2>4, <4>1, <4>2
      <3>2. BlocksTaken(b, i)' = BlocksTaken(b, i)
        BY <1>4 DEF BlocksTaken
      <3> QED BY <2>5, <2>6, <3>1, <3>2, CursorKept
    <2>7. Cursor' = [Cursor EXCEPT ![a][h] =
                        [owner |-> own, mode |-> md, at |-> 0, spoilt |-> FALSE]]
      <3>1. Cursor' = [Cursor EXCEPT ![a][h] = CursorAt(a, h)']
        BY <2>6, CursorOne
      <3>2. 0 \div BLK - 0 = 0
        <4>1. BLK * 0 = 0 /\ (BLK * 0) \div BLK = 0
          BY Units
        <4> QED BY <4>1
      <3>3. Live(a, h)' /\ Owner(a, h)' = own /\ OpenAt(a, h)'.pos = 0
            /\ handle'[a][h].mode = md /\ handle'[a][h].prev # Torn
        BY <1>2, <2>4, <2>5 DEF Live, Owner, OpenAt, g2, own
      <3>4. BlocksTaken(a, h)' = 0
        BY <1>4, IdleParts DEF BlocksTaken
      <3>5. CursorAt(a, h)' = [owner |-> own, mode |-> md, at |-> 0, spoilt |-> FALSE]
        BY <3>2, <3>3, <3>4 DEF CursorAt, CursorRec
      <3> QED BY <3>1, <3>5
    <2>8. Pending' = Pending
      BY <1>4, <2>5, PendingSame
    <2>9. Cells' = [p \in Keys |-> IF flags.overwrite /\ FileOf[p[2]] = FileOf[own[2]]
                                    THEN << >> ELSE Cells[p]]
      <3>1. Cells' = [p \in Keys |-> Stored(p, file'[FileOf[p[2]]])]
        BY Zenon DEF Cells, Stored
      <3>2. ASSUME NEW p \in Keys
            PROVE  Stored(p, file'[FileOf[p[2]]]) =
                      IF flags.overwrite /\ FileOf[p[2]] = FileOf[own[2]]
                      THEN << >> ELSE Cells[p]
        <4>1. FileOf[p[2]] \in Names /\ FileOf[own[2]] = n
          BY <1>2 DEF Keys, n
        <4>2. Cells[p] = Stored(p, file[FileOf[p[2]]])
          BY Mapped, Zenon
        <4>3. file'[FileOf[p[2]]] = IF flags.overwrite /\ FileOf[p[2]] = n
                                    THEN << >> ELSE file[FileOf[p[2]]]
          BY <1>0, <2>2, <4>1 DEF HostOK
        <4> QED BY <4>1, <4>2, <4>3, NothingStored
      <3> QED BY <3>1, <3>2, Zenon
    <2>10. Store!Answers(a, TRUE, << >>)
      <3>1. Store!Answers(a, "SUCCESS" = "SUCCESS", << >>)
        BY <1>0, <1>7, PlainResult
      <3> QED BY <3>1
    <2>11. Store!Open(a, h, own, md, flags.overwrite)
      <3>1. Cells' = [p \in Keys |->
                IF flags.overwrite /\ [o \in Keys |-> FileOf[o[2]]][p] =
                                      [o \in Keys |-> FileOf[o[2]]][own]
                THEN << >> ELSE Cells[p]]
        <4>1. \A p \in Keys : [o \in Keys |-> FileOf[o[2]]][p] = FileOf[p[2]]
          OBVIOUS
        <4> DEFINE pl == [o \in Keys |-> FileOf[o[2]]]
        <4> HIDE DEF pl
        <4>2. \A p \in Keys : FileOf[p[2]] = pl[p]
          BY <4>1 DEF pl
        <4>3. Cells' = [p \in Keys |-> IF flags.overwrite /\ pl[p] = pl[own]
                                       THEN << >> ELSE Cells[p]]
          BY <1>2, <2>9, <4>2
        <4> QED BY <4>3 DEF pl
      <3> QED BY <2>7, <2>8, <2>10, <3>1 DEF Store!Open
    <2>12. \E i \in Handles, o \in Keys, mode \in {"r", "w"}, trunc \in BOOLEAN :
              Store!Open(a, i, o, mode, trunc)
      <3> DEFINE t == flags.overwrite
      <3>1. t \in BOOLEAN /\ own \in Keys /\ md \in {"r", "w"} /\ Store!Open(a, h, own, md, t)
        BY <1>1, <1>2, <2>11
      <3> HIDE DEF t
      <3> QED BY <3>1
    <2> QED BY <1>4, <2>12, NothingPending, Zenon DEF Store!StoreNext
  <1>8. ~(x = 1)
    BY <1>4
  <1> QED BY <1>3, <1>6, <1>7, <1>8, Zenon

(***************************************************************************)
(*                          A pass of the write loop                       *)
(***************************************************************************)

\* What a pass of ocall_write_file_full does to the state, without faults.
LEMMA WriteLoopParts ==
  ASSUME Safe, DescriptorsOwned, StepInv, MaxFaults = 0, NEW a \in Apps,
         ocall_write_file_full(a)
  PROVE  LET c == call[a]
             g == handle[a][c.h]
             o == OpenAt(a, c.h)
             f == file[o.name]
             L == Clamp(c.count - c.offset)
         IN /\ handle' = handle
            /\ \/ /\ g.mode = "r" /\ UNCHANGED <<file, fdt>>
                  /\ call' = [call EXCEPT ![a] = Idle] /\ Return(a, Returned("GENERIC"))
               \/ /\ g.mode = "w" /\ L = 0 /\ UNCHANGED <<file, fdt>>
                  /\ call' = [call EXCEPT ![a] = Idle] /\ Return(a, Returned("SUCCESS"))
               \/ /\ g.mode = "w" /\ L # 0 /\ ret' = ret
                  /\ call' = [call EXCEPT ![a] = Moved(c, L, c.buf)]
                  /\ fdt' = [fdt EXCEPT ![a][g.desc] = Advance(o, L)]
                  /\ \E d : /\ IsChunk(d, c, L)
                            /\ file' = [file EXCEPT ![o.name] = Splice(f, o.pos, d)]
  <1> DEFINE c == call[a]
             h == c.h
             g == handle[a][h]
             o == OpenAt(a, h)
             f == file[o.name]
             L == Clamp(c.count - c.offset)
             chunk == SubSeq(c.buf, c.offset + 1, c.offset + L)
  <1>1. c.op = "write" /\ handle' = handle
    BY DEF ocall_write_file_full
  <1>2. /\ h \in Handles /\ Live(a, h) /\ c.buf \in Seq(Unit)
        /\ c.count \in Nat /\ c.offset \in Nat /\ c.offset <= c.count
        /\ Len(c.buf) = c.count /\ Whole(c.offset) /\ Whole(c.count)
        /\ InStep(g, o, f, c, KeyOf(a, h))
    BY <1>1, CallParts
  <1>3. /\ o \in OpenFile /\ o.name \in Names /\ o.mode = g.mode /\ o.pos \in Nat
        /\ f \in Seq(Unit) /\ IsOpen(a, g.desc) /\ g.mode \in {"r", "w"}
    BY <1>2, LiveParts DEF HandleRec, Modes
  <1>4. g.mode = "r" => c.offset = 0
    BY <1>1, <1>2 DEF InStep, Reader
  <1>5. PICK n \in -1..CAP, x \in 0..1 :
          /\ ocall_write_file256(a, g.desc, chunk, n, x)
          /\ Faults(x)
          /\ \/ /\ ~LoopEnds(n)
                /\ call' = [call EXCEPT ![a] = Moved(c, n, c.buf)]
                /\ UNCHANGED ret
             \/ /\ LoopEnds(n)
                /\ call' = [call EXCEPT ![a] = Idle]
                /\ Return(a, Returned(IF LoopResult(c.offset, n) < 0
                                      THEN "GENERIC" ELSE "SUCCESS"))
    BY DEF ocall_write_file_full
  <1>6. x = 0
    BY <1>5, NoFaults
  <1>7. /\ fdt = [fdt EXCEPT ![a][g.desc] = o] /\ file = [file EXCEPT ![o.name] = f]
    BY <1>1, <1>2, SameHost
  <1>8. L \in Nat /\ L <= c.count - c.offset /\ L <= CAP
    <2>1. c.count - c.offset \in Nat /\ Whole(c.count - c.offset)
      BY <1>2, WholeSums
    <2> QED BY <2>1, ClampWhole
  <1> HIDE DEF L, c, h, g, o, f
  <1>9. /\ chunk \in Seq(Unit) /\ Len(chunk) = L
        /\ \A i \in 1..L : chunk[i] = c.buf[c.offset + i]
    <2> DEFINE b == c.buf
               p == c.offset
    <2>1. b \in Seq(Unit) /\ p \in Nat /\ p + L <= Len(b)
      BY <1>2, <1>8
    <2> HIDE DEF b, p
    <2>2. /\ SubSeq(b, p + 1, p + L) \in Seq(Unit)
          /\ Len(SubSeq(b, p + 1, p + L)) = L
          /\ \A i \in 1..L : SubSeq(b, p + 1, p + L)[i] = b[p + i]
      BY <1>8, <2>1, Slice
    <2> QED BY <2>2 DEF b, p
  <1> HIDE DEF chunk
  <1>a. fdt[a][g.desc] = o
    BY DEF o, OpenAt, g
  <1>10. CASE g.mode = "r"
    <2>1. n = -1 /\ UNCHANGED <<file, fdt>>
      BY <1>3, <1>5, <1>10, <1>a DEF ocall_write_file256, Writable
    <2>2. LoopEnds(n) /\ LoopResult(c.offset, n) < 0
      BY <1>4, <1>10, <2>1 DEF LoopEnds, LoopResult
    <2>3. call' = [call EXCEPT ![a] = Idle] /\ Return(a, Returned("GENERIC"))
      BY <1>5, <2>2
    <2> QED BY <1>1, <1>10, <2>1, <2>3 DEF c, g, h
  <1>11. CASE g.mode = "w"
    <2>1. Writable(a, g.desc)
      BY <1>3, <1>11, <1>a DEF Writable
    <2>2. /\ n = L
          /\ file' = IF n = 0 THEN file
                     ELSE [file EXCEPT ![o.name] = Splice(f, o.pos, SubSeq(chunk, 1, n))]
          /\ fdt' = [fdt EXCEPT ![a][g.desc] = Advance(o, n)]
      BY <1>5, <1>6, <1>9, <1>a, <2>1 DEF ocall_write_file256, f
    <2>3. CASE L = 0
      <3>1. LoopEnds(n) /\ ~(LoopResult(c.offset, n) < 0)
        BY <1>2, <2>2, <2>3 DEF LoopEnds, LoopResult
      <3>2. call' = [call EXCEPT ![a] = Idle] /\ Return(a, Returned("SUCCESS"))
        BY <1>5, <3>1
      <3>3. Advance(o, 0) = o
        BY <1>3 DEF Advance, OpenFile
      <3>4. fdt' = fdt /\ file' = file
        BY <1>7, <2>2, <2>3, <3>3
      <3> QED BY <1>1, <1>11, <2>3, <3>2, <3>4 DEF c, g, h, L
    <2>4. CASE L # 0
      <3> DEFINE d == SubSeq(chunk, 1, L)
      <3>1. call' = [call EXCEPT ![a] = Moved(c, L, c.buf)] /\ ret' = ret
        BY <1>5, <1>8, <2>2, <2>4 DEF LoopEnds
      <3>2. /\ fdt' = [fdt EXCEPT ![a][g.desc] = Advance(o, L)]
            /\ file' = [file EXCEPT ![o.name] = Splice(f, o.pos, d)]
        BY <2>2, <2>4
      <3>3. IsChunk(d, c, L)
        <4>1. /\ SubSeq(chunk, 0 + 1, 0 + L) \in Seq(Unit)
              /\ Len(SubSeq(chunk, 0 + 1, 0 + L)) = L
              /\ \A i \in 1..L : SubSeq(chunk, 0 + 1, 0 + L)[i] = chunk[0 + i]
          BY <1>8, <1>9, Slice
        <4>2. 0 + 1 = 1 /\ 0 + L = L
          BY <1>8
        <4> QED BY <1>9, <4>1, <4>2 DEF IsChunk
      <3> HIDE DEF d
      <3> QED BY <1>1, <1>11, <2>4, <3>1, <3>2, <3>3, Zenon DEF c, g, h, L, o, f
    <2> QED BY <2>3, <2>4
  <1> QED BY <1>3, <1>10, <1>11

\* Moving the first m of what is left.
LEMMA RestMoves ==
  ASSUME NEW s, NEW P \in Nat, NEW r \in Nat, NEW m \in Nat, m <= r
  PROVE  LET rest == [j \in 1..r |-> s[P + j]] IN
         /\ Len(rest) = r
         /\ SubSeq(rest, 1, m) = [j \in 1..m |-> s[P + j]]
         /\ SubSeq(rest, m + 1, Len(rest)) = [j \in 1..(r - m) |-> s[(P + m) + j]]
  <1> DEFINE rest == [j \in 1..r |-> s[P + j]]
  <1>1. Len(rest) = r /\ \A j \in 1..r : rest[j] = s[P + j]
    OBVIOUS
  <1> HIDE DEF rest
  <1>2. SubSeq(rest, 1, m) = [j \in 1..m |-> s[P + j]]
    <2>1. SubSeq(rest, 1, m) = [j \in 1..m |-> rest[j]]
      OBVIOUS
    <2> QED BY <1>1, <2>1
  <1>3. SubSeq(rest, m + 1, r) = [j \in 1..(r - m) |-> s[(P + m) + j]]
    <2>1. SubSeq(rest, m + 1, r) = [j \in 1..(r - m) |-> rest[m + j]]
      OBVIOUS
    <2>2. ASSUME NEW j \in 1..(r - m) PROVE rest[m + j] = s[(P + m) + j]
      <3>1. m + j \in 1..r /\ P + (m + j) = (P + m) + j
        OBVIOUS
      <3> QED BY <1>1, <3>1
    <2> QED BY <2>1, <2>2
  <1> QED BY <1>1, <1>2, <1>3 DEF rest

\* The units of a pass are the next m blocks of the chain.
PassIs(g, o, f, c, k, L, d) ==
    LET P == o.pos \div BLK
        m == L \div BLK
    IN /\ P \in Nat /\ o.pos = BLK * P /\ m \in 1..(CAP \div BLK) /\ L = BLK * m
       /\ m <= (c.count - c.offset) \div BLK
       /\ Puts(k, g.prev.chain, f, P, m, d)

LEMMA PassPuts ==
  ASSUME NEW g, NEW o, NEW f \in Seq(Unit), NEW c, NEW k \in Keys, Writing(g, o, f, c, k),
         Whole(Len(f)),
         NEW L \in Nat, L <= c.count - c.offset, L <= CAP, Whole(L), L # 0,
         NEW d, IsChunk(d, c, L)
  PROVE  PassIs(g, o, f, c, k, L, d)
  <1> DEFINE s == g.prev.chain
             P == o.pos \div BLK
             m == L \div BLK
             R == c.count - c.offset
             r == R \div BLK
             E == Enc(k, s)
             p == o.pos
             y == c.offset
             u == c.buf
  <1>1. /\ p \in Nat /\ p <= Len(f) /\ Left(c) = R
        /\ \A i \in 1..p : f[i] = E[i]
        /\ \A i \in 1..R : u[y + i] = E[p + i]
        /\ c.offset \in Nat /\ c.count \in Nat /\ c.offset <= c.count
    BY DEF Writing, InStep, Writer, Left
  <1>2. R \in Nat /\ Whole(R) /\ Whole(CAP) /\ CAP \in Nat
    <2>1. Whole(c.offset) /\ Whole(c.count)
      BY DEF Writing, InStep
    <2>2. Whole(CAP)
      BY WholeQuotient
    <2> QED BY <1>1, <2>1, <2>2, WholeSums
  <1>3. /\ P \in Nat /\ r \in Nat /\ p = BLK * P /\ P + r = Len(s)
    BY ZenonT(60), RestOf DEF RestIs
  <1>4. m \in Nat /\ L = BLK * m /\ CAP \div BLK \in Nat
    BY <1>2, Blocks
  <1>5. m <= r /\ m <= CAP \div BLK
    BY <1>2, BlockSums
  <1>6. m # 0
    <2>1. m = 0 => BLK * m = 0
      <3>1. BLK * 0 = 0
        OBVIOUS
      <3> HIDE DEF m
      <3> QED BY <3>1
    <2> QED BY <1>4, <2>1
  <1>7. d \in Seq(Unit) /\ Len(d) = L /\ \A i \in 1..L : d[i] = u[y + i]
    BY DEF IsChunk
  <1> HIDE DEF s, P, m, R, r, E, p, y, u
  <1>8. P + m <= Len(s) /\ \A i \in 1..L : d[i] = E[p + i]
    <2>1. L <= R
      BY DEF R
    <2>2. ASSUME NEW i \in 1..L PROVE d[i] = E[p + i]
      <3>1. i \in 1..R
        BY <1>2, <2>1
      <3> QED BY <1>1, <1>7, <3>1
    <2>3. P + m <= Len(s)
      <3>1. Len(s) \in Nat
        BY <1>3
      <3> QED BY <1>3, <1>4, <1>5, <3>1
    <2> QED BY <2>2, <2>3
  <1>9. Puts(k, s, f, P, m, d)
    BY <1>1, <1>3, <1>4, <1>7, <1>8 DEF Puts, E
  <1>10. m \in 1..(CAP \div BLK)
    BY <1>4, <1>5, <1>6
  <1> QED BY <1>3, <1>4, <1>5, <1>9, <1>10 DEF s, P, m, r, R, p, PassIs

\* No block of a file is torn, and none becomes so.
NotTorn(f) == \A j \in 1..NumBlocks(f) : BlockAt(f, j) # Torn
NoTornBlocks == \A n \in Names : NotTorn(file[n])

LEMMA PutNotTorn ==
  ASSUME NEW k \in Keys, NEW s \in Chains, NEW f \in Seq(Unit), NEW P \in Nat, NEW m \in Nat,
         NEW d \in Seq(Unit), Puts(k, s, f, P, m, d), NotTorn(f)
  PROVE  NotTorn(Splice(f, BLK * P, d))
  <1> DEFINE f2 == Splice(f, BLK * P, d)
             F == NumBlocks(f)
             N == NumBlocks(f2)
  <1>1. /\ F \in Nat /\ P <= F /\ N = IF P + m > F THEN P + m ELSE F
        /\ \A j \in 1..(P + m) : BlockAt(f2, j) = ChainBlock(k, s, j)
        /\ \A j \in (P + m + 1)..F : BlockAt(f2, j) = BlockAt(f, j)
    BY PutBlocks
  <1>2. \A j \in 1..F : BlockAt(f, j) # Torn
    BY DEF NotTorn
  <1> HIDE DEF f2, F, N
  <1>3. ASSUME NEW j \in 1..N PROVE BlockAt(f2, j) # Torn
    <2>1. CASE j \in 1..(P + m)
      BY <1>1, <2>1, ChainNotTorn DEF ChainBlock
    <2>2. CASE j \notin 1..(P + m)
      <3>1. j \in (P + m + 1)..F /\ j \in 1..F
        BY <1>1, <2>2
      <3> QED BY <1>1, <1>2, <3>1
    <2> QED BY <2>1, <2>2
  <1> QED BY <1>3 DEF N, f2, NotTorn

\* The write that is left after a pass: m blocks fewer, from m blocks further on.
RestMoved(g, o, c, o2, c2, L) ==
    LET s == g.prev.chain
        P == o.pos \div BLK
        m == L \div BLK
        rest == Plaintext(c.buf, c.offset)
    IN /\ m \in Nat /\ P \in Nat /\ m <= Len(rest)
       /\ SubSeq(rest, 1, m) = [j \in 1..m |-> s[P + j]]
       /\ o2.pos \div BLK = P + m
       /\ Plaintext(c2.buf, c2.offset) = SubSeq(rest, m + 1, Len(rest))

LEMMA PassRest ==
  ASSUME NEW g, NEW o, NEW f \in Seq(Unit), NEW c, NEW k \in Keys, Writing(g, o, f, c, k),
         Whole(Len(f)), NEW L \in Nat, L <= c.count - c.offset, L <= CAP, Whole(L), L # 0,
         NEW d, IsChunk(d, c, L), NEW o2, NEW c2, MovedTo(c2, o2, c, o, L)
  PROVE  RestMoved(g, o, c, o2, c2, L)
  <1> DEFINE s == g.prev.chain
             P == o.pos \div BLK
             m == L \div BLK
             r == (c.count - c.offset) \div BLK
             rest == Plaintext(c.buf, c.offset)
             f2 == Splice(f, o.pos, d)
             P2 == o2.pos \div BLK
             r2 == (c2.count - c2.offset) \div BLK
             rest2 == Plaintext(c2.buf, c2.offset)
  <1>1. /\ P \in Nat /\ r \in Nat /\ P + r = Len(s) /\ o.pos = BLK * P
        /\ rest = [j \in 1..r |-> s[P + j]]
    BY RestOf DEF RestIs
  <1>2. m \in Nat /\ m <= r /\ L = BLK * m
    <2>1. PassIs(g, o, f, c, k, L, d)
      BY PassPuts
    <2> QED BY <2>1 DEF PassIs
  <1>3. /\ o2.pos = o.pos + L /\ c2.op = c.op /\ c2.buf = c.buf
        /\ c2.count = c.count /\ c2.offset = c.offset + L
    BY DEF MovedTo
  <1>4. Writing(g, o2, f2, c2, k)
    <2>1. /\ g.mode = "w" /\ c.op = "write" /\ InStep(g, o, f, c, k) /\ c.offset \in Nat
          /\ c.count \in Nat /\ c.offset <= c.count /\ Len(c.buf) = c.count /\ s \in Chains
      BY DEF Writing
    <2>2. InStep(g, o2, f2, c2, k)
      BY <2>1, WritePassStep
    <2> DEFINE q == c.offset
               N == c.count
    <2>3. q \in Nat /\ N \in Nat /\ L <= N - q
      BY <2>1
    <2> HIDE DEF q, N, f2
    <2>4. q + L \in Nat /\ q + L <= N
      BY <2>3
    <2>5. c2.offset = q + L /\ c2.count = N /\ Len(c2.buf) = N
      BY <1>3, <2>1 DEF q, N
    <2>6. c2.offset \in Nat /\ c2.count \in Nat /\ c2.offset <= c2.count /\ Len(c2.buf) = c2.count
      BY <2>3, <2>4, <2>5
    <2>7. c2.op = "write"
      BY <1>3, <2>1
    <2> QED BY <2>1, <2>2, <2>6, <2>7, Zenon DEF Writing
  <1>5. /\ P2 \in Nat /\ r2 \in Nat /\ P2 + r2 = Len(s)
        /\ rest2 = [j \in 1..r2 |-> s[P2 + j]]
    BY <1>4, RestOf DEF RestIs
  <1>6. P2 = P + m
    <2>1. BLK * (P + m) = BLK * P + BLK * m /\ (BLK * (P + m)) \div BLK = P + m
      <3>1. P \in Nat /\ m \in Nat /\ P + m \in Nat
        BY <1>1, <1>2
      <3> HIDE DEF P, m
      <3> QED BY <3>1, Units
    <2>2. o2.pos = BLK * (P + m)
      BY <1>1, <1>2, <1>3, <2>1
    <2> QED BY <2>1, <2>2
  <1> HIDE DEF s, P, m, r, rest, P2, r2, rest2, f2
  <1>7. r2 = r - m
    BY <1>1, <1>2, <1>5, <1>6
  <1>8. /\ Len(rest) = r /\ SubSeq(rest, 1, m) = [j \in 1..m |-> s[P + j]]
        /\ SubSeq(rest, m + 1, Len(rest)) = [j \in 1..(r - m) |-> s[(P + m) + j]]
    BY <1>1, <1>2, RestMoves
  <1>9. rest2 = SubSeq(rest, m + 1, Len(rest))
    BY <1>5, <1>6, <1>7, <1>8
  <1> QED BY <1>1, <1>2, <1>6, <1>8, <1>9 DEF RestMoved, s, P, m, rest, P2, rest2

\* What a changed file is to its owner, to those it shares its name with, and to
\* all others.
Place == [o \in Keys |-> FileOf[o[2]]]

CellsWith(k, at, d, x, e) ==
    [p \in Keys |->
        CASE p = k -> Store!Put(Cells[p], at, d, x)
          [] p # k /\ Place[p] = Place[k] -> Store!Put(Cells[p], at, e, Garbage)
          [] OTHER -> Cells[p]]

LEMMA CellsPut ==
  ASSUME HostOK, NEW k \in Keys, NEW f2, file' = [file EXCEPT ![FileOf[k[2]]] = f2],
         NEW at, NEW d, NEW x, NEW e,
         Stored(k, f2) = Store!Put(Stored(k, file[FileOf[k[2]]]), at, d, x),
         \A o \in Keys : o # k =>
             Stored(o, f2) = Store!Put(Stored(o, file[FileOf[k[2]]]), at, e, Garbage)
  PROVE  Cells' = CellsWith(k, at, d, x, e)
  <1> DEFINE n == FileOf[k[2]]
             C(p) == CASE p = k -> Store!Put(Cells[p], at, d, x)
                       [] p # k /\ Place[p] = Place[k] -> Store!Put(Cells[p], at, e, Garbage)
                       [] OTHER -> Cells[p]
  <1>1. Cells' = [p \in Keys |-> Stored(p, file'[FileOf[p[2]]])]
    BY Zenon DEF Cells, Stored
  <1>2. ASSUME NEW p \in Keys PROVE Stored(p, file'[FileOf[p[2]]]) = C(p)
    <2>1. FileOf[p[2]] \in Names /\ n \in Names
      BY DEF Keys
    <2>2. Cells[p] = Stored(p, file[FileOf[p[2]]])
      BY Mapped, Zenon
    <2>3. file'[FileOf[p[2]]] = IF FileOf[p[2]] = n THEN f2 ELSE file[FileOf[p[2]]]
      BY <2>1 DEF HostOK
    <2>4. Place[p] = FileOf[p[2]] /\ Place[k] = n
      BY DEF Place
    <2>5. CASE p = k
      BY <2>2, <2>3, <2>5
    <2>6. CASE p # k /\ Place[p] = Place[k]
      BY <2>2, <2>3, <2>4, <2>6
    <2>7. CASE p # k /\ Place[p] # Place[k]
      BY <2>2, <2>3, <2>4, <2>7
    <2> QED BY <2>5, <2>6, <2>7
  <1> QED BY <1>1, <1>2, Zenon DEF CellsWith

\* A write in progress with less to move.
WithRest(a, y) == [Pending EXCEPT ![a].rest = y]
WithCall(a, c) == [Pending EXCEPT ![a] = c]

LEMMA PendingRest ==
  ASSUME NEW a \in Apps, NEW op, NEW h, NEW rest, NEW want,
         Pending[a] = CallFor(op, h, rest, want), NEW y
  PROVE  WithRest(a, y) = WithCall(a, CallFor(op, h, y, want))
  <1> DEFINE r == Pending[a]
  <1>1. r = [op |-> op, h |-> h, rest |-> rest, want |-> want]
    BY DEF CallFor
  <1>2. [Pending EXCEPT ![a].rest = y] = [Pending EXCEPT ![a] = [r EXCEPT !.rest = y]]
    OBVIOUS
  <1> HIDE DEF r
  <1>3. [r EXCEPT !.rest = y] = [op |-> op, h |-> h, rest |-> y, want |-> want]
    BY <1>1
  <1> QED BY <1>2, <1>3 DEF CallFor, WithRest, WithCall

\* One pass of the loop of ocall_write_file_full is one step of the store.
LEMMA WriteLoopMaps ==
  ASSUME Safe, DescriptorsOwned, StepInv, NoTornBlocks, MaxFaults = 0, NEW a \in Apps,
         ocall_write_file_full(a)
  PROVE  Store!StoreNext /\ NoTornBlocks'
  <1> DEFINE c == call[a]
             h == c.h
             g == handle[a][h]
             o == OpenAt(a, h)
             f == file[o.name]
             k == KeyOf(a, h)
             L == Clamp(c.count - c.offset)
             rest == Plaintext(c.buf, c.offset)
             z == (g.prev = Torn)
             P == o.pos \div BLK
  <1>0. HostOK /\ HandlesOK /\ CallsOK /\ RetOK
    BY TypeParts DEF Safe
  <1>1. c.op = "write" /\ c # Idle
    BY IdleParts DEF ocall_write_file_full
  <1>2. /\ h \in Handles /\ Live(a, h) /\ c.buf \in Seq(Unit)
        /\ c.count \in Nat /\ c.offset \in Nat /\ c.offset <= c.count
        /\ Len(c.buf) = c.count /\ Whole(c.offset) /\ Whole(c.count)
        /\ InStep(g, o, f, c, k)
    BY <1>1, CallParts
  <1>3. /\ o \in OpenFile /\ o.name \in Names /\ o.pos \in Nat
        /\ f \in Seq(Unit) /\ g \in HandleRec /\ k \in Keys /\ g.mode \in {"r", "w"}
        /\ k = Owner(a, h) /\ FileOf[k[2]] = o.name
    BY <1>2, LiveParts
       DEF HandleRec, Modes, KeyOf, set_object_key, Owner, DescriptorsOwned, OpenAt
  <1>4. Whole(Len(f)) /\ g.prev.chain \in Chains
    BY <1>3 DEF StepInv, WholeFiles, HandleRec, Block
  <1>5. /\ L \in Nat /\ L <= c.count - c.offset /\ L <= CAP /\ Whole(L)
        /\ (L = 0 => c.count = c.offset)
    <2>1. c.count - c.offset \in Nat /\ Whole(c.count - c.offset)
      BY <1>2, WholeSums
    <2>2. /\ L \in Nat /\ L <= c.count - c.offset /\ L <= CAP /\ Whole(L)
          /\ (L = 0 => c.count - c.offset = 0)
      BY <2>1, ClampWhole
    <2> HIDE DEF L, c
    <2> QED BY <1>2, <2>2
  <1>6. /\ handle' = handle
        /\ \/ /\ g.mode = "r" /\ UNCHANGED <<file, fdt>>
              /\ call' = [call EXCEPT ![a] = Idle] /\ Return(a, Returned("GENERIC"))
           \/ /\ g.mode = "w" /\ L = 0 /\ UNCHANGED <<file, fdt>>
              /\ call' = [call EXCEPT ![a] = Idle] /\ Return(a, Returned("SUCCESS"))
           \/ /\ g.mode = "w" /\ L # 0 /\ ret' = ret
              /\ call' = [call EXCEPT ![a] = Moved(c, L, c.buf)]
              /\ fdt' = [fdt EXCEPT ![a][g.desc] = Advance(o, L)]
              /\ \E d : /\ IsChunk(d, c, L)
                        /\ file' = [file EXCEPT ![o.name] = Splice(f, o.pos, d)]
    BY WriteLoopParts, Zenon
  <1>7. /\ fdt = [fdt EXCEPT ![a][g.desc] = o] /\ handle' = [handle EXCEPT ![a][h] = g]
        /\ g.st = "open"
    <2>1. /\ fdt = [fdt EXCEPT ![a][g.desc] = o] /\ handle = [handle EXCEPT ![a][h] = g]
      BY SMTT(60), <1>2, SameHost
    <2> QED BY ZenonT(60), <1>2, <1>6, <2>1 DEF Live
  <1>8. call[a] = c /\ c.h = h /\ o = OpenAt(a, h) /\ g = handle[a][h] /\ k = KeyOf(a, h)
        /\ f = file[OpenAt(a, h).name]
    OBVIOUS
  <1>9. Got(c) = Got(Idle) /\ 0 \div BLK = 0 /\ Got(c) = 0
    <2>1. BLK * 0 = 0 /\ (BLK * 0) \div BLK = 0
      BY Units
    <2> QED BY <1>1, <2>1, IdleParts DEF Got
  <1>10. UNCHANGED file => Cells' = Cells /\ NoTornBlocks'
    BY CellsSame DEF NoTornBlocks
  <1> HIDE DEF L, c, h, g, o, f, k
  <1>11. ASSUME UNCHANGED <<file, fdt>>, call' = [call EXCEPT ![a] = Idle]
         PROVE  /\ Cursor' = Cursor /\ Pending' = [Pending EXCEPT ![a] = Store!NoCall]
                /\ Pending[a] = PendingOf(c, g)
    <2>1. fdt' = [fdt EXCEPT ![a][g.desc] = o]
      BY <1>7, <1>11
    <2>2. SeenAs(a, h, g, o, Idle)
      BY <1>2, <1>7, <1>8, <1>11, <2>1, OneHandleSeen
    <2>3. Cursor' = [Cursor EXCEPT ![a][h] = Cursor[a][h]]
      BY <1>8, <1>9, <2>2 DEF SeenAs
    <2>4. PendingOf(Idle, g) = Store!NoCall
      BY Zenon DEF PendingOf
    <2>5. Cursor' = Cursor
      BY <1>2, <2>3, CursorBack
    <2> QED BY <1>8, <2>2, <2>4, <2>5 DEF SeenAs
  <1>12. CASE /\ g.mode = "r" /\ UNCHANGED <<file, fdt>>
              /\ call' = [call EXCEPT ![a] = Idle] /\ Return(a, Returned("GENERIC"))
    <2>1. PendingOf(c, g).op = "refused"
      BY <1>1, <1>12 DEF PendingOf, Fits, CallFor
    <2>2. Store!Answers(a, FALSE, << >>)
      <3>1. Store!Answers(a, "GENERIC" = "SUCCESS", << >>)
        BY <1>0, <1>12, PlainResult
      <3> QED BY <3>1
    <2>3. Store!RefusedDone(a)
      BY <1>10, <1>11, <1>12, <2>1, <2>2 DEF Store!RefusedDone
    <2> QED BY <1>10, <1>12, <2>3, Zenon DEF Store!StoreNext
  <1>13. CASE /\ g.mode = "w" /\ L = 0 /\ UNCHANGED <<file, fdt>>
              /\ call' = [call EXCEPT ![a] = Idle] /\ Return(a, Returned("SUCCESS"))
    <2>1. PendingOf(c, g).op = "write" /\ PendingOf(c, g).rest = rest
      BY <1>1, <1>13 DEF PendingOf, Fits, CallFor
    <2>2. rest = << >>
      <3>1. c.count - c.offset = 0 /\ (c.count - c.offset) \div BLK = 0
        BY <1>2, <1>5, <1>9, <1>13
      <3>2. Writing(g, o, f, c, k)
        BY <1>1, <1>2, <1>4, <1>13 DEF Writing
      <3>3. RestIs(g, o, c)
        BY <1>3, <3>2, RestOf
      <3>4. rest = [j \in 1..0 |-> g.prev.chain[P + j]]
        BY <3>1, <3>3 DEF RestIs
      <3> QED BY <3>4
    <2>3. Store!Answers(a, TRUE, << >>)
      <3>1. Store!Answers(a, "SUCCESS" = "SUCCESS", << >>)
        BY <1>0, <1>13, PlainResult
      <3> QED BY <3>1
    <2>4. Store!WriteDone(a)
      BY <1>10, <1>11, <1>13, <2>1, <2>2, <2>3 DEF Store!WriteDone
    <2> QED BY <1>10, <1>13, <2>4, Zenon DEF Store!StoreNext
  <1>14. CASE /\ g.mode = "w" /\ L # 0 /\ ret' = ret
              /\ call' = [call EXCEPT ![a] = Moved(c, L, c.buf)]
              /\ fdt' = [fdt EXCEPT ![a][g.desc] = Advance(o, L)]
              /\ \E d : /\ IsChunk(d, c, L)
                        /\ file' = [file EXCEPT ![o.name] = Splice(f, o.pos, d)]
    <2> DEFINE c2 == Moved(c, L, c.buf)
               o2 == Advance(o, L)
               m == L \div BLK
               s == g.prev.chain
    <2>1. PICK d : IsChunk(d, c, L) /\ file' = [file EXCEPT ![o.name] = Splice(f, o.pos, d)]
      BY <1>14
    <2> DEFINE f2 == Splice(f, BLK * P, d)
               x == Behind(k, f2, P + m)
               e == [j \in 1..m |-> Garbage]
    <2>2. Writing(g, o, f, c, k)
      BY <1>1, <1>2, <1>4, <1>14 DEF Writing
    <2>3. /\ P \in Nat /\ o.pos = BLK * P /\ m \in 1..(CAP \div BLK)
          /\ Puts(k, s, f, P, m, d)
      BY <1>3, <1>4, <1>5, <1>14, <2>1, <2>2, PassPuts DEF PassIs
    <2>4. MovedTo(c2, o2, c, o, L) /\ c2.h = h /\ c2.op = "write"
      BY <1>1, <1>8 DEF MovedTo, Moved, Advance
    <2> HIDE DEF c2, o2
    <2>5. RestMoved(g, o, c, o2, c2, L)
      BY <1>3, <1>4, <1>5, <1>14, <2>1, <2>2, <2>4, PassRest
    <2>6. /\ m \in Nat /\ m <= Len(rest) /\ SubSeq(rest, 1, m) = [j \in 1..m |-> s[P + j]]
          /\ o2.pos \div BLK = P + m
          /\ Plaintext(c2.buf, c2.offset) = SubSeq(rest, m + 1, Len(rest))
      BY <2>5 DEF RestMoved
    <2>7. SeenAs(a, h, g, o2, c2)
      <3>1. fdt' = [fdt EXCEPT ![a][g.desc] = o2] /\ call' = [call EXCEPT ![a] = c2]
        BY <1>14 DEF c2, o2
      <3> QED BY <1>2, <1>7, <1>8, <2>4, <3>1, OneHandleSeen
    <2>8. d \in Seq(Unit) /\ file' = [file EXCEPT ![FileOf[k[2]]] = f2] /\ m > 0
      <3>1. Splice(f, o.pos, d) = f2 /\ m > 0
        BY <2>3
      <3> HIDE DEF f2
      <3> QED BY <1>3, <2>1, <3>1 DEF IsChunk
    <2> HIDE DEF P, m, s, rest, z
    <2>9. /\ Stored(k, f2) = Store!Put(Stored(k, f), P, [j \in 1..m |-> s[P + j]], x)
          /\ x \in Data \cup {Garbage}
          /\ \A p \in Keys : p # k =>
                Stored(p, f2) = Store!Put(Stored(p, f), P, e, Garbage)
      <3>1. s \in Chains
        BY <1>4 DEF s
      <3>2. d \in Seq(Unit) /\ Puts(k, s, f, P, m, d) /\ m > 0 /\ m \in Nat /\ P \in Nat
            /\ k \in Keys /\ f \in Seq(Unit)
        BY <1>3, <2>3, <2>6, <2>8
      <3>3. PutSeen(k, s, f, f2, P, m)
        BY <3>1, <3>2, PutCells
      <3> HIDE DEF f2
      <3> QED BY <3>3 DEF PutSeen
    <2> HIDE DEF f2, x, e
    <2>10. Cells' = CellsWith(k, P, SubSeq(rest, 1, m), x, e)
      <3>1. f = file[FileOf[k[2]]]
        BY <1>3, <1>8
      <3> DEFINE q == SubSeq(rest, 1, m)
      <3>2. Stored(k, f2) = Store!Put(Stored(k, f), P, q, x)
        BY <2>6, <2>9
      <3> HIDE DEF q
      <3>3. Stored(k, f2) = Store!Put(Stored(k, file[FileOf[k[2]]]), P, q, x)
            /\ \A p \in Keys : p # k =>
                 Stored(p, f2) = Store!Put(Stored(p, file[FileOf[k[2]]]), P, e, Garbage)
        BY <2>9, <3>1, <3>2
      <3>4. Cells' = CellsWith(k, P, q, x, e)
        BY ZenonT(60), <1>0, <1>3, <2>8, <3>3, CellsPut
      <3> QED BY <3>4 DEF q
    <2>11. /\ Cursor[a][h] = CursorRec(k, "w", P, z) /\ z \in BOOLEAN
           /\ Cursor' = WithCursor(a, h, CursorRec(k, "w", P + m, z))
      <3>1. Got(c2) = 0 /\ P - 0 = P /\ (P + m) - 0 = P + m
        BY <2>3, <2>4, <2>6 DEF Got
      <3>2. z \in BOOLEAN
        BY DEF z
      <3>3. /\ Owner(a, h) = k /\ handle[a][h].mode = "w" /\ g.mode = "w"
            /\ OpenAt(a, h).pos \div BLK - Got(call[a]) \div BLK = P
            /\ o2.pos \div BLK - Got(c2) \div BLK = P + m
            /\ (handle[a][h].prev = Torn) = z /\ (g.prev = Torn) = z
        BY <1>3, <1>8, <1>9, <1>14, <2>6, <3>1 DEF P, z
      <3>4. /\ CursorRec(Owner(a, h), handle[a][h].mode,
                         OpenAt(a, h).pos \div BLK - Got(call[a]) \div BLK,
                         handle[a][h].prev = Torn) = CursorRec(k, "w", P, z)
            /\ CursorRec(Owner(a, h), g.mode, o2.pos \div BLK - Got(c2) \div BLK,
                         g.prev = Torn) = CursorRec(k, "w", P + m, z)
        BY <3>3, Zenon
      <3> QED BY <2>7, <3>2, <3>4, Zenon DEF SeenAs, WithCursor
    <2>12. Cursor' = [Cursor EXCEPT ![a][h].at = P + m]
      <3>1. WithAt(a, h, P + m) = WithCursor(a, h, CursorRec(k, "w", P + m, z))
        BY <1>2, <2>11, CursorMoves
      <3> QED BY <2>11, <3>1 DEF WithAt
    <2>13. /\ Pending[a] = CallFor("write", h, rest, 0)
           /\ Pending' = [Pending EXCEPT ![a].rest = SubSeq(rest, m + 1, Len(rest))]
      <3>1. PendingOf(c, g) = CallFor("write", h, rest, 0)
        BY <1>1, <1>8, <1>14 DEF PendingOf, Fits, rest
      <3>2. PendingOf(c2, g) = CallFor("write", h, SubSeq(rest, m + 1, Len(rest)), 0)
        <4>1. c2 # Idle
          BY <2>4, IdleParts
        <4> QED BY <1>14, <2>4, <2>6, <4>1 DEF PendingOf, Fits
      <3>3. Pending[a] = CallFor("write", h, rest, 0)
            /\ Pending' = [Pending EXCEPT ![a] =
                              CallFor("write", h, SubSeq(rest, m + 1, Len(rest)), 0)]
        BY <1>8, <2>7, <3>1, <3>2 DEF SeenAs
      <3> DEFINE y == SubSeq(rest, m + 1, Len(rest))
      <3> HIDE DEF y
      <3>4. WithRest(a, y) = WithCall(a, CallFor("write", h, y, 0))
        BY <3>3, PendingRest
      <3> QED BY <3>3, <3>4, Zenon DEF y, WithRest, WithCall
    <2>14. UNCHANGED Outcome
      BY <1>14 DEF Outcome
    <2>15. Store!WriteSome(a, m, x)
      <3>1. /\ Pending[a].op = "write" /\ Pending[a].h = h /\ Pending[a].rest = rest
            /\ Cursor[a][h].owner = k /\ Cursor[a][h].at = P
        BY <2>11, <2>13 DEF CallFor, CursorRec
      <3> QED BY ZenonT(60), <2>6, <2>10, <2>12, <2>13, <2>14, <3>1
          DEF Store!WriteSome, CellsWith, Place, e
    <2>16. Store!StoreNext
      <3>1. m \in 1..(CAP \div BLK) /\ x \in Data \cup {Garbage}
        BY <2>3, <2>9 DEF m
      <3> QED BY <2>15, <3>1, Zenon DEF Store!StoreNext
    <2>17. NoTornBlocks'
      <3>1. NotTorn(f2)
        <4>1. NotTorn(f)
          BY <1>3, <1>8 DEF NoTornBlocks
        <4> QED BY <1>3, <1>4, <2>3, <2>6, <2>8, <4>1, PutNotTorn DEF f2, P, m, s
      <3>2. ASSUME NEW n \in Names PROVE NotTorn(file'[n])
        BY <1>0, <1>3, <2>8, <3>1 DEF HostOK, NoTornBlocks
      <3> QED BY <3>2 DEF NoTornBlocks
    <2> QED BY <2>16, <2>17
  <1> QED BY <1>6, <1>12, <1>13, <1>14, Zenon

(***************************************************************************)
(*                                Reading                                  *)
(***************************************************************************)

\* The cursor of a handle, with position and spoilt mark set at once.
LEMMA CursorBoth ==
  ASSUME NEW a \in Apps, NEW h \in Handles, NEW o, NEW md, NEW at, NEW sp \in BOOLEAN,
         Cursor[a][h] = CursorRec(o, md, at, sp), NEW x, NEW y \in BOOLEAN
  PROVE  WithBoth(a, h, x, y) = WithCursor(a, h, CursorRec(o, md, x, sp /\ y))
  <1>1. /\ WithSpoilt(a, h, y) = WithCursor(a, h, CursorRec(o, md, at, y))
        /\ WithAt(a, h, x) = WithCursor(a, h, CursorRec(o, md, x, sp))
        /\ WithBoth(a, h, x, y) = WithCursor(a, h, CursorRec(o, md, x, sp /\ y))
    BY CursorSet
  <1> QED BY <1>1

\* Call c on handle g is a read of file f, open at o, that has ended: at the end of
\* the file or with all that was asked for.
Reading(g, o, f, c, k) ==
    /\ InStep(g, o, f, c, k) /\ g.mode = "r" /\ c.op = "read"
    /\ c.buf \in Seq(Unit) /\ Len(c.buf) = c.offset
    /\ c.offset \in Nat /\ c.count \in Nat /\ c.offset <= c.count
    /\ f \in Seq(Unit) /\ Whole(Len(f)) /\ NotTorn(f)
Ended(o, f, c) == o.pos = Len(f) \/ c.offset = c.count

\* What has been read: M blocks from block q on, the first of them lost if the
\* handle was spoilt.
ReadFrom(g, o, c) == o.pos \div BLK - Got(c) \div BLK
ReadIs(g, o, f, c, k) ==
    LET q == ReadFrom(g, o, c)
        M == c.offset \div BLK
    IN /\ q \in Nat /\ M \in Nat /\ o.pos \div BLK = q + M
       /\ Store!Least(c.count \div BLK, NumBlocks(f) - q) = M
       /\ c.offset = 0 <=> M = 0
       /\ c.offset # 0 =>
             /\ LastBlock(c.buf) # Torn
             /\ Decrypt(k, g.prev, c.buf) = DataRead(k, f, q, g.prev, M)

LEMMA ReadEnds ==
  ASSUME NEW g, NEW o, NEW f, NEW c, NEW k \in Keys, Reading(g, o, f, c, k), Ended(o, f, c)
  PROVE  ReadIs(g, o, f, c, k)
  <1> DEFINE p == o.pos
             y == c.offset
             n == c.count
             u == c.buf
             T == p \div BLK
             M == y \div BLK
             W == n \div BLK
             F == NumBlocks(f)
             q == ReadFrom(g, o, c)
  <1>1. /\ p \in Nat /\ Whole(p) /\ p <= Len(f) /\ Whole(y) /\ Whole(n) /\ Reader(g, o, f, c, k)
        /\ y \in Nat /\ n \in Nat /\ y <= n /\ u \in Seq(Unit) /\ Len(u) = y
        /\ f \in Seq(Unit) /\ Whole(Len(f)) /\ NotTorn(f) /\ Got(c) = y
    BY DEF Reading, InStep, Got
  <1>2. /\ y <= p /\ (g.prev # Torn => g.prev = Before(k, f, p - y))
        /\ \A i \in 1..y : u[i] = f[p - y + i]
    BY <1>1 DEF Reader
  <1>3. Len(f) \in Nat /\ (p = Len(f) \/ y = n)
    BY <1>1 DEF Ended
  <1>4. q = T - M
    BY <1>1 DEF ReadFrom
  <1> HIDE DEF p, y, n, u, q, T, M, W, F
  <1>5. /\ T \in Nat /\ M \in Nat /\ W \in Nat /\ F \in Nat
        /\ p = BLK * T /\ y = BLK * M /\ Len(f) = BLK * F
    BY <1>1, <1>3, Blocks DEF T, M, W, F, NumBlocks
  <1>6. M <= T /\ T <= F /\ M <= W
    <2>1. /\ y <= p <=> M <= T
          /\ p <= Len(f) <=> T <= F
          /\ y <= n <=> M <= W
      BY <1>1, <1>3, BlockSums DEF T, M, W, F, NumBlocks
    <2> QED BY <1>1, <1>2, <2>1
  <1>7. T = F \/ M = W
    BY <1>3 DEF T, F, M, W, NumBlocks
  <1>8. q \in Nat /\ T = q + M
    BY <1>4, <1>5, <1>6
  <1>9. Store!Least(W, F - q) = M
    BY <1>5, <1>6, <1>7, <1>8 DEF Store!Least
  <1>10. y = 0 <=> M = 0
    <2>1. 0 \in Nat /\ Whole(0) /\ BLK * 0 = 0 /\ (BLK * 0) \div BLK = 0
      BY Units, WholeQuotient
    <2> QED BY <1>5, <2>1 DEF M
  <1>11. p - y = BLK * q
    <2>1. BLK * (q + M) = BLK * q + BLK * M /\ BLK * q \in Nat /\ BLK * M \in Nat
      BY <1>5, <1>8, Units
    <2> DEFINE X == BLK * q
               Y == BLK * M
    <2>2. p = X + Y /\ y = Y /\ X \in Nat /\ Y \in Nat
      BY <1>5, <1>8, <2>1
    <2> HIDE DEF X, Y
    <2>3. p - y = X
      BY <2>2
    <2> QED BY <2>3 DEF X
  <1>12. CopyOf(u, f, q, M)
    BY <1>2, <1>5, <1>11 DEF CopyOf
  <1>13. ASSUME y # 0
         PROVE  /\ LastBlock(u) # Torn
                /\ Decrypt(k, g.prev, u) = DataRead(k, f, q, g.prev, M)
    <2>1. M \in 1..M /\ q + M \in 1..F /\ Len(u) = BLK * M
      BY <1>1, <1>5, <1>6, <1>8, <1>10, <1>13
    <2>2. BlockAt(u, M) = BlockAt(f, q + M)
      BY <1>1, <1>5, <1>8, <1>12, <2>1, BlockShift
    <2>3. BlockAt(f, q + M) # Torn
      BY <1>1, <2>1 DEF NotTorn, F
    <2>4. LastBlock(u) = BlockAt(u, M)
      <3>1. Len(u) \div BLK = M
        BY <1>1 DEF M
      <3> QED BY <3>1 DEF LastBlock
    <2>5. BlockBefore(k, f, q, g.prev)
      <3>1. (p - y = 0 <=> q = 0) /\ (p - y) \div BLK = q
        BY <1>8, <1>11, Units
      <3> QED BY <1>2, <3>1 DEF Before, BlockBefore
    <2>6. q + M <= F
      BY <1>6, <1>8
    <2>7. NumBlocks(f) \in Nat /\ q + M <= NumBlocks(f)
      BY <1>5, <2>6 DEF F
    <2>8. Decrypt(k, g.prev, u) = DataRead(k, f, q, g.prev, M)
      BY <1>1, <1>5, <1>8, <1>12, <2>1, <2>5, <2>7, ReadCells
    <2> QED BY <2>2, <2>3, <2>4, <2>8
  <1> QED BY <1>5, <1>8, <1>9, <1>10, <1>13 DEF ReadIs, p, y, n, u, T, M, W, F, q

\* What one pass of ocall_read_file_full can do: find the file not open for
\* reading, receive n units, or end.
LEMMA ReadLoopCases ==
  ASSUME Safe, DescriptorsOwned, StepInv, MaxFaults = 0, NEW a \in Apps,
         ocall_read_file_full(a)
  PROVE  LET c == call[a]
             g == handle[a][c.h]
             o == OpenAt(a, c.h)
             f == file[o.name]
             R(res, cnt, d) ==
                 Return(a, ReadReturned(res, Owner(a, c.h), c.count, cnt, d))
         IN /\ file' = file
            /\ \/ /\ g.mode = "w" /\ UNCHANGED <<handle, fdt>>
                  /\ call' = [call EXCEPT ![a] = Idle] /\ R("GENERIC", 0, << >>)
               \/ /\ g.mode = "r" /\ UNCHANGED <<handle, ret>>
                  /\ \E n \in Nat :
                        /\ n # 0 /\ Whole(n) /\ o.pos + n <= Len(f)
                        /\ fdt' = [fdt EXCEPT ![a][g.desc] = Advance(o, n)]
                        /\ call' = [call EXCEPT ![a] =
                                       Moved(c, n, c.buf \o UnitsRead(a, g.desc, n))]
               \/ /\ g.mode = "r" /\ UNCHANGED fdt /\ Ended(o, f, c)
                  /\ call' = [call EXCEPT ![a] = Idle]
                  /\ \/ /\ c.offset = 0 /\ handle' = handle
                        /\ R("SUCCESS", 0, << >>)
                     \/ /\ c.offset # 0
                        /\ handle' = [handle EXCEPT ![a][c.h] =
                                         Chained(g, LastBlock(c.buf))]
                        /\ R("SUCCESS", c.offset, Decrypt(KeyOf(a, c.h), g.prev, c.buf))
  <1> DEFINE c == call[a]
             h == c.h
             g == handle[a][h]
             o == OpenAt(a, h)
             f == file[o.name]
             y == c.offset
             R(res, cnt, d) == Return(a, ReadReturned(res, Owner(a, h), c.count, cnt, d))
             D == Decrypt(KeyOf(a, h), g.prev, c.buf)
             H == [handle EXCEPT ![a][h] = Chained(g, LastBlock(c.buf))]
             G == [j \in 1..(y \div BLK) |-> Garbage]
  <1>1. c.op = "read"
    BY DEF ocall_read_file_full
  <1>2. /\ h \in Handles /\ Live(a, h) /\ y \in Nat /\ Whole(y)
        /\ InStep(g, o, f, c, KeyOf(a, h))
    BY <1>1, CallParts
  <1>3. /\ o \in OpenFile /\ g.mode \in {"r", "w"}
    BY <1>2, LiveParts DEF HandleRec, Modes
  <1>4. fdt = [fdt EXCEPT ![a][g.desc] = o] /\ Advance(o, 0) = o
    BY <1>2, <1>3, SameHost DEF Advance, OpenFile
  <1>5. PICK n \in Int :
               /\ file' = file
               /\ \/ g.mode = "w" /\ n = -1 /\ fdt' = fdt
                  \/ /\ g.mode = "r" /\ n \in Nat /\ Whole(n) /\ o.pos + n <= Len(f)
                     /\ n = 0 => o.pos = Len(f) \/ c.offset = c.count
                     /\ fdt' = [fdt EXCEPT ![a][g.desc] = Advance(o, n)]
               /\ \/ /\ n > 0 /\ handle' = handle /\ ret' = ret
                     /\ call' = [call EXCEPT ![a] =
                                    Moved(c, n, c.buf \o UnitsRead(a, g.desc, n))]
                  \/ /\ n <= 0
                     /\ call' = [call EXCEPT ![a] = Idle]
                     /\ ReadReturns(a, n, 0)
    BY ReadLoopParts, Zenon
  <1> DEFINE size == LoopResult(y, n)
  <1>6. ASSUME ReadReturns(a, n, 0)
        PROVE  \/ size < 0 /\ R("GENERIC", 0, << >>) /\ handle' = handle
               \/ size >= 0 /\ size % BLK # 0
               \/ size = 0 /\ R("SUCCESS", 0, << >>) /\ handle' = handle
               \/ /\ size > 0 /\ handle' = H
                  /\ R("SUCCESS", size, IF g.mode = "r" THEN D
                                        ELSE [j \in 1..(size \div BLK) |-> Garbage])
    BY <1>6 DEF ReadReturns
  <1>7. y % BLK = 0
    BY <1>2, WholeQuotient
  <1>8. g.mode = "w" => y = 0
    BY <1>1, <1>2 DEF InStep, Writer
  <1>9. size = IF n < 0 /\ y = 0 THEN n ELSE y
    BY DEF LoopResult
  <1>10. CASE g.mode = "w"
    <2>1. n = -1 /\ size = -1
      BY <1>5, <1>8, <1>9, <1>10
    <2>2. ReadReturns(a, n, 0) /\ call' = [call EXCEPT ![a] = Idle] /\ fdt' = fdt
      BY <1>5, <1>10, <2>1
    <2> HIDE DEF size, R, H, D
    <2>3. R("GENERIC", 0, << >>) /\ handle' = handle
      BY <1>6, <2>1, <2>2
    <2> QED BY <1>5, <1>10, <2>2, <2>3 DEF R, h, c, g
  <1>11. CASE g.mode = "r" /\ n > 0
    <2> HIDE DEF c, g, o, f, h, R, H, D, size
    <2>1. n \in Nat /\ n # 0
      BY <1>11
    <2>2. /\ n \in Nat /\ n # 0 /\ Whole(n) /\ o.pos + n <= Len(f)
          /\ fdt' = [fdt EXCEPT ![a][g.desc] = Advance(o, n)]
          /\ call' = [call EXCEPT ![a] = Moved(c, n, c.buf \o UnitsRead(a, g.desc, n))]
      BY <1>5, <1>11, <2>1
    <2>3. UNCHANGED <<handle, ret>> /\ file' = file
      BY <1>5, <1>11
    <2> QED BY <1>11, <2>2, <2>3, Zenon DEF c, g, o, f, h
  <1>12. CASE g.mode = "r" /\ ~(n > 0)
    <2>1. n = 0 /\ size = y
      BY <1>5, <1>9, <1>12
    <2>2. /\ ReadReturns(a, n, 0) /\ call' = [call EXCEPT ![a] = Idle]
          /\ fdt' = fdt /\ Ended(o, f, c) /\ file' = file
      BY <1>4, <1>5, <1>12, <2>1 DEF Ended
    <2> HIDE DEF size, R, H, D, y
    <2>3. \/ y = 0 /\ R("SUCCESS", 0, << >>) /\ handle' = handle
          \/ y # 0 /\ R("SUCCESS", y, D) /\ handle' = H
      BY <1>2, <1>6, <1>7, <1>12, <2>1, <2>2
    <2> QED BY <1>12, <2>2, <2>3, Zenon DEF R, H, D, y, h, c, g, o, f
  <1> QED BY <1>3, <1>10, <1>11, <1>12

\* One pass of the loop of ocall_read_file_full: the store sees only the last.
LEMMA ReadLoopMaps ==
  ASSUME Safe, DescriptorsOwned, StepInv, NoTornBlocks, MaxFaults = 0, NEW a \in Apps,
         ocall_read_file_full(a)
  PROVE  file' = file /\ (Store!StoreNext \/ UNCHANGED Store!storeVars)
  <1> DEFINE c == call[a]
             h == c.h
             g == handle[a][h]
             o == OpenAt(a, h)
             f == file[o.name]
             k == KeyOf(a, h)
             R(res, cnt, d) == ReadReturned(res, Owner(a, h), c.count, cnt, d)
             D == Decrypt(k, g.prev, c.buf)
             g2 == Chained(g, LastBlock(c.buf))
  <1>0. HostOK /\ HandlesOK /\ CallsOK /\ RetOK
    BY TypeParts DEF Safe
  <1>1. c.op = "read" /\ c # Idle
    BY IdleParts DEF ocall_read_file_full
  <1>2. /\ h \in Handles /\ Live(a, h) /\ c.buf \in Seq(Unit) /\ Len(c.buf) = c.offset
        /\ c.count \in Nat /\ c.offset \in Nat /\ c.offset <= c.count
        /\ Whole(c.offset) /\ Whole(c.count) /\ InStep(g, o, f, c, k)
    BY <1>1, CallParts
  <1>3. /\ o \in OpenFile /\ o.name \in Names /\ o.pos \in Nat
        /\ f \in Seq(Unit) /\ g \in HandleRec /\ k \in Keys /\ g.mode \in {"r", "w"}
        /\ k = Owner(a, h) /\ FileOf[k[2]] = o.name
    BY <1>2, LiveParts
       DEF HandleRec, Modes, KeyOf, set_object_key, Owner, DescriptorsOwned, OpenAt
  <1>4. Whole(Len(f)) /\ NotTorn(f)
    BY <1>3 DEF StepInv, WholeFiles, NoTornBlocks
  <1>5. /\ file' = file
        /\ \/ /\ g.mode = "w" /\ UNCHANGED <<handle, fdt>>
              /\ call' = [call EXCEPT ![a] = Idle] /\ Return(a, R("GENERIC", 0, << >>))
           \/ /\ g.mode = "r" /\ UNCHANGED <<handle, ret>>
              /\ \E n \in Nat :
                    /\ n # 0 /\ Whole(n) /\ o.pos + n <= Len(f)
                    /\ fdt' = [fdt EXCEPT ![a][g.desc] = Advance(o, n)]
                    /\ call' = [call EXCEPT ![a] =
                                   Moved(c, n, c.buf \o UnitsRead(a, g.desc, n))]
           \/ /\ g.mode = "r" /\ UNCHANGED fdt /\ Ended(o, f, c)
              /\ call' = [call EXCEPT ![a] = Idle]
              /\ \/ c.offset = 0 /\ handle' = handle /\ Return(a, R("SUCCESS", 0, << >>))
                 \/ /\ c.offset # 0 /\ handle' = [handle EXCEPT ![a][h] = g2]
                    /\ Return(a, R("SUCCESS", c.offset, D))
    BY ReadLoopCases, Zenon
  <1>6. /\ fdt = [fdt EXCEPT ![a][g.desc] = o] /\ handle = [handle EXCEPT ![a][h] = g]
        /\ g.st = "open"
    BY <1>2, SameHost DEF Live
  <1>7. call[a] = c /\ c.h = h /\ o = OpenAt(a, h) /\ g = handle[a][h] /\ k = KeyOf(a, h)
        /\ f = file[OpenAt(a, h).name]
    OBVIOUS
  <1>8. \A cnt, d : /\ R("SUCCESS", cnt, d).res = "SUCCESS" /\ R("SUCCESS", cnt, d).data = d
                    /\ R("GENERIC", cnt, d).res = "GENERIC" /\ R("GENERIC", cnt, d).data = d
    BY DEF ReadReturned
  <1>9. Cells' = Cells /\ Got(c) = c.offset /\ Got(Idle) = 0 /\ 0 \div BLK = 0
    <2>1. BLK * 0 = 0 /\ (BLK * 0) \div BLK = 0
      BY Units
    <2> QED BY <1>1, <1>5, <2>1, CellsSame, IdleParts DEF Got
  <1>10. PendingOf(Idle, g) = Store!NoCall /\ PendingOf(Idle, g2) = Store!NoCall
    BY Zenon DEF PendingOf
  <1>11. g2.st = g.st /\ g2.id = g.id /\ g2.desc = g.desc /\ g2.mode = g.mode
         /\ g2.prev = LastBlock(c.buf)
    BY DEF Chained
  <1> HIDE DEF c, h, g, o, f, k, g2, D, R
  <1>12. CASE /\ g.mode = "w" /\ UNCHANGED <<handle, fdt>>
              /\ call' = [call EXCEPT ![a] = Idle] /\ Return(a, R("GENERIC", 0, << >>))
    <2>1. fdt' = [fdt EXCEPT ![a][g.desc] = o] /\ handle' = [handle EXCEPT ![a][h] = g]
      BY <1>6, <1>12
    <2>2. SeenAs(a, h, g, o, Idle)
      BY <1>2, <1>6, <1>7, <1>12, <2>1, OneHandleSeen
    <2>3. c.offset = 0
      BY <1>1, <1>2, <1>12 DEF InStep, Writer
    <2>4. Cursor' = Cursor
      <3>1. Cursor' = [Cursor EXCEPT ![a][h] = Cursor[a][h]]
        BY <1>7, <1>9, <2>2, <2>3 DEF SeenAs
      <3> QED BY <1>2, <3>1, CursorBack
    <2>5. PendingOf(c, g).op = "refused"
      BY <1>1, <1>12 DEF PendingOf, Fits, CallFor
    <2>6. Pending[a].op = "refused" /\ Pending' = [Pending EXCEPT ![a] = Store!NoCall]
      BY <1>7, <1>10, <2>2, <2>5 DEF SeenAs
    <2>7. Store!Answers(a, FALSE, << >>)
      <3> DEFINE r == R("GENERIC", 0, << >>)
      <3>1. r.res = "GENERIC" /\ r.data = << >> /\ Return(a, r)
        BY <1>8, <1>12
      <3> HIDE DEF r
      <3>2. Store!Answers(a, r.res = "SUCCESS", r.data)
        BY <1>0, <3>1, ResultOf
      <3>3. (r.res = "SUCCESS") = FALSE
        BY <3>1
      <3> QED BY <3>1, <3>2, <3>3
    <2>8. Store!RefusedDone(a)
      BY <1>9, <2>4, <2>6, <2>7 DEF Store!RefusedDone
    <2> QED BY <1>5, <2>8, Zenon DEF Store!StoreNext
  <1>13. CASE /\ g.mode = "r" /\ UNCHANGED <<handle, ret>>
              /\ \E n \in Nat :
                    /\ n # 0 /\ Whole(n) /\ o.pos + n <= Len(f)
                    /\ fdt' = [fdt EXCEPT ![a][g.desc] = Advance(o, n)]
                    /\ call' = [call EXCEPT ![a] =
                                   Moved(c, n, c.buf \o UnitsRead(a, g.desc, n))]
    <2>1. PICK n \in Nat :
             /\ n # 0 /\ Whole(n) /\ o.pos + n <= Len(f)
             /\ fdt' = [fdt EXCEPT ![a][g.desc] = Advance(o, n)]
             /\ call' = [call EXCEPT ![a] = Moved(c, n, c.buf \o UnitsRead(a, g.desc, n))]
      BY <1>13
    <2> DEFINE o2 == Advance(o, n)
               c2 == Moved(c, n, c.buf \o UnitsRead(a, g.desc, n))
    <2>2. /\ c2.op = "read" /\ c2.h = h /\ c2.count = c.count /\ c2.offset = c.offset + n
          /\ o2.pos = o.pos + n /\ c2 # Idle
      <3>1. /\ c2.op = c.op /\ c2.h = c.h /\ c2.count = c.count /\ c2.offset = c.offset + n
            /\ o2.pos = o.pos + n
        BY DEF Moved, Advance
      <3> HIDE DEF c2, o2
      <3> QED BY <1>1, <1>7, <3>1, IdleParts
    <2>3. fdt' = [fdt EXCEPT ![a][g.desc] = o2] /\ call' = [call EXCEPT ![a] = c2]
          /\ handle' = [handle EXCEPT ![a][h] = g]
      BY <1>6, <1>13, <2>1
    <2> HIDE DEF o2, c2
    <2>4. SeenAs(a, h, g, o2, c2)
      BY <1>2, <1>6, <1>7, <2>2, <2>3, OneHandleSeen
    <2>5. o2.pos \div BLK - Got(c2) \div BLK = o.pos \div BLK - Got(c) \div BLK
      <3> DEFINE p == o.pos
                 y == c.offset
      <3>1. p \in Nat /\ y \in Nat /\ Whole(p) /\ Whole(y)
        BY <1>2, <1>3 DEF InStep
      <3>2. o2.pos = p + n /\ Got(c2) = y + n /\ Got(c) = y
        BY <1>9, <2>2 DEF Got
      <3> HIDE DEF p, y
      <3>3. (p + n) \div BLK = p \div BLK + n \div BLK /\ (y + n) \div BLK = y \div BLK + n \div BLK
        BY <2>1, <3>1, BlockSums
      <3>4. p \div BLK \in Nat /\ y \div BLK \in Nat /\ n \div BLK \in Nat
        BY <2>1, <3>1, Blocks
      <3> QED BY <3>2, <3>3, <3>4 DEF p
    <2>6. Cursor' = Cursor
      <3>1. Cursor' = [Cursor EXCEPT ![a][h] = Cursor[a][h]]
        BY <1>7, <2>4, <2>5 DEF SeenAs
      <3> QED BY <1>2, <3>1, CursorBack
    <2>7. Pending' = Pending
      <3>1. PendingOf(c2, g) = PendingOf(c, g)
        BY <1>1, <1>7, <1>13, <2>2 DEF PendingOf, Fits
      <3>2. Pending' = [Pending EXCEPT ![a] = Pending[a]]
        BY <1>7, <2>4, <3>1 DEF SeenAs
      <3> QED BY <3>2 DEF Pending
    <2>8. Outcome' = Outcome
      BY <1>13 DEF Outcome
    <2> QED BY <1>5, <1>9, <2>6, <2>7, <2>8 DEF Store!storeVars
  <1>14. CASE /\ g.mode = "r" /\ UNCHANGED fdt /\ Ended(o, f, c)
              /\ call' = [call EXCEPT ![a] = Idle]
              /\ \/ c.offset = 0 /\ handle' = handle /\ Return(a, R("SUCCESS", 0, << >>))
                 \/ /\ c.offset # 0 /\ handle' = [handle EXCEPT ![a][h] = g2]
                    /\ Return(a, R("SUCCESS", c.offset, D))
    <2> DEFINE q == ReadFrom(g, o, c)
               M == c.offset \div BLK
               z == (g.prev = Torn)
               X == DataRead(k, f, q, g.prev, M)
    <2>1. Reading(g, o, f, c, k)
      BY <1>1, <1>2, <1>3, <1>4, <1>14 DEF Reading
    <2>2. ReadIs(g, o, f, c, k)
      BY <1>3, <1>14, <2>1, ReadEnds
    <2>3. /\ q \in Nat /\ M \in Nat /\ o.pos \div BLK = q + M
          /\ Store!Least(c.count \div BLK, NumBlocks(f) - q) = M
          /\ c.offset = 0 <=> M = 0
          /\ c.offset # 0 => LastBlock(c.buf) # Torn /\ D = X
      BY <2>2 DEF ReadIs, D
    <2>4. q = o.pos \div BLK - Got(c) \div BLK
      BY DEF ReadFrom
    <2>5. z \in BOOLEAN /\ (M = 0) \in BOOLEAN
      OBVIOUS
    <2>6. M = 0 => X = << >>
      BY DEF DataRead
    <2> HIDE DEF q, M, z, X
    <2>7. \E g3, cnt :
             /\ handle' = [handle EXCEPT ![a][h] = g3] /\ Return(a, R("SUCCESS", cnt, X))
             /\ g3.st = g.st /\ g3.id = g.id /\ g3.desc = g.desc /\ g3.mode = g.mode
             /\ (g3.prev = Torn) = (z /\ M = 0)
      <3>1. CASE c.offset = 0 /\ handle' = handle /\ Return(a, R("SUCCESS", 0, << >>))
        <4>1. X = << >> /\ (g.prev = Torn) = (z /\ M = 0)
          BY <2>3, <2>5, <2>6, <3>1 DEF z
        <4>2. Return(a, R("SUCCESS", 0, X)) /\ handle' = [handle EXCEPT ![a][h] = g]
          BY <1>6, <3>1, <4>1
        <4> QED BY <4>1, <4>2
      <3>2. CASE /\ c.offset # 0 /\ handle' = [handle EXCEPT ![a][h] = g2]
                 /\ Return(a, R("SUCCESS", c.offset, D))
        <4>1. D = X /\ (g2.prev = Torn) = (z /\ M = 0)
          BY <1>11, <2>3, <3>2
        <4>2. Return(a, R("SUCCESS", c.offset, X))
          BY <3>2, <4>1
        <4> QED BY <1>11, <3>2, <4>1, <4>2
      <3> QED BY <1>14, <3>1, <3>2, Zenon
    <2>8. PICK g3, cnt :
             /\ handle' = [handle EXCEPT ![a][h] = g3] /\ Return(a, R("SUCCESS", cnt, X))
             /\ g3.st = g.st /\ g3.id = g.id /\ g3.desc = g.desc /\ g3.mode = g.mode
             /\ (g3.prev = Torn) = (z /\ M = 0)
      BY <2>7, Zenon
    <2>9. SeenAs(a, h, g3, o, Idle)
      <3>1. fdt' = [fdt EXCEPT ![a][g.desc] = o]
        BY <1>6, <1>14
      <3> QED BY ZenonT(60), <1>2, <1>6, <1>7, <1>14, <2>8, <3>1, OneHandleSeen
    <2> DEFINE w == (z /\ M = 0)
    <2>10. /\ Cursor[a][h] = CursorRec(k, "r", q, z)
           /\ Cursor' = WithCursor(a, h, CursorRec(k, "r", q + M, w))
      <3>1. /\ Owner(a, h) = k /\ handle[a][h].mode = "r" /\ g3.mode = "r"
            /\ OpenAt(a, h).pos \div BLK - Got(call[a]) \div BLK = q
            /\ o.pos \div BLK - Got(Idle) \div BLK = q + M
            /\ (handle[a][h].prev = Torn) = z /\ (g3.prev = Torn) = w
        <4>1. (q + M) - 0 = q + M
          BY <2>3
        <4>2. o.pos \div BLK - Got(Idle) \div BLK = q + M
          BY <1>9, <2>3, <4>1
        <4>3. OpenAt(a, h).pos \div BLK - Got(call[a]) \div BLK = q
          BY <1>7, <2>4
        <4>4. handle[a][h].prev = Torn <=> g.prev = Torn
          BY <1>7
        <4>5. (handle[a][h].prev = Torn) = z
          BY <4>4 DEF z
        <4>6. Owner(a, h) = k /\ handle[a][h].mode = "r" /\ g3.mode = "r"
          BY <1>3, <1>7, <1>14, <2>8
        <4> QED BY <2>8, <4>2, <4>3, <4>5, <4>6
      <3> HIDE DEF w
      <3>2. /\ CursorRec(Owner(a, h), handle[a][h].mode,
                         OpenAt(a, h).pos \div BLK - Got(call[a]) \div BLK,
                         handle[a][h].prev = Torn) = CursorRec(k, "r", q, z)
            /\ CursorRec(Owner(a, h), g3.mode, o.pos \div BLK - Got(Idle) \div BLK,
                         g3.prev = Torn) = CursorRec(k, "r", q + M, w)
        BY <3>1, Zenon
      <3> QED BY <2>9, <3>2, Zenon DEF SeenAs, WithCursor
    <2>11. Cursor' = [Cursor EXCEPT ![a][h].at = q + M, ![a][h].spoilt = @ /\ M = 0]
      <3> DEFINE v == (M = 0)
      <3>1. v \in BOOLEAN
        OBVIOUS
      <3> HIDE DEF v
      <3>2. WithBoth(a, h, q + M, v) = WithCursor(a, h, CursorRec(k, "r", q + M, z /\ v))
        BY <1>2, <2>5, <2>10, <3>1, CursorBoth
      <3>3. WithBoth(a, h, q + M, M = 0) =
               WithCursor(a, h, CursorRec(k, "r", q + M, z /\ M = 0))
        BY <3>2, Zenon DEF v
      <3> QED BY <2>10, <3>3, Zenon DEF WithBoth
    <2>12. /\ Pending[a] = CallFor("read", h, << >>, c.count \div BLK)
           /\ Pending' = [Pending EXCEPT ![a] = Store!NoCall]
      <3>1. PendingOf(c, g) = CallFor("read", h, << >>, c.count \div BLK)
        BY <1>1, <1>7, <1>14 DEF PendingOf, Fits
      <3>2. PendingOf(Idle, g3) = Store!NoCall
        BY Zenon DEF PendingOf
      <3> QED BY <1>7, <2>9, <3>1, <3>2 DEF SeenAs
    <2>13. Cells[k] = Stored(k, f) /\ Len(Stored(k, f)) = NumBlocks(f)
      <3>1. f = file[FileOf[k[2]]]
        BY <1>3, <1>7
      <3> QED BY <1>3, <3>1, Mapped, StoredParts, Zenon
    <2>14. Store!Answers(a, TRUE, X)
      <3> DEFINE r == R("SUCCESS", cnt, X)
      <3>1. r.res = "SUCCESS" /\ r.data = X /\ Return(a, r)
        BY <1>8, <2>8
      <3> HIDE DEF r
      <3>2. Store!Answers(a, r.res = "SUCCESS", r.data)
        BY <1>0, <3>1, ResultOf
      <3>3. (r.res = "SUCCESS") = TRUE
        BY <3>1
      <3> QED BY <3>1, <3>2, <3>3
    <2>15. X = [j \in 1..M |-> IF j = 1 /\ z THEN Garbage ELSE Cells[k][q + j]]
      BY <2>13, Zenon DEF X, z, DataRead
    <2>16. Store!ReadDone(a)
      <3>1. /\ Pending[a].op = "read" /\ Pending[a].h = h
            /\ Pending[a].want = c.count \div BLK
            /\ Cursor[a][h].owner = k /\ Cursor[a][h].at = q /\ Cursor[a][h].spoilt = z
        BY <2>10, <2>12 DEF CallFor, CursorRec
      <3>2. Store!Least(Pending[a].want, Len(Cells[k]) - q) = M
        BY <2>3, <2>13, <3>1
      <3>3. LET c1 == Cursor[a][h]
                m == Store!Least(Pending[a].want, Len(Cells[c1.owner]) - c1.at)
            IN /\ Store!Answers(a, TRUE, [j \in 1..m |->
                      IF j = 1 /\ c1.spoilt THEN Garbage ELSE Cells[c1.owner][c1.at + j]])
               /\ Cursor' = [Cursor EXCEPT ![a][h].at = c1.at + m, ![a][h].spoilt = @ /\ m = 0]
        BY <2>11, <2>14, <2>15, <3>1, <3>2, Zenon
      <3> QED BY <1>9, <2>12, <3>1, <3>3, Zenon DEF Store!ReadDone
    <2> QED BY <1>5, <2>16, Zenon DEF Store!StoreNext
  <1> QED BY <1>5, <1>12, <1>13, <1>14, Zenon

(***************************************************************************)
(*                             The refinement                              *)
(***************************************************************************)

\* Files that stay what they are, or become empty, hold no torn blocks.
FilesStay == \A n \in Names : file'[n] = file[n] \/ file'[n] = << >>

LEMMA StayNotTorn == ASSUME NoTornBlocks, FilesStay PROVE NoTornBlocks'
  <1>1. NumBlocks(<< >>) = 0
    <2>1. BLK * 0 = 0 /\ (BLK * 0) \div BLK = 0
      BY Units
    <2> QED BY <2>1 DEF NumBlocks
  <1>2. NotTorn(<< >>)
    BY <1>1 DEF NotTorn
  <1>3. ASSUME NEW n \in Names PROVE NotTorn(file'[n])
    BY <1>2 DEF NoTornBlocks, FilesStay
  <1> QED BY <1>3 DEF NoTornBlocks

\* An open changes no file but by emptying it.
LEMMA OpenStays ==
  ASSUME HostOK, NEW a, NEW id \in ObjectIDs, NEW flags, NEW ocreat,
         OpenPersistentObject(a, id, flags, ocreat)
  PROVE  FilesStay
  <1>1. PICK desc \in Fds \cup {-1}, f \in 0..1 :
           ocall_open_file(a, FileOf[id], flags2flags(flags, ocreat), desc, f)
    BY Zenon DEF OpenPersistentObject
  <1>2. file' = file \/ file' = [file EXCEPT ![FileOf[id]] = << >>]
    BY <1>1 DEF ocall_open_file
  <1>3. FileOf[id] \in Names
    OBVIOUS
  <1> QED BY <1>2, <1>3 DEF FilesStay, HostOK

\* A refused call is an Immediate step of the store.
LEMMA RefusalMaps ==
  ASSUME RetOK, NEW a \in Apps, NEW res, res # "SUCCESS", Running(a),
         Return(a, Returned(res)), UNCHANGED <<file, fdt, handle, call>>
  PROVE  Store!StoreNext
  <1>1. Store!Answers(a, res = "SUCCESS", << >>)
    BY PlainResult
  <1>2. Store!Answers(a, FALSE, << >>)
    <2>1. (res = "SUCCESS") = FALSE
      OBVIOUS
    <2> QED BY <1>1, <2>1
  <1> QED BY <1>2, ImmediateMaps DEF Running

\* Where no handle is open, no call in progress and no file has contents, the
\* abstract store is in its initial state.
LEMMA InitMaps == Init => Store!StoreInit /\ NoTornBlocks
  <1> SUFFICES ASSUME Init PROVE Store!StoreInit /\ NoTornBlocks
    OBVIOUS
  <1>1. /\ file = [n \in Names |-> << >>]
        /\ handle = [a \in Apps |-> [h \in Handles |-> NULL]]
        /\ call = [a \in Apps |-> Idle] /\ ret = [a \in Apps |-> NoResult]
    BY DEF Init, HostInit
  <1>2. Cells = [o \in Keys |-> << >>]
    <2>1. ASSUME NEW o \in Keys PROVE Stored(o, file[FileOf[o[2]]]) = << >>
      <3>1. FileOf[o[2]] \in Names
        BY DEF Keys
      <3> QED BY <1>1, <3>1, NothingStored
    <2> QED BY <2>1, Mapped, Zenon
  <1>3. Cursor = [a \in Apps |-> [h \in Handles |-> Store!NoCursor]]
    <2>1. ASSUME NEW a \in Apps, NEW h \in Handles PROVE CursorAt(a, h) = Store!NoCursor
      <3>1. ~Live(a, h)
        BY <1>1 DEF Live, NULL
      <3> QED BY <3>1 DEF CursorAt
    <2> QED BY <2>1, Mapped, Zenon
  <1>4. Pending = [a \in Apps |-> Store!NoCall]
    <2>1. ASSUME NEW a \in Apps
          PROVE  PendingOf(call[a], handle[a][call[a].h]) = Store!NoCall
      <3>1. call[a] = Idle
        BY <1>1
      <3> QED BY <3>1, Zenon DEF PendingOf
    <2> QED BY <2>1, Mapped, Zenon
  <1>5. Outcome = [a \in Apps |-> Store!Answer(TRUE, << >>)]
    <2>1. ASSUME NEW a \in Apps
          PROVE  [ok |-> ret[a].res = "SUCCESS", data |-> ret[a].data] = Store!Answer(TRUE, << >>)
      <3>1. ret[a].res = "SUCCESS" /\ ret[a].data = << >>
        BY <1>1 DEF NoResult, Returned
      <3>2. (ret[a].res = "SUCCESS") = TRUE
        BY <3>1
      <3> QED BY <3>1, <3>2 DEF Store!Answer
    <2> QED BY <2>1, Mapped, Zenon
  <1>6. NoTornBlocks
    <2>1. ASSUME NEW n \in Names PROVE NotTorn(file[n])
      <3>1. BLK * 0 = 0 /\ (BLK * 0) \div BLK = 0
        BY Units
      <3>2. NumBlocks(<< >>) = 0 /\ file[n] = << >>
        BY <1>1, <3>1 DEF NumBlocks
      <3> QED BY <3>2 DEF NotTorn
    <2> QED BY <2>1 DEF NoTornBlocks
  <1> QED BY <1>2, <1>3, <1>4, <1>5, <1>6 DEF Store!StoreInit

\* Every step is a step of the store or leaves it as it is.
LEMMA StepMaps ==
  ASSUME ~DoubleClose, Exclusive, MaxFaults = 0
  PROVE  Safe /\ DescriptorsOwned /\ StepInv /\ NoTornBlocks /\ [Next]_vars
            => [Store!StoreNext]_(Store!storeVars) /\ NoTornBlocks'
  <1> SUFFICES ASSUME Safe, DescriptorsOwned, StepInv, NoTornBlocks, [Next]_vars
               PROVE  (Store!StoreNext \/ UNCHANGED Store!storeVars) /\ NoTornBlocks'
    OBVIOUS
  <1>0. HostOK /\ RetOK
    BY TypeParts DEF Safe
  <1> DEFINE Goal == (Store!StoreNext \/ UNCHANGED Store!storeVars) /\ NoTornBlocks'
  <1>a. file' = file => NoTornBlocks'
    BY StayNotTorn DEF FilesStay
  <1>1. ASSUME UNCHANGED <<file, fdt, handle, call, ret>> PROVE Goal
    <2>1. UNCHANGED <<Cells, Cursor, Pending, Outcome>>
      BY <1>1 DEF Cells, Cursor, Pending, Outcome, BlocksTaken, Live, Owner
    <2> QED BY <1>1, <1>a, <2>1 DEF Store!storeVars
  <1>2. ASSUME NEW a \in Apps, run_enclave(a) PROVE Goal
    BY <1>1, <1>2, Zenon DEF run_enclave, hostVars
  <1>3. ASSUME NEW a \in Apps, OpenBadID(a) \/ DataBadParameters(a) PROVE Goal
    <2>1. Running(a) /\ UNCHANGED <<file, fdt, handle, call>>
      BY <1>3 DEF OpenBadID, DataBadParameters, OpenFails, hostVars
    <2>2. \E res : res # "SUCCESS" /\ Return(a, Returned(res))
      BY <1>3 DEF OpenBadID, DataBadParameters, OpenFails
    <2> QED BY <1>0, <1>a, <2>1, <2>2, RefusalMaps
  <1>4. ASSUME NEW a \in Apps, EAPP_RETURN(a) \/ CloseNull(a) PROVE Goal
    <2>1. UNCHANGED <<file, fdt>> /\ \E how : LeaveInstance(a, how)
      BY <1>4 DEF EAPP_RETURN, CloseNull, TEE_Panic, hostVars
    <2> QED BY <1>a, <2>1, LeaveMaps
  <1>5. ASSUME NEW a \in Apps, Crash(a) PROVE Goal
    <2>1. /\ file' = file /\ LeaveInstance(a, "none")
          /\ fdt' = [fdt EXCEPT ![a] = [fd \in Fds |-> ClosedFd]]
      BY <1>5 DEF Crash, ProcessExit
    <2>2. \A b \in Apps \ {a} : fdt'[b] = fdt[b]
      BY <1>0, <2>1 DEF HostOK
    <2> QED BY <1>a, <2>1, <2>2, LeaveMaps
  <1>6. ASSUME NEW a \in Apps, NEW flags \in OpenArgs,
               OpenReadWrite(a, flags) \/ OpenNoMemory(a, flags)
        PROVE  Goal
    <2>1. ~OpenNoMemory(a, flags)
      <3>1. 1 \in Nat /\ 1 # 0
        OBVIOUS
      <3>2. ~Faults(1)
        BY <3>1, NoFaults
      <3> QED BY <3>2 DEF OpenNoMemory
    <2>2. /\ Running(a) /\ UNCHANGED <<file, fdt, handle, call>>
          /\ Return(a, Returned("NOT_SUPPORTED"))
      BY <1>6, <2>1 DEF OpenReadWrite, OpenFails, hostVars
    <2> QED BY <1>0, <1>a, <2>2, RefusalMaps
  <1>7. ASSUME NEW a \in Apps, NEW h \in Handles, WriteNoMemory(a, h) PROVE Goal
    <2>1. 1 \in Nat /\ 1 # 0
      OBVIOUS
    <2>2. ~Faults(1)
      BY <2>1, NoFaults
    <2> QED BY <1>7, <2>2 DEF WriteNoMemory
  <1>8. ASSUME NEW a \in Apps, NEW h \in Handles, NEW n \in 0..MaxBlocks,
               NEW d \in [1..n -> Data], TEE_WriteObjectData(a, h, d)
        PROVE  Goal
    <2>1. file' = file
      BY <1>8 DEF TEE_WriteObjectData, hostVars
    <2> QED BY <1>8, <1>a, <2>1, WriteStartMaps
  <1>9. ASSUME NEW a \in Apps, NEW h \in Handles, NEW n \in 0..MaxBlocks,
               TEE_ReadObjectData(a, h, n)
        PROVE  Goal
    <2>1. file' = file
      BY <1>9 DEF TEE_ReadObjectData, hostVars
    <2> QED BY <1>9, <1>a, <2>1, ReadStartMaps
  <1>10. ASSUME NEW a \in Apps, ocall_write_file_full(a) \/ ocall_read_file_full(a)
         PROVE  Goal
    BY <1>10, <1>a, WriteLoopMaps, ReadLoopMaps
  <1>11. ASSUME NEW a \in Apps, NEW h \in Handles, TEE_CloseObject(a, h) PROVE Goal
    <2>1. file' = file
      BY <1>11 DEF TEE_CloseObject, ocall_close_file
    <2> QED BY <1>11, <1>a, <2>1, CloseMaps
  <1>12. ASSUME NEW a \in Apps, NEW id \in ObjectIDs, NEW flags \in OpenArgs,
                NEW ocreat \in BOOLEAN, OpenPersistentObject(a, id, flags, ocreat)
         PROVE  Goal
    BY <1>0, <1>12, OpenMaps, OpenStays, StayNotTorn
  <1>13. ASSUME UNCHANGED vars PROVE Goal
    BY <1>1, <1>13, Zenon DEF vars
  <1> HIDE DEF Goal
  <1>14. ASSUME Next PROVE Goal
    BY <1>2, <1>3, <1>4, <1>5, <1>6, <1>7, <1>8, <1>9, <1>10, <1>11, <1>12, <1>14 DEF Next
  <1>15. Goal
    BY <1>13, <1>14
  <1> QED BY <1>15 DEF Goal

\* While the host makes no errors, a file is open once at a time and the TA closes
\* a handle once, what TAs see of persistent objects is the abstract store, for
\* every number of processes, objects, handles, blocks and every chunk size:
\* chunked transfers, the chaining value that is advanced before the first ocall,
\* processes killed in the middle of a transfer and other owners on the same file
\* name do not show.
THEOREM StorageImplementsStore ==
  ASSUME ~DoubleClose, Exclusive, MaxFaults = 0
  PROVE  Spec => ImplementsObjectStore
  <1> DEFINE Inv == Safe /\ DescriptorsOwned /\ StepInv
  <1>1. Spec => []Inv
    BY AlwaysInStep
  <1>2. Inv /\ NoTornBlocks /\ [Next]_vars
           => [Store!StoreNext]_(Store!storeVars) /\ NoTornBlocks'
    BY StepMaps
  <1> HIDE DEF Inv
  <1>3. Init => Store!StoreInit /\ NoTornBlocks
    BY InitMaps
  <1> QED BY <1>1, <1>2, <1>3, PTL DEF Spec, ImplementsObjectStore, Store!StoreSpec

=============================================================================
