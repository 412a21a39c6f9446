-------------------------- MODULE RoundTripProofs --------------------------
(***************************************************************************)
(* The round trip.  When the host makes no errors, a file is open once at  *)
(* a time and a TA closes a handle once, a write handle's file holds the   *)
(* encryption of what the handle wrote, a read handle's chaining value is  *)
(* the block before its position, and so a read returns what was written.  *)
(***************************************************************************)
EXTENDS PersistentObjectProofs

USE HostAssumption, ObjectAssumption

(***************************************************************************)
(*                     Whole numbers of cipher blocks                      *)
(***************************************************************************)
Whole(n) == \E q \in Nat : n = BLK * q

\* The quotient and remainder of a number of units by the block size.
LEMMA Quotient ==
  ASSUME NEW q \in Nat, NEW r \in 0..(BLK - 1)
  PROVE  /\ (BLK * q + r) \div BLK = q
         /\ (BLK * q + r) % BLK = r
  <1> DEFINE n == BLK * q + r
             d == n \div BLK
             m == n % BLK
  <1>1. BLK * q \in Nat /\ n \in Nat
    BY MulNat
  <1>2. d \in Nat /\ m \in 0..(BLK - 1) /\ n = BLK * d + m
    BY <1>1
  <1> HIDE DEF d, m
  <1>3. BLK * d \in Nat
    BY <1>2, MulNat
  <1>4. d = q
    <2>1. ASSUME d < q PROVE FALSE
      <3>1. BLK * (q - d) >= BLK
        BY <1>2, <2>1
      <3>2. BLK * (q - d) = BLK * q - BLK * d
        BY <1>2
      <3> HIDE DEF n
      <3> QED BY <1>1, <1>2, <1>3, <3>1, <3>2 DEF n
    <2>2. ASSUME q < d PROVE FALSE
      <3>1. BLK * (d - q) >= BLK
        BY <1>2, <2>2
      <3>2. BLK * (d - q) = BLK * d - BLK * q
        BY <1>2
      <3> QED BY <1>1, <1>2, <1>3, <3>1, <3>2
    <2> QED BY <1>2, <2>1, <2>2
  <1>5. m = r
    BY <1>1, <1>2, <1>4
  <1> QED BY <1>4, <1>5 DEF d, m

\* Whole numbers of blocks add and subtract.
LEMMA WholeSums ==
  ASSUME NEW m, NEW n, Whole(m), Whole(n)
  PROVE  /\ m \in Nat /\ n \in Nat
         /\ Whole(m + n)
         /\ m >= n => Whole(m - n)
         /\ m > 0 => m >= BLK
  <1>1. PICK p \in Nat : m = BLK * p
    BY DEF Whole
  <1>2. PICK q \in Nat : n = BLK * q
    BY DEF Whole
  <1>3. m \in Nat /\ n \in Nat
    BY <1>1, <1>2, MulNat
  <1>4. m + n = BLK * (p + q) /\ m - n = BLK * (p - q)
    BY <1>1, <1>2
  <1>5. m >= n => p - q \in Nat
    <2>1. ASSUME m >= n, p < q PROVE FALSE
      <3>1. BLK * (q - p) > 0
        BY <2>1
      <3>2. BLK * (q - p) = n - m
        BY <1>1, <1>2
      <3> QED BY <1>3, <2>1, <3>1, <3>2
    <2> QED BY <2>1
  <1>6. m > 0 => m >= BLK
    <2>1. p = 0 => m = 0
      BY <1>1
    <2>2. p > 0 => BLK * p >= BLK
      OBVIOUS
    <2> QED BY <1>1, <2>1, <2>2
  <1>7. Whole(m + n)
    <2>1. p + q \in Nat
      OBVIOUS
    <2> QED BY <1>4, <2>1 DEF Whole
  <1>8. m >= n => Whole(m - n)
    <2> SUFFICES ASSUME m >= n PROVE \E i \in Nat : m - n = BLK * i
      BY DEF Whole
    <2> QED BY <1>4, <1>5
  <1> QED BY <1>3, <1>6, <1>7, <1>8

\* What the code's % and / say of a whole number of blocks, and no other.
LEMMA WholeQuotient ==
  ASSUME NEW n \in Nat
  PROVE  /\ Whole(n) <=> n % BLK = 0
         /\ Whole(n) => n \div BLK \in Nat /\ n = BLK * (n \div BLK)
         /\ Whole(0) /\ Whole(BLK * n) /\ Whole(CAP)
  <1>1. ASSUME Whole(n) PROVE n % BLK = 0 /\ n \div BLK \in Nat /\ n = BLK * (n \div BLK)
    <2>1. PICK q \in Nat : n = BLK * q
      BY <1>1 DEF Whole
    <2>2. 0 \in 0..(BLK - 1) /\ BLK * q + 0 = n
      BY <2>1, MulNat
    <2>3. n \div BLK = q /\ n % BLK = 0
      BY <2>2, Quotient
    <2> QED BY <2>1, <2>3
  <1>2. ASSUME NEW m \in Nat, m % BLK = 0 PROVE Whole(m)
    <2> DEFINE d == m \div BLK
               r == m % BLK
    <2>1. d \in Nat /\ r \in 0..(BLK - 1) /\ m = BLK * d + r
      OBVIOUS
    <2>2. m = BLK * (m \div BLK)
      BY <1>2, <2>1
    <2> QED BY <2>1, <2>2 DEF Whole
  <1>3. Whole(0)
    <2>1. 0 = BLK * 0
      OBVIOUS
    <2> QED BY <2>1 DEF Whole
  <1>4. Whole(BLK * n) /\ Whole(CAP)
    BY <1>2 DEF Whole
  <1> QED BY <1>1, <1>2, <1>3, <1>4

(***************************************************************************)
(* The inductive invariant.  A file is open at one descriptor at a time;   *)
(* everything moves in whole blocks; and for a live handle g with open     *)
(* file o, contents f, key k and the call c in progress on it:             *)
(*   - a write handle: what is in the file up to the position, followed by *)
(*     what its call has still to move, is the encryption of the chain;    *)
(*   - a read handle: what its call has received is what the file holds    *)
(*     from where the call began, and the chaining value, unless a write   *)
(*     through the handle has spoilt it, is the block before that;         *)
(*   - a call of the kind the handle was not opened for has moved nothing. *)
(***************************************************************************)
Enc(k, s) == Encrypt(k, << >>, s)
Before(k, f, p) == IF p = 0 THEN IV(k) ELSE BlockAt(f, p \div BLK)
Left(c) == IF c.op = "write" THEN c.count - c.offset ELSE 0
Got(c) == IF c.op = "read" THEN c.offset ELSE 0

Writer(g, o, f, c, k) ==
    /\ g.prev.key = k
    /\ c.op = "read" => c.offset = 0
    /\ o.pos + Left(c) = BLK * Len(g.prev.chain)
    /\ \A i \in 1..o.pos : f[i] = Enc(k, g.prev.chain)[i]
    /\ \A i \in 1..Left(c) : c.buf[c.offset + i] = Enc(k, g.prev.chain)[o.pos + i]

Reader(g, o, f, c, k) ==
    /\ Got(c) <= o.pos
    /\ c.op = "write" => c.offset = 0
    /\ g.prev # Torn => g.prev = Before(k, f, o.pos - Got(c))
    /\ \A i \in 1..Got(c) : c.buf[i] = f[o.pos - Got(c) + i]

InStep(g, o, f, c, k) ==
    /\ o.pos \in Nat /\ Whole(o.pos) /\ o.pos <= Len(f)
    /\ Whole(c.offset) /\ Whole(c.count)
    /\ g.mode = "w" => Writer(g, o, f, c, k)
    /\ g.mode = "r" => Reader(g, o, f, c, k)

\* The call in progress on handle h, if there is one.
CallOn(a, h) == IF call[a].op # "idle" /\ call[a].h = h THEN call[a] ELSE Idle

OpenAt(a, h) == fdt[a][handle[a][h].desc]
HandleInStep(a, h) ==
    Live(a, h) => InStep(handle[a][h], OpenAt(a, h), file[OpenAt(a, h).name],
                         CallOn(a, h), KeyOf(a, h))

OpenOnce ==
    \A a, b \in Apps : \A d, e \in Fds :
        (fdt[a][d].name # NoFile /\ fdt[a][d].name = fdt[b][e].name) => a = b /\ d = e

WholeFiles == \A n \in Names : Whole(Len(file[n]))
AllInStep == \A a \in Apps : \A h \in Handles : HandleInStep(a, h)

StepInv == OpenOnce /\ WholeFiles /\ AllInStep

(***************************************************************************)
(*                    The encryption of a whole chain                      *)
(***************************************************************************)

\* Prefixes of a concatenation.
LEMMA PrefixConcat ==
  ASSUME NEW s \in Chains, NEW d \in Chains
  PROVE  /\ s \o d \in Chains /\ Len(s \o d) = Len(s) + Len(d)
         /\ \A q \in 1..Len(s) : SubSeq(s \o d, 1, q) = SubSeq(s, 1, q)
         /\ \A q \in 1..Len(d) : SubSeq(s \o d, 1, Len(s) + q) = s \o SubSeq(d, 1, q)
         /\ \A q \in 1..Len(s) : SubSeq(s, 1, q) \in Chains /\ Len(SubSeq(s, 1, q)) = q
         /\ << >> \o d = d
  <1> DEFINE t == s \o d
  <1>1. /\ t \in Seq(Data) /\ Len(t) = Len(s) + Len(d) /\ << >> \o d = d
        /\ \A i \in 1..Len(t) : t[i] = IF i <= Len(s) THEN s[i] ELSE d[i - Len(s)]
    BY ConcatProperties DEF Chains
  <1>2. Len(s) \in Nat /\ Len(d) \in Nat
    BY DEF Chains
  <1> HIDE DEF t
  <1>3. ASSUME NEW u \in Seq(Data), NEW q \in 1..Len(u)
        PROVE  /\ SubSeq(u, 1, q) \in Seq(Data) /\ Len(SubSeq(u, 1, q)) = q
               /\ \A i \in 1..q : SubSeq(u, 1, q)[i] = u[i]
    BY SubSeqProperties
  <1>4. ASSUME NEW q \in 1..Len(s) PROVE SubSeq(t, 1, q) = SubSeq(s, 1, q)
    <2>1. q \in 1..Len(t) /\ s \in Seq(Data)
      BY <1>1, <1>2 DEF Chains
    <2>2. \A i \in 1..q : SubSeq(t, 1, q)[i] = SubSeq(s, 1, q)[i]
      BY <1>1, <1>2, <1>3, <2>1
    <2> QED BY <1>1, <1>3, <2>1, <2>2, SeqEqual
  <1>5. ASSUME NEW q \in 1..Len(d) PROVE SubSeq(t, 1, Len(s) + q) = s \o SubSeq(d, 1, q)
    <2> DEFINE e == SubSeq(d, 1, q)
               v == SubSeq(t, 1, Len(s) + q)
    <2>1. Len(s) + q \in 1..Len(t) /\ d \in Seq(Data) /\ s \in Seq(Data)
      BY <1>1, <1>2 DEF Chains
    <2>2. e \in Seq(Data) /\ Len(e) = q /\ \A i \in 1..q : e[i] = d[i]
      BY <1>3, <2>1
    <2>3. v \in Seq(Data) /\ Len(v) = Len(s) + q /\ \A i \in 1..(Len(s) + q) : v[i] = t[i]
      BY <1>1, <1>3, <2>1
    <2> HIDE DEF e, v
    <2>4. /\ s \o e \in Seq(Data) /\ Len(s \o e) = Len(s) + q
          /\ \A i \in 1..(Len(s) + q) :
                (s \o e)[i] = IF i <= Len(s) THEN s[i] ELSE e[i - Len(s)]
      <3>1. /\ s \o e \in Seq(Data) /\ Len(s \o e) = Len(s) + Len(e)
            /\ \A i \in 1..(Len(s) + Len(e)) :
                  (s \o e)[i] = IF i <= Len(s) THEN s[i] ELSE e[i - Len(s)]
        <4>1. e \in Seq(Data) /\ s \in Seq(Data)
          BY <2>1, <2>2
        <4> QED BY <4>1, ConcatProperties
      <3> QED BY <2>2, <3>1, Zenon
    <2>5. ASSUME NEW i \in 1..(Len(s) + q) PROVE v[i] = (s \o e)[i]
      <3>1. i \in 1..Len(t)
        BY <1>1, <1>2
      <3>2. v[i] = t[i]
        BY <2>3
      <3>3. CASE i <= Len(s)
        BY <1>1, <2>4, <3>1, <3>2, <3>3, Zenon
      <3>4. CASE ~(i <= Len(s))
        <4>1. i - Len(s) \in 1..q
          BY <1>2, <3>4
        <4> QED BY <1>1, <2>2, <2>4, <3>1, <3>2, <3>4, <4>1, Zenon
      <3> QED BY <3>3, <3>4
    <2>6. v = s \o e
      BY <2>3, <2>4, <2>5, SeqEqual
    <2> QED BY <2>6 DEF v, e
  <1> QED BY <1>1, <1>3, <1>4, <1>5 DEF t, Chains

\* The unit of a chain's encryption with index i.
UnitOf(k, s, i) ==
    [key |-> k, chain |-> SubSeq(s, 1, ((i - 1) \div BLK) + 1), part |-> ((i - 1) % BLK) + 1]

LEMMA EncUnits ==
  ASSUME NEW k \in Keys, NEW s \in Chains
  PROVE  /\ Enc(k, s) \in Seq(Unit) /\ Len(Enc(k, s)) = BLK * Len(s)
         /\ \A i \in 1..(BLK * Len(s)) :
               /\ ((i - 1) \div BLK) + 1 \in 1..Len(s)
               /\ Enc(k, s)[i] = UnitOf(k, s, i)
  <1>1. << >> \in Chains /\ Len(s) \in Nat
    BY DEF Chains
  <1>2. Enc(k, s) \in Seq(Unit) /\ Len(Enc(k, s)) = BLK * Len(s)
    BY <1>1, EncryptType DEF Enc
  <1>3. ASSUME NEW i \in 1..(BLK * Len(s))
        PROVE  ((i - 1) \div BLK) + 1 \in 1..Len(s) /\ Enc(k, s)[i] = UnitOf(k, s, i)
    <2> DEFINE q == ((i - 1) \div BLK) + 1
    <2>1. BLK * Len(s) \in Nat /\ i - 1 \in Nat
      BY <1>1, MulNat
    <2>2. (i - 1) \div BLK \in Nat /\ BLK * ((i - 1) \div BLK) <= i - 1
      BY <2>1, DivMod
    <2>3. q \in 1..Len(s)
      <3>1. BLK * ((i - 1) \div BLK) < BLK * Len(s)
        BY <2>1, <2>2
      <3>2. (i - 1) \div BLK < Len(s)
        BY <1>1, <2>2, <3>1
      <3> QED BY <1>1, <2>2, <3>2
    <2>4. Enc(k, s)[i] = [key |-> k, chain |-> << >> \o SubSeq(s, 1, q),
                          part |-> ((i - 1) % BLK) + 1]
      BY DEF Enc, Encrypt
    <2> HIDE DEF q
    <2>5. SubSeq(s, 1, q) \in Chains
      BY <1>1, <2>3, PrefixConcat
    <2>6. << >> \o SubSeq(s, 1, q) = SubSeq(s, 1, q)
      BY <1>1, <2>5, PrefixConcat
    <2> QED BY <2>3, <2>4, <2>6 DEF UnitOf, q
  <1> QED BY <1>2, <1>3

\* Encrypting d where s left off continues the encryption of s.
LEMMA EncConcat ==
  ASSUME NEW k \in Keys, NEW s \in Chains, NEW d \in Chains
  PROVE  /\ \A i \in 1..(BLK * Len(s)) : Enc(k, s \o d)[i] = Enc(k, s)[i]
         /\ \A i \in 1..(BLK * Len(d)) :
               Enc(k, s \o d)[BLK * Len(s) + i] = Encrypt(k, s, d)[i]
  <1> DEFINE t == s \o d
             n == BLK * Len(s)
             m == BLK * Len(d)
  <1>1. t \in Chains /\ Len(t) = Len(s) + Len(d) /\ Len(s) \in Nat /\ Len(d) \in Nat
    BY PrefixConcat DEF Chains
  <1>2. n \in Nat /\ m \in Nat /\ BLK * Len(t) = n + m
    BY <1>1, MulNat
  <1> HIDE DEF t
  <1>3. ASSUME NEW i \in 1..n PROVE Enc(k, t)[i] = Enc(k, s)[i]
    <2> DEFINE q == ((i - 1) \div BLK) + 1
    <2>1. i \in 1..(BLK * Len(t))
      BY <1>2
    <2>2. q \in 1..Len(s) /\ Enc(k, s)[i] = UnitOf(k, s, i)
      BY EncUnits
    <2>3. Enc(k, t)[i] = UnitOf(k, t, i)
      BY <1>1, <2>1, EncUnits
    <2> HIDE DEF q
    <2>4. SubSeq(t, 1, q) = SubSeq(s, 1, q)
      BY <2>2, PrefixConcat DEF t
    <2> QED BY <2>2, <2>3, <2>4 DEF UnitOf, q
  <1>4. ASSUME NEW i \in 1..m PROVE Enc(k, t)[n + i] = Encrypt(k, s, d)[i]
    <2> DEFINE p == (i - 1) \div BLK
               r == (i - 1) % BLK
    <2>1. n + i \in 1..(BLK * Len(t)) /\ n + i - 1 = n + (i - 1) /\ i - 1 \in Nat
      BY <1>2
    <2>2. p \in Nat /\ r \in 0..(BLK - 1) /\ i - 1 = BLK * p + r
      BY SMTT(60), <2>1
    <2>3. p + 1 \in 1..Len(d)
      BY EncUnits
    <2>4. Encrypt(k, s, d)[i] = [key |-> k, chain |-> s \o SubSeq(d, 1, p + 1), part |-> r + 1]
      BY DEF Encrypt
    <2> HIDE DEF p, r
    <2>5. n + i - 1 = BLK * (Len(s) + p) + r
      <3>1. BLK * (Len(s) + p) = n + BLK * p
        BY <1>1, <2>2
      <3>2. BLK * p \in Nat /\ r \in Nat
        BY <2>2, MulNat
      <3> DEFINE x == BLK * p
                 y == BLK * (Len(s) + p)
      <3> HIDE DEF n, x, y
      <3>3. y = n + x /\ i - 1 = x + r /\ n + i - 1 = n + (i - 1) /\ x \in Nat /\ n \in Nat
        BY <1>2, <2>1, <2>2, <3>1, <3>2 DEF x, y
      <3>4. n + i - 1 = y + r
        BY <3>2, <3>3
      <3> QED BY <3>4 DEF y
    <2>6. (n + i - 1) \div BLK = Len(s) + p /\ (n + i - 1) % BLK = r
      <3>1. Len(s) + p \in Nat
        BY <1>1, <2>2
      <3>2. /\ (BLK * (Len(s) + p) + r) \div BLK = Len(s) + p
            /\ (BLK * (Len(s) + p) + r) % BLK = r
        BY <2>2, <3>1, Quotient
      <3> QED BY <2>5, <3>2, Zenon
    <2>7. Enc(k, t)[n + i] = UnitOf(k, t, n + i)
      BY <1>1, <2>1, EncUnits
    <2>8. SubSeq(t, 1, Len(s) + (p + 1)) = s \o SubSeq(d, 1, p + 1)
      <3>1. \A q \in 1..Len(d) : SubSeq(t, 1, Len(s) + q) = s \o SubSeq(d, 1, q)
        BY ZenonT(60), PrefixConcat DEF t
      <3> QED BY <2>3, <3>1
    <2>9. Len(s) + (p + 1) = Len(s) + p + 1
      BY <1>1, <2>2
    <2> HIDE DEF n
    <2>10. UnitOf(k, t, n + i) = [key |-> k, chain |-> SubSeq(t, 1, Len(s) + p + 1),
                                  part |-> r + 1]
      <3>1. ASSUME NEW j, NEW x, NEW y, (j - 1) \div BLK = x, (j - 1) % BLK = y
            PROVE  UnitOf(k, t, j) = [key |-> k, chain |-> SubSeq(t, 1, x + 1),
                                      part |-> y + 1]
        BY <3>1, Zenon DEF UnitOf
      <3>2. (n + i) - 1 = n + i - 1
        BY <1>2, <2>1
      <3> QED BY <2>6, <3>1, <3>2, ZenonT(60)
    <2> QED BY <2>4, <2>7, <2>8, <2>9, <2>10, Zenon
  <1> QED BY <1>3, <1>4 DEF t

(***************************************************************************)
(* The transitions of one handle, each as the code makes it.               *)
(***************************************************************************)

\* write(2) at a position inside the file or at its end.
LEMMA SpliceUnits ==
  ASSUME NEW c \in Seq(Unit), NEW p \in Nat, p <= Len(c), NEW d \in Seq(Unit)
  PROVE  /\ Splice(c, p, d) \in Seq(Unit)
         /\ Len(Splice(c, p, d)) = IF p + Len(d) > Len(c) THEN p + Len(d) ELSE Len(c)
         /\ \A i \in 1..p : Splice(c, p, d)[i] = c[i]
         /\ \A i \in 1..Len(d) : Splice(c, p, d)[p + i] = d[i]
  <1> DEFINE m == IF p + Len(d) > Len(c) THEN p + Len(d) ELSE Len(c)
             e(i) == IF i > p /\ i <= p + Len(d) THEN d[i - p]
                     ELSE IF i <= Len(c) THEN c[i] ELSE Hole
  <1>1. m \in Nat /\ Len(c) \in Nat /\ Len(d) \in Nat
    OBVIOUS
  <1>2. Splice(c, p, d) = [i \in 1..m |-> e(i)]
    BY DEF Splice
  <1>3. Splice(c, p, d) \in Seq(Unit)
    BY SpliceType
  <1>4. Len(Splice(c, p, d)) = m
    <2> HIDE DEF m, e
    <2> QED BY <1>1, <1>2, <1>3
  <1>5. ASSUME NEW i \in 1..p PROVE Splice(c, p, d)[i] = c[i]
    <2>1. i \in 1..m /\ ~(i > p) /\ i <= Len(c)
      BY <1>1
    <2>2. e(i) = c[i]
      BY <2>1
    <2> HIDE DEF m, e
    <2> QED BY <1>2, <2>1, <2>2
  <1>6. ASSUME NEW i \in 1..Len(d) PROVE Splice(c, p, d)[p + i] = d[i]
    <2>1. p + i \in 1..m /\ p + i > p /\ p + i <= p + Len(d) /\ (p + i) - p = i
      BY <1>1
    <2>2. e(p + i) = d[i]
      BY <2>1
    <2> HIDE DEF m, e
    <2> QED BY <1>2, <2>1, <2>2
  <1> QED BY <1>3, <1>4, <1>5, <1>6

\* What InStep says with no call in progress.
LEMMA IdleParts == Left(Idle) = 0 /\ Got(Idle) = 0 /\ Idle.op = "idle" /\ Idle.offset = 0 /\ Idle.count = 0
  BY DEF Left, Got, Idle

\* A handle just opened: nothing written, nothing read.
LEMMA OpenStep ==
  ASSUME NEW g, NEW o, NEW f \in Seq(Unit), NEW k, o.pos = 0, g.prev = IV(k)
  PROVE  InStep(g, o, f, Idle, k)
  <1>1. BLK * 0 = 0 /\ 1..0 = {}
    OBVIOUS
  <1>2. g.prev.key = k /\ g.prev.chain = << >> /\ Len(<< >>) = 0
    BY DEF IV
  <1>3. Whole(0)
    BY WholeQuotient
  <1>4. Writer(g, o, f, Idle, k)
    BY <1>1, <1>2, IdleParts DEF Writer
  <1>5. Reader(g, o, f, Idle, k)
    BY <1>1, IdleParts DEF Reader, Before
  <1> QED BY <1>3, <1>4, <1>5, IdleParts DEF InStep

\* TEE_WriteObjectData on a write handle: the chain is ahead of the file by the
\* blocks that its call has to move.
LEMMA WriteStartStep ==
  ASSUME NEW g, NEW o, NEW f, NEW k \in Keys, NEW d \in Chains, g.mode = "w",
         g.prev.chain \in Chains, InStep(g, o, f, Idle, k), NEW g2, NEW c2,
         g2.mode = g.mode, g2.prev = [key |-> k, chain |-> g.prev.chain \o d],
         c2.op = "write", c2.offset = 0, c2.count = BLK * Len(d),
         c2.buf = Encrypt(k, g.prev.chain, d)
  PROVE  InStep(g2, o, f, c2, k)
  <1> DEFINE s == g.prev.chain
             m == BLK * Len(d)
  <1>1. Len(s) \in Nat /\ Len(d) \in Nat /\ Len(s \o d) = Len(s) + Len(d)
    BY PrefixConcat DEF Chains
  <1>2. /\ g.prev.key = k /\ o.pos + 0 = BLK * Len(s) /\ o.pos \in Nat
        /\ \A i \in 1..o.pos : f[i] = Enc(k, s)[i]
    BY IdleParts DEF InStep, Writer
  <1>0. /\ \A i \in 1..(BLK * Len(s)) : Enc(k, s \o d)[i] = Enc(k, s)[i]
        /\ \A i \in 1..m : Enc(k, s \o d)[BLK * Len(s) + i] = Encrypt(k, s, d)[i]
    BY EncConcat
  <1>3. m \in Nat /\ BLK * Len(s) \in Nat /\ BLK * (Len(s) + Len(d)) = BLK * Len(s) + m
    <2>1. ASSUME NEW x \in Nat, NEW y \in Nat
          PROVE  BLK * x \in Nat /\ BLK * (x + y) = BLK * x + BLK * y
      OBVIOUS
    <2> HIDE DEF s
    <2> QED BY <1>1, <2>1
  <1>4. o.pos = BLK * Len(s)
    BY <1>2
  <1>5. Left(c2) = m /\ c2.op # "read"
    BY <1>3 DEF Left
  <1>6. g2.prev.key = k /\ g2.prev.chain = s \o d
    OBVIOUS
  <1>7. \A i \in 1..o.pos : f[i] = Enc(k, s \o d)[i]
    <2> HIDE DEF s
    <2> QED BY <1>0, <1>2, <1>4
  <1>8. \A i \in 1..m : c2.buf[i] = Enc(k, s \o d)[o.pos + i]
    <2> HIDE DEF m
    <2> QED BY <1>0, <1>4
  <1>9. \A i \in 1..m : c2.offset + i = i
    BY <1>3
  <1> HIDE DEF m, s
  <1>10. Writer(g2, o, f, c2, k)
    <2>1. o.pos + Left(c2) = BLK * Len(s \o d)
      BY <1>1, <1>3, <1>4, <1>5
    <2>2. \A i \in 1..Left(c2) : c2.buf[c2.offset + i] = Enc(k, s \o d)[o.pos + i]
      BY <1>5, <1>8, <1>9
    <2> QED BY <1>5, <1>6, <1>7, <2>1, <2>2, Zenon DEF Writer
  <1>11. Whole(c2.count) /\ Whole(c2.offset)
    BY <1>1, WholeQuotient
  <1> QED BY <1>10, <1>11 DEF InStep

\* A write through a read handle spoils the chaining value, and nothing else.
LEMMA WriteSpoils ==
  ASSUME NEW g, NEW o, NEW f, NEW k, g.mode = "r", InStep(g, o, f, Idle, k),
         NEW g2, NEW c2, g2.mode = g.mode, g2.prev = Torn,
         c2.op = "write", c2.offset = 0, Whole(c2.offset), Whole(c2.count)
  PROVE  InStep(g2, o, f, c2, k)
  <1>1. Got(c2) = 0 /\ 1..0 = {}
    BY DEF Got
  <1>2. Reader(g2, o, f, c2, k)
    BY <1>1 DEF InStep, Reader
  <1> QED BY <1>2 DEF InStep

\* The n units that call c sends next.
IsChunk(d, c, n) ==
    d \in Seq(Unit) /\ Len(d) = n /\ \A i \in 1..n : d[i] = c.buf[c.offset + i]

\* Call c2 and open file o2 are what c and o become when n units have moved.
MovedTo(c2, o2, c, o, n) ==
    /\ o2.pos = o.pos + n /\ c2.op = c.op /\ c2.buf = c.buf
    /\ c2.count = c.count /\ c2.offset = c.offset + n

\* One pass of the write loop moves the next n units from buffer to file.
LEMMA WritePassStep ==
  ASSUME NEW g, NEW o, NEW f \in Seq(Unit), NEW c, NEW k, g.mode = "w", c.op = "write",
         InStep(g, o, f, c, k), c.offset \in Nat, c.count \in Nat, c.offset <= c.count,
         NEW n \in Nat, n <= c.count - c.offset, Whole(n), Whole(Len(f)),
         NEW d, IsChunk(d, c, n), NEW o2, NEW c2, MovedTo(c2, o2, c, o, n)
  PROVE  InStep(g, o2, Splice(f, o.pos, d), c2, k) /\ Whole(Len(Splice(f, o.pos, d)))
  <1>a. d \in Seq(Unit) /\ Len(d) = n /\ \A i \in 1..n : d[i] = c.buf[c.offset + i]
    BY DEF IsChunk
  <1>b. /\ o2.pos = o.pos + n /\ c2.op = c.op /\ c2.buf = c.buf
        /\ c2.count = c.count /\ c2.offset = c.offset + n
    BY DEF MovedTo
  <1> USE <1>a, <1>b
  <1> DEFINE f2 == Splice(f, o.pos, d)
             p == o.pos
             E == Enc(k, g.prev.chain)
             L == c.count - c.offset
  <1>0. p \in Nat /\ Whole(p) /\ p <= Len(f) /\ Whole(c.offset) /\ Whole(c.count)
    BY DEF InStep
  <1>1. /\ g.prev.key = k /\ p + L = BLK * Len(g.prev.chain)
        /\ \A i \in 1..p : f[i] = E[i]
        /\ \A i \in 1..L : c.buf[c.offset + i] = E[p + i]
    BY DEF InStep, Writer, Left
  <1>2. /\ Len(f2) = IF p + n > Len(f) THEN p + n ELSE Len(f)
        /\ \A i \in 1..p : f2[i] = f[i]
        /\ \A i \in 1..n : f2[p + i] = d[i]
    <2> HIDE DEF p
    <2>1. p \in Nat /\ p <= Len(f)
      BY <1>0
    <2> DEFINE S == Splice(f, p, d)
    <2>2. /\ Len(S) = IF p + Len(d) > Len(f) THEN p + Len(d) ELSE Len(f)
          /\ \A i \in 1..p : S[i] = f[i]
          /\ \A i \in 1..Len(d) : S[p + i] = d[i]
      <3>1. Len(S) = IF p + Len(d) > Len(f) THEN p + Len(d) ELSE Len(f)
        BY <2>1, SpliceUnits
      <3>2. \A i \in 1..p : S[i] = f[i]
        BY <2>1, SpliceUnits
      <3>3. ASSUME NEW i \in 1..Len(d) PROVE S[p + i] = d[i]
        <4>1. ASSUME NEW e \in Seq(Unit), NEW j \in 1..Len(e)
              PROVE  Splice(f, p, e)[p + j] = e[j]
          BY <2>1, SpliceUnits
        <4> QED BY <4>1
      <3> QED BY <3>1, <3>2, <3>3
    <2>3. f2 = S
      BY DEF p
    <2> HIDE DEF S, f2
    <2> QED BY <2>2, <2>3
  <1>3. Whole(p + n) /\ Whole(c.offset + n) /\ L \in Nat /\ Len(f) \in Nat
    BY <1>0, WholeSums
  <1> HIDE DEF f2, p, E, L
  <1>4. Whole(Len(f2)) /\ p + n <= Len(f2)
    BY <1>0, <1>2, <1>3
  <1>5. ASSUME NEW i \in 1..(p + n) PROVE f2[i] = E[i]
    <2>1. CASE i \in 1..p
      BY <1>1, <1>2, <2>1
    <2>2. CASE i \notin 1..p
      <3>1. PICK j \in 1..n : i = p + j
        <4>1. i - p \in 1..n /\ i = p + (i - p)
          BY <1>0, <2>2
        <4> QED BY <4>1
      <3>2. f2[p + j] = d[j] /\ d[j] = c.buf[c.offset + j]
        BY <1>2
      <3>3. j \in 1..L
        BY <1>3 DEF L
      <3> QED BY <1>1, <3>1, <3>2, <3>3
    <2> QED BY <2>1, <2>2
  <1>6. Left(c2) = L - n /\ c2.op # "read"
    BY DEF Left, L
  <1>7. ASSUME NEW i \in 1..(L - n) PROVE c2.buf[c2.offset + i] = E[(p + n) + i]
    <2>1. n + i \in 1..L /\ c.offset + (n + i) = (c.offset + n) + i /\ p + (n + i) = (p + n) + i
      BY SMTT(60), <1>0, <1>3
    <2> QED BY <1>1, <2>1
  <1>8. Writer(g, o2, f2, c2, k)
    <2>1. o2.pos = p + n /\ (p + n) + (L - n) = BLK * Len(g.prev.chain)
      BY <1>0, <1>1, <1>3 DEF p
    <2> QED BY <1>1, <1>5, <1>6, <1>7, <2>1 DEF Writer, E
  <1>9. InStep(g, o2, f2, c2, k)
    BY <1>0, <1>3, <1>4, <1>8 DEF InStep, p
  <1> QED BY <1>4, <1>9 DEF f2, p

\* A write call ends: of a write handle because nothing is left to move.
LEMMA WriteEndStep ==
  ASSUME NEW g, NEW o, NEW f, NEW c, NEW k, InStep(g, o, f, c, k), c.op = "write",
         g.mode = "w" => c.count = c.offset, c.count \in Nat
  PROVE  InStep(g, o, f, Idle, k)
  <1>1. Got(c) = 0
    BY DEF Got
  <1>2. g.mode = "w" => Left(c) = 0
    BY DEF Left
  <1>3. Whole(0)
    BY WholeQuotient
  <1>4. g.mode = "w" => Writer(g, o, f, Idle, k)
    BY <1>2, IdleParts DEF InStep, Writer
  <1>5. g.mode = "r" => Reader(g, o, f, Idle, k)
    BY <1>1, IdleParts DEF InStep, Reader
  <1> QED BY <1>3, <1>4, <1>5, IdleParts DEF InStep

\* TEE_ReadObjectData begins, on either kind of handle.
LEMMA ReadStartStep ==
  ASSUME NEW g, NEW o, NEW f, NEW k, InStep(g, o, f, Idle, k),
         NEW c, c.op = "read", c.offset = 0, Whole(c.count)
  PROVE  InStep(g, o, f, c, k)
  <1>1. Got(c) = 0 /\ Left(c) = 0
    BY DEF Got, Left
  <1>2. Whole(0) /\ 1..0 = {}
    BY WholeQuotient
  <1>3. g.mode = "w" => Writer(g, o, f, c, k)
    BY <1>1, <1>2, IdleParts DEF InStep, Writer
  <1>4. g.mode = "r" => Reader(g, o, f, c, k)
    BY <1>1, <1>2, IdleParts DEF InStep, Reader
  <1> QED BY <1>2, <1>3, <1>4 DEF InStep

\* The units of a buffer that has grown.
LEMMA GrownBuffer ==
  ASSUME NEW v \in Seq(Unit), NEW u \in Seq(Unit)
  PROVE  /\ v \o u \in Seq(Unit)
         /\ \A i \in 1..Len(v) : (v \o u)[i] = v[i]
         /\ \A i \in 1..Len(u) : (v \o u)[Len(v) + i] = u[i]
  OBVIOUS

\* The n units of f at the position of o, and call c2 that has received them.
IsRead(u, o, f, n) ==
    /\ u \in Seq(Unit) /\ Len(u) = n /\ \A i \in 1..n : u[i] = f[o.pos + i]
    /\ o.pos + n <= Len(f)
Received(c2, o2, c, o, u) ==
    /\ o2.pos = o.pos + Len(u) /\ c2.op = c.op /\ c2.buf = c.buf \o u
    /\ c2.count = c.count /\ c2.offset = c.offset + Len(u)

\* One pass of the read loop: n more units of the file.
LEMMA ReadPassStep ==
  ASSUME NEW g, NEW o, NEW f, NEW c, NEW k, g.mode = "r", c.op = "read",
         InStep(g, o, f, c, k), c.offset \in Nat, c.buf \in Seq(Unit), Len(c.buf) = c.offset,
         NEW n \in Nat, Whole(n), NEW u, IsRead(u, o, f, n),
         NEW o2, NEW c2, Received(c2, o2, c, o, u)
  PROVE  InStep(g, o2, f, c2, k)
  <1>a. /\ u \in Seq(Unit) /\ Len(u) = n /\ \A i \in 1..n : u[i] = f[o.pos + i]
        /\ o.pos + n <= Len(f)
    BY DEF IsRead
  <1>b. /\ o2.pos = o.pos + n /\ c2.op = c.op /\ c2.buf = c.buf \o u
        /\ c2.count = c.count /\ c2.offset = c.offset + n
    BY <1>a DEF Received
  <1> USE <1>a, <1>b
  <1> DEFINE p == o.pos
             b == c.offset
  <1>0. p \in Nat /\ b \in Nat /\ Whole(p) /\ p <= Len(f) /\ Whole(b) /\ Whole(c.count)
    BY DEF InStep
  <1>1. /\ b <= p /\ (g.prev # Torn => g.prev = Before(k, f, p - b))
        /\ \A i \in 1..b : c.buf[i] = f[p - b + i]
    BY DEF InStep, Reader, Got
  <1>2. Whole(p + n) /\ Whole(b + n) /\ p + n \in Nat
    BY <1>0, WholeSums
  <1> HIDE DEF p, b
  <1>3. (p + n) - (b + n) = p - b
    BY <1>0
  <1>4. /\ c.buf \o u \in Seq(Unit)
        /\ \A i \in 1..b : (c.buf \o u)[i] = c.buf[i]
        /\ \A i \in 1..n : (c.buf \o u)[b + i] = u[i]
    <2> DEFINE v == c.buf
    <2>1. v \in Seq(Unit) /\ Len(v) = b
      BY DEF b
    <2> HIDE DEF v
    <2>2. /\ v \o u \in Seq(Unit)
          /\ \A i \in 1..b : (v \o u)[i] = v[i]
          /\ \A i \in 1..n : (v \o u)[b + i] = u[i]
      BY SMTT(60), <2>1, GrownBuffer
    <2> QED BY <2>2 DEF v
  <1>5. ASSUME NEW i \in 1..(b + n) PROVE (c.buf \o u)[i] = f[((p + n) - (b + n)) + i]
    <2>1. CASE i \in 1..b
      BY <1>1, <1>3, <1>4, <2>1
    <2>2. CASE i \notin 1..b
      <3>1. PICK j \in 1..n : i = b + j
        <4>1. i - b \in 1..n /\ i = b + (i - b)
          BY <1>0, <2>2
        <4> QED BY <4>1
      <3>2. (c.buf \o u)[i] = f[p + j]
        BY <1>4, <3>1 DEF p
      <3>3. p - b + i = p + j
        BY <1>0, <3>1
      <3> QED BY <1>3, <3>2, <3>3
    <2> QED BY <2>1, <2>2
  <1>6. Got(c2) = b + n /\ o2.pos = p + n
    BY DEF Got, b, p
  <1>7. Reader(g, o2, f, c2, k)
    <2>1. b + n <= p + n
      BY <1>0, <1>1
    <2> QED BY <1>1, <1>3, <1>5, <1>6, <2>1 DEF Reader
  <1> QED BY <1>0, <1>2, <1>6, <1>7 DEF InStep, b, p

\* The first m blocks of u are the m blocks of f after the first q.
CopyOf(u, f, q, m) == \A i \in 1..(BLK * m) : u[i] = f[BLK * q + i]

\* The blocks of a buffer are those of the part of the file it was read from.
LEMMA BlockShift ==
  ASSUME NEW u, NEW f, NEW q \in Nat, NEW m \in Nat, CopyOf(u, f, q, m), NEW j \in 1..m
  PROVE  BlockAt(u, j) = BlockAt(f, q + j)
  <1> DEFINE x == (j - 1) * BLK
             y == ((q + j) - 1) * BLK
  <1>1. x \in Nat /\ y = BLK * q + x /\ x + BLK <= BLK * m /\ BLK * q \in Nat /\ BLK * m \in Nat
    <2>0. ASSUME NEW v \in Nat, NEW w \in Nat
          PROVE  /\ BLK * v \in Nat /\ v * BLK \in Nat /\ v * BLK = BLK * v
                 /\ BLK * (v + w) = BLK * v + BLK * w
      OBVIOUS
    <2>a. j - 1 \in Nat /\ m - j \in Nat /\ 1 \in Nat /\ BLK * 1 = BLK
      OBVIOUS
    <2>b. (q + j) - 1 = q + (j - 1) /\ q + (j - 1) \in Nat
      OBVIOUS
    <2>c. (j - 1) + 1 = j /\ j + (m - j) = m /\ j \in Nat
      OBVIOUS
    <2>d. x = BLK * (j - 1) /\ x \in Nat
      BY <2>0, <2>a
    <2>e. BLK * j = x + BLK
      <3>1. BLK * ((j - 1) + 1) = BLK * (j - 1) + BLK * 1
        BY <2>0, <2>a
      <3> QED BY <2>a, <2>c, <2>d, <3>1
    <2>f. BLK * m = BLK * j + BLK * (m - j) /\ BLK * (m - j) \in Nat
      BY <2>0, <2>a, <2>c, SMTT(60)
    <2>1. x + BLK <= BLK * m
      <3> DEFINE X == BLK * m
                 Y == BLK * (m - j)
      <3>1. X = x + BLK + Y /\ Y \in Nat /\ X \in Nat
        BY <2>0, <2>e, <2>f
      <3> HIDE DEF X, Y, x
      <3> QED BY <2>d, <3>1 DEF X
    <2>2. x \in Nat
      BY <2>d
    <2>3. y = BLK * q + x
      <3>1. y = BLK * (q + (j - 1))
        BY <2>0, <2>b, Zenon
      <3>2. BLK * (q + (j - 1)) = BLK * q + BLK * (j - 1)
        BY <2>0, <2>a
      <3> QED BY <2>d, <3>1, <3>2
    <2>4. BLK * q \in Nat /\ BLK * m \in Nat
      BY MulNat
    <2> HIDE DEF x, y
    <2> QED BY <2>1, <2>2, <2>3, <2>4
  <1> HIDE DEF x, y
  <1>2. ASSUME NEW i \in 1..BLK PROVE u[x + i] = f[y + i]
    <2>1. x + i \in 1..(BLK * m) /\ y + i = BLK * q + (x + i)
      BY <1>1
    <2> QED BY <2>1 DEF CopyOf
  <1>3. 1 \in 1..BLK
    OBVIOUS
  <1>4. /\ BlockAt(u, j) =
             IF u[x + 1].key # NoKey /\ u[x + 1].chain # << >>
                /\ \A i \in 1..BLK :
                      u[x + i] = [key |-> u[x + 1].key, chain |-> u[x + 1].chain, part |-> i]
             THEN [key |-> u[x + 1].key, chain |-> u[x + 1].chain] ELSE Torn
        /\ BlockAt(f, q + j) =
             IF f[y + 1].key # NoKey /\ f[y + 1].chain # << >>
                /\ \A i \in 1..BLK :
                      f[y + i] = [key |-> f[y + 1].key, chain |-> f[y + 1].chain, part |-> i]
             THEN [key |-> f[y + 1].key, chain |-> f[y + 1].chain] ELSE Torn
    BY Zenon DEF BlockAt, x, y
  <1>5. u[x + 1] = f[y + 1]
    BY <1>2, <1>3
  <1>6. ASSUME NEW e
        PROVE  (\A i \in 1..BLK : u[x + i] = [key |-> e.key, chain |-> e.chain, part |-> i])
               <=> (\A i \in 1..BLK : f[y + i] = [key |-> e.key, chain |-> e.chain, part |-> i])
    BY <1>2
  <1> DEFINE e == f[y + 1]
             P == \A i \in 1..BLK : u[x + i] = [key |-> e.key, chain |-> e.chain, part |-> i]
             Q == \A i \in 1..BLK : f[y + i] = [key |-> e.key, chain |-> e.chain, part |-> i]
             R(c) == IF e.key # NoKey /\ e.chain # << >> /\ c
                     THEN [key |-> e.key, chain |-> e.chain] ELSE Torn
  <1>7. P <=> Q
    BY <1>6
  <1>8. BlockAt(u, j) = R(P)
    <2> DEFINE T(w) == IF w.key # NoKey /\ w.chain # << >>
                          /\ \A i \in 1..BLK :
                                u[x + i] = [key |-> w.key, chain |-> w.chain, part |-> i]
                       THEN [key |-> w.key, chain |-> w.chain] ELSE Torn
    <2>1. BlockAt(u, j) = T(u[x + 1])
      BY <1>4, Zenon
    <2>2. T(e) = R(P)
      BY Zenon
    <2> HIDE DEF T, R, P
    <2> QED BY <1>5, <2>1, <2>2
  <1>9. BlockAt(f, q + j) = R(Q)
    BY <1>4, Zenon
  <1> HIDE DEF P, Q
  <1> QED BY <1>7, <1>8, <1>9

\* TEE_ReadObjectData ends: nothing was read, or the chaining value becomes the
\* last block read.
LEMMA ReadEndStep ==
  ASSUME NEW g, NEW o, NEW f, NEW c, NEW k, InStep(g, o, f, c, k), c.op = "read",
         c.offset \in Nat, c.buf \in Seq(Unit), Len(c.buf) = c.offset
  PROVE  /\ c.offset = 0 => InStep(g, o, f, Idle, k)
         /\ \A g2 : (g.mode = "r" /\ c.offset > 0 /\ g2.mode = g.mode
                     /\ g2.prev = LastBlock(c.buf)) => InStep(g2, o, f, Idle, k)
  <1>1. Got(c) = c.offset /\ Left(c) = 0 /\ 1..0 = {} /\ Whole(0)
    BY WholeQuotient DEF Got, Left
  <1>2. ASSUME c.offset = 0 PROVE InStep(g, o, f, Idle, k)
    <2>1. g.mode = "w" => Writer(g, o, f, Idle, k)
      BY <1>1, <1>2, IdleParts DEF InStep, Writer
    <2>2. g.mode = "r" => Reader(g, o, f, Idle, k)
      BY <1>1, <1>2, IdleParts DEF InStep, Reader
    <2> QED BY <1>1, <2>1, <2>2, IdleParts DEF InStep
  <1>3. ASSUME NEW g2, g.mode = "r", c.offset > 0, g2.mode = g.mode,
               g2.prev = LastBlock(c.buf)
        PROVE  InStep(g2, o, f, Idle, k)
    <2>1. /\ o.pos \in Nat /\ Whole(o.pos) /\ o.pos <= Len(f) /\ Whole(c.offset)
          /\ c.offset <= o.pos
          /\ \A i \in 1..c.offset : c.buf[i] = f[o.pos - c.offset + i]
      BY <1>1, <1>3 DEF InStep, Reader
    <2> DEFINE m == c.offset \div BLK
               q == (o.pos - c.offset) \div BLK
    <2>2. Whole(o.pos - c.offset) /\ o.pos - c.offset \in Nat
      BY <2>1, WholeSums
    <2>3. m \in Nat /\ c.offset = BLK * m
      BY <2>1, WholeQuotient
    <2>4. q \in Nat /\ o.pos - c.offset = BLK * q
      BY <2>2, WholeQuotient
    <2> HIDE DEF m, q
    <2>5. m \in 1..m
      <3>1. m # 0
        BY <1>3, <2>3
      <3> QED BY <2>3, <3>1
    <2>6. BlockAt(c.buf, m) = BlockAt(f, q + m)
      <3>1. \A i \in 1..(BLK * m) : c.buf[i] = f[BLK * q + i]
        BY <2>1, <2>3, <2>4
      <3>2. CopyOf(c.buf, f, q, m)
        BY <3>1 DEF CopyOf
      <3> QED BY <2>3, <2>4, <2>5, <3>2, BlockShift
    <2>7. o.pos \div BLK = q + m
      <3>1. o.pos = BLK * (q + m) + 0 /\ q + m \in Nat /\ 0 \in 0..(BLK - 1)
        <4> DEFINE x == BLK * q
                   y == BLK * m
                   z == BLK * (q + m)
        <4>1. z = x + y /\ x \in Nat /\ y \in Nat
          BY <2>3, <2>4
        <4>2. c.offset = y /\ o.pos - c.offset = x
          BY <2>3, <2>4
        <4> HIDE DEF x, y, z
        <4>3. o.pos = z + 0
          BY <2>1, <4>1, <4>2
        <4> QED BY <2>3, <2>4, <4>3 DEF z
      <3>2. (BLK * (q + m) + 0) \div BLK = q + m
        BY <3>1, Quotient
      <3> QED BY <3>1, <3>2, Zenon
    <2>8. LastBlock(c.buf) = Before(k, f, o.pos)
      <3>1. LastBlock(c.buf) = BlockAt(c.buf, m)
        BY DEF LastBlock, m
      <3>2. o.pos # 0
        BY <1>3, <2>1
      <3> QED BY <2>6, <2>7, <3>1, <3>2 DEF Before
    <2>9. Reader(g2, o, f, Idle, k)
      BY <1>1, <1>3, <2>1, <2>8, IdleParts DEF Reader
    <2> QED BY <1>1, <1>3, <2>1, <2>9, IdleParts DEF InStep
  <1> QED BY <1>2, <1>3

(***************************************************************************)
(*                     From one handle to the system                       *)
(***************************************************************************)

\* Without host faults no step may take one.
LEMMA NoFaults ==
  ASSUME Safe, MaxFaults = 0, NEW k \in Nat, Faults(k)
  PROVE  k = 0
  <1>1. faults \in 0..0
    BY DEF Safe, TypeOK
  <1> QED BY <1>1 DEF Faults

\* The parts of a live handle.
LEMMA LiveParts ==
  ASSUME Safe, DescriptorsOwned, NEW a \in Apps, NEW h \in Handles, Live(a, h)
  PROVE  /\ handle[a][h] \in HandleRec /\ handle[a][h].desc \in Fds
         /\ handle[a][h].id \in ObjectIDs /\ KeyOf(a, h) \in Keys
         /\ OpenAt(a, h) \in OpenFile /\ OpenAt(a, h).name \in Names
         /\ OpenAt(a, h).mode = handle[a][h].mode /\ OpenAt(a, h).pos \in Nat
         /\ file[OpenAt(a, h).name] \in Seq(Unit)
         /\ IsOpen(a, handle[a][h].desc)
  <1>0. HostOK /\ HandlesOK
    BY TypeParts DEF Safe
  <1>1. handle[a][h] \in HandleRec /\ handle[a][h].desc \in Fds /\ handle[a][h].id \in ObjectIDs
    BY <1>0 DEF HandlesOK
  <1>2. IsOpen(a, handle[a][h].desc) /\ OpenAt(a, h).mode = handle[a][h].mode
    BY DEF DescriptorsOwned, OpenAt
  <1>3. OpenAt(a, h) \in OpenFile /\ OpenAt(a, h).name \in Names
    BY <1>0, <1>2, OpenFd DEF OpenAt
  <1>4. OpenAt(a, h).pos \in Nat /\ file[OpenAt(a, h).name] \in Seq(Unit)
    BY <1>0, <1>3 DEF HostOK, OpenFile
  <1>5. KeyOf(a, h) \in Keys
    BY <1>1, KeyType DEF KeyOf
  <1> QED BY <1>1, <1>2, <1>3, <1>4, <1>5

\* A handle stays in step when nothing that concerns it changes.
LEMMA Frame ==
  ASSUME NEW a \in Apps, NEW h \in Handles, HandleInStep(a, h),
         handle'[a][h] = handle[a][h],
         Live(a, h) => /\ fdt'[a][handle[a][h].desc] = fdt[a][handle[a][h].desc]
                       /\ file'[OpenAt(a, h).name] = file[OpenAt(a, h).name]
                       /\ CallOn(a, h)' = CallOn(a, h)
  PROVE  HandleInStep(a, h)'
  <1> SUFFICES ASSUME Live(a, h)'
               PROVE  InStep(handle'[a][h], OpenAt(a, h)', file'[OpenAt(a, h)'.name],
                             CallOn(a, h)', KeyOf(a, h)')
    BY DEF HandleInStep
  <1>1. Live(a, h)
    BY DEF Live
  <1>2. OpenAt(a, h)' = OpenAt(a, h) /\ KeyOf(a, h)' = KeyOf(a, h)
    BY <1>1 DEF OpenAt, KeyOf, set_object_key
  <1>3. file'[OpenAt(a, h)'.name] = file[OpenAt(a, h).name]
    BY <1>1, <1>2
  <1>4. InStep(handle[a][h], OpenAt(a, h), file[OpenAt(a, h).name], CallOn(a, h), KeyOf(a, h))
    BY <1>1 DEF HandleInStep
  <1> QED BY <1>1, <1>2, <1>3, <1>4, Zenon

\* Two live handles have different descriptors and different files.
LEMMA Apart ==
  ASSUME Safe, DescriptorsOwned, OpenOnce, NEW a \in Apps, NEW h \in Handles, Live(a, h),
         NEW b \in Apps, NEW i \in Handles, Live(b, i), b # a \/ i # h
  PROVE  /\ b # a \/ handle[b][i].desc # handle[a][h].desc
         /\ OpenAt(b, i).name # OpenAt(a, h).name
  <1>1. b # a \/ handle[b][i].desc # handle[a][h].desc
    BY DEF DescriptorsOwned
  <1>2. /\ handle[a][h].desc \in Fds /\ handle[b][i].desc \in Fds
        /\ OpenAt(a, h).name # NoFile /\ OpenAt(b, i).name # NoFile
    BY LiveParts DEF IsOpen, OpenAt
  <1> QED BY <1>1, <1>2 DEF OpenOnce, OpenAt

\* Names of descriptors stay or disappear: nothing is opened twice.
LEMMA OnceKept ==
  ASSUME OpenOnce,
         \A b \in Apps : \A d \in Fds : \/ fdt'[b][d].name = fdt[b][d].name
                                        \/ fdt'[b][d].name = NoFile
  PROVE  OpenOnce'
  BY DEF OpenOnce

\* A step that works on one live handle, on its descriptor, its file and its
\* call, and leaves that handle in step, leaves every handle in step.
LEMMA OneHandle ==
  ASSUME Safe, DescriptorsOwned, StepInv, NEW a \in Apps, NEW h \in Handles, Live(a, h),
         NEW g2, handle' = [handle EXCEPT ![a][h] = g2],
         g2.id = handle[a][h].id, g2.desc = handle[a][h].desc,
         NEW o2, fdt' = [fdt EXCEPT ![a][handle[a][h].desc] = o2],
         o2.name = OpenAt(a, h).name,
         NEW f2, file' = [file EXCEPT ![OpenAt(a, h).name] = f2], Whole(Len(f2)),
         NEW c2, call' = [call EXCEPT ![a] = c2],
         c2 = Idle \/ (c2.op # "idle" /\ c2.h = h), call[a] = Idle \/ call[a].h = h,
         InStep(g2, o2, f2, c2, KeyOf(a, h))
  PROVE  StepInv'
  <1>0. HostOK /\ HandlesOK /\ CallsOK
    BY TypeParts DEF Safe
  <1> DEFINE fd == handle[a][h].desc
             n == OpenAt(a, h).name
  <1>1. fd \in Fds /\ n \in Names
    BY LiveParts
  <1>2. /\ handle'[a][h] = g2
        /\ \A b \in Apps : \A i \in Handles : (b # a \/ i # h) => handle'[b][i] = handle[b][i]
    BY <1>0 DEF HandlesOK
  <1>3. /\ fdt'[a][fd] = o2
        /\ \A b \in Apps : \A d \in Fds : (b # a \/ d # fd) => fdt'[b][d] = fdt[b][d]
    BY <1>0, <1>1 DEF HostOK
  <1>4. file'[n] = f2 /\ \A x \in Names : x # n => file'[x] = file[x]
    BY <1>0, <1>1 DEF HostOK
  <1>5. call'[a] = c2 /\ \A b \in Apps : b # a => call'[b] = call[b]
    BY <1>0 DEF CallsOK
  <1> HIDE DEF fd, n
  <1>6. OpenOnce'
    <2>1. ASSUME NEW b \in Apps, NEW d \in Fds PROVE fdt'[b][d].name = fdt[b][d].name
      <3>1. CASE b = a /\ d = fd
        BY <1>3, <3>1 DEF OpenAt, fd
      <3> QED BY <1>3, <3>1
    <2> QED BY <2>1, OnceKept DEF StepInv
  <1>7. WholeFiles'
    BY <1>4 DEF StepInv, WholeFiles
  <1>8. ASSUME NEW b \in Apps, NEW i \in Handles PROVE HandleInStep(b, i)'
    <2>1. CASE b = a /\ i = h
      <3>1. OpenAt(a, h)' = o2 /\ file'[o2.name] = f2
        BY <1>2, <1>3, <1>4 DEF OpenAt, fd, n
      <3>2. KeyOf(a, h)' = KeyOf(a, h)
        BY <1>2 DEF KeyOf, set_object_key
      <3>3. CallOn(a, h)' = c2
        BY <1>5, IdleParts DEF CallOn
      <3> QED BY <1>2, <2>1, <3>1, <3>2, <3>3, Zenon DEF HandleInStep
    <2>2. CASE b # a \/ i # h
      <3>1. handle'[b][i] = handle[b][i] /\ HandleInStep(b, i)
        BY <1>2, <2>2 DEF StepInv, AllInStep
      <3>2. ASSUME Live(b, i)
            PROVE  /\ fdt'[b][handle[b][i].desc] = fdt[b][handle[b][i].desc]
                   /\ file'[OpenAt(b, i).name] = file[OpenAt(b, i).name]
        <4>1. /\ b # a \/ handle[b][i].desc # fd
              /\ OpenAt(b, i).name # n
          BY <2>2, <3>2, Apart DEF StepInv, fd, n
        <4>2. handle[b][i].desc \in Fds /\ OpenAt(b, i).name \in Names
          BY <3>2, LiveParts
        <4> QED BY <1>3, <1>4, <4>1, <4>2
      <3>3. CallOn(b, i)' = CallOn(b, i)
        <4>1. CASE b # a
          BY <1>5, <4>1 DEF CallOn
        <4>2. CASE b = a
          <5>1. CallOn(a, i) = Idle
            BY <2>2, <4>2, IdleParts DEF CallOn
          <5>2. CallOn(a, i)' = Idle
            BY <1>5, <2>2, <4>2, IdleParts DEF CallOn
          <5> QED BY <4>2, <5>1, <5>2
        <4> QED BY <4>1, <4>2
      <3> QED BY <3>1, <3>2, <3>3, Frame
    <2> QED BY <2>1, <2>2
  <1> QED BY <1>6, <1>7, <1>8 DEF StepInv, AllInStep

\* Nothing changes but what calls report.
LEMMA UnchangedStep ==
  ASSUME StepInv, UNCHANGED <<file, fdt, handle, call>>
  PROVE  StepInv'
  <1>1. OpenOnce' /\ WholeFiles'
    BY DEF StepInv, OpenOnce, WholeFiles
  <1>2. ASSUME NEW a \in Apps, NEW h \in Handles PROVE HandleInStep(a, h)'
    <2>1. HandleInStep(a, h) /\ CallOn(a, h)' = CallOn(a, h)
      BY DEF StepInv, AllInStep, CallOn
    <2> QED BY <2>1, Frame
  <1> QED BY <1>1, <1>2 DEF StepInv, AllInStep

\* The end of an instance: its handles are gone, its descriptors may be.
LEMMA LeaveStep ==
  ASSUME Safe, StepInv, NEW a \in Apps, NEW how, LeaveInstance(a, how), file' = file,
         \A b \in Apps \ {a} : fdt'[b] = fdt[b],
         \A d \in Fds : fdt'[a][d].name = fdt[a][d].name \/ fdt'[a][d].name = NoFile
  PROVE  StepInv'
  <1>0. HandlesOK /\ CallsOK
    BY TypeParts DEF Safe
  <1>1. OpenOnce' /\ WholeFiles'
    <2>1. \A b \in Apps : \A d \in Fds : \/ fdt'[b][d].name = fdt[b][d].name
                                         \/ fdt'[b][d].name = NoFile
      OBVIOUS
    <2> QED BY <2>1, OnceKept DEF StepInv, WholeFiles
  <1>2. ASSUME NEW b \in Apps, NEW i \in Handles PROVE HandleInStep(b, i)'
    <2>1. CASE b = a
      <3>1. ~Live(a, i)'
        BY <1>0, RecordTypes DEF LeaveInstance, HandlesOK, Live
      <3> QED BY <2>1, <3>1 DEF HandleInStep
    <2>2. CASE b # a
      <3>1. handle'[b] = handle[b] /\ call'[b] = call[b] /\ fdt'[b] = fdt[b]
        BY <1>0, <2>2 DEF LeaveInstance, HandlesOK, CallsOK
      <3>2. HandleInStep(b, i) /\ CallOn(b, i)' = CallOn(b, i)
        BY <3>1 DEF StepInv, AllInStep, CallOn
      <3> QED BY <3>1, <3>2, Frame
    <2> QED BY <2>1, <2>2
  <1> QED BY <1>1, <1>2 DEF StepInv, AllInStep

\* TEE_CreatePersistentObject and TEE_OpenPersistentObject: the file that is
\* opened, and perhaps truncated, is open nowhere else.
LEMMA OpenInStep ==
  ASSUME Safe, DescriptorsOwned, StepInv, Exclusive, MaxFaults = 0,
         NEW a \in Apps, NEW id \in ObjectIDs, NEW flags \in OpenArgs,
         NEW ocreat \in BOOLEAN, OpenPersistentObject(a, id, flags, ocreat)
  PROVE  StepInv'
  <1>0. HostOK /\ HandlesOK /\ CallsOK
    BY TypeParts DEF Safe
  <1> DEFINE of == flags2flags(flags, ocreat)
             md == IF flags.write THEN "w" ELSE "r"
             n == FileOf[id]
             g2(desc) == [st |-> "open", id |-> id, desc |-> desc, mode |-> md,
                          prev |-> IV(set_object_key(a, id))]
             o2 == [name |-> n, pos |-> 0, mode |-> of.mode]
  <1>1. n \in Names /\ n # NoFile
    OBVIOUS
  <1> HIDE DEF of, md, n
  <1>2. PICK desc \in Fds \cup {-1}, f \in 0..1, k \in 0..1 :
          /\ ocall_open_file(a, n, of, desc, f)
          /\ Faults(f + k)
          /\ \/ /\ desc < 0 /\ k = 0
                /\ OpenFails(a, "ACCESS_DENIED")
             \/ /\ desc >= 0 /\ k = 1
                /\ OpenFails(a, "SECURITY")
             \/ /\ desc >= 0 /\ k = 0
                /\ \E h \in Handles :
                   /\ handle[a][h].st # "open"
                   /\ handle' = [handle EXCEPT ![a][h] =
                         [st |-> "open", id |-> id, desc |-> desc, mode |-> md,
                          prev |-> IV(set_object_key(a, id))]]
                /\ Return(a, Returned("SUCCESS"))
    BY DEF OpenPersistentObject, of, md, n
  <1>3. k = 0 /\ call' = call /\ call[a] = Idle
    <2>1. f + k = 0
      BY <1>2, NoFaults
    <2> QED BY <2>1 DEF OpenPersistentObject, Running
  <1>4. \A b \in Apps, fd \in Fds : fdt[b][fd].name # n
    BY DEF OpenPersistentObject, MayOpen, n
  <1> HIDE DEF g2, o2
  <1>5. CASE desc < 0 /\ handle' = handle
    <2>1. UNCHANGED <<file, fdt>>
      BY <1>2, <1>5 DEF ocall_open_file, LowestFree, FreeFds, Fds
    <2> QED BY <1>3, <1>5, <2>1, UnchangedStep
  <1>6. CASE /\ desc >= 0
             /\ \E h \in Handles :
                   /\ handle[a][h].st # "open"
                   /\ handle' = [handle EXCEPT ![a][h] = g2(desc)]
    <2>1. PICK h \in Handles :
             /\ handle[a][h].st # "open"
             /\ handle' = [handle EXCEPT ![a][h] = g2(desc)]
      BY <1>6
    <2>2. /\ desc \in FreeFds(a)
          /\ file' = file \/ file' = [file EXCEPT ![n] = << >>]
          /\ fdt' = [fdt EXCEPT ![a][desc] = o2]
      BY <1>2, <1>6 DEF ocall_open_file, LowestFree, o2
    <2>3. desc \in Fds /\ fdt[a][desc].name = NoFile
      BY <2>2 DEF FreeFds
    <2>4. /\ fdt'[a][desc] = o2 /\ o2.name = n /\ o2.pos = 0
          /\ \A b \in Apps : \A d \in Fds : (b # a \/ d # desc) => fdt'[b][d] = fdt[b][d]
      BY <1>0, <2>2, <2>3 DEF HostOK, o2
    <2>5. /\ \A x \in Names : x # n => file'[x] = file[x]
          /\ file'[n] \in Seq(Unit) /\ (file'[n] = file[n] \/ file'[n] = << >>)
      <3>1. << >> \in Seq(Unit) /\ file \in [Names -> Seq(Unit)]
        BY <1>0 DEF HostOK
      <3>2. CASE file' = file
        BY <1>1, <3>1, <3>2
      <3>3. CASE file' = [file EXCEPT ![n] = << >>]
        BY <1>1, <3>1, <3>3
      <3> QED BY <2>2, <3>2, <3>3
    <2>6. /\ handle'[a][h] = g2(desc)
          /\ \A b \in Apps : \A i \in Handles : (b # a \/ i # h) => handle'[b][i] = handle[b][i]
      BY <1>0, <2>1 DEF HandlesOK
    <2>7. OpenOnce'
      BY <1>4, <2>3, <2>4 DEF StepInv, OpenOnce
    <2>8. WholeFiles'
      <3>1. Whole(Len(<< >>))
        BY WholeQuotient
      <3> QED BY <2>5, <3>1 DEF StepInv, WholeFiles
    <2>9. HandleInStep(a, h)'
      <3>1. OpenAt(a, h)' = o2
        BY <2>4, <2>6 DEF OpenAt, g2
      <3>2. CallOn(a, h)' = Idle
        BY <1>3, IdleParts DEF CallOn
      <3>3. KeyOf(a, h)' = set_object_key(a, id) /\ handle'[a][h].prev = IV(set_object_key(a, id))
        BY <2>6 DEF KeyOf, set_object_key, g2
      <3>4. InStep(handle'[a][h], o2, file'[n], Idle, set_object_key(a, id))
        BY <2>4, <2>5, <3>3, OpenStep
      <3> QED BY <2>4, <3>1, <3>2, <3>3, <3>4, Zenon DEF HandleInStep
    <2>10. ASSUME NEW b \in Apps, NEW i \in Handles, b # a \/ i # h PROVE HandleInStep(b, i)'
      <3>1. handle'[b][i] = handle[b][i] /\ HandleInStep(b, i) /\ CallOn(b, i)' = CallOn(b, i)
        BY <1>3, <2>6, <2>10 DEF StepInv, AllInStep, CallOn
      <3>2. ASSUME Live(b, i)
            PROVE  /\ fdt'[b][handle[b][i].desc] = fdt[b][handle[b][i].desc]
                   /\ file'[OpenAt(b, i).name] = file[OpenAt(b, i).name]
        <4>1. /\ handle[b][i].desc \in Fds /\ OpenAt(b, i).name \in Names
              /\ fdt[b][handle[b][i].desc].name # NoFile
          BY <3>2, LiveParts DEF IsOpen
        <4>2. OpenAt(b, i).name # n /\ (b # a \/ handle[b][i].desc # desc)
          BY <1>4, <2>3, <4>1 DEF OpenAt
        <4> QED BY <2>4, <2>5, <4>1, <4>2
      <3> QED BY <3>1, <3>2, Frame
    <2> QED BY <2>7, <2>8, <2>9, <2>10 DEF StepInv, AllInStep
  <1>7. ~(k = 1)
    BY <1>3
  <1>8. OpenFails(a, "ACCESS_DENIED") => handle' = handle
    BY DEF OpenFails
  <1> QED BY <1>2, <1>5, <1>6, <1>7, <1>8, Zenon DEF g2

\* TEE_CloseObject: without faults the descriptor of a live handle closes.
LEMMA CloseInStep ==
  ASSUME Safe, DescriptorsOwned, StepInv, ~DoubleClose, NEW a \in Apps, NEW h \in Handles,
         TEE_CloseObject(a, h)
  PROVE  StepInv'
  <1>0. HostOK /\ HandlesOK /\ CallsOK
    BY TypeParts DEF Safe
  <1> DEFINE fd == handle[a][h].desc
  <1>1. Live(a, h) /\ fd \in Fds /\ call[a] = Idle
    BY <1>0 DEF TEE_CloseObject, HandlesOK, Running
  <1>2. PICK rv \in {0, -1}, f \in 0..1 :
          /\ ocall_close_file(a, fd, rv, f)
          /\ \/ TEE_Panic(a)
             \/ handle' = [handle EXCEPT ![a][h] = Closed(fd)] /\ call' = call
    BY DEF TEE_CloseObject
  <1> HIDE DEF fd
  <1>3. file' = file /\ (fdt' = fdt \/ fdt' = [fdt EXCEPT ![a][fd] = ClosedFd])
    BY <1>2 DEF ocall_close_file
  <1>4. /\ \A b \in Apps : \A d \in Fds : (b # a \/ d # fd) => fdt'[b][d] = fdt[b][d]
        /\ fdt'[a][fd].name = fdt[a][fd].name \/ fdt'[a][fd].name = NoFile
        /\ \A b \in Apps \ {a} : fdt'[b] = fdt[b]
    BY <1>0, <1>1, <1>3 DEF HostOK, ClosedFd
  <1>5. CASE TEE_Panic(a)
    BY <1>3, <1>4, <1>5, LeaveStep DEF TEE_Panic
  <1>6. CASE handle' = [handle EXCEPT ![a][h] = Closed(fd)] /\ call' = call
    <2>1. OpenOnce' /\ WholeFiles'
      <3>1. \A b \in Apps : \A d \in Fds : \/ fdt'[b][d].name = fdt[b][d].name
                                           \/ fdt'[b][d].name = NoFile
        BY <1>4
      <3> QED BY <1>3, <3>1, OnceKept DEF StepInv, WholeFiles
    <2>2. /\ handle'[a][h].st # "open"
          /\ \A b \in Apps : \A i \in Handles : (b # a \/ i # h) => handle'[b][i] = handle[b][i]
      BY <1>0, <1>6 DEF HandlesOK, Closed
    <2>3. ASSUME NEW b \in Apps, NEW i \in Handles PROVE HandleInStep(b, i)'
      <3>1. CASE b = a /\ i = h
        BY <2>2, <3>1 DEF HandleInStep, Live
      <3>2. CASE b # a \/ i # h
        <4>1. handle'[b][i] = handle[b][i] /\ HandleInStep(b, i) /\ CallOn(b, i)' = CallOn(b, i)
          BY <1>6, <2>2, <3>2 DEF StepInv, AllInStep, CallOn
        <4>2. ASSUME Live(b, i)
              PROVE  fdt'[b][handle[b][i].desc] = fdt[b][handle[b][i].desc]
          <5>1. handle[b][i].desc \in Fds /\ (b # a \/ handle[b][i].desc # fd)
            BY <1>1, <3>2, <4>2, Apart, LiveParts DEF StepInv, fd
          <5> QED BY <1>4, <5>1
        <4> QED BY <1>3, <4>1, <4>2, Frame
      <3> QED BY <3>1, <3>2
    <2> QED BY <2>1, <2>3 DEF StepInv, AllInStep
  <1> QED BY <1>2, <1>5, <1>6

\* The host's state written as a change of one descriptor and one file.
LEMMA SameHost ==
  ASSUME Safe, DescriptorsOwned, NEW a \in Apps, NEW h \in Handles, Live(a, h)
  PROVE  /\ fdt = [fdt EXCEPT ![a][handle[a][h].desc] = OpenAt(a, h)]
         /\ file = [file EXCEPT ![OpenAt(a, h).name] = file[OpenAt(a, h).name]]
         /\ handle = [handle EXCEPT ![a][h] = handle[a][h]]
  <1>0. HostOK /\ HandlesOK
    BY TypeParts DEF Safe
  <1>1. handle[a][h].desc \in Fds /\ OpenAt(a, h).name \in Names
    BY LiveParts
  <1> QED BY <1>0, <1>1 DEF HostOK, HandlesOK, OpenAt

\* What StepInv says of a live handle without a call in progress.
LEMMA IdleInStep ==
  ASSUME StepInv, NEW a \in Apps, NEW h \in Handles, Live(a, h), call[a] = Idle
  PROVE  InStep(handle[a][h], OpenAt(a, h), file[OpenAt(a, h).name], Idle, KeyOf(a, h))
  <1>1. CallOn(a, h) = Idle
    BY IdleParts DEF CallOn
  <1> QED BY <1>1 DEF StepInv, AllInStep, HandleInStep

\* TEE_WriteObjectData up to the first ocall.
LEMMA WriteStartInStep ==
  ASSUME Safe, DescriptorsOwned, StepInv, NEW a \in Apps, NEW h \in Handles,
         NEW d \in Chains, TEE_WriteObjectData(a, h, d)
  PROVE  StepInv'
  <1>0. HostOK /\ HandlesOK /\ CallsOK
    BY TypeParts DEF Safe
  <1> DEFINE g == handle[a][h]
             k == KeyOf(a, h)
             w == g.mode = "w" /\ g.prev.key = k
             s == g.prev.chain
             c == [op |-> "write", h |-> h, offset |-> 0, count |-> BLK * Len(d),
                   buf |-> IF w THEN Encrypt(k, s, d)
                           ELSE [i \in 1..(BLK * Len(d)) |-> Hole]]
             g2 == IF w THEN Chained(g, [key |-> k, chain |-> s \o d]) ELSE Chained(g, Torn)
             o == OpenAt(a, h)
             f == file[o.name]
  <1>1. Live(a, h) /\ call[a] = Idle /\ UNCHANGED <<file, fdt>>
    BY DEF TEE_WriteObjectData, Running, hostVars
  <1>2. /\ g \in HandleRec /\ k \in Keys /\ f \in Seq(Unit)
    BY <1>1, LiveParts
  <1>3. s \in Chains /\ g.mode \in {"r", "w"}
    BY <1>2 DEF HandleRec, Block, Modes
  <1>4. InStep(g, o, f, Idle, k)
    BY <1>1, IdleInStep
  <1>5. CASE d = << >>
    <2>1. call' = call
      BY <1>5 DEF TEE_WriteObjectData
    <2>2. handle' = [handle EXCEPT ![a][h] = g]
      BY <1>5 DEF TEE_WriteObjectData
    <2>3. handle' = handle
      BY <1>1, <2>2, SameHost
    <2> QED BY <1>1, <2>1, <2>3, UnchangedStep
  <1>6. CASE d # << >>
    <2>1. handle' = [handle EXCEPT ![a][h] = g2]
      BY <1>6 DEF TEE_WriteObjectData
    <2>2. call' = [call EXCEPT ![a] = c]
      BY <1>6 DEF TEE_WriteObjectData
    <2>3. /\ g2.id = g.id /\ g2.desc = g.desc /\ g2.mode = g.mode
          /\ g2.prev = IF w THEN [key |-> k, chain |-> s \o d] ELSE Torn
      BY DEF Chained
    <2>4. c.op = "write" /\ c.h = h /\ c.offset = 0 /\ c.count = BLK * Len(d)
      OBVIOUS
    <2>5. w => c.buf = Encrypt(k, s, d)
      OBVIOUS
    <2>6. fdt' = [fdt EXCEPT ![a][g.desc] = o] /\ file' = [file EXCEPT ![o.name] = f]
      BY <1>1, SameHost
    <2>7. Whole(Len(f))
      BY <1>1, LiveParts DEF StepInv, WholeFiles
    <2>8. Whole(c.offset) /\ Whole(c.count)
      BY <2>4, WholeQuotient DEF Chains
    <2>9. g.mode = "w" => w
      BY <1>4 DEF InStep, Writer
    <2> HIDE DEF g2, c
    <2>10. InStep(g2, o, f, c, k)
      <3>1. CASE g.mode = "w"
        <4>1. /\ g2.prev = [key |-> k, chain |-> g.prev.chain \o d]
              /\ c.buf = Encrypt(k, g.prev.chain, d)
          BY <2>3, <2>5, <2>9, <3>1
        <4>2. g.prev.chain \in Chains
          BY <1>3
        <4> HIDE DEF g, o, f, k
        <4> QED BY <1>2, <1>4, <2>3, <2>4, <3>1, <4>1, <4>2, WriteStartStep
      <3>2. CASE g.mode = "r"
        <4>1. g2.prev = Torn
          BY <2>3, <3>2
        <4> HIDE DEF g, o, f, k
        <4> QED BY <1>4, <2>3, <2>4, <2>8, <3>2, <4>1, WriteSpoils
      <3> QED BY <1>3, <3>1, <3>2
    <2> QED BY <1>1, <2>1, <2>2, <2>3, <2>4, <2>6, <2>7, <2>10, OneHandle
  <1> QED BY <1>5, <1>6

\* TEE_ReadObjectData up to the first ocall.
LEMMA ReadStartInStep ==
  ASSUME Safe, DescriptorsOwned, StepInv, NEW a \in Apps, NEW h \in Handles,
         NEW n \in Nat, TEE_ReadObjectData(a, h, n)
  PROVE  StepInv'
  <1> DEFINE g == handle[a][h]
             k == KeyOf(a, h)
             c == [op |-> "read", h |-> h, offset |-> 0, count |-> BLK * n, buf |-> << >>]
             o == OpenAt(a, h)
             f == file[o.name]
  <1>1. Live(a, h) /\ call[a] = Idle /\ UNCHANGED <<file, fdt, handle>>
    BY DEF TEE_ReadObjectData, Running, hostVars
  <1>2. CASE n = 0
    <2>1. call' = call
      BY <1>2 DEF TEE_ReadObjectData
    <2> QED BY <1>1, <2>1, UnchangedStep
  <1>3. CASE n # 0
    <2>1. call' = [call EXCEPT ![a] = c]
      BY <1>3 DEF TEE_ReadObjectData
    <2>2. c.op = "read" /\ c.h = h /\ c.offset = 0 /\ c.count = BLK * n
      OBVIOUS
    <2>3. Whole(c.count)
      BY <2>2, WholeQuotient
    <2>4. /\ fdt' = [fdt EXCEPT ![a][g.desc] = o] /\ file' = [file EXCEPT ![o.name] = f]
          /\ handle' = [handle EXCEPT ![a][h] = g]
      BY <1>1, SameHost
    <2>5. Whole(Len(f))
      BY <1>1, LiveParts DEF StepInv, WholeFiles
    <2>6. InStep(g, o, f, Idle, k)
      BY <1>1, IdleInStep
    <2> HIDE DEF c
    <2>7. InStep(g, o, f, c, k)
      <3> HIDE DEF g, o, f, k
      <3> QED BY <2>2, <2>3, <2>6, ReadStartStep
    <2> QED BY <1>1, <2>1, <2>2, <2>4, <2>5, <2>7, OneHandle
  <1> QED BY <1>2, <1>3

\* What a call in progress looks like, on a handle in step.
LEMMA CallParts ==
  ASSUME Safe, DescriptorsOwned, StepInv, NEW a \in Apps, call[a].op # "idle"
  PROVE  LET c == call[a] IN
         /\ c.h \in Handles /\ Live(a, c.h) /\ c.buf \in Seq(Unit)
         /\ c.count \in Nat /\ c.offset \in Nat /\ c.offset <= c.count
         /\ c.op = "write" => Len(c.buf) = c.count
         /\ c.op = "read" => Len(c.buf) = c.offset
         /\ Whole(c.offset) /\ Whole(c.count)
         /\ InStep(handle[a][c.h], OpenAt(a, c.h), file[OpenAt(a, c.h).name], c,
                   KeyOf(a, c.h))
  <1>0. CallsOK
    BY TypeParts DEF Safe
  <1>1. call[a] \in CallRec /\ call[a] # Idle
    BY <1>0, IdleParts DEF CallsOK
  <1>2. /\ call[a].h \in Handles /\ Live(a, call[a].h) /\ call[a].buf \in Seq(Unit)
        /\ call[a].count \in Nat /\ call[a].offset \in Nat
    BY <1>0, <1>1 DEF CallsOK, CallRec
  <1>3. CallOn(a, call[a].h) = call[a]
    BY DEF CallOn
  <1>4. InStep(handle[a][call[a].h], OpenAt(a, call[a].h), file[OpenAt(a, call[a].h).name],
               call[a], KeyOf(a, call[a].h))
    BY <1>2, <1>3 DEF StepInv, AllInStep, HandleInStep
  <1>5. Whole(call[a].offset) /\ Whole(call[a].count)
    BY <1>4 DEF InStep
  <1> QED BY <1>1, <1>2, <1>4, <1>5 DEF Safe, LoopInBounds

\* The length of a pass is a whole number of blocks.
LEMMA ClampWhole ==
  ASSUME NEW n \in Nat, Whole(n)
  PROVE  Clamp(n) \in Nat /\ Clamp(n) <= n /\ Clamp(n) <= CAP /\ Whole(Clamp(n))
         /\ (Clamp(n) = 0 => n = 0)
  <1>1. Whole(CAP)
    BY WholeQuotient
  <1> QED BY <1>1 DEF Clamp

\* One pass of the loop of ocall_write_file_full.
LEMMA WriteLoopInStep ==
  ASSUME Safe, DescriptorsOwned, StepInv, MaxFaults = 0, NEW a \in Apps,
         ocall_write_file_full(a)
  PROVE  StepInv'
  <1> DEFINE c == call[a]
             h == c.h
             g == handle[a][h]
             o == OpenAt(a, h)
             f == file[o.name]
             k == KeyOf(a, h)
             L == Clamp(c.count - c.offset)
             chunk == SubSeq(c.buf, c.offset + 1, c.offset + L)
  <1>1. c.op = "write" /\ handle' = handle
    BY DEF ocall_write_file_full
  <1>2. /\ h \in Handles /\ Live(a, h) /\ c.buf \in Seq(Unit)
        /\ c.count \in Nat /\ c.offset \in Nat /\ c.offset <= c.count
        /\ Len(c.buf) = c.count /\ Whole(c.offset) /\ Whole(c.count)
        /\ InStep(g, o, f, c, k)
    BY <1>1, CallParts
  <1>3. /\ o \in OpenFile /\ o.name \in Names /\ o.mode = g.mode /\ o.pos \in Nat
        /\ f \in Seq(Unit) /\ IsOpen(a, g.desc) /\ g.mode \in {"r", "w"}
    BY <1>2, LiveParts DEF HandleRec, Modes
  <1>4. Whole(Len(f))
    BY <1>3 DEF StepInv, WholeFiles
  <1>5. PICK n \in -1..CAP, x \in 0..1 :
          /\ ocall_write_file256(a, g.desc, chunk, n, x)
          /\ Faults(x)
          /\ \/ /\ ~LoopEnds(n)
                /\ call' = [call EXCEPT ![a] = Moved(c, n, c.buf)]
             \/ /\ LoopEnds(n)
                /\ call' = [call EXCEPT ![a] = Idle]
    BY DEF ocall_write_file_full
  <1>6. x = 0
    BY <1>5, NoFaults
  <1>7. /\ fdt = [fdt EXCEPT ![a][g.desc] = o] /\ file = [file EXCEPT ![o.name] = f]
        /\ handle' = [handle EXCEPT ![a][h] = g]
    BY <1>1, <1>2, SameHost
  <1>8. /\ L \in Nat /\ L <= c.count - c.offset /\ L <= CAP /\ Whole(L)
        /\ (L = 0 => c.count = c.offset)
    <2>1. c.count - c.offset \in Nat /\ Whole(c.count - c.offset)
      BY <1>2, WholeSums
    <2>2. /\ L \in Nat /\ L <= c.count - c.offset /\ L <= CAP /\ Whole(L)
          /\ (L = 0 => c.count - c.offset = 0)
      BY <2>1, ClampWhole
    <2> HIDE DEF L, c
    <2> QED BY <1>2, <2>2
  <1> HIDE DEF L, c, h, g, o, f, k
  <1>9. /\ chunk \in Seq(Unit) /\ Len(chunk) = L
        /\ \A i \in 1..L : chunk[i] = c.buf[c.offset + i]
    <2> DEFINE b == c.buf
               p == c.offset
    <2>1. b \in Seq(Unit) /\ p \in Nat /\ p + L <= Len(b)
      BY <1>2, <1>8
    <2> HIDE DEF b, p
    <2>2. /\ SubSeq(b, p + 1, p + L) \in Seq(Unit)
          /\ Len(SubSeq(b, p + 1, p + L)) = L
          /\ \A i \in 1..L : SubSeq(b, p + 1, p + L)[i] = b[p + i]
      BY <1>8, <2>1, Slice
    <2> QED BY <2>2 DEF b, p
  <1> HIDE DEF chunk
  <1>a. fdt[a][g.desc] = o
    BY DEF o, OpenAt, g
  <1>b. call[a] = c /\ c.h = h /\ o = OpenAt(a, h) /\ g = handle[a][h] /\ k = KeyOf(a, h)
        /\ f = file[OpenAt(a, h).name]
    BY DEF c, h, o, g, k, f
  <1>10. CASE g.mode = "r"
    <2>1. n = -1 /\ UNCHANGED <<file, fdt>>
      BY <1>3, <1>5, <1>10, <1>a DEF ocall_write_file256, Writable
    <2>2. call' = [call EXCEPT ![a] = Idle]
      BY <1>5, <2>1 DEF LoopEnds
    <2>3. InStep(g, o, f, Idle, k)
      BY <1>1, <1>2, <1>10, WriteEndStep DEF c
    <2> QED BY <1>2, <1>4, <1>7, <1>b, <2>1, <2>2, <2>3, OneHandle
  <1>11. CASE g.mode = "w"
    <2>1. Writable(a, g.desc)
      BY <1>3, <1>11, <1>a DEF Writable
    <2>2. /\ n = L
          /\ file' = IF n = 0 THEN file
                     ELSE [file EXCEPT ![o.name] = Splice(f, o.pos, SubSeq(chunk, 1, n))]
          /\ fdt' = [fdt EXCEPT ![a][g.desc] = Advance(o, n)]
      BY <1>5, <1>6, <1>9, <1>a, <2>1 DEF ocall_write_file256, f
    <2>3. CASE L = 0
      <3>1. call' = [call EXCEPT ![a] = Idle]
        BY <1>5, <2>2, <2>3 DEF LoopEnds
      <3>2. Advance(o, 0) = o
        BY <1>3 DEF Advance, OpenFile
      <3>3. fdt' = [fdt EXCEPT ![a][g.desc] = o] /\ file' = [file EXCEPT ![o.name] = f]
        BY <1>7, <2>2, <2>3, <3>2
      <3>4. InStep(g, o, f, Idle, k)
        BY <1>1, <1>2, <1>8, <2>3, WriteEndStep DEF c
      <3> QED BY <1>2, <1>4, <1>7, <1>b, <3>1, <3>3, <3>4, OneHandle
    <2>4. CASE L # 0
      <3> DEFINE d == SubSeq(chunk, 1, L)
                 o2 == Advance(o, L)
                 c2 == Moved(c, L, c.buf)
                 f2 == Splice(f, o.pos, d)
      <3>1. call' = [call EXCEPT ![a] = c2]
        BY <1>5, <1>8, <2>2, <2>4 DEF LoopEnds
      <3>2. fdt' = [fdt EXCEPT ![a][g.desc] = o2] /\ file' = [file EXCEPT ![o.name] = f2]
        BY <2>2, <2>4
      <3>3. d \in Seq(Unit) /\ Len(d) = L /\ \A i \in 1..L : d[i] = c.buf[c.offset + i]
        <4>1. /\ SubSeq(chunk, 0 + 1, 0 + L) \in Seq(Unit)
              /\ Len(SubSeq(chunk, 0 + 1, 0 + L)) = L
              /\ \A i \in 1..L : SubSeq(chunk, 0 + 1, 0 + L)[i] = chunk[0 + i]
          BY <1>8, <1>9, Slice
        <4>2. 0 + 1 = 1 /\ 0 + L = L
          BY <1>8
        <4> QED BY <1>9, <4>1, <4>2
      <3>4. /\ o2.pos = o.pos + L /\ o2.name = o.name
            /\ c2.op = c.op /\ c2.h = c.h /\ c2.buf = c.buf /\ c2.count = c.count
            /\ c2.offset = c.offset + L
        BY DEF Advance, Moved
      <3> HIDE DEF d, o2, c2
      <3>5. InStep(g, o2, f2, c2, k) /\ Whole(Len(f2))
        <4>1. /\ c.op = "write" /\ InStep(g, o, f, c, k) /\ c.offset \in Nat
              /\ c.count \in Nat /\ c.offset <= c.count /\ f \in Seq(Unit)
          BY <1>1, <1>2, <1>3
        <4>2. IsChunk(d, c, L) /\ MovedTo(c2, o2, c, o, L)
          BY <3>3, <3>4 DEF IsChunk, MovedTo
        <4> QED BY <1>4, <1>8, <1>11, <4>1, <4>2, WritePassStep
      <3>6. c2.op # "idle" /\ c2.h = h
        BY <1>1, <1>b, <3>4
      <3> HIDE DEF f2
      <3> QED BY <1>2, <1>7, <1>b, <3>1, <3>2, <3>4, <3>5, <3>6, OneHandle
    <2> QED BY <2>3, <2>4
  <1> QED BY <1>3, <1>10, <1>11

\* What a pass of the read loop does to the state, without faults: the host
\* answers all that is left up to the size of the pass, or refuses.
LEMMA ReadLoopParts ==
  ASSUME Safe, DescriptorsOwned, StepInv, MaxFaults = 0, NEW a \in Apps,
         ocall_read_file_full(a)
  PROVE  LET c == call[a]
             g == handle[a][c.h]
             o == OpenAt(a, c.h)
             f == file[o.name]
         IN \E n \in Int :
               /\ file' = file
               /\ \/ g.mode = "w" /\ n = -1 /\ fdt' = fdt
                  \/ /\ g.mode = "r" /\ n \in Nat /\ Whole(n) /\ o.pos + n <= Len(f)
                     /\ n = 0 => o.pos = Len(f) \/ c.offset = c.count
                     /\ fdt' = [fdt EXCEPT ![a][g.desc] = Advance(o, n)]
               /\ \/ /\ n > 0 /\ handle' = handle /\ ret' = ret
                     /\ call' = [call EXCEPT ![a] =
                                    Moved(c, n, c.buf \o UnitsRead(a, g.desc, n))]
                  \/ /\ n <= 0
                     /\ call' = [call EXCEPT ![a] = Idle]
                     /\ ReadReturns(a, n, 0)
  <1> DEFINE c == call[a]
             h == c.h
             g == handle[a][h]
             o == OpenAt(a, h)
             f == file[o.name]
             L == Clamp(c.count - c.offset)
  <1>1. c.op = "read"
    BY DEF ocall_read_file_full
  <1>2. /\ h \in Handles /\ Live(a, h)
        /\ c.count \in Nat /\ c.offset \in Nat /\ c.offset <= c.count
        /\ Whole(c.offset) /\ Whole(c.count)
        /\ InStep(g, o, f, c, KeyOf(a, h))
    BY <1>1, CallParts
  <1>3. /\ o \in OpenFile /\ o.name \in Names /\ o.mode = g.mode /\ o.pos \in Nat
        /\ f \in Seq(Unit) /\ IsOpen(a, g.desc) /\ g.mode \in {"r", "w"}
    BY <1>2, LiveParts DEF HandleRec, Modes
  <1>4. Whole(Len(f)) /\ Whole(o.pos) /\ o.pos <= Len(f) /\ Len(f) \in Nat
    BY <1>2, <1>3 DEF StepInv, WholeFiles, InStep
  <1>5. L \in Nat /\ Whole(L) /\ (L = 0 => c.count - c.offset = 0)
    <2>1. c.count - c.offset \in Nat /\ Whole(c.count - c.offset)
      BY <1>2, WholeSums
    <2> QED BY <2>1, ClampWhole
  <1>6. PICK n \in -1..CAP, x \in 0..1, m \in 0..1 :
          /\ ocall_read_file256(a, g.desc, L, n, x)
          /\ Faults(x + m)
          /\ \/ /\ ~LoopEnds(n) /\ m = 0
                /\ call' = [call EXCEPT ![a] =
                               Moved(c, n, c.buf \o UnitsRead(a, g.desc, n))]
                /\ UNCHANGED <<ret, handle>>
             \/ /\ LoopEnds(n)
                /\ call' = [call EXCEPT ![a] = Idle]
                /\ ReadReturns(a, n, m)
    BY Zenon DEF ocall_read_file_full
  <1>7. x = 0 /\ m = 0
    <2>1. x + m \in Nat
      OBVIOUS
    <2>2. x + m = 0
      BY <1>6, <2>1, NoFaults
    <2> QED BY <2>2
  <1>8. LoopEnds(n) <=> n <= 0
    BY DEF LoopEnds
  <1>a. fdt[a][g.desc] = o
    BY DEF OpenAt
  <1>b. Available(a, g.desc, L) = IF Len(f) - o.pos < L THEN Len(f) - o.pos ELSE L
    <2>1. Available(a, g.desc, L) = LET l == Len(f) - o.pos IN
             IF l < 0 THEN 0 ELSE IF l < L THEN l ELSE L
      BY <1>a DEF Available
    <2> HIDE DEF f, o, L
    <2> QED BY <1>3, <1>4, <2>1
  <1> HIDE DEF L, h, g, o, f
  <1>9. \/ g.mode = "w" /\ n = -1 /\ fdt' = fdt
        \/ /\ g.mode = "r" /\ n \in Nat /\ Whole(n) /\ o.pos + n <= Len(f)
           /\ n = 0 => o.pos = Len(f) \/ c.offset = c.count
           /\ fdt' = [fdt EXCEPT ![a][g.desc] = Advance(o, n)]
    <2>1. CASE g.mode = "w"
      BY <1>3, <1>6, <2>1, <1>a DEF ocall_read_file256, Readable
    <2>2. CASE g.mode = "r"
      <3>1. Readable(a, g.desc)
        BY <1>3, <2>2, <1>a DEF Readable
      <3>2. n = Available(a, g.desc, L) /\ fdt' = [fdt EXCEPT ![a][g.desc] = Advance(o, n)]
        BY <1>6, <1>7, <1>a, <3>1 DEF ocall_read_file256
      <3>3. Whole(Len(f) - o.pos) /\ Len(f) - o.pos \in Nat
        BY <1>4, WholeSums
      <3>4. n \in Nat /\ Whole(n) /\ o.pos + n <= Len(f)
        BY <1>3, <1>4, <1>5, <1>b, <3>2, <3>3
      <3>5. n = 0 => o.pos = Len(f) \/ c.offset = c.count
        <4>1. L = 0 => c.offset = c.count
          BY <1>2, <1>5
        <4> QED BY <1>3, <1>4, <1>5, <1>b, <3>2, <4>1
      <3> QED BY <2>2, <3>2, <3>4, <3>5
    <2> QED BY <1>3, <2>1, <2>2
  <1>10. file' = file
    BY <1>6 DEF ocall_read_file256
  <1>11. n \in Int /\ (n > 0 <=> ~(n <= 0))
    OBVIOUS
  <1>12. \/ /\ n > 0 /\ handle' = handle /\ ret' = ret
            /\ call' = [call EXCEPT ![a] = Moved(c, n, c.buf \o UnitsRead(a, g.desc, n))]
         \/ /\ n <= 0
            /\ call' = [call EXCEPT ![a] = Idle]
            /\ ReadReturns(a, n, 0)
    BY <1>6, <1>7, <1>8, <1>11
  <1> QED BY <1>9, <1>10, <1>11, <1>12, Zenon DEF g, o, f, h

\* One pass of ocall_read_file_full and, when it ends, the rest of
\* TEE_ReadObjectData.
LEMMA ReadLoopInStep ==
  ASSUME Safe, DescriptorsOwned, StepInv, MaxFaults = 0, NEW a \in Apps,
         ocall_read_file_full(a)
  PROVE  StepInv'
  <1> DEFINE c == call[a]
             h == c.h
             g == handle[a][h]
             o == OpenAt(a, h)
             f == file[o.name]
             k == KeyOf(a, h)
  <1>0. HostOK
    BY TypeParts DEF Safe
  <1>1. c.op = "read"
    BY DEF ocall_read_file_full
  <1>2. /\ h \in Handles /\ Live(a, h) /\ c.buf \in Seq(Unit)
        /\ c.offset \in Nat /\ Len(c.buf) = c.offset /\ Whole(c.offset)
        /\ InStep(g, o, f, c, k)
    BY <1>1, CallParts
  <1>3. /\ o \in OpenFile /\ o.name \in Names /\ o.mode = g.mode /\ o.pos \in Nat
        /\ f \in Seq(Unit) /\ IsOpen(a, g.desc)
    BY <1>2, LiveParts
  <1>4. Whole(Len(f))
    BY <1>3 DEF StepInv, WholeFiles
  <1>5. PICK n \in Int :
               /\ file' = file
               /\ \/ g.mode = "w" /\ n = -1 /\ fdt' = fdt
                  \/ /\ g.mode = "r" /\ n \in Nat /\ Whole(n) /\ o.pos + n <= Len(f)
                     /\ n = 0 => o.pos = Len(f) \/ c.offset = c.count
                     /\ fdt' = [fdt EXCEPT ![a][g.desc] = Advance(o, n)]
               /\ \/ /\ n > 0 /\ handle' = handle /\ ret' = ret
                     /\ call' = [call EXCEPT ![a] =
                                    Moved(c, n, c.buf \o UnitsRead(a, g.desc, n))]
                  \/ /\ n <= 0
                     /\ call' = [call EXCEPT ![a] = Idle]
                     /\ ReadReturns(a, n, 0)
    BY ReadLoopParts, Zenon
  <1>6. /\ fdt = [fdt EXCEPT ![a][g.desc] = o] /\ file = [file EXCEPT ![o.name] = f]
        /\ handle = [handle EXCEPT ![a][h] = g]
    BY <1>2, SameHost
  <1>7. call[a] = c /\ c.h = h /\ o = OpenAt(a, h) /\ g = handle[a][h] /\ k = KeyOf(a, h)
        /\ f = file[OpenAt(a, h).name] /\ fdt[a][g.desc] = o
    BY DEF OpenAt
  <1> HIDE DEF c, h, g, o, f, k
  <1>8. ASSUME n > 0 PROVE StepInv'
    <2> DEFINE u == UnitsRead(a, g.desc, n)
               c2 == Moved(c, n, c.buf \o u)
               o2 == Advance(o, n)
    <2>1. /\ g.mode = "r" /\ n \in Nat /\ Whole(n) /\ o.pos + n <= Len(f)
          /\ fdt' = [fdt EXCEPT ![a][g.desc] = o2]
          /\ call' = [call EXCEPT ![a] = c2] /\ handle' = handle
      BY <1>5, <1>8
    <2>2. IsRead(u, o, f, n)
      <3>1. u = SubSeq(f, o.pos + 1, o.pos + n)
        BY <1>7 DEF UnitsRead
      <3> DEFINE p == o.pos
      <3>2. p \in Nat /\ n \in Nat /\ p + n <= Len(f) /\ f \in Seq(Unit)
        BY <1>3, <2>1
      <3> HIDE DEF p
      <3>3. /\ SubSeq(f, p + 1, p + n) \in Seq(Unit) /\ Len(SubSeq(f, p + 1, p + n)) = n
            /\ \A i \in 1..n : SubSeq(f, p + 1, p + n)[i] = f[p + i]
        BY <3>2, Slice
      <3> HIDE DEF u
      <3> QED BY <2>1, <3>1, <3>3 DEF IsRead, p
    <2>3. Received(c2, o2, c, o, u) /\ c2.h = h /\ o2.name = o.name /\ c2.op = "read"
      BY <1>1, <1>7, <2>2 DEF Received, Moved, Advance, IsRead
    <2> HIDE DEF u, c2, o2
    <2>4. InStep(g, o2, f, c2, k)
      BY <1>1, <1>2, <2>1, <2>2, <2>3, ReadPassStep
    <2>5. file' = [file EXCEPT ![o.name] = f] /\ handle' = [handle EXCEPT ![a][h] = g]
      BY <1>5, <1>6, <2>1
    <2> QED BY <1>2, <1>4, <1>7, <2>1, <2>3, <2>4, <2>5, OneHandle
  <1>9. ASSUME n <= 0 PROVE StepInv'
    <2>1. call' = [call EXCEPT ![a] = Idle] /\ ReadReturns(a, n, 0)
      BY <1>5, <1>9
    <2>2. fdt' = [fdt EXCEPT ![a][g.desc] = o]
      <3>1. Advance(o, 0) = o
        BY <1>3 DEF Advance, OpenFile
      <3>2. n = 0 \/ fdt' = fdt
        BY <1>5, <1>9
      <3> QED BY <1>5, <1>6, <3>1, <3>2
    <2>3. file' = [file EXCEPT ![o.name] = f]
      BY <1>5, <1>6
    <2> DEFINE g2 == Chained(g, LastBlock(c.buf))
    <2>4. \/ handle' = handle /\ c.offset = 0
          \/ /\ handle' = [handle EXCEPT ![a][h] = g2] /\ c.offset > 0 /\ g.mode = "r"
      <3> DEFINE size == LoopResult(c.offset, n)
      <3>1. c.offset % BLK = 0
        BY <1>2, WholeQuotient
      <3>2. g.mode = "w" => c.offset = 0 /\ n = -1
        BY <1>1, <1>2, <1>5 DEF InStep, Writer
      <3>3. g.mode \in {"r", "w"}
        BY <1>5
      <3>4. size = c.offset \/ (size = -1 /\ c.offset = 0)
        BY <1>2, <1>5, <1>9 DEF LoopResult
      <3>5. g.mode = "w" => size = -1
        BY <3>2 DEF LoopResult
      <3>6. \/ size < 0 /\ handle' = handle
            \/ size >= 0 /\ size % BLK # 0
            \/ size = 0 /\ handle' = handle
            \/ size > 0 /\ handle' = [handle EXCEPT ![a][h] = g2]
        BY <2>1 DEF ReadReturns, c, h, g
      <3> HIDE DEF size, g2
      <3>7. size \in Int /\ (size >= 0 => size % BLK = 0)
        BY <1>2, <3>1, <3>4
      <3> QED BY <1>2, <3>3, <3>4, <3>5, <3>6, <3>7
    <2>5. CASE handle' = handle /\ c.offset = 0
      <3>1. InStep(g, o, f, Idle, k)
        BY <1>1, <1>2, <2>5, ReadEndStep
      <3>2. handle' = [handle EXCEPT ![a][h] = g]
        BY <1>6, <2>5
      <3> QED BY <1>2, <1>4, <1>7, <2>1, <2>2, <2>3, <3>1, <3>2, OneHandle
    <2>6. CASE handle' = [handle EXCEPT ![a][h] = g2] /\ c.offset > 0 /\ g.mode = "r"
      <3>1. /\ g2.mode = g.mode /\ g2.id = g.id /\ g2.desc = g.desc
            /\ g2.prev = LastBlock(c.buf)
        BY DEF Chained
      <3> HIDE DEF g2
      <3>2. InStep(g2, o, f, Idle, k)
        BY <1>1, <1>2, <2>6, <3>1, ReadEndStep
      <3> QED BY <1>2, <1>4, <1>7, <2>1, <2>2, <2>3, <2>6, <3>1, <3>2, OneHandle
    <2> QED BY <2>4, <2>5, <2>6
  <1> QED BY <1>8, <1>9

(***************************************************************************)
(*                             The invariant                               *)
(***************************************************************************)

\* Every step keeps every handle in step.
LEMMA StepInStep ==
  ASSUME ~DoubleClose, Exclusive, MaxFaults = 0
  PROVE  Safe /\ DescriptorsOwned /\ StepInv /\ [Next]_vars => StepInv'
  <1> SUFFICES ASSUME Safe, DescriptorsOwned, StepInv, [Next]_vars PROVE StepInv'
    OBVIOUS
  <1>0. HostOK
    BY TypeParts DEF Safe
  <1>1. ASSUME NEW a \in Apps, run_enclave(a) \/ OpenBadID(a) \/ DataBadParameters(a)
        PROVE  StepInv'
    BY <1>1, UnchangedStep DEF run_enclave, OpenBadID, DataBadParameters, OpenFails, hostVars
  <1>2. ASSUME NEW a \in Apps, EAPP_RETURN(a) \/ CloseNull(a) PROVE StepInv'
    <2>1. UNCHANGED <<file, fdt>> /\ \E how : LeaveInstance(a, how)
      BY <1>2 DEF EAPP_RETURN, CloseNull, TEE_Panic, hostVars
    <2> QED BY <2>1, LeaveStep
  <1>3. ASSUME NEW a \in Apps, Crash(a) PROVE StepInv'
    <2>1. /\ file' = file /\ LeaveInstance(a, "none")
          /\ fdt' = [fdt EXCEPT ![a] = [fd \in Fds |-> ClosedFd]]
      BY <1>3 DEF Crash, ProcessExit
    <2>2. /\ \A b \in Apps \ {a} : fdt'[b] = fdt[b]
          /\ \A d \in Fds : fdt'[a][d].name = NoFile
      BY <1>0, <2>1 DEF HostOK, ClosedFd
    <2> QED BY <2>1, <2>2, LeaveStep
  <1>4. ASSUME NEW a \in Apps, NEW flags \in OpenArgs,
               OpenReadWrite(a, flags) \/ OpenNoMemory(a, flags)
        PROVE  StepInv'
    BY <1>4, UnchangedStep DEF OpenReadWrite, OpenNoMemory, OpenFails, hostVars
  <1>5. ASSUME NEW a \in Apps, NEW h \in Handles, WriteNoMemory(a, h) PROVE StepInv'
    BY <1>5, UnchangedStep DEF WriteNoMemory
  <1>6. ASSUME NEW a \in Apps, NEW h \in Handles, NEW n \in 0..MaxBlocks,
               NEW d \in [1..n -> Data], TEE_WriteObjectData(a, h, d)
        PROVE  StepInv'
    <2>1. d \in Chains
      <3>1. n \in Nat
        OBVIOUS
      <3> QED BY <3>1, SeqDef DEF Chains
    <2> QED BY <1>6, <2>1, WriteStartInStep
  <1>7. ASSUME NEW a \in Apps, NEW h \in Handles, NEW n \in 0..MaxBlocks,
               TEE_ReadObjectData(a, h, n)
        PROVE  StepInv'
    <2>1. n \in Nat
      OBVIOUS
    <2> QED BY <1>7, <2>1, ReadStartInStep
  <1>8. ASSUME NEW a \in Apps, ocall_write_file_full(a) \/ ocall_read_file_full(a)
        PROVE  StepInv'
    BY <1>8, WriteLoopInStep, ReadLoopInStep
  <1>9. ASSUME NEW a \in Apps, NEW h \in Handles, TEE_CloseObject(a, h) PROVE StepInv'
    BY <1>9, CloseInStep
  <1>10. ASSUME NEW a \in Apps, NEW id \in ObjectIDs, NEW flags \in OpenArgs,
                NEW ocreat \in BOOLEAN, OpenPersistentObject(a, id, flags, ocreat)
         PROVE  StepInv'
    BY <1>10, OpenInStep
  <1>11. CASE UNCHANGED vars
    BY <1>11, UnchangedStep DEF vars
  <1>12. CASE Next
    BY <1>1, <1>2, <1>3, <1>4, <1>5, <1>6, <1>7, <1>8, <1>9, <1>10, <1>12 DEF Next
  <1> QED BY <1>11, <1>12

\* Nothing is open and every file is empty in the initial state.
LEMMA InitInStep == Init => StepInv
  <1> SUFFICES ASSUME Init PROVE StepInv
    OBVIOUS
  <1>1. OpenOnce
    BY DEF Init, HostInit, ClosedFd, OpenOnce
  <1>2. WholeFiles
    <2>1. Whole(Len(<< >>))
      BY WholeQuotient
    <2> QED BY <2>1 DEF Init, HostInit, WholeFiles
  <1>3. AllInStep
    BY RecordTypes DEF Init, AllInStep, HandleInStep, Live
  <1> QED BY <1>1, <1>2, <1>3 DEF StepInv

\* The invariant holds throughout.
LEMMA AlwaysInStep ==
  ASSUME ~DoubleClose, Exclusive, MaxFaults = 0
  PROVE  Spec => [](Safe /\ DescriptorsOwned /\ StepInv)
  <1>1. Spec => []DescriptorsOwned
    BY DescriptorsStayOwned
  <1>2. Safe /\ DescriptorsOwned /\ StepInv /\ [Next]_vars => StepInv'
    BY StepInStep
  <1> QED BY <1>1, <1>2, InitInStep, InitSafe, StepSafe, PTL DEF Spec

\* When the host makes no errors, nobody opens a file that is open elsewhere and
\* a TA closes a handle once, every write handle is in step between two calls:
\* the file holds, up to the descriptor's position, the encryption of exactly
\* what TEE_WriteObjectData has put in the chain, for every block size, ocall
\* size and number of processes, and whatever instances were killed on the way.
THEOREM WritersStayInStep ==
  ASSUME ~DoubleClose, Exclusive, MaxFaults = 0
  PROVE  Spec => []WriterInStep
  <1>1. ASSUME Safe, DescriptorsOwned, StepInv, NEW a \in Apps, NEW h \in Handles,
               Running(a), Live(a, h), handle[a][h].mode = "w"
        PROVE  LET s == handle[a][h].prev.chain
                   o == fdt[a][handle[a][h].desc]
               IN o.pos = BLK * Len(s) /\ Holds(o.name, KeyOf(a, h), s)
    <2> DEFINE g == handle[a][h]
               o == OpenAt(a, h)
               k == KeyOf(a, h)
               s == g.prev.chain
               f == file[o.name]
               m == BLK * Len(s)
    <2>1. InStep(g, o, f, Idle, k)
      BY <1>1, IdleInStep DEF Running
    <2>2. k \in Keys /\ f \in Seq(Unit) /\ g \in HandleRec
      BY <1>1, LiveParts
    <2>3. s \in Chains
      BY <2>2 DEF HandleRec, Block
    <2>4. /\ o.pos \in Nat /\ o.pos <= Len(f) /\ o.pos + 0 = m
          /\ \A i \in 1..o.pos : f[i] = Enc(k, s)[i]
      BY <1>1, <2>1, IdleParts DEF InStep, Writer
    <2>5. Enc(k, s) \in Seq(Unit) /\ Len(Enc(k, s)) = m
      BY <2>2, <2>3, EncUnits
    <2>6. fdt[a][handle[a][h].desc] = o
      BY DEF OpenAt
    <2> HIDE DEF g, o, k, s, f, m
    <2>7. o.pos = m /\ m \in Nat /\ m <= Len(f)
      BY <2>4
    <2>8. SubSeq(f, 1, m) = Enc(k, s)
      <3>1. /\ SubSeq(f, 0 + 1, 0 + m) \in Seq(Unit) /\ Len(SubSeq(f, 0 + 1, 0 + m)) = m
            /\ \A i \in 1..m : SubSeq(f, 0 + 1, 0 + m)[i] = f[0 + i]
        BY <2>2, <2>7, Slice
      <3>2. 0 + 1 = 1 /\ 0 + m = m /\ \A i \in 1..m : 0 + i = i
        BY <2>7
      <3>3. /\ SubSeq(f, 1, m) \in Seq(Unit) /\ Len(SubSeq(f, 1, m)) = m
            /\ \A i \in 1..m : SubSeq(f, 1, m)[i] = Enc(k, s)[i]
        BY <2>4, <2>7, <3>1, <3>2
      <3> QED BY <2>5, <3>3, SeqEqual
    <2>9. Holds(o.name, k, s)
      BY <2>7, <2>8 DEF Holds, Enc, f, m
    <2> QED BY <2>6, <2>7, <2>9 DEF k, s, g, m
  <1>2. Safe /\ DescriptorsOwned /\ StepInv => WriterInStep
    BY <1>1 DEF WriterInStep
  <1> QED BY <1>2, AlwaysInStep, PTL

\* In the same conditions every read handle is in step between two calls, unless
\* the TA has called TEE_WriteObjectData on it: its position is a whole number of
\* blocks and its persist_iv the block just before.
THEOREM ReadersStayInStep ==
  ASSUME ~DoubleClose, Exclusive, MaxFaults = 0
  PROVE  Spec => []ReaderInStep
  <1>1. ASSUME Safe, DescriptorsOwned, StepInv, NEW a \in Apps, NEW h \in Handles,
               Running(a), Live(a, h), handle[a][h].mode = "r", handle[a][h].prev # Torn
        PROVE  LET o == fdt[a][handle[a][h].desc] IN
               /\ o.pos % BLK = 0
               /\ handle[a][h].prev = IF o.pos = 0 THEN IV(KeyOf(a, h))
                                      ELSE BlockAt(file[o.name], o.pos \div BLK)
    <2> DEFINE g == handle[a][h]
               o == OpenAt(a, h)
               k == KeyOf(a, h)
               f == file[o.name]
    <2>1. InStep(g, o, f, Idle, k)
      BY <1>1, IdleInStep DEF Running
    <2>2. o.pos \in Nat /\ Whole(o.pos) /\ g.prev = Before(k, f, o.pos - 0)
      BY <1>1, <2>1, IdleParts DEF InStep, Reader
    <2>3. o.pos - 0 = o.pos /\ o.pos % BLK = 0
      <3>1. ASSUME NEW p \in Nat, Whole(p) PROVE p - 0 = p /\ p % BLK = 0
        BY <3>1, WholeQuotient
      <3> QED BY <2>2, <3>1
    <2>4. g.prev = Before(k, f, o.pos)
      <3> HIDE DEF g, o, k, f
      <3> QED BY <2>2, <2>3
    <2> QED BY <2>3, <2>4 DEF Before, OpenAt
  <1>2. Safe /\ DescriptorsOwned /\ StepInv => ReaderInStep
    BY <1>1 DEF ReaderInStep
  <1> QED BY <1>2, AlwaysInStep, PTL

(***************************************************************************)
(*                            What a read returns                          *)
(***************************************************************************)

\* f begins with the encryption of s under k.
Begins(f, k, s) == \A i \in 1..(BLK * Len(s)) : f[i] = Enc(k, s)[i]

\* Where a file holds the encryption of s, its blocks are those of the chain.
LEMMA EncBlock ==
  ASSUME NEW k \in Keys, NEW s \in Chains, NEW f, Begins(f, k, s), NEW j \in 1..Len(s)
  PROVE  BlockAt(f, j) = [key |-> k, chain |-> SubSeq(s, 1, j)]
  <1> DEFINE x == (j - 1) * BLK
             t == SubSeq(s, 1, j)
  <1>1. Len(s) \in Nat /\ j - 1 \in Nat /\ j \in Nat /\ Len(s) - j \in Nat
    BY DEF Chains
  <1>2. x = BLK * (j - 1) /\ x \in Nat /\ x + BLK <= BLK * Len(s)
    <2>1. ASSUME NEW v \in Nat, NEW w \in Nat
          PROVE  /\ BLK * v \in Nat /\ v * BLK = BLK * v
                 /\ BLK * ((v + 1) + w) = BLK * v + BLK + BLK * w
      OBVIOUS
    <2> DEFINE X == BLK * Len(s)
               Y == BLK * (Len(s) - j)
    <2>2. ((j - 1) + 1) + (Len(s) - j) = Len(s)
      BY <1>1
    <2>3. BLK * (((j - 1) + 1) + (Len(s) - j)) = BLK * (j - 1) + BLK + Y /\ Y \in Nat
      BY <1>1, <2>1
    <2>4. x = BLK * (j - 1) /\ x \in Nat
      BY <1>1, <2>1
    <2>5. X = x + BLK + Y
      BY <2>2, <2>3, <2>4
    <2> HIDE DEF X, Y, x
    <2>6. x + BLK <= X
      BY <2>3, <2>4, <2>5
    <2> QED BY <2>4, <2>6 DEF X
  <1> HIDE DEF x
  <1>3. t \in Chains /\ Len(t) = j
    BY PrefixConcat
  <1> HIDE DEF t
  <1>4. t # << >> /\ k # NoKey
    BY <1>1, <1>3 DEF Keys
  <1>5. ASSUME NEW i \in 1..BLK PROVE f[x + i] = [key |-> k, chain |-> t, part |-> i]
    <2>1. x + i \in 1..(BLK * Len(s)) /\ i - 1 \in 0..(BLK - 1) /\ (i - 1) + 1 = i
          /\ (j - 1) + 1 = j
      <3> DEFINE X == BLK * Len(s)
      <3>1. x + BLK <= X /\ x \in Nat /\ X \in Nat
        BY <1>1, <1>2, MulNat
      <3> HIDE DEF X
      <3>2. x + i \in 1..X
        BY <3>1
      <3> QED BY <1>1, <3>2 DEF X
    <2>2. (x + i) - 1 = BLK * (j - 1) + (i - 1)
      <3>1. (x + i) - 1 = x + (i - 1)
        BY <1>2
      <3> QED BY <1>2, <3>1
    <2>3. ((x + i) - 1) \div BLK = j - 1 /\ ((x + i) - 1) % BLK = i - 1
      <3>1. /\ (BLK * (j - 1) + (i - 1)) \div BLK = j - 1
            /\ (BLK * (j - 1) + (i - 1)) % BLK = i - 1
        BY <1>1, <2>1, Quotient
      <3> QED BY <2>2, <3>1, Zenon
    <2>4. f[x + i] = UnitOf(k, s, x + i)
      BY <2>1, EncUnits DEF Begins
    <2>5. UnitOf(k, s, x + i) = [key |-> k, chain |-> SubSeq(s, 1, (j - 1) + 1),
                                 part |-> (i - 1) + 1]
      BY <2>3, Zenon DEF UnitOf
    <2> QED BY <2>1, <2>4, <2>5, Zenon DEF t
  <1>6. f[x + 1] = [key |-> k, chain |-> t, part |-> 1]
    <2>1. 1 \in 1..BLK
      OBVIOUS
    <2> QED BY <1>5, <2>1
  <1> DEFINE e == f[x + 1]
  <1>7. BlockAt(f, j) =
             IF e.key # NoKey /\ e.chain # << >>
                /\ \A i \in 1..BLK : f[x + i] = [key |-> e.key, chain |-> e.chain, part |-> i]
             THEN [key |-> e.key, chain |-> e.chain] ELSE Torn
    BY Zenon DEF BlockAt, x
  <1>8. e.key = k /\ e.chain = t
    BY <1>6
  <1> HIDE DEF e
  <1>9. \A i \in 1..BLK : f[x + i] = [key |-> e.key, chain |-> e.chain, part |-> i]
    BY <1>5, <1>8
  <1>10. BlockAt(f, j) = [key |-> e.key, chain |-> e.chain]
    BY <1>4, <1>7, <1>8, <1>9
  <1> QED BY <1>8, <1>10 DEF t

\* The cipher block of the first j blocks of s, and the one before it.
ChainBlock(k, s, j) == [key |-> k, chain |-> SubSeq(s, 1, j)]
ChainBefore(k, s, j) == IF j = 1 THEN IV(k) ELSE ChainBlock(k, s, j - 1)

\* A block of a chain decrypts, after the block before it, to its own data.
LEMMA DecryptsTo ==
  ASSUME NEW k, NEW s \in Chains, NEW j \in 1..Len(s)
  PROVE  DecryptBlock(k, ChainBefore(k, s, j), ChainBlock(k, s, j)) = s[j]
  <1> DEFINE t == SubSeq(s, 1, j)
             p == ChainBefore(k, s, j)
             c == ChainBlock(k, s, j)
  <1>1. Len(s) \in Nat /\ j \in Nat /\ s \in Seq(Data)
    BY DEF Chains
  <1>2. ASSUME NEW i \in 1..Len(s)
        PROVE  /\ SubSeq(s, 1, i) \in Seq(Data) /\ Len(SubSeq(s, 1, i)) = i
               /\ \A l \in 1..i : SubSeq(s, 1, i)[l] = s[l]
    BY <1>1, SubSeqProperties
  <1>3. t \in Seq(Data) /\ Len(t) = j /\ \A l \in 1..j : t[l] = s[l]
    BY <1>2
  <1> HIDE DEF t
  <1>4. t # << >> /\ Last(t) = s[j]
    BY <1>1, <1>3 DEF Last
  <1>5. Front(t) = IF j = 1 THEN << >> ELSE SubSeq(s, 1, j - 1)
    <2>1. Front(t) = SubSeq(t, 1, j - 1)
      BY <1>3 DEF Front
    <2>2. CASE j = 1
      BY <1>3, <2>1, <2>2
    <2>3. CASE j # 1
      <3>1. j - 1 \in 1..Len(s) /\ j - 1 \in 1..Len(t)
        BY <1>1, <1>3, <2>3
      <3>2. /\ SubSeq(t, 1, j - 1) \in Seq(Data) /\ Len(SubSeq(t, 1, j - 1)) = j - 1
            /\ \A l \in 1..(j - 1) : SubSeq(t, 1, j - 1)[l] = t[l]
        BY <1>3, <3>1, SubSeqProperties
      <3>3. /\ SubSeq(s, 1, j - 1) \in Seq(Data) /\ Len(SubSeq(s, 1, j - 1)) = j - 1
            /\ \A l \in 1..(j - 1) : SubSeq(s, 1, j - 1)[l] = s[l]
        BY <1>2, <3>1
      <3>4. \A l \in 1..(j - 1) : SubSeq(t, 1, j - 1)[l] = SubSeq(s, 1, j - 1)[l]
        BY <1>1, <1>3, <3>2, <3>3
      <3>5. SubSeq(t, 1, j - 1) = SubSeq(s, 1, j - 1)
        BY <3>2, <3>3, <3>4, SeqEqual
      <3> QED BY <2>1, <2>3, <3>5
    <2> QED BY <2>2, <2>3
  <1>6. p = [key |-> k, chain |-> Front(t)]
    BY <1>5 DEF IV, ChainBefore, ChainBlock
  <1>7. c = [key |-> k, chain |-> t]
    BY DEF t, ChainBlock
  <1>8. c.key = k /\ c.chain = t
    BY <1>7
  <1> HIDE DEF c, p
  <1>9. DecryptBlock(k, p, c) = s[j]
    BY <1>4, <1>6, <1>8 DEF DecryptBlock
  <1> QED BY <1>9 DEF c, p

\* TEE_ReadObjectData decrypts what it received: if the file holds the encryption
\* of s, and the read went from block q + 1 to block q + m of it, exactly the
\* blocks of s in between.
LEMMA DecryptsBack ==
  ASSUME NEW k \in Keys, NEW s \in Chains, NEW f, NEW u \in Seq(Unit),
         NEW q \in Nat, NEW m \in Nat, Len(u) = BLK * m, CopyOf(u, f, q, m),
         q + m <= Len(s), Begins(f, k, s),
         NEW p, p = IF q = 0 THEN IV(k) ELSE BlockAt(f, q)
  PROVE  /\ Decrypt(k, p, u) \in Seq(Data \cup {Garbage}) /\ Len(Decrypt(k, p, u)) = m
         /\ \A j \in 1..m : Decrypt(k, p, u)[j] = s[q + j]
  <1>1. Len(s) \in Nat
    BY DEF Chains
  <1>2. Len(u) \div BLK = m
    <2>1. BLK * m + 0 = BLK * m /\ 0 \in 0..(BLK - 1)
      BY MulNat
    <2>2. (BLK * m + 0) \div BLK = m
      BY <2>1, Quotient
    <2> QED BY <2>1, <2>2, Zenon
  <1>3. Decrypt(k, p, u) \in Seq(Data \cup {Garbage}) /\ Len(Decrypt(k, p, u)) = m
    BY <1>2, DecryptType
  <1>a. ASSUME NEW i \in 1..m
        PROVE  BlockAt(u, i) = ChainBlock(k, s, q + i)
    <2>1. BlockAt(u, i) = BlockAt(f, q + i)
      BY BlockShift
    <2>2. q + i \in 1..Len(s)
      BY <1>1
    <2> QED BY <2>1, <2>2, EncBlock DEF ChainBlock
  <1>4. ASSUME NEW j \in 1..m PROVE Decrypt(k, p, u)[j] = s[q + j]
    <2> DEFINE B == BlockAt(u, j)
               P == IF j = 1 THEN p ELSE BlockAt(u, j - 1)
    <2>1. Decrypt(k, p, u)[j] = DecryptBlock(k, P, B)
      BY <1>2 DEF Decrypt
    <2>2. q + j \in 1..Len(s)
      BY <1>1
    <2>3. B = ChainBlock(k, s, q + j)
      BY <1>a
    <2>4. P = ChainBefore(k, s, q + j)
      <3>1. CASE j = 1 /\ q = 0
        BY <3>1 DEF ChainBefore
      <3>2. CASE j = 1 /\ q # 0
        <4>1. q \in 1..Len(s) /\ (q + j) - 1 = q /\ q + j # 1
          BY <1>1, <2>2, <3>2
        <4>2. BlockAt(f, q) = ChainBlock(k, s, q)
          BY <4>1, EncBlock DEF ChainBlock
        <4> QED BY <3>2, <4>1, <4>2 DEF ChainBefore
      <3>3. CASE j # 1
        <4>1. /\ j - 1 \in 1..m /\ (q + j) - 1 = q + (j - 1) /\ q + j # 1
              /\ q + (j - 1) \in 1..Len(s)
          BY <1>1, <2>2, <3>3
        <4>2. BlockAt(u, j - 1) = ChainBlock(k, s, q + (j - 1))
          BY <4>1, <1>a
        <4> QED BY <3>3, <4>1, <4>2 DEF ChainBefore
      <3> QED BY <3>1, <3>2, <3>3
    <2> HIDE DEF B, P
    <2>5. DecryptBlock(k, ChainBefore(k, s, q + j), ChainBlock(k, s, q + j)) = s[q + j]
      BY <2>2, DecryptsTo
    <2> QED BY <2>1, <2>3, <2>4, <2>5
  <1> QED BY <1>3, <1>4

\* Only the end of the read loop makes a read succeed.
LEMMA ReadSucceedsIn ==
  ASSUME Safe, [Next]_vars, NEW a \in Apps, ReadSucceeds(a)
  PROVE  ocall_read_file_full(a)
  <1>0. CallsOK
    BY TypeParts DEF Safe
  <1>1. /\ call[a].op = "read" /\ call'[a] = Idle /\ inst'[a] = "run"
        /\ call[a] # Idle /\ call'[a] # call[a]
    BY IdleParts DEF ReadSucceeds
  <1>2. ASSUME NEW b \in Apps, run_enclave(b) \/ OpenBadID(b) \/ DataBadParameters(b)
        PROVE  FALSE
    BY <1>1, <1>2 DEF run_enclave, OpenBadID, DataBadParameters
  <1>3. ASSUME NEW b \in Apps, EAPP_RETURN(b) \/ CloseNull(b) \/ Crash(b) PROVE FALSE
    <2>1. b # a
      BY <1>1, <1>3 DEF EAPP_RETURN, CloseNull, Crash, TEE_Panic, LeaveInstance, Running,
                        Safe, TypeOK
    <2> QED BY <1>0, <1>1, <1>3, <2>1 DEF EAPP_RETURN, CloseNull, Crash, TEE_Panic,
                                          LeaveInstance, CallsOK
  <1>4. ASSUME NEW b \in Apps, NEW flags \in OpenArgs,
               OpenReadWrite(b, flags) \/ OpenNoMemory(b, flags)
        PROVE  FALSE
    BY <1>1, <1>4 DEF OpenReadWrite, OpenNoMemory
  <1>5. ASSUME NEW b \in Apps, NEW id \in ObjectIDs, NEW flags \in OpenArgs,
               NEW ocreat \in BOOLEAN, OpenPersistentObject(b, id, flags, ocreat)
        PROVE  FALSE
    BY <1>1, <1>5 DEF OpenPersistentObject
  <1>6. ASSUME NEW b \in Apps, NEW h \in Handles, WriteNoMemory(b, h) \/ TEE_CloseObject(b, h)
        PROVE  FALSE
    <2>1. CASE b = a
      BY <1>1, <1>6, <2>1 DEF WriteNoMemory, TEE_CloseObject, Running
    <2>2. CASE b # a
      BY <1>0, <1>1, <1>6, <2>2 DEF WriteNoMemory, TEE_CloseObject, TEE_Panic, LeaveInstance,
                                    CallsOK
    <2> QED BY <2>1, <2>2
  <1>7. ASSUME NEW b \in Apps, NEW h \in Handles, NEW n \in 0..MaxBlocks,
               \/ TEE_ReadObjectData(b, h, n)
               \/ \E d \in [1..n -> Data] : TEE_WriteObjectData(b, h, d)
        PROVE  FALSE
    <2>1. CASE b = a
      BY <1>1, <1>7, <2>1 DEF TEE_ReadObjectData, TEE_WriteObjectData, Running
    <2>2. CASE b # a
      BY ZenonT(60), <1>0, <1>1, <1>7, <2>2 DEF TEE_ReadObjectData, TEE_WriteObjectData, CallsOK
    <2> QED BY <2>1, <2>2
  <1>8. ASSUME NEW b \in Apps, ocall_write_file_full(b) PROVE FALSE
    <2>1. b # a
      BY <1>1, <1>8 DEF ocall_write_file_full
    <2> QED BY <1>0, <1>1, <1>8, <2>1 DEF ocall_write_file_full, CallsOK
  <1>9. ASSUME NEW b \in Apps, ocall_read_file_full(b), b # a PROVE FALSE
    BY <1>0, <1>1, <1>9 DEF ocall_read_file_full, CallsOK
  <1>10. CASE UNCHANGED vars
    BY <1>1, <1>10 DEF vars
  <1>11. CASE Next
    BY <1>2, <1>3, <1>4, <1>5, <1>6, <1>7, <1>8, <1>9, <1>11 DEF Next
  <1> QED BY <1>10, <1>11

\* What the return of a successful read hands back.
LEMMA ReadData ==
  ASSUME Safe, DescriptorsOwned, StepInv, MaxFaults = 0, NEW a \in Apps,
         ocall_read_file_full(a), call'[a] = Idle, ret'[a].res = "SUCCESS"
  PROVE  LET c == call[a]
             g == handle[a][c.h]
         IN \/ ret'[a].data = << >>
            \/ /\ g.mode = "r" /\ c.offset > 0
               /\ ret'[a].data = Decrypt(KeyOf(a, c.h), g.prev, c.buf)
  <1> DEFINE c == call[a]
             g == handle[a][c.h]
             k == KeyOf(a, c.h)
             own == Owner(a, c.h)
  <1>0. CallsOK /\ RetOK
    BY TypeParts DEF Safe
  <1>1. c.op = "read"
    BY DEF ocall_read_file_full
  <1>2. c.offset \in Nat /\ InStep(g, OpenAt(a, c.h), file[OpenAt(a, c.h).name], c, k)
    BY <1>1, CallParts
  <1>3. PICK n \in Int :
               /\ \/ g.mode = "w" /\ n = -1
                  \/ g.mode = "r" /\ n \in Nat
               /\ \/ /\ n > 0
                     /\ call' = [call EXCEPT ![a] =
                                    Moved(c, n, c.buf \o UnitsRead(a, g.desc, n))]
                  \/ /\ n <= 0
                     /\ ReadReturns(a, n, 0)
    <2>1. \E n \in Int :
               /\ file' = file
               /\ \/ g.mode = "w" /\ n = -1 /\ fdt' = fdt
                  \/ /\ g.mode = "r" /\ n \in Nat /\ Whole(n)
                     /\ OpenAt(a, c.h).pos + n <= Len(file[OpenAt(a, c.h).name])
                     /\ fdt' = [fdt EXCEPT ![a][g.desc] = Advance(OpenAt(a, c.h), n)]
               /\ \/ /\ n > 0 /\ handle' = handle /\ ret' = ret
                     /\ call' = [call EXCEPT ![a] =
                                    Moved(c, n, c.buf \o UnitsRead(a, g.desc, n))]
                  \/ /\ n <= 0
                     /\ call' = [call EXCEPT ![a] = Idle]
                     /\ ReadReturns(a, n, 0)
      BY ReadLoopParts, Zenon
    <2> QED BY <2>1, Zenon
  <1>4. n <= 0 /\ ReadReturns(a, n, 0)
    <2>1. ASSUME call' = [call EXCEPT ![a] = Moved(c, n, c.buf \o UnitsRead(a, g.desc, n))]
          PROVE  FALSE
      <3>1. call'[a] = Moved(c, n, c.buf \o UnitsRead(a, g.desc, n))
        BY <1>0, <2>1 DEF CallsOK
      <3>2. call'[a].op = "read"
        BY <1>1, <3>1 DEF Moved
      <3> QED BY <3>2, IdleParts
    <2> QED BY <1>3, <2>1
  <1> DEFINE size == LoopResult(c.offset, n)
             R(res, cnt, d) == Return(a, ReadReturned(res, own, c.count, cnt, d))
  <1>5. \/ size < 0 /\ R("GENERIC", 0, << >>)
        \/ size >= 0 /\ size % BLK # 0 /\ R("GENERIC", size, << >>)
        \/ size = 0 /\ R("SUCCESS", 0, << >>)
        \/ /\ size > 0
           /\ R("SUCCESS", size, IF g.mode = "r" THEN Decrypt(k, g.prev, c.buf)
                                 ELSE [j \in 1..(size \div BLK) |-> Garbage])
    BY <1>4 DEF ReadReturns
  <1>6. g.mode = "w" => c.offset = 0
    BY <1>1, <1>2 DEF InStep, Writer
  <1>7. size > 0 => g.mode = "r" /\ c.offset > 0
    BY <1>2, <1>3, <1>4, <1>6 DEF LoopResult
  <1> HIDE DEF size, c, g, k, own
  <1>8. ASSUME NEW res, NEW cnt, NEW d, R(res, cnt, d)
        PROVE  ret'[a].res = res /\ ret'[a].data = d
    BY <1>0, <1>8 DEF RetOK, Return, ReadReturned
  <1> HIDE DEF R
  <1>9. CASE size < 0 /\ R("GENERIC", 0, << >>)
    BY <1>8, <1>9
  <1>10. CASE size >= 0 /\ size % BLK # 0 /\ R("GENERIC", size, << >>)
    BY <1>8, <1>10
  <1>11. CASE size = 0 /\ R("SUCCESS", 0, << >>)
    BY <1>8, <1>11
  <1>12. CASE /\ size > 0
              /\ R("SUCCESS", size, IF g.mode = "r" THEN Decrypt(k, g.prev, c.buf)
                                    ELSE [j \in 1..(size \div BLK) |-> Garbage])
    <2>1. ret'[a].data = IF g.mode = "r" THEN Decrypt(k, g.prev, c.buf)
                         ELSE [j \in 1..(size \div BLK) |-> Garbage]
      BY <1>8, <1>12
    <2>2. ret'[a].data = Decrypt(k, g.prev, c.buf)
      BY <1>7, <1>12, <2>1
    <2> QED BY <1>7, <1>12, <2>2 DEF k, g, c
  <1> QED BY <1>5, <1>9, <1>10, <1>11, <1>12

\* The round trip: under the same discipline, where the file holds the encryption
\* of s under the reader's key, a read that TEE_ReadObjectData reports as a success
\* returns exactly the blocks of s at the position it read from, however the
\* transfer was cut into ocalls and whoever wrote the file.
THEOREM ReadsReturnWhatWasWritten ==
  ASSUME ~DoubleClose, Exclusive, MaxFaults = 0
  PROVE  Spec => ReadBack
  <1> DEFINE A == \A a \in Apps :
          (ReadSucceeds(a) /\ handle[a][call[a].h].prev # Torn) =>
          LET o == fdt[a][handle[a][call[a].h].desc]
              to == o.pos \div BLK
              k == KeyOf(a, call[a].h)
          IN \A s \in written[Owner(a, call[a].h)] :
                (to <= Len(s) /\ Holds(o.name, k, s)) =>
                ret'[a].data = SubSeq(s, to - Len(ret'[a].data) + 1, to)
  <1>1. ASSUME Safe, DescriptorsOwned, StepInv, [Next]_vars, NEW a \in Apps,
               ReadSucceeds(a), handle[a][call[a].h].prev # Torn,
               NEW s \in written[Owner(a, call[a].h)],
               OpenAt(a, call[a].h).pos \div BLK <= Len(s),
               Holds(OpenAt(a, call[a].h).name, KeyOf(a, call[a].h), s)
        PROVE  LET to == OpenAt(a, call[a].h).pos \div BLK IN
               ret'[a].data = SubSeq(s, to - Len(ret'[a].data) + 1, to)
    <2> DEFINE c == call[a]
               g == handle[a][c.h]
               o == OpenAt(a, c.h)
               f == file[o.name]
               k == KeyOf(a, c.h)
               to == o.pos \div BLK
               d == ret'[a].data
    <2>1. ocall_read_file_full(a)
      BY <1>1, ReadSucceedsIn
    <2>2. c.op = "read"
      BY <1>1 DEF ReadSucceeds
    <2>3. /\ c.h \in Handles /\ Live(a, c.h) /\ c.buf \in Seq(Unit) /\ c.offset \in Nat
          /\ Len(c.buf) = c.offset /\ Whole(c.offset) /\ InStep(g, o, f, c, k)
      BY <1>1, <2>2, CallParts
    <2>4. k \in Keys /\ o.pos \in Nat /\ Whole(o.pos) /\ f \in Seq(Unit)
      BY <1>1, <2>3, LiveParts DEF InStep
    <2>5. s \in Chains
      <3>1. written[k] \in SUBSET Chains
        BY <1>1, <2>4 DEF Safe, TypeOK
      <3> QED BY <1>1, <3>1, OwnerKey
    <2>6. to <= Len(s) /\ to \in Nat /\ Len(s) \in Nat /\ o.pos = BLK * to
      <3>1. ASSUME NEW p \in Nat, Whole(p) PROVE p \div BLK \in Nat /\ p = BLK * (p \div BLK)
        BY <3>1, WholeQuotient
      <3> QED BY <1>1, <2>4, <2>5, <3>1 DEF Chains
    <2>7. Begins(f, k, s)
      <3> DEFINE m == BLK * Len(s)
      <3>1. m \in Nat /\ m <= Len(f) /\ SubSeq(f, 1, m) = Enc(k, s)
        BY <1>1, <2>6, MulNat DEF Holds, Enc
      <3> HIDE DEF m, f
      <3>2. \A i \in 1..m : SubSeq(f, 1, m)[i] = f[i]
        <4>1. \A i \in 1..m : SubSeq(f, 0 + 1, 0 + m)[i] = f[0 + i]
          BY <2>4, <3>1, Slice
        <4>2. 0 + 1 = 1 /\ 0 + m = m /\ \A i \in 1..m : 0 + i = i
          BY <3>1
        <4> QED BY <4>1, <4>2
      <3> QED BY <3>1, <3>2 DEF Begins, m
    <2>8. \/ d = << >>
          \/ g.mode = "r" /\ c.offset > 0 /\ d = Decrypt(k, g.prev, c.buf)
      BY <1>1, <2>1, ReadData DEF ReadSucceeds
    <2>9. ASSUME NEW m \in 0..to, NEW e, Len(e) = m, e \in Seq(Data \cup {Garbage}),
                 \A j \in 1..m : e[j] = s[(to - m) + j]
          PROVE  e = SubSeq(s, to - m + 1, to)
      <3> DEFINE v == SubSeq(s, to - m + 1, to)
      <3>0. to - m \in Nat /\ to - m + 1 = (to - m) + 1 /\ (to - m) + m = to
        <4> HIDE DEF to
        <4> QED BY <2>6
      <3>1. s \in Seq(Data \cup {Garbage})
        BY <2>5 DEF Chains
      <3> DEFINE z == to - m
      <3> HIDE DEF to, z
      <3>2. z \in Nat /\ to = z + m /\ to - m + 1 = z + 1 /\ z + m <= Len(s)
        BY <2>6, <3>0 DEF z
      <3>3. /\ SubSeq(s, z + 1, z + m) \in Seq(Data \cup {Garbage})
            /\ Len(SubSeq(s, z + 1, z + m)) = m
            /\ \A i \in 1..m : SubSeq(s, z + 1, z + m)[i] = s[z + i]
        <4>1. ASSUME NEW S, NEW t \in Seq(S), NEW p \in Nat, NEW r \in Nat, p + r <= Len(t)
              PROVE  /\ SubSeq(t, p + 1, p + r) \in Seq(S)
                     /\ Len(SubSeq(t, p + 1, p + r)) = r
                     /\ \A i \in 1..r : SubSeq(t, p + 1, p + r)[i] = t[p + i]
          BY <4>1, SubSeqProperties
        <4>2. m \in Nat
          OBVIOUS
        <4> QED BY <3>1, <3>2, <4>1, <4>2
      <3>4. v = SubSeq(s, z + 1, z + m)
        BY <3>2
      <3> HIDE DEF v
      <3>5. v \in Seq(Data \cup {Garbage}) /\ Len(v) = m /\ \A i \in 1..m : v[i] = e[i]
        BY <2>9, <3>3, <3>4 DEF z
      <3>6. e = v
        BY <2>9, <3>5, SeqEqual
      <3> QED BY <3>6 DEF v
    <2>10. CASE d = << >>
      <3>1. Len(d) = 0 /\ d \in Seq(Data \cup {Garbage}) /\ 1..0 = {}
        BY <2>10
      <3>2. 0 \in 0..to
        BY <2>6
      <3> HIDE DEF d, to
      <3>3. d = SubSeq(s, to - 0 + 1, to)
        BY <2>9, <3>1, <3>2
      <3> QED BY <3>1, <3>3 DEF d, to
    <2>11. CASE g.mode = "r" /\ c.offset > 0 /\ d = Decrypt(k, g.prev, c.buf)
      <3> DEFINE m == c.offset \div BLK
                 q == to - m
      <3>1. /\ c.offset <= o.pos /\ g.prev = Before(k, f, o.pos - c.offset)
            /\ \A i \in 1..c.offset : c.buf[i] = f[o.pos - c.offset + i]
        BY <1>1, <2>2, <2>3, <2>11 DEF InStep, Reader, Got
      <3>2. m \in Nat /\ c.offset = BLK * m
        <4>1. ASSUME NEW p \in Nat, Whole(p)
              PROVE  p \div BLK \in Nat /\ p = BLK * (p \div BLK)
          BY <4>1, WholeQuotient
        <4> QED BY <2>3, <4>1
      <3> HIDE DEF m, to
      <3>3. q \in Nat /\ o.pos - c.offset = BLK * q /\ q + m = to
        <4>1. BLK * (to - m) = BLK * to - BLK * m
          BY <2>6, <3>2
        <4>2. ~(to < m)
          <5>1. ASSUME to < m PROVE FALSE
            <6>1. BLK * (m - to) > 0 /\ BLK * (m - to) = BLK * m - BLK * to
              BY <2>6, <3>2, <5>1
            <6> DEFINE X == BLK * m
                       Y == BLK * to
            <6>2. X - Y > 0 /\ X <= Y /\ X \in Nat /\ Y \in Nat
              BY <2>3, <2>4, <2>6, <3>1, <3>2, <6>1
            <6> HIDE DEF X, Y
            <6> QED BY <6>2
          <5> QED BY <5>1
        <4> QED BY <2>6, <3>2, <4>1, <4>2
      <3> HIDE DEF q
      <3>4. CopyOf(c.buf, f, q, m) /\ Len(c.buf) = BLK * m
        BY <2>3, <3>1, <3>2, <3>3 DEF CopyOf
      <3>5. g.prev = IF q = 0 THEN IV(k) ELSE BlockAt(f, q)
        <4>1. (BLK * q = 0) <=> (q = 0)
          BY <3>3
        <4>2. (BLK * q) \div BLK = q
          <5>1. BLK * q + 0 = BLK * q /\ 0 \in 0..(BLK - 1)
            BY <3>3, MulNat
          <5>2. (BLK * q + 0) \div BLK = q
            BY <3>3, <5>1, Quotient
          <5> QED BY <5>1, <5>2, Zenon
        <4>3. g.prev = Before(k, f, BLK * q)
          BY <3>1, <3>3, Zenon
        <4> QED BY <4>1, <4>2, <4>3 DEF Before
      <3> HIDE DEF c, g, o, f, k, d
      <3>6. /\ d \in Seq(Data \cup {Garbage}) /\ Len(d) = m
            /\ \A j \in 1..m : d[j] = s[q + j]
        <4>1. q + m <= Len(s)
          BY <2>6, <3>3
        <4> DEFINE u == c.buf
                   p == g.prev
        <4>2. /\ u \in Seq(Unit) /\ Len(u) = BLK * m /\ CopyOf(u, f, q, m)
              /\ p = IF q = 0 THEN IV(k) ELSE BlockAt(f, q)
              /\ d = Decrypt(k, p, u)
          BY <2>3, <2>11, <3>4, <3>5
        <4> HIDE DEF u, p
        <4>3. /\ Decrypt(k, p, u) \in Seq(Data \cup {Garbage}) /\ Len(Decrypt(k, p, u)) = m
              /\ \A j \in 1..m : Decrypt(k, p, u)[j] = s[q + j]
          BY <2>4, <2>5, <2>7, <3>2, <3>3, <4>1, <4>2, DecryptsBack
        <4> QED BY <4>2, <4>3
      <3>7. m \in 0..to /\ q = to - m
        <4>1. q \in Nat /\ m \in Nat /\ to \in Nat /\ q + m = to
          BY <2>6, <3>2, <3>3
        <4> QED BY <4>1
      <3>8. d = SubSeq(s, to - m + 1, to)
        BY <2>9, <3>6, <3>7
      <3> QED BY <3>6, <3>8 DEF d, to, o, c
    <2> QED BY <2>8, <2>10, <2>11
  <1>2. Safe /\ DescriptorsOwned /\ StepInv /\ [Next]_vars => [A]_vars
    <2> SUFFICES ASSUME Safe, DescriptorsOwned, StepInv, [Next]_vars PROVE A
      OBVIOUS
    <2> QED BY <1>1 DEF OpenAt
  <1>3. Spec => [](Safe /\ DescriptorsOwned /\ StepInv)
    BY AlwaysInStep
  <1>4. Spec => [][A]_vars
    <2> HIDE DEF A
    <2> QED BY <1>2, <1>3, PTL DEF Spec
  <1> QED BY <1>4 DEF ReadBack

=============================================================================
