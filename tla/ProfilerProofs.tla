---------------------------- MODULE ProfilerProofs ----------------------------
(***************************************************************************)
(* Proofs about Profiler, for every program, call depth, log size, symbol  *)
(* file and hash table.                                                    *)
(*                                                                         *)
(* The analyzer replays the records long after the calls they stand for.   *)
(* What connects the two is the history of a run: after each record, the   *)
(* calls that were active then and the number of those that had ended.     *)
(* Trace says that H is that history for the records R and the completed   *)
(* calls D; the program extends it with every hook, and the analyzer, once *)
(* it has read i records, is where the program was in H[i].                *)
(***************************************************************************)
EXTENDS Profiler, SequenceTheorems, WellFoundedInduction, TLAPS

(***************************************************************************)
(*                                 Types                                   *)
(***************************************************************************)
Recs == [direction : {START, CALL, RET}, hartid : Harts, nsec : Nat,
         callee : Funcs \cup {Base, 0}]
Active == [fn : Funcs, start : Nat, hart : Harts]
Ended == [fn : Funcs, depth : Nat, start : Nat, end : Nat,
          start_hartid : Harts, end_hartid : Harts]
Moments == [stack : Seq(Active), ended : Nat]
StackRecs == [callee : Funcs \cup {Base, 0}, start : Nat, hartid : Harts, depth : Nat]
Rows == [depth : Nat, addr : Int, name : STRING \cup {NULL}, start : Nat, end : Nat,
         start_hartid : Harts, end_hartid : Harts]
Logs == [idx : Nat, recs : Seq(Recs)]

Max_Records == 2 * MaxCalls + 1

(***************************************************************************)
(*                         The inductive invariant                         *)
(***************************************************************************)
\* Record r leads from moment m to moment n; the calls that end are those of D.
Follows(m, r, n, D) ==
    \/ /\ r.direction = CALL /\ r.callee \in Funcs
       /\ n.stack = Append(m.stack, [fn |-> r.callee, start |-> r.nsec, hart |-> r.hartid])
       /\ n.ended = m.ended
    \/ /\ r.direction = RET /\ m.stack # << >> /\ m.ended < Len(D)
       /\ n.stack = Front(m.stack)
       /\ n.ended = m.ended + 1
       /\ D[n.ended] = [fn |-> Last(m.stack).fn, depth |-> Len(m.stack) - 1,
                        start |-> Last(m.stack).start, end |-> r.nsec,
                        start_hartid |-> Last(m.stack).hart, end_hartid |-> r.hartid]

\* H is the history of a run that has produced the records R and ended the calls D.
Trace(R, H, D) ==
    /\ R \in Seq(Recs) /\ H \in Seq(Moments) /\ D \in Seq(Ended)
    /\ Len(H) = Len(R) /\ Len(R) >= 1
    /\ R[1].direction = START /\ R[1].callee = Base
    /\ H[1].stack = << >> /\ H[1].ended = 0
    /\ \A j \in 2..Len(R) : Follows(H[j - 1], R[j], H[j], D) /\ R[j].nsec = j - 1
    /\ \A j \in 1..Len(R) : H[j].ended <= Len(D)
    /\ \A j \in 1..Len(R) : \A i \in 1..Len(D) : i <= H[j].ended <=> D[i].end < j

\* The history of the run in progress.
RunIs(R, H, D, F) ==
    /\ Trace(R, H, D)
    /\ H[Len(R)].stack = F /\ H[Len(R)].ended = Len(D)

ProgramInv ==
    /\ proc \in {"none", "running"} /\ mapped \in BOOLEAN
    /\ clock \in Nat /\ calls \in 0..MaxCalls /\ runs \in 0..MaxRuns
    /\ target \in Targets /\ nm \in NmFiles
    /\ perf \in Seq(Recs) /\ frames \in Seq(Active) /\ done \in Seq(Ended)
    /\ Len(perf) + Len(frames) <= 2 * calls + 1 /\ Len(frames) <= STACK_SIZE
    /\ proc = "none" => ~mapped /\ frames = << >>
    /\ ~mapped => perf = << >> /\ done = << >>
    /\ mapped => clock = Len(perf) /\ \E H : RunIs(perf, H, done, frames)

\* W is what target t lets into the file of the records R.
CutOf(W, R, t) ==
    /\ W \in Seq(Recs) /\ 1 <= Len(W)
    /\ Len(W) = IF Len(R) <= t.recs THEN Len(R)
                ELSE t.recs + (IF t.cut THEN 1 ELSE 0)
    /\ \A j \in 1..Len(W) : /\ W[j].direction = R[j].direction
                            /\ W[j].hartid = R[j].hartid /\ W[j].nsec = R[j].nsec
                            /\ j <= t.recs => W[j].callee = R[j].callee

\* The log file L was left by a run with the records R, the history H and the calls D.
LogIs(L, D, R, H, t) ==
    /\ Trace(R, H, D) /\ H[Len(R)].ended = Len(D)
    /\ L.idx = Len(R) /\ CutOf(L.recs, R, t) /\ Len(R) <= Max_Records

\* The analyzer's stack S holds the active calls T.
SameStack(S, T) ==
    /\ Len(S) = Len(T)
    /\ \A k \in 1..Len(T) : /\ S[k].callee = T[k].fn /\ S[k].start = T[k].start
                            /\ S[k].hartid = T[k].hart /\ S[k].depth = k - 1

\* The name is one that the symbol file gives to address ad, or NULL if it gives none.
Named(file, ad, name) ==
    LET names == {file[j].name : j \in {k \in 1..Len(file) : file[k].addr = ad}}
    IN  IF names = {} THEN name = NULL ELSE name \in names

\* Row r is call d, with its name.
RowOf(r, d, file) ==
    /\ r.addr = d.fn - Base /\ Named(file, r.addr, r.name)
    /\ r.depth = d.depth /\ r.start = d.start /\ r.end = d.end
    /\ r.start_hartid = d.start_hartid /\ r.end_hartid = d.end_hartid

Fails(file) == \E i \in 1..Len(file) : file[i].addr >= MAX_ADDR

\* The analyzer a is where the program was after a.i records.  Its stack is that
\* of the program only as long as no cut record is on it.
Replayed(a, L, D, H, t, file) ==
    /\ a.buf = L /\ a.i <= Len(L.recs)
    /\ a.i = 0 => a.stack = << >> /\ a.rows = << >>
    /\ a.i > 0 => /\ Len(a.rows) = H[a.i].ended
                  /\ \A k \in 1..Len(a.rows) : RowOf(a.rows[k], D[k], file)
                  /\ a.i <= t.recs => SameStack(a.stack, H[a.i].stack)
    /\ (a.st = "end" /\ ~Fails(file)) => a.i = Len(L.recs)

Analyzers == [st : {"idle", "loop", "end"}, buf : Logs, i : Nat,
              stack : Seq(StackRecs), rows : Seq(Rows)]

Analysis(a, L, D, t, file) ==
    /\ L \in Logs /\ D \in Seq(Ended) /\ a \in Analyzers
    /\ a.st = "idle" => a = Idle
    /\ a.st # "idle" => L # NoLog
    /\ L # NoLog =>
          \E R, H : LogIs(L, D, R, H, t) /\ (a.st # "idle" => Replayed(a, L, D, H, t, file))

AnalyzerInv ==
    /\ Analysis(an, log, logged, target, nm)
    /\ an.st # "idle" => proc = "none"

Inv == ProgramInv /\ AnalyzerInv

(***************************************************************************)
(*                     Sequences and numbers                               *)
(***************************************************************************)

\* A sequence without its last element.
LEMMA FrontProps ==
  ASSUME NEW S, NEW s \in Seq(S), s # << >>
  PROVE  /\ Front(s) \in Seq(S) /\ Len(Front(s)) = Len(s) - 1
         /\ \A i \in 1..(Len(s) - 1) : Front(s)[i] = s[i]
         /\ Len(s) \in Nat \ {0} /\ Last(s) = s[Len(s)] /\ Last(s) \in S
  <1> DEFINE l == Len(s) - 1
  <1>1. Len(s) \in Nat \ {0} /\ l \in Nat
    OBVIOUS
  <1>2. \A i \in 1..l : s[i] \in S
    BY <1>1
  <1>3. Front(s) = SubSeq(s, 1, l)
    BY DEF Front
  <1>4. Last(s) = s[Len(s)] /\ Last(s) \in S
    BY <1>1 DEF Last
  <1> HIDE DEF l
  <1>5. /\ SubSeq(s, 1, l) \in Seq(S)
        /\ Len(SubSeq(s, 1, l)) = IF 1 <= l THEN l - 1 + 1 ELSE 0
        /\ \A i \in 1..(l - 1 + 1) : SubSeq(s, 1, l)[i] = s[1 + i - 1]
    BY <1>1, <1>2, SubSeqProperties
  <1>6. /\ Len(SubSeq(s, 1, l)) = l
        /\ \A i \in 1..l : SubSeq(s, 1, l)[i] = s[i]
    BY <1>1, <1>5
  <1> QED BY <1>1, <1>3, <1>4, <1>5, <1>6 DEF l

\* A sequence with one more element.
LEMMA AppendProps ==
  ASSUME NEW S, NEW s \in Seq(S), NEW e \in S, NEW t, t = Append(s, e)
  PROVE  /\ t \in Seq(S) /\ Len(t) = Len(s) + 1 /\ Len(s) \in Nat
         /\ \A i \in 1..Len(s) : t[i] = s[i]
         /\ t[Len(s) + 1] = e
  OBVIOUS

\* A set of numbers that is not empty has a least element.
LEMMA LeastNat ==
  ASSUME NEW T, T \subseteq Nat, T # {}
  PROVE  \E x \in T : \A y \in T : x <= y
  <1> DEFINE R == OpToRel(<, Nat)
  <1>1. IsWellFoundedOn(R, Nat)
    BY NatLessThanWellFounded
  <1>2. \A x, y \in Nat : x < y => <<x, y>> \in R
    BY DEF OpToRel
  <1> HIDE DEF R
  <1>3. PICK x \in T : \A y \in T : ~(<<y, x>> \in R)
    BY <1>1, WFMin
  <1>4. ASSUME NEW y \in T PROVE x <= y
    <2>1. x \in Nat /\ y \in Nat
      OBVIOUS
    <2>2. ~(y < x)
      BY <1>2, <1>3, <2>1
    <2> QED BY <2>1, <2>2
  <1> QED BY <1>4

\* Among finitely many positions of a sequence there is a last one.
LEMMA GreatestIndex ==
  ASSUME NEW n \in Nat, NEW T \in SUBSET (1..n), T # {}
  PROVE  /\ \E x \in T : \A y \in T : x >= y
         /\ Max(T) \in T /\ \A y \in T : Max(T) >= y
  <1> DEFINE U == {n - x : x \in T}
  <1>0. \A x \in T : x \in Nat /\ n - x \in Nat
    OBVIOUS
  <1>1. U \subseteq Nat /\ U # {}
    BY <1>0
  <1>2. PICK z \in U : \A y \in U : z <= y
    BY <1>1, LeastNat
  <1>3. PICK x \in T : z = n - x
    OBVIOUS
  <1>4. ASSUME NEW y \in T PROVE x >= y
    <2>1. x \in 1..n /\ y \in 1..n /\ n - y \in U
      OBVIOUS
    <2>2. z <= n - y
      BY <1>2, <2>1
    <2> HIDE DEF U
    <2> QED BY <1>3, <2>1, <2>2
  <1>5. \E w \in T : \A y \in T : w >= y
    BY <1>4
  <1> QED BY <1>5 DEF Max

(***************************************************************************)
(*                              The history                                *)
(***************************************************************************)

\* __profiler_map_info begins a history.
LEMMA TraceBegins ==
  ASSUME ProfilerAssumption, NEW hart \in Harts, NEW R, NEW H,
         R = <<Record(START, hart, 0, Base)>>, H = <<[stack |-> << >>, ended |-> 0]>>
  PROVE  RunIs(R, H, << >>, << >>)
  <1>1. R[1] \in Recs /\ R \in Seq(Recs) /\ Len(R) = 1 /\ R[1].direction = START /\ R[1].callee = Base
    BY DEF ProfilerAssumption, Recs, Record
  <1>2. H \in Seq(Moments) /\ Len(H) = 1 /\ H[1].stack = << >> /\ H[1].ended = 0
    BY DEF Moments
  <1>3. << >> \in Seq(Ended) /\ Len(<< >>) = 0
    OBVIOUS
  <1> QED BY <1>1, <1>2, <1>3 DEF RunIs, Trace

\* __cyg_profile_func_enter extends it.
LEMMA TraceCalls ==
  ASSUME NEW R, NEW H, NEW D, NEW F, RunIs(R, H, D, F),
         NEW r \in Recs, r.direction = CALL, r.callee \in Funcs, r.nsec = Len(R),
         NEW f \in Active, f = [fn |-> r.callee, start |-> r.nsec, hart |-> r.hartid],
         NEW F2, F2 = Append(F, f), F \in Seq(Active)
  PROVE  \E H2 : RunIs(Append(R, r), H2, D, F2)
  <1> DEFINE l == Len(R)
             m == [stack |-> F2, ended |-> Len(D)]
             R2 == Append(R, r)
             H2 == Append(H, m)
  <1>1. R \in Seq(Recs) /\ H \in Seq(Moments) /\ D \in Seq(Ended) /\ Len(H) = l /\ l \in Nat /\ l >= 1
    BY DEF RunIs, Trace
  <1>2. m \in Moments /\ m.stack = F2 /\ m.ended = Len(D)
    BY <1>1 DEF Moments
  <1> HIDE DEF m
  <1>3. R2 \in Seq(Recs) /\ Len(R2) = l + 1 /\ R2[l + 1] = r /\ \A j \in 1..l : R2[j] = R[j]
    BY <1>1, AppendProps
  <1>4. H2 \in Seq(Moments) /\ Len(H2) = l + 1 /\ H2[l + 1] = m /\ \A j \in 1..l : H2[j] = H[j]
    BY <1>1, <1>2, AppendProps
  <1> HIDE DEF R2, H2, l
  <1>5. /\ R[1].direction = START /\ R[1].callee = Base
        /\ H[1].stack = << >> /\ H[1].ended = 0
        /\ \A j \in 2..l : Follows(H[j - 1], R[j], H[j], D) /\ R[j].nsec = j - 1
        /\ \A j \in 1..l : H[j].ended <= Len(D)
        /\ \A j \in 1..l : \A i \in 1..Len(D) : i <= H[j].ended <=> D[i].end < j
        /\ H[l].stack = F /\ H[l].ended = Len(D)
    BY DEF RunIs, Trace, l
  <1>6. Follows(H[l], r, m, D)
    BY <1>2, <1>5 DEF Follows
  <1>7. ASSUME NEW j \in 2..(l + 1) PROVE Follows(H2[j - 1], R2[j], H2[j], D) /\ R2[j].nsec = j - 1
    <2>1. CASE j = l + 1
      <3>1. H2[j - 1] = H[l] /\ R2[j] = r /\ H2[j] = m
        BY <1>1, <1>3, <1>4, <2>1
      <3> QED BY <3>1, <1>6, <1>1, <2>1 DEF l
    <2>2. CASE j # l + 1
      <3>1. j \in 2..l /\ H2[j - 1] = H[j - 1] /\ R2[j] = R[j] /\ H2[j] = H[j]
        BY <1>1, <1>3, <1>4, <2>2
      <3> QED BY <3>1, <1>5
    <2> QED BY <2>1, <2>2
  <1>8. ASSUME NEW j \in 1..(l + 1)
        PROVE  H2[j].ended <= Len(D) /\ \A i \in 1..Len(D) : i <= H2[j].ended <=> D[i].end < j
    <2>1. CASE j = l + 1
      <3>1. ASSUME NEW i \in 1..Len(D) PROVE D[i].end < j
        <4>1. D[i].end < l /\ D[i].end \in Nat
          <5>1. D[i] \in Ended /\ l \in 1..l /\ i <= H[l].ended
            BY <1>1, <1>5
          <5> QED BY <5>1, <1>5 DEF Ended
        <4> QED BY <4>1, <1>1, <2>1
      <3> QED BY <1>1, <1>2, <1>4, <2>1, <3>1
    <2>2. CASE j # l + 1
      <3>1. j \in 1..l /\ H2[j] = H[j]
        BY <1>1, <1>4, <2>2
      <3> QED BY <3>1, <1>5
    <2> QED BY <2>1, <2>2
  <1>9. R2[1] = R[1] /\ H2[1] = H[1]
    <2>1. 1 \in 1..l
      BY <1>1
    <2> QED BY <2>1, <1>3, <1>4
  <1>10. RunIs(R2, H2, D, F2)
    BY <1>1, <1>2, <1>3, <1>4, <1>5, <1>7, <1>8, <1>9 DEF RunIs, Trace
  <1> QED BY <1>10 DEF R2

\* So does __cyg_profile_func_exit, which also ends the innermost call.
LEMMA TraceReturns ==
  ASSUME NEW R, NEW H, NEW D, NEW F, RunIs(R, H, D, F), F \in Seq(Active), F # << >>,
         NEW r \in Recs, r.direction = RET, r.nsec = Len(R),
         NEW d \in Ended,
         d = [fn |-> Last(F).fn, depth |-> Len(F) - 1,
              start |-> Last(F).start, end |-> r.nsec,
              start_hartid |-> Last(F).hart, end_hartid |-> r.hartid]
  PROVE  \E H2 : RunIs(Append(R, r), H2, Append(D, d), Front(F))
  <1> DEFINE l == Len(R)
             n == Len(D)
             m == [stack |-> Front(F), ended |-> n + 1]
             R2 == Append(R, r)
             H2 == Append(H, m)
             D2 == Append(D, d)
  <1>1. R \in Seq(Recs) /\ H \in Seq(Moments) /\ D \in Seq(Ended) /\ Len(H) = l /\ l \in Nat /\ l >= 1
        /\ n \in Nat
    BY DEF RunIs, Trace
  <1>f. Front(F) \in Seq(Active)
    BY FrontProps
  <1>2. m \in Moments /\ m.stack = Front(F) /\ m.ended = n + 1
    BY <1>1, <1>f DEF Moments
  <1> HIDE DEF m
  <1>3. R2 \in Seq(Recs) /\ Len(R2) = l + 1 /\ R2[l + 1] = r /\ \A j \in 1..l : R2[j] = R[j]
    BY <1>1, AppendProps
  <1>4. H2 \in Seq(Moments) /\ Len(H2) = l + 1 /\ H2[l + 1] = m /\ \A j \in 1..l : H2[j] = H[j]
    BY <1>1, <1>2, AppendProps
  <1>a. D2 \in Seq(Ended) /\ Len(D2) = n + 1 /\ D2[n + 1] = d /\ \A i \in 1..n : D2[i] = D[i]
    BY <1>1, AppendProps
  <1>b. d.end = l
    OBVIOUS
  <1>5. /\ R[1].direction = START /\ R[1].callee = Base
        /\ H[1].stack = << >> /\ H[1].ended = 0
        /\ \A j \in 2..l : Follows(H[j - 1], R[j], H[j], D) /\ R[j].nsec = j - 1
        /\ \A j \in 1..l : H[j].ended <= n
        /\ \A j \in 1..l : \A i \in 1..n : i <= H[j].ended <=> D[i].end < j
        /\ H[l].stack = F /\ H[l].ended = n
    BY DEF RunIs, Trace
  <1>c. r.nsec = l
    OBVIOUS
  <1> HIDE DEF R2, H2, D2, l, n
  <1>6. Follows(H[l], r, m, D2)
    BY <1>1, <1>2, <1>5, <1>a DEF Follows
  <1>7. ASSUME NEW j \in 2..(l + 1) PROVE Follows(H2[j - 1], R2[j], H2[j], D2) /\ R2[j].nsec = j - 1
    <2>1. CASE j = l + 1
      <3>1. H2[j - 1] = H[l] /\ R2[j] = r /\ H2[j] = m
        BY <1>1, <1>3, <1>4, <2>1
      <3> QED BY <3>1, <1>6, <1>1, <2>1, <1>c
    <2>2. CASE j # l + 1
      <3>1. j \in 2..l /\ H2[j - 1] = H[j - 1] /\ R2[j] = R[j] /\ H2[j] = H[j]
        BY <1>1, <1>3, <1>4, <2>2
      <3>2. Follows(H[j - 1], R[j], H[j], D) /\ R[j].nsec = j - 1
        BY <3>1, <1>5
      <3>3. H[j - 1] \in Moments
        BY <1>1, <3>1
      <3>4. H[j - 1].ended \in Nat
        BY <3>3 DEF Moments
      <3>5. Follows(H[j - 1], R[j], H[j], D2)
        <4>1. H[j - 1].ended < n => D2[H[j - 1].ended + 1] = D[H[j - 1].ended + 1]
          <5>1. H[j - 1].ended < n => H[j - 1].ended + 1 \in 1..n
            BY <3>4, <1>1
          <5> QED BY <5>1, <1>a
        <4>2. H[j - 1].ended < n => H[j - 1].ended < n + 1
          BY <3>4, <1>1
        <4> QED BY <4>1, <4>2, <3>2, <1>a DEF Follows, n
      <3> QED BY <3>1, <3>2, <3>5
    <2> QED BY <2>1, <2>2
  <1>8. ASSUME NEW j \in 1..(l + 1)
        PROVE  H2[j].ended <= n + 1 /\ \A i \in 1..(n + 1) : i <= H2[j].ended <=> D2[i].end < j
    <2>0. ASSUME NEW i \in 1..n PROVE D[i].end < l /\ D[i].end \in Nat /\ D2[i] = D[i]
      <3>1. D[i] \in Ended /\ l \in 1..l /\ i <= H[l].ended
        BY <1>1, <1>5 DEF n
      <3> QED BY <3>1, <1>5, <1>a DEF Ended
    <2>1. CASE j = l + 1
      <3>1. ASSUME NEW i \in 1..(n + 1) PROVE D2[i].end < j
        <4>1. CASE i \in 1..n
          BY <4>1, <2>0, <1>1, <2>1
        <4>2. CASE i = n + 1
          BY <4>2, <1>a, <1>b, <1>1, <2>1
        <4> QED BY <4>1, <4>2, <1>1
      <3> QED BY <1>1, <1>2, <1>4, <2>1, <3>1
    <2>2. CASE j # l + 1
      <3>1. j \in 1..l /\ H2[j] = H[j] /\ H[j] \in Moments
        BY <1>1, <1>4, <2>2
      <3>2. H[j].ended <= n /\ H[j].ended \in Nat
        BY <3>1, <1>5 DEF Moments
      <3>3. ASSUME NEW i \in 1..(n + 1) PROVE i <= H[j].ended <=> D2[i].end < j
        <4>1. CASE i \in 1..n
          BY <4>1, <2>0, <1>5, <3>1
        <4>2. CASE i = n + 1
          BY <4>2, <1>a, <1>b, <1>1, <3>1, <3>2
        <4> QED BY <4>1, <4>2, <1>1
      <3> QED BY <3>1, <3>2, <3>3, <1>1
    <2> QED BY <2>1, <2>2
  <1>9. R2[1] = R[1] /\ H2[1] = H[1]
    <2>1. 1 \in 1..l
      BY <1>1
    <2> QED BY <2>1, <1>3, <1>4
  <1>10. RunIs(R2, H2, D2, Front(F))
    BY <1>1, <1>2, <1>3, <1>4, <1>5, <1>7, <1>8, <1>9, <1>a DEF RunIs, Trace
  <1> QED BY <1>10 DEF R2, D2

(***************************************************************************)
(*                     The log and the symbol table                        *)
(***************************************************************************)

\* One write of the buffer leaves its first records, the last one perhaps cut.
LEMMA WrittenIsCut ==
  ASSUME ProfilerAssumption, target \in Targets, NEW R \in Seq(Recs), Len(R) >= 1
  PROVE  CutOf(Written(R), R, target)
  <1> DEFINE c == target.recs
             l == Len(R)
  <1>1. c \in Nat \ {0} /\ target.cut \in BOOLEAN /\ l \in Nat
    BY DEF ProfilerAssumption
  <1>2. CASE l <= c
    <2>1. Written(R) = R
      BY <1>2 DEF Written
    <2> QED BY <1>1, <1>2, <2>1 DEF CutOf
  <1>3. CASE ~(l <= c)
    <2> DEFINE S == SubSeq(R, 1, c)
               z == [R[c + 1] EXCEPT !.callee = 0]
    <2>0. \A i \in 1..l : R[i] \in Recs
      OBVIOUS
    <2> HIDE DEF c
    <2>1. c + 1 \in 1..l /\ \A i \in 1..c : i \in 1..l
      BY <1>1, <1>3
    <2>2. R[c + 1] \in Recs /\ \A i \in 1..c : R[i] \in Recs
      BY <2>0, <2>1
    <2>3. /\ z \in Recs /\ z.direction = R[c + 1].direction
          /\ z.hartid = R[c + 1].hartid /\ z.nsec = R[c + 1].nsec
      BY <2>2 DEF Recs
    <2>4. S \in Seq(Recs) /\ Len(S) = c /\ \A i \in 1..c : S[i] = R[i]
      <3>1. /\ S \in Seq(Recs)
            /\ Len(S) = IF 1 <= c THEN c - 1 + 1 ELSE 0
            /\ \A i \in 1..(c - 1 + 1) : S[i] = R[1 + i - 1]
        BY <1>1, <2>2, SubSeqProperties
      <3> QED BY <1>1, <3>1
    <2> HIDE DEF S, z, l
    <2>5. CASE target.cut
      <3> DEFINE W == S \o <<z>>
      <3>1. Written(R) = W
        BY <2>5, <1>3 DEF Written, W, S, z, c, l
      <3>2. W \in Seq(Recs) /\ Len(W) = c + 1 /\ W[c + 1] = z /\ \A j \in 1..c : W[j] = S[j]
        BY <2>3, <2>4, <1>1
      <3> HIDE DEF W
      <3>3. ASSUME NEW j \in 1..(c + 1)
            PROVE  /\ W[j].direction = R[j].direction
                   /\ W[j].hartid = R[j].hartid /\ W[j].nsec = R[j].nsec
                   /\ j <= c => W[j].callee = R[j].callee
        <4>1. CASE j = c + 1
          BY <4>1, <3>2, <2>3, <1>1
        <4>2. CASE j \in 1..c
          BY <4>2, <3>2, <2>4
        <4> QED BY <4>1, <4>2, <1>1
      <3>4. CutOf(W, R, target)
        BY <1>1, <1>3, <2>5, <3>2, <3>3 DEF CutOf, c, l
      <3> QED BY <3>1, <3>4
    <2>6. CASE ~target.cut
      <3>1. Written(R) = S \o << >>
        BY <2>6, <1>3 DEF Written, S, c, l
      <3>2. Written(R) = S
        BY <3>1, <2>4
      <3>3. CutOf(S, R, target)
        BY <1>1, <1>3, <2>6, <2>4 DEF CutOf, c, l
      <3> QED BY <3>2, <3>3
    <2> QED BY <2>5, <2>6
  <1> QED BY <1>2, <1>3

\* Line i of nm is taken for line j: the last one up to it that has an address.
LEMMA LineSeen ==
  ASSUME ProfilerAssumption, NEW file \in NmFiles, NEW i \in 1..Len(file)
  PROVE  \E j \in 1..Len(file) : /\ Lines(file)[i] = file[j]
                                 /\ file[j].addr \in Nat /\ file[j].name \in STRING
                                 /\ file[i].addr >= 0 => j = i
  <1> DEFINE T == {j \in 1..i : file[j].addr >= 0}
  <1>1. file \in Seq([addr : Int, name : STRING]) /\ i \in Nat /\ i >= 1 /\ Len(file) \in Nat /\ i <= Len(file)
    BY DEF ProfilerAssumption
  <1>2. \A j \in 1..i : j \in 1..Len(file) /\ file[j].addr \in Int /\ file[j].name \in STRING
    <2> SUFFICES ASSUME NEW j \in 1..i
                 PROVE  j \in 1..Len(file) /\ file[j].addr \in Int /\ file[j].name \in STRING
      OBVIOUS
    <2> HIDE DEF T
    <2>1. j \in 1..Len(file)
      BY <1>1
    <2> DEFINE L == [addr : Int, name : STRING]
    <2>2. file \in Seq(L)
      BY <1>1
    <2> HIDE DEF L
    <2>3. file[j] \in L
      BY <2>1, <2>2
    <2> QED BY <2>1, <2>3 DEF L
  <1>3. file # << >> /\ file[1].addr >= 0
    BY <1>1 DEF ProfilerAssumption
  <1>4. 1 \in T /\ T \in SUBSET (1..i)
    BY <1>1, <1>3
  <1>5. PICK x \in T : \A y \in T : x >= y
    BY <1>1, <1>4, GreatestIndex
  <1>6. x \in 1..i /\ \A k \in (x + 1)..i : file[k].addr < 0
    <2>1. x \in 1..i
      BY <1>5
    <2>2. ASSUME NEW k \in (x + 1)..i PROVE file[k].addr < 0
      <3>1. k \in 1..i /\ k > x
        BY <2>1, <1>1
      <3>2. k \notin T
        BY <1>5, <3>1, <2>1
      <3> QED BY <3>1, <3>2, <1>2
    <2> QED BY <2>1, <2>2
  <1> DEFINE P(j) == file[j].addr >= 0 /\ \A k \in (j + 1)..i : file[k].addr < 0
             c == CHOOSE j \in 1..i : P(j)
  <1>7. \E j \in 1..i : P(j)
    BY <1>5, <1>6
  <1>8. c \in 1..i /\ P(c)
    BY <1>7
  <1>9. Lines(file)[i] = file[c]
    BY DEF Lines
  <1>10. file[i].addr >= 0 => c = i
    <2> HIDE DEF c
    <2>1. SUFFICES ASSUME file[i].addr >= 0, c # i PROVE FALSE
      OBVIOUS
    <2>2. i \in (c + 1)..i
      BY <1>1, <1>8, <2>1
    <2> QED BY <1>8, <2>1, <2>2, <1>2
  <1> HIDE DEF c
  <1>11. file[c].addr \in Nat
    BY <1>2, <1>8
  <1> QED BY <1>2, <1>8, <1>9, <1>10, <1>11

\* get_func_name finds a name the symbol file has for the address.
LEMMA NameFound ==
  ASSUME ProfilerAssumption, nm \in NmFiles, NEW ad \in Nat
  PROVE  get_func_name(ad) \in STRING \cup {NULL} /\ Named(nm, ad, get_func_name(ad))
  <1> DEFINE n == Len(nm)
             hits == {i \in Chain(get_key(ad)) : Lines(nm)[i].addr = ad}
             lines == {k \in 1..n : nm[k].addr = ad}
             names == {nm[j].name : j \in lines}
  <1>1. n \in Nat /\ hits \in SUBSET (1..n)
    BY DEF ProfilerAssumption, Chain
  <1>2. \A i \in 1..n : Lines(nm)[i].addr = ad => i \in hits
    BY DEF Chain
  <1>3. \A k \in lines : k \in hits
    <2> SUFFICES ASSUME NEW k \in lines PROVE k \in hits
      OBVIOUS
    <2>1. PICK j \in 1..n : Lines(nm)[k] = nm[j] /\ (nm[k].addr >= 0 => j = k)
      BY LineSeen
    <2>2. Lines(nm)[k].addr = ad
      BY <2>1
    <2> QED BY <1>2, <2>2
  <1>4. CASE hits = {}
    <2>1. get_func_name(ad) = NULL
      BY <1>4 DEF get_func_name
    <2>2. lines = {}
      BY <1>3, <1>4
    <2>3. names = {}
      BY <2>2
    <2>5. Named(nm, ad, NULL)
      BY <2>3, Zenon DEF Named
    <2> QED BY <2>1, <2>5
  <1>5. CASE hits # {}
    <2> DEFINE m == Max(hits)
    <2>1. m \in hits /\ m \in 1..n
      BY <1>1, <1>5, GreatestIndex
    <2>2. get_func_name(ad) = Lines(nm)[m].name
      BY <1>5 DEF get_func_name
    <2> HIDE DEF m
    <2>3. PICK j \in 1..n : Lines(nm)[m] = nm[j] /\ nm[j].name \in STRING
      BY <2>1, LineSeen
    <2>4. nm[j].addr = ad
      BY <2>1, <2>3
    <2>5. nm[j].name \in names
      BY <2>4
    <2>6. get_func_name(ad) = nm[j].name
      BY <2>2, <2>3
    <2>7. Named(nm, ad, nm[j].name)
      BY <2>5 DEF Named
    <2> QED BY <2>3, <2>6, <2>7
  <1> QED BY <1>4, <1>5

(***************************************************************************)
(*                        The profiled program                             *)
(***************************************************************************)

\* The sequences of a process that has not begun.
LEMMA EmptySeqs ==
  ASSUME ProfilerAssumption
  PROVE  /\ << >> \in Seq(Recs) /\ << >> \in Seq(Active) /\ << >> \in Seq(Ended)
         /\ Len(<< >>) = 0 /\ 0 <= STACK_SIZE
         /\ 0 \in 0..MaxCalls /\ 0 \in 0..MaxRuns
         /\ \A c \in 0..MaxCalls : 0 + 0 <= 2 * c + 1
  BY DEF ProfilerAssumption

\* The initial states.
LEMMA InitInv ==
  ASSUME ProfilerAssumption, Init
  PROVE  Inv
  <1>1. NoLog \in Logs
    BY DEF NoLog, Logs
  <1>2. Idle \in Analyzers /\ Idle.st = "idle"
    BY <1>1 DEF Idle, Analyzers
  <1>3. ProgramInv
    BY EmptySeqs DEF Init, ProgramInv
  <1>4. << >> \in Seq(Ended)
    OBVIOUS
  <1>5. AnalyzerInv
    BY <1>1, <1>2, <1>4 DEF Init, AnalyzerInv, Analysis
  <1> QED BY <1>3, <1>5 DEF Inv

\* Nothing moves in the analyzer while the program runs.
LEMMA AnalyzerWaits ==
  ASSUME Inv, an.st = "idle", UNCHANGED <<log, logged, target, nm, an>>
  PROVE  AnalyzerInv'
  BY DEF Inv, AnalyzerInv

\* The program is not running while the analyzer does.
LEMMA RunsAlone ==
  ASSUME Inv, proc = "running"
  PROVE  an.st = "idle"
  BY DEF Inv, AnalyzerInv

LEMMA StartInv ==
  ASSUME ProfilerAssumption, Inv, Start
  PROVE  Inv'
  <1>1. AnalyzerInv'
    BY AnalyzerWaits DEF Start
  <1>2. ProgramInv'
    BY DEF Start, Inv, ProgramInv, ProfilerAssumption
  <1> QED BY <1>1, <1>2 DEF Inv

LEMMA MapInv ==
  ASSUME ProfilerAssumption, Inv, __profiler_map_info
  PROVE  Inv'
  <1>1. AnalyzerInv'
    BY AnalyzerWaits, RunsAlone DEF __profiler_map_info
  <1>2. PICK hart \in Harts : perf' = <<Record(START, hart, 0, Base)>>
    BY DEF __profiler_map_info
  <1> DEFINE H == <<[stack |-> << >>, ended |-> 0]>>
  <1>3. RunIs(perf', H, << >>, << >>)
    BY <1>2, TraceBegins
  <1>4. done = << >> /\ frames = << >> /\ done' = << >> /\ frames' = << >> /\ mapped' = TRUE
        /\ clock' = 1 /\ proc' = "running" /\ UNCHANGED <<runs, calls, target, nm>>
    BY DEF __profiler_map_info, Inv, ProgramInv
  <1>5. perf' \in Seq(Recs) /\ Len(perf') = 1
    BY <1>2, <1>3 DEF RunIs, Trace
  <1>6. \E G : RunIs(perf', G, done', frames')
    BY <1>3, <1>4
  <1>7. ProgramInv'
    BY <1>4, <1>5, <1>6 DEF Inv, ProgramInv, ProfilerAssumption
  <1> QED BY <1>1, <1>7 DEF Inv

LEMMA EnterInv ==
  ASSUME ProfilerAssumption, Inv, NEW hart \in Harts, NEW fn \in Funcs,
         __cyg_profile_func_enter(fn, hart)
  PROVE  Inv'
  <1> DEFINE r == Record(CALL, hart, clock, fn)
             f == [fn |-> fn, start |-> clock, hart |-> hart]
  <1>1. AnalyzerInv'
    BY AnalyzerWaits, RunsAlone DEF __cyg_profile_func_enter
  <1>2. /\ proc = "running" /\ proc' = "running" /\ Len(frames) < STACK_SIZE
        /\ calls < MaxCalls /\ calls' = calls + 1
        /\ frames' = Append(frames, f)
        /\ UNCHANGED <<mapped, done, runs, target, nm>>
    BY DEF __cyg_profile_func_enter
  <1>3. /\ mapped => perf' = Append(perf, r) /\ clock' = clock + 1
        /\ ~mapped => perf' = perf /\ clock' = clock
    BY DEF __cyg_profile_func_enter, __cyg_profile_func
  <1>4. /\ clock \in Nat /\ calls \in Nat /\ calls <= MaxCalls /\ mapped \in BOOLEAN
        /\ perf \in Seq(Recs) /\ frames \in Seq(Active) /\ done \in Seq(Ended)
        /\ Len(perf) + Len(frames) <= 2 * calls + 1
        /\ mapped => clock = Len(perf) /\ \E H : RunIs(perf, H, done, frames)
        /\ ~mapped => perf = << >> /\ done = << >>
    BY DEF Inv, ProgramInv, ProfilerAssumption
  <1>5. /\ r \in Recs /\ r.direction = CALL /\ r.callee = fn /\ r.nsec = clock /\ r.hartid = hart
        /\ f \in Active
    BY <1>4 DEF Recs, Record, Active
  <1>a. f = [fn |-> r.callee, start |-> r.nsec, hart |-> r.hartid]
    BY <1>5
  <1> HIDE DEF r, f
  <1>6. frames' \in Seq(Active) /\ Len(frames') = Len(frames) + 1
    BY <1>2, <1>4, <1>5
  <1>7. /\ proc' \in {"none", "running"} /\ mapped' \in BOOLEAN
        /\ runs' \in 0..MaxRuns /\ target' \in Targets /\ nm' \in NmFiles /\ done' \in Seq(Ended)
    BY <1>2 DEF Inv, ProgramInv
  <1>8. calls' \in 0..MaxCalls /\ Len(frames') <= STACK_SIZE
    BY <1>2, <1>4, <1>6 DEF ProfilerAssumption
  <1>9. CASE mapped
    <2>1. perf' \in Seq(Recs) /\ Len(perf') = Len(perf) + 1
      <3>1. perf' = Append(perf, r)
        BY <1>3, <1>9
      <3> QED BY <3>1, <1>4, <1>5, AppendProps
    <2>2. PICK H : RunIs(perf, H, done, frames)
      BY <1>4, <1>9
    <2>3. \E G : RunIs(Append(perf, r), G, done, frames')
      BY <2>2, <1>2, <1>4, <1>5, <1>9, <1>a, TraceCalls
    <2>4. \E G : RunIs(perf', G, done', frames')
      BY <2>3, <1>2, <1>3, <1>9
    <2>5. Len(perf') + Len(frames') <= 2 * calls' + 1
      BY <1>2, <1>4, <1>6, <2>1
    <2>6. clock' \in Nat /\ clock' = Len(perf')
      BY <1>3, <1>4, <1>9, <2>1
    <2>7. ProgramInv'
      BY <1>2, <1>6, <1>7, <1>8, <1>9, <2>1, <2>4, <2>5, <2>6 DEF ProgramInv
    <2> QED BY <1>1, <2>7 DEF Inv
  <1>10. CASE ~mapped
    <2>1. Len(perf') + Len(frames') <= 2 * calls' + 1
      BY <1>2, <1>3, <1>4, <1>6, <1>10
    <2>2. ProgramInv'
      BY <1>2, <1>3, <1>4, <1>6, <1>7, <1>8, <1>10, <2>1 DEF ProgramInv
    <2> QED BY <1>1, <2>2 DEF Inv
  <1> QED BY <1>9, <1>10

LEMMA ExitInv ==
  ASSUME ProfilerAssumption, Inv, NEW hart \in Harts, __cyg_profile_func_exit(hart)
  PROVE  Inv'
  <1> DEFINE g == Last(frames)
             r == Record(RET, hart, clock, g.fn)
             d == [fn |-> g.fn, depth |-> Len(frames) - 1, start |-> g.start, end |-> clock,
                   start_hartid |-> g.hart, end_hartid |-> hart]
  <1>1. AnalyzerInv'
    BY AnalyzerWaits, RunsAlone DEF __cyg_profile_func_exit
  <1>2. /\ proc = "running" /\ proc' = "running" /\ frames # << >>
        /\ frames' = Front(frames)
        /\ UNCHANGED <<mapped, runs, calls, target, nm>>
    BY DEF __cyg_profile_func_exit
  <1>3. /\ mapped => perf' = Append(perf, r) /\ done' = Append(done, d) /\ clock' = clock + 1
        /\ ~mapped => perf' = perf /\ done' = done /\ clock' = clock
    BY DEF __cyg_profile_func_exit, __cyg_profile_func
  <1>4. /\ clock \in Nat /\ calls \in Nat /\ mapped \in BOOLEAN
        /\ perf \in Seq(Recs) /\ frames \in Seq(Active) /\ done \in Seq(Ended)
        /\ Len(perf) + Len(frames) <= 2 * calls + 1 /\ Len(frames) <= STACK_SIZE
        /\ mapped => clock = Len(perf) /\ \E H : RunIs(perf, H, done, frames)
        /\ ~mapped => perf = << >> /\ done = << >>
    BY DEF Inv, ProgramInv, ProfilerAssumption
  <1>5. g \in Active /\ Len(frames) \in Nat \ {0}
        /\ frames' \in Seq(Active) /\ Len(frames') = Len(frames) - 1
    BY <1>2, <1>4, FrontProps
  <1>6. /\ r \in Recs /\ r.direction = RET /\ r.nsec = clock /\ r.hartid = hart
        /\ d \in Ended
    <2> HIDE DEF g
    <2>1. g.fn \in Funcs /\ g.start \in Nat /\ g.hart \in Harts
      BY <1>5 DEF Active
    <2>2. Len(frames) - 1 \in Nat
      BY <1>5
    <2>3. r \in Recs /\ r.direction = RET /\ r.nsec = clock /\ r.hartid = hart
      BY <2>1, <1>4 DEF Recs, Record
    <2>4. d \in Ended
      BY <2>1, <2>2, <1>4 DEF Ended
    <2> QED BY <2>3, <2>4
  <1>a. d = [fn |-> Last(frames).fn, depth |-> Len(frames) - 1,
              start |-> Last(frames).start, end |-> r.nsec,
              start_hartid |-> Last(frames).hart, end_hartid |-> r.hartid]
    BY <1>6
  <1> HIDE DEF r, d, g
  <1>7. /\ proc' \in {"none", "running"} /\ mapped' \in BOOLEAN /\ calls' \in 0..MaxCalls
        /\ runs' \in 0..MaxRuns /\ target' \in Targets /\ nm' \in NmFiles
    BY <1>2 DEF Inv, ProgramInv
  <1>8. Len(frames') <= STACK_SIZE
    BY <1>4, <1>5 DEF ProfilerAssumption
  <1>9. CASE mapped
    <2>1. perf' \in Seq(Recs) /\ Len(perf') = Len(perf) + 1 /\ done' \in Seq(Ended)
      <3>1. perf' = Append(perf, r) /\ done' = Append(done, d)
        BY <1>3, <1>9
      <3> QED BY <3>1, <1>4, <1>6, AppendProps
    <2>2. PICK H : RunIs(perf, H, done, frames)
      BY <1>4, <1>9
    <2>3. \E G : RunIs(Append(perf, r), G, Append(done, d), Front(frames))
      BY <2>2, <1>2, <1>4, <1>6, <1>9, <1>a, TraceReturns
    <2>4. \E G : RunIs(perf', G, done', frames')
      BY <2>3, <1>2, <1>3, <1>9
    <2>5. Len(perf') + Len(frames') <= 2 * calls' + 1
      BY <1>2, <1>4, <1>5, <2>1
    <2>6. clock' \in Nat /\ clock' = Len(perf')
      BY <1>3, <1>4, <1>9, <2>1
    <2>7. ProgramInv'
      BY <1>2, <1>5, <1>7, <1>8, <1>9, <2>1, <2>4, <2>5, <2>6 DEF ProgramInv
    <2> QED BY <1>1, <2>7 DEF Inv
  <1>10. CASE ~mapped
    <2>1. Len(perf') + Len(frames') <= 2 * calls' + 1
      BY <1>2, <1>3, <1>4, <1>5, <1>10
    <2>2. ProgramInv'
      BY <1>2, <1>3, <1>4, <1>5, <1>7, <1>8, <1>10, <2>1 DEF ProgramInv
    <2> QED BY <1>1, <2>2 DEF Inv
  <1> QED BY <1>9, <1>10

LEMMA UnmapInv ==
  ASSUME ProfilerAssumption, Inv, __profiler_unmap_info
  PROVE  Inv'
  <1>1. /\ proc = "running" /\ mapped /\ frames = << >> /\ an.st = "idle"
        /\ mapped' = FALSE /\ proc' = "none" /\ perf' = << >> /\ done' = << >>
        /\ UNCHANGED <<frames, clock, runs, calls, target, nm, an>>
    BY RunsAlone DEF __profiler_unmap_info
  <1>2. ProgramInv'
    <2>1. calls' \in 0..MaxCalls /\ clock' \in Nat /\ runs' \in 0..MaxRuns /\ target' \in Targets
          /\ nm' \in NmFiles /\ frames' = << >>
      BY <1>1 DEF Inv, ProgramInv
    <2> QED BY <1>1, <2>1, EmptySeqs DEF ProgramInv
  <1>3. CASE UNCHANGED <<log, logged>>
    BY <1>1, <1>2, <1>3, AnalyzerWaits DEF Inv
  <1>4. CASE log' = [idx |-> Len(perf), recs |-> Written(perf)] /\ logged' = done
    <2>1. PICK H : RunIs(perf, H, done, frames)
      BY <1>1 DEF Inv, ProgramInv
    <2>2. Trace(perf, H, done) /\ H[Len(perf)].ended = Len(done)
          /\ perf \in Seq(Recs) /\ Len(perf) >= 1 /\ done \in Seq(Ended)
      BY <2>1 DEF RunIs, Trace
    <2>3. CutOf(Written(perf), perf, target)
      BY <2>2, WrittenIsCut DEF Inv, ProgramInv
    <2>4. Len(perf) <= Max_Records
      <3>1. Len(perf) + Len(frames) <= 2 * calls + 1 /\ calls \in Nat /\ calls <= MaxCalls
            /\ Len(frames) = 0 /\ MaxCalls \in Nat /\ Len(perf) \in Nat
        BY <1>1, <2>2 DEF Inv, ProgramInv, ProfilerAssumption
      <3> QED BY <3>1 DEF Max_Records
    <2>5. log'.idx = Len(perf) /\ log'.recs = Written(perf) /\ log' \in Logs
      BY <1>4, <2>2, <2>3 DEF Logs, CutOf
    <2>6. LogIs(log', logged', perf, H, target')
      BY <1>1, <1>4, <2>2, <2>3, <2>4, <2>5 DEF LogIs
    <2>7. an = Idle /\ an \in Analyzers
      BY <1>1 DEF Inv, AnalyzerInv, Analysis
    <2>8. AnalyzerInv'
      BY <1>1, <1>4, <2>2, <2>5, <2>6, <2>7 DEF AnalyzerInv, Analysis
    <2> QED BY <1>2, <2>8 DEF Inv
  <1> QED BY <1>3, <1>4 DEF __profiler_unmap_info

LEMMA DieInv ==
  ASSUME ProfilerAssumption, Inv, Die
  PROVE  Inv'
  <1>1. AnalyzerInv'
    BY AnalyzerWaits, RunsAlone DEF Die
  <1>2. ProgramInv'
    <2>1. calls' \in 0..MaxCalls /\ clock' \in Nat /\ runs' \in 0..MaxRuns /\ target' \in Targets
          /\ nm' \in NmFiles
      BY DEF Inv, ProgramInv, Die
    <2> QED BY <2>1, EmptySeqs DEF Die, ProgramInv
  <1> QED BY <1>1, <1>2 DEF Inv

(***************************************************************************)
(*                             The analyzer                                *)
(***************************************************************************)

\* What the program did at the record that the analyzer reads next.
LEMMA NextRecord ==
  ASSUME ProfilerAssumption, NEW t \in Targets, NEW L \in Logs, NEW D, NEW R, NEW H,
         LogIs(L, D, R, H, t), NEW i \in Nat, i > 0, i < Len(L.recs)
  PROVE  /\ i <= t.recs /\ Follows(H[i], R[i + 1], H[i + 1], D) /\ R[i + 1].nsec = i
         /\ H[i] \in Moments /\ H[i + 1] \in Moments /\ D \in Seq(Ended)
         /\ L.recs[i + 1] \in Recs
         /\ L.recs[i + 1].direction = R[i + 1].direction
         /\ L.recs[i + 1].hartid = R[i + 1].hartid /\ L.recs[i + 1].nsec = R[i + 1].nsec
         /\ i + 1 <= t.recs => L.recs[i + 1].callee = R[i + 1].callee
  <1> DEFINE W == L.recs
             l == Len(W)
             c == t.recs
             n == Len(R)
  <1>1. /\ W \in Seq(Recs) /\ l \in Nat /\ c \in Nat /\ c >= 1 /\ t.cut \in BOOLEAN
        /\ l = IF n <= c THEN n ELSE c + (IF t.cut THEN 1 ELSE 0)
        /\ \A j \in 1..l : /\ W[j].direction = R[j].direction
                           /\ W[j].hartid = R[j].hartid /\ W[j].nsec = R[j].nsec
                           /\ j <= c => W[j].callee = R[j].callee
    BY DEF LogIs, CutOf, ProfilerAssumption
  <1>2. /\ R \in Seq(Recs) /\ H \in Seq(Moments) /\ D \in Seq(Ended) /\ Len(H) = n /\ n \in Nat
        /\ \A j \in 2..n : Follows(H[j - 1], R[j], H[j], D) /\ R[j].nsec = j - 1
    <2>1. Trace(R, H, D)
      BY DEF LogIs
    <2>2. R \in Seq(Recs) /\ H \in Seq(Moments) /\ D \in Seq(Ended) /\ Len(H) = n /\ n \in Nat
      BY <2>1 DEF Trace
    <2>3. \A j \in 2..n : Follows(H[j - 1], R[j], H[j], D) /\ R[j].nsec = j - 1
      BY <2>1, Zenon DEF Trace
    <2> QED BY <2>2, <2>3
  <1>3. i < l
    OBVIOUS
  <1> HIDE DEF W, l, c, n
  <1>4. i <= c /\ i + 1 \in 1..l /\ i + 1 \in 2..n /\ i \in 1..n /\ i + 1 \in 1..n /\ (i + 1) - 1 = i
    <2>1. CASE n <= c
      BY <2>1, <1>1, <1>2, <1>3
    <2>2. CASE n > c /\ t.cut
      BY <2>2, <1>1, <1>2, <1>3
    <2>3. CASE n > c /\ ~t.cut
      BY <2>3, <1>1, <1>2, <1>3
    <2> QED BY <2>1, <2>2, <2>3, <1>1, <1>2
  <1>5. H[i] \in Moments /\ H[i + 1] \in Moments /\ W[i + 1] \in Recs
    <2>1. W[i + 1] \in Recs
      BY <1>1, <1>4 DEF l
    <2>2. H[i] \in Moments /\ H[i + 1] \in Moments
      BY <1>2, <1>4
    <2> QED BY <2>1, <2>2
  <1>6. Follows(H[i], R[i + 1], H[i + 1], D) /\ R[i + 1].nsec = i
    BY <1>2, <1>4
  <1>7. /\ W[i + 1].direction = R[i + 1].direction
        /\ W[i + 1].hartid = R[i + 1].hartid /\ W[i + 1].nsec = R[i + 1].nsec
        /\ i + 1 <= c => W[i + 1].callee = R[i + 1].callee
    BY <1>1, <1>4
  <1> QED BY <1>2, <1>4, <1>5, <1>6, <1>7 DEF W, c

\* A call goes on both stacks.
LEMMA PushSame ==
  ASSUME NEW S \in Seq(StackRecs), NEW T \in Seq(Active), SameStack(S, T),
         NEW x \in StackRecs, NEW f \in Active, x.callee = f.fn, x.start = f.start,
         x.hartid = f.hart, x.depth = Len(S)
  PROVE  SameStack(Append(S, x), Append(T, f))
  <1> DEFINE S2 == Append(S, x)
             T2 == Append(T, f)
             l == Len(T)
  <1>1. S2 \in Seq(StackRecs) /\ Len(S2) = Len(S) + 1 /\ S2[Len(S) + 1] = x /\ \A i \in 1..Len(S) : S2[i] = S[i]
    BY AppendProps
  <1>2. /\ T2 \in Seq(Active) /\ Len(T2) = Len(T) + 1 /\ T2[Len(T) + 1] = f
        /\ \A i \in 1..Len(T) : T2[i] = T[i]
        /\ l \in Nat
    BY AppendProps
  <1>3. Len(S) = l /\ \A k \in 1..l : /\ S[k].callee = T[k].fn /\ S[k].start = T[k].start
                            /\ S[k].hartid = T[k].hart /\ S[k].depth = k - 1
    BY DEF SameStack
  <1> HIDE DEF S2, T2, l
  <1>4. ASSUME NEW k \in 1..(l + 1)
        PROVE  /\ S2[k].callee = T2[k].fn /\ S2[k].start = T2[k].start
               /\ S2[k].hartid = T2[k].hart /\ S2[k].depth = k - 1
    <2>1. CASE k = l + 1
      <3>1. S2[k] = x /\ T2[k] = f
        BY <2>1, <1>1, <1>2, <1>3 DEF l
      <3> QED BY <3>1, <2>1, <1>2, <1>3
    <2>2. CASE k \in 1..l
      <3>1. S2[k] = S[k] /\ T2[k] = T[k]
        BY <2>2, <1>1, <1>2, <1>3 DEF l
      <3> QED BY <3>1, <2>2, <1>3
    <2>3. k = l + 1 \/ k \in 1..l
      BY <1>2
    <2> QED BY <2>1, <2>2, <2>3
  <1>5. Len(S2) = l + 1 /\ Len(T2) = l + 1
    BY <1>1, <1>2, <1>3 DEF l
  <1>6. SameStack(S2, T2)
    BY <1>4, <1>5 DEF SameStack
  <1> QED BY <1>6 DEF S2, T2

\* A return takes the innermost call from both.
LEMMA PopSame ==
  ASSUME NEW S \in Seq(StackRecs), NEW T \in Seq(Active), SameStack(S, T), S # << >>, T # << >>
  PROVE  /\ SameStack(Front(S), Front(T))
         /\ Last(S).callee = Last(T).fn /\ Last(S).start = Last(T).start
         /\ Last(S).hartid = Last(T).hart /\ Last(S).depth = Len(T) - 1
  <1> DEFINE S2 == Front(S)
             T2 == Front(T)
             l == Len(T)
  <1>1. Len(S2) = Len(S) - 1 /\ Last(S) = S[Len(S)] /\ \A i \in 1..(Len(S) - 1) : S2[i] = S[i]
    BY FrontProps
  <1>2. Len(T2) = l - 1 /\ Last(T) = T[l] /\ \A i \in 1..(l - 1) : T2[i] = T[i]
    BY FrontProps
  <1>3. /\ Len(S) = l
        /\ \A k \in 1..l : /\ S[k].callee = T[k].fn /\ S[k].start = T[k].start
                           /\ S[k].hartid = T[k].hart /\ S[k].depth = k - 1
    BY DEF SameStack
  <1>0. l \in Nat \ {0}
    BY FrontProps
  <1> HIDE DEF S2, T2, l
  <1>4. ASSUME NEW k \in 1..(l - 1)
        PROVE  /\ S2[k].callee = T2[k].fn /\ S2[k].start = T2[k].start
               /\ S2[k].hartid = T2[k].hart /\ S2[k].depth = k - 1
    <2>1. k \in 1..l
      BY <1>0
    <2>2. S2[k] = S[k] /\ T2[k] = T[k]
      BY <1>1, <1>2, <1>3
    <2> QED BY <2>1, <2>2, <1>3
  <1>5. Len(S2) = l - 1
    BY <1>1, <1>3
  <1>6. SameStack(S2, T2)
    BY <1>2, <1>4, <1>5 DEF SameStack
  <1>7. l \in 1..l
    BY <1>0
  <1> QED BY <1>1, <1>2, <1>3, <1>6, <1>7 DEF S2, T2, l

\* The first record of the log gives the address that the program is loaded at.
LEMMA FirstRecord ==
  ASSUME ProfilerAssumption, NEW t \in Targets, NEW L \in Logs, NEW D, NEW R, NEW H,
         LogIs(L, D, R, H, t)
  PROVE  Len(L.recs) >= 1 /\ L.recs[1].callee = Base /\ Len(L.recs) <= Len(R) /\ Len(L.recs) \in Nat
         /\ Len(R) \in Nat
  <1> DEFINE W == L.recs
             l == Len(W)
             n == Len(R)
             c == t.recs
  <1>1. /\ W \in Seq(Recs) /\ l \in Nat /\ l >= 1 /\ c \in Nat /\ c >= 1 /\ t.cut \in BOOLEAN
        /\ l = IF n <= c THEN n ELSE c + (IF t.cut THEN 1 ELSE 0)
        /\ \A j \in 1..l : j <= c => W[j].callee = R[j].callee
    BY DEF LogIs, CutOf, ProfilerAssumption
  <1>2. n \in Nat /\ R[1].callee = Base
    BY DEF LogIs, Trace
  <1> HIDE DEF W, l, n, c
  <1>3. l <= n
    <2>1. CASE n <= c
      BY <2>1, <1>1, <1>2
    <2>2. CASE n > c
      BY <2>2, <1>1, <1>2
    <2> QED BY <2>1, <2>2, <1>1, <1>2
  <1>4. 1 \in 1..l
    BY <1>1
  <1>5. W[1].callee = Base
    BY <1>1, <1>2, <1>4
  <1> QED BY <1>1, <1>2, <1>3, <1>5 DEF W, l, n

\* A step of the analyzer leaves the program alone.
LEMMA AnalyzerAlone ==
  ASSUME Inv, UNCHANGED <<proc, mapped, perf, frames, done, clock, runs, log, logged, calls, target, nm>>,
         Analysis(an', log, logged, target, nm), an'.st # "idle" => proc = "none"
  PROVE  Inv'
  BY DEF Inv, ProgramInv, AnalyzerInv

LEMMA AnalyzerStarts ==
  ASSUME ProfilerAssumption, Inv, analyzer
  PROVE  Inv'
  <1>1. proc = "none" /\ an.st = "idle" /\ log # NoLog
        /\ an' = [Idle EXCEPT !.st = IF parse_nm_fails THEN "end" ELSE "loop", !.buf = log]
        /\ UNCHANGED <<proc, mapped, perf, frames, done, clock, runs, log, logged, calls, target, nm>>
    BY DEF analyzer
  <1>2. log \in Logs /\ logged \in Seq(Ended) /\ target \in Targets
    BY DEF Inv, ProgramInv, AnalyzerInv, Analysis
  <1>3. PICK R, H : LogIs(log, logged, R, H, target)
    BY <1>1 DEF Inv, AnalyzerInv, Analysis
  <1>4. /\ an'.st = (IF parse_nm_fails THEN "end" ELSE "loop") /\ an'.buf = log /\ an'.i = 0
        /\ an'.stack = << >> /\ an'.rows = << >> /\ an' \in Analyzers
    <2> DEFINE s == IF parse_nm_fails THEN "end" ELSE "loop"
    <2>1. s \in {"idle", "loop", "end"}
      OBVIOUS
    <2> HIDE DEF s
    <2>2. an' = [st |-> s, buf |-> log, i |-> 0, stack |-> << >>, rows |-> << >>]
      BY <1>1 DEF Idle, s
    <2>3. << >> \in Seq(StackRecs) /\ << >> \in Seq(Rows)
      OBVIOUS
    <2>4. an' \in Analyzers
      BY <1>2, <2>1, <2>2, <2>3 DEF Analyzers
    <2>5. /\ an'.st = s /\ an'.buf = log /\ an'.i = 0
          /\ an'.stack = << >> /\ an'.rows = << >>
      BY <2>2
    <2> QED BY <2>4, <2>5 DEF s
  <1>5. Len(log.recs) \in Nat
    BY <1>2, <1>3, FirstRecord
  <1>6. parse_nm_fails = Fails(nm)
    BY DEF parse_nm_fails, Fails
  <1>7. Replayed(an', log, logged, H, target, nm)
    <2>1. an'.st = "end" => Fails(nm)
      BY <1>4, <1>6
    <2> QED BY <1>4, <1>5, <2>1 DEF Replayed
  <1>8. an'.st # "idle"
    BY <1>4
  <1>9. Analysis(an', log, logged, target, nm)
    BY <1>1, <1>2, <1>3, <1>4, <1>7, <1>8 DEF Analysis
  <1> QED BY <1>1, <1>9, AnalyzerAlone

LEMMA AnalyzerExitsInv ==
  ASSUME ProfilerAssumption, Inv, AnalyzerExits
  PROVE  Inv'
  <1>1. an' = Idle /\ Idle.st = "idle"
    BY DEF AnalyzerExits, Idle
  <1>2. NoLog \in Logs
    BY DEF NoLog, Logs
  <1>3. Idle \in Analyzers
    BY <1>2 DEF Idle, Analyzers
  <1>4. Analysis(an', log, logged, target, nm)
    BY <1>1, <1>3 DEF Inv, AnalyzerInv, Analysis
  <1> QED BY <1>1, <1>4, AnalyzerAlone DEF AnalyzerExits

\* The record that the loop is at, where the log has one, and the zeros behind it.
LEMMA RecordRead ==
  ASSUME Inv, NEW H, Replayed(an, log, logged, H, target, nm)
  PROVE  /\ an.i < Len(log.recs) => RecordAt(an.i) = log.recs[an.i + 1]
         /\ ~(an.i < Len(log.recs)) => ~Placed(RecordAt(an.i))
         /\ Len(log.recs) >= 1 => RecordAt(0) = log.recs[1]
         /\ an.i \in Nat
  <1>1. an.buf = log /\ an.i \in Nat /\ log.recs \in Seq(Recs)
    BY DEF Replayed, Inv, AnalyzerInv, Analysis, Analyzers, Logs
  <1>2. ~Placed(ZeroRecord)
    BY DEF Placed, ZeroRecord, Record, START, CALL, RET
  <1> QED BY <1>1, <1>2 DEF RecordAt

\* The loop ends where the log does: a record of the log can always be placed.
LEMMA AnalyzerEndsInv ==
  ASSUME ProfilerAssumption, Inv, AnalyzerEnds
  PROVE  Inv'
  <1>1. an.st = "loop" /\ an' = [an EXCEPT !.st = "end"]
        /\ UNCHANGED <<proc, mapped, perf, frames, done, clock, runs, log, logged, calls, target, nm>>
    BY DEF AnalyzerEnds
  <1>2. log \in Logs /\ logged \in Seq(Ended) /\ target \in Targets /\ an \in Analyzers /\ log # NoLog
        /\ proc = "none"
    BY <1>1 DEF Inv, ProgramInv, AnalyzerInv, Analysis
  <1>3. PICK R, H : LogIs(log, logged, R, H, target) /\ Replayed(an, log, logged, H, target, nm)
    BY <1>1, <1>2 DEF Inv, AnalyzerInv, Analysis
  <1> DEFINE l == Len(log.recs)
  <1>4. l \in Nat /\ l <= Len(R) /\ Len(R) \in Nat
    BY <1>2, <1>3, FirstRecord
  <1>5. an.i \in Nat /\ an.i <= l /\ an.buf = log /\ log.idx = Len(R)
    BY <1>2, <1>3 DEF Analyzers, Replayed, LogIs
  <1>6. an.i = l
    <2>1. CASE LoopDone
      BY <2>1, <1>4, <1>5 DEF LoopDone
    <2>2. CASE an.i > 0 /\ ~Placed(RecordAt(an.i))
      <3>1. SUFFICES ASSUME an.i < l PROVE FALSE
        BY <1>4, <1>5
      <3>2. RecordAt(an.i) = log.recs[an.i + 1]
        BY <1>3, <3>1, RecordRead
      <3>3. /\ an.i <= target.recs /\ Follows(H[an.i], R[an.i + 1], H[an.i + 1], logged)
            /\ log.recs[an.i + 1].direction = R[an.i + 1].direction
            /\ H[an.i] \in Moments
        BY <1>2, <1>3, <1>5, <2>2, <3>1, NextRecord
      <3>4. R[an.i + 1].direction = CALL \/ (R[an.i + 1].direction = RET /\ H[an.i].stack # << >>)
        BY <3>3 DEF Follows
      <3>5. SameStack(an.stack, H[an.i].stack)
        BY <1>3, <2>2, <3>3 DEF Replayed
      <3>6. H[an.i].stack \in Seq(Active) /\ an.stack \in Seq(StackRecs)
        BY <3>3, <1>2 DEF Moments, Analyzers
      <3>7. H[an.i].stack # << >> => an.stack # << >>
        BY <3>5, <3>6 DEF SameStack
      <3>8. Placed(RecordAt(an.i))
        BY <3>2, <3>3, <3>4, <3>7 DEF Placed
      <3> QED BY <2>2, <3>8
    <2> QED BY <2>1, <2>2 DEF AnalyzerEnds
  <1>7. /\ an'.st = "end" /\ an'.buf = an.buf /\ an'.i = an.i
        /\ an'.stack = an.stack /\ an'.rows = an.rows /\ an' \in Analyzers
    BY <1>1, <1>2 DEF Analyzers
  <1>8. Replayed(an', log, logged, H, target, nm)
    BY <1>3, <1>6, <1>7 DEF Replayed
  <1>9. an'.st # "idle"
    BY <1>7
  <1>10. Analysis(an', log, logged, target, nm)
    BY <1>2, <1>3, <1>7, <1>8, <1>9 DEF Analysis
  <1> QED BY <1>1, <1>2, <1>10, AnalyzerAlone

\* What the loop changes of the analyzer keeps its type.
LEMMA AnalyzerTyped ==
  ASSUME NEW a \in Analyzers, NEW j \in Nat, NEW S \in Seq(StackRecs), NEW Q \in Seq(Rows),
         NEW b, b = [st |-> a.st, buf |-> a.buf, i |-> j, stack |-> S, rows |-> Q]
  PROVE  /\ b \in Analyzers /\ b.st = a.st /\ b.i = j
         /\ b.buf = a.buf /\ b.stack = S /\ b.rows = Q
  <1>1. a.st \in {"idle", "loop", "end"} /\ a.buf \in Logs
    BY DEF Analyzers
  <1>2. b.st = a.st /\ b.i = j /\ b.buf = a.buf /\ b.stack = S /\ b.rows = Q
    OBVIOUS
  <1> HIDE DEF Analyzers
  <1>3. b \in Analyzers
    BY <1>1 DEF Analyzers
  <1> QED BY <1>2, <1>3

\* One pass of the loop: the analyzer follows the program by one record.
LEMMA AnalyzeRecordInv ==
  ASSUME ProfilerAssumption, Inv, AnalyzeRecord
  PROVE  Inv'
  <1>1. an.st = "loop"
        /\ UNCHANGED <<proc, mapped, perf, frames, done, clock, runs, log, logged, calls, target, nm>>
    BY DEF AnalyzeRecord
  <1>2. log \in Logs /\ logged \in Seq(Ended) /\ target \in Targets /\ an \in Analyzers /\ log # NoLog
        /\ proc = "none" /\ nm \in NmFiles
    BY <1>1 DEF Inv, ProgramInv, AnalyzerInv, Analysis
  <1>3. PICK R, H : LogIs(log, logged, R, H, target) /\ Replayed(an, log, logged, H, target, nm)
    BY <1>1, <1>2 DEF Inv, AnalyzerInv, Analysis
  <1> DEFINE W == log.recs
             i == an.i
             r == RecordAt(i)
  <1>4. Len(W) \in Nat /\ Len(W) >= 1 /\ W[1].callee = Base
    BY <1>2, <1>3, FirstRecord
  <1>5. /\ i \in Nat /\ i <= Len(W) /\ an.buf = log
        /\ an.stack \in Seq(StackRecs) /\ an.rows \in Seq(Rows)
    BY <1>2, <1>3 DEF Analyzers, Replayed
  <1>6. SUFFICES /\ an' \in Analyzers /\ an'.st = "loop"
                 /\ Replayed(an', log, logged, H, target, nm)
    <2>1. an'.st # "idle"
      BY <1>6
    <2>2. Analysis(an', log, logged, target, nm)
      BY <1>2, <1>3, <1>6, <2>1 DEF Analysis
    <2> QED BY <1>1, <1>2, <2>2, AnalyzerAlone
  <1>7. CASE i = 0 /\ an' = [an EXCEPT !.i = 1]
    <2>1. /\ an' \in Analyzers /\ an'.st = "loop" /\ an'.i = 1
          /\ an'.buf = an.buf /\ an'.stack = an.stack /\ an'.rows = an.rows
      BY <1>1, <1>2, <1>7 DEF Analyzers
    <2>2. an.stack = << >> /\ an.rows = << >>
      BY <1>3, <1>7 DEF Replayed
    <2>3. H[1].stack = << >> /\ H[1].ended = 0
      BY <1>3 DEF LogIs, Trace
    <2>4. SameStack(<< >>, << >>)
      BY DEF SameStack
    <2>5. Replayed(an', log, logged, H, target, nm)
      BY <1>4, <1>5, <2>1, <2>2, <2>3, <2>4 DEF Replayed
    <2> QED BY <2>1, <2>5
  <1>8. ASSUME i > 0, Placed(r)
        PROVE  /\ i < Len(W) /\ r = W[i + 1] /\ r \in Recs
               /\ i <= target.recs /\ Follows(H[i], R[i + 1], H[i + 1], logged)
               /\ R[i + 1].nsec = i
               /\ H[i] \in Moments /\ H[i + 1] \in Moments
               /\ r.direction = R[i + 1].direction
               /\ r.hartid = R[i + 1].hartid /\ r.nsec = R[i + 1].nsec
               /\ i + 1 <= target.recs => r.callee = R[i + 1].callee
               /\ SameStack(an.stack, H[i].stack)
               /\ Len(an.rows) = H[i].ended
               /\ \A k \in 1..Len(an.rows) : RowOf(an.rows[k], logged[k], nm)
    <2>1. i < Len(W) /\ r = W[i + 1]
      BY <1>3, <1>8, RecordRead
    <2>2. /\ i <= target.recs /\ Follows(H[i], R[i + 1], H[i + 1], logged)
          /\ R[i + 1].nsec = i
          /\ H[i] \in Moments /\ H[i + 1] \in Moments /\ W[i + 1] \in Recs
          /\ W[i + 1].direction = R[i + 1].direction
          /\ W[i + 1].hartid = R[i + 1].hartid /\ W[i + 1].nsec = R[i + 1].nsec
          /\ i + 1 <= target.recs => W[i + 1].callee = R[i + 1].callee
      <3> DEFINE D == logged
                 t == target
      <3>1. /\ log \in Logs /\ t \in Targets /\ LogIs(log, D, R, H, t)
            /\ i \in Nat /\ i > 0 /\ i < Len(log.recs)
        BY <1>2, <1>3, <1>5, <1>8, <2>1
      <3> HIDE DEF D, t, i
      <3>2. /\ i <= t.recs /\ Follows(H[i], R[i + 1], H[i + 1], D) /\ R[i + 1].nsec = i
            /\ H[i] \in Moments /\ H[i + 1] \in Moments
            /\ log.recs[i + 1] \in Recs
            /\ log.recs[i + 1].direction = R[i + 1].direction
            /\ log.recs[i + 1].hartid = R[i + 1].hartid
            /\ log.recs[i + 1].nsec = R[i + 1].nsec
            /\ i + 1 <= t.recs => log.recs[i + 1].callee = R[i + 1].callee
        BY <3>1, NextRecord
      <3> QED BY <3>2 DEF D, t
    <2>3. /\ SameStack(an.stack, H[i].stack) /\ Len(an.rows) = H[i].ended
          /\ \A k \in 1..Len(an.rows) : RowOf(an.rows[k], logged[k], nm)
      BY <1>3, <1>8, <2>2 DEF Replayed
    <2> HIDE DEF r, W, i
    <2> QED BY <2>1, <2>2, <2>3
  <1>9. CASE i > 0 /\ Placed(r) /\ r.direction = CALL
             /\ an' = [an EXCEPT !.i = @ + 1, !.stack = push(r)]
    <2> DEFINE x == Frame(r, Len(an.stack))
               S == Append(an.stack, x)
    <2>1. /\ i < Len(W) /\ r \in Recs
          /\ Follows(H[i], R[i + 1], H[i + 1], logged)
          /\ R[i + 1].direction = CALL
          /\ r.hartid = R[i + 1].hartid /\ r.nsec = R[i + 1].nsec
          /\ i + 1 <= target.recs => r.callee = R[i + 1].callee
          /\ H[i] \in Moments
          /\ SameStack(an.stack, H[i].stack)
          /\ Len(an.rows) = H[i].ended
          /\ \A k \in 1..Len(an.rows) : RowOf(an.rows[k], logged[k], nm)
      BY <1>8, <1>9
    <2>2. x \in StackRecs /\ x.callee = r.callee /\ x.start = r.nsec /\ x.hartid = r.hartid
          /\ x.depth = Len(an.stack)
      BY <1>5, <2>1 DEF Frame, StackRecs, Recs
    <2>3. S \in Seq(StackRecs)
      BY <1>5, <2>2, AppendProps
    <2>4. push(r) = S
      BY DEF push
    <2> HIDE DEF x, S, W, r
    <2>5. /\ an' \in Analyzers /\ an'.st = "loop" /\ an'.i = i + 1
          /\ an'.buf = an.buf /\ an'.stack = S /\ an'.rows = an.rows
      <3>1. an' = [st |-> an.st, buf |-> an.buf, i |-> i + 1, stack |-> S, rows |-> an.rows]
        BY <1>2, <1>9, <2>4 DEF Analyzers
      <3> DEFINE Q == an.rows
                 j == i + 1
      <3>2. j \in Nat /\ Q \in Seq(Rows)
        BY <1>5
      <3>3. an' = [st |-> an.st, buf |-> an.buf, i |-> j, stack |-> S, rows |-> Q]
        BY <3>1
      <3> HIDE DEF Q, j
      <3>4. /\ an' \in Analyzers /\ an'.st = an.st /\ an'.i = j
            /\ an'.buf = an.buf /\ an'.stack = S /\ an'.rows = Q
        BY <1>2, <2>3, <3>2, <3>3, AnalyzerTyped
      <3> QED BY <1>1, <3>4 DEF Q, j
    <2>6. /\ R[i + 1].callee \in Funcs
          /\ H[i + 1].stack = Append(H[i].stack, [fn |-> R[i + 1].callee, start |-> R[i + 1].nsec,
                                                  hart |-> R[i + 1].hartid])
          /\ H[i + 1].ended = H[i].ended
      BY SMTT(60), <2>1 DEF Follows, CALL, RET
    <2>7. i + 1 <= target.recs => SameStack(S, H[i + 1].stack)
      <3> SUFFICES ASSUME i + 1 <= target.recs PROVE SameStack(S, H[i + 1].stack)
        OBVIOUS
      <3> DEFINE f == [fn |-> R[i + 1].callee, start |-> R[i + 1].nsec, hart |-> R[i + 1].hartid]
      <3>1. f \in Active /\ f.fn = x.callee /\ f.start = x.start /\ f.hart = x.hartid
        BY <2>1, <2>2, <2>6 DEF Active, Recs
      <3>2. H[i].stack \in Seq(Active) /\ H[i + 1].stack = Append(H[i].stack, f)
        BY <2>1, <2>6 DEF Moments
      <3> HIDE DEF f
      <3>3. SameStack(Append(an.stack, x), Append(H[i].stack, f))
        BY <1>5, <2>1, <2>2, <3>1, <3>2, PushSame
      <3> QED BY <3>2, <3>3 DEF S
    <2>8. Replayed(an', log, logged, H, target, nm)
      <3>1. an'.i \in Nat /\ an'.i > 0 /\ an'.i <= Len(log.recs) /\ an'.buf = log /\ an'.st # "end"
        BY <1>4, <1>5, <2>1, <2>5 DEF W
      <3>2. /\ Len(an'.rows) = H[an'.i].ended
            /\ an'.i <= target.recs => SameStack(an'.stack, H[an'.i].stack)
        BY <2>1, <2>5, <2>6, <2>7
      <3>3. \A k \in 1..Len(an'.rows) : RowOf(an'.rows[k], logged[k], nm)
        BY <2>1, <2>5
      <3> QED BY <3>1, <3>2, <3>3 DEF Replayed
    <2> QED BY <2>5, <2>8
  <1>10. CASE i > 0 /\ Placed(r) /\ r.direction = RET
              /\ an' = [an EXCEPT !.i = @ + 1, !.stack = Front(an.stack),
                                  !.rows = Append(@, Row(Last(an.stack), r))]
    <2> DEFINE d == Last(an.stack)
               w == Row(d, r)
               S == Front(an.stack)
               Q == Append(an.rows, w)
               T == H[i].stack
               n == H[i + 1].ended
    <2>1. /\ i < Len(W) /\ r \in Recs
          /\ Follows(H[i], R[i + 1], H[i + 1], logged)
          /\ R[i + 1].direction = RET
          /\ r.hartid = R[i + 1].hartid /\ r.nsec = R[i + 1].nsec
          /\ H[i] \in Moments
          /\ SameStack(an.stack, H[i].stack)
          /\ Len(an.rows) = H[i].ended
          /\ \A k \in 1..Len(an.rows) : RowOf(an.rows[k], logged[k], nm)
      BY <1>8, <1>10
    <2>2. /\ T # << >> /\ T \in Seq(Active)
          /\ H[i + 1].stack = Front(T) /\ n = Len(an.rows) + 1
          /\ logged[n] = [fn |-> Last(T).fn, depth |-> Len(T) - 1,
                        start |-> Last(T).start, end |-> R[i + 1].nsec,
                        start_hartid |-> Last(T).hart, end_hartid |-> R[i + 1].hartid]
      BY <2>1 DEF Follows, Moments, CALL, RET
    <2>3. an.stack # << >>
      BY <1>10 DEF Placed, CALL, RET
    <2>4. /\ SameStack(S, Front(T))
          /\ d.callee = Last(T).fn /\ d.start = Last(T).start
          /\ d.hartid = Last(T).hart /\ d.depth = Len(T) - 1
      BY <1>5, <2>1, <2>2, <2>3, PopSame
    <2>5. S \in Seq(StackRecs) /\ d \in StackRecs /\ Last(T) \in Active
      BY <1>5, <2>2, <2>3, FrontProps
    <2>6. addr(d.callee) = Last(T).fn - Base /\ Last(T).fn - Base \in Nat
      <3>1. RecordAt(0).callee = Base
        BY <1>3, <1>4, RecordRead
      <3>2. Last(T).fn \in Funcs
        BY <2>5 DEF Active
      <3> QED BY <2>4, <3>1, <3>2 DEF addr, ProfilerAssumption
    <2> DEFINE a == Last(T).fn - Base
    <2>7. get_func_name(a) \in STRING \cup {NULL} /\ Named(nm, a, get_func_name(a))
      BY <1>2, <2>6, NameFound
    <2>8. w = [depth |-> d.depth, addr |-> a, name |-> get_func_name(a),
               start |-> d.start, end |-> r.nsec,
               start_hartid |-> d.hartid, end_hartid |-> r.hartid]
      BY <2>6 DEF Row
    <2> HIDE DEF w, r, W, S, Q, T, d, n, a
    <2>9. w \in Rows
      BY <2>1, <2>5, <2>6, <2>7, <2>8 DEF Rows, StackRecs, Recs, a
    <2>10. RowOf(w, logged[n], nm)
      BY <2>1, <2>2, <2>4, <2>7, <2>8 DEF RowOf, a
    <2>11. /\ Q \in Seq(Rows) /\ Len(Q) = Len(an.rows) + 1 /\ Q[Len(an.rows) + 1] = w
           /\ \A k \in 1..Len(an.rows) : Q[k] = an.rows[k]
      BY <1>5, <2>9, AppendProps DEF Q
    <2>12. ASSUME NEW k \in 1..Len(Q) PROVE RowOf(Q[k], logged[k], nm)
      <3>1. CASE k = Len(an.rows) + 1
        BY <3>1, <2>2, <2>10, <2>11
      <3>2. CASE k \in 1..Len(an.rows)
        BY <3>2, <2>1, <2>11
      <3>3. k = Len(an.rows) + 1 \/ k \in 1..Len(an.rows)
        BY <1>5, <2>11
      <3> QED BY <3>1, <3>2, <3>3
    <2>13. /\ an' \in Analyzers /\ an'.st = "loop" /\ an'.i = i + 1
           /\ an'.buf = an.buf /\ an'.stack = S /\ an'.rows = Q
      <3>1. an' = [an EXCEPT !.i = i + 1, !.stack = S, !.rows = Q]
        BY <1>10 DEF S, Q, w, d
      <3>2. an' = [st |-> an.st, buf |-> an.buf, i |-> i + 1, stack |-> S, rows |-> Q]
        BY <1>2, <3>1 DEF Analyzers
      <3> DEFINE j == i + 1
      <3>3. j \in Nat /\ an' = [st |-> an.st, buf |-> an.buf, i |-> j, stack |-> S, rows |-> Q]
        BY <1>5, <3>2
      <3> HIDE DEF j
      <3>4. /\ an' \in Analyzers /\ an'.st = an.st /\ an'.i = j
            /\ an'.buf = an.buf /\ an'.stack = S /\ an'.rows = Q
        BY <1>2, <2>5, <2>11, <3>3, AnalyzerTyped
      <3> QED BY <1>1, <3>4 DEF j
    <2>14. Replayed(an', log, logged, H, target, nm)
      <3>1. an'.i \in Nat /\ an'.i > 0 /\ an'.i <= Len(log.recs) /\ an'.buf = log /\ an'.st # "end"
        BY <1>4, <1>5, <2>1, <2>13 DEF W
      <3>2. Len(an'.rows) = H[an'.i].ended /\ SameStack(an'.stack, H[an'.i].stack)
        BY <2>2, <2>4, <2>11, <2>13 DEF n
      <3>3. \A k \in 1..Len(an'.rows) : RowOf(an'.rows[k], logged[k], nm)
        BY <2>12, <2>13
      <3> QED BY <3>1, <3>2, <3>3 DEF Replayed
    <2> QED BY <2>13, <2>14
  <1> QED BY <1>7, <1>9, <1>10 DEF AnalyzeRecord

(***************************************************************************)
(*                              Theorems                                   *)
(***************************************************************************)

\* Every step keeps the invariant.
LEMMA NextInv ==
  ASSUME ProfilerAssumption, Inv, [Next]_vars
  PROVE  Inv'
  <1>1. CASE UNCHANGED vars
    BY <1>1 DEF vars, Inv, ProgramInv, AnalyzerInv
  <1>2. ASSUME NEW hart \in Harts, NEW fn \in Funcs, __cyg_profile_func_enter(fn, hart)
        PROVE  Inv'
    BY <1>2, EnterInv
  <1>3. ASSUME NEW hart \in Harts, __cyg_profile_func_exit(hart) PROVE Inv'
    BY <1>3, ExitInv
  <1> QED BY <1>1, <1>2, <1>3, StartInv, MapInv, UnmapInv, DieInv, AnalyzerStarts,
             AnalyzeRecordInv, AnalyzerEndsInv, AnalyzerExitsInv DEF Next

LEMMA InvHolds == Spec => []Inv
  <1>1. Init => Inv
    BY InitInv, ProfilerAssumption
  <1>2. Inv /\ [Next]_vars => Inv'
    BY NextInv, ProfilerAssumption
  <1> QED BY <1>1, <1>2, PTL DEF Spec

\* The records of a run are well-formed, and only the first is a START record.
LEMMA InvTypes ==
  ASSUME ProfilerAssumption, Inv
  PROVE  TypeOK
  <1>1. \A R \in Seq(Recs) : \A i \in 1..Len(R) : IsRecord(R[i])
    <2> SUFFICES ASSUME NEW R \in Seq(Recs), NEW i \in 1..Len(R) PROVE IsRecord(R[i])
      OBVIOUS
    <2>1. R[i] \in Recs
      OBVIOUS
    <2> QED BY <2>1 DEF IsRecord, Recs
  <1>2. /\ proc \in {"none", "running"} /\ mapped \in BOOLEAN
        /\ clock \in Nat /\ calls \in 0..MaxCalls /\ runs \in 0..MaxRuns
        /\ target \in Targets /\ nm \in NmFiles
        /\ perf \in Seq(Recs) /\ frames \in Seq(Active)
        /\ Len(perf) + Len(frames) <= 2 * calls + 1 /\ Len(frames) <= STACK_SIZE
        /\ ~mapped => perf = << >>
        /\ mapped => \E H : RunIs(perf, H, done, frames)
    BY DEF Inv, ProgramInv
  <1>3. Len(perf) <= 2 * MaxCalls + 1
    BY <1>2 DEF ProfilerAssumption
  <1>4. ASSUME NEW i \in 1..Len(perf)
        PROVE  IsRecord(perf[i]) /\ (perf[i].direction = START <=> i = 1)
    <2>1. mapped
      BY <1>2
    <2>2. PICK H : RunIs(perf, H, done, frames)
      BY <1>2, <2>1
    <2>3. perf[1].direction = START /\ \A j \in 2..Len(perf) : Follows(H[j - 1], perf[j], H[j], done)
      BY <2>2, Zenon DEF RunIs, Trace
    <2>4. \A j \in 2..Len(perf) : perf[j].direction # START
      <3> SUFFICES ASSUME NEW j \in 2..Len(perf) PROVE perf[j].direction # START
        OBVIOUS
      <3>1. Follows(H[j - 1], perf[j], H[j], done)
        BY <2>3
      <3>2. perf[j].direction = CALL \/ perf[j].direction = RET
        BY <3>1 DEF Follows
      <3> QED BY <3>2 DEF START, CALL, RET
    <2>5. i = 1 \/ i \in 2..Len(perf)
      BY <1>2
    <2>6. IsRecord(perf[i])
      BY <1>1, <1>2
    <2> QED BY <2>3, <2>4, <2>5, <2>6
  <1>5. ASSUME NEW i \in 1..Len(frames) PROVE frames[i].fn \in Funcs
    <2>1. frames[i] \in Active
      BY <1>2
    <2> QED BY <2>1 DEF Active
  <1>6. log \in Logs /\ an \in Analyzers /\ (an.st = "idle" => an = Idle)
        /\ (an.st # "idle" => log # NoLog)
    BY DEF Inv, AnalyzerInv, Analysis
  <1>7. \A i \in 1..Len(log.recs) : IsRecord(log.recs[i])
    <2>1. log.recs \in Seq(Recs)
      BY <1>6 DEF Logs
    <2> QED BY <1>1, <2>1
  <1>8. an.st \in {"idle", "loop", "end"} /\ an.i \in Nat
    BY <1>6 DEF Analyzers
  <1>9. an.i \in 0..(2 * MaxCalls + 1)
    <2>1. CASE an.st = "idle"
      BY <2>1, <1>6 DEF Idle, ProfilerAssumption
    <2>2. CASE an.st # "idle"
      <3>1. PICK R, H : LogIs(log, logged, R, H, target) /\ Replayed(an, log, logged, H, target, nm)
        BY <1>6, <2>2 DEF Inv, AnalyzerInv, Analysis
      <3>2. Len(log.recs) <= Len(R) /\ Len(log.recs) \in Nat /\ Len(R) \in Nat
        BY <1>2, <1>6, <3>1, FirstRecord
      <3>3. an.i <= Len(log.recs) /\ Len(R) <= Max_Records
        BY <3>1 DEF LogIs, Replayed
      <3> QED BY <1>8, <3>2, <3>3 DEF Max_Records, ProfilerAssumption
    <2> QED BY <2>1, <2>2
  <1> QED BY <1>2, <1>3, <1>4, <1>5, <1>7, <1>8, <1>9 DEF TypeOK

\* The types of Profiler hold in every run: the buffer never has more than two
\* records for a call, and only __profiler_map_info writes a START record.
THEOREM TypeCorrect == Spec => []TypeOK
  <1>1. Inv => TypeOK
    BY InvTypes, ProfilerAssumption
  <1> QED BY <1>1, InvHolds, PTL

\* What the invariant says of a row.
LEMMA InvRows ==
  ASSUME ProfilerAssumption, Inv
  PROVE  /\ Len(an.rows) <= Len(logged)
         /\ \A i \in 1..Len(an.rows) : RowOf(an.rows[i], logged[i], nm) /\ logged[i] \in Ended
  <1>1. log \in Logs /\ logged \in Seq(Ended) /\ an \in Analyzers /\ target \in Targets
        /\ (an.st = "idle" => an = Idle) /\ (an.st # "idle" => log # NoLog)
    BY DEF Inv, ProgramInv, AnalyzerInv, Analysis
  <1>2. CASE an.rows = << >>
    BY <1>1, <1>2
  <1>3. CASE an.rows # << >>
    <2>1. an.st # "idle"
      BY <1>1, <1>3 DEF Idle
    <2>2. PICK R, H : LogIs(log, logged, R, H, target) /\ Replayed(an, log, logged, H, target, nm)
      BY <1>1, <2>1 DEF Inv, AnalyzerInv, Analysis
    <2>3. an.i \in Nat /\ an.i <= Len(log.recs) /\ an.i # 0
      BY <1>1, <1>3, <2>2 DEF Replayed, Analyzers
    <2>4. Len(log.recs) <= Len(R) /\ Len(log.recs) \in Nat /\ Len(R) \in Nat
      BY <1>1, <2>2, FirstRecord
    <2>5. an.i \in 1..Len(R)
      BY <2>3, <2>4
    <2>6. \A j \in 1..Len(R) : H[j].ended <= Len(logged)
      BY <2>2 DEF LogIs, Trace
    <2>7. Len(an.rows) = H[an.i].ended /\ \A k \in 1..Len(an.rows) : RowOf(an.rows[k], logged[k], nm)
      BY <2>2, <2>3 DEF Replayed
    <2>8. Len(an.rows) <= Len(logged)
      BY <2>5, <2>6, <2>7
    <2>9. ASSUME NEW k \in 1..Len(an.rows) PROVE logged[k] \in Ended
      <3>1. an.rows \in Seq(Rows)
        BY <1>1 DEF Analyzers
      <3>2. k \in 1..Len(logged)
        BY <1>1, <2>8, <3>1
      <3> QED BY <1>1, <3>2
    <2> QED BY <2>7, <2>8, <2>9
  <1> QED BY <1>2, <1>3

\* For every program and every log: each row is the call of the program that
\* ended at its place in the run, and has its function, depth, times and cores.
THEOREM RowsAreTrue == Spec => []RowsTrue
  <1>1. Inv => RowsTrue
    <2> SUFFICES ASSUME Inv PROVE RowsTrue
      OBVIOUS
    <2>1. /\ Len(an.rows) <= Len(logged)
          /\ \A i \in 1..Len(an.rows) : RowOf(an.rows[i], logged[i], nm) /\ logged[i] \in Ended
      BY InvRows, ProfilerAssumption
    <2>2. ASSUME NEW i \in 1..Len(an.rows) PROVE Call(an.rows[i]) = logged[i]
      <3> DEFINE w == an.rows[i]
                 d == logged[i]
      <3>1. RowOf(w, d, nm) /\ d \in Ended
        BY <2>1
      <3> HIDE DEF w, d
      <3>2. d.fn \in Nat /\ Base \in Nat
        BY <3>1, ProfilerAssumption DEF Ended, ProfilerAssumption
      <3>3. w.addr + Base = d.fn
        BY <3>1, <3>2 DEF RowOf
      <3>4. d = [fn |-> d.fn, depth |-> d.depth, start |-> d.start, end |-> d.end,
                 start_hartid |-> d.start_hartid, end_hartid |-> d.end_hartid]
        BY <3>1 DEF Ended
      <3>5. Call(w) = d
        BY <3>1, <3>3, <3>4 DEF Call, RowOf
      <3> QED BY <3>5 DEF w, d
    <2> QED BY <2>1, <2>2 DEF RowsTrue
  <1> QED BY <1>1, InvHolds, PTL

\* For every symbol file and size of the hash table, collisions and lines without
\* an address included: a row has a name of its address, and NULL only if there is none.
THEOREM NamesAreTrue == Spec => []NamesTrue
  <1>1. Inv => NamesTrue
    <2> SUFFICES ASSUME Inv PROVE NamesTrue
      OBVIOUS
    <2>1. \A i \in 1..Len(an.rows) : RowOf(an.rows[i], logged[i], nm)
      BY InvRows, ProfilerAssumption
    <2>2. \A i \in 1..Len(an.rows) : Named(nm, an.rows[i].addr, an.rows[i].name)
      BY <2>1 DEF RowOf
    <2> QED BY <2>2, Zenon DEF NamesTrue, Named
  <1> QED BY <1>1, InvHolds, PTL

\* For every size of the log: the analyzer leaves out no call whose exit record
\* the log holds, and has no row for one whose exit record was cut off.
THEOREM NothingIsMissing == Spec => []NothingMissing
  <1>1. Inv => NothingMissing
    <2> SUFFICES ASSUME Inv, an.st = "end", ~parse_nm_fails,
                        NEW i \in 1..Len(logged)
                 PROVE  i <= Len(an.rows) <=>
                          logged[i].end < target.recs + (IF target.cut THEN 1 ELSE 0)
      BY DEF NothingMissing
    <2>1. log \in Logs /\ logged \in Seq(Ended) /\ an \in Analyzers /\ target \in Targets
      BY DEF Inv, ProgramInv, AnalyzerInv, Analysis
    <2>2. PICK R, H : LogIs(log, logged, R, H, target) /\ Replayed(an, log, logged, H, target, nm)
      BY DEF Inv, AnalyzerInv, Analysis
    <2> DEFINE l == Len(log.recs)
               c == target.recs
               e == logged[i].end
    <2>3. l >= 1 /\ l <= Len(R) /\ l \in Nat /\ Len(R) \in Nat
      BY <2>1, <2>2, FirstRecord, ProfilerAssumption
    <2>4. an.i = l
      BY <2>2 DEF Replayed, parse_nm_fails, Fails
    <2>5. Len(an.rows) = H[l].ended
      BY <2>2, <2>3, <2>4 DEF Replayed
    <2>6. Trace(R, H, logged) /\ H[Len(R)].ended = Len(logged) /\ CutOf(log.recs, R, target)
      BY <2>2 DEF LogIs
    <2>7. \A j \in 1..Len(R) : i <= H[j].ended <=> logged[i].end < j
      BY <2>6 DEF Trace
    <2>8. i <= Len(an.rows) <=> e < l
      BY <2>3, <2>5, <2>7
    <2>9. e < Len(R) /\ e \in Nat
      <3>1. Len(R) \in 1..Len(R) /\ i <= H[Len(R)].ended
        BY <2>3, <2>6, <2>1
      <3>2. logged[i] \in Ended
        BY <2>1
      <3>3. e \in Nat
        BY <3>2 DEF Ended
      <3> QED BY <3>1, <3>3, <2>7
    <2>10. /\ l = IF Len(R) <= c THEN Len(R) ELSE c + (IF target.cut THEN 1 ELSE 0)
           /\ c \in Nat /\ target.cut \in BOOLEAN
      BY <2>1, <2>6, ProfilerAssumption DEF CutOf, ProfilerAssumption
    <2> HIDE DEF l, c, e
    <2>11. e < l <=> e < c + (IF target.cut THEN 1 ELSE 0)
      <3>1. CASE Len(R) <= c
        BY <3>1, <2>3, <2>9, <2>10
      <3>2. CASE ~(Len(R) <= c)
        BY <3>2, <2>10
      <3> QED BY <3>1, <3>2
    <2> QED BY <2>8, <2>11 DEF c, e
  <1> QED BY <1>1, InvHolds, PTL

=============================================================================
