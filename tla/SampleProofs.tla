---------------------------- MODULE SampleProofs ----------------------------
(***************************************************************************)
(* The storage sample and the GP storage test, for every number of         *)
(* processes, of starts, of faults and of descriptors, every content of    *)
(* the object and every block and ocall size: the scripts keep to          *)
(* themselves, and, as long as the host has made no error, nothing leaks,  *)
(* what one instance stores another one reads, and the digest sample       *)
(* raises no false alarm.                                                  *)
(***************************************************************************)
EXTENDS SampleTA, RoundTripProofs

(***************************************************************************)
(*                       The storage part of a step                        *)
(***************************************************************************)

\* The host process ends between two commands: of the storage's variables only
\* its descriptor table changes.
ExitsBetween(a) ==
    /\ inst[a] # "run"
    /\ ProcessExit(a)
    /\ UNCHANGED <<inst, handle, call, ret, written, opens>>

\* What is assumed of the program.
LEMMA ProgramFacts ==
  /\ Programs \subseteq {"digest", "gp"}
  /\ Saved \in Chains /\ Len(Saved) \in 1..MaxBlocks /\ Saved \in [1..Len(Saved) -> Data]
  /\ fname \in ObjectIDs /\ FileOf[fname] \in Names /\ object \in Handles
  /\ \A h \in Handles : h = object
  BY SampleAssumption, ObjectAssumption DEF Chains

\* A step of the sample is a step of the storage API or the end of a process
\* between two commands.
LEMMA StorageStep ==
  ASSUME SampleNext
  PROVE  Next \/ UNCHANGED vars \/ \E a \in Apps : ExitsBetween(a)
  <1>1. PICK a \in Apps : StartMain(a) \/ Killed(a) \/ Progress(a)
    BY DEF SampleNext
  <1>2. CASE StartMain(a) \/ NextCommand(a) \/ CommandReturns(a)
    BY <1>2 DEF StartMain, NextCommand, CommandReturns, Next
  <1>3. CASE Killed(a)
    BY <1>3 DEF Killed, Next, ExitsBetween
  <1>4. CASE MainReturns(a)
    BY <1>4 DEF MainReturns, ExitsBetween
  <1>5. CASE CreateObject(a) \/ OpenObject(a)
    <2>1. ForWriting \in OpenArgs /\ ForReading \in OpenArgs
      BY DEF ForWriting, ForReading, OpenArgs
    <2> QED BY <1>5, <2>1, ProgramFacts DEF CreateObject, OpenObject, Next
  <1>6. CASE WriteObject(a)
    <2>1. Len(Saved) \in 0..MaxBlocks
      BY ProgramFacts, ObjectAssumption
    <2>2. TEE_WriteObjectData(a, object, Saved) \/ WriteNoMemory(a, object)
          \/ DataBadParameters(a) \/ CloseNull(a)
      BY <1>6 DEF WriteObject, Uninitialised
    <2> QED BY <2>1, <2>2, ProgramFacts DEF Next
  <1>7. CASE ReadObject(a)
    <2>1. Len(Saved) \in 0..MaxBlocks
      BY ProgramFacts, ObjectAssumption
    <2>2. TEE_ReadObjectData(a, object, Len(Saved))
          \/ DataBadParameters(a) \/ CloseNull(a)
      BY <1>7 DEF ReadObject, Uninitialised
    <2> QED BY <2>1, <2>2, ProgramFacts DEF Next
  <1>8. CASE WritePass(a) \/ ReadPass(a)
    BY <1>8 DEF WritePass, ReadPass, Next
  <1>9. CASE CloseObject(a)
    BY <1>9, ProgramFacts DEF CloseObject, Next
  <1>10. CASE Compare(a)
    BY <1>10 DEF Compare
  <1> QED BY <1>1, <1>2, <1>3, <1>4, <1>5, <1>6, <1>7, <1>8, <1>9, <1>10 DEF Progress

\* So types and loop bounds of the storage hold here too.
LEMMA SampleSafe == Safe /\ [SampleNext]_allVars => Safe'
  <1> SUFFICES ASSUME Safe, [SampleNext]_allVars PROVE Safe'
    OBVIOUS
  <1>1. ASSUME NEW a \in Apps, ExitsBetween(a) PROVE Safe'
    <2>0. HostOK /\ HandlesOK /\ CallsOK /\ CountersOK /\ InstOK /\ RetOK /\ WrittenOK
      BY TypeParts DEF Safe
    <2>1. HostOK'
      BY <1>1, <2>0 DEF ExitsBetween, ProcessExit, HostOK, ClosedFd, OpenFile, Modes
    <2>2. HandlesOK' /\ CallsOK' /\ CountersOK' /\ InstOK' /\ RetOK' /\ WrittenOK'
      BY <1>1, <2>0 DEF ExitsBetween, ProcessExit, HandlesOK, CallsOK, CountersOK, InstOK,
                        RetOK, WrittenOK, Live
    <2>3. LoopInBounds'
      BY <1>1 DEF Safe, LoopInBounds, ExitsBetween
    <2> QED BY <2>1, <2>2, <2>3, TypePartsNext DEF Safe
  <1>2. ASSUME Next \/ UNCHANGED vars PROVE Safe'
    BY <1>2, StepSafe
  <1>3. UNCHANGED allVars => UNCHANGED vars
    BY DEF allVars
  <1> QED BY <1>1, <1>2, <1>3, StorageStep

(***************************************************************************)
(*                       Where a process stands                            *)
(*                                                                         *)
(* Both programs create, write, close, open, read, close and compare.      *)
(* Where(t) is the place of the next of these seven calls; 8 is the end,   *)
(* 4 also the end of the sample's first command, and 0 is outside main.    *)
(***************************************************************************)
Where(t) == IF t.cmd = 2 THEN t.step + 3 ELSE IF t.cmd = 1 THEN t.step ELSE 0
Spot(a) == Where(at[a])

\* The calls of the command that t is in.
CallsOf(p, t) == Script(Main(p)[t.cmd])
Order == <<"create", "write", "close", "open", "read", "close", "compare">>

\* Position t is one of program p.
Placed(p, t) ==
    /\ t.cmd \in 0..Len(Main(p))
    /\ t.cmd # 0 => t.step \in 1..(Len(CallsOf(p, t)) + 1)

LEMMA Scripts ==
  /\ Len(Main("digest")) = 2 /\ Len(Main("gp")) = 1
  /\ \A p, t : (p = "digest" /\ t.cmd = 1) => CallsOf(p, t) = <<"create", "write", "close">>
  /\ \A p, t : (p = "digest" /\ t.cmd = 2) =>
        CallsOf(p, t) = <<"open", "read", "close", "compare">>
  /\ \A p, t : (p = "gp" /\ t.cmd = 1) => CallsOf(p, t) = Order
  <1>1. Main("digest") = <<"gen", "check">> /\ Main("gp") = <<"test">>
    BY DEF Main
  <1>2. Script("gen") = <<"create", "write", "close">>
    BY DEF Script, Store
  <1>3. Script("check") = <<"open", "read", "close", "compare">>
    <2>1. Script("check") = Load \o <<"compare">>
      BY DEF Script
    <2> QED BY <2>1 DEF Load
  <1>4. Script("test") = Order
    <2>1. Script("test") = Store \o Load \o <<"compare">>
      BY DEF Script
    <2> QED BY <2>1 DEF Store, Load, Order
  <1>5. <<"gen", "check">>[1] = "gen" /\ <<"gen", "check">>[2] = "check" /\ <<"test">>[1] = "test"
    OBVIOUS
  <1>6. Len(<<"gen", "check">>) = 2 /\ Len(<<"test">>) = 1
    OBVIOUS
  <1> QED BY <1>1, <1>2, <1>3, <1>4, <1>5, <1>6, Zenon DEF CallsOf

\* Step i of the command with the calls cs, or with m = 0 none, is place w.
PlaceOf(m, i, w, cs) ==
    /\ m = 0 <=> w = 0
    /\ w \in 0..8
    /\ m # 0 => Len(cs) \in Nat
    /\ (m # 0 /\ i <= Len(cs)) =>
          w \in 1..7 /\ i \in 1..Len(cs) /\ cs[i] = Order[w]
    /\ (m # 0 /\ i = Len(cs) + 1) => w \in {4, 8}

\* Where a position lies in the order of the seven calls.
LEMMA Positions ==
  ASSUME NEW p \in {"digest", "gp"}, NEW t \in [cmd : 0..2, step : Nat], Placed(p, t)
  PROVE  /\ PlaceOf(t.cmd, t.step, Where(t), CallsOf(p, t))
         /\ (t.cmd # 0 /\ t.cmd < Len(Main(p))) => p = "digest" /\ t.cmd = 1
  <1> DEFINE cs == CallsOf(p, t)
             m == t.cmd
             i == t.step
             w == Where(t)
  <1>0. m \in 0..2 /\ i \in Nat /\ m \in 0..Len(Main(p)) /\ (m # 0 => i \in 1..(Len(cs) + 1))
    BY DEF Placed
  <1>1. w = IF m = 2 THEN i + 3 ELSE IF m = 1 THEN i ELSE 0
    BY DEF Where
  <1>2. /\ (p = "digest" /\ m = 1) => cs = <<"create", "write", "close">>
        /\ (p = "digest" /\ m = 2) => cs = <<"open", "read", "close", "compare">>
        /\ (p = "gp" /\ m = 1) => cs = Order
    BY Scripts
  <1>3. Len(Main(p)) = IF p = "digest" THEN 2 ELSE 1
    BY Scripts
  <1> SUFFICES /\ PlaceOf(m, i, w, cs)
               /\ (m # 0 /\ m < Len(Main(p))) => p = "digest" /\ m = 1
    OBVIOUS
  <1> HIDE DEF cs, m, i, w
  <1>4. CASE m = 0
    BY <1>1, <1>4 DEF PlaceOf
  <1>5. CASE p = "digest" /\ m = 1
    <2>0. Len(cs) = 3
      BY <1>2, <1>5
    <2>1. Len(cs) = 3 /\ i \in 1..4 /\ w = i
      BY <1>0, <1>1, <1>5, <2>0
    <2>2. cs[1] = Order[1] /\ cs[2] = Order[2] /\ cs[3] = Order[3]
      BY <1>2, <1>5 DEF Order
    <2>3. i <= 3 => cs[i] = Order[w]
      BY <2>1, <2>2
    <2> QED BY <1>5, <2>1, <2>3 DEF PlaceOf
  <1>6. CASE p = "digest" /\ m = 2
    <2>0. Len(cs) = 4
      BY <1>2, <1>6
    <2>1. Len(cs) = 4 /\ i \in 1..5 /\ w = i + 3
      BY <1>0, <1>1, <1>6, <2>0
    <2>2. cs[1] = Order[4] /\ cs[2] = Order[5] /\ cs[3] = Order[6] /\ cs[4] = Order[7]
      BY <1>2, <1>6 DEF Order
    <2>3. i <= 4 => cs[i] = Order[w]
      BY <2>1, <2>2
    <2> QED BY <1>3, <1>6, <2>1, <2>3 DEF PlaceOf
  <1>7. CASE p = "gp" /\ m # 0
    <2>1. m = 1 /\ cs = Order
      BY <1>0, <1>2, <1>3, <1>7
    <2>2. Len(cs) = 7
      BY <2>1 DEF Order
    <2>3. i \in 1..8 /\ w = i
      BY <1>0, <1>1, <2>1, <2>2
    <2> QED BY <1>3, <1>7, <2>1, <2>2, <2>3 DEF PlaceOf
  <1> QED BY <1>0, <1>4, <1>5, <1>6, <1>7

\* The next call by its place, and the place by the call.
LEMMA Places ==
  ASSUME NEW i \in 1..7
  PROVE  /\ Order[i] = "create" <=> i = 1
         /\ Order[i] = "write" <=> i = 2
         /\ Order[i] = "close" <=> i \in {3, 6}
         /\ Order[i] = "open" <=> i = 4
         /\ Order[i] = "read" <=> i = 5
         /\ Order[i] = "compare" <=> i = 7
  BY DEF Order

(***************************************************************************)
(*       The types, for a host that answers at most what it was asked      *)
(*                                                                         *)
(* SampleTypeOK is not inductive: what a read stores in got is bounded     *)
(* only because the call in progress is the one of the script, with the    *)
(* size of what the program saves.                                         *)
(***************************************************************************)
Size == BLK * Len(Saved)
Position == [cmd : 0..2, step : Nat]

ProgOK == prog \in Programs
AtOK == at \in [Apps -> Position] /\ \A a \in Apps : Placed(prog, at[a])
RunOK == \A a \in Apps : inst[a] = "run" => InMain(a)
GotOK == got \in [Apps -> [stored : BOOLEAN, count : 0..(BLK * MaxBlocks),
                           plain : Seq(Data \cup {Garbage})]]
VerdictOK == verdict \in [Apps -> [says : {"none", "ok", "fails"},
                                   compared : 0..(BLK * MaxBlocks)]]
HistoryOK == intruded \in [Apps -> BOOLEAN] /\ mains \in 0..MaxMains

\* The API call in progress is the script's, and moves what the program saves.
InCall(a) ==
    call[a] # Idle =>
        /\ inst[a] = "run"
        /\ at[a].step <= Len(Calls(a))
        /\ call[a].op = Calls(a)[at[a].step]
        /\ call[a].count = Size

Scripted ==
    /\ Safe
    /\ ProgOK /\ AtOK /\ RunOK /\ GotOK /\ VerdictOK /\ HistoryOK
    /\ \A a \in Apps : InCall(a)

LEMMA CallsAre == \A a : Calls(a) = CallsOf(prog, at[a])
  BY DEF Calls, CallsOf

LEMMA SampleTypeParts ==
  ProgOK /\ AtOK /\ RunOK /\ GotOK /\ VerdictOK /\ HistoryOK => SampleTypeOK
  BY CallsAre DEF ProgOK, AtOK, RunOK, GotOK, VerdictOK, HistoryOK, SampleTypeOK, Placed, InMain

LEMMA SizeBounds == Size \in Nat /\ Size > 0 /\ Size <= BLK * MaxBlocks /\ Whole(Size)
                    /\ BLK * MaxBlocks \in Nat
  <1>1. Len(Saved) \in Nat /\ Len(Saved) > 0 /\ Len(Saved) <= MaxBlocks /\ MaxBlocks \in Nat
        /\ BLK \in Nat /\ BLK > 0
    BY ProgramFacts, ObjectAssumption
  <1>2. Size \in Nat /\ BLK * MaxBlocks \in Nat
    BY <1>1, MulNat DEF Size
  <1>3. Size > 0 /\ Size <= BLK * MaxBlocks
    BY <1>1 DEF Size
  <1> QED BY <1>1, <1>2, <1>3 DEF Whole, Size

\* What a process's position says of its next call.
LEMMA AtPlace ==
  ASSUME ProgOK, AtOK, NEW a \in Apps
  PROVE  /\ Spot(a) \in 0..8
         /\ InMain(a) <=> Spot(a) # 0
         /\ (InMain(a) /\ at[a].step <= Len(Calls(a))) =>
               /\ Spot(a) \in 1..7 /\ Len(Calls(a)) \in Nat
               /\ at[a].step \in 1..Len(Calls(a))
               /\ Calls(a)[at[a].step] = Order[Spot(a)]
         /\ (InMain(a) /\ at[a].step = Len(Calls(a)) + 1) => Spot(a) \in {4, 8}
         /\ (InMain(a) /\ at[a].cmd < Len(Main(prog))) => prog = "digest" /\ at[a].cmd = 1
  <1> DEFINE t == at[a]
  <1>1. prog \in {"digest", "gp"} /\ t \in [cmd : 0..2, step : Nat] /\ Placed(prog, t)
    BY ProgramFacts DEF ProgOK, AtOK, Position
  <1> HIDE DEF t
  <1>2. /\ PlaceOf(t.cmd, t.step, Where(t), CallsOf(prog, t))
        /\ (t.cmd # 0 /\ t.cmd < Len(Main(prog))) => prog = "digest" /\ t.cmd = 1
    BY <1>1, Positions
  <1>3. Spot(a) = Where(t) /\ Calls(a) = CallsOf(prog, t) /\ (InMain(a) <=> t.cmd # 0)
    BY CallsAre DEF Spot, InMain, t
  <1> QED BY <1>2, <1>3 DEF PlaceOf, t

\* Moving on in a script.
LEMMA GoesOn ==
  ASSUME ProgOK, AtOK, NEW a \in Apps, InMain(a), at[a].step <= Len(Calls(a)),
         NEW s, Goto(a, s), s = at[a].step + 1 \/ s = Len(Calls(a)) + 1, prog' = prog
  PROVE  /\ AtOK'
         /\ \A b \in Apps : InMain(b)' <=> InMain(b)
         /\ \A b \in Apps \ {a} : at'[b] = at[b]
         /\ s = at[a].step + 1 => Spot(a)' = Spot(a) + 1
  <1> DEFINE t == at[a]
             u == [cmd |-> t.cmd, step |-> s]
  <1>1. t \in [cmd : 0..2, step : Nat] /\ Placed(prog, t)
    BY DEF AtOK, Position
  <1>2. t.step \in Nat /\ Len(Calls(a)) \in Nat /\ t.step \in 1..Len(Calls(a))
    BY <1>1, AtPlace
  <1>3. s \in 1..(Len(Calls(a)) + 1) /\ s \in Nat
    BY <1>2
  <1>4. [at[a] EXCEPT !.step = s] = u
    BY <1>1
  <1>5. at' = [at EXCEPT ![a] = u]
    BY <1>4 DEF Goto
  <1>6. CallsOf(prog, u) = CallsOf(prog, t)
    BY DEF CallsOf
  <1>7. u \in Position /\ Placed(prog, u)
    BY <1>1, <1>3, <1>6, CallsAre DEF Placed, Position
  <1> HIDE DEF u
  <1>8. AtOK' /\ at'[a] = u /\ \A b \in Apps \ {a} : at'[b] = at[b]
    BY <1>5, <1>7 DEF AtOK
  <1>9. \A b \in Apps : InMain(b)' <=> InMain(b)
    BY <1>8 DEF InMain, u
  <1>10. s = t.step + 1 => Where(u) = Where(t) + 1
    <2>1. t.cmd \in {1, 2} /\ u.cmd = t.cmd /\ u.step = s
      BY <1>1 DEF InMain, u
    <2> QED BY <1>2, <2>1 DEF Where
  <1> QED BY <1>8, <1>9, <1>10 DEF Spot

\* The control state of the other processes stays as it is.
Elsewhere(a) ==
    /\ prog' = prog
    /\ \A b \in Apps \ {a} : at'[b] = at[b] /\ inst'[b] = inst[b] /\ call'[b] = call[b]

LEMMA CallsKept ==
  ASSUME NEW a \in Apps, \A b \in Apps : InCall(b), Elsewhere(a), InCall(a)'
  PROVE  \A b \in Apps : InCall(b)'
  <1> SUFFICES ASSUME NEW b \in Apps, b # a PROVE InCall(b)'
    OBVIOUS
  <1>1. prog' = prog /\ at'[b] = at[b] /\ inst'[b] = inst[b] /\ call'[b] = call[b]
    BY DEF Elsewhere
  <1> QED BY <1>1 DEF InCall, Calls

\* Process a takes position t.
LEMMA PlaceSet ==
  ASSUME AtOK, NEW a \in Apps, NEW t \in Position, Placed(prog, t), prog' = prog,
         at' = [at EXCEPT ![a] = t]
  PROVE  AtOK' /\ at'[a] = t /\ \A b \in Apps \ {a} : at'[b] = at[b]
  BY DEF AtOK

\* A process with no running instance has no call in progress.
LEMMA NotCalling ==
  ASSUME Scripted, NEW a \in Apps, inst[a] # "run"
  PROVE  call[a] = Idle
  BY DEF Scripted, InCall

\* An API call that returns at once, or a comparison: the script goes on.
LEMMA ReturnScripted ==
  ASSUME Scripted, NEW a \in Apps, InMain(a), call[a] = Idle,
         at[a].step <= Len(Calls(a)), NEW s, Goto(a, s),
         s = at[a].step + 1 \/ s = Len(Calls(a)) + 1,
         UNCHANGED <<prog, inst, call>>
  PROVE  AtOK' /\ RunOK' /\ \A b \in Apps : InCall(b)'
  <1>1. /\ AtOK' /\ \A b \in Apps : InMain(b)' <=> InMain(b)
        /\ \A b \in Apps \ {a} : at'[b] = at[b]
    BY GoesOn, Zenon DEF Scripted
  <1>2. RunOK'
    BY <1>1 DEF Scripted, RunOK
  <1>3. Elsewhere(a)
    BY <1>1 DEF Elsewhere
  <1>4. InCall(a)'
    BY DEF InCall
  <1> QED BY <1>1, <1>2, <1>3, <1>4, CallsKept DEF Scripted

\* The first step of a command is in its script.
LEMMA InScript ==
  ASSUME NEW p, NEW t, t.step = 1, t.cmd \in {1, 2}, Len(CallsOf(p, t)) \in {3, 4, 7},
         Len(Main(p)) \in {1, 2}, t.cmd <= Len(Main(p))
  PROVE  Placed(p, t)
  <1> DEFINE m == Len(Main(p))
             l == Len(CallsOf(p, t))
  <1>1. Placed(p, t) <=> t.cmd \in 0..m /\ (t.cmd # 0 => t.step \in 1..(l + 1))
    BY DEF Placed
  <1>2. m \in {1, 2} /\ l \in {3, 4, 7} /\ t.cmd <= m
    OBVIOUS
  <1> HIDE DEF m, l
  <1> QED BY <1>1, <1>2

\* main starts, and runs its second command.
LEMMA StartScripted ==
  ASSUME Scripted, NEW a \in Apps, StartMain(a) \/ NextCommand(a)
  PROVE  AtOK' /\ RunOK' /\ \A b \in Apps : InCall(b)'
  <1>1. inst[a] # "run" /\ inst' = [inst EXCEPT ![a] = "run"] /\ call' = call /\ prog' = prog
    BY DEF StartMain, NextCommand, run_enclave
  <1>2. call[a] = Idle
    BY <1>1, NotCalling
  <1>3. prog \in {"digest", "gp"} /\ AtOK /\ inst \in [Apps -> {"none", "run", "panicked"}]
    BY ProgramFacts DEF Scripted, ProgOK, Safe, TypeOK
  <1>4. \E t \in Position : Placed(prog, t) /\ t.cmd # 0 /\ at' = [at EXCEPT ![a] = t]
    <2>1. CASE StartMain(a)
      <3> DEFINE t == [cmd |-> 1, step |-> 1]
      <3>1. at' = [at EXCEPT ![a] = t]
        BY <2>1 DEF StartMain
      <3>2. t \in Position /\ t.cmd = 1 /\ t.step = 1
        BY DEF Position
      <3> HIDE DEF t
      <3>3. Len(Main(prog)) \in {1, 2}
        BY <1>3, Scripts
      <3>4. Len(CallsOf(prog, t)) \in {3, 7}
        BY <1>3, <3>2, Scripts DEF Order
      <3>5. Placed(prog, t)
        BY <3>2, <3>3, <3>4, InScript
      <3>6. t.cmd # 0
        BY <3>2
      <3> QED BY <3>1, <3>2, <3>5, <3>6, Zenon
    <2>2. CASE NextCommand(a)
      <3> DEFINE t == [cmd |-> at[a].cmd + 1, step |-> 1]
      <3>1. at' = [at EXCEPT ![a] = t]
        BY <2>2 DEF NextCommand
      <3>2. prog = "digest" /\ at[a].cmd = 1
        BY <2>2, AtPlace DEF NextCommand, Scripted
      <3>3. t \in Position /\ t.cmd = 2 /\ t.step = 1
        BY <3>2 DEF Position
      <3> HIDE DEF t
      <3>4. Len(Main(prog)) = 2
        BY <3>2, Scripts
      <3>5. Len(CallsOf(prog, t)) = 4
        BY <3>2, <3>3, Scripts
      <3>6. Placed(prog, t)
        <4>1. Len(CallsOf(prog, t)) \in {3, 4, 7} /\ Len(Main(prog)) \in {1, 2}
          BY <3>4, <3>5
        <4>2. t.cmd \in {1, 2} /\ t.cmd <= Len(Main(prog))
          BY <3>3, <3>4
        <4> QED BY <3>3, <4>1, <4>2, InScript
      <3>7. t.cmd # 0
        BY <3>3
      <3> QED BY <3>1, <3>3, <3>6, <3>7, Zenon
    <2> QED BY <2>1, <2>2
  <1>5. PICK t \in Position : Placed(prog, t) /\ t.cmd # 0 /\ at' = [at EXCEPT ![a] = t]
    BY <1>4
  <1>6. AtOK' /\ at'[a] = t /\ \A b \in Apps \ {a} : at'[b] = at[b]
    BY <1>1, <1>3, <1>5, PlaceSet
  <1>7. RunOK'
    <2> SUFFICES ASSUME NEW b \in Apps, inst'[b] = "run" PROVE at'[b].cmd # 0
      BY DEF RunOK, InMain
    <2>1. CASE b = a
      BY <1>5, <1>6, <2>1
    <2>2. CASE b # a
      BY <1>1, <1>3, <1>6, <2>2 DEF Scripted, RunOK, InMain
    <2> QED BY <2>1, <2>2
  <1>8. Elsewhere(a) /\ InCall(a)'
    BY <1>1, <1>2, <1>3, <1>6 DEF Elsewhere, InCall
  <1> QED BY <1>6, <1>7, <1>8, CallsKept DEF Scripted

\* The process ends.
LEMMA EndScripted ==
  ASSUME Scripted, NEW a \in Apps, EndMain(a),
         \/ ExitsBetween(a)
         \/ LeaveInstance(a, "none")
  PROVE  AtOK' /\ RunOK' /\ GotOK' /\ \A b \in Apps : InCall(b)'
  <1>0. inst \in [Apps -> {"none", "run", "panicked"}] /\ call \in [Apps -> CallRec] /\ AtOK
    BY DEF Scripted, Safe, TypeOK
  <1>1. at' = [at EXCEPT ![a] = NotInMain] /\ prog' = prog
    BY DEF EndMain
  <1>2. NotInMain \in Position /\ Placed(prog, NotInMain)
    <2>1. prog \in {"digest", "gp"}
      BY ProgramFacts DEF Scripted, ProgOK
    <2> QED BY <2>1, Scripts DEF NotInMain, Position, Placed
  <1>3. AtOK' /\ at'[a] = NotInMain /\ \A b \in Apps \ {a} : at'[b] = at[b]
    BY <1>0, <1>1, <1>2, PlaceSet
  <1>4. /\ inst'[a] # "run" /\ call'[a] = Idle
        /\ \A b \in Apps \ {a} : inst'[b] = inst[b] /\ call'[b] = call[b]
    <2>1. CASE ExitsBetween(a)
      BY <2>1, NotCalling DEF ExitsBetween
    <2>2. CASE LeaveInstance(a, "none")
      BY <1>0, <2>2 DEF LeaveInstance
    <2> QED BY <2>1, <2>2
  <1>5. RunOK'
    BY <1>3, <1>4 DEF Scripted, RunOK, InMain
  <1>6. Elsewhere(a) /\ InCall(a)'
    BY <1>1, <1>3, <1>4 DEF Elsewhere, InCall
  <1>7. GotOK'
    <2>1. Unread \in [stored : BOOLEAN, count : 0..(BLK * MaxBlocks),
                      plain : Seq(Data \cup {Garbage})]
      BY SizeBounds DEF Unread
    <2>2. got' = [got EXCEPT ![a] = Unread]
      BY DEF EndMain
    <2> QED BY <2>1, <2>2 DEF Scripted, GotOK
  <1> QED BY <1>3, <1>5, <1>6, <1>7, CallsKept DEF Scripted

\* TEE_WriteObjectData and TEE_ReadObjectData up to their first ocall.
LEMMA BeginScripted ==
  ASSUME Scripted, NEW a \in Apps, UNCHANGED <<prog, at>>,
         \/ At(a, "write") /\ TEE_WriteObjectData(a, object, Saved)
         \/ At(a, "read") /\ TEE_ReadObjectData(a, object, Len(Saved))
  PROVE  AtOK' /\ RunOK' /\ \A b \in Apps : InCall(b)'
  <1>0. call \in [Apps -> CallRec] /\ Len(Saved) \in Nat /\ Len(Saved) # 0
    BY ProgramFacts DEF Scripted, Safe, TypeOK
  <1>1. inst' = inst /\ inst[a] = "run" /\ at[a].step <= Len(Calls(a))
    BY DEF TEE_WriteObjectData, TEE_ReadObjectData, At, Running
  <1>2. PICK c : call' = [call EXCEPT ![a] = c] /\ c.op = Calls(a)[at[a].step]
                 /\ c.count = Size
    <2>1. CASE At(a, "write") /\ TEE_WriteObjectData(a, object, Saved)
      <3>1. Saved # << >>
        BY <1>0
      <3>2. \E u : call' = [call EXCEPT ![a] = [op |-> "write", h |-> object, offset |-> 0,
                                               count |-> Size, buf |-> u]]
        BY <2>1, <3>1, Zenon DEF TEE_WriteObjectData, Size
      <3>3. PICK u : call' = [call EXCEPT ![a] = [op |-> "write", h |-> object, offset |-> 0,
                                                 count |-> Size, buf |-> u]]
        BY <3>2
      <3>4. Calls(a)[at[a].step] = "write"
        BY <2>1 DEF At
      <3> DEFINE d == [op |-> "write", h |-> object, offset |-> 0, count |-> Size, buf |-> u]
      <3>5. d.op = "write" /\ d.count = Size
        OBVIOUS
      <3> HIDE DEF d
      <3>6. call' = [call EXCEPT ![a] = d]
        BY <3>3 DEF d
      <3> QED BY <3>4, <3>5, <3>6
    <2>2. CASE At(a, "read") /\ TEE_ReadObjectData(a, object, Len(Saved))
      BY <1>0, <2>2 DEF TEE_ReadObjectData, At, Size
    <2> QED BY <2>1, <2>2
  <1>3. call'[a] = c /\ \A b \in Apps \ {a} : call'[b] = call[b]
    BY <1>0, <1>2
  <1>4. Elsewhere(a) /\ InCall(a)'
    BY <1>1, <1>2, <1>3 DEF Elsewhere, InCall, Calls
  <1>5. AtOK' /\ RunOK'
    BY <1>1 DEF Scripted, AtOK, RunOK, InMain
  <1> QED BY <1>4, <1>5, CallsKept DEF Scripted

\* A pass of a transfer loop that does not end it.
LEMMA PassScripted ==
  ASSUME Scripted, NEW a \in Apps, call[a] # Idle, UNCHANGED <<prog, at, inst>>,
         NEW n, NEW u, call' = [call EXCEPT ![a] = Moved(call[a], n, u)]
  PROVE  AtOK' /\ RunOK' /\ \A b \in Apps : InCall(b)'
  <1>0. call \in [Apps -> CallRec]
    BY DEF Scripted, Safe, TypeOK
  <1>1. call'[a].op = call[a].op /\ call'[a].count = call[a].count
        /\ \A b \in Apps \ {a} : call'[b] = call[b]
    BY <1>0 DEF Moved
  <1>2. Elsewhere(a) /\ InCall(a)'
    BY <1>1 DEF Elsewhere, InCall, Calls, Scripted
  <1>3. AtOK' /\ RunOK'
    BY DEF Scripted, AtOK, RunOK, InMain
  <1> QED BY <1>2, <1>3, CallsKept DEF Scripted

\* The pass that ends it.
LEMMA LastPassScripted ==
  ASSUME Scripted, NEW a \in Apps, call[a] # Idle, UNCHANGED <<prog, inst>>,
         Returns(a), call' = [call EXCEPT ![a] = Idle]
  PROVE  AtOK' /\ RunOK' /\ \A b \in Apps : InCall(b)'
  <1>0. call \in [Apps -> CallRec]
    BY DEF Scripted, Safe, TypeOK
  <1>1. InMain(a) /\ at[a].step <= Len(Calls(a))
    BY DEF Scripted, InCall, RunOK
  <1>2. PICK s : Goto(a, s) /\ (s = at[a].step + 1 \/ s = Len(Calls(a)) + 1)
    BY DEF Returns
  <1>3. /\ AtOK' /\ \A b \in Apps : InMain(b)' <=> InMain(b)
        /\ \A b \in Apps \ {a} : at'[b] = at[b]
    BY <1>1, <1>2, GoesOn, Zenon DEF Scripted
  <1>4. RunOK'
    BY <1>3 DEF Scripted, RunOK
  <1>5. Elsewhere(a) /\ InCall(a)'
    BY <1>0, <1>3 DEF Elsewhere, InCall
  <1> QED BY <1>3, <1>4, <1>5, CallsKept DEF Scripted

\* An instance ends while main goes on.
LEMMA LeaveScripted ==
  ASSUME Scripted, NEW a \in Apps, UNCHANGED <<prog, at>>,
         NEW how \in {"none", "panicked"}, LeaveInstance(a, how)
  PROVE  AtOK' /\ RunOK' /\ \A b \in Apps : InCall(b)'
  <1>0. inst \in [Apps -> {"none", "run", "panicked"}] /\ call \in [Apps -> CallRec]
    BY DEF Scripted, Safe, TypeOK
  <1>1. /\ inst'[a] # "run" /\ call'[a] = Idle
        /\ \A b \in Apps \ {a} : inst'[b] = inst[b] /\ call'[b] = call[b]
    BY <1>0 DEF LeaveInstance
  <1>2. AtOK' /\ RunOK'
    BY <1>1 DEF Scripted, AtOK, RunOK, InMain
  <1>3. Elsewhere(a) /\ InCall(a)'
    BY <1>1 DEF Elsewhere, InCall
  <1> QED BY <1>2, <1>3, CallsKept DEF Scripted

\* What got records when a read returns.
LEMMA GotType ==
  ASSUME Scripted, Safe', NEW a \in Apps, ReadPass(a)
  PROVE  GotOK'
  <1>1. CASE call'[a] # Idle
    BY <1>1 DEF ReadPass, Scripted, GotOK
  <1>2. CASE call'[a] = Idle
    <2> DEFINE c == call[a]
    <2>0. call \in [Apps -> CallRec] /\ ret \in [Apps -> RetRec] /\ ret' \in [Apps -> RetRec]
      BY DEF Scripted, Safe, TypeOK
    <2>1. c.op = "read" /\ c # Idle
      BY DEF ReadPass, ocall_read_file_full, Idle
    <2>2. c.offset \in Nat /\ c.offset <= c.count /\ c.count = Size
      BY <2>0, <2>1 DEF CallRec, Scripted, Safe, LoopInBounds, InCall
    <2>3. PICK n \in -1..CAP, m \in 0..1 :
            \/ ~LoopEnds(n) /\ call' = [call EXCEPT ![a] = Moved(c, n, c.buf \o
                                           UnitsRead(a, handle[a][c.h].desc, n))]
            \/ LoopEnds(n) /\ ReadReturns(a, n, m)
      BY DEF ReadPass, ocall_read_file_full
    <2>4. ReadReturns(a, n, m) /\ n <= 0
      <3>1. Moved(c, n, c.buf \o UnitsRead(a, handle[a][c.h].desc, n)) # Idle
        BY <2>1 DEF Moved, Idle
      <3> QED BY <1>2, <2>0, <2>3, <3>1 DEF LoopEnds
    <2>5. ret'[a].count = 0 \/ (ret'[a].count = LoopResult(c.offset, n) /\ ret'[a].count >= 0)
      <3>1. PICK res, cnt, d : /\ ret' = [ret EXCEPT ![a] = ReadReturned(res, Owner(a, c.h),
                                                                  c.count, cnt, d)]
                               /\ \/ cnt = 0
                                  \/ cnt = LoopResult(c.offset, n) /\ (cnt >= 0 \/ cnt > 0)
        BY <2>4, Zenon DEF ReadReturns, Return
      <3>2. ret'[a].count = cnt
        BY <2>0, <3>1 DEF ReadReturned
      <3>3. cnt > 0 => cnt = LoopResult(c.offset, n)
        BY <3>1
      <3>4. cnt = LoopResult(c.offset, n) => cnt \in Int
        BY <2>2, <2>3 DEF LoopResult
      <3> QED BY <3>1, <3>2, <3>3, <3>4
    <2>6. LoopResult(c.offset, n) = c.offset \/ LoopResult(c.offset, n) = n
      BY DEF LoopResult
    <2>7. ret'[a].count \in 0..(BLK * MaxBlocks)
      <3> DEFINE x == ret'[a].count
      <3>1. x = 0 \/ ((x = c.offset \/ x = n) /\ x >= 0)
        BY <2>5, <2>6
      <3> HIDE DEF x
      <3>2. x \in 0..(BLK * MaxBlocks)
        BY <2>2, <2>3, <2>4, <3>1, SizeBounds
      <3> QED BY <3>2 DEF x
    <2>8. ret'[a].data \in Seq(Data \cup {Garbage})
      BY <2>0 DEF RetRec
    <2> DEFINE st == ret'[a].res # "GENERIC" \/ ret'[a].count > 0
               r == [stored |-> st, count |-> ret'[a].count, plain |-> ret'[a].data]
    <2>9. got' = [got EXCEPT ![a] = r]
      BY <1>2 DEF ReadPass
    <2>10. st \in BOOLEAN
      OBVIOUS
    <2> HIDE DEF st
    <2>11. r \in [stored : BOOLEAN, count : 0..(BLK * MaxBlocks),
                  plain : Seq(Data \cup {Garbage})]
      BY <2>7, <2>8, <2>10
    <2> HIDE DEF r
    <2> QED BY <2>9, <2>11 DEF Scripted, GotOK
  <1> QED BY <1>1, <1>2

\* The rest of the types, which few actions touch.
OthersOK == GotOK /\ VerdictOK /\ HistoryOK

LEMMA OthersKept ==
  ASSUME OthersOK, UNCHANGED <<got, verdict, intruded, mains>>
  PROVE  OthersOK'
  BY DEF OthersOK, GotOK, VerdictOK, HistoryOK

\* What a comparison records.
LEMMA CompareTypes ==
  ASSUME Scripted, NEW a \in Apps, Compare(a)
  PROVE  OthersOK'
  <1>1. PICK n \in 0..(BLK * Len(Saved)), ok \in BOOLEAN :
           verdict' = [verdict EXCEPT ![a] =
                          [says |-> IF ok THEN "ok" ELSE "fails", compared |-> n]]
    BY DEF Compare
  <1>2. n \in 0..(BLK * MaxBlocks)
    BY SizeBounds DEF Size
  <1>3. VerdictOK'
    BY <1>1, <1>2 DEF Scripted, VerdictOK
  <1>4. GotOK' /\ HistoryOK'
    BY DEF Compare, Scripted, GotOK, HistoryOK
  <1> QED BY <1>3, <1>4 DEF OthersOK

LEMMA StepScripted == Scripted /\ [SampleNext]_allVars => Scripted'
  <1> SUFFICES ASSUME Scripted, [SampleNext]_allVars PROVE Scripted'
    OBVIOUS
  <1> DEFINE Goal == AtOK' /\ RunOK' /\ \A b \in Apps : InCall(b)'
  <1>1. Safe'
    BY SampleSafe DEF Scripted
  <1>2. ProgOK'
    <2>1. SampleNext => prog' = prog
      BY DEF SampleNext, StartMain, Killed, EndMain, Progress, NextCommand, MainReturns,
             CommandReturns, sampleVars, CreateObject, OpenObject, CloseObject, Compare,
             WriteObject, WritePass, ReadObject, ReadPass
    <2> QED BY <2>1 DEF Scripted, ProgOK, allVars, sampleVars
  <1>3. OthersOK
    BY DEF Scripted, OthersOK
  <1>4. CASE UNCHANGED allVars
    <2>1. Goal
      BY <1>4 DEF allVars, vars, sampleVars, Scripted, AtOK, RunOK, InCall, InMain, Calls
    <2>2. OthersOK'
      BY <1>3, <1>4, OthersKept DEF allVars, sampleVars
    <2> QED BY <1>1, <1>2, <2>1, <2>2 DEF Scripted, OthersOK
  <1>5. ASSUME NEW a \in Apps, StartMain(a) \/ Killed(a) \/ Progress(a)
        PROVE  Goal /\ OthersOK'
    <2>1. CASE StartMain(a) \/ NextCommand(a)
      <3>1. Goal
        BY <2>1, StartScripted
      <3>2. OthersOK'
        <4>1. CASE NextCommand(a)
          BY <1>3, <4>1, OthersKept DEF NextCommand
        <4>2. CASE StartMain(a)
          <5>1. NoVerdict \in [says : {"none", "ok", "fails"}, compared : 0..(BLK * MaxBlocks)]
            BY SizeBounds DEF NoVerdict
          <5>2. VerdictOK'
            BY <4>2, <5>1 DEF StartMain, Scripted, VerdictOK
          <5>3. mains' \in 0..MaxMains
            BY <4>2, SampleAssumption DEF StartMain, Scripted, HistoryOK
          <5> QED BY <4>2, <5>2, <5>3 DEF StartMain, Scripted, OthersOK, GotOK, HistoryOK
        <4> QED BY <2>1, <4>1, <4>2
      <3> QED BY <3>1, <3>2
    <2>2. CASE Killed(a) \/ MainReturns(a)
      <3>1. EndMain(a) /\ (ExitsBetween(a) \/ LeaveInstance(a, "none"))
        BY <2>2 DEF Killed, MainReturns, Crash, ExitsBetween
      <3>2. Goal /\ GotOK'
        BY <3>1, EndScripted
      <3> QED BY <3>1, <3>2 DEF EndMain, Scripted, OthersOK, VerdictOK, HistoryOK
    <2>3. CASE CommandReturns(a)
      <3>1. LeaveInstance(a, "none") /\ UNCHANGED sampleVars
        BY <2>3 DEF CommandReturns, EAPP_RETURN
      <3>2. Goal
        BY <3>1, LeaveScripted DEF sampleVars
      <3>3. OthersOK'
        BY <1>3, <3>1, OthersKept DEF sampleVars
      <3> QED BY <3>2, <3>3
    <2>4. CASE CreateObject(a) \/ OpenObject(a)
      <3>1. /\ InMain(a) /\ call[a] = Idle /\ at[a].step <= Len(Calls(a)) /\ Returns(a)
            /\ UNCHANGED <<prog, got, verdict, mains>>
        BY <2>4 DEF CreateObject, OpenObject, At, Running
      <3>2. UNCHANGED <<inst, call>>
        BY <2>4 DEF CreateObject, OpenObject, OpenPersistentObject, OpenNoMemory
      <3>3. Goal
        BY <3>1, <3>2, ReturnScripted DEF Returns
      <3>4. intruded' \in [Apps -> BOOLEAN]
        BY <2>4 DEF CreateObject, OpenObject, Scripted, HistoryOK
      <3> QED BY <3>1, <3>3, <3>4 DEF Scripted, OthersOK, GotOK, VerdictOK, HistoryOK
    <2>5. CASE WriteObject(a) \/ ReadObject(a)
      <3>1. /\ At(a, "write") \/ At(a, "read")
            /\ UNCHANGED <<prog, got, verdict, intruded, mains>>
        BY <2>5 DEF WriteObject, ReadObject
      <3>2. /\ InMain(a) /\ call[a] = Idle /\ at[a].step <= Len(Calls(a))
        BY <3>1 DEF At, Running
      <3>3. \/ At(a, "write") /\ TEE_WriteObjectData(a, object, Saved) /\ UNCHANGED at
            \/ At(a, "read") /\ TEE_ReadObjectData(a, object, Len(Saved)) /\ UNCHANGED at
            \/ WriteNoMemory(a, object) /\ Returns(a)
            \/ DataBadParameters(a) /\ Returns(a)
            \/ CloseNull(a) /\ UNCHANGED at
        BY <2>5 DEF WriteObject, ReadObject, Uninitialised
      <3>4. ASSUME \/ At(a, "write") /\ TEE_WriteObjectData(a, object, Saved) /\ UNCHANGED at
                   \/ At(a, "read") /\ TEE_ReadObjectData(a, object, Len(Saved)) /\ UNCHANGED at
            PROVE  Goal
        <4>1. UNCHANGED <<prog, at>>
          BY <3>1, <3>4
        <4>2. \/ At(a, "write") /\ TEE_WriteObjectData(a, object, Saved)
              \/ At(a, "read") /\ TEE_ReadObjectData(a, object, Len(Saved))
          BY <3>4
        <4> QED BY <4>1, <4>2, BeginScripted, Zenon
      <3>5. ASSUME (WriteNoMemory(a, object) \/ DataBadParameters(a)) /\ Returns(a) PROVE Goal
        <4>1. UNCHANGED <<inst, call>>
          BY <3>5 DEF WriteNoMemory, DataBadParameters
        <4>2. UNCHANGED <<prog, inst, call>>
          BY <3>1, <4>1
        <4>3. PICK s : Goto(a, s) /\ (s = at[a].step + 1 \/ s = Len(Calls(a)) + 1)
          BY <3>5 DEF Returns
        <4> QED BY <3>2, <4>2, <4>3, ReturnScripted, Zenon
      <3>6. ASSUME CloseNull(a) /\ UNCHANGED at PROVE Goal
        BY <3>1, <3>6, LeaveScripted DEF CloseNull, TEE_Panic
      <3>7. Goal
        BY <3>3, <3>4, <3>5, <3>6
      <3> QED BY <1>3, <3>1, <3>7, OthersKept
    <2>6. CASE WritePass(a)
      <3>1. ocall_write_file_full(a) /\ UNCHANGED <<prog, got, verdict, intruded, mains>>
        BY <2>6 DEF WritePass
      <3>2. call[a] # Idle /\ inst' = inst
        BY <3>1 DEF ocall_write_file_full, Idle
      <3>3. \/ \E n : call' = [call EXCEPT ![a] = Moved(call[a], n, call[a].buf)]
            \/ call' = [call EXCEPT ![a] = Idle]
        BY <3>1 DEF ocall_write_file_full
      <3>4. call \in [Apps -> CallRec]
        BY DEF Scripted, Safe, TypeOK
      <3>5. ASSUME \E n : call' = [call EXCEPT ![a] = Moved(call[a], n, call[a].buf)] PROVE Goal
        <4>1. PICK n : call' = [call EXCEPT ![a] = Moved(call[a], n, call[a].buf)]
          BY <3>5
        <4>2. call'[a] # Idle
          BY <3>1, <3>4, <4>1 DEF ocall_write_file_full, Moved, Idle
        <4>3. UNCHANGED at
          BY <2>6, <4>2 DEF WritePass
        <4>4. UNCHANGED <<prog, at, inst>>
          BY <3>1, <3>2, <4>3
        <4> QED BY <3>2, <4>1, <4>4, PassScripted, Zenon
      <3>6. ASSUME call' = [call EXCEPT ![a] = Idle] PROVE Goal
        <4>1. Returns(a)
          BY <2>6, <3>4, <3>6 DEF WritePass
        <4>2. UNCHANGED <<prog, inst>>
          BY <3>1, <3>2
        <4> QED BY <3>2, <3>6, <4>1, <4>2, LastPassScripted, Zenon
      <3> QED BY <1>3, <3>1, <3>3, <3>5, <3>6, OthersKept
    <2>7. CASE ReadPass(a)
      <3>1. ocall_read_file_full(a) /\ UNCHANGED <<prog, verdict, intruded, mains>>
        BY <2>7 DEF ReadPass
      <3>2. call[a] # Idle /\ inst' = inst
        BY <3>1 DEF ocall_read_file_full, Idle
      <3>3. \/ \E n, u : call' = [call EXCEPT ![a] = Moved(call[a], n, u)]
            \/ call' = [call EXCEPT ![a] = Idle]
        BY <3>1 DEF ocall_read_file_full
      <3>4. call \in [Apps -> CallRec]
        BY DEF Scripted, Safe, TypeOK
      <3>5. ASSUME \E n, u : call' = [call EXCEPT ![a] = Moved(call[a], n, u)] PROVE Goal
        <4>1. PICK n, u : call' = [call EXCEPT ![a] = Moved(call[a], n, u)]
          BY <3>5
        <4>2. call'[a] # Idle
          BY <3>1, <3>4, <4>1 DEF ocall_read_file_full, Moved, Idle
        <4>3. UNCHANGED at
          BY <2>7, <4>2 DEF ReadPass
        <4>4. UNCHANGED <<prog, at, inst>>
          BY <3>1, <3>2, <4>3
        <4> QED BY <3>2, <4>1, <4>4, PassScripted, Zenon
      <3>6. ASSUME call' = [call EXCEPT ![a] = Idle] PROVE Goal
        <4>1. Returns(a)
          BY <2>7, <3>4, <3>6 DEF ReadPass
        <4>2. UNCHANGED <<prog, inst>>
          BY <3>1, <3>2
        <4> QED BY <3>2, <3>6, <4>1, <4>2, LastPassScripted, Zenon
      <3>7. GotOK'
        BY <1>1, <2>7, GotType
      <3>8. VerdictOK' /\ HistoryOK'
        BY <3>1 DEF Scripted, VerdictOK, HistoryOK
      <3> QED BY <3>3, <3>5, <3>6, <3>7, <3>8 DEF OthersOK
    <2>8. CASE CloseObject(a)
      <3>1. /\ InMain(a) /\ call[a] = Idle /\ at[a].step <= Len(Calls(a))
            /\ Goto(a, at[a].step + 1) /\ UNCHANGED <<prog, got, verdict, intruded, mains>>
        BY <2>8 DEF CloseObject, At, Running
      <3>2. inst \in [Apps -> {"none", "run", "panicked"}] /\ call \in [Apps -> CallRec]
        BY DEF Scripted, Safe, TypeOK
      <3>3. call' = call /\ (inst' = inst \/ inst' = [inst EXCEPT ![a] = "panicked"])
        BY <2>8, <3>1, <3>2 DEF CloseObject, TEE_CloseObject, CloseNull, TEE_Panic,
                                LeaveInstance
      <3>4. /\ AtOK' /\ \A b \in Apps : InMain(b)' <=> InMain(b)
            /\ \A b \in Apps \ {a} : at'[b] = at[b]
        BY <3>1, GoesOn, Zenon DEF Scripted
      <3>5. \A b \in Apps \ {a} : inst'[b] = inst[b]
        BY <3>2, <3>3
      <3>6. RunOK'
        BY <3>2, <3>3, <3>4 DEF Scripted, RunOK
      <3>7. Elsewhere(a) /\ InCall(a)'
        BY <3>1, <3>3, <3>4, <3>5 DEF Elsewhere, InCall
      <3>8. Goal
        BY <3>4, <3>6, <3>7, CallsKept DEF Scripted
      <3> QED BY <1>3, <3>1, <3>8, OthersKept
    <2>9. CASE Compare(a)
      <3>1. /\ InMain(a) /\ call[a] = Idle /\ at[a].step <= Len(Calls(a))
            /\ Goto(a, at[a].step + 1) /\ UNCHANGED <<prog, inst, call>>
        BY <2>9 DEF Compare, At, Running, vars
      <3> QED BY <2>9, <3>1, ReturnScripted, CompareTypes
    <2> HIDE DEF Goal
    <2> QED BY <1>5, <2>1, <2>2, <2>3, <2>4, <2>5, <2>6, <2>7, <2>8, <2>9 DEF Progress
  <1>6. CASE SampleNext
    BY <1>1, <1>2, <1>5, <1>6 DEF SampleNext, Scripted, OthersOK
  <1> QED BY <1>4, <1>6

LEMMA InitScripted == SampleInit => Scripted
  <1> SUFFICES ASSUME SampleInit PROVE Scripted
    OBVIOUS
  <1>1. Safe /\ ProgOK
    BY InitSafe DEF SampleInit, ProgOK
  <1>2. NotInMain \in Position /\ Placed(prog, NotInMain)
    <2>1. prog \in {"digest", "gp"}
      BY <1>1, ProgramFacts DEF ProgOK
    <2> QED BY <2>1, Scripts DEF NotInMain, Position, Placed
  <1>3. AtOK /\ RunOK
    BY <1>2 DEF SampleInit, Init, AtOK, RunOK
  <1>4. Unread \in [stored : BOOLEAN, count : 0..(BLK * MaxBlocks),
                    plain : Seq(Data \cup {Garbage})]
    BY SizeBounds DEF Unread
  <1>5. NoVerdict \in [says : {"none", "ok", "fails"}, compared : 0..(BLK * MaxBlocks)]
    BY SizeBounds DEF NoVerdict
  <1>6. MaxMains \in Nat => 0 \in 0..MaxMains
    OBVIOUS
  <1>7. GotOK /\ VerdictOK
    BY <1>4, <1>5 DEF SampleInit, GotOK, VerdictOK
  <1>8. HistoryOK
    BY SampleAssumption DEF SampleInit, HistoryOK
  <1>9. \A a \in Apps : InCall(a)
    BY DEF SampleInit, Init, InCall
  <1> QED BY <1>1, <1>3, <1>7, <1>8, <1>9 DEF Scripted

\* The control state of the programs stays inside their scripts, an instance
\* runs only inside main, and what the sample keeps of a read and of a
\* comparison is bounded by the object, whatever calls fail.
THEOREM SampleTypes == SampleSpec => []SampleTypeOK
  <1>1. Scripted => SampleTypeOK
    BY SampleTypeParts DEF Scripted
  <1> QED BY <1>1, InitScripted, StepScripted, PTL DEF SampleSpec

(***************************************************************************)
(*                       While the host makes no error                     *)
(*                                                                         *)
(* Everything the programs write is Stream, the encryption of what they    *)
(* save from the IV of the key they share, and each unit of it always goes *)
(* to its own place in the file.  So whoever writes to the file, a process *)
(* never spoils what another has written; only an open that empties the    *)
(* file does, and intruded says so.  The invariant Tidy relates, for each  *)
(* process, its place w in the script to                                   *)
(*   Stage   its instance, and whether it has a live handle,               *)
(*   Owned   its descriptors: the handle's, and no other,                  *)
(*   Moving  its transfer: position, chaining value and buffer,            *)
(*   Kept    what it knows to be in the file,                              *)
(*   Heard   what it has read,                                             *)
(*   Said    what it has found.                                            *)
(* That a check without an intruder in between succeeds is the part with   *)
(* ~x; with one, the part with Small, which needs the object to fit one    *)
(* ocall: the file then is empty or complete at every moment.              *)
(***************************************************************************)
Key == <<TaOf[CHOOSE a \in Apps : TRUE], fname>>
Stream == Enc(Key, Saved)
F == file[FileOf[fname]]
Small == Size <= CAP
SameTo(u, n) == \A i \in 1..n : u[i] = Stream[i]

Stage(w, i, g, m) ==
    /\ i \in {"none", "run"}
    /\ w \in {1, 2, 3, 5, 6, 7} => i = "run"
    /\ g.st = "open" <=> w \in {2, 3, 5, 6}
    /\ w >= 2 => FileOf[fname] \in m

Owned(w, g, tab) ==
    /\ g.st = "open" =>
          /\ g.id = fname /\ g.desc \in Fds
          /\ g.mode = IF w <= 3 THEN "w" ELSE "r"
          /\ tab[g.desc].name = FileOf[fname] /\ tab[g.desc].mode = g.mode
    /\ \A fd \in Fds : tab[fd].name # NoFile => g.st = "open" /\ fd = g.desc

Moving(w, g, tab, c, x) ==
    /\ Whole(c.offset) /\ (Small => c.offset \in {0, Size})
    /\ w \in {2, 5} => tab[g.desc].pos = c.offset
    /\ (w = 5 \/ (w = 2 /\ c = Idle)) => g.prev = IV(Key)
    /\ c.op = "write" => c.buf = Stream
    /\ (c.op = "read" /\ (~x \/ Small)) => SameTo(c.buf, c.offset)

Stored(w, c) == IF w = 2 THEN c.offset ELSE IF w >= 3 THEN Size ELSE 0
Kept(w, c, x, f) == ~x => Stored(w, c) <= Len(f) /\ SameTo(f, Stored(w, c))

AllRead == [stored |-> TRUE, count |-> Size, plain |-> Saved]
NothingRead == [stored |-> TRUE, count |-> 0, plain |-> << >>]
Heard(w, x, r) ==
    w \in {6, 7} => /\ ~x => r = AllRead
                    /\ Small => r \in {AllRead, NothingRead}

Said(w, x, v, p) ==
    /\ w \in 1..7 => v = NoVerdict
    /\ (v.says # "none" /\ ~x) => v = [says |-> "ok", compared |-> Size]
    /\ (Small /\ p = "digest") => v.says # "fails"

FileGood(f) ==
    /\ Whole(Len(f)) /\ Len(f) <= Size
    /\ Small => Len(f) \in {0, Size} /\ SameTo(f, Len(f))

Orderly(a) ==
    /\ Stage(Spot(a), inst[a], handle[a][object], made)
    /\ Owned(Spot(a), handle[a][object], fdt[a])
    /\ Moving(Spot(a), handle[a][object], fdt[a], call[a], intruded[a])
    /\ Kept(Spot(a), call[a], intruded[a], F)
    /\ Heard(Spot(a), intruded[a], got[a])
    /\ Said(Spot(a), intruded[a], verdict[a], prog)

Tidy == FileGood(F) /\ \A a \in Apps : Orderly(a)

(***************************************************************************)
(*                      The processes that do not act                      *)
(***************************************************************************)
Silent(a) ==
    /\ prog' = prog
    /\ \A b \in Apps \ {a} :
          /\ at'[b] = at[b] /\ inst'[b] = inst[b] /\ handle'[b] = handle[b]
          /\ fdt'[b] = fdt[b] /\ call'[b] = call[b] /\ got'[b] = got[b]
          /\ verdict'[b] = verdict[b]

\* What was in its place in f still is in f2.
Grows(f, f2) ==
    Len(f) <= Len(f2) /\ \A i \in 1..Len(f) : f[i] = Stream[i] => f2[i] = Stream[i]

\* For each other process, a step has kept the file or is an intrusion.
Spares(a) ==
    \A b \in Apps \ {a} : intruded'[b] \/ (intruded'[b] = intruded[b] /\ Grows(F, F'))

LEMMA StoredType ==
  ASSUME Scripted, NEW a \in Apps
  PROVE  Stored(Spot(a), call[a]) \in Nat
  <1>1. call[a].offset \in Nat
    BY DEF Scripted, Safe, TypeOK, CallRec, Idle
  <1> QED BY <1>1, SizeBounds DEF Stored

LEMMA FileType ==
  ASSUME Scripted
  PROVE  F \in Seq(Unit) /\ Len(F) \in Nat
  BY ProgramFacts DEF F, Scripted, Safe, TypeOK

LEMMA KeptGrows ==
  ASSUME NEW w, NEW c, NEW x, NEW f, NEW f2, Kept(w, c, x, f), Grows(f, f2),
         Stored(w, c) \in Nat, Len(f) \in Nat, Len(f2) \in Nat
  PROVE  Kept(w, c, x, f2)
  BY DEF Kept, Grows, SameTo

LEMMA OthersOrderly ==
  ASSUME Scripted, Scripted', Tidy, NEW a \in Apps, Silent(a), Spares(a), made \subseteq made',
         NEW b \in Apps \ {a}
  PROVE  Orderly(b)'
  <1>1. /\ prog' = prog /\ at'[b] = at[b] /\ inst'[b] = inst[b] /\ handle'[b] = handle[b]
        /\ fdt'[b] = fdt[b] /\ call'[b] = call[b] /\ got'[b] = got[b]
        /\ verdict'[b] = verdict[b]
    BY DEF Silent
  <1>2. Orderly(b) /\ Spot(b)' = Spot(b)
    BY <1>1 DEF Tidy, Spot
  <1> DEFINE x == intruded'[b]
  <1>3. x \/ (x = intruded[b] /\ Grows(F, F'))
    BY DEF Spares
  <1> HIDE DEF x
  <1>4. Stage(Spot(b), inst[b], handle[b][object], made')
    BY <1>2 DEF Orderly, Stage
  <1>5. Owned(Spot(b), handle[b][object], fdt[b])
    BY <1>2 DEF Orderly
  <1>6. Moving(Spot(b), handle[b][object], fdt[b], call[b], x)
    BY <1>2, <1>3 DEF Orderly, Moving
  <1>7. Kept(Spot(b), call[b], x, F')
    <2>1. CASE x
      BY <2>1 DEF Kept
    <2>2. CASE x = intruded[b] /\ Grows(F, F')
      <3>1. Stored(Spot(b), call[b]) \in Nat /\ Len(F) \in Nat
        BY StoredType, FileType
      <3>2. Len(F') \in Nat
        BY ProgramFacts DEF F, Scripted, Safe, TypeOK
      <3> DEFINE f2 == F'
      <3>3. Kept(Spot(b), call[b], intruded[b], F)
        BY <1>2 DEF Orderly
      <3>4. Grows(F, f2) /\ Len(f2) \in Nat
        BY <2>2, <3>2
      <3> HIDE DEF f2
      <3>5. Kept(Spot(b), call[b], intruded[b], f2)
        BY <3>1, <3>3, <3>4, KeptGrows
      <3> QED BY <2>2, <3>5 DEF f2
    <2> QED BY <1>3, <2>1, <2>2
  <1>8. Heard(Spot(b), x, got[b])
    BY <1>2, <1>3 DEF Orderly, Heard
  <1>9. Said(Spot(b), x, verdict[b], prog)
    BY <1>2, <1>3 DEF Orderly, Said
  <1> QED BY <1>1, <1>2, <1>4, <1>5, <1>6, <1>7, <1>8, <1>9 DEF Orderly, x

LEMMA TidyStep ==
  ASSUME Scripted, Scripted', Tidy, NEW a \in Apps, Silent(a), Spares(a), made \subseteq made',
         FileGood(F)', Orderly(a)'
  PROVE  Tidy'
  <1>1. \A b \in Apps \ {a} : Orderly(b)'
    BY OthersOrderly
  <1> QED BY <1>1 DEF Tidy

\* A step that leaves the file system alone spares everybody.
LEMMA Spared ==
  ASSUME Scripted, Tidy, NEW a \in Apps, UNCHANGED <<made, file, intruded>>
  PROVE  Spares(a) /\ made \subseteq made' /\ FileGood(F)' /\ F' = F
  <1>1. F' = F
    BY DEF F
  <1>2. Grows(F, F)
    BY FileType DEF Grows
  <1>3. Len(F') = Len(F)
    BY <1>1
  <1> QED BY <1>1, <1>2, <1>3 DEF Spares, Tidy, FileGood, SameTo, Stream

(***************************************************************************)
(*                     The steps of the script, one by one                 *)
(***************************************************************************)

\* The place at which each call is made.
LEMMA AtCall ==
  ASSUME Scripted, NEW a \in Apps
  PROVE  /\ At(a, "create") => Spot(a) = 1
         /\ At(a, "write") => Spot(a) = 2
         /\ At(a, "close") => Spot(a) \in {3, 6}
         /\ At(a, "open") => Spot(a) = 4
         /\ At(a, "read") => Spot(a) = 5
         /\ At(a, "compare") => Spot(a) = 7
         /\ call[a].op = "write" => Spot(a) = 2
         /\ call[a].op = "read" => Spot(a) = 5
  <1>1. ASSUME NEW api, InMain(a), at[a].step <= Len(Calls(a)), Calls(a)[at[a].step] = api
        PROVE  Spot(a) \in 1..7 /\ Order[Spot(a)] = api
    BY <1>1, AtPlace DEF Scripted
  <1>2. ASSUME NEW api, At(a, api) PROVE Spot(a) \in 1..7 /\ Order[Spot(a)] = api
    BY <1>1, <1>2 DEF At
  <1>3. ASSUME call[a].op \in {"write", "read"}
        PROVE  Spot(a) \in 1..7 /\ Order[Spot(a)] = call[a].op
    <2>1. call[a] # Idle
      BY <1>3 DEF Idle
    <2>2. /\ inst[a] = "run" /\ at[a].step <= Len(Calls(a))
          /\ call[a].op = Calls(a)[at[a].step]
      BY <2>1 DEF Scripted, InCall
    <2>3. InMain(a)
      BY <2>2 DEF Scripted, RunOK
    <2> QED BY <1>1, <2>2, <2>3
  <1> QED BY <1>2, <1>3, Places

\* The next place of the script.
LEMMA Next1 ==
  ASSUME Scripted, NEW a \in Apps, InMain(a), at[a].step <= Len(Calls(a)),
         Goto(a, at[a].step + 1), prog' = prog
  PROVE  /\ Spot(a)' = Spot(a) + 1
         /\ \A b \in Apps \ {a} : at'[b] = at[b]
  BY GoesOn DEF Scripted

\* What the variables of one process are.
LEMMA Shapes ==
  ASSUME Scripted
  PROVE  /\ inst \in [Apps -> {"none", "run", "panicked"}]
         /\ handle \in [Apps -> [Handles -> HandleRec]]
         /\ call \in [Apps -> CallRec] /\ ret \in [Apps -> RetRec]
         /\ fdt \in [Apps -> [Fds -> OpenFile]] /\ file \in [Names -> Seq(Unit)]
         /\ at \in [Apps -> Position]
         /\ object \in Handles /\ FileOf[fname] \in Names
         /\ \E T : got \in [Apps -> T]
         /\ \E T : verdict \in [Apps -> T]
         /\ intruded \in [Apps -> BOOLEAN]
         /\ prog \in {"digest", "gp"}
  BY ProgramFacts DEF Scripted, Safe, TypeOK, AtOK, GotOK, VerdictOK, HistoryOK, ProgOK

\* main starts.
LEMMA StartTidy ==
  ASSUME Scripted, Scripted', Tidy, NEW a \in Apps, StartMain(a)
  PROVE  Tidy'
  <1>1. /\ ~InMain(a) /\ inst[a] # "run" /\ inst' = [inst EXCEPT ![a] = "run"]
        /\ UNCHANGED <<made, file, fdt, handle, call, prog, got, intruded>>
        /\ at' = [at EXCEPT ![a] = [cmd |-> 1, step |-> 1]]
        /\ verdict' = [verdict EXCEPT ![a] = NoVerdict]
    BY DEF StartMain, run_enclave, hostVars
  <1>2. Silent(a)
    BY <1>1, Shapes DEF Silent
  <1>3. Spot(a) = 0 /\ call[a] = Idle
    BY <1>1, AtPlace, NotCalling DEF Scripted
  <1>4. Spot(a)' = 1
    BY <1>1, Shapes DEF Spot, Where
  <1>5. Orderly(a)
    BY DEF Tidy
  <1>6. Stage(1, "run", handle[a][object], made)
    BY <1>3, <1>5 DEF Orderly, Stage
  <1>7. Owned(1, handle[a][object], fdt[a])
    BY <1>3, <1>5, <1>6 DEF Orderly, Owned, Stage
  <1>8. Moving(1, handle[a][object], fdt[a], call[a], intruded[a])
    BY <1>3, <1>5 DEF Orderly, Moving, Idle
  <1>9. Kept(1, call[a], intruded[a], F)
    BY FileType DEF Kept, Stored, SameTo
  <1>10. Heard(1, intruded[a], got[a])
    BY DEF Heard
  <1>11. Said(1, intruded[a], NoVerdict, prog)
    BY DEF Said, NoVerdict
  <1>12. inst'[a] = "run" /\ verdict'[a] = NoVerdict
    BY <1>1, Shapes
  <1>13. Spares(a) /\ made \subseteq made' /\ FileGood(F)' /\ F' = F
    BY <1>1, Spared
  <1>14. Orderly(a)'
    BY <1>1, <1>4, <1>6, <1>7, <1>8, <1>9, <1>10, <1>11, <1>12, <1>13 DEF Orderly
  <1> QED BY <1>2, <1>13, <1>14, TidyStep

\* The sample's main goes on to its second command.
LEMMA NextCommandTidy ==
  ASSUME Scripted, Scripted', Tidy, NEW a \in Apps, NextCommand(a)
  PROVE  Tidy'
  <1>1. /\ InMain(a) /\ inst[a] # "run" /\ inst' = [inst EXCEPT ![a] = "run"]
        /\ UNCHANGED <<made, file, fdt, handle, call, prog, got, verdict, intruded>>
        /\ at' = [at EXCEPT ![a] = [cmd |-> @.cmd + 1, step |-> 1]]
    BY DEF NextCommand, run_enclave, hostVars
  <1>2. Silent(a)
    BY <1>1, Shapes DEF Silent
  <1>3. Orderly(a)
    BY DEF Tidy
  <1>4. at[a].cmd = 1 /\ call[a] = Idle
    BY <1>1, AtPlace, NotCalling DEF Scripted, NextCommand
  <1>5. Spot(a) = 4
    <2>1. Spot(a) \in {4, 8}
      <3>1. Spot(a) \in 0..8 /\ Spot(a) # 0
        BY <1>1, AtPlace DEF Scripted
      <3>2. Spot(a) \notin {1, 2, 3, 5, 6, 7}
        BY <1>1, <1>3 DEF Orderly, Stage
      <3> QED BY <3>1, <3>2
    <2>2. Spot(a) = at[a].step /\ at[a].step \in 1..(Len(CallsOf(prog, at[a])) + 1)
      BY <1>4 DEF Spot, Where, Scripted, AtOK, Placed
    <2>3. prog = "digest"
      BY <1>1, AtPlace DEF Scripted, NextCommand
    <2>4. Len(CallsOf(prog, at[a])) = 3
      BY <1>4, <2>3, Scripts
    <2> QED BY <2>1, <2>2, <2>4
  <1>6. Spot(a)' = 4
    <2>1. at'[a] = [cmd |-> at[a].cmd + 1, step |-> 1]
      BY <1>1, Shapes
    <2> QED BY <1>4, <2>1 DEF Spot, Where
  <1>7. Stage(4, "run", handle[a][object], made)
    BY <1>3, <1>5 DEF Orderly, Stage
  <1>8. inst'[a] = "run"
    BY <1>1, Shapes
  <1>9. Spares(a) /\ made \subseteq made' /\ FileGood(F)' /\ F' = F
    BY <1>1, Spared
  <1>10. Orderly(a)'
    BY <1>1, <1>3, <1>5, <1>6, <1>7, <1>8, <1>9 DEF Orderly
  <1> QED BY <1>2, <1>9, <1>10, TidyStep

\* The process ends: its descriptors are closed, its handle is gone.
LEMMA EndTidy ==
  ASSUME Scripted, Scripted', Tidy, NEW a \in Apps, InMain(a), EndMain(a), ProcessExit(a),
         \/ ExitsBetween(a)
         \/ LeaveInstance(a, "none")
  PROVE  Tidy'
  <1>1. /\ at' = [at EXCEPT ![a] = NotInMain] /\ got' = [got EXCEPT ![a] = Unread]
        /\ UNCHANGED <<made, file, prog, verdict, intruded>>
        /\ fdt' = [fdt EXCEPT ![a] = [fd \in Fds |-> ClosedFd]]
    BY DEF EndMain, ProcessExit
  <1>2. Orderly(a)
    BY DEF Tidy
  <1>3. /\ inst'[a] = "none" /\ call'[a] = Idle /\ handle'[a][object].st # "open"
        /\ \A b \in Apps \ {a} : /\ inst'[b] = inst[b] /\ call'[b] = call[b]
                                 /\ handle'[b] = handle[b]
    <2>1. CASE ExitsBetween(a)
      <3>1. call[a] = Idle /\ UNCHANGED <<inst, handle, call>> /\ inst[a] # "run"
        BY <2>1, NotCalling DEF ExitsBetween
      <3>2. inst[a] = "none" /\ handle[a][object].st # "open"
        BY <1>2, <3>1 DEF Orderly, Stage
      <3> QED BY <3>1, <3>2
    <2>2. CASE LeaveInstance(a, "none")
      BY <2>2, Shapes DEF LeaveInstance, NULL
    <2> QED BY <2>1, <2>2
  <1>4. Silent(a)
    BY <1>1, <1>3, Shapes DEF Silent
  <1>5. Spot(a)' = 0 /\ fdt'[a] = [fd \in Fds |-> ClosedFd]
    BY <1>1, Shapes DEF Spot, Where, NotInMain
  <1> DEFINE g == handle'[a][object]
  <1>6. Stage(0, "none", g, made) /\ Owned(0, g, [fd \in Fds |-> ClosedFd])
    BY <1>3 DEF Stage, Owned, ClosedFd
  <1>7. Moving(0, g, [fd \in Fds |-> ClosedFd], Idle, intruded[a])
    BY <1>2, WholeQuotient DEF Orderly, Moving, Idle
  <1>8. Kept(0, Idle, intruded[a], F)
    BY FileType DEF Kept, Stored, SameTo
  <1>9. Heard(0, intruded[a], got'[a])
    BY DEF Heard
  <1>10. Said(0, intruded[a], verdict[a], prog)
    BY <1>2 DEF Orderly, Said
  <1> HIDE DEF g
  <1>11. Spares(a) /\ made \subseteq made' /\ FileGood(F)' /\ F' = F
    BY <1>1, Spared
  <1>12. Orderly(a)'
    BY <1>1, <1>3, <1>5, <1>6, <1>7, <1>8, <1>9, <1>10, <1>11 DEF Orderly, g
  <1> QED BY <1>4, <1>11, <1>12, TidyStep

\* The command returns: nothing is open any more.
LEMMA CommandTidy ==
  ASSUME Scripted, Scripted', Tidy, NEW a \in Apps, CommandReturns(a)
  PROVE  Tidy'
  <1>1. /\ InMain(a) /\ at[a].step = Len(Calls(a)) + 1 /\ LeaveInstance(a, "none")
        /\ UNCHANGED <<made, file, fdt, prog, at, got, verdict, intruded>>
        /\ call[a] = Idle
    BY DEF CommandReturns, EAPP_RETURN, Running, hostVars, sampleVars
  <1>2. Orderly(a) /\ Spot(a) \in {4, 8} /\ Spot(a)' = Spot(a)
    BY <1>1, AtPlace DEF Tidy, Scripted, Spot
  <1>3. /\ inst'[a] = "none" /\ call'[a] = Idle /\ handle'[a][object].st # "open"
        /\ \A b \in Apps \ {a} : /\ inst'[b] = inst[b] /\ call'[b] = call[b]
                                 /\ handle'[b] = handle[b]
    BY <1>1, Shapes DEF LeaveInstance, NULL
  <1>4. Silent(a)
    BY <1>1, <1>3 DEF Silent
  <1> DEFINE w == Spot(a)
             g == handle'[a][object]
  <1>5. handle[a][object].st # "open"
    BY <1>2 DEF Orderly, Stage
  <1>6. Stage(w, "none", g, made)
    BY <1>2, <1>3 DEF Orderly, Stage
  <1>7. Owned(w, g, fdt[a])
    BY <1>2, <1>3, <1>5 DEF Orderly, Owned
  <1>8. Moving(w, g, fdt[a], Idle, intruded[a])
    BY <1>1, <1>2, <1>3 DEF Orderly, Moving
  <1> HIDE DEF g
  <1>9. Spares(a) /\ made \subseteq made' /\ FileGood(F)' /\ F' = F
    BY <1>1, Spared
  <1>10. Orderly(a)'
    BY <1>1, <1>2, <1>3, <1>6, <1>7, <1>8, <1>9 DEF Orderly, g
  <1> QED BY <1>4, <1>9, <1>10, TidyStep

\* Comparing as much as has been read of what was saved finds no difference.
LEMMA Matches ==
  /\ memcmp(AllRead, Size)
  /\ memcmp(NothingRead, 0)
  <1>1. memcmp(AllRead, Size)
    BY SizeBounds DEF memcmp, AllRead, Size
  <1>2. BLK * Len(<< >>) = 0
    BY ObjectAssumption
  <1>3. \A j \in 1..Len(Saved) : ~((j - 1) * BLK < 0)
    <2> SUFFICES ASSUME NEW j \in 1..Len(Saved) PROVE (j - 1) * BLK >= 0
      BY ObjectAssumption, ProgramFacts
    <2>1. j - 1 \in Nat /\ BLK \in Nat
      BY ObjectAssumption, ProgramFacts
    <2> QED BY <2>1
  <1>4. memcmp(NothingRead, 0)
    BY <1>2, <1>3 DEF memcmp, NothingRead
  <1> QED BY <1>1, <1>4

\* The comparison.
LEMMA CompareTidy ==
  ASSUME Scripted, Scripted', Tidy, NEW a \in Apps, Compare(a)
  PROVE  Tidy'
  <1> DEFINE g == got[a]
             x == intruded[a]
  <1>1. /\ At(a, "compare") /\ Goto(a, at[a].step + 1)
        /\ UNCHANGED <<made, file, fdt, inst, handle, call, prog, got, intruded>>
    BY DEF Compare, vars
  <1>2. PICK n \in 0..(BLK * Len(Saved)), ok \in BOOLEAN :
          /\ n = CASE prog = "gp" -> BLK * Len(Saved)
                   [] prog = "digest" /\ g.stored -> g.count
                   [] OTHER -> n
          /\ (prog = "gp" \/ g.stored) => ok = memcmp(g, n)
          /\ verdict' = [verdict EXCEPT ![a] =
                            [says |-> IF ok THEN "ok" ELSE "fails", compared |-> n]]
    BY <1>1 DEF Compare
  <1>3. InMain(a) /\ at[a].step <= Len(Calls(a)) /\ call[a] = Idle
    BY <1>1 DEF At, Running
  <1>4. Orderly(a) /\ Spot(a) = 7
    BY <1>1, AtCall DEF Tidy
  <1>5. Spot(a)' = 8 /\ \A b \in Apps \ {a} : at'[b] = at[b]
    BY <1>1, <1>3, <1>4, Next1
  <1>6. Silent(a)
    BY <1>1, <1>2, <1>5, Shapes DEF Silent
  <1>7. ~x => g = AllRead
    BY <1>4 DEF Orderly, Heard
  <1>8. Small => g \in {AllRead, NothingRead}
    BY <1>4 DEF Orderly, Heard
  <1> HIDE DEF g
  <1> DEFINE v == [says |-> IF ok THEN "ok" ELSE "fails", compared |-> n]
  <1>9. prog \in {"digest", "gp"}
    BY Shapes
  <1>10. ASSUME g = AllRead PROVE n = Size /\ ok
    <2>1. g.stored /\ g.count = Size
      BY <1>10 DEF AllRead
    <2>2. n = Size
      BY <1>2, <1>9, <2>1 DEF Size
    <2> QED BY <1>2, <1>10, <2>1, <2>2, Matches
  <1>11. ASSUME g = NothingRead, prog = "digest" PROVE ok
    <2>1. g.stored /\ g.count = 0
      BY <1>11 DEF NothingRead
    <2>2. n = 0
      BY <1>2, <1>11, <2>1
    <2> QED BY <1>2, <1>11, <2>1, <2>2, Matches
  <1>12. Said(8, x, v, prog)
    <2>1. ok => v = [says |-> "ok", compared |-> n]
      OBVIOUS
    <2>2. ok => v.says # "fails"
      OBVIOUS
    <2> HIDE DEF v
    <2> QED BY <1>7, <1>8, <1>10, <1>11, <2>1, <2>2 DEF Said
  <1>13. verdict'[a] = v
    BY <1>2, Shapes
  <1> HIDE DEF v
  <1>14. Stage(8, inst[a], handle[a][object], made)
    BY <1>4 DEF Orderly, Stage
  <1>15. handle[a][object].st # "open"
    BY <1>4 DEF Orderly, Stage
  <1>16. Owned(8, handle[a][object], fdt[a])
    BY <1>4, <1>15 DEF Orderly, Owned
  <1>17. Moving(8, handle[a][object], fdt[a], call[a], intruded[a])
    BY <1>4 DEF Orderly, Moving
  <1>18. Kept(8, call[a], intruded[a], F)
    BY <1>4 DEF Orderly, Kept, Stored
  <1>19. Heard(8, intruded[a], got[a])
    BY DEF Heard
  <1>20. Spares(a) /\ made \subseteq made' /\ FileGood(F)' /\ F' = F
    BY <1>1, Spared
  <1>21. Orderly(a)'
    BY <1>1, <1>5, <1>12, <1>13, <1>14, <1>16, <1>17, <1>18, <1>19, <1>20 DEF Orderly
  <1> QED BY <1>6, <1>20, <1>21, TidyStep

(***************************************************************************)
(*                  The API calls, when the host makes no error            *)
(***************************************************************************)
NoError == faults = 0 /\ faults' = 0

\* No fault happens in a step that counts none.
LEMMA NoFault ==
  ASSUME NoError, NEW k \in Int, Faults(k)
  PROVE  k = 0
  BY DEF NoError, Faults

\* A live handle's descriptor is open on the program's file.
LEMMA OwnFd ==
  ASSUME Scripted, NEW a \in Apps, Orderly(a), Spot(a) \in {2, 3, 5, 6}
  PROVE  LET g == handle[a][object]
             o == fdt[a][g.desc]
         IN /\ Live(a, object) /\ g.desc \in Fds /\ IsOpen(a, g.desc)
            /\ o.name = FileOf[fname] /\ o.mode = g.mode /\ g.id = fname
            /\ g.mode = (IF Spot(a) <= 3 THEN "w" ELSE "r")
            /\ \A fd \in Fds : IsOpen(a, fd) => fd = g.desc
            /\ o \in OpenFile /\ g \in HandleRec
  <1>1. handle[a][object].st = "open" /\ Owned(Spot(a), handle[a][object], fdt[a])
    BY DEF Orderly, Stage
  <1>2. FileOf[fname] # NoFile
    BY ProgramFacts, HostAssumption
  <1> QED BY <1>1, <1>2, Shapes DEF Owned, Live, IsOpen

\* TEE_CloseObject.
LEMMA CloseTidy ==
  ASSUME Scripted, Scripted', Tidy, NoError, NEW a \in Apps, CloseObject(a)
  PROVE  Tidy'
  <1> DEFINE g == handle[a][object]
             w == Spot(a)
  <1>1. /\ At(a, "close") /\ Goto(a, at[a].step + 1)
        /\ UNCHANGED <<prog, got, verdict, intruded>>
    BY DEF CloseObject
  <1>2. InMain(a) /\ at[a].step <= Len(Calls(a)) /\ call[a] = Idle
    BY <1>1 DEF At, Running
  <1>3. Orderly(a) /\ w \in {3, 6}
    BY <1>1, AtCall DEF Tidy
  <1>4. Spot(a)' = w + 1 /\ \A b \in Apps \ {a} : at'[b] = at[b]
    BY <1>1, <1>2, Next1
  <1>5. Live(a, object) /\ IsOpen(a, g.desc) /\ g.desc \in Fds
        /\ \A fd \in Fds : IsOpen(a, fd) => fd = g.desc
    BY <1>3, OwnFd
  <1>6. /\ UNCHANGED <<made, file, inst, call>>
        /\ fdt' = [fdt EXCEPT ![a][g.desc] = ClosedFd]
        /\ handle' = [handle EXCEPT ![a][object] = Closed(g.desc)]
    <2>1. PICK rv \in {0, -1}, f \in 0..1 :
            /\ ocall_close_file(a, g.desc, rv, f)
            /\ Faults(f)
            /\ \/ rv # 0 /\ TEE_Panic(a)
               \/ /\ rv = 0
                  /\ handle' = [handle EXCEPT ![a][object] = Closed(g.desc)]
                  /\ UNCHANGED <<inst, call>>
      BY <1>5 DEF CloseObject, TEE_CloseObject
    <2>2. f = 0
      BY <2>1, NoFault
    <2> QED BY <1>5, <2>1, <2>2 DEF ocall_close_file
  <1>7. /\ \A b \in Apps \ {a} : handle'[b] = handle[b] /\ fdt'[b] = fdt[b]
        /\ handle'[a][object] = Closed(g.desc)
        /\ \A fd \in Fds : fdt'[a][fd] = IF fd = g.desc THEN ClosedFd ELSE fdt[a][fd]
    BY <1>5, <1>6, Shapes
  <1>8. Silent(a)
    BY <1>1, <1>4, <1>6, <1>7 DEF Silent
  <1> DEFINE g2 == handle'[a][object]
             tab == fdt'[a]
  <1>9. g2.st # "open"
    BY <1>7 DEF Closed
  <1>10. \A fd \in Fds : tab[fd].name = NoFile
    BY <1>5, <1>7 DEF ClosedFd, IsOpen
  <1> HIDE DEF g, g2, tab
  <1>11. Stage(w + 1, inst[a], g2, made)
    BY <1>3, <1>9 DEF Orderly, Stage
  <1>12. Owned(w + 1, g2, tab)
    BY <1>9, <1>10 DEF Owned
  <1>13. Moving(w + 1, g2, tab, call[a], intruded[a])
    BY <1>2, <1>3 DEF Orderly, Moving
  <1>14. Kept(w + 1, call[a], intruded[a], F)
    BY <1>3 DEF Orderly, Kept, Stored
  <1>15. Heard(w + 1, intruded[a], got[a]) /\ Said(w + 1, intruded[a], verdict[a], prog)
    BY <1>3 DEF Orderly, Heard, Said
  <1>16. Spares(a) /\ made \subseteq made' /\ FileGood(F)' /\ F' = F
    BY <1>1, <1>6, Spared
  <1>17. Orderly(a)'
    BY <1>1, <1>4, <1>6, <1>11, <1>12, <1>13, <1>14, <1>15, <1>16 DEF Orderly, g2, tab
  <1> QED BY <1>8, <1>16, <1>17, TidyStep

(***************************************************************************)
(* TEE_CreatePersistentObject and TEE_OpenPersistentObject.                *)
(***************************************************************************)
LEMMA KeyIs == \A a \in Apps : <<TaOf[a], fname>> = Key
  <1> SUFFICES ASSUME NEW a \in Apps PROVE TaOf[a] = TaOf[CHOOSE b \in Apps : TRUE]
    BY DEF Key
  <1>1. (CHOOSE b \in Apps : TRUE) \in Apps
    OBVIOUS
  <1> QED BY <1>1, SampleAssumption

\* The handle and the open file of a successful open.
Opened(desc, m) ==
    [st |-> "open", id |-> fname, desc |-> desc, mode |-> m, prev |-> IV(Key)]
OpenedFd(m) == [name |-> FileOf[fname], pos |-> 0, mode |-> m]

OpenDone(a, desc, m) ==
    /\ desc \in Fds
    /\ made' = made \cup {FileOf[fname]}
    /\ file' = IF m = "w" THEN [file EXCEPT ![FileOf[fname]] = << >>] ELSE file
    /\ fdt' = [fdt EXCEPT ![a][desc] = OpenedFd(m)]
    /\ handle' = [handle EXCEPT ![a][object] = Opened(desc, m)]
    /\ ret' = [ret EXCEPT ![a] = Returned("SUCCESS")]
    /\ UNCHANGED <<inst, call>>

\* An open of the script succeeds: a descriptor is free, as nothing is open.
LEMMA OpenSucceeds ==
  ASSUME Scripted, NoError, NEW a \in Apps, Orderly(a), Spot(a) \in {1, 4},
         NEW flags, NEW ocreat \in BOOLEAN,
         (flags = ForWriting /\ ocreat) \/ (flags = ForReading /\ ~ocreat /\ Spot(a) = 4),
         OpenPersistentObject(a, fname, flags, ocreat) \/ OpenNoMemory(a, flags)
  PROVE  \E desc : OpenDone(a, desc, IF flags.write THEN "w" ELSE "r")
  <1> DEFINE of == flags2flags(flags, ocreat)
             m == IF flags.write THEN "w" ELSE "r"
  <1>1. /\ of.valid /\ (of.creat <=> ocreat) /\ of.mode = m
        /\ of.trunc <=> m = "w"
    <2>1. CASE flags = ForWriting
      BY <2>1, Zenon DEF flags2flags, ForWriting
    <2>2. CASE flags = ForReading
      BY <2>2, Zenon DEF flags2flags, ForReading
    <2> QED BY <2>1, <2>2
  <1>2. FileOf[fname] \in made \/ of.creat
    BY <1>1 DEF Orderly, Stage
  <1>3. FreeFds(a) = Fds /\ 0 \in Fds
    BY HostAssumption DEF Orderly, Stage, Owned, FreeFds, Fds
  <1>4. CanOpen(a, FileOf[fname], of)
    BY <1>1, <1>2, <1>3 DEF CanOpen
  <1> HIDE DEF of
  <1>5. ~OpenNoMemory(a, flags)
    BY NoFault DEF OpenNoMemory
  <1>6. PICK desc \in Fds \cup {-1}, f \in 0..1, k \in 0..1 :
          /\ Faults(f + k)
          /\ ocall_open_file(a, FileOf[fname], of, desc, f)
          /\ \/ desc < 0 /\ k = 0 /\ OpenFails(a, "ACCESS_DENIED")
             \/ desc >= 0 /\ k = 1 /\ OpenFails(a, "SECURITY")
             \/ /\ desc >= 0 /\ k = 0
                /\ \E h \in Handles :
                   handle' = [handle EXCEPT ![a][h] =
                      [st |-> "open", id |-> fname, desc |-> desc, mode |-> m,
                       prev |-> IV(set_object_key(a, fname))]]
                /\ Return(a, Returned("SUCCESS"))
    BY <1>5, Zenon DEF OpenPersistentObject, of
  <1>7. f = 0 /\ k = 0
    <2>1. f + k = 0
      BY <1>6, NoFault
    <2> QED BY <1>6, <2>1
  <1>8. /\ desc \in Fds
        /\ made' = made \cup {FileOf[fname]}
        /\ file' = IF of.trunc THEN [file EXCEPT ![FileOf[fname]] = << >>] ELSE file
        /\ fdt' = [fdt EXCEPT ![a][desc] = [name |-> FileOf[fname], pos |-> 0, mode |-> of.mode]]
    BY <1>3, <1>4, <1>6, <1>7 DEF ocall_open_file, LowestFree
  <1>9. desc >= 0 /\ ~(desc < 0)
    BY <1>8, HostAssumption DEF Fds
  <1>10. /\ handle' = [handle EXCEPT ![a][object] = Opened(desc, m)]
         /\ ret' = [ret EXCEPT ![a] = Returned("SUCCESS")]
    <2>1. set_object_key(a, fname) = Key
      BY KeyIs DEF set_object_key
    <2>2. PICK h \in Handles :
            handle' = [handle EXCEPT ![a][h] =
                      [st |-> "open", id |-> fname, desc |-> desc, mode |-> m, prev |-> IV(Key)]]
      BY <1>6, <1>7, <1>9, <2>1
    <2>3. h = object
      BY ProgramFacts
    <2> QED BY <1>6, <1>7, <1>9, <2>2, <2>3 DEF Opened, Return
  <1>11. UNCHANGED <<inst, call>>
    BY <1>5 DEF OpenPersistentObject
  <1> HIDE DEF m
  <1>12. OpenDone(a, desc, m)
    BY <1>1, <1>8, <1>10, <1>11 DEF OpenDone, OpenedFd
  <1> QED BY <1>12 DEF m

\* What process a looks like after an open.
LEMMA OpenShows ==
  ASSUME Scripted, NEW a \in Apps, NEW desc, NEW m, OpenDone(a, desc, m)
  PROVE  /\ ret'[a].res = "SUCCESS" /\ handle'[a][object] = Opened(desc, m)
         /\ \A fd \in Fds : fdt'[a][fd] = IF fd = desc THEN OpenedFd(m) ELSE fdt[a][fd]
         /\ \A b \in Apps \ {a} : handle'[b] = handle[b] /\ fdt'[b] = fdt[b]
         /\ made \subseteq made' /\ FileOf[fname] \in made'
         /\ F' = IF m = "w" THEN << >> ELSE F
  BY Shapes DEF OpenDone, Returned, F

\* The create: an intrusion for the others, a fresh start for this process.
LEMMA CreateTidy ==
  ASSUME Scripted, Scripted', Tidy, NoError, NEW a \in Apps, CreateObject(a)
  PROVE  Tidy'
  <1>1. /\ At(a, "create") /\ Returns(a) /\ UNCHANGED <<prog, got, verdict>>
        /\ OpenPersistentObject(a, fname, ForWriting, TRUE) \/ OpenNoMemory(a, ForWriting)
        /\ intruded' = IF ret'[a].res \in {"SUCCESS", "SECURITY"}
                       THEN [b \in Apps |-> b # a] ELSE intruded
    BY DEF CreateObject
  <1>2. InMain(a) /\ at[a].step <= Len(Calls(a)) /\ call[a] = Idle
    BY <1>1 DEF At, Running
  <1>3. Orderly(a) /\ Spot(a) = 1
    BY <1>1, AtCall DEF Tidy
  <1>4. PICK desc : OpenDone(a, desc, "w")
    <2>1. ForWriting.write
      BY DEF ForWriting
    <2> QED BY <1>1, <1>3, <2>1, OpenSucceeds
  <1> DEFINE g == Opened(desc, "w")
             tab == fdt'[a]
  <1>5. /\ ret'[a].res = "SUCCESS" /\ handle'[a][object] = g
        /\ \A fd \in Fds : tab[fd] = IF fd = desc THEN OpenedFd("w") ELSE fdt[a][fd]
        /\ \A b \in Apps \ {a} : handle'[b] = handle[b] /\ fdt'[b] = fdt[b]
        /\ made \subseteq made' /\ FileOf[fname] \in made'
        /\ F' = << >> /\ desc \in Fds /\ UNCHANGED <<inst, call>>
    <2>1. /\ ret'[a].res = "SUCCESS" /\ handle'[a][object] = Opened(desc, "w")
          /\ \A fd \in Fds : fdt'[a][fd] = IF fd = desc THEN OpenedFd("w") ELSE fdt[a][fd]
          /\ \A b \in Apps \ {a} : handle'[b] = handle[b] /\ fdt'[b] = fdt[b]
          /\ made \subseteq made' /\ FileOf[fname] \in made'
          /\ F' = IF "w" = "w" THEN << >> ELSE F
      <3>1. OpenDone(a, desc, "w")
        BY <1>4
      <3> QED BY <3>1, OpenShows
    <2>2. desc \in Fds /\ UNCHANGED <<inst, call>>
          /\ file' = IF "w" = "w" THEN [file EXCEPT ![FileOf[fname]] = << >>] ELSE file
      BY <1>4, Zenon DEF OpenDone
    <2> QED BY <2>1, <2>2
  <1>6. Spot(a)' = 2 /\ \A b \in Apps \ {a} : at'[b] = at[b]
    <2>1. Goto(a, at[a].step + 1)
      BY <1>1, <1>5 DEF Returns, GP_ASSERT
    <2> QED BY <1>1, <1>2, <1>3, <2>1, Next1
  <1>7. Silent(a)
    BY <1>1, <1>5, <1>6 DEF Silent
  <1>8. \A b \in Apps : intruded'[b] = (b # a)
    BY <1>1, <1>5
  <1>9. Spares(a)
    BY <1>8 DEF Spares
  <1>10. FileGood(F)'
    <2>1. FileGood(<< >>)
      BY SizeBounds, WholeQuotient DEF FileGood, SameTo
    <2> QED BY <1>5, <2>1 DEF FileGood, SameTo, Stream
  <1>11. inst[a] = "run" /\ \A fd \in Fds : fdt[a][fd].name = NoFile
    BY <1>3 DEF Orderly, Stage, Owned
  <1>12. /\ g.st = "open" /\ g.id = fname /\ g.desc = desc /\ g.mode = "w" /\ g.prev = IV(Key)
         /\ OpenedFd("w").name = FileOf[fname] /\ OpenedFd("w").mode = "w"
         /\ OpenedFd("w").pos = 0
    BY DEF Opened, OpenedFd
  <1>13. Idle.offset = 0 /\ Idle.op = "idle" /\ Whole(0)
    BY WholeQuotient DEF Idle
  <1> HIDE DEF g, tab
  <1>14. Stage(2, inst[a], g, made')
    BY <1>5, <1>11, <1>12 DEF Stage
  <1>15. Owned(2, g, tab)
    BY <1>5, <1>11, <1>12 DEF Owned
  <1>16. Moving(2, g, tab, Idle, FALSE)
    BY <1>5, <1>12, <1>13 DEF Moving
  <1>17. Kept(2, Idle, FALSE, << >>)
    BY <1>13 DEF Kept, Stored, SameTo
  <1>18. Said(2, FALSE, verdict[a], prog)
    BY <1>3 DEF Orderly, Said, NoVerdict
  <1>19. Heard(2, FALSE, got[a])
    BY DEF Heard
  <1>20. intruded'[a] = FALSE
    BY <1>8
  <1>21. Orderly(a)'
    BY <1>1, <1>2, <1>5, <1>6, <1>14, <1>15, <1>16, <1>17, <1>18, <1>19, <1>20 DEF Orderly, tab
  <1> QED BY <1>5, <1>7, <1>9, <1>10, <1>21, TidyStep

\* The open for reading.
LEMMA OpenTidy ==
  ASSUME Scripted, Scripted', Tidy, NoError, NEW a \in Apps, OpenObject(a)
  PROVE  Tidy'
  <1>1. /\ At(a, "open") /\ Returns(a) /\ UNCHANGED <<prog, got, verdict, intruded>>
        /\ OpenPersistentObject(a, fname, ForReading, FALSE) \/ OpenNoMemory(a, ForReading)
    BY DEF OpenObject
  <1>2. InMain(a) /\ at[a].step <= Len(Calls(a)) /\ call[a] = Idle
    BY <1>1 DEF At, Running
  <1>3. Orderly(a) /\ Spot(a) = 4
    BY <1>1, AtCall DEF Tidy
  <1>4. PICK desc : OpenDone(a, desc, "r")
    <2>1. ~ForReading.write
      BY DEF ForReading
    <2> QED BY <1>1, <1>3, <2>1, OpenSucceeds
  <1> DEFINE g == Opened(desc, "r")
             tab == fdt'[a]
  <1>5. /\ ret'[a].res = "SUCCESS" /\ handle'[a][object] = g
        /\ \A fd \in Fds : tab[fd] = IF fd = desc THEN OpenedFd("r") ELSE fdt[a][fd]
        /\ \A b \in Apps \ {a} : handle'[b] = handle[b] /\ fdt'[b] = fdt[b]
        /\ made \subseteq made' /\ FileOf[fname] \in made'
        /\ F' = F /\ file' = file /\ desc \in Fds /\ UNCHANGED <<inst, call>>
    <2>1. /\ ret'[a].res = "SUCCESS" /\ handle'[a][object] = Opened(desc, "r")
          /\ \A fd \in Fds : fdt'[a][fd] = IF fd = desc THEN OpenedFd("r") ELSE fdt[a][fd]
          /\ \A b \in Apps \ {a} : handle'[b] = handle[b] /\ fdt'[b] = fdt[b]
          /\ made \subseteq made' /\ FileOf[fname] \in made'
          /\ F' = IF "r" = "w" THEN << >> ELSE F
      <3>1. OpenDone(a, desc, "r")
        BY <1>4
      <3> QED BY <3>1, OpenShows
    <2>2. desc \in Fds /\ UNCHANGED <<inst, call>>
          /\ file' = IF "r" = "w" THEN [file EXCEPT ![FileOf[fname]] = << >>] ELSE file
      BY <1>4, Zenon DEF OpenDone
    <2> QED BY <2>1, <2>2
  <1>6. Spot(a)' = 5 /\ \A b \in Apps \ {a} : at'[b] = at[b]
    <2>1. Goto(a, at[a].step + 1)
      BY <1>1, <1>5 DEF Returns, GP_ASSERT
    <2> QED BY <1>1, <1>2, <1>3, <2>1, Next1
  <1>7. Silent(a)
    BY <1>1, <1>5, <1>6 DEF Silent
  <1>8. Grows(F, F)
    BY FileType DEF Grows
  <1>9. Spares(a)
    BY <1>1, <1>5, <1>8 DEF Spares
  <1>10. FileGood(F)'
    BY <1>5 DEF Tidy, FileGood, SameTo, Stream
  <1>11. inst[a] = "run" /\ \A fd \in Fds : fdt[a][fd].name = NoFile
    BY <1>3, <1>1 DEF Orderly, Stage, Owned, At, Running
  <1>12. /\ g.st = "open" /\ g.id = fname /\ g.desc = desc /\ g.mode = "r" /\ g.prev = IV(Key)
         /\ OpenedFd("r").name = FileOf[fname] /\ OpenedFd("r").mode = "r"
         /\ OpenedFd("r").pos = 0
    BY DEF Opened, OpenedFd
  <1>13. Idle.offset = 0 /\ Idle.op = "idle" /\ Whole(0)
    BY WholeQuotient DEF Idle
  <1> HIDE DEF g, tab
  <1>14. Stage(5, inst[a], g, made')
    BY <1>5, <1>11, <1>12 DEF Stage
  <1>15. Owned(5, g, tab)
    BY <1>5, <1>11, <1>12 DEF Owned
  <1>16. Moving(5, g, tab, Idle, intruded[a])
    BY <1>5, <1>12, <1>13 DEF Moving
  <1>17. Kept(5, Idle, intruded[a], F)
    BY <1>2, <1>3 DEF Orderly, Kept, Stored
  <1>18. Said(5, intruded[a], verdict[a], prog)
    BY <1>3 DEF Orderly, Said
  <1>19. Heard(5, intruded[a], got[a])
    BY DEF Heard
  <1>20. Orderly(a)'
    BY <1>1, <1>2, <1>5, <1>6, <1>14, <1>15, <1>16, <1>17, <1>18, <1>19 DEF Orderly, tab
  <1> QED BY <1>5, <1>7, <1>9, <1>10, <1>20, TidyStep

(***************************************************************************)
(* TEE_WriteObjectData: the start of the call, and a pass of its loop.     *)
(***************************************************************************)
Writing == [op |-> "write", h |-> object, offset |-> 0, count |-> Size, buf |-> Stream]

LEMMA WriteStartTidy ==
  ASSUME Scripted, Scripted', Tidy, NoError, NEW a \in Apps, WriteObject(a)
  PROVE  Tidy'
  <1> DEFINE g == handle[a][object]
             g2 == Chained(g, [key |-> Key, chain |-> << >> \o Saved])
  <1>1. At(a, "write") /\ UNCHANGED <<prog, got, verdict, intruded>>
    BY DEF WriteObject
  <1>2. call[a] = Idle /\ inst[a] = "run"
    BY <1>1 DEF At, Running
  <1>3. Orderly(a) /\ Spot(a) = 2
    BY <1>1, AtCall DEF Tidy
  <1>4. Live(a, object) /\ g.id = fname /\ g.mode = "w" /\ g.prev = IV(Key)
    BY <1>2, <1>3, OwnFd DEF Orderly, Moving
  <1>5. ~WriteNoMemory(a, object)
    BY NoFault DEF WriteNoMemory
  <1>6. TEE_WriteObjectData(a, object, Saved) /\ UNCHANGED at
    BY <1>4, <1>5 DEF WriteObject, Uninitialised
  <1>7. KeyOf(a, object) = Key
    BY <1>4, KeyIs DEF KeyOf, set_object_key
  <1>8. g.prev.key = Key /\ g.prev.chain = << >> /\ Saved # << >>
    BY <1>4, ProgramFacts DEF IV
  <1>9. handle' = [handle EXCEPT ![a][object] = g2]
    BY <1>4, <1>6, <1>7, <1>8 DEF TEE_WriteObjectData
  <1>10. call' = [call EXCEPT ![a] = Writing]
    BY <1>4, <1>6, <1>7, <1>8 DEF TEE_WriteObjectData, Writing, Stream, Enc, Size
  <1>11. UNCHANGED <<made, file, fdt, faults, inst>>
    BY <1>6 DEF TEE_WriteObjectData, hostVars
  <1>12. /\ g2.st = g.st /\ g2.id = g.id /\ g2.desc = g.desc /\ g2.mode = g.mode
    BY DEF Chained
  <1>13. /\ Writing.offset = 0 /\ Writing.op = "write" /\ Writing.buf = Stream /\ Writing # Idle
    BY DEF Writing, Idle
  <1> HIDE DEF g2
  <1>14. /\ \A b \in Apps \ {a} : handle'[b] = handle[b] /\ call'[b] = call[b]
         /\ handle'[a][object] = g2 /\ call'[a] = Writing
    BY <1>9, <1>10, Shapes
  <1>15. Silent(a)
    BY <1>1, <1>6, <1>11, <1>14 DEF Silent
  <1> HIDE DEF g
  <1>16. Stage(2, inst[a], g2, made) /\ Owned(2, g2, fdt[a])
    BY <1>3, <1>12 DEF Orderly, Stage, Owned, g
  <1>17. Moving(2, g2, fdt[a], Writing, intruded[a])
    <2>1. Idle.offset = 0 /\ Whole(0)
      BY WholeQuotient DEF Idle
    <2> QED BY <1>2, <1>3, <1>12, <1>13, <2>1 DEF Orderly, Moving, g
  <1>18. Kept(2, Writing, intruded[a], F)
    BY <1>13, FileType DEF Kept, Stored, SameTo
  <1>19. Heard(2, intruded[a], got[a]) /\ Said(2, intruded[a], verdict[a], prog)
    BY <1>3 DEF Orderly, Heard, Said
  <1>20. Spares(a) /\ made \subseteq made' /\ FileGood(F)' /\ F' = F
    BY <1>1, <1>11, Spared
  <1>21. Spot(a)' = 2
    BY <1>3, <1>6 DEF Spot
  <1>22. Orderly(a)'
    BY <1>1, <1>11, <1>14, <1>16, <1>17, <1>18, <1>19, <1>20, <1>21 DEF Orderly
  <1> QED BY <1>15, <1>20, <1>22, TidyStep

LEMMA StreamUnits ==
  ASSUME NEW a \in Apps
  PROVE  Key \in Keys /\ Stream \in Seq(Unit) /\ Len(Stream) = Size
  <1>1. Key \in Keys
    BY KeyIs, ProgramFacts, ObjectAssumption DEF Keys
  <1> QED BY <1>1, EncUnits, ProgramFacts DEF Stream, Size

\* L units of what is saved, written where they belong, in file f at p.
WrittenAt(f, p, L) == Splice(f, p, SubSeq(SubSeq(Stream, p + 1, p + L), 1, L))

\* They complete the file, and spoil nothing.
LEMMA WrittenUnits ==
  ASSUME NEW a \in Apps, NEW f \in Seq(Unit), FileGood(f),
         NEW p \in Nat, Whole(p), NEW L \in Nat, Whole(L), L > 0, p + L <= Size,
         Small => p = 0 /\ L = Size
  PROVE  /\ FileGood(WrittenAt(f, p, L)) /\ Grows(f, WrittenAt(f, p, L))
         /\ (p <= Len(f) /\ SameTo(f, p)) =>
               p + L <= Len(WrittenAt(f, p, L)) /\ SameTo(WrittenAt(f, p, L), p + L)
  <1> DEFINE d == SubSeq(Stream, p + 1, p + L)
             e == SubSeq(d, 1, L)
             f2 == WrittenAt(f, p, L)
             N == IF p + Len(e) > Len(f) THEN p + Len(e) ELSE Len(f)
  <1>1. Stream \in Seq(Unit) /\ Len(Stream) = Size /\ Size \in Nat
    BY StreamUnits, SizeBounds
  <1> HIDE DEF Stream
  <1>2. d \in Seq(Unit) /\ Len(d) = L /\ \A i \in 1..L : d[i] = Stream[p + i]
    BY <1>1
  <1> HIDE DEF d
  <1>3. e \in Seq(Unit) /\ Len(e) = L /\ \A i \in 1..L : e[i] = Stream[p + i]
    BY <1>2
  <1> HIDE DEF e
  <1>4. Len(f) \in Nat /\ Whole(Len(f)) /\ Len(f) <= Size
    BY DEF FileGood
  <1>5. N \in Nat /\ N = IF p + L > Len(f) THEN p + L ELSE Len(f)
    BY <1>3, <1>4
  <1>6. f2 = [i \in 1..N |-> IF i > p /\ i <= p + Len(e) THEN e[i - p]
                             ELSE IF i <= Len(f) THEN f[i] ELSE Hole]
    BY DEF WrittenAt, Splice, e, d
  <1> HIDE DEF N, f2
  <1>7. Len(f2) = N
    BY <1>5, <1>6
  <1>8. /\ \A i \in 1..N : i > p /\ i <= p + L => f2[i] = Stream[i]
        /\ \A i \in 1..N : ~(i > p /\ i <= p + L) /\ i <= Len(f) => f2[i] = f[i]
    <2>1. ASSUME NEW i \in 1..N, i > p, i <= p + L PROVE f2[i] = Stream[i]
      <3>1. f2[i] = e[i - p]
        BY <1>3, <1>6, <2>1
      <3>2. i - p \in 1..L /\ p + (i - p) = i
        BY <1>5, <2>1
      <3> QED BY <1>3, <3>1, <3>2
    <2>2. ASSUME NEW i \in 1..N, ~(i > p /\ i <= p + L), i <= Len(f) PROVE f2[i] = f[i]
      BY <1>3, <1>6, <2>2
    <2> QED BY <2>1, <2>2
  <1>9. Grows(f, f2)
    <2>1. Len(f) <= Len(f2)
      BY <1>4, <1>5, <1>7
    <2>2. ASSUME NEW i \in 1..Len(f), f[i] = Stream[i] PROVE f2[i] = Stream[i]
      <3>1. i \in 1..N
        BY <1>4, <1>7, <2>1, <1>5
      <3> QED BY <1>8, <2>2, <3>1
    <2> QED BY <2>1, <2>2 DEF Grows
  <1>10. ASSUME p <= Len(f), SameTo(f, p) PROVE p + L <= Len(f2) /\ SameTo(f2, p + L)
    <2>1. p + L <= N
      BY <1>4, <1>5
    <2>2. ASSUME NEW i \in 1..(p + L) PROVE f2[i] = Stream[i]
      <3>1. i \in 1..N
        BY <1>5, <2>1
      <3>2. i > p => f2[i] = Stream[i]
        BY <1>8, <3>1
      <3>3. i <= p => i \in 1..p /\ f2[i] = f[i] /\ f[i] = Stream[i]
        BY <1>4, <1>8, <1>10, <3>1 DEF SameTo
      <3> QED BY <3>2, <3>3
    <2> QED BY <1>7, <2>1, <2>2 DEF SameTo
  <1>11. FileGood(f2)
    <2>1. Whole(p + L)
      BY WholeSums
    <2>2. Whole(N) /\ N <= Size
      BY <1>4, <1>5, <2>1
    <2>3. ASSUME Small PROVE N \in {0, Size} /\ SameTo(f2, N)
      <3>1. p = 0 /\ L = Size /\ p + L = Size
        BY <1>1, <2>3
      <3>2. N = Size
        BY <1>1, <1>4, <1>5, <3>1
      <3> QED BY <1>1, <1>8, <3>1, <3>2 DEF SameTo
    <2> QED BY <1>7, <2>2, <2>3 DEF FileGood
  <1> QED BY <1>9, <1>10, <1>11 DEF f2

\* The call in progress of the script.
LEMMA CallIs ==
  ASSUME Scripted, NEW a \in Apps, call[a].op \in {"write", "read"}
  PROVE  /\ call[a] # Idle /\ call[a].h = object /\ call[a].count = Size
         /\ call[a].buf \in Seq(Unit) /\ call[a].offset \in Nat /\ call[a].offset <= Size
         /\ inst[a] = "run" /\ InMain(a) /\ at[a].step <= Len(Calls(a))
         /\ call[a].op = "read" => Len(call[a].buf) = call[a].offset
  <1>1. call[a] # Idle
    BY DEF Idle
  <1>2. /\ inst[a] = "run" /\ at[a].step <= Len(Calls(a)) /\ call[a].count = Size /\ InMain(a)
    BY <1>1 DEF Scripted, InCall, RunOK
  <1>3. call[a].h \in Handles /\ call[a].buf \in Seq(Unit) /\ call[a].offset \in Nat
    BY <1>1, Shapes DEF CallRec
  <1>4. call[a].offset <= call[a].count
        /\ (call[a].op = "read" => Len(call[a].buf) = call[a].offset)
    BY <1>1 DEF Scripted, Safe, LoopInBounds
  <1> QED BY <1>1, <1>2, <1>3, <1>4, ProgramFacts

\* What is left to move, and what the next ocall takes of it.
LEMMA NextChunk ==
  ASSUME NEW p \in Nat, p <= Size, Whole(p), Small => p \in {0, Size}
  PROVE  LET L == Clamp(Size - p) IN
         /\ L \in Nat /\ Whole(L) /\ p + L <= Size /\ Whole(p + L) /\ L <= CAP
         /\ L = 0 => p = Size
         /\ Small => p + L = Size
         /\ (Small /\ L > 0) => p = 0 /\ L = Size
  <1> DEFINE m == Size - p
             L == Clamp(m)
  <1>1. m \in Nat /\ Whole(m) /\ Size \in Nat /\ CAP \in Nat
    BY SizeBounds, WholeSums, ObjectAssumption
  <1>2. L \in Nat /\ L <= m /\ L <= CAP /\ Whole(L) /\ (L = 0 => m = 0)
    BY <1>1, ClampWhole
  <1>3. m <= CAP => L = m
    BY <1>1 DEF Clamp
  <1>4. Small => m <= CAP
    BY <1>1 DEF Small
  <1> HIDE DEF L
  <1>5. Whole(p + L)
    BY <1>2, WholeSums
  <1> SUFFICES /\ L \in Nat /\ Whole(L) /\ p + L <= Size /\ Whole(p + L) /\ L <= CAP
               /\ L = 0 => p = Size
               /\ Small => p + L = Size
               /\ (Small /\ L > 0) => p = 0 /\ L = Size
    BY DEF L
  <1> QED BY <1>1, <1>2, <1>3, <1>4, <1>5

\* What a pass of the write loop does: all of the chunk, when it is not empty.
WroteAll(a, L) ==
    LET c == call[a]
        desc == handle[a][object].desc
        o == fdt[a][desc]
    IN /\ UNCHANGED <<made, inst, handle>>
       /\ fdt' = [fdt EXCEPT ![a][desc] = Advance(o, L)]
       /\ file' = IF L = 0 THEN file
                  ELSE [file EXCEPT ![FileOf[fname]] = WrittenAt(F, o.pos, L)]
       /\ IF L = 0 THEN /\ call' = [call EXCEPT ![a] = Idle]
                        /\ ret' = [ret EXCEPT ![a] = Returned("SUCCESS")]
          ELSE call' = [call EXCEPT ![a] = Moved(c, L, c.buf)]

LEMMA PassWrites ==
  ASSUME Scripted, NoError, NEW a \in Apps, Orderly(a), ocall_write_file_full(a)
  PROVE  WroteAll(a, Clamp(Size - call[a].offset))
  <1> DEFINE c == call[a]
             g == handle[a][object]
             o == fdt[a][g.desc]
             L == Clamp(Size - c.offset)
             chunk == SubSeq(c.buf, c.offset + 1, c.offset + Clamp(c.count - c.offset))
  <1>1. c.op = "write"
    BY DEF ocall_write_file_full
  <1>2. c.h = object /\ c.count = Size /\ c.offset \in Nat /\ c.offset <= Size
    BY <1>1, CallIs
  <1>3. Spot(a) = 2
    BY <1>1, AtCall
  <1>4. /\ c.buf = Stream /\ o.pos = c.offset /\ Whole(c.offset)
        /\ (Small => c.offset \in {0, Size})
    BY <1>1, <1>3 DEF Orderly, Moving
  <1>5. o.name = FileOf[fname] /\ Writable(a, g.desc)
    BY <1>3, OwnFd DEF Writable
  <1>6. L \in Nat /\ c.offset + L <= Size
    BY <1>2, <1>4, NextChunk
  <1>7. PICK n \in -1..CAP, f \in 0..1 :
          /\ ocall_write_file256(a, g.desc, chunk, n, f)
          /\ Faults(f)
          /\ \/ /\ ~LoopEnds(n)
                /\ call' = [call EXCEPT ![a] = Moved(@, n, @.buf)]
             \/ /\ LoopEnds(n)
                /\ call' = [call EXCEPT ![a] = Idle]
                /\ Return(a, Returned(IF LoopResult(c.offset, n) < 0
                                      THEN "GENERIC" ELSE "SUCCESS"))
    BY <1>2 DEF ocall_write_file_full
  <1>8. f = 0
    BY <1>7, NoFault
  <1>9. chunk = SubSeq(Stream, c.offset + 1, c.offset + L)
    BY <1>2, <1>4
  <1>10. Len(chunk) = L
    <2>1. Stream \in Seq(Unit) /\ Len(Stream) = Size /\ Size \in Nat
      BY StreamUnits, SizeBounds
    <2>2. \A u \in Seq(Unit), p, m \in Nat : p + m <= Len(u) => Len(SubSeq(u, p + 1, p + m)) = m
      OBVIOUS
    <2> HIDE DEF L, chunk, c
    <2> QED BY <1>2, <1>6, <1>9, <2>1, <2>2
  <1> HIDE DEF chunk
  <1>11. /\ n = L
         /\ file' = IF n = 0 THEN file
                    ELSE [file EXCEPT ![FileOf[fname]] = Splice(@, o.pos, SubSeq(chunk, 1, n))]
         /\ fdt' = [fdt EXCEPT ![a][g.desc] = Advance(@, n)]
         /\ made' = made
    BY <1>5, <1>7, <1>8, <1>10 DEF ocall_write_file256
  <1>12. file' = IF L = 0 THEN file
                 ELSE [file EXCEPT ![FileOf[fname]] = WrittenAt(F, o.pos, L)]
    BY <1>4, <1>9, <1>11 DEF WrittenAt, F
  <1>13. UNCHANGED <<inst, handle>>
    BY DEF ocall_write_file_full
  <1>14. fdt' = [fdt EXCEPT ![a][g.desc] = Advance(o, L)]
    BY <1>11
  <1> HIDE DEF L
  <1>15. CASE L = 0
    <2>1. LoopEnds(n) /\ ~(LoopResult(c.offset, n) < 0)
      BY <1>2, <1>11, <1>15 DEF LoopEnds, LoopResult
    <2>2. /\ call' = [call EXCEPT ![a] = Idle]
          /\ ret' = [ret EXCEPT ![a] = Returned("SUCCESS")]
      BY <1>7, <2>1 DEF Return
    <2> QED BY <1>11, <1>12, <1>13, <1>14, <1>15, <2>2 DEF WroteAll, L
  <1>16. CASE L # 0
    <2>1. ~LoopEnds(n)
      BY <1>6, <1>11, <1>16 DEF LoopEnds
    <2>2. call' = [call EXCEPT ![a] = Moved(c, L, c.buf)]
      BY <1>7, <1>11, <2>1
    <2> QED BY <1>11, <1>12, <1>13, <1>14, <1>16, <2>2 DEF WroteAll, L
  <1> QED BY <1>15, <1>16

\* A pass that moves something.
LEMMA WriteOnTidy ==
  ASSUME Scripted, Scripted', Tidy, NEW a \in Apps, call[a].op = "write", NEW L \in Nat,
         WroteAll(a, L), L > 0, L = Clamp(Size - call[a].offset),
         UNCHANGED <<at, prog, got, verdict, intruded>>
  PROVE  Tidy'
  <1> DEFINE c == call[a]
             g == handle[a][object]
             o == fdt[a][g.desc]
             c2 == Moved(c, L, c.buf)
             o2 == Advance(o, L)
             f2 == WrittenAt(F, o.pos, L)
             tab == fdt'[a]
             x == intruded[a]
             p == c.offset
  <1>1. Orderly(a) /\ Spot(a) = 2 /\ Spot(a)' = 2
    BY AtCall DEF Tidy, Spot
  <1>2. /\ c.buf = Stream /\ o.pos = p /\ Whole(p) /\ (Small => p \in {0, Size})
        /\ p \in Nat /\ p <= Size /\ c # Idle
    BY <1>1, CallIs DEF Orderly, Moving
  <1>3. /\ p + L <= Size /\ Whole(p + L) /\ Whole(L) /\ (Small => p + L = Size)
        /\ (Small => p = 0 /\ L = Size)
    BY <1>2, NextChunk
  <1>4. /\ UNCHANGED <<made, inst, handle>>
        /\ fdt' = [fdt EXCEPT ![a][g.desc] = o2]
        /\ file' = [file EXCEPT ![FileOf[fname]] = f2]
        /\ call' = [call EXCEPT ![a] = c2]
    BY DEF WroteAll
  <1>5. /\ Live(a, object) /\ g.desc \in Fds /\ o.name = FileOf[fname] /\ o.mode = g.mode
        /\ g.id = fname /\ g.mode = "w" /\ \A fd \in Fds : IsOpen(a, fd) => fd = g.desc
    BY <1>1, OwnFd
  <1>6. /\ c2.op = "write" /\ c2.offset = p + L /\ c2.buf = Stream /\ c2 # Idle
        /\ o2.name = o.name /\ o2.mode = o.mode /\ o2.pos = p + L
    BY <1>2 DEF Moved, Advance, Idle
  <1>7. F \in Seq(Unit) /\ FileGood(F) /\ Len(F) \in Nat
    BY FileType DEF Tidy
  <1>8. /\ FileGood(f2) /\ Grows(F, f2)
        /\ (p <= Len(F) /\ SameTo(F, p)) => p + L <= Len(f2) /\ SameTo(f2, p + L)
    BY <1>2, <1>3, <1>7, WrittenUnits
  <1> HIDE DEF c2, o2, f2, g, o
  <1>9. /\ \A b \in Apps \ {a} : call'[b] = call[b] /\ fdt'[b] = fdt[b]
        /\ call'[a] = c2 /\ F' = f2
        /\ \A fd \in Fds : tab[fd] = IF fd = g.desc THEN o2 ELSE fdt[a][fd]
    BY <1>4, <1>5, Shapes DEF F
  <1> HIDE DEF tab
  <1>10. Silent(a)
    BY <1>4, <1>9 DEF Silent
  <1>11. Spares(a)
    BY <1>8, <1>9 DEF Spares
  <1>12. FileGood(F)'
    BY <1>8, <1>9 DEF FileGood, SameTo, Stream
  <1>13. Owned(2, g, tab)
    BY <1>5, <1>6, <1>9 DEF Owned, IsOpen, Live, g
  <1>14. Moving(2, g, tab, c2, x)
    BY <1>3, <1>5, <1>6, <1>9 DEF Moving
  <1>15. Kept(2, c2, x, f2)
    <2>1. ~x => p <= Len(F) /\ SameTo(F, p)
      BY <1>1 DEF Orderly, Kept, Stored
    <2> QED BY <1>6, <1>8, <2>1 DEF Kept, Stored
  <1>16. Orderly(a)'
    BY <1>1, <1>4, <1>9, <1>13, <1>14, <1>15 DEF Orderly, g, tab, Heard
  <1> QED BY <1>4, <1>10, <1>11, <1>12, <1>16, TidyStep

\* The last pass.
LEMMA WriteEndTidy ==
  ASSUME Scripted, Scripted', Tidy, NEW a \in Apps, call[a].op = "write",
         WroteAll(a, 0), 0 = Clamp(Size - call[a].offset), Goto(a, at[a].step + 1),
         UNCHANGED <<prog, got, verdict, intruded>>
  PROVE  Tidy'
  <1> DEFINE c == call[a]
             g == handle[a][object]
             o == fdt[a][g.desc]
             o2 == Advance(o, 0)
             tab == fdt'[a]
             x == intruded[a]
  <1>0. InMain(a) /\ at[a].step <= Len(Calls(a))
    BY CallIs
  <1>1. Orderly(a) /\ Spot(a) = 2
    BY AtCall DEF Tidy
  <1>2. Spot(a)' = 3 /\ \A b \in Apps \ {a} : at'[b] = at[b]
    BY <1>0, <1>1, Next1
  <1>3. c.offset = Size
    <2>1. /\ c.offset \in Nat /\ c.offset <= Size /\ Whole(c.offset)
          /\ (Small => c.offset \in {0, Size})
      BY <1>1, CallIs DEF Orderly, Moving
    <2> QED BY <2>1, NextChunk
  <1>4. /\ UNCHANGED <<made, file, inst, handle>>
        /\ fdt' = [fdt EXCEPT ![a][g.desc] = o2]
        /\ call' = [call EXCEPT ![a] = Idle]
    BY DEF WroteAll
  <1>5. /\ Live(a, object) /\ g.desc \in Fds /\ o.name = FileOf[fname] /\ o.mode = g.mode
        /\ g.id = fname /\ g.mode = "w" /\ \A fd \in Fds : IsOpen(a, fd) => fd = g.desc
    BY <1>1, OwnFd
  <1>6. o2.name = o.name /\ o2.mode = o.mode
    BY DEF Advance
  <1> HIDE DEF o2, g, o
  <1>7. /\ \A b \in Apps \ {a} : call'[b] = call[b] /\ fdt'[b] = fdt[b]
        /\ call'[a] = Idle
        /\ \A fd \in Fds : tab[fd] = IF fd = g.desc THEN o2 ELSE fdt[a][fd]
    BY <1>4, <1>5, Shapes
  <1> HIDE DEF tab
  <1>8. Silent(a)
    BY <1>2, <1>4, <1>7 DEF Silent
  <1>9. Owned(3, g, tab)
    BY <1>5, <1>6, <1>7 DEF Owned, IsOpen, Live, g
  <1>10. Moving(3, g, tab, Idle, x)
    BY WholeQuotient DEF Moving, Idle
  <1>11. Kept(3, Idle, x, F)
    BY <1>1, <1>3 DEF Orderly, Kept, Stored
  <1>12. Stage(3, inst[a], g, made) /\ Heard(3, x, got[a]) /\ Said(3, x, verdict[a], prog)
    BY <1>1 DEF Orderly, Stage, Heard, Said, g
  <1>13. Spares(a) /\ made \subseteq made' /\ FileGood(F)' /\ F' = F
    BY <1>4, Spared
  <1>14. Orderly(a)'
    BY <1>2, <1>4, <1>7, <1>9, <1>10, <1>11, <1>12, <1>13 DEF Orderly, g, tab
  <1> QED BY <1>8, <1>13, <1>14, TidyStep

LEMMA WritePassTidy ==
  ASSUME Scripted, Scripted', Tidy, NoError, NEW a \in Apps, WritePass(a)
  PROVE  Tidy'
  <1> DEFINE L == Clamp(Size - call[a].offset)
  <1>1. /\ ocall_write_file_full(a) /\ UNCHANGED <<prog, got, verdict, intruded>>
        /\ IF call'[a] = Idle THEN Returns(a) ELSE UNCHANGED at
    BY DEF WritePass
  <1>2. call[a].op = "write" /\ Orderly(a)
    BY <1>1 DEF ocall_write_file_full, Tidy
  <1>3. L \in Nat
    <2>1. Whole(call[a].offset) /\ (Small => call[a].offset \in {0, Size})
          /\ call[a].offset \in Nat /\ call[a].offset <= Size
      BY <1>2, CallIs DEF Orderly, Moving
    <2> QED BY <2>1, NextChunk
  <1>4. WroteAll(a, L)
    BY <1>1, <1>2, PassWrites
  <1> HIDE DEF L
  <1>5. ASSUME L > 0 PROVE Tidy'
    <2>1. call'[a] = Moved(call[a], L, call[a].buf)
      BY <1>3, <1>4, <1>5, Shapes DEF WroteAll
    <2>2. call'[a] # Idle
      BY <1>2, <2>1 DEF Moved, Idle
    <2>3. UNCHANGED <<at, prog, got, verdict, intruded>>
      BY <1>1, <2>2
    <2> QED BY <1>2, <1>3, <1>4, <1>5, <2>3, WriteOnTidy DEF L
  <1>6. ASSUME L = 0 PROVE Tidy'
    <2>1. call'[a] = Idle /\ ret'[a].res = "SUCCESS"
      BY <1>4, <1>6, Shapes DEF WroteAll, Returned
    <2>2. Goto(a, at[a].step + 1)
      BY <1>1, <2>1 DEF Returns, GP_ASSERT
    <2>3. WroteAll(a, 0) /\ 0 = Clamp(Size - call[a].offset)
      BY <1>4, <1>6 DEF L
    <2> QED BY <1>1, <1>2, <2>2, <2>3, WriteEndTidy
  <1> QED BY <1>3, <1>5, <1>6

(***************************************************************************)
(* TEE_ReadObjectData: the start of the call, and a pass of its loop.      *)
(***************************************************************************)
Reading == [op |-> "read", h |-> object, offset |-> 0, count |-> Size, buf |-> << >>]

LEMMA ReadStartTidy ==
  ASSUME Scripted, Scripted', Tidy, NoError, NEW a \in Apps, ReadObject(a)
  PROVE  Tidy'
  <1> DEFINE g == handle[a][object]
  <1>1. At(a, "read") /\ UNCHANGED <<prog, got, verdict, intruded>>
    BY DEF ReadObject
  <1>2. call[a] = Idle
    BY <1>1 DEF At, Running
  <1>3. Orderly(a) /\ Spot(a) = 5
    BY <1>1, AtCall DEF Tidy
  <1>4. Live(a, object)
    BY <1>3, OwnFd
  <1>5. TEE_ReadObjectData(a, object, Len(Saved)) /\ UNCHANGED at
    BY <1>4 DEF ReadObject, Uninitialised
  <1>6. Len(Saved) # 0
    BY ProgramFacts, ObjectAssumption
  <1>7. call' = [call EXCEPT ![a] = Reading] /\ UNCHANGED <<made, file, fdt, inst, handle>>
    BY <1>5, <1>6 DEF TEE_ReadObjectData, Reading, Size, hostVars
  <1>8. Reading.offset = 0 /\ Reading.op = "read" /\ Idle.offset = 0 /\ Whole(0)
    BY WholeQuotient DEF Reading, Idle
  <1>9. call'[a] = Reading /\ \A b \in Apps \ {a} : call'[b] = call[b]
    BY <1>7, Shapes
  <1>10. Silent(a)
    BY <1>1, <1>5, <1>7, <1>9 DEF Silent
  <1>11. Moving(5, g, fdt[a], Reading, intruded[a])
    BY <1>2, <1>3, <1>8 DEF Orderly, Moving, SameTo
  <1>12. Kept(5, Reading, intruded[a], F)
    BY <1>3 DEF Orderly, Kept, Stored
  <1>13. Spares(a) /\ made \subseteq made' /\ FileGood(F)' /\ F' = F
    BY <1>1, <1>7, Spared
  <1>14. Spot(a)' = 5
    BY <1>3, <1>5 DEF Spot
  <1>15. Orderly(a)'
    BY <1>1, <1>3, <1>7, <1>9, <1>11, <1>12, <1>13, <1>14 DEF Orderly
  <1> QED BY <1>10, <1>13, <1>15, TidyStep

\* What the next ocall of a read finds in the file.
Found(f, p) ==
    LET left == Len(f) - p
        L == Clamp(Size - p)
    IN IF left < 0 THEN 0 ELSE IF left < L THEN left ELSE L

\* What a pass of the read loop does: it takes all it finds; when it finds
\* nothing, what has come in is decrypted and handed out.
ReadAll(a, n) ==
    LET c == call[a]
        g == handle[a][object]
        g2 == handle'[a][object]
        o == fdt[a][g.desc]
    IN /\ UNCHANGED <<made, file, inst>>
       /\ \A b \in Apps \ {a} : handle'[b] = handle[b]
       /\ g2.st = g.st /\ g2.id = g.id /\ g2.desc = g.desc /\ g2.mode = g.mode
       /\ fdt' = [fdt EXCEPT ![a][g.desc] = Advance(o, n)]
       /\ IF n = 0 THEN /\ call' = [call EXCEPT ![a] = Idle]
                        /\ ret'[a].res = "SUCCESS" /\ ret'[a].count = c.offset
                        /\ ret'[a].data = IF c.offset = 0 THEN << >>
                                          ELSE Decrypt(Key, IV(Key), c.buf)
          ELSE /\ call' = [call EXCEPT ![a] =
                              Moved(c, n, c.buf \o SubSeq(F, o.pos + 1, o.pos + n))]
               /\ g2.prev = g.prev

LEMMA PassReads ==
  ASSUME Scripted, NoError, NEW a \in Apps, Orderly(a), ocall_read_file_full(a)
  PROVE  ReadAll(a, Found(F, call[a].offset))
  <1> DEFINE c == call[a]
             g == handle[a][object]
             o == fdt[a][g.desc]
             N == Found(F, c.offset)
  <1>1. c.op = "read"
    BY DEF ocall_read_file_full
  <1>2. /\ c.h = object /\ c.count = Size /\ c.offset \in Nat /\ c.offset <= Size
        /\ c.buf \in Seq(Unit) /\ Len(c.buf) = c.offset
    BY <1>1, CallIs
  <1>3. Spot(a) = 5
    BY <1>1, AtCall
  <1>4. o.pos = c.offset /\ Whole(c.offset) /\ g.prev = IV(Key)
        /\ (Small => c.offset \in {0, Size})
    BY <1>1, <1>3 DEF Orderly, Moving
  <1>5. /\ o.name = FileOf[fname] /\ Readable(a, g.desc) /\ g.mode = "r" /\ g.id = fname
        /\ g.desc \in Fds /\ Live(a, object)
    BY <1>3, OwnFd DEF Readable
  <1>6. KeyOf(a, object) = Key
    BY <1>5, KeyIs DEF KeyOf, set_object_key
  <1>7. PICK n \in -1..CAP, f \in 0..1, m \in 0..1 :
          /\ ocall_read_file256(a, g.desc, Clamp(c.count - c.offset), n, f)
          /\ Faults(f + m)
          /\ \/ /\ ~LoopEnds(n) /\ m = 0
                /\ call' = [call EXCEPT ![a] =
                              Moved(@, n, @.buf \o UnitsRead(a, g.desc, n))]
                /\ UNCHANGED <<ret, handle>>
             \/ /\ LoopEnds(n)
                /\ call' = [call EXCEPT ![a] = Idle]
                /\ ReadReturns(a, n, m)
    BY <1>2 DEF ocall_read_file_full
  <1>8. f = 0 /\ m = 0
    <2>1. f + m = 0
      BY <1>7, NoFault
    <2> QED BY <1>7, <2>1
  <1>9. Available(a, g.desc, Clamp(c.count - c.offset)) = N
    BY <1>2, <1>4, <1>5 DEF Available, Found, F
  <1> HIDE DEF N
  <1>10. n = N /\ fdt' = [fdt EXCEPT ![a][g.desc] = Advance(o, N)] /\ UNCHANGED <<made, file, inst>>
    BY SMTT(60), <1>5, <1>7, <1>8, <1>9 DEF ocall_read_file256, ocall_read_file_full
  <1>11. N >= 0
    <2>1. Clamp(Size - c.offset) \in Nat
      BY <1>2, <1>4, NextChunk
    <2>2. Len(F) \in Nat
      BY FileType
    <2> QED BY <1>2, <2>1, <2>2 DEF N, Found
  <1>12. CASE N # 0
    <2>1. ~LoopEnds(n)
      BY <1>10, <1>11, <1>12 DEF LoopEnds
    <2>2. handle' = handle
          /\ call' = [call EXCEPT ![a] = Moved(c, N, c.buf \o UnitsRead(a, g.desc, N))]
      BY <1>7, <1>10, <2>1
    <2>3. UnitsRead(a, g.desc, N) = SubSeq(F, o.pos + 1, o.pos + N)
      BY <1>5 DEF UnitsRead, F
    <2> QED BY <1>10, <1>12, <2>2, <2>3 DEF ReadAll, N
  <1>13. CASE N = 0
    <2> DEFINE r == ReadReturned("SUCCESS", Owner(a, object), Size, c.offset,
                                 IF c.offset = 0 THEN << >> ELSE Decrypt(Key, IV(Key), c.buf))
               g2 == Chained(g, LastBlock(c.buf))
    <2>1. LoopEnds(n) /\ LoopResult(c.offset, n) = c.offset
      BY <1>10, <1>13 DEF LoopEnds, LoopResult
    <2>2. call' = [call EXCEPT ![a] = Idle] /\ ReadReturns(a, n, 0)
      BY <1>7, <1>8, <2>1
    <2>3. c.offset % BLK = 0 /\ ~(c.offset < 0) /\ (c.offset > 0 <=> c.offset # 0)
      BY <1>2, <1>4, WholeQuotient
    <2>4. /\ ret' = [ret EXCEPT ![a] = r]
          /\ handle' = handle \/ handle' = [handle EXCEPT ![a][object] = g2]
      <3>1. CASE c.offset = 0
        BY <1>2, <2>1, <2>2, <2>3, <3>1 DEF ReadReturns, Return
      <3>2. CASE c.offset # 0
        BY <1>2, <1>4, <1>5, <1>6, <2>1, <2>2, <2>3, <3>2 DEF ReadReturns, Return
      <3> QED BY <3>1, <3>2
    <2>5. r.res = "SUCCESS" /\ r.count = c.offset
          /\ r.data = IF c.offset = 0 THEN << >> ELSE Decrypt(Key, IV(Key), c.buf)
      BY DEF ReadReturned
    <2>6. g2.st = g.st /\ g2.id = g.id /\ g2.desc = g.desc /\ g2.mode = g.mode
      BY DEF Chained
    <2> HIDE DEF r, g2
    <2>7. ret'[a] = r /\ (\A b \in Apps \ {a} : handle'[b] = handle[b])
          /\ handle'[a][object] \in {g, g2}
      BY <2>4, Shapes
    <2> QED BY <1>10, <1>13, <2>2, <2>5, <2>6, <2>7 DEF ReadAll, N
  <1> QED BY <1>12, <1>13

\* All of the stream decrypts to what was saved.
LEMMA Deciphered ==
  ASSUME NEW a \in Apps, NEW u \in Seq(Unit), Len(u) = Size, SameTo(u, Size)
  PROVE  Decrypt(Key, IV(Key), u) = Saved
  <1> DEFINE m == Len(Saved)
             D == Decrypt(Key, IV(Key), u)
  <1>1. m \in Nat /\ Saved \in Chains /\ Saved \in [1..m -> Data]
    BY ProgramFacts
  <1>2. CopyOf(u, u, 0, m)
    <2>1. \A i \in 1..(BLK * m) : BLK * 0 + i = i
      BY <1>1, ObjectAssumption
    <2> QED BY <2>1 DEF CopyOf
  <1>3. Begins(u, Key, Saved)
    BY DEF Begins, SameTo, Stream, Size
  <1>4. Len(u) = BLK * m /\ 0 + m <= Len(Saved) /\ Key \in Keys
    BY <1>1, StreamUnits DEF Size
  <1>5. D \in Seq(Data \cup {Garbage}) /\ Len(D) = m /\ \A j \in 1..m : D[j] = Saved[0 + j]
    BY <1>1, <1>2, <1>3, <1>4, DecryptsBack
  <1> HIDE DEF D
  <1>6. D \in [1..m -> Data \cup {Garbage}] /\ \A j \in 1..m : 0 + j = j
    BY <1>1, <1>5
  <1> QED BY <1>1, <1>5, <1>6 DEF D

\* What a pass finds is whole, is what belongs there, and is nothing only at
\* the end of the stream or of the file.
LEMMA FoundUnits ==
  ASSUME NEW a \in Apps, NEW f \in Seq(Unit), FileGood(f), NEW p \in Nat, Whole(p), p <= Size,
         Small => p \in {0, Size}, NEW x, ~x => Size <= Len(f) /\ SameTo(f, Size)
  PROVE  LET n == Found(f, p) IN
         /\ n \in Nat /\ Whole(n) /\ Whole(p + n)
         /\ Small => p + n \in {0, Size}
         /\ n > 0 => p + n <= Len(f)
         /\ (n > 0 /\ (~x \/ Small)) => \A i \in 1..n : f[p + i] = Stream[p + i]
         /\ (n = 0 /\ ~x) => p = Size
  <1> DEFINE n == Found(f, p)
             L == Clamp(Size - p)
             left == Len(f) - p
  <1>1. Len(f) \in Nat /\ Whole(Len(f)) /\ Len(f) <= Size
        /\ (Small => Len(f) \in {0, Size} /\ SameTo(f, Len(f)))
    BY DEF FileGood
  <1>2. /\ L \in Nat /\ Whole(L) /\ (L = 0 => p = Size) /\ (Small => p + L = Size)
        /\ Size \in Nat /\ Size > 0
    BY NextChunk, SizeBounds
  <1>3. n = IF left < 0 THEN 0 ELSE IF left < L THEN left ELSE L
    BY DEF Found
  <1> HIDE DEF n, L
  <1>4. left >= 0 => Whole(left)
    BY <1>1, WholeSums
  <1>5. n \in Nat /\ Whole(n)
    BY <1>1, <1>2, <1>3, <1>4, WholeQuotient
  <1>6. Whole(p + n)
    BY <1>5, WholeSums
  <1>7. n > 0 => p + n <= Len(f)
    BY <1>1, <1>2, <1>3
  <1>8. Small => p + n \in {0, Size}
    BY <1>1, <1>2, <1>3
  <1>9. (n = 0 /\ ~x) => p = Size
    BY <1>1, <1>2, <1>3
  <1>10. ASSUME n > 0, ~x \/ Small, NEW i \in 1..n PROVE f[p + i] = Stream[p + i]
    <2>1. p + i \in 1..Len(f) /\ p + i \in 1..Size
      BY <1>1, <1>2, <1>5, <1>7, <1>10
    <2> QED BY <1>1, <1>10, <2>1 DEF SameTo
  <1> QED BY <1>5, <1>6, <1>7, <1>8, <1>9, <1>10 DEF n

\* What a read knows of the file.
LEMMA ReaderKnows ==
  ASSUME Scripted, Tidy, NEW a \in Apps, call[a].op = "read"
  PROVE  /\ Orderly(a) /\ Spot(a) = 5
         /\ F \in Seq(Unit) /\ FileGood(F) /\ Len(F) \in Nat
         /\ ~intruded[a] => Size <= Len(F) /\ SameTo(F, Size)
         /\ call[a].offset \in Nat /\ Whole(call[a].offset) /\ call[a].offset <= Size
         /\ Small => call[a].offset \in {0, Size}
         /\ (~intruded[a] \/ Small) => SameTo(call[a].buf, call[a].offset)
         /\ call[a].buf \in Seq(Unit) /\ Len(call[a].buf) = call[a].offset
         /\ fdt[a][handle[a][object].desc].pos = call[a].offset
         /\ handle[a][object].prev = IV(Key)
  <1>1. Orderly(a) /\ Spot(a) = 5
    BY AtCall DEF Tidy
  <1>2. F \in Seq(Unit) /\ FileGood(F) /\ Len(F) \in Nat
    BY FileType DEF Tidy
  <1>3. Moving(5, handle[a][object], fdt[a], call[a], intruded[a])
    BY <1>1 DEF Orderly
  <1>4. Kept(5, call[a], intruded[a], F)
    BY <1>1 DEF Orderly
  <1>5. ~intruded[a] => Size <= Len(F) /\ SameTo(F, Size)
    BY <1>4 DEF Kept, Stored
  <1> QED BY <1>1, <1>2, <1>3, <1>5, CallIs DEF Moving

\* A buffer of what belongs there, followed by more of it.
LEMMA Longer ==
  ASSUME NEW f \in Seq(Unit), NEW v \in Seq(Unit), NEW p \in Nat, Len(v) = p, NEW n \in Nat,
         p + n <= Len(f), SameTo(v, p), \A i \in 1..n : f[p + i] = Stream[p + i]
  PROVE  SameTo(v \o SubSeq(f, p + 1, p + n), p + n)
  <1> DEFINE u == SubSeq(f, p + 1, p + n)
  <1>1. u \in Seq(Unit) /\ Len(u) = n /\ \A i \in 1..n : u[i] = f[p + i]
    OBVIOUS
  <1> HIDE DEF u
  <1>2. /\ \A i \in 1..p : (v \o u)[i] = v[i]
        /\ \A i \in 1..n : (v \o u)[p + i] = u[i]
    BY <1>1, GrownBuffer
  <1>3. ASSUME NEW i \in 1..(p + n) PROVE (v \o u)[i] = Stream[i]
    <2>1. CASE i <= p
      <3>1. i \in 1..p
        BY <2>1
      <3> QED BY <1>2, <3>1 DEF SameTo
    <2>2. CASE i > p
      <3>1. i - p \in 1..n /\ p + (i - p) = i
        BY <2>2
      <3>2. (v \o u)[p + (i - p)] = u[i - p] /\ u[i - p] = f[p + (i - p)]
        BY <1>1, <1>2, <3>1
      <3>3. f[p + (i - p)] = Stream[p + (i - p)]
        BY <3>1
      <3> QED BY <3>1, <3>2, <3>3
    <2>3. i <= p \/ i > p
      OBVIOUS
    <2> QED BY <2>1, <2>2, <2>3, Zenon
  <1> QED BY <1>3 DEF SameTo, u

\* A pass that finds something.
LEMMA ReadOnTidy ==
  ASSUME Scripted, Scripted', Tidy, NEW a \in Apps, call[a].op = "read", NEW n,
         n = Found(F, call[a].offset), n > 0, ReadAll(a, n),
         UNCHANGED <<at, prog, got, verdict, intruded>>
  PROVE  Tidy'
  <1> DEFINE c == call[a]
             g == handle[a][object]
             g2 == handle'[a][object]
             o == fdt[a][g.desc]
             u == SubSeq(F, o.pos + 1, o.pos + n)
             c2 == Moved(c, n, c.buf \o u)
             o2 == Advance(o, n)
             tab == fdt'[a]
             x == intruded[a]
             p == c.offset
  <1>1. /\ Orderly(a) /\ Spot(a) = 5 /\ Spot(a)' = 5 /\ c # Idle
        /\ F \in Seq(Unit) /\ FileGood(F) /\ Len(F) \in Nat
        /\ ~x => Size <= Len(F) /\ SameTo(F, Size)
        /\ p \in Nat /\ Whole(p) /\ p <= Size /\ (Small => p \in {0, Size})
        /\ (~x \/ Small) => SameTo(c.buf, p)
        /\ c.buf \in Seq(Unit) /\ Len(c.buf) = p /\ o.pos = p /\ g.prev = IV(Key)
    BY ReaderKnows, CallIs DEF Spot
  <1>2. /\ n \in Nat /\ Whole(p + n) /\ (Small => p + n \in {0, Size}) /\ p + n <= Len(F)
        /\ (~x \/ Small) => \A i \in 1..n : F[p + i] = Stream[p + i]
    BY <1>1, FoundUnits
  <1>3. /\ UNCHANGED <<made, file, inst>> /\ \A b \in Apps \ {a} : handle'[b] = handle[b]
        /\ g2.st = g.st /\ g2.id = g.id /\ g2.desc = g.desc /\ g2.mode = g.mode /\ g2.prev = g.prev
        /\ fdt' = [fdt EXCEPT ![a][g.desc] = o2] /\ call' = [call EXCEPT ![a] = c2]
    BY <1>2 DEF ReadAll
  <1>4. /\ Live(a, object) /\ g.desc \in Fds /\ o.name = FileOf[fname] /\ o.mode = g.mode
        /\ g.id = fname /\ g.mode = "r" /\ \A fd \in Fds : IsOpen(a, fd) => fd = g.desc
    BY SMTT(60), <1>1, OwnFd
  <1>5. /\ c2.op = "read" /\ c2.offset = p + n /\ c2.buf = c.buf \o u
        /\ o2.name = o.name /\ o2.mode = o.mode /\ o2.pos = p + n
    BY <1>1 DEF Moved, Advance
  <1>6. (~x \/ Small) => SameTo(c.buf \o u, p + n)
    <2>1. u = SubSeq(F, p + 1, p + n)
      BY <1>1
    <2> HIDE DEF u
    <2> QED BY <1>1, <1>2, <2>1, Longer
  <1> HIDE DEF c2, o2, g, o, g2, u
  <1>7. /\ \A b \in Apps \ {a} : call'[b] = call[b] /\ fdt'[b] = fdt[b]
        /\ call'[a] = c2
        /\ \A fd \in Fds : tab[fd] = IF fd = g.desc THEN o2 ELSE fdt[a][fd]
    BY <1>3, <1>4, Shapes
  <1> HIDE DEF tab
  <1>8. Silent(a)
    BY <1>3, <1>7 DEF Silent
  <1>9. Spares(a) /\ made \subseteq made' /\ FileGood(F)' /\ F' = F
    BY <1>3, Spared
  <1>10. Stage(5, inst[a], g2, made)
    BY <1>1, <1>3 DEF Orderly, Stage, g
  <1>11. Owned(5, g2, tab)
    BY <1>3, <1>4, <1>5, <1>7 DEF Owned, IsOpen, Live, g
  <1>12. Moving(5, g2, tab, c2, x)
    BY <1>1, <1>2, <1>3, <1>4, <1>5, <1>6, <1>7 DEF Moving
  <1>13. Kept(5, c2, x, F)
    BY <1>1 DEF Kept, Stored
  <1>14. Heard(5, x, got[a]) /\ Said(5, x, verdict[a], prog)
    BY <1>1 DEF Orderly, Heard, Said
  <1>15. Orderly(a)'
    BY <1>1, <1>3, <1>7, <1>9, <1>10, <1>11, <1>12, <1>13, <1>14 DEF Orderly, g2, tab
  <1> QED BY <1>8, <1>9, <1>15, TidyStep

\* The last pass.
LEMMA ReadEndTidy ==
  ASSUME Scripted, Scripted', Tidy, NEW a \in Apps, call[a].op = "read",
         0 = Found(F, call[a].offset), ReadAll(a, 0), Goto(a, at[a].step + 1),
         got' = [got EXCEPT ![a] = [stored |-> TRUE, count |-> ret'[a].count,
                                    plain |-> ret'[a].data]],
         UNCHANGED <<prog, verdict, intruded>>
  PROVE  Tidy'
  <1> DEFINE c == call[a]
             g == handle[a][object]
             g2 == handle'[a][object]
             o == fdt[a][g.desc]
             o2 == Advance(o, 0)
             tab == fdt'[a]
             x == intruded[a]
             r == [stored |-> TRUE, count |-> ret'[a].count, plain |-> ret'[a].data]
             p == c.offset
  <1>0. InMain(a) /\ at[a].step <= Len(Calls(a))
    BY CallIs
  <1>1. /\ Orderly(a) /\ Spot(a) = 5
        /\ F \in Seq(Unit) /\ FileGood(F)
        /\ ~x => Size <= Len(F) /\ SameTo(F, Size)
        /\ p \in Nat /\ Whole(p) /\ p <= Size /\ (Small => p \in {0, Size})
        /\ (~x \/ Small) => SameTo(c.buf, p)
        /\ c.buf \in Seq(Unit) /\ Len(c.buf) = p
    BY ReaderKnows
  <1>2. Spot(a)' = 6 /\ \A b \in Apps \ {a} : at'[b] = at[b]
    BY <1>0, <1>1, Next1
  <1>3. ~x => p = Size
    BY <1>1, FoundUnits
  <1>4. /\ UNCHANGED <<made, file, inst>> /\ \A b \in Apps \ {a} : handle'[b] = handle[b]
        /\ g2.st = g.st /\ g2.id = g.id /\ g2.desc = g.desc /\ g2.mode = g.mode
        /\ fdt' = [fdt EXCEPT ![a][g.desc] = o2] /\ call' = [call EXCEPT ![a] = Idle]
        /\ ret'[a].count = p
        /\ ret'[a].data = IF p = 0 THEN << >> ELSE Decrypt(Key, IV(Key), c.buf)
    BY DEF ReadAll
  <1>5. /\ Live(a, object) /\ g.desc \in Fds /\ o.name = FileOf[fname] /\ o.mode = g.mode
        /\ g.id = fname /\ g.mode = "r" /\ \A fd \in Fds : IsOpen(a, fd) => fd = g.desc
    BY <1>1, OwnFd
  <1>6. o2.name = o.name /\ o2.mode = o.mode
    BY DEF Advance
  <1>7. ASSUME p = Size, ~x \/ Small PROVE r = AllRead
    <2>1. Decrypt(Key, IV(Key), c.buf) = Saved
      BY <1>1, <1>7, Deciphered
    <2>2. p # 0
      BY <1>7, SizeBounds
    <2> QED BY <1>4, <1>7, <2>1, <2>2 DEF AllRead
  <1>8. p = 0 => r = NothingRead
    BY <1>4 DEF NothingRead
  <1> HIDE DEF o2, g, o, g2, r
  <1>9. /\ \A b \in Apps \ {a} : call'[b] = call[b] /\ fdt'[b] = fdt[b] /\ got'[b] = got[b]
        /\ call'[a] = Idle /\ got'[a] = r
        /\ \A fd \in Fds : tab[fd] = IF fd = g.desc THEN o2 ELSE fdt[a][fd]
    BY <1>4, <1>5, Shapes DEF r
  <1> HIDE DEF tab
  <1>10. Silent(a)
    BY <1>2, <1>4, <1>9 DEF Silent
  <1>11. Spares(a) /\ made \subseteq made' /\ FileGood(F)' /\ F' = F
    BY <1>4, Spared
  <1>12. Stage(6, inst[a], g2, made)
    BY <1>1, <1>4 DEF Orderly, Stage, g
  <1>13. Owned(6, g2, tab)
    BY <1>4, <1>5, <1>6, <1>9 DEF Owned, IsOpen, Live, g
  <1>14. Moving(6, g2, tab, Idle, x)
    BY WholeQuotient DEF Moving, Idle
  <1>15. Kept(6, Idle, x, F)
    BY <1>1 DEF Kept, Stored
  <1>16. Heard(6, x, r)
    BY <1>1, <1>3, <1>7, <1>8 DEF Heard
  <1>17. Said(6, x, verdict[a], prog)
    BY <1>1 DEF Orderly, Said
  <1>18. Orderly(a)'
    BY <1>2, <1>4, <1>9, <1>11, <1>12, <1>13, <1>14, <1>15, <1>16, <1>17 DEF Orderly, g2, tab
  <1> QED BY <1>10, <1>11, <1>18, TidyStep

LEMMA ReadPassTidy ==
  ASSUME Scripted, Scripted', Tidy, NoError, NEW a \in Apps, ReadPass(a)
  PROVE  Tidy'
  <1> DEFINE n == Found(F, call[a].offset)
  <1>1. /\ ocall_read_file_full(a) /\ UNCHANGED <<prog, verdict, intruded>>
        /\ IF call'[a] = Idle
           THEN /\ Returns(a)
                /\ got' = [got EXCEPT ![a] =
                      [stored |-> ret'[a].res # "GENERIC" \/ ret'[a].count > 0,
                       count |-> ret'[a].count, plain |-> ret'[a].data]]
           ELSE UNCHANGED <<at, got>>
    BY DEF ReadPass
  <1>2. call[a].op = "read" /\ Orderly(a)
    BY <1>1 DEF ocall_read_file_full, Tidy
  <1>3. n \in Nat
    <2>1. /\ F \in Seq(Unit) /\ FileGood(F)
          /\ ~intruded[a] => Size <= Len(F) /\ SameTo(F, Size)
          /\ call[a].offset \in Nat /\ Whole(call[a].offset) /\ call[a].offset <= Size
          /\ Small => call[a].offset \in {0, Size}
      BY <1>2, ReaderKnows
    <2> QED BY <2>1, FoundUnits
  <1>4. ReadAll(a, n)
    BY <1>1, <1>2, PassReads
  <1>5. ASSUME n > 0 PROVE Tidy'
    <2> HIDE DEF n
    <2>1. call'[a].op = "read"
      <3>1. n # 0
        BY <1>3, <1>5
      <3>2. \E c2 : call' = [call EXCEPT ![a] = c2] /\ c2.op = call[a].op
        BY <1>4, <3>1 DEF ReadAll, Moved
      <3> QED BY <1>2, <3>2, Shapes
    <2>2. call'[a] # Idle
      BY <2>1 DEF Idle
    <2>3. UNCHANGED <<at, prog, got, verdict, intruded>>
      BY <1>1, <2>2
    <2> QED BY <1>2, <1>4, <1>5, <2>3, ReadOnTidy DEF n
  <1>6. ASSUME n = 0 PROVE Tidy'
    <2>1. ReadAll(a, 0) /\ 0 = Found(F, call[a].offset)
      BY <1>4, <1>6
    <2> HIDE DEF n
    <2>2. call'[a] = Idle /\ ret'[a].res = "SUCCESS"
      BY <2>1, Shapes DEF ReadAll
    <2>3. Goto(a, at[a].step + 1)
      BY <1>1, <2>2 DEF Returns, GP_ASSERT
    <2>4. (ret'[a].res # "GENERIC" \/ ret'[a].count > 0) = TRUE
      BY <2>2
    <2>5. got' = [got EXCEPT ![a] = [stored |-> TRUE, count |-> ret'[a].count,
                                     plain |-> ret'[a].data]]
      BY <1>1, <2>2, <2>4
    <2> QED BY <1>1, <1>2, <2>1, <2>3, <2>5, ReadEndTidy
  <1> QED BY <1>3, <1>5, <1>6

(***************************************************************************)
(*                              The theorems                               *)
(***************************************************************************)

\* Errors of the host are counted, and never forgotten.
LEMMA FaultsStay ==
  ASSUME Scripted, [SampleNext]_allVars, faults' = 0
  PROVE  faults = 0
  <1>1. faults \in Nat
    BY HostAssumption DEF Scripted, Safe, TypeOK
  <1>2. ASSUME NEW k \in Nat, Faults(k) PROVE faults = 0
    BY <1>1, <1>2 DEF Faults
  <1>3. CASE UNCHANGED allVars \/ UNCHANGED vars
    BY <1>3 DEF allVars, vars
  <1>4. CASE \E a \in Apps : ExitsBetween(a)
    BY <1>4 DEF ExitsBetween, ProcessExit
  <1>5. CASE Next
    <2>1. PICK a \in Apps :
            \/ run_enclave(a) \/ EAPP_RETURN(a) \/ Crash(a)
            \/ OpenBadID(a) \/ DataBadParameters(a) \/ CloseNull(a)
            \/ \E flags \in OpenArgs : OpenReadWrite(a, flags) \/ OpenNoMemory(a, flags)
            \/ \E id \in ObjectIDs, flags \in OpenArgs, ocreat \in BOOLEAN :
                  OpenPersistentObject(a, id, flags, ocreat)
            \/ \E h \in Handles :
                  \/ WriteNoMemory(a, h)
                  \/ \E n \in 0..MaxBlocks : \E d \in [1..n -> Data] :
                        TEE_WriteObjectData(a, h, d)
                  \/ \E n \in 0..MaxBlocks : TEE_ReadObjectData(a, h, n)
                  \/ TEE_CloseObject(a, h)
            \/ ocall_write_file_full(a) \/ ocall_read_file_full(a)
      BY <1>5 DEF Next
    <2>2. CASE run_enclave(a) \/ EAPP_RETURN(a) \/ Crash(a) \/ OpenBadID(a)
               \/ DataBadParameters(a) \/ CloseNull(a)
      BY <2>2 DEF run_enclave, EAPP_RETURN, Crash, OpenBadID, DataBadParameters, CloseNull,
                  ProcessExit, hostVars
    <2>3. CASE \E flags \in OpenArgs : OpenReadWrite(a, flags) \/ OpenNoMemory(a, flags)
      BY <1>2, <2>3 DEF OpenReadWrite, OpenNoMemory, hostVars
    <2>4. ASSUME NEW id \in ObjectIDs, NEW flags \in OpenArgs, NEW ocreat \in BOOLEAN,
                 OpenPersistentObject(a, id, flags, ocreat)
          PROVE  faults = 0
      <3>1. PICK f \in 0..1, k \in 0..1 : Faults(f + k)
        BY <2>4 DEF OpenPersistentObject
      <3> QED BY <1>2, <3>1
    <2>5. ASSUME NEW h \in Handles, WriteNoMemory(a, h) \/ TEE_CloseObject(a, h)
          PROVE  faults = 0
      <3>1. PICK f \in 0..1 : Faults(f)
        BY <2>5 DEF WriteNoMemory, TEE_CloseObject
      <3> QED BY <1>2, <3>1
    <2>6. ASSUME NEW h \in Handles, NEW d,
                 TEE_WriteObjectData(a, h, d) \/ TEE_ReadObjectData(a, h, d)
          PROVE  faults = 0
      BY <2>6 DEF TEE_WriteObjectData, TEE_ReadObjectData, hostVars
    <2>7. CASE ocall_write_file_full(a)
      <3>1. PICK f \in 0..1 : Faults(f)
        BY <2>7 DEF ocall_write_file_full
      <3> QED BY <1>2, <3>1
    <2>8. CASE ocall_read_file_full(a)
      <3>1. PICK f \in 0..1, m \in 0..1 : Faults(f + m)
        BY <2>8 DEF ocall_read_file_full
      <3> QED BY <1>2, <3>1
    <2> QED BY <2>1, <2>2, <2>3, <2>4, <2>5, <2>6, <2>7, <2>8
  <1> QED BY <1>3, <1>4, <1>5, StorageStep

InvTidy == Scripted /\ (faults = 0 => Tidy)

LEMMA StepTidy == InvTidy /\ [SampleNext]_allVars => InvTidy'
  <1> SUFFICES ASSUME InvTidy, [SampleNext]_allVars, faults' = 0 PROVE Tidy'
    BY StepScripted DEF InvTidy
  <1>1. Scripted /\ Scripted' /\ NoError /\ Tidy
    BY StepScripted, FaultsStay DEF InvTidy, NoError
  <1>2. CASE UNCHANGED allVars
    BY <1>1, <1>2 DEF allVars, vars, sampleVars, Tidy, Orderly, Spot, F, Stage, Owned, Moving,
                      Kept, Heard, Said, FileGood, Stream, SameTo, Stored
  <1>3. ASSUME NEW a \in Apps, StartMain(a) \/ Killed(a) \/ Progress(a) PROVE Tidy'
    <2>1. CASE StartMain(a)
      BY <1>1, <2>1, StartTidy
    <2>2. CASE Killed(a) \/ MainReturns(a)
      <3>1. /\ InMain(a) /\ EndMain(a) /\ ProcessExit(a)
            /\ ExitsBetween(a) \/ LeaveInstance(a, "none")
        BY <2>2 DEF Killed, MainReturns, Crash, ExitsBetween
      <3> QED BY <1>1, <3>1, EndTidy
    <2>3. CASE NextCommand(a)
      BY <1>1, <2>3, NextCommandTidy
    <2>4. CASE CommandReturns(a)
      BY <1>1, <2>4, CommandTidy
    <2>5. CASE CreateObject(a)
      BY <1>1, <2>5, CreateTidy
    <2>6. CASE OpenObject(a)
      BY <1>1, <2>6, OpenTidy
    <2>7. CASE CloseObject(a)
      BY <1>1, <2>7, CloseTidy
    <2>8. CASE Compare(a)
      BY <1>1, <2>8, CompareTidy
    <2>9. CASE WriteObject(a)
      BY <1>1, <2>9, WriteStartTidy
    <2>10. CASE WritePass(a)
      BY <1>1, <2>10, WritePassTidy
    <2>11. CASE ReadObject(a)
      BY <1>1, <2>11, ReadStartTidy
    <2>12. CASE ReadPass(a)
      BY <1>1, <2>12, ReadPassTidy
    <2> QED BY <1>3, <2>1, <2>2, <2>3, <2>4, <2>5, <2>6, <2>7, <2>8, <2>9, <2>10, <2>11,
               <2>12 DEF Progress
  <1> QED BY <1>2, <1>3 DEF SampleNext

LEMMA InitTidy == SampleInit => InvTidy
  <1> SUFFICES ASSUME SampleInit PROVE Tidy
    BY InitScripted DEF InvTidy
  <1>1. Scripted
    BY InitScripted
  <1>2. F = << >>
    BY ProgramFacts DEF SampleInit, Init, HostInit, F
  <1>3. FileGood(<< >>)
    BY SizeBounds, WholeQuotient DEF FileGood, SameTo
  <1>4. ASSUME NEW a \in Apps PROVE Orderly(a)
    <2>1. /\ inst[a] = "none" /\ handle[a][object] = NULL /\ call[a] = Idle
          /\ fdt[a] = [fd \in Fds |-> ClosedFd] /\ at[a] = NotInMain
          /\ verdict[a] = NoVerdict
      BY ProgramFacts DEF SampleInit, Init, HostInit
    <2>2. Spot(a) = 0
      BY <2>1 DEF Spot, Where, NotInMain
    <2>3. Stage(0, "none", NULL, made) /\ Owned(0, NULL, [fd \in Fds |-> ClosedFd])
      BY DEF Stage, Owned, NULL, ClosedFd
    <2>4. Moving(0, NULL, fdt[a], Idle, intruded[a])
      BY WholeQuotient DEF Moving, Idle
    <2>5. Kept(0, Idle, intruded[a], << >>)
      BY DEF Kept, Stored, SameTo
    <2>6. Heard(0, intruded[a], got[a]) /\ Said(0, intruded[a], NoVerdict, prog)
      BY DEF Heard, Said, NoVerdict
    <2> QED BY <1>2, <2>1, <2>2, <2>3, <2>4, <2>5, <2>6 DEF Orderly
  <1> QED BY <1>2, <1>3, <1>4 DEF Tidy

LEMMA AlwaysTidy == SampleSpec => []InvTidy
  BY InitTidy, StepTidy, PTL DEF SampleSpec

\* Without host errors every descriptor left open is that of a live handle:
\* however commands are interleaved or killed, none is left behind.
THEOREM NoDescriptorLeaks == SampleSpec => []NothingLeaks
  <1>1. ASSUME InvTidy, faults = 0, NEW a \in Apps, NEW fd \in Fds, IsOpen(a, fd)
        PROVE  \E h \in Handles : Live(a, h) /\ handle[a][h].desc = fd
    <2>1. Owned(Spot(a), handle[a][object], fdt[a])
      BY <1>1 DEF InvTidy, Tidy, Orderly
    <2>2. Live(a, object) /\ handle[a][object].desc = fd
      BY <1>1, <2>1 DEF Owned, IsOpen, Live
    <2> QED BY <2>2, ProgramFacts
  <1>2. InvTidy => NothingLeaks
    BY <1>1 DEF NothingLeaks
  <1> QED BY <1>2, AlwaysTidy, PTL

\* Without host errors and without an intruder what one instance has stored,
\* the next one reads and compares in full, and finds equal.
THEOREM StoredIsReadBack == SampleSpec => []RoundTrip
  <1>1. ASSUME InvTidy, faults = 0, NEW a \in Apps, verdict[a].says # "none", ~intruded[a]
        PROVE  verdict[a] = [says |-> "ok", compared |-> BLK * Len(Saved)]
    <2>1. Said(Spot(a), intruded[a], verdict[a], prog)
      BY <1>1 DEF InvTidy, Tidy, Orderly
    <2> QED BY <1>1, <2>1 DEF Said, Size
  <1>2. InvTidy => RoundTrip
    BY <1>1 DEF RoundTrip
  <1> QED BY <1>2, AlwaysTidy, PTL

\* Without host errors the digest sample never says that the hash is wrong, even
\* when other processes empty and rewrite the file under it, as long as the
\* object fits one ocall (a hash does): then the file is empty or complete.
THEOREM NeverAFalseAlarm ==
  ASSUME BLK * Len(Saved) <= CAP
  PROVE  SampleSpec => []NoFalseAlarm
  <1>1. ASSUME InvTidy, faults = 0, prog = "digest", NEW a \in Apps
        PROVE  verdict[a].says # "fails"
    <2>1. Said(Spot(a), intruded[a], verdict[a], prog)
      BY <1>1 DEF InvTidy, Tidy, Orderly
    <2>2. Small
      BY DEF Small, Size
    <2> QED BY <1>1, <2>1, <2>2 DEF Said
  <1>2. InvTidy => NoFalseAlarm
    BY <1>1 DEF NoFalseAlarm
  <1> QED BY <1>2, AlwaysTidy, PTL

=============================================================================
