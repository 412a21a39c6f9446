------------------------------ MODULE SampleTA ------------------------------
(***************************************************************************)
(* Two programs that store something, read it back and compare, on top of  *)
(* PersistentObject: samples/message_digest, which writes a hash in one    *)
(* command and checks it in the next, each in an enclave instance of its   *)
(* own, and ignores every result; and gp/secure_stoage.c, which does both  *)
(* in one instance and gives up at the first call that fails (GP_ASSERT).  *)
(* The storage helpers of the other samples are the same code, and those   *)
(* of samples/secure_system differ in the size only.                       *)
(*                                                                         *)
(* Several host processes run the same program at once.  They load the     *)
(* same enclave, so they share the object's file and its key.              *)
(***************************************************************************)
EXTENDS PersistentObject

CONSTANTS
    Programs,       \* subset of {"digest", "gp"}
    Saved,          \* the blocks the program writes and compares with
    fname,          \* the object id
    object,         \* the handle variable
    MaxMains        \* bound on the number of times main is started

\* The TA has one handle variable, all processes load the same enclave, and a
\* start of main opens the object at most twice.
ASSUME SampleAssumption ==
    /\ Programs \subseteq {"digest", "gp"}
    /\ Saved \in Seq(Data) /\ Len(Saved) \in 1..MaxBlocks
    /\ fname \in ObjectIDs /\ Handles = {object}
    /\ \A a, b \in Apps : TaOf[a] = TaOf[b]
    /\ MaxMains \in Nat /\ MaxOpens >= 2 * MaxMains

VARIABLES
    prog,           \* the program all processes run
    at,             \* at[a]: main's command (0: main is not running) and its step
    got,            \* got[a]: count and buf after TEE_ReadObjectData
    verdict,        \* verdict[a]: what the comparison said, over how many units
    intruded,       \* history: another process has emptied a's object since a
                    \* created it
    mains           \* history: mains started so far

sampleVars == <<prog, at, got, verdict, intruded, mains>>
allVars == <<vars, sampleVars>>

(***************************************************************************)
(* main is a list of commands, a command a list of API calls.              *)
(***************************************************************************)
Main(p) == IF p = "digest" THEN <<"gen", "check">> ELSE <<"test">>

Store_NoClose == <<"create", "write">>
Store == <<"create", "write", "close">>       \* secure_storage_write
Load == <<"open", "read", "close">>           \* secure_storage_read

Script(cmd) ==
    CASE cmd = "gen" -> Store
      [] cmd = "check" -> Load \o <<"compare">>
      [] cmd = "test" -> Store \o Load \o <<"compare">>

NotInMain == [cmd |-> 0, step |-> 1]
\* count is uninitialised until TEE_ReadObjectData stores it; plain is what buf
\* holds of decrypted blocks, any other contents being different from Saved.
Unread == [stored |-> FALSE, count |-> 0, plain |-> << >>]
NoVerdict == [says |-> "none", compared |-> 0]

SampleInit ==
    /\ Init
    /\ prog \in Programs
    /\ at = [a \in Apps |-> NotInMain]
    /\ got = [a \in Apps |-> Unread]
    /\ verdict = [a \in Apps |-> NoVerdict]
    /\ intruded = [a \in Apps |-> FALSE]
    /\ mains = 0

InMain(a) == at[a].cmd # 0
Calls(a) == Script(Main(prog)[at[a].cmd])
\* The TA is about to make the call.
At(a, api) ==
    /\ InMain(a) /\ Running(a)
    /\ at[a].step <= Len(Calls(a))
    /\ Calls(a)[at[a].step] = api

\* GP_ASSERT of a debug build (GP_VERBOSE): the test function returns, with
\* whatever it has open.
GP_ASSERT(a, res) == prog = "gp" /\ res # "SUCCESS"

Goto(a, s) == at' = [at EXCEPT ![a].step = s]
Returns_PastEnd(a) ==
    Goto(a, IF GP_ASSERT(a, ret'[a].res) THEN Len(Calls(a)) + 2 ELSE at[a].step + 1)
\* The call made at this step returns.
Returns(a) ==
    Goto(a, IF GP_ASSERT(a, ret'[a].res) THEN Len(Calls(a)) + 1 ELSE at[a].step + 1)

(***************************************************************************)
(* The host's main: run_enclave for each command, whatever came of the one *)
(* before, then exit.                                                      *)
(***************************************************************************)
StartMain(a) ==
    /\ ~InMain(a)
    /\ mains < MaxMains /\ mains' = mains + 1
    /\ run_enclave(a)
    /\ at' = [at EXCEPT ![a] = [cmd |-> 1, step |-> 1]]
    /\ verdict' = [verdict EXCEPT ![a] = NoVerdict]
    /\ UNCHANGED <<prog, got, intruded>>

NextCommand(a) ==
    /\ InMain(a) /\ inst[a] # "run"
    /\ at[a].cmd < Len(Main(prog))
    /\ run_enclave(a)
    /\ at' = [at EXCEPT ![a] = [cmd |-> @.cmd + 1, step |-> 1]]
    /\ UNCHANGED <<prog, got, verdict, intruded, mains>>

\* The process ends and the kernel closes what it has left open.
EndMain(a) ==
    /\ at' = [at EXCEPT ![a] = NotInMain]
    /\ got' = [got EXCEPT ![a] = Unread]
    /\ UNCHANGED <<prog, verdict, intruded, mains>>

MainReturns(a) ==
    /\ InMain(a) /\ inst[a] # "run"
    /\ at[a].cmd = Len(Main(prog))
    /\ ProcessExit(a)
    /\ EndMain(a)
    /\ UNCHANGED <<inst, handle, call, ret, written, opens>>

\* The process is killed, in an enclave or, as when enclave.init fails and main
\* calls exit(-1), between two.
Killed(a) ==
    /\ InMain(a)
    /\ \/ Crash(a)
       \/ /\ CanCrash /\ inst[a] # "run"
          /\ ProcessExit(a)
          /\ UNCHANGED <<inst, handle, call, ret, written, opens>>
    /\ EndMain(a)

(***************************************************************************)
(* The TA's calls.                                                         *)
(***************************************************************************)
ForWriting == [read |-> FALSE, write |-> TRUE, overwrite |-> TRUE]
ForReading == [read |-> TRUE, write |-> FALSE, overwrite |-> FALSE]

\* The open has emptied the file also when the key could not be derived.
CreateObject(a) ==
    /\ At(a, "create")
    /\ \/ OpenPersistentObject(a, fname, ForWriting, TRUE)
       \/ OpenNoMemory(a, ForWriting)
    /\ Returns(a)
    /\ intruded' = IF ret'[a].res \in {"SUCCESS", "SECURITY"}
                   THEN [b \in Apps |-> b # a] ELSE intruded
    /\ UNCHANGED <<prog, got, verdict, mains>>

OpenObject(a) ==
    /\ At(a, "open")
    /\ \/ OpenPersistentObject(a, fname, ForReading, FALSE)
       \/ OpenNoMemory(a, ForReading)
    /\ Returns(a)
    /\ UNCHANGED <<prog, got, verdict, intruded, mains>>

\* An open that fails leaves object as it was, uninitialised: a null handle is
\* refused by read and write, any other one traps.
Uninitialised(a) ==
    /\ ~Live(a, object)
    /\ \/ DataBadParameters(a) /\ Returns(a)
       \/ CloseNull(a) /\ UNCHANGED at

WriteObject(a) ==
    /\ At(a, "write")
    /\ \/ TEE_WriteObjectData(a, object, Saved) /\ UNCHANGED at
       \/ WriteNoMemory(a, object) /\ Returns(a)
       \/ Uninitialised(a)
    /\ UNCHANGED <<prog, got, verdict, intruded, mains>>

WritePass(a) ==
    /\ InMain(a)
    /\ ocall_write_file_full(a)
    /\ IF call'[a] = Idle THEN Returns(a) ELSE UNCHANGED at
    /\ UNCHANGED <<prog, got, verdict, intruded, mains>>

ReadObject(a) ==
    /\ At(a, "read")
    /\ \/ TEE_ReadObjectData(a, object, Len(Saved)) /\ UNCHANGED at
       \/ Uninitialised(a)
    /\ UNCHANGED <<prog, got, verdict, intruded, mains>>

\* A read that fails before the first byte stores no count.
ReadPass(a) ==
    /\ InMain(a)
    /\ ocall_read_file_full(a)
    /\ IF call'[a] = Idle
       THEN /\ Returns(a)
            /\ got' = [got EXCEPT ![a] =
                  [stored |-> ret'[a].res # "GENERIC" \/ ret'[a].count > 0,
                   count |-> ret'[a].count, plain |-> ret'[a].data]]
       ELSE UNCHANGED <<at, got>>
    /\ UNCHANGED <<prog, verdict, intruded, mains>>

CloseObject(a) ==
    /\ At(a, "close")
    /\ IF Live(a, object) THEN TEE_CloseObject(a, object) ELSE CloseNull(a)
    /\ Goto(a, at[a].step + 1)
    /\ UNCHANGED <<prog, got, verdict, intruded, mains>>

\* memcmp of the first n units of buf with Saved.
memcmp(g, n) ==
    /\ n <= BLK * Len(g.plain)
    /\ \A j \in 1..Len(Saved) : (j - 1) * BLK < n => g.plain[j] = Saved[j]

\* The digest sample compares as many bytes as it has read, the GP test all of
\* them (a cleared buf differs from Saved).  With no count stored the sample
\* compares an arbitrary number of arbitrary bytes.
Compare(a) ==
    /\ At(a, "compare")
    /\ \E n \in 0..(BLK * Len(Saved)), ok \in BOOLEAN :
          /\ n = CASE prog = "gp" -> BLK * Len(Saved)
                   [] prog = "digest" /\ got[a].stored -> got[a].count
                   [] OTHER -> n
          /\ (prog = "gp" \/ got[a].stored) => ok = memcmp(got[a], n)
          /\ verdict' = [verdict EXCEPT ![a] =
                            [says |-> IF ok THEN "ok" ELSE "fails", compared |-> n]]
    /\ Goto(a, at[a].step + 1)
    /\ UNCHANGED <<vars, prog, got, intruded, mains>>

\* TA_InvokeCommandEntryPoint returns to eapp_entry.
CommandReturns(a) ==
    /\ InMain(a) /\ at[a].step = Len(Calls(a)) + 1
    /\ EAPP_RETURN(a)
    /\ UNCHANGED sampleVars

Progress(a) ==
    \/ NextCommand(a) \/ MainReturns(a) \/ CommandReturns(a)
    \/ CreateObject(a) \/ OpenObject(a) \/ CloseObject(a) \/ Compare(a)
    \/ WriteObject(a) \/ WritePass(a) \/ ReadObject(a) \/ ReadPass(a)

SampleNext == \E a \in Apps : StartMain(a) \/ Killed(a) \/ Progress(a)

\* A process that has been started keeps running unless it is killed.
SampleFairness == \A a \in Apps : WF_allVars(Progress(a))

SampleSpec == SampleInit /\ [][SampleNext]_allVars /\ SampleFairness

(***************************************************************************)
(*                               Properties                                *)
(***************************************************************************)

\* The control state stays inside the scripts, and an instance runs only inside
\* main.
SampleTypeOK ==
    /\ prog \in Programs
    /\ \A a \in Apps :
          /\ at[a].cmd \in 0..Len(Main(prog))
          /\ InMain(a) => at[a].step \in 1..(Len(Calls(a)) + 1)
          /\ inst[a] = "run" => InMain(a)
    /\ got \in [Apps -> [stored : BOOLEAN, count : 0..(BLK * MaxBlocks),
                         plain : Seq(Data \cup {Garbage})]]
    /\ verdict \in [Apps -> [says : {"none", "ok", "fails"},
                             compared : 0..(BLK * MaxBlocks)]]
    /\ intruded \in [Apps -> BOOLEAN]
    /\ mains \in 0..MaxMains

\* End to end: without host errors, and unless another process has emptied the
\* object in between, what one instance stored another one reads, and the
\* comparison covers all of it and succeeds ("verify ok", "hash: matched!"),
\* even when the process is one of several and others are killed at any point.
RoundTrip ==
    faults = 0 =>
        \A a \in Apps : (verdict[a].says # "none" /\ ~intruded[a]) =>
            verdict[a] = [says |-> "ok", compared |-> BLK * Len(Saved)]

\* The digest sample never raises a false alarm without host errors: processes
\* that run it side by side empty and rewrite the same file, and a check that
\* meets it in any state reads a prefix of the hash, never something else.
\* (A hash fits one ocall: the writes of an object that does not could leave a
\* hole in a file that another process empties in between.)
NoFalseAlarm ==
    (faults = 0 /\ prog = "digest") =>
        \A a \in Apps : verdict[a].says # "fails"

\* Without host errors no command leaves a descriptor behind in its host
\* process: each open one is that of a live handle (nothing closes descriptors
\* when an instance ends, so a leak would last until the process exits).
NothingLeaks ==
    faults = 0 =>
        \A a \in Apps : \A fd \in Fds :
            IsOpen(a, fd) => \E h \in Handles : Live(a, h) /\ handle[a][h].desc = fd

\* main always ends: failing calls, uninitialised handles, panics and the other
\* processes delay it by no more than the commands that remain.
MainEnds == \A a \in Apps : InMain(a) ~> ~InMain(a)

=============================================================================
