------------------------------ MODULE Profiler ------------------------------
(***************************************************************************)
(* The profiler: the hooks that the compiler puts at the entry and the     *)
(* exit of every instrumented function (profiler/profiler.c), the log file *)
(* they end up in (profiler/*/tee_profiler.c, tools.c), and the analyzer   *)
(* that turns the log back into one row per function call                  *)
(* (profiler/analyzer).                                                    *)
(*                                                                         *)
(* In a Keystone enclave the log goes through ocall_write_file, which      *)
(* transfers at most 256 bytes: nine records and the first two thirds of   *)
(* the tenth, whose address is missing.  The whole buffer reaches the log  *)
(* from the application, from an SGX enclave (one ocall) and from an       *)
(* OP-TEE TA (through the client's buffer).  Targets lists the two.        *)
(*                                                                         *)
(* A time is the number of readings of the clock since the profiler was    *)
(* mapped.  Addresses are numbers; a symbol file is a sequence of lines of *)
(* nm.                                                                     *)
(*                                                                         *)
(* A definition Op_Variant is Op with one plausible mistake; nothing uses  *)
(* it but the sensitivity checks, which put it in the place of Op.         *)
(***************************************************************************)
EXTENDS Integers, Sequences, SequencesExt

CONSTANTS
    Funcs,      \* addresses of the instrumented functions
    Base,       \* __ImageBase, the address the program is loaded at
    Harts,      \* the ids of the cores
    NmFiles,    \* the symbol files
    MAX_ADDR,   \* an address in a symbol file is below it
    HASH_SIZE,  \* chains of the hash table
    STACK_SIZE, \* frames of the analyzer's stack; no program nests deeper
    Targets,    \* the builds: [recs, cut], whole records that reach the log file,
                \* and whether one more reaches it without its address
    MaxCalls,   \* bound on the calls in all runs; PERF_SIZE is enough for their records
    MaxRuns     \* bound on the runs of the profiled program

ASSUME ProfilerAssumption ==
    /\ Base \in Nat /\ \A f \in Funcs : f \in Nat /\ f >= Base
    /\ Harts \subseteq Nat
    /\ HASH_SIZE \in Nat \ {0} /\ STACK_SIZE \in Nat /\ MAX_ADDR \in Nat
    /\ Targets \subseteq [recs : Nat \ {0}, cut : BOOLEAN]
    /\ NmFiles \subseteq Seq([addr : Int, name : STRING])
    /\ \A file \in NmFiles : file # << >> => file[1].addr >= 0
    /\ MaxCalls \in Nat /\ MaxRuns \in Nat

VARIABLES
    proc,       \* the profiled process: "none" or "running"
    mapped,     \* __profiler_head # NULL
    perf,       \* the records of perf_buffer; idx is their number
    frames,     \* the calls of instrumented functions that are active
    done,       \* history: the calls completed while the profiler was mapped
    clock,      \* readings of the clock since the profiler was mapped
    runs, calls,
    target,     \* the build: never changes
    log,        \* the log file: idx and the records in it
    logged,     \* history: done when the log was written
    nm,         \* the symbol file
    an          \* the analyzer

vars == <<proc, mapped, perf, frames, done, clock, runs, calls, target, log, logged, nm, an>>

START == 0      \* direction_t
CALL == 1
RET == 2

Record(dir, hart, nsec, callee) ==
    [direction |-> dir, hartid |-> hart, nsec |-> nsec, callee |-> callee]
ZeroRecord == Record(START, 0, 0, 0)

NoLog == [idx |-> 0, recs |-> << >>]
Idle == [st |-> "idle", buf |-> NoLog, i |-> 0, stack |-> << >>, rows |-> << >>]

Init ==
    /\ proc = "none" /\ mapped = FALSE
    /\ perf = << >> /\ frames = << >> /\ done = << >>
    /\ clock = 0 /\ runs = 0 /\ calls = 0
    /\ log = NoLog /\ logged = << >>
    /\ nm \in NmFiles /\ target \in Targets
    /\ an = Idle

(***************************************************************************)
(*                         The profiled program                            *)
(***************************************************************************)
Start ==
    /\ proc = "none" /\ an.st = "idle" /\ runs < MaxRuns
    /\ proc' = "running"
    /\ runs' = runs + 1
    /\ UNCHANGED <<mapped, perf, frames, done, clock, log, logged, calls, target, nm, an>>

\* Called before the first instrumented function and outside of all of them.
__profiler_map_info ==
    /\ proc = "running" /\ ~mapped /\ frames = << >> /\ perf = << >>
    /\ mapped' = TRUE
    /\ \E hart \in Harts : perf' = <<Record(START, hart, 0, Base)>>
    /\ clock' = 1
    /\ UNCHANGED <<proc, frames, done, runs, log, logged, calls, target, nm, an>>

__cyg_profile_func_Always(dir, hart, fn) == Append(perf, Record(dir, hart, clock, fn))
\* The buffer after the hook has run.
__cyg_profile_func(dir, hart, fn) ==
    IF mapped THEN Append(perf, Record(dir, hart, clock, fn)) ELSE perf

__cyg_profile_func_enter(fn, hart) ==
    /\ proc = "running" /\ Len(frames) < STACK_SIZE
    /\ calls < MaxCalls /\ calls' = calls + 1
    /\ perf' = __cyg_profile_func(CALL, hart, fn)
    /\ frames' = Append(frames, [fn |-> fn, start |-> clock, hart |-> hart])
    /\ clock' = IF mapped THEN clock + 1 ELSE clock
    /\ UNCHANGED <<proc, mapped, done, runs, log, logged, target, nm, an>>

__cyg_profile_func_exit(hart) ==
    /\ proc = "running" /\ frames # << >>
    /\ LET f == Last(frames) IN
       /\ perf' = __cyg_profile_func(RET, hart, f.fn)
       /\ done' = IF mapped
                  THEN Append(done, [fn |-> f.fn, depth |-> Len(frames) - 1,
                                     start |-> f.start, end |-> clock,
                                     start_hartid |-> f.hart, end_hartid |-> hart])
                  ELSE done
    /\ frames' = Front(frames)
    /\ clock' = IF mapped THEN clock + 1 ELSE clock
    /\ UNCHANGED <<proc, mapped, runs, log, logged, calls, target, nm, an>>

\* What one write of the buffer leaves in the file.
Written(recs) ==
    IF Len(recs) <= target.recs THEN recs
    ELSE SubSeq(recs, 1, target.recs) \o
         (IF target.cut THEN <<[recs[target.recs + 1] EXCEPT !.callee = 0]>> ELSE << >>)

\* The log is written, unless it cannot be opened or written; the program ends.
__profiler_unmap_info ==
    /\ proc = "running" /\ mapped /\ frames = << >>
    /\ mapped' = FALSE /\ proc' = "none" /\ perf' = << >> /\ done' = << >>
    /\ \/ log' = [idx |-> Len(perf), recs |-> Written(perf)] /\ logged' = done
       \/ UNCHANGED <<log, logged>>
    /\ UNCHANGED <<frames, clock, runs, calls, target, nm, an>>

\* TEE_Panic in the enclave, exit in the application: nothing is unmapped.
Die ==
    /\ proc = "running"
    /\ mapped' = FALSE /\ proc' = "none"
    /\ perf' = << >> /\ frames' = << >> /\ done' = << >>
    /\ UNCHANGED <<clock, runs, log, logged, calls, target, nm, an>>

(***************************************************************************)
(* The symbol table.  A line of nm is [addr, name]; a symbol without an    *)
(* address is a line with addr -1, for which sscanf assigns nothing and    *)
(* addr and func_name keep what the previous line has left in them.        *)
(***************************************************************************)
NULL == "NULL"
get_key(addr) == addr % HASH_SIZE

\* The lines as the loop of parse_nm sees them.
Lines(file) ==
    [i \in 1..Len(file) |->
        file[CHOOSE j \in 1..i : /\ file[j].addr >= 0
                                 /\ \A k \in (j + 1)..i : file[k].addr < 0]]

parse_nm_fails == \E i \in 1..Len(nm) : nm[i].addr >= MAX_ADDR

\* The lines in the chain of key.  insert_nm puts a new element at the head, so
\* a search meets the last line first.
Chain(key) == {i \in 1..Len(nm) : get_key(Lines(nm)[i].addr) = key}

get_func_name_First(addr) ==
    LET chain == Chain(get_key(addr))
    IN  IF chain = {} THEN NULL ELSE Lines(nm)[Max(chain)].name
get_func_name(addr) ==
    LET hits == {i \in Chain(get_key(addr)) : Lines(nm)[i].addr = addr}
    IN  IF hits = {} THEN NULL ELSE Lines(nm)[Max(hits)].name

(***************************************************************************)
(*                             The analyzer                                *)
(***************************************************************************)
\* The static buffer is zero where the file has ended.
RecordAt(i) == IF i < Len(an.buf.recs) THEN an.buf.recs[i + 1] ELSE ZeroRecord

analyzer ==
    /\ proc = "none" /\ an.st = "idle" /\ log # NoLog
    /\ an' = [Idle EXCEPT !.st = IF parse_nm_fails THEN "end" ELSE "loop", !.buf = log]
    /\ UNCHANGED <<proc, mapped, perf, frames, done, clock, runs, log, logged, calls, target, nm>>

Frame(r, pos) ==
    [callee |-> r.callee, start |-> r.nsec, hartid |-> r.hartid, depth |-> pos]
push_NoPos(r) == Append(an.stack, Frame(r, 0))
push(r) == Append(an.stack, Frame(r, Len(an.stack)))

\* Addresses in the symbol file are relative to the one in the START record.
addr(callee) == callee - RecordAt(0).callee

Row(d, r) ==
    LET a == addr(d.callee)
    IN  [depth |-> d.depth, addr |-> a, name |-> get_func_name(a),
         start |-> d.start, end |-> r.nsec,
         start_hartid |-> d.hartid, end_hartid |-> r.hartid]

LoopDone_OneLess == an.i + 1 >= an.buf.idx
LoopDone == an.i >= an.buf.idx

\* The record of a call, or of a return from a call that is on the stack.
Placed(r) == r.direction \in (IF an.stack = << >> THEN {CALL} ELSE {CALL, RET})

\* One pass of the loop of main over the records.
AnalyzeRecord ==
    /\ an.st = "loop" /\ ~LoopDone
    /\ LET r == RecordAt(an.i) IN
       \/ /\ an.i = 0
          /\ an' = [an EXCEPT !.i = 1]
       \/ /\ an.i > 0 /\ Placed(r) /\ r.direction = CALL
          /\ an' = [an EXCEPT !.i = @ + 1, !.stack = push(r)]
       \/ /\ an.i > 0 /\ Placed(r) /\ r.direction = RET
          /\ an' = [an EXCEPT !.i = @ + 1, !.stack = Front(an.stack),
                              !.rows = Append(@, Row(Last(an.stack), r))]
    /\ UNCHANGED <<proc, mapped, perf, frames, done, clock, runs, log, logged, calls, target, nm>>

\* The loop is over, or meets a record that it cannot place.
AnalyzerEnds ==
    /\ an.st = "loop"
    /\ \/ LoopDone
       \/ ~LoopDone /\ an.i > 0 /\ ~Placed(RecordAt(an.i))
    /\ an' = [an EXCEPT !.st = "end"]
    /\ UNCHANGED <<proc, mapped, perf, frames, done, clock, runs, log, logged, calls, target, nm>>

AnalyzerExits ==
    /\ an.st = "end"
    /\ an' = Idle
    /\ UNCHANGED <<proc, mapped, perf, frames, done, clock, runs, log, logged, calls, target, nm>>

Next ==
    \/ Start \/ __profiler_map_info \/ __profiler_unmap_info \/ Die
    \/ \E hart \in Harts :
          \/ \E fn \in Funcs : __cyg_profile_func_enter(fn, hart)
          \/ __cyg_profile_func_exit(hart)
    \/ analyzer \/ AnalyzeRecord \/ AnalyzerEnds \/ AnalyzerExits

Spec == Init /\ [][Next]_vars

(***************************************************************************)
(*                               Properties                                *)
(***************************************************************************)
IsRecord(r) ==
    /\ r.direction \in {START, CALL, RET} /\ r.hartid \in Harts
    /\ r.nsec \in Nat /\ r.callee \in Funcs \cup {Base, 0}

\* The types of the profiler's and the analyzer's state; records exist from
\* __profiler_map_info on only, so that the first one is the START record.
TypeOK ==
    /\ proc \in {"none", "running"} /\ mapped \in BOOLEAN
    /\ clock \in Nat /\ calls \in 0..MaxCalls /\ runs \in 0..MaxRuns
    /\ target \in Targets /\ nm \in NmFiles
    /\ Len(perf) <= 2 * MaxCalls + 1 /\ Len(frames) <= STACK_SIZE
    /\ \A i \in 1..Len(perf) : IsRecord(perf[i]) /\ (perf[i].direction = START <=> i = 1)
    /\ \A i \in 1..Len(frames) : frames[i].fn \in Funcs
    /\ \A i \in 1..Len(log.recs) : IsRecord(log.recs[i])
    /\ an.st \in {"idle", "loop", "end"} /\ an.i \in 0..(2 * MaxCalls + 1)

Call(row) == [fn |-> row.addr + Base, depth |-> row.depth, start |-> row.start,
              end |-> row.end, start_hartid |-> row.start_hartid,
              end_hartid |-> row.end_hartid]

\* Every row the analyzer has printed is a call that the profiled program has
\* made, with its function, nesting depth, times and cores, and the rows come
\* in the order in which the calls of one run have ended: none is made up of
\* two calls and none is skipped, even where the log is cut inside a record.
RowsTrue ==
    /\ Len(an.rows) <= Len(logged)
    /\ \A i \in 1..Len(an.rows) : Call(an.rows[i]) = logged[i]

\* The analyzer stops only where the log stops: the calls that have a row are
\* those whose exit record is in the log file, the one in a cut record too.
NothingMissing ==
    (an.st = "end" /\ ~parse_nm_fails) =>
        \A i \in 1..Len(logged) :
            i <= Len(an.rows) <=>
                logged[i].end < target.recs + (IF target.cut THEN 1 ELSE 0)

\* A row carries a name that the symbol file gives to its address, whatever
\* other symbols share the chain of the hash table, and none if there is none.
NamesTrue ==
    \A i \in 1..Len(an.rows) :
        LET names == {nm[j].name : j \in {k \in 1..Len(nm) : nm[k].addr = an.rows[i].addr}}
        IN  IF names = {} THEN an.rows[i].name = NULL ELSE an.rows[i].name \in names

=============================================================================
