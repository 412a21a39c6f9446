----------------------------- MODULE HostFiles -----------------------------
(***************************************************************************)
(* The untrusted host as the enclave sees it: one file system shared by    *)
(* all host processes, one descriptor table per host process (App), and    *)
(* the four file ocalls of edger/keyedge/Enclave_u.c, each of which is one *)
(* POSIX call.  File contents are sequences of opaque units (a unit stands *)
(* for a few bytes).  The kernel itself is outside the repository: it is   *)
(* modelled from what the ocalls rely on.  A transfer moves at most what   *)
(* was asked for; ocall_read_file and the loops above it, which check      *)
(* nothing of the kind, rely on that.                                      *)
(***************************************************************************)
EXTENDS Integers, Sequences, FiniteSets

CONSTANTS
    Apps,       \* host processes; each one runs enclaves one after another
    Names,      \* file names
    NoFile,     \* "this descriptor is closed"
    MaxFd,      \* descriptors 0..MaxFd: RLIMIT_NOFILE, scaled down
    Hole,       \* the unit a sparse region of a file reads as
    MaxFaults   \* bound on host errors and short transfers per behaviour

ASSUME HostAssumption ==
    /\ NoFile \notin Names
    /\ MaxFd \in Nat
    /\ MaxFaults \in Nat

VARIABLES
    made,       \* names that exist in the file system
    file,       \* contents of every name (empty when the name is not made)
    fdt,        \* fdt[a][fd]: the open file behind descriptor fd of process a
    faults      \* host faults injected so far

hostVars == <<made, file, fdt, faults>>

Fds == 0..MaxFd
Modes == {"r", "w"}                 \* O_RDONLY, O_WRONLY

OpenFile == [name : Names \cup {NoFile}, pos : Nat, mode : Modes]
ClosedFd == [name |-> NoFile, pos |-> 0, mode |-> "r"]

Advance(o, n) == [name |-> o.name, pos |-> o.pos + n, mode |-> o.mode]

IsOpen(a, fd) == fd \in Fds /\ fdt[a][fd].name # NoFile
FreeFds(a) == {fd \in Fds : fdt[a][fd].name = NoFile}

HostInit ==
    /\ made = {}
    /\ file = [n \in Names |-> << >>]
    /\ fdt = [a \in Apps |-> [fd \in Fds |-> ClosedFd]]
    /\ faults = 0

\* k host faults happen in this step.  Every operation below says with its
\* last parameter f (0 or 1) whether its outcome is a fault.
Faults(k) == faults + k <= MaxFaults /\ faults' = faults + k

(***************************************************************************)
(* open(2): the lowest free descriptor, or -1.  "of" is the decoded oflags *)
(* argument; of.valid is FALSE for the -1 that flags2flags returns when    *)
(* neither access right is asked for (the kernel rejects it).  O_TRUNC     *)
(* empties the file whatever the access mode, as Linux does.               *)
(***************************************************************************)
OpenFlags == [valid : BOOLEAN, mode : Modes, creat : BOOLEAN, trunc : BOOLEAN]

CanOpen(a, n, of) ==
    /\ of.valid
    /\ n \in made \/ of.creat
    /\ FreeFds(a) # {}

LowestFree(a, fd) == fd \in FreeFds(a) /\ \A g \in FreeFds(a) : fd <= g

ocall_open_file(a, n, of, ret, f) ==
    \/ /\ CanOpen(a, n, of)
       /\ LowestFree(a, ret) /\ f = 0
       /\ made' = made \cup {n}
       /\ file' = IF of.trunc THEN [file EXCEPT ![n] = << >>] ELSE file
       /\ fdt' = [fdt EXCEPT ![a][ret] =
                     [name |-> n, pos |-> 0, mode |-> of.mode]]
    \/ /\ ret = -1
       /\ f = IF CanOpen(a, n, of) THEN 1 ELSE 0
       /\ UNCHANGED <<made, file, fdt>>

(***************************************************************************)
(* close(2): EBADF on a descriptor that is not open; an I/O error is       *)
(* reported after the descriptor has been released.                        *)
(***************************************************************************)
ocall_close_file(a, fd, ret, f) ==
    /\ \/ /\ IsOpen(a, fd)
          /\ (ret = 0 /\ f = 0) \/ (ret = -1 /\ f = 1)
          /\ fdt' = [fdt EXCEPT ![a][fd] = ClosedFd]
       \/ /\ ~IsOpen(a, fd)
          /\ ret = -1 /\ f = 0
          /\ UNCHANGED fdt
    /\ UNCHANGED <<made, file>>

(***************************************************************************)
(* write(2) of the units in data at the descriptor's position: everything, *)
(* or, with a fault, a proper part of it or an error.                      *)
(***************************************************************************)
Splice(c, pos, data) ==
    [i \in 1..(IF pos + Len(data) > Len(c) THEN pos + Len(data) ELSE Len(c)) |->
        IF i > pos /\ i <= pos + Len(data) THEN data[i - pos]
        ELSE IF i <= Len(c) THEN c[i] ELSE Hole]

Writable(a, fd) == IsOpen(a, fd) /\ fdt[a][fd].mode = "w"
Readable(a, fd) == IsOpen(a, fd) /\ fdt[a][fd].mode = "r"

ocall_write_file256(a, fd, data, ret, f) ==
    /\ \/ /\ Writable(a, fd)
          /\ \/ ret = Len(data) /\ f = 0
             \/ ret \in 1..(Len(data) - 1) /\ f = 1
          /\ file' = IF ret = 0 THEN file
                     ELSE [file EXCEPT ![fdt[a][fd].name] =
                              Splice(@, fdt[a][fd].pos, SubSeq(data, 1, ret))]
          /\ fdt' = [fdt EXCEPT ![a][fd] = Advance(@, ret)]
       \/ /\ ret = -1
          /\ f = IF Writable(a, fd) THEN 1 ELSE 0
          /\ UNCHANGED <<file, fdt>>
    /\ UNCHANGED made

(***************************************************************************)
(* read(2) of at most count units: what is left of the file up to count    *)
(* (nothing at end of file), or, with a fault, a proper part or an error.  *)
(* The units read are the ret units after the position before the call.    *)
(***************************************************************************)
Available(a, fd, count) ==
    LET left == Len(file[fdt[a][fd].name]) - fdt[a][fd].pos IN
    IF left < 0 THEN 0 ELSE IF left < count THEN left ELSE count

UnitsRead(a, fd, ret) ==
    SubSeq(file[fdt[a][fd].name], fdt[a][fd].pos + 1, fdt[a][fd].pos + ret)

ocall_read_file256(a, fd, count, ret, f) ==
    /\ \/ /\ Readable(a, fd)
          /\ \/ ret = Available(a, fd, count) /\ f = 0
             \/ ret \in 1..(Available(a, fd, count) - 1) /\ f = 1
          /\ fdt' = [fdt EXCEPT ![a][fd] = Advance(@, ret)]
       \/ /\ ret = -1
          /\ f = IF Readable(a, fd) THEN 1 ELSE 0
          /\ UNCHANGED fdt
    /\ UNCHANGED <<made, file>>

\* The kernel closes every descriptor of a process that exits or is killed.
ProcessExit(a) ==
    /\ fdt' = [fdt EXCEPT ![a] = [fd \in Fds |-> ClosedFd]]
    /\ UNCHANGED <<made, file, faults>>

AtEnd(a, fd) == fdt[a][fd].pos >= Len(file[fdt[a][fd].name])
=============================================================================
