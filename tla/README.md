# ta-ref in TLA+

ta-ref is a portable implementation of the GlobalPlatform TEE Internal API. Trusted
applications (TAs) written against it run on Keystone (RISC-V), Intel SGX and OP-TEE.
This directory holds TLA+ models of the parts of it that keep state, the TLC
configurations that check them on small instances, and TLAPS proofs of what matters most
for every instance.

## The system

| Part | Source | State | Operations |
| --- | --- | --- | --- |
| Persistent objects | `api/keystone/tee-internal-api.c` | object handles: host descriptor, AES key schedule, `persist_iv` | create, open, read, write, close |
| Ocalls and transfer loops | `edger/keyedge/Enclave_t.c`, `Enclave_u.c` | `offset` of a transfer; the host's descriptors and files | open, close, read and write of at most 256 bytes, the loops around them |
| Cryptographic operations | `api/tee-internal-api-cryptlib.c` | operation handles (`flags`, `aegcm_state`, key copies, library contexts), transient key objects | allocate, free, set key, generate key, AE, cipher, digest, sign, verify |
| Random numbers | `api/keystone/tee-internal-api.c` | the buffer being filled, wolfCrypt's generator | `TEE_GenerateRandom`, and `TEE_GenerateKey`, which uses it |
| Profiler | `profiler/` | record buffer, log file, analyzer stack, symbol table | entry and exit hooks, map, unmap, analyze |
| Instance life | `api/keystone/startup.c`, `crt.c`, `tee-internal-api-machine.c`, the samples' `run_enclave` | one enclave per command | start, return, panic, killed host |
| SGX variant | `api/sgx/`, `edger/App_ocalls_sgx.cpp`, the samples' `App-sgx.cpp` | object handles, the enclave's heap; one enclave per process | as above, one ocall per transfer |
| Samples, GP tests, benchmarks | `samples/`, `gp/`, `benchmark/` | global buffers of the TAs | callers of the API |
| Time, tracing, client stub | `api/keystone/` | none, or a print buffer (OP-TEE) | |

A TA is single-threaded and calls the API directly. The API reaches the host through
ocalls, which are the only points at which anything else happens: other host processes
run, the host answers short, fails, or is killed. The files of persistent objects are
shared by all host processes, and the host gives a closed descriptor's number out again.
All secrecy and integrity of stored data rests on the key and the chaining value in the
handle, because the host is not trusted to keep or separate anything.

What is hard: the chaining value must follow the file position through chunked, short and
failing transfers; handles survive their descriptors; the AE state machine is spread over
five functions with different guards; library contexts are reused or not according to the
library; random bytes arrive in pieces; a profile's log ends in the middle of a record.
`PROJECT.json` lists these hazards line by line with the properties that cover them.

## Modules

| Module | What it is |
| --- | --- |
| `HostFiles` | The host kernel as the ocalls use it: files, per-process descriptor tables, faults. |
| `PersistentObject` | The storage API, the transfer loops and the life of instances, on top of `HostFiles`. |
| `ObjectStore` | What storage promises a TA: plaintext blocks and cursors, nothing else. |
| `StorageRefinement` | The mapping under which `PersistentObject` implements `ObjectStore`. |
| `SampleTA` | The `message_digest` sample and the GP storage test, in several host processes, on top of `PersistentObject`. |
| `SgxObject` | The storage API of the SGX build, on the same state and host. |
| `CryptoOperation` | The cryptographic operations and transient objects, for either crypto library. |
| `RandomFill` | `TEE_GenerateRandom`, `ocall_getrandom` and what `TEE_GenerateKey` draws from them, with the theorems about them. |
| `Profiler` | The profiler's hooks, its log and the analyzer. |
| `MCPersistentObject`, `MCSampleTA`, `MCSgxObject`, `MCCryptoOperation`, `MCProfiler` | Constants and symmetries for TLC. |
| `PersistentObjectProofs`, `RoundTripProofs` | Theorems and proofs about `PersistentObject`, the second module on top of the first. |
| `RefinementProofs` | The proof that `PersistentObject` implements `ObjectStore`, on top of `RoundTripProofs`. |
| `SampleProofs` | Theorems and proofs about `SampleTA`, on top of the lemmas of `RoundTripProofs`. |
| `SgxProofs`, `CryptoProofs`, `ProfilerProofs` | Theorems and proofs about the other components. |

Definitions keep the source's names. A definition `Op_Variant` is `Op` with one plausible
mistake; nothing uses it except the sensitivity checks listed under `mutants` in
`PROJECT.json`, in which it replaces `Op` and a property must fail.

### HostFiles and PersistentObject

`file` and `made` are the file system, `fdt[a][fd]` the descriptors of host process `a`.
A file is a sequence of units; a cipher block is `BLK` units and an ocall carries at most
`CAP`, so that a transfer can stop in the middle of a block as in the middle of 16 bytes.
The host answers at most what it was asked: `ocall_read_file` copies as many bytes as the
answer says and the loops add it to `offset`, and neither checks it, so nothing here says
anything of a host that claims more (it is listed as a hazard).
`handle[a][h]` is `struct __TEE_ObjectHandle`, `call[a]` the locals of the transfer loop
the instance is in. One step is one ocall together with the enclave code up to the next.

AES-CBC is a free algebra: the block that a handle makes from the plaintext blocks `s`
under key `k` is `[key |-> k, chain |-> s]`, and it decrypts only under `k` and after the
block made from `Front(s)`. `set_object_key` names the key by the enclave's measurement
and the object id, which is what the signed report it is derived from covers. `written`
records what each owner has ever encrypted.

Each open, close, read and write of the host can fail, and reads and writes can be short;
allocations and the attestation can fail. `MaxFaults` bounds how many of these happen in a
behaviour. `Crash` kills a host process at any step; `TEE_Panic` and `EAPP_RETURN` drop
the enclave's heap and leave the descriptors open, as the code does. `DoubleClose` lets
the TA close a handle again, `Exclusive` keeps two handles off the same file.

A write through a handle whose chaining value is of another key, which takes a doubly
closed handle, is counted as making no block; the block it really makes decrypts at most
right behind that foreign one.

### ObjectStore and StorageRefinement

`ObjectStore` has no files, descriptors, keys, ciphertexts or chaining values. An owner
(an enclave binary and an object id) has a list of blocks, a handle is a cursor in it, a
write puts its blocks at the cursor some at a time, and a read takes all there is up to
the size asked for, in one step. It admits what storage really does: owners whose ids form
the same file name take turns and are garbage to each other, the block behind an
overwritten part can be anything, and a write refused because the handle is open for
reading costs the first block of the next read (`persist_iv` has already advanced).

The mapping decrypts the file from the IV on to get the blocks, takes the descriptor's
position less what a read in progress has taken for the cursor, and the plaintext behind
`offset` for what a write still has to put. `PersistentObject` implements the store if the
host makes no errors (`MaxFaults = 0`), a file is open once at a time (`Exclusive`) and a
handle is closed once; kills in the middle of a transfer are included. Each condition is
needed: `StorageFaults` and `StorageShared` show what is left of the promise without them.

### SampleTA

`at[a]` is where main of process `a` stands: the command and the step in its script.
`Main` and `Script` are the programs: the sample's `main` runs `message_digest_gen` and
`message_digest_check` in one enclave instance each, the GP test stores and loads in one.
A step that calls the API is the corresponding action of `PersistentObject`, a transfer
remains one step per ocall, and all processes run the same binary, so they share the key
and the file.

The sample ignores every result. A handle that an open has failed to set is uninitialised:
a null one is refused, any other one traps. A count that a read has not stored makes the
comparison arbitrary. The GP test is the build with `GP_VERBOSE`, in which `GP_ASSERT`
returns at the first failure; without it the test behaves as the sample does. A buffer
that holds raw ciphertext or nothing is taken to differ from what was saved. The digest
itself is a constant, because `CryptoOperation` covers it.

### SgxObject

It extends `PersistentObject` and replaces its actions. A transfer is one ocall, so a
call is one step. `AesKey` is what the 256-bit key covers (the enclave through the report
key, the first 32 bytes of the id through the seal key), `ObjectIV` what the IV covers
(also the rest of the id). `heap[a]` is the plaintext that freed decryption buffers still
hold: a read that ends inside a block returns any of it, because the cipher's refusal is
ignored. An ocall that itself fails does nothing on the host and leaves its answer
uninitialised (`OcallFails`); the values modelled are those a working host could have
given, larger ones would make the code run past the buffer and are outside the model.
The enclave outlives an ecall and ends with its process (`MainReturns`) or with
`abort()`. The error codes are not told apart.

### CryptoOperation

One action is one API call, made in any order the code allows. Calls that are refused
for their arguments alone are `Refused`, with whichever error code as `"REFUSED"`, and
`RefusedPanic`; a panic takes the heap, so all handles, with it. GCM ciphertexts, tags, CBC
blocks, digests and signatures are terms (see the module's header). `Lib` selects
mbedTLS with tiny SHA-3 and ed25519, or wolfCrypt; the two differ in whether a running
hash is kept, whether a final resets the context, and when a wrong tag is noticed. A
digest handle comes from `malloc` uncleared: its flags and state are arbitrary. A
decrypting TA is fed any ciphertext chunk that could exist, in any order, and any tag
that has been handed out.

What a handle keeps and what it was given are different things. The history `given[o]`
records the arguments of the calls made on it: the AES key and the key pair last set, the
key and nonce in force at the last init, the AAD of the last `TEE_AEUpdateAAD` and all AAD
chunks since the message began. `sealed` and `signed` record with each tag and signature
what its maker had been given. `Authentic`, `CbcStreamFaithful` and `VerifiedWasSigned`
compare with these histories and not with the fields of the handle, so that a key that is
stale, mixed up or never copied breaks them.

At several places the code does less than its comments say, and the model does what the
code does:

- Each `TEE_AEUpdateAAD` starts the message anew, so AAD and data given before it are not
  authenticated, although its comment speaks of chunks and subsequent calls. `Authentic`
  speaks of what came since the last such call; `AadChunksClaim` shows the rest.
- A CBC input is a chunk, a tail shorter than a block, or both. With a tail mbedTLS refuses
  it, wolfCrypt refuses it or takes the whole blocks, and `TEE_CipherUpdate` drops the
  answer: it succeeds and reports the length of the input as that of an output that nobody
  has written, although its comment (line 761) says that the input "does not have to be a
  multiple of block size". `CbcStreamFaithful` says only that the chain is not harmed.
- Setting an AES key leaves an earlier key pair in the handle, which goes on signing and
  verifying, although the comment (lines 297-298) says that a key exists until "another key
  is set into the operation". `VerifiedWasSigned` is about the pair last set.
- `sha3_final` of the tiny SHA-3 library, the default build, does not start over, so a
  second digest with the same handle is wrong, although the comment (line 233) says that
  it "can be reused". `DigestExact` therefore needs wolfCrypt.
- With wolfCrypt, `TEE_GenerateKey` returns 0 and marks the object as holding a key also
  when the library has failed to make one (lines 889-891).

A GCM chunk is always whole blocks.

### RandomFill

The host's bytes are numbered as it generates them, so that an unfilled byte (0) or a
byte used twice shows. The seed short cut (196 bytes at once) and the 16-byte loop are
separate actions; wolfCrypt's generator is unseeded, seeded or failed. Both users of the
generator are there. `TEE_GenerateRandom` panics when it does not work;
`TEE_GenerateKey` ignores that and returns, so that a failed generator, marked as
initialised, lives on and is met by later calls. `seed` is the seed it was given, `boot`
the number of bytes generated before the instance started. A length is compared as in C,
a negative answer becoming a large `uint32_t`; `WORD` is 2^32 and `MaxLen < WORD - 1`
leaves out the one length that equals the error.

### Profiler

`frames` and `done` are the calls the program really makes; `perf` the records, `log` the
file, `an` the analyzer. A time is the number of clock readings since
`__profiler_map_info`. The enclave's log is limited to 256 bytes (nine records and the
first 16 bytes of the tenth, whose `callee` is lost), scaled down to four records and a
part of the fifth; the application's is whole. The profiler is mapped and unmapped
outside of all instrumented functions, as `crt.c` and the applications do, so records are
balanced. An `nm` line without an address leaves the previous line's values in the
variables of `parse_nm`; symbol files start with a line that has one.

## Runs

| Run | Shows | Bounds |
| --- | --- | --- |
| `StorageFaults` | `TypeOK`, `LoopInBounds`, `GenuineBlocks`, `DescriptorsOwned`, `OnlyOwnFileChanges`, `CallReturns` | two objects and files, two handles, two blocks in units of two, one fault, crashes |
| `StorageShared` | `NoSplice`, `OwnPlaintextOnly` for two ids that form one file name, with several, also doubly closed, handles | one process, one file, two handles, three opens (several enclaves: the theorems, and `SgxStorage`) |
| `StorageExclusive` | `WriterInStep`, `ReaderInStep`, `ReadBack`, and `ImplementsObjectStore` | two ids on one file, two blocks in chunks of one, four opens, crashes, no host faults |
| `SgxStorage` | `SgxTypeOK`, `SgxPlaintextOwn`, `SgxFirstBlockOwn` | two enclaves, three ids on one file of which two share a key, two blocks, three opens, one fault; a file is open once at a time |
| `AuthEncryption` | `TypeOK`, `AeStateSound`, `Authentic` with mbedTLS | one handle, two chunks, one sealed message, one chunk of AAD |
| `Operations` | `CbcStreamFaithful`, `DigestExact`, `VerifiedWasSigned` with wolfCrypt | one handle at a time, two keys, two chunks, CBC inputs with and without a tail |
| `Random` | `TypeOK`, `FilledFresh`, `NoOverrun`, `SeededThisInstance`, both libraries | chunks of 2, short cut at 3, buffers up to 5, a key seed of 4, three calls of either kind, two faults |
| `Profile` | `TypeOK`, `RowsTrue`, `NothingMissing`, `NamesTrue` | three calls in two runs, two functions, two cores, three symbol files |
| `SampleStorage` | `SampleTypeOK`, `RoundTrip`, `NoFalseAlarm`, `NothingLeaks`, `MainEnds` for both programs | two processes, three mains, one fault, kills at every step |
| `ReadCountClaim` | the code violates `ShortReadOnlyAtEnd` | |
| `WolfTagClaim` | the code violates `Authentic` with wolfCrypt | |
| `AadChunksClaim` | the code violates `AllAadAuthentic` | two chunks of AAD |

The bounds are chosen so that the case a property is about happens: a block is two units
and a chunk one or two blocks, so a transfer can stop inside a block, between blocks of a
chunk and between chunks; two handles and a descriptor limit of two make descriptor
numbers come back; two chunks and one sealed message allow dropping, repeating and
swapping; a buffer of five in chunks of two has a short last chunk and a length equal to
the short cut. A handle slot is reused, so one handle is many handles one after another.
In `StorageExclusive` the two ids share the file, so the objects take turns on it and each
meets the other's leftovers; two blocks in chunks of one give every transfer a point at
which a kill leaves half of it. In `SampleStorage` three mains on two processes let a
process meet another one's file half written, and start over itself; the data fit one
ocall, as the 32-byte hash and the 256 bytes of the GP test do. `Random`, `Profile` and
`SampleStorage` stop when their calls or mains are used up, which is why they do not check
deadlock.

`AuthEncryption` gives a message one chunk of AAD: the code keeps no more than the last, so
that more of them add only to the history that `AllAadAuthentic` reads, and the theorem
holds for any number. In `Random`, three calls let a failed generator be met by a second
and a third one.

The last three runs document disagreements between comments and code; `findings` in
`PROJECT.json` quotes both sides. In short: a host error after the first 256 bytes of a
read is reported as success with a short count; with wolfCrypt the tag of a message fed in
several chunks covers the last one only; AAD given in several chunks is forgotten but for
the last. The others met while modelling are listed under `CryptoOperation`; one more is
that `TEE_Panic`, whose comment has "all the resources opened by the instance" reclaimed,
leaves host descriptors open, which the model includes.

What `SampleStorage` shows is the composition: `RoundTrip` needs the key to be the same in
every instance, the chaining value to start over with each open, the loop to add up its
passes, and nobody else to have emptied the object. With another process at work, the
digest sample still raises no false alarm (`NoFalseAlarm`), at the price of comparing only
what it could read: an emptied file "matches" on zero bytes. The GP test compares
all bytes and can report "verify fails" in that case, so `NoFalseAlarm` is about the
sample only.

### Fairness

`SampleFairness` assumes weak fairness of each process's next step between the start of
main and its end: a process that has been started keeps running unless it is killed, and
ocalls return. Nothing makes a process start. `MainEnds` follows: neither failing calls,
stray handles, panics nor the other processes keep main from ending.

`FairSpec` assumes weak fairness of the passes of the transfer loops and nothing else: an
enclave that is inside an ocall loop goes on executing, and each ocall returns. It does
not assume that the TA makes calls, that the host answers well, or that a killed process
is started again. `CallReturns` follows: with a host that moves a positive number of
bytes, or none, or fails, the loops end although `count` is never decremented, because a
request of zero bytes moves nothing.

## Proofs

All theorems hold for every value of the constants that satisfies the named assumptions
of the modules (`HostAssumption`, `ObjectAssumption`, `SampleAssumption`,
`RandomAssumption`, the two of `CryptoOperation`, `ProfilerAssumption`). A theorem that
needs more says so in its `ASSUME`: those conditions are the ones of the run that checks
the same property, and the other runs show that they are needed.

### Storage

`PersistentObjectProofs` proves three things of increasing depth.

`TypeCorrect` and `LoopsInBounds`: neither property is inductive alone. That a pass
stays in the buffer needs the host not to move more than it was asked to, which is an
assumption (`HostFiles`) and not checked by the code, `Clamp`, and the relation between
`buf`, `count` and `offset`, and types need the handle of a call to be live. The
invariant is their conjunction.

`DescriptorsStayOwned` and `OwnFileOnly`, for a TA that closes a handle once
(`~DoubleClose`): `DescriptorsOwned` is inductive on top of the types, because an open
takes a free descriptor number, and what `Crash`, panic and return leave open belongs to
no live handle. The action property follows step by step.

`CiphertextGenuine`, `PlaintextIsOwn` and `ReadsAreNotSpliced`: `OwnPlaintextOnly` and
`NoSplice` speak about the data the last read has returned and follow from where
ciphertext can come from. Every block in a file, a buffer or a chaining value was made by
a handle of the key's owner, and `written` is closed under the prefixes of a chain. That
invariant holds under every interleaving, fault, crash and double close, so the three
theorems need no discipline of the TA or the host.

`RoundTripProofs`: `WritersStayInStep`, `ReadersStayInStep` and
`ReadsReturnWhatWasWritten`, under `~DoubleClose`, `Exclusive` and `MaxFaults = 0`. The
invariant adds to the above that a file has at most one live handle (`OpenOnce`), that
every file consists of whole blocks between two ocalls of its writer (`WholeFiles`), and
where the chaining value stands *inside* a transfer (`AllInStep`): a write has already
advanced it to the end of the data while the file is still behind, a read advances it
only at the end, and a call of the kind that the handle was not opened for has moved
nothing. `ReadBack` is then a fact about one step, the return of a read:
decrypting a piece of an encryption from the block in front of it gives that piece.

`RefinementProofs`: `StorageImplementsStore`, under the same three conditions: `Spec`
implies `ImplementsObjectStore`. Initial states map to initial states, and every step maps
to a step of `ObjectStore` or to none. The start of a call is the store's start of a call;
a pass of a write is `WriteSome` with the blocks of that pass, whose parameter for the
block behind is what now decrypts there (`Behind`); the passes of a read change nothing in
the store, and the last one is `ReadDone` with all that has come in. What this needs on
top of the invariant of `RoundTripProofs` is that no file holds a torn block
(`NoTornBlocks`): a successful read leaves the last block as chaining value, and only if
it is a real one has the handle recovered from a refused write. Opens and writes that
fail for lack of memory are host errors here and do not happen.

`SgxProofs`: `SgxTypeCorrect`, `SgxPlaintextIsOwn` and `SgxFirstBlockIsOwn`, for every
assignment of AES keys to ids (`KeyId`). Ids that share a key can continue each other's
chains, so provenance here is weaker than on Keystone: a chain under a key is of *some* id
with that key, and only a chain of one block, made from the IV, is of the exact id
(`Streams`). What the freed buffers hold is measured by the enclave alone (`Measured`).
The invariant says so of files, handles, the heap and the last result.

### The samples

`SampleProofs`: `SampleTypes`, for a host that answers at most what it was asked, and
`StoredIsReadBack`, `NoDescriptorLeaks` and `NeverAFalseAlarm`, while it makes no error.
`SampleAssumption` says what the programs are like: one handle variable, the same
enclave in all processes, and a bound on opens that the bound on starts makes no
restriction.

`SampleTypeOK` is not inductive: what a read stores is bounded only because the call in
progress is the script's, with the size of what the program saves. `Scripted` says so,
together with the types and loop bounds of the storage, which hold here because each step
of a sample is a step of the storage API or the end of a process between two commands
(`StorageStep`).

The other three theorems share the invariant `Tidy`. The theorems of `RoundTripProofs` do
not apply, because the processes do share an open file. What holds instead is that all
that is ever written is one stream, the encryption of what the programs save, and that
each unit of it goes to its own place: a process that writes spoils nothing for another
one, and only an open that empties the file does, which `intruded` records. Both programs
make the same seven calls, and `Tidy` relates a process's place among them to its handle,
descriptors, transfer, what it knows to be in the file, what it has read and what it has
found. `TidyStep` deals with the processes that do not act; one lemma per action shows
what happens to the one that does. `NeverAFalseAlarm` has the condition that the object
fits one ocall, so that the file is empty or complete at every moment. It is needed: a
longer object could be emptied between two passes of a write, which then leaves a hole in
front of it.

### Random numbers

`RandomFill` itself: `RandomTypes`, `RandomIsFresh`, `RandomStaysInside`,
`GeneratorIsSeeded`. The invariant says that while the loop runs `retval = pos`,
`pos + len` is the length asked for and exactly the first `pos` bytes are filled; once it
has ended, a `retval` equal to that length means that all are. `SeedInv` adds where the
seed comes from: the buffer in the making was empty after the instance started, so a
generator that works has a seed of this instance, and whoever gets something got it from
one that works; the failed generator that `TEE_GenerateKey` leaves behind needs no case of
its own there, because it serves nobody.

### Cryptographic operations

`CryptoProofs`: `TypeCorrect`, `AeStateIsSound`, `CbcStreamsAreFaithful`,
`VerifiedDigestsWereSigned`, `DigestsAreExact` (with wolfCrypt) and
`AcceptedIsAuthentic` (with mbedTLS; `WolfTagClaim` shows that it fails with the other
library, and so does `DigestExact`, because tiny SHA-3 does not start over).
`AeStateSound` is inductive with the types of the handles. The other properties compare
with what the TA has given, so the invariant (`FullInv`) ties every handle to its
history (`GivenFits`: the key fields to the keys last set, a started message to the key,
nonce and AAD of its init, a CBC context to those of `TEE_CipherInit`) and every
signature to the pair its maker had been given (`SignedFits`). `Authentic` is not
inductive even then: it speaks of one moment, the tag test. The invariant keeps, for
every handle in a decryption, that what it has delivered is what `Opens` relates to the
chunks it was fed, and for every sealed message that its ciphertext opens to it; equal
tags mean equal ciphertexts, and what a sequence of chunks opens to under a key and
nonce is unique. `TermAssumption` separates the constants that stand for garbage from
the data.

### Profiler

`ProfilerProofs`: `TypeCorrect`, `RowsAreTrue`, `NothingIsMissing`, `NamesAreTrue`, for
every program, size of the log, symbol file and hash table. The analyzer replays the
records long after the calls they stand for, so the invariant needs the history of the
run that wrote the log. `Trace(R, H, D)` says that `H` lists, after each of the records
`R`, the calls active then and how many of the completed calls `D` had ended. Each hook
extends it; the log keeps a beginning of `R` (`CutOf`); and the analyzer, having read `i`
records, is where the program was in `H[i]` (`Replayed`): as many rows, each its call, and
the same stack, unless the record just read was the cut one. A record of the log can
therefore always be placed, and the analyzer ends where the log does. The name of a row
rests on two facts about `parse_nm`: each line is seen as one that has an address
(`LineSeen`), and every line with the address looked for is in the chain searched
(`NameFound`). Both need a last element of a set of positions, which follows from the
well-foundedness of the natural numbers (`LeastNat`, `GreatestIndex`).

### Only model-checked

`CallReturns` and `MainEnds`: liveness under fairness. Every other property of a passing
run is a theorem.

## Not modelled

- The time functions: they read a clock and keep nothing. That `TEE_GetSystemTime` wraps
  at 32 bits, against its comment, and reads the counter of the current hart, is listed
  as a hazard.
- Printing: the vendored `vsnprintf`, `tee_printf`, the OP-TEE print buffer and its copy to
  the client. Output is no state of the modelled parts.
- The crypto commands of the samples `symmetric_key` and `asymmetric_key`, the other GP
  tests and the benchmarks: straight lines of API calls. `CryptoOperation` and
  `RandomFill` call the API in any order and include them. `samples/secure_system` has the
  storage helpers of the others, with another size.
- The SGX and OP-TEE hosts of the samples: on SGX the API underneath is `SgxObject`; on
  OP-TEE storage and crypto are OP-TEE's own and ta-ref adds only start-up and printing.
- Object info and the client stub (constants), the contents of attributes, `TEE_Malloc`
  and its relatives, SGX's `sgx_read_rand` and time, the build system, and the crypto
  libraries themselves, which appear as term algebras.
- `docs/`: the HTML and JavaScript generated by Doxygen (navigation tree and search index)
  is neither ta-ref's code nor written for it. It is most of the repository's JavaScript,
  and nothing in the system depends on it.
- A host that answers more than it was asked: the transfer loops and `ocall_getrandom` are
  modelled for one that does not. GCM chunks that are no whole number of blocks.
- A short write of the profiler's log and an overflow of its buffer or of the analyzer's
  stack: listed as hazards, outside the bounds of the model.

## Plan

Modelled: storage and the abstract store it implements, the SGX storage, cryptographic
operations, random numbers, the profiler, the storage sample and the GP storage test as
compositions.

Proved: every safety, action and refinement property of the runs, for every value of the
constants. What the theorems assume beyond the named assumptions (no host error, a file
open once at a time, a handle closed once, the library) is what the runs assume.

What is left:

1. The first and third conditions of `StorageImplementsStore`: an abstract store that also
   says what faults and double closes may do to an object.
2. The GP tests and the samples that use the crypto API, as compositions like `SampleTA`.
3. The hazards without a property in `PROJECT.json`, which need larger models of the
   profiler's buffers and of the clock.
