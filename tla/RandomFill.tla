----------------------------- MODULE RandomFill -----------------------------
(***************************************************************************)
(* TEE_GenerateRandom of api/keystone/tee-internal-api.c and its sister    *)
(* TEE_GenerateKey of api/tee-internal-api-cryptlib.c, the two users of    *)
(* random material.  Every random byte comes from the host's getrandom(2), *)
(* sixteen at a time, or in one piece for the length of a generator seed;  *)
(* a short answer, an error or nothing at all must never leave part of the *)
(* buffer unfilled while the call returns.  With mbedTLS the caller's      *)
(* buffer (for a key, the seed it is made from) is filled from the host,   *)
(* with wolfCrypt the seed of a generator that then serves all calls of    *)
(* the instance.                                                           *)
(*                                                                         *)
(* The bytes the host generates are numbered 1, 2, 3, ... in the order in  *)
(* which it does, so that a byte that is used twice can be told.           *)
(*                                                                         *)
(* A definition Op_Variant is Op with one plausible mistake; nothing uses  *)
(* it but the sensitivity checks, which put it in the place of Op.         *)
(***************************************************************************)
EXTENDS Integers, TLAPS

CONSTANTS
    Libs,       \* the builds considered: CRYPTLIB is "mbed" or "wolf"
    CHUNK,      \* bytes per ocall_getrandom16: 16
    SHORTCUT,   \* the length served by ocall_getrandom196: 196
    WORD,       \* 2^32, the values of a uint32_t
    MaxLen,     \* bound on randomBufferLen
    KeyLen,     \* bytes of the seed an Ed25519 key pair is made from: 32
    SeedLen,    \* bytes wolfCrypt seeds its generator with
    MaxCalls,   \* bound on the calls
    MaxFaults   \* bound on failed or short host answers

ASSUME RandomAssumption ==
    /\ Libs \subseteq {"mbed", "wolf"}
    /\ CHUNK \in Nat \ {0} /\ SHORTCUT \in Nat \ {0}
    /\ WORD \in Nat /\ MaxLen \in Nat /\ MaxLen < WORD - 1
    /\ SeedLen \in 0..MaxLen /\ KeyLen \in 0..MaxLen
    /\ MaxCalls \in Nat /\ MaxFaults \in Nat

VARIABLES
    lib,        \* the build: never changes
    st,         \* "idle", "fill" (inside ocall_getrandom), "returned", "panicked"
    caller,     \* the call: "none", "GenerateRandom" or "GenerateKey"
    req,        \* the length ocall_getrandom was called with
    len,        \* what is left of it
    retval,     \* its return value so far
    pos,        \* offset of buf from the start of the buffer
    dst,        \* the buffer; 0 is a byte nobody has written
    rng,        \* wolfCrypt's generator: "none", "ok" or "failed"
    got,        \* history: the call that has returned got random material
    seed,       \* history: the seed of the generator, as it was at wc_InitRng
    boot,       \* history: value of drawn when the instance started
    drawn,      \* history: bytes the host has generated
    since,      \* history: value of drawn when the buffer was empty
    calls, faults

vars == <<lib, st, caller, req, len, retval, pos, dst, rng, got, seed, boot, drawn, since,
          calls, faults>>

Callers == {"GenerateRandom", "GenerateKey"}

Stale == [i \in 1..MaxLen |-> 0]

Init ==
    /\ lib \in Libs
    /\ st = "idle" /\ caller = "none" /\ rng = "none" /\ got = FALSE
    /\ req = 0 /\ len = 0 /\ retval = 0 /\ pos = 0
    /\ dst = Stale /\ seed = Stale
    /\ boot = 0 /\ drawn = 0 /\ since = 0 /\ calls = 0 /\ faults = 0

\* ocall_getrandom(buf, n, 0) is entered.
Fill(n) ==
    /\ st' = "fill"
    /\ req' = n /\ len' = n
    /\ retval' = 0 /\ pos' = 0
    /\ dst' = Stale
    /\ since' = drawn
    /\ UNCHANGED <<rng, got>>

GenerateBlock_Unchecked(c, r) == st' = "returned" /\ got' = TRUE
\* What c does with the generator, whose wc_RNG_GenerateBlock refuses to work unless
\* it is "ok".  TEE_GenerateRandom checks the result and panics, TEE_GenerateKey drops
\* that of wc_ed25519_make_key and returns 0 without a key (its comment says that it
\* "populates a transient key object with the generated key material").
GenerateBlock(c, r) ==
    /\ got' = (r = "ok")
    /\ st' = IF r = "ok" \/ c = "GenerateKey" THEN "returned" ELSE "panicked"

\* wc_InitRng, on the first use, asks wc_ocall_genseed for a seed; from then on the
\* generator is there, whether or not wc_InitRng has succeeded.
get_wc_rng(c) ==
    \/ rng = "none" /\ Fill(SeedLen)
    \/ rng # "none" /\ GenerateBlock(c, rng) /\ UNCHANGED <<req, len, retval, pos, dst, rng, since>>

\* A call c, which asks for n bytes of its own or for those of the generator.
Draw(c, n) ==
    /\ st \in {"idle", "returned"}
    /\ calls < MaxCalls /\ calls' = calls + 1
    /\ caller' = c
    /\ \/ lib = "mbed" /\ Fill(n)
       \/ lib = "wolf" /\ get_wc_rng(c)
    /\ UNCHANGED <<lib, seed, boot, drawn, faults>>

TEE_GenerateRandom(n) == Draw("GenerateRandom", n)

TEE_GenerateKey == Draw("GenerateKey", KeyLen)

(***************************************************************************)
(* The host: size bytes, or, as a fault, fewer of them, none or an error.  *)
(* It never answers more than it was asked.                                *)
(***************************************************************************)
getrandom(size, ret) ==
    /\ ret \in -1..size
    /\ \/ ret = size /\ UNCHANGED faults
       \/ ret < size /\ faults < MaxFaults /\ faults' = faults + 1
    /\ drawn' = IF ret > 0 THEN drawn + ret ELSE drawn

\* memcpy(buf, b, n) of bytes the host has just generated.
Copied_FromStart(n) == [i \in 1..MaxLen |-> IF i <= n THEN drawn + i ELSE dst[i]]
Copied(n) ==
    [i \in 1..MaxLen |-> IF pos < i /\ i <= pos + n THEN drawn + (i - pos) ELSE dst[i]]

Taken_All(ret) == ret
Taken(ret) == IF ret <= len THEN ret ELSE len

\* The short cut for a seed: everything in one call, or nothing.
ocall_getrandom196 ==
    /\ st = "fill" /\ req = SHORTCUT /\ len = req
    /\ \E ret \in -1..SHORTCUT :
          /\ getrandom(SHORTCUT, ret)
          /\ dst' = IF ret = len THEN Copied(len) ELSE dst
          /\ retval' = ret
    /\ len' = 0
    /\ UNCHANGED <<lib, st, caller, req, pos, rng, got, seed, boot, since, calls>>

ocall_getrandom16 ==
    /\ st = "fill" /\ req # SHORTCUT /\ len > 0
    /\ \E ret \in -1..CHUNK :
          /\ getrandom(CHUNK, ret)
          /\ \/ /\ ret > 0
                /\ LET n == Taken(ret) IN
                   /\ dst' = Copied(n)
                   /\ retval' = retval + n
                   /\ pos' = pos + n
                   /\ len' = len - n
             \/ /\ ret <= 0                  \* break: nothing more is asked for
                /\ retval' = IF ret < 0 THEN ret ELSE retval
                /\ len' = 0
                /\ UNCHANGED <<dst, pos>>
    /\ UNCHANGED <<lib, st, caller, req, rng, got, seed, boot, since, calls>>

\* The int answer compared with a uint32_t length.
AsUint32(n) == IF n < 0 THEN n + WORD ELSE n

Short_ErrorOnly == retval < 0
\* ret != randomBufferLen in TEE_GenerateRandom, ret != len in wc_ocall_genseed.
Short == AsUint32(retval) # req

\* ocall_getrandom returns to its caller.
FillPanics ==
    /\ st = "fill" /\ len = 0 /\ Short
    /\ st' = "panicked"
    /\ UNCHANGED <<lib, caller, req, len, retval, pos, dst, rng, got, seed, boot, drawn, since,
                   calls, faults>>

\* wc_InitRng may fail although it has its seed (no memory, a self test).
FillReturns ==
    /\ st = "fill" /\ len = 0 /\ ~Short
    /\ \/ /\ lib = "mbed"
          /\ st' = "returned" /\ got' = TRUE
          /\ UNCHANGED <<rng, seed, faults>>
       \/ /\ lib = "wolf"
          /\ \/ rng' = "ok" /\ seed' = dst /\ UNCHANGED faults
             \/ rng' = "failed" /\ faults < MaxFaults /\ faults' = faults + 1 /\ UNCHANGED seed
          /\ GenerateBlock(caller, rng')
    /\ UNCHANGED <<lib, caller, req, len, retval, pos, dst, boot, drawn, since, calls>>

\* The instance has ended or panicked; the next command starts a fresh one, with
\* wc_rng_init zero.
Restart ==
    /\ st \in {"returned", "panicked"}
    /\ st' = "idle" /\ caller' = "none" /\ got' = FALSE
    /\ rng' = "none" /\ seed' = Stale /\ boot' = drawn
    /\ UNCHANGED <<lib, req, len, retval, pos, dst, drawn, since, calls, faults>>

Next ==
    \/ \E n \in 0..MaxLen : TEE_GenerateRandom(n)
    \/ TEE_GenerateKey \/ Restart
    \/ ocall_getrandom196 \/ ocall_getrandom16 \/ FillPanics \/ FillReturns

Spec == Init /\ [][Next]_vars

(***************************************************************************)
(*                               Properties                                *)
(***************************************************************************)

\* The types of the variables of ocall_getrandom and its callers.
TypeOK ==
    /\ lib \in Libs
    /\ st \in {"idle", "fill", "returned", "panicked"}
    /\ req \in 0..MaxLen /\ len \in 0..MaxLen /\ pos \in 0..MaxLen
    /\ retval \in -1..MaxLen
    /\ dst \in [1..MaxLen -> Nat] /\ seed \in [1..MaxLen -> Nat]
    /\ caller \in Callers \cup {"none"} /\ got \in BOOLEAN
    /\ rng \in {"none", "ok", "failed"}
    /\ drawn \in Nat /\ since \in 0..drawn /\ boot \in 0..drawn
    /\ calls \in Nat /\ faults \in Nat

\* When a call that asked the host for bytes returns, the buffer that the host was
\* to fill (the caller's, that of a key's seed, or the generator's seed) is filled to
\* the last byte with bytes generated for it, no two of them the same one, and
\* nothing behind it has been written.
FilledFresh ==
    st = "returned" =>
        /\ \A i \in 1..MaxLen : IF i <= req THEN dst[i] \in (since + 1)..drawn
                                ELSE dst[i] = 0
        /\ \A i, j \in 1..req : i < j => dst[i] < dst[j]

\* No pass of the loop writes behind the buffer, for a host that answers at most
\* what it was asked.
NoOverrun == pos <= req /\ \A i \in 1..MaxLen : i > req => dst[i] = 0

\* The generator's seed is complete, and drawn by this instance.
SeedFresh ==
    /\ \A i \in 1..SeedLen : seed[i] \in (boot + 1)..drawn
    /\ \A i, j \in 1..SeedLen : i < j => seed[i] < seed[j]

\* With wolfCrypt every call that gets random material gets it from a generator
\* whose seed the host has filled to the last byte, since this instance started:
\* never from one whose wc_InitRng failed, in this call or in an earlier one whose
\* failure TEE_GenerateKey passed over, although wc_rng_init marks it initialised,
\* and never from one seeded before a panic.
SeededThisInstance == (st = "returned" /\ lib = "wolf" /\ got) => SeedFresh

(***************************************************************************)
(*                                 Proofs                                  *)
(*                                                                         *)
(* For every chunk size, request length and pattern of answers of a host   *)
(* that answers at most what it was asked.  FilledFresh speaks of the      *)
(* moment the call returns.  The invariant says what the loop of           *)
(* ocall_getrandom keeps true on the way: as long as it runs, retval, pos  *)
(* and len agree and exactly the first pos bytes are filled; once it has   *)
(* ended, a retval equal to the length asked for means that all of them    *)
(* are.  For the generator: the buffer being filled was emptied after the  *)
(* instance started, and a generator that works holds a fresh seed.        *)
(***************************************************************************)

\* The first k bytes of the buffer, and no others, are fresh.
Filled(k) ==
    /\ \A i \in 1..MaxLen : i <= k => dst[i] \in (since + 1)..drawn
    /\ \A i \in 1..MaxLen : i > k => dst[i] = 0
    /\ \A i, j \in 1..MaxLen : i < j /\ j <= k => dst[i] < dst[j]

LoopInv ==
    /\ (st = "fill" /\ len > 0) => retval = pos /\ pos + len = req /\ Filled(pos)
    /\ (st = "fill" /\ len = 0 /\ retval = req) => Filled(req)
    /\ st = "returned" => Filled(req)
    /\ st = "idle" => rng = "none"
    /\ NoOverrun

SeedInv ==
    /\ st = "fill" => boot <= since
    /\ (st = "fill" /\ lib = "wolf") => req = SeedLen /\ rng = "none"
    /\ rng = "ok" => SeedFresh
    /\ (st = "returned" /\ lib = "wolf" /\ got) => rng = "ok"

IInv == TypeOK /\ LoopInv /\ SeedInv

\* Initially nothing is filled and nothing needs to be.
LEMMA InitIInv == Init => IInv
<1> SUFFICES ASSUME Init PROVE IInv
  OBVIOUS
<1> USE RandomAssumption DEF Init
<1>1. TypeOK
  <2>1. dst \in [1..MaxLen -> Nat] /\ seed \in [1..MaxLen -> Nat]
    BY DEF Stale
  <2>2. got \in BOOLEAN
    OBVIOUS
  <2>3. QED
    BY <2>1, <2>2 DEF TypeOK
<1>2. LoopInv /\ SeedInv
  BY DEF LoopInv, Filled, NoOverrun, SeedInv, Stale
<1>3. QED
  BY <1>1, <1>2 DEF IInv

\* Entering ocall_getrandom establishes the invariant, whatever was before.
LEMMA FillIInv ==
    ASSUME IInv, NEW c \in Callers, NEW n \in 0..MaxLen, Fill(n), caller' = c,
           lib = "wolf" => n = SeedLen /\ rng = "none",
           UNCHANGED <<lib, seed, boot, drawn, faults>>, calls' = calls + 1
    PROVE  IInv'
<1>1. TypeOK'
  BY RandomAssumption DEF IInv, TypeOK, Fill, Stale
<1>2. LoopInv'
  BY RandomAssumption DEF IInv, TypeOK, Fill, Stale, LoopInv, Filled, NoOverrun
<1>3. SeedInv'
  BY DEF IInv, TypeOK, Fill, SeedInv, SeedFresh
<1>4. QED
  BY <1>1, <1>2, <1>3 DEF IInv

\* A call with the generator there already preserves it: nothing is filled.
LEMMA BlockIInv ==
    ASSUME IInv, NEW c \in Callers, lib = "wolf", st \in {"idle", "returned"}, rng # "none",
           GenerateBlock(c, rng), caller' = c, calls' = calls + 1,
           UNCHANGED <<req, len, retval, pos, dst, rng, since, lib, seed, boot, drawn, faults>>
    PROVE  IInv'
<1>1. st = "returned" /\ st' \in {"returned", "panicked"} /\ got' = (rng = "ok")
  BY DEF IInv, LoopInv, GenerateBlock
<1>2. TypeOK'
  BY <1>1 DEF IInv, TypeOK
<1>3. LoopInv'
  BY <1>1 DEF IInv, LoopInv, Filled, NoOverrun
<1>4. SeedInv'
  BY <1>1 DEF IInv, SeedInv, SeedFresh
<1>5. QED
  BY <1>2, <1>3, <1>4 DEF IInv

\* Every call preserves it.
LEMMA DrawIInv ==
    ASSUME IInv, NEW c \in Callers, NEW n \in 0..MaxLen, Draw(c, n)
    PROVE  IInv'
<1>1. CASE lib = "mbed" /\ Fill(n)
  BY <1>1, FillIInv DEF Draw
<1>2. CASE lib = "wolf" /\ get_wc_rng(c)
  <2>1. CASE rng = "none" /\ Fill(SeedLen)
    BY <1>2, <2>1, FillIInv, RandomAssumption DEF Draw
  <2>2. CASE rng # "none" /\ GenerateBlock(c, rng) /\ UNCHANGED <<req, len, retval, pos, dst, rng, since>>
    BY <1>2, <2>2, BlockIInv DEF Draw
  <2>3. QED
    BY <1>2, <2>1, <2>2 DEF get_wc_rng
<1>3. QED
  BY <1>1, <1>2 DEF Draw

\* While the buffer is being filled, what is known of the generator stays.
LEMMA FillingSeed ==
    ASSUME SeedInv, TypeOK, st = "fill", st' = "fill", drawn' \in Nat, drawn' >= drawn,
           UNCHANGED <<lib, req, rng, got, seed, boot, since>>
    PROVE  SeedInv'
BY RandomAssumption DEF SeedInv, SeedFresh, TypeOK

\* memcpy of n fresh bytes at pos extends the filled part to pos + n.
LEMMA CopiedFilled ==
    ASSUME TypeOK, Filled(pos), NEW n \in Nat, pos + n <= MaxLen,
           dst' = Copied(n), since' = since,
           drawn' \in Nat, drawn' >= drawn + n
    PROVE  /\ dst' \in [1..MaxLen -> Nat]
           /\ \A i \in 1..MaxLen : i <= pos + n => dst'[i] \in (since' + 1)..drawn'
           /\ \A i \in 1..MaxLen : i > pos + n => dst'[i] = 0
           /\ \A i, j \in 1..MaxLen : i < j /\ j <= pos + n => dst'[i] < dst'[j]
<1>1. \A i \in 1..MaxLen : dst'[i] = IF pos < i /\ i <= pos + n THEN drawn + (i - pos)
                                     ELSE dst[i]
  BY DEF Copied
<1>2. dst' \in [1..MaxLen -> Nat]
  BY DEF Copied, TypeOK
<1>3. \A i \in 1..MaxLen : i <= pos + n => dst'[i] \in (since' + 1)..drawn'
  BY <1>1, SMTT(60) DEF TypeOK, Filled
<1>4. \A i \in 1..MaxLen : i > pos + n => dst'[i] = 0
  BY <1>1, SMTT(60) DEF TypeOK, Filled
<1>5. \A i, j \in 1..MaxLen : i < j /\ j <= pos + n => dst'[i] < dst'[j]
  BY <1>1, SMTT(60) DEF TypeOK, Filled
<1>6. QED
  BY <1>2, <1>3, <1>4, <1>5

\* Every step preserves the invariant.
LEMMA NextIInv == IInv /\ [Next]_vars => IInv'
<1> SUFFICES ASSUME IInv, [Next]_vars PROVE IInv'
  OBVIOUS
<1> USE RandomAssumption
<1>1. CASE UNCHANGED vars
  BY <1>1 DEF vars, IInv, TypeOK, LoopInv, Filled, NoOverrun, SeedInv, SeedFresh
<1>2. ASSUME NEW n \in 0..MaxLen, TEE_GenerateRandom(n) PROVE IInv'
  BY <1>2, DrawIInv DEF TEE_GenerateRandom, Callers
<1>3. CASE TEE_GenerateKey
  BY <1>3, DrawIInv DEF TEE_GenerateKey, Callers
<1>4. CASE Restart
  <2>1. TypeOK'
    <3>1. seed' \in [1..MaxLen -> Nat] /\ dst' \in [1..MaxLen -> Nat]
      BY <1>4 DEF Restart, Stale, IInv, TypeOK
    <3>2. got' \in BOOLEAN
      BY <1>4 DEF Restart
    <3>3. QED
      BY <1>4, <3>1, <3>2 DEF Restart, IInv, TypeOK
  <2>2. LoopInv' /\ SeedInv'
    BY <1>4 DEF Restart, IInv, LoopInv, NoOverrun, SeedInv
  <2>3. QED
    BY <2>1, <2>2 DEF IInv
<1>5. CASE ocall_getrandom196
  <2> PICK ret \in -1..SHORTCUT :
         /\ getrandom(SHORTCUT, ret)
         /\ dst' = IF ret = len THEN Copied(len) ELSE dst
         /\ retval' = ret
    BY <1>5 DEF ocall_getrandom196
  <2>1. /\ st = "fill" /\ req = SHORTCUT /\ len = req /\ len' = 0
        /\ UNCHANGED <<lib, st, caller, req, pos, rng, got, seed, boot, since, calls>>
    BY <1>5 DEF ocall_getrandom196
  <2>2. /\ len > 0 /\ pos = 0 /\ Filled(pos) /\ req \in Nat /\ req <= MaxLen
    BY <2>1 DEF IInv, LoopInv, TypeOK
  <2>3. /\ drawn' \in Nat /\ drawn' >= drawn /\ faults' \in Nat
        /\ ret > 0 => drawn' = drawn + ret
    BY DEF getrandom, IInv, TypeOK
  <2>seed. SeedInv'
    BY <2>1, <2>3, FillingSeed DEF IInv
  <2>4. CASE ret = len
    <3>1. /\ dst' \in [1..MaxLen -> Nat]
          /\ \A i \in 1..MaxLen : i <= pos + len => dst'[i] \in (since' + 1)..drawn'
          /\ \A i \in 1..MaxLen : i > pos + len => dst'[i] = 0
          /\ \A i, j \in 1..MaxLen : i < j /\ j <= pos + len => dst'[i] < dst'[j]
      BY <2>1, <2>2, <2>3, <2>4, CopiedFilled, SMTT(60) DEF IInv, TypeOK
    <3>2. TypeOK'
      <4>1. retval' \in -1..MaxLen
        BY <2>1, <2>2, <2>4
      <4>2. since \in 0..drawn' /\ boot \in 0..drawn'
        BY <2>3 DEF IInv, TypeOK
      <4>3. /\ got' \in BOOLEAN /\ seed' \in [1..MaxLen -> Nat]
            /\ caller' \in Callers \cup {"none"}
        BY <2>1 DEF IInv, TypeOK
      <4>4. len' \in 0..MaxLen /\ pos' \in 0..MaxLen /\ since' \in 0..drawn'
        BY <2>1, <2>2, <4>2
      <4>5. QED
        BY <2>1, <2>3, <3>1, <4>1, <4>2, <4>3, <4>4 DEF IInv, TypeOK
    <3>3. LoopInv'
      BY <2>1, <2>2, <2>3, <2>4, <3>1 DEF LoopInv, Filled, NoOverrun
    <3>4. QED
      BY <2>seed, <3>2, <3>3 DEF IInv
  <2>5. CASE ret # len
    <3>1. TypeOK'
      BY <2>1, <2>2, <2>3, <2>5, SMTT(60) DEF IInv, TypeOK
    <3>2. LoopInv'
      BY <2>1, <2>2, <2>3, <2>5 DEF IInv, LoopInv, Filled, NoOverrun
    <3>3. QED
      BY <2>seed, <3>1, <3>2 DEF IInv
  <2>6. QED
    BY <2>4, <2>5
<1>6. CASE ocall_getrandom16
  <2> PICK ret \in -1..CHUNK :
         /\ getrandom(CHUNK, ret)
         /\ \/ /\ ret > 0
               /\ dst' = Copied(Taken(ret))
               /\ retval' = retval + Taken(ret)
               /\ pos' = pos + Taken(ret)
               /\ len' = len - Taken(ret)
            \/ /\ ret <= 0
               /\ retval' = IF ret < 0 THEN ret ELSE retval
               /\ len' = 0
               /\ UNCHANGED <<dst, pos>>
    BY <1>6 DEF ocall_getrandom16
  <2>1. /\ st = "fill" /\ len > 0
        /\ UNCHANGED <<lib, st, caller, req, rng, got, seed, boot, since, calls>>
    BY <1>6 DEF ocall_getrandom16
  <2>2. /\ retval = pos /\ pos + len = req /\ Filled(pos)
        /\ req \in Nat /\ pos \in Nat /\ len \in Nat /\ req <= MaxLen
    BY <2>1 DEF IInv, LoopInv, TypeOK
  <2>3. /\ drawn' \in Nat /\ drawn' >= drawn /\ faults' \in Nat
        /\ ret > 0 => drawn' = drawn + ret
    BY DEF getrandom, IInv, TypeOK
  <2>seed. SeedInv'
    BY <2>1, <2>3, FillingSeed DEF IInv
  <2>4. CASE ret > 0
    <3> DEFINE n == Taken(ret)
    <3>1. n \in Nat /\ n <= len /\ n <= ret
      BY <2>2, <2>4 DEF Taken
    <3> HIDE DEF n
    <3>2. dst' = Copied(n) /\ retval' = retval + n /\ pos' = pos + n /\ len' = len - n
      BY <2>4 DEF n
    <3>3. /\ dst' \in [1..MaxLen -> Nat]
          /\ \A i \in 1..MaxLen : i <= pos + n => dst'[i] \in (since' + 1)..drawn'
          /\ \A i \in 1..MaxLen : i > pos + n => dst'[i] = 0
          /\ \A i, j \in 1..MaxLen : i < j /\ j <= pos + n => dst'[i] < dst'[j]
      BY <2>1, <2>2, <2>3, <2>4, <3>1, <3>2, CopiedFilled, SMTT(60) DEF IInv, TypeOK
    <3>4. pos' \in 0..MaxLen /\ len' \in 0..MaxLen /\ retval' \in -1..MaxLen
      BY <2>2, <3>1, <3>2
    <3>5. TypeOK'
      BY <2>1, <2>3, <3>3, <3>4 DEF IInv, TypeOK
    <3>6. LoopInv'
      BY <2>1, <2>2, <3>1, <3>2, <3>3 DEF LoopInv, Filled, NoOverrun
    <3>7. QED
      BY <2>seed, <3>5, <3>6 DEF IInv
  <2>5. CASE ret <= 0
    <3>1. TypeOK'
      BY <2>1, <2>2, <2>3, <2>5, SMTT(60) DEF IInv, TypeOK
    <3>2. len' = 0 /\ retval' \in Int /\ retval' # req'
      BY <2>1, <2>2, <2>5
    <3>3. NoOverrun'
      BY <2>1, <2>5 DEF IInv, LoopInv, NoOverrun
    <3>4. LoopInv'
      BY <2>1, <3>2, <3>3 DEF LoopInv
    <3>5. QED
      BY <2>seed, <3>1, <3>4 DEF IInv
  <2>6. QED
    BY <2>4, <2>5
<1>7. CASE FillPanics
  BY <1>7 DEF FillPanics, IInv, TypeOK, LoopInv, Filled, NoOverrun, SeedInv, SeedFresh
<1>8. CASE FillReturns
  <2>1. /\ st = "fill" /\ len = 0 /\ retval = req /\ Filled(req)
        /\ UNCHANGED <<lib, caller, req, len, retval, pos, dst, boot, drawn, since, calls>>
    BY <1>8 DEF FillReturns, Short, AsUint32, IInv, TypeOK, LoopInv
  <2>2. Filled(req)' /\ NoOverrun'
    BY <2>1 DEF IInv, LoopInv, Filled, NoOverrun
  <2>3. CASE /\ lib = "mbed" /\ st' = "returned" /\ got' = TRUE
             /\ UNCHANGED <<rng, seed, faults>>
    BY <2>1, <2>2, <2>3 DEF IInv, TypeOK, LoopInv, SeedInv, SeedFresh
  <2>4. CASE /\ lib = "wolf" /\ GenerateBlock(caller, rng')
             /\ \/ rng' = "ok" /\ seed' = dst /\ UNCHANGED faults
                \/ rng' = "failed" /\ faults' = faults + 1 /\ UNCHANGED seed
    <3>1. st' \in {"returned", "panicked"} /\ got' \in BOOLEAN /\ (got' => rng' = "ok")
      BY <2>4 DEF GenerateBlock
    <3>2. TypeOK'
      BY <2>1, <2>4, <3>1 DEF IInv, TypeOK
    <3>3. LoopInv'
      BY <2>2, <3>1 DEF LoopInv
    <3>4. rng' = "ok" => SeedFresh'
      <4>1. req = SeedLen /\ boot <= since
        BY <2>1, <2>4 DEF IInv, SeedInv
      <4>2. SUFFICES ASSUME rng' = "ok" PROVE SeedFresh'
        OBVIOUS
      <4>3. seed' = dst
        BY <2>4, <4>2
      <4>4. QED
        BY <2>1, <4>1, <4>3 DEF Filled, SeedFresh, IInv, TypeOK
    <3>5. SeedInv'
      BY <3>1, <3>4 DEF SeedInv
    <3>6. QED
      BY <3>2, <3>3, <3>5 DEF IInv
  <2>5. QED
    BY <1>8, <2>3, <2>4 DEF FillReturns
<1>9. QED
  BY <1>1, <1>2, <1>3, <1>4, <1>5, <1>6, <1>7, <1>8 DEF Next

\* The invariant holds throughout.
LEMMA AlwaysIInv == Spec => []IInv
BY InitIInv, NextIInv, PTL DEF Spec

\* ocall_getrandom and its callers keep the types of their variables.
THEOREM RandomTypes == Spec => []TypeOK
<1>1. IInv => TypeOK
  BY DEF IInv
<1>2. QED
  BY AlwaysIInv, <1>1, PTL

\* Whenever TEE_GenerateRandom returns, the buffer requested from the host is
\* filled to the last byte with fresh bytes, and nothing behind it is written.
THEOREM RandomIsFresh == Spec => []FilledFresh
<1>1. IInv => FilledFresh
  <2> SUFFICES ASSUME IInv, st = "returned"
               PROVE  /\ \A i \in 1..MaxLen : IF i <= req THEN dst[i] \in (since + 1)..drawn
                                              ELSE dst[i] = 0
                      /\ \A i, j \in 1..req : i < j => dst[i] < dst[j]
    BY DEF FilledFresh
  <2>1. Filled(req) /\ req \in 0..MaxLen
    BY DEF IInv, LoopInv, TypeOK
  <2>2. \A i \in 1..MaxLen : IF i <= req THEN dst[i] \in (since + 1)..drawn
                             ELSE dst[i] = 0
    BY <2>1, RandomAssumption DEF Filled
  <2>3. \A i, j \in 1..req : i < j => dst[i] < dst[j]
    BY <2>1, RandomAssumption DEF Filled
  <2>4. QED
    BY <2>2, <2>3
<1>2. QED
  BY AlwaysIInv, <1>1, PTL

\* No pass of the loop of ocall_getrandom writes behind the buffer.
THEOREM RandomStaysInside == Spec => []NoOverrun
<1>1. IInv => NoOverrun
  BY DEF IInv, LoopInv
<1>2. QED
  BY AlwaysIInv, <1>1, PTL

\* With wolfCrypt whatever a call hands out comes from a generator whose seed this
\* instance has drawn from the host, complete, although a generator whose
\* initialisation failed stays marked as initialised and TEE_GenerateKey goes on
\* with it.
THEOREM GeneratorIsSeeded == Spec => []SeededThisInstance
<1>1. IInv => SeededThisInstance
  BY DEF IInv, SeedInv, SeededThisInstance
<1>2. QED
  BY AlwaysIInv, <1>1, PTL

=============================================================================
