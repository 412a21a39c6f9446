SPECIFICATION Spec
CONSTANTS
    Garbage = Garbage  Empty = Empty
    Kinds <- OtherKinds
    Types = {"AES", "ECDSA_KEYPAIR"}
    Ops = {o1}
    Objs = {b1}
    Chunks = {c1, c2}
    Nonces = {n1}
    Aads = {ad1}
    Lib = "wolf"
    MaxKeys = 2
    MaxSealed = 1
    MaxFeed = 2
    MaxAads = 1
SYMMETRY Sym
INVARIANTS CbcStreamFaithful DigestExact VerifiedWasSigned
