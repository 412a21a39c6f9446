SPECIFICATION Spec
CONSTANTS
    Garbage = Garbage  Empty = Empty
    Kinds <- GcmKinds
    Types = {"AES"}
    Ops = {o1}
    Objs = {b1}
    Chunks = {c1}
    Nonces = {n1}
    Aads = {ad1, ad2}
    Lib = "mbed"
    MaxKeys = 1
    MaxSealed = 1
    MaxFeed = 2
    MaxAads = 2
SYMMETRY Sym
INVARIANTS AllAadAuthentic
