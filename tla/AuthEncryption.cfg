SPECIFICATION Spec
CONSTANTS
    Garbage = Garbage  Empty = Empty
    Kinds <- GcmKinds
    Types = {"AES"}
    Ops = {o1}
    Objs = {b1}
    Chunks = {c1, c2}
    Nonces = {n1}
    Aads = {ad1}
    Lib = "mbed"
    MaxKeys = 1
    MaxSealed = 1
    MaxFeed = 2
    MaxAads = 1
SYMMETRY Sym
INVARIANTS TypeOK AeStateSound Authentic
