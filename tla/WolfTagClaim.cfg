SPECIFICATION Spec
CONSTANTS
    Garbage = Garbage  Empty = Empty
    Kinds <- GcmKinds
    Types = {"AES"}
    Ops = {o1}
    Objs = {b1}
    Chunks = {c1}
    Nonces = {n1}
    Aads = {ad1}
    Lib = "wolf"
    MaxKeys = 1
    MaxSealed = 1
    MaxFeed = 2
    MaxAads = 1
SYMMETRY Sym
INVARIANTS Authentic
