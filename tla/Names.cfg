\* Two runs at a time, any number of them one after the other.
SPECIFICATION Spec
CONSTANTS
    p1 = p1
    p2 = p2
    w1 = w1
    w2 = w2
    np = np
    dot = dot
    pi = pi
    excel = excel
    Excel = Excel
    Programs <- TwoPrograms
    Workers <- TwoWorkers
    Names <- SomeNames
    Library = np
    NoWorker = NoWorker
    NoName = NoName
    Parent <- Parents
    Kind <- Kinds
    Lazy <- LazyNames
    Allowed <- AllowedNames
SYMMETRY Symmetry
INVARIANTS
    TypeOK
    CacheTrue
    ProxiesTrue
PROPERTY CacheStable
