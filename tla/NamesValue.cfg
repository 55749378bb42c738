\* One program that looks up the attributes of a library.
SPECIFICATION Spec
CONSTANTS
    p1 = p1
    p2 = p2
    w1 = w1
    w2 = w2
    np = np
    dot = dot
    pi = pi
    excel = excel
    Excel = Excel
    Programs <- OneProgram
    Workers <- OneWorker
    Names <- SomeNames
    Library = np
    NoWorker = NoWorker
    NoName = NoName
    Parent <- Parents
    Kind <- Kinds
    Lazy <- LazyNames
    Allowed <- AllowedNames
PROPERTY AttributesArrive
