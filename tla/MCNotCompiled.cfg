CONSTANTS
    NULL = NULL
    Absent = Absent
    Other = Other
    ioSyn = ioSyn
    aSyn = aSyn
    bSyn = bSyn
    io = io
    rootA = rootA
    rootB = rootB
    rootZ = rootZ
    b = b
    x = x
    y = y
    v = v
    A = A
    B = B
    C = C
    File = File
    nope = nope
    i32 = i32
    Mods <- MCMods
    Names <- MCNames
    Rooted <- MCRooted
    KeyMod <- MCKeyMod
    AbsMod <- MCAbsMod
    Programs <- MCPrograms
SPECIFICATION FairSpec
INVARIANT NotCompiledMeansAbsent
