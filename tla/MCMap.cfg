CONSTANTS
    NULL = NULL
    io = io
    ok = ok
    Foo = Foo
    a = a
    v1 = v1
    Keys <- MCKeys
    Values <- MCValues
    Caps <- MCCaps
    Slot <- MCSlot
SPECIFICATION Spec
INVARIANTS TypeOK ItemsFindable
PROPERTY Refinement
