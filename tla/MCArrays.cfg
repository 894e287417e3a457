CONSTANTS
    a = a
    b = b
    zero = zero
    none = none
    junk = junk
    Elems <- MCElems
    Zero = zero
    Caps = {0, 1, 2, 3}
    Others <- MCOthers
    MaxLen = 5
SPECIFICATION Spec
INVARIANT WithinMemory
PROPERTY ImplementsList
