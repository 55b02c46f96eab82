CONSTANTS
    a = a
    b = b
    c = c
    x1 = x1
    x2 = x2
    x3 = x3
    Ep <- MCEp
    Ent <- MCEnt
    Home <- MCHome
    Free = Free
SPECIFICATION FairSpec
INVARIANTS NullOnlyBehindWriter
PROPERTIES ImplementsQueue EveryEntryRead
