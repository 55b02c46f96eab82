SPECIFICATION Spec
CONSTANTS
    Ep = {1, 2}
    Pool <- MCPool
    Msg = {1, 2, 3, 4}
    Setups <- MCSetups
INVARIANTS Bookkeeping FacingEachOther
PROPERTIES LinksLast Connects
CHECK_DEADLOCK FALSE
