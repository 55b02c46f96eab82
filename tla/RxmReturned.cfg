SPECIFICATION Spec
CONSTANTS
    Ep = {1, 2}
    Pool <- MCPool
    Msg = {1, 2, 3, 4}
    Setups <- MCDeferring
INVARIANTS ReturnedConn
CHECK_DEADLOCK FALSE
