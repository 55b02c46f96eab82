CONSTANTS
    Proc = {1, 2, 3}
    Id = {1, 2, 3, 4}
    Addr = {1, 2, 3}
    Aligned <- MCAligned
    MaxCnt = 2
    MaxSize = 4
    Setups <- MCSetups
    MaxUnmaps = 1
SPECIFICATION FairSpec
INVARIANTS OneState Accounts NoneNested HeldFresh
PROPERTIES CallsReturn
CHECK_DEADLOCK FALSE
