CONSTANTS
    Ep = {"a", "b"}
    Pool <- MCPool
    Kinds = {"inject", "cma", "atomic", "fetch"}
    Senders = {"a"}
    Receivers = {"b"}
    Mems = {"host", "dev"}
    RxSlots = 2
    MaxSends = 2
    MaxRecvs = 2
    Closers = {"a", "b"}
    MemcpyFails = TRUE
SPECIFICATION FairSpec
INVARIANTS OneKeeper   
PROPERTIES EverySendCompletes
CHECK_DEADLOCK FALSE
