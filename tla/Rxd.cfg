CONSTANTS
    a = a
    b = b
    EP <- MCEP
    Envs <- Normal
    Window = 2
    MaxRetry = 50
    RetryBound = 1
    TxAvail = 2
    RxAvail = 1
    From = a
    MaxLog = 8
SPECIFICATION Spec
INVARIANTS ListsAgree NoCrash ReportedRight MessageOrder
