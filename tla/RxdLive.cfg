CONSTANTS
    a = a
    b = b
    EP <- MCEP
    Envs <- Fair
    Window = 2
    MaxRetry = 1
    RetryBound = 2
    TxAvail = 2
    RxAvail = 1
    From = a
    MaxLog = 8
SPECIFICATION FairSpec
PROPERTIES EventuallyDone
