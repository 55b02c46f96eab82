CONSTANTS
    Peers <- MCPeers
    Envs <- Receives
    RxAvail = 4
    MinMulti = 2
    SizeMod = 16
SPECIFICATION Spec
INVARIANTS  MessageKept NoMissedMatch MatchedInTurn
CHECK_DEADLOCK FALSE
