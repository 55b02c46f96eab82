CONSTANTS
    d1 = d1
    d2 = d2
    Payload <- MCPayload
    Transfers <- MCTransfers
    Window = 1
    MaxLog = 2
SPECIFICATION Spec
INVARIANTS InOrderDelivery KeptUntilAccepted BufferOwnership
