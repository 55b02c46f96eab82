CONSTANTS
    p1 = p1
    p2 = p2
    c1 = c1
    c2 = c2
    Producers <- MCProducers
    Consumers <- MCConsumers
    Value <- MCValue
    None = None
    Size = 2
    MaxPos = 3
SPECIFICATION FairSpec
INVARIANTS OneHolder
PROPERTIES RefusalsReal ImplementsQueue KeepsDraining
