CONSTANTS
    c1 = c1
    c2 = c2
    Contracts <- TwoContracts
    Emitted <- Chain
    Sequence = TRUE
    Limit = 1
    Directions <- BothOrders
    MaxId = 7
    MaxDeletes = 1
SPECIFICATION Spec
INVARIANTS
    TypeOK
    PageOrder
    TraversalComplete
    HeldIdsTrue
PROPERTIES
    EndsAtTableEnd
    ImplementsListing
