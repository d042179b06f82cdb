\* Every message of up to 32 bytes of attributes, and the ones cut short.
CONSTANTS
    Sizes <- SmallSizes
    Lengths <- SmallLengths
SPECIFICATION Spec
INVARIANTS
    TypeOK
    ReadsInBounds
    LoopEndsAtTheEnd
    AcceptedInOrder
PROPERTIES
    PositionAdvances
\* Parse returns, and does nothing more.
CHECK_DEADLOCK FALSE
