\* Four requests on two streams, of every kind and in every order; peers may
\* share an ICE name, may fail to be created, and may be answered early.
CONSTANTS
    Requests = {r1, r2, r3, r4}
    Streams = {s1, s2}
    Ufrags = {u1, u2}
    None = None
    CreateMayFail = TRUE
    AnswerMayLead = TRUE
SYMMETRY Symmetry
SPECIFICATION Spec
INVARIANTS
    TypeOK
    PlayFindsPublisher
    AttachmentAgrees
    NamesResolve
PROPERTIES
    OnlyGrows
    ImplementsAccess
\* The model has a fixed number of requests: it stops when all are handled.
CHECK_DEADLOCK FALSE
