\* One publisher and one player, or two of a kind, heard from two addresses.
\* Creations may fail, and clients may connect before Write has returned.
CONSTANTS
    Requests = {r1, r2}
    Streams = {s1}
    Ufrags = {1, 2}
    Addrs = {a1, a2}
    None = None
    CreateMayFail = TRUE
    AnswerMayLead = TRUE
    Threads = {cycle, main}
    CycleThread = cycle
    MainThread = main
    MaxFrames = 2
SPECIFICATION FairSarsSpec
VIEW View
INVARIANTS
    ConnectedPeersAreReached
    FramesGoBetweenClients
PROPERTIES
    ThreadsComeBack
\* The numbers of requests and frames are fixed: the last state may be final.
CHECK_DEADLOCK FALSE
