\* A dump of two frames, two files, and two local tracks with up to two codecs.
CONSTANTS
    DumpLimit = 2
    Files = {f1, f2}
    PayloadTypes = {102, 125}
    MaxTracks = 2
    None = None
SPECIFICATION Spec
INVARIANTS
    DumpIsBounded
    DumpFileIsOpen
    TimeOutIsLoss
    PayloadTypeIsFirstOffered
\* Nothing happens after the destructor.
CHECK_DEADLOCK FALSE
