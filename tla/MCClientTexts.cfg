\* Every text of up to six characters, as a stream url and as an SDP.
CONSTANTS
    MaxLength = 6
SPECIFICATION Spec
INVARIANTS
    IdIsLastSegment
    ExitsWithoutSegment
    QueryDoesNotMatter
    NameIsFirst
\* The text has its longest length.
CHECK_DEADLOCK FALSE
