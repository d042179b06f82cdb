\* One datagram that fills the receive buffer, with a long user name.
CONSTANTS
    Sizes = {1056}
    Lengths = {512, 1032}
SPECIFICATION Spec
INVARIANTS
    UsernameIsShort
CHECK_DEADLOCK FALSE
