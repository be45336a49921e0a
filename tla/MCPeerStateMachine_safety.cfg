SPECIFICATION Spec
CONSTANTS
    i1 = i1
    i2 = i2
    r1 = r1
    r2 = r2
    Timer = Timer
    None = None
    InConns <- MCInitiated
    AcConns <- MCOneAccepted
    Fds <- MCFds
    Elections = {TRUE, FALSE}
    MaxMsgs = 2
INVARIANTS
    ConnAckIsPrivate
    SocketsSound
PROPERTIES
    LegalTransitions
    OpenedByItsReceiver
SYMMETRY Symmetry
CHECK_DEADLOCK FALSE
