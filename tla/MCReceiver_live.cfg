SPECIFICATION BothSpec
CONSTANTS
    s1 = s1
    s2 = s2
    m1 = m1
    m2 = m2
    receiver = receiver
    Senders = {s1, s2}
    Locking = {s2}
    Msgs = {m1, m2}
    Streams <- SomeStreams
    HDR = 2
    MAX = 3
    PIPE = 1
    Nil = None
    Timer = Timer
    None = None
    InConns = {i1}
    AcConns = {r1}
    Fds = {3, 4}
    Elections = {TRUE}
    MaxMsgs = 2
INVARIANT StreamsSound
PROPERTIES
    WaitsEnd
    DeadPeerIsClosed
    PipeServed
CHECK_DEADLOCK FALSE
