\* The parts with their own instances; two interps with three signals, one of them that of
\* alarm() and one that nobody may catch.
SPECIFICATION LibrarySpec
CONSTANTS
    None = None
    Missing = Missing
    Slots = {1, 2}
    Exts = {}
    Values = {}
    Requests = {}
    MaxConnects = 1
    MaxRedirects = 1
    MaxIds = 2
    MaxMsgs = 2
    MaxFrames = 3
    MaxHttp = 0
    Interps = {"p", "q"}
    Primary = "p"
    Sigs = {"s", "a", "k"}
    Alrm = "a"
    Uncaught = {"k"}
    Lists <- SignalLists
    MaxEvents = 2
    MaxSends = 2
    MaxDepth = 2
    MaxOps = 3
INVARIANTS
    SocketSound
    HostSound
    SignalsSound
    OptionsSound
    JsonSound
\* Commands are bounded, and a behaviour ends with a fault.
CHECK_DEADLOCK FALSE
