SPECIFICATION ArraySpec
CONSTANTS
    Files = {"x", "x2", "y"}
    NameOf <- LibraryNames
    Ids = {1, 2}
    MaxDepth = 2
    MaxOps = 4
    Lines <- AllLines
    Hosts <- SomeHosts
    MaxFd = 12
    MaxKids = 4
    MaxExecs = 2
INVARIANT PushPushes
\* Calls are bounded.
CHECK_DEADLOCK FALSE
