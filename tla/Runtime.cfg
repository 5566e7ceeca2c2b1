SPECIFICATION RuntimeSpec
CONSTANTS
    Files = {"x", "x2", "y"}
    NameOf <- LibraryNames
    Ids = {1, 2}
    MaxDepth = 2
    MaxOps = 4
    Lines <- AllLines
    Hosts <- SomeHosts
    MaxFd = 12
    MaxKids = 4
    MaxExecs = 2
INVARIANTS
    RunsAsWritten
    TreeSound
    ArraysSound
    ExecSound
    ExtensionsSound
\* Compiled code ends, and calls of exec() and of libraries are bounded.
CHECK_DEADLOCK FALSE
