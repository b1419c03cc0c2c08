SPECIFICATION MCSpec
CONSTANTS
    Pids = {p1, p2}
    Containers = {c1, c2}
    Host = host
    None = None
    Untracked = {c2}
    Programs = {"/a", "/b"}
    SyscallChannelSize = 3
    ContextChanSize = 1
    ReplayTries = 2
    MaxEvents = 5
  
PROPERTIES WorkedOff ShutdownEnds
CHECK_DEADLOCK FALSE
