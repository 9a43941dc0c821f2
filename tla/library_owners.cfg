SPECIFICATION MediaSpec
CONSTANTS
    None = None
    Handlers = {h1}
    MaxCalls = 2
    MaxFaults = 0
    Files = {f1, f2}
    Uploaders = {u1, u2}
CHECK_DEADLOCK FALSE
INVARIANT OnlyOwnersRemove
