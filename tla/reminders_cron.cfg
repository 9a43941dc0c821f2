SPECIFICATION FairSpec
CONSTANTS
    Meetings = {m1}
    Channels = {"whatsapp", "email"}
    Offsets = {"24h", "2h"}
    None = None
    Lead <- LeadTicks
    Inserts <- MCInserts
    Edits <- LiveEdits
    Batches = {b1, b2}
    Handlers = {h1}
    BatchLimit = 1
    MaxTime = 3
    MaxEdits = 1
    MaxFaults = 1
    MaxCrashes = 0
INVARIANTS OncePerScheduling
PROPERTIES DueIsServed
CHECK_DEADLOCK FALSE
