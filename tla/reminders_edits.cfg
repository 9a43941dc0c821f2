SPECIFICATION Spec
CONSTANTS
    Meetings = {m1}
    Channels = {"whatsapp", "email"}
    Offsets = {"24h", "2h"}
    None = None
    Lead <- LeadTicks
    Inserts <- MCInserts
    Edits <- MCEdits
    Batches = {b1}
    Handlers = {h1, h2}
    BatchLimit = 2
    MaxTime = 3
    MaxEdits = 2
    MaxFaults = 0
    MaxCrashes = 1
INVARIANTS TypeOK PendingMatchesMeeting NothingForgotten SentAnnouncedTheDate
PROPERTIES KeepsReminders
CHECK_DEADLOCK FALSE
SYMMETRY Alike
