SPECIFICATION Spec
CONSTANTS
    p1 = p1
    p2 = p2
    e1 = e1
    n1 = n1
    n2 = n2
    Absent = Absent
    Phones = {p1, p2}
    Emails = {e1}
    Names = {n1, n2}
    Jobs = {1, 2}
    NoJob = NoJob
    Requests <- MCRequests
    MaxFaults = 1
    MaxCrashes = 1
    MaxCancels = 1
INVARIANTS
    TypeOK
    AtMostOncePerRecipient
    RunningIsOwned
    PendingIsServed
    ReportIsTrue
    CancelTakesEffect
    ResultsMatchReport
PROPERTIES
    KeepsPromise
CHECK_DEADLOCK FALSE
