SPECIFICATION FairSpec
CONSTANTS
    p1 = p1
    p2 = p2
    m1 = m1
    m2 = m2
    o1 = o1
    None = None
    Phones <- MCPhones
    Inbound <- MCInbound
    Outbound <- MCOutbound
    Party <- MCParty
    Payloads <- MCPayloads
    Webhooks = {h1, h2}
    Agents = {a1}
    MaxDeliveries = 3
    MaxReads = 1
    MaxFailures = 1
INVARIANTS
    TypeOK
    UnreadBounded
    UnreadExact
    NoteMeansWaiting
    ToldIsShown
PROPERTIES
    KeepsInbox
    DeliveredIsStored
CHECK_DEADLOCK FALSE
