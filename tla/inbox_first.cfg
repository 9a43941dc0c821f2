SPECIFICATION Spec
CONSTANTS
    p1 = p1
    p2 = p2
    m1 = m1
    m2 = m2
    o1 = o1
    None = None
    Phones <- TwoPhones
    Inbound <- MCInbound
    Outbound <- MCOutbound
    Party <- TwoParty
    Payloads <- TwoPayload
    Webhooks = {h1, h2}
    Agents = {a1}
    MaxDeliveries = 3
    MaxReads = 0
    MaxFailures = 0
PROPERTY EveryMessageStored
CHECK_DEADLOCK FALSE
