SPECIFICATION OfficeSpec
CONSTANTS
    None = None
    Handlers = {h1, h2}
    MaxCalls = 5
    MaxFaults = 1
    Budget <- OfficeBudget
    Meetings = {"m1"}
    Events = {"e1", "e2", "e3"}
    Dates = {1, 2}
    CalendarEdits <- OfficeEdits
    Rdvs = {"m1"}
    Staff = {"ana", "fil"}
    RoleOf <- OfficeRoles
    Names = {"n1"}
    Instants = {22, 194}
    Durations = {2}
    Timezones <- OfficeZones
    SlotSets <- OfficeSlots
    ClockChange = 170
    Tasks = {"t1", "t2"}
    Lists = {"l1"}
    Addresses = {"a1"}
    LeadStatuses = {"neuf"}
    PageSize = 1
    Users = {"a", "b", "c"}
    Founders = {"a", "b"}
    Emails = {"x1", "x2"}
    GivenRoles = {"admin", "admin_whatsapp"}
    Sockets = {"s1", "s2"}
    Docs = {"d1", "d2", "d3"}
    DocYears = {2025, 2026}
    Contents <- OfficeLines
    FreeTotals <- OfficeTotals
    Proposed = {2}
    NumberLimit = 3
    Attempts = 2
    Clients = {"acme", "globex"}
    Pipelines = {"p1", "p2"}
    PortalLeads = {"l1"}
    PortalTasks = {"k1", "k2", "k3"}
    Members = {"e1", "e2"}
    LeadStages = {"nouveau", "gagne"}
    OwnerNames <- OfficeNames
    MailOf <- OfficeMail
    CompanyOf <- OfficeMail
    Owners = {"acme", "globex"}
    States = {"s1", "s2"}
    Links = {"i1", "i2"}
    FbPages = {"page1"}
    FormsOn <- OfficeForms
    MessageIds = {1, 2, 3}
    Moments = {1, 2}
    Take = 1
    MailUsers = {"ana"}
    Boxes = {"b1", "b2"}
    Mails = {1, 2}
    CrmIds = {"c1", "c2"}
    CrmOwners = {"ana", "fil"}
    CrmEmails = {"x1"}
    Ices = {"ab", "AB"}
    UpperOf <- OfficeUpper
    Files = {"f1", "f2", "f3"}
    Uploaders = {"ana", "fil"}
SYMMETRY OfficeSymmetry
CHECK_DEADLOCK FALSE
INVARIANTS
    OfficeTypeOK
    NoStrayEvent
    EventShowsTheRow
    ConfirmedOnce
    InFlightIsSending
    PeopleAsAsked
    MirrorFollowsClickup
    AdminRemains
    OnlineIsConnected
    DocumentsAddUp
    BoardKept
    FormsFollowConnection
    OwnMailToldTrue
    ClientsApart
    FilesFollowRows
    ReportsAgree
