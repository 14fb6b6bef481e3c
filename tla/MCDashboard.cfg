CONSTANTS
    None = None
    adm = adm
    mgr = mgr
    tech = tech
    t1 = t1
    t2 = t2
    t3 = t3
    t4 = t4
    t5 = t5
    t6 = t6
    s1 = s1
    a1 = a1
    a2 = a2
    Users = {adm, mgr, tech}
    Actors = {adm, mgr, tech}
    TaskIds = {t1, t2, t3, t4, t5, t6}
    Sheets = {s1}
    Postings = {s1}
    Clerks = {c1, c2}
    Tickets = {k1}
    Agents = {a1, a2}
    Workers = {w1, w2}
    RoleOf <- MCRoleOf
    RegionOf <- MCRegionOf
    Seeded <- MCSeeded
    SheetOf <- MCSheetOf
    AgentTask <- MCAgentTask
    Conversions <- MCConversions
    Bodies <- MCBodies
    Late = {t1, t2}
    FirstManager <- MCFirstManager
    Moves <- MCMoves
    Viewers = {v1}
    ViewerOf <- MCViewerOf
    Technicians = {tech}
    EventTypes = {"CUSTOMER_SIGNED"}
    ListLimit = 2
    EventLimit = 2
    MaxRequests = 3
    MaxDeliver = 2
    MaxFaults = 1
SPECIFICATION PageSpec
SYMMETRY Symmetry
INVARIANTS
    PageTypeOK
    DependencyRespected
    CirclesAreRemade
    LabourCostedOnce
    TicketNamesItsTask
    ShowsOwnTeam
    AnswersAgree
CHECK_DEADLOCK FALSE
