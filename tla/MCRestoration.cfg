SPECIFICATION Spec
CONSTANTS
    c1 = c1
    c2 = c2
    d1 = d1
    k1 = k1
    k2 = k2
    None = None
    Garbled = Garbled
    Profile = {"open", "strict"}
    ProductionScope = {"prod", "test"}
    Authorization = {"ok"}
    Ticket = {"t1", "t2"}
    LongTicket = {}
    Call = {c1, c2}
    Doc = {d1}
    Entry <- MCEntry
    Dictionaries <- MCDictionaries
    Requests <- MCRequests
    Table <- MCTable
    AppendFaults = {"nothing", "all"}
INVARIANTS
    TypeOK
    KernelOnlyAfterIntent
    DisclosureAudited
    FailureAudited
    RecordPattern
PROPERTIES
    AuditedDisclosureSpec
    AppendOnly
    EveryCallAnswered
