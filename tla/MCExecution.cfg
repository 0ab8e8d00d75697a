SPECIFICATION Spec
CONSTANTS
    c1 = c1
    c2 = c2
    name = name
    short = short
    quoted = quoted
    edge = edge
    Garbled = Garbled
    NoFragment = NoFragment
    NoCall = NoCall
    LongId = LongId
    OpaqueWord <- MCOpaqueWord
    FragmentWord <- MCOpaqueWord
    Call = {c1, c2}
    Value <- MCValue
    Reappears = {edge}
    Escaped = {quoted}
    Version <- MCVersion
    Requests <- MCRequests
    MayAsk <- MCMayAsk
    Document = "doc"
    AppendFaults = {"nothing", "partial", "all"}
CHECK_DEADLOCK FALSE
INVARIANTS
    TypeOK
    GatesFirst
    AnswerOnRecord
    OutputRedacted
    AcceptedIsDurable
    OrphanHasReason
PROPERTY EveryExecutionEnds
