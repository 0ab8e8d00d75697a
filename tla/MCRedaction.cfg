SPECIFICATION RedactionSpec
CONSTANTS
    d1 = d1
    d2 = d2
    Document = {d1, d2}
    Char <- MCChar
    Kind <- MCKind
    Digest <- MCDigest
    Lower <- MCLower
    Blank = " "
    Window = 2
    Inputs <- MCInputs
    Rules <- MCRules
    Query <- MCQuery
    MaxRows = 3
CHECK_DEADLOCK FALSE
INVARIANTS
    RefusedForCause
    EntitiesAccounted
    IndexRaisesForCause
    AskedValueIsShown
