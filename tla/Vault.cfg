SPECIFICATION Spec
CONSTANTS
    Writer = {w1, w2}
    Reader = {r1}
    Doc = {d1}
    Version = {v1, v2, leaky}
    Valid = {v1, v2}
    NoWriter = NoWriter
    NoVersion = NoVersion
CHECK_DEADLOCK FALSE
INVARIANTS
    DictionaryHasManifest
    ReturnedIsDurable
    ReadYourCommit
PROPERTY CallsEnd
