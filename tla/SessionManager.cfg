SPECIFICATION Spec
CONSTANTS
    Sessions = {s1}
    Ops = {o1}
    Accounts = {a1, a2}
    Sftp = {a1, a2}
    Keys = {k1, k2}
    Blobs = {b1, b2, b3, b4}
    ProfileBlob = ProfileBlob
    NoSession = NoSession
    NoAccount = NoAccount
    NoKey = NoKey
    NoBlob = NoBlob
SYMMETRY Symmetry
INVARIANTS
    SecretsOwnedOnce
    SecretsFollow
PROPERTIES
    PinIsKept
