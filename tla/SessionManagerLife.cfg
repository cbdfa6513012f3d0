SPECIFICATION FairSpec
CONSTANTS
    Sessions = {s1, s2, s3}
    Ops = {o1, o2, o3}
    Accounts = {a1}
    Sftp = {}
    Keys = {k1}
    Blobs = {b1, b2}
    ProfileBlob = ProfileBlob
    NoSession = NoSession
    NoAccount = NoAccount
    NoKey = NoKey
    NoBlob = NoBlob
INVARIANTS
    OneLiveSession
    DisconnectMeansClosed
PROPERTIES
    DisconnectEnds
