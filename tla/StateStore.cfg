SPECIFICATION Spec
CONSTANTS
    Values = {v1, v2, v3}
    Absent = Absent
    Broken = Broken
    Foreign = Foreign
    Damages = {Absent, Broken}
    MaxDamages = 2
PROPERTIES
    AtomicRegister
    RecoveryPointKept
