SPECIFICATION FairSpec
CONSTANTS
    Versions = {v1, v2}
    Builds = {b1, b2}
    Installers = {i1}
    Absent = Absent
    Empty = Empty
    Torn = Torn
    NoVersion = NoVersion
INVARIANTS TypeOK OutWhole BinWhole
PROPERTIES BinStays Installed
