SPECIFICATION FairSpec
CONSTANTS
    s1 = s1
    s2 = s2
    Shells <- MCShells
    Cwd <- MCCwd
    Home <- MCHome
    CommandLines <- MCCommandLines
    Rcs <- MCRcs
    MaxEdits = 1
    MaxSpawned = 2
    Garbled = Garbled
    NoValue = NoValue
    NoConfig = NoConfig
    HostConfig = HostConfig
    Malformed = Malformed
INVARIANTS TypeOK AsAsked MeetsItsPoke ReachesOwnDirs WholeFiles DeclaredDirs
PROPERTY PokedIsServed
