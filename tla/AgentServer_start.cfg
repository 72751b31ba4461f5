\* Six environments without collectors and a set of pods with two of them; models.toml
\* is changed up to three times while the server starts and serves.
SPECIFICATION FairSpec
CONSTANTS
    A = A  B = B  o1 = o1  o2 = o2  c1 = c1  c2 = c2  s1 = s1  s2 = s2
    Blank = Blank  Unset = Unset  NoFile = NoFile  BadText = BadText
    Malformed = Malformed  Unreadable = Unreadable
    Setting = {s1, s2}
    DefaultOllama = s1
    DefaultOpenAI = s1
    Text <- Texts
    Collector = {c1, c2}
    Token = {A, B}
    Origin = {o1, o2}
    Setup <- Situations
    MaxSaves = 3
    MaxReadFaults = 1
    MaxTime = 4
INVARIANTS
    TypeOK
    OnlyHoldersUpgraded
    ServesConfiguredModel
    RegistryComplete
    RegisteredToolsRun
PROPERTIES
    CatchesUp
    ImplementsModelSnapshots
    StartupEnds
\* The program ends.
CHECK_DEADLOCK FALSE
