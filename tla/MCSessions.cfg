SPECIFICATION FairSpec
CONSTANTS
    c1 = c1
    c2 = c2
    c3 = c3
    Callers = {c1, c2}
    Shutdown = Shutdown
    NoCaller = NoCaller
    AgentKinds = {"claude-code", "codex"}
    MaxStarts = 2
    MaxCrashes = 2
INVARIANTS
    RowsTellTheTruth
    NoOrphans
    TurnsDieWithTheirAgent
    HandshakeWaitsForNoCorpse
PROPERTIES
    StopsEnd
    OneSlot
