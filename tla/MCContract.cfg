SPECIFICATION ContractSpec
CONSTANTS
    Values <- MCValues
    MaxSegments = 2
    MaxChunk = 2
INVARIANTS
    NothingIsDroppedSilently
PROPERTIES
    RepairIsOwed
