SPECIFICATION FairSpec
CONSTANTS
  Tables <- MCTables
  SeedCodes <- MCSeedCodes
  Governed = {"reservoirs", "gates"}
  Drafts = {"OD-001", "EC-001"}
  WithRedis = TRUE
  Attempts = 3
  MaxFaults = 2
INVARIANT TypeOK
INVARIANT SeededInOrder
INVARIANT UnsignedOnlyAfterFault
PROPERTY NeverReseeded
PROPERTY StartEnds
PROPERTY ServesUnlessEmptied
