CONSTANTS
  t1 = t1
  t2 = t2
  c1 = c1
  c2 = c2
  d1 = d1
  d2 = d2
  NoChunk = NoChunk
  NoJob = NoJob
  Torrents <- MCTorrents
  Chunks <- MCChunks
  Devices <- OneDevice
  Created <- MCTorrents
  Downloaded <- First
  MaxCommands = 3
SPECIFICATION Spec
INVARIANTS
  TypeOK
  JobsWithinCommands
PROPERTIES
  FollowsHoldings
  ChainContinues
  EveryJobHasItsTurn
  CommandsReturn
