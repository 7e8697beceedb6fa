SPECIFICATION WSpec
CONSTANTS
  analyse = analyse
  render = render
  packet = packet
  NoRequest = NoRequest
  NoPacket = NoPacket
  NoHash = NoHash
  NoTask = NoTask
  Workers = {w1, w2}
  Hashes = {h1}
  KeptAlive = {w1}
  Handled <- MCHandled
  TaskIds <- MCTaskIds
  Requests <- MCRequests
  Revisions <- MCRevisions
  RetryDelays = {}
  LeaseTicks = 1
INVARIANTS
  LeasesAreExclusive
PROPERTIES
  NoTaskStarves
  ShutdownCompletes
