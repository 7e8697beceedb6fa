SPECIFICATION WSpec
CONSTANTS
  analyse = analyse
  render = render
  packet = packet
  NoRequest = NoRequest
  NoPacket = NoPacket
  NoHash = NoHash
  NoTask = NoTask
  Workers = {w1, w2}
  Hashes = {h1}
  KeptAlive = {}
  Handled <- MCHandled
  TaskIds <- MCTaskIds
  Requests <- MCRequests
  Revisions <- MCRevisions
  RetryDelays = {}
  LeaseTicks = 1
INVARIANT
  PollsUntilShutdown
