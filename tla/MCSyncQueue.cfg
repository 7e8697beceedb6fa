SPECIFICATION PartSpec
CONSTANTS
  analyse = analyse
  render = render
  deliver = deliver
  packet = packet
  a1 = a1
  a2 = a2
  c1 = c1
  c2 = c2
  h1 = h1
  h2 = h2
  NoRequest = NoRequest
  NoPacket = NoPacket
  NoHash = NoHash
  None = None
  Hashes = {h1}
  TaskIds <- MCTaskIds
  Requests <- MCRequests
  Revisions <- MCRevisions
  RetryDelays <- MCRetryDelays
  LeaseTicks = 1
  Intents = {i1, i2, i3}
  Artifacts = {a1, a2}
  Captures = {c1, c2}
  Contents = {h1, h2}
  Descriptors <- MCDescriptors
INVARIANTS
  TypeOK
  TasksAreSound
  DurableIsExact
PROPERTIES
  FencedCheckpoints
  ImplementsContract
  CaptureKeepsArtifact
