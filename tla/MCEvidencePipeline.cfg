SPECIFICATION PSpec
CONSTANTS
  a1 = a1
  c1 = c1
  h1 = h1
  None = None
  NoRequest = NoRequest
  NoPacket = NoPacket
  NoHash = NoHash
  NoTask = NoTask
  Intents = {i1}
  Artifacts <- MCArtifacts
  Captures = {c1}
  Contents = {h1}
  Descriptors <- MCDescriptors
  Workers = {w1, w2}
  KeptAlive = {w1}
  Handled <- MCArtifacts
  TaskIds <- MCArtifacts
  Requests <- MCRequests
  Hashes = {}
  Revisions = {}
  RetryDelays = {}
  LeaseTicks = 1
INVARIANTS
  PipelineIsSound
PROPERTIES
  OriginalsSettle
