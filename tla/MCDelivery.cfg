SPECIFICATION DSpec
CONSTANTS
  Modules = {building, timber_pest}
  MaxSnapshot = 2
  Senders = {s1, s2}
INVARIANTS
  ApprovalIsExact
  AtMostOneEffect
  SendingHasOwner
  RecordsAreLiteral
PROPERTY
  SendEnds
