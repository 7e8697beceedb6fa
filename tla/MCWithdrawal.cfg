SPECIFICATION ASpec
CONSTANTS
  Modules = {building, timber_pest}
  MaxSnapshot = 2
INVARIANT
  WithdrawnNeverApproved
