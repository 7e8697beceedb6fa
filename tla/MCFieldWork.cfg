SPECIFICATION FieldSpec
CONSTANTS
    Handlers = {h1, h2}
    Areas <- TwoAreas
    Commissioned = {"building"}
    MaxPresses = 4
    MaxMishaps = 1
INVARIANT
    ManifestIsCurrent
SYMMETRY HandlerSymmetry
CHECK_DEADLOCK FALSE
