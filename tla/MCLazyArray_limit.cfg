SPECIFICATION Spec
CONSTANTS
    Base = 2
    MaxArrayLen = 3
    Nil = Nil
    Panic = Panic
    Elements <- MCElements
    RawData <- MCRawData
    Limits <- MCLimits
    Indices <- MCIndices
INVARIANT WithinLimit
