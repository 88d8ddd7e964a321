SPECIFICATION Spec
CONSTANTS
    Base = 4
    MaxArrayLen = 4
    MaxElementsLazyTree = 3
    Nil = Nil
    Panic = Panic
    Elements <- MCElements
    RawData <- MCRawData
    Indices <- MCIndices
INVARIANT PathReadsElement
