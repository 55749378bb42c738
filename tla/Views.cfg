SPECIFICATION Spec
CONSTANTS
    Shapes <- SomeShapes
    Indices <- SomeIndices
    SliceSteps <- SomeSteps
    ItemSize = 2
    None = None
INVARIANTS
    ViewFaithful
    ConversionsFaithful
\* A program ends with an element or an error.
CHECK_DEADLOCK FALSE
