SPECIFICATION Spec
CONSTANTS
    Offset = 1
    InnerUsed = 1
    Ratios = {1}
    MaxLength = 5
    MaxOperations = 2
INVARIANT ResizesToLength
