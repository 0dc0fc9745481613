SPECIFICATION Spec
CONSTANTS
    ChoiceSet = {0, 1}
    ToolIndexes = {0, 1}
    NoIndex <- NoToolIndex
    Deltas <- SomeDeltas
    SideBufferSizes = {0}
    MaxEntries = 4
INVARIANTS NoConcatenation
CHECK_DEADLOCK FALSE
