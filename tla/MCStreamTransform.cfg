SPECIFICATION Spec
CONSTANTS
    ChoiceSet = {0, 1}
    ToolIndexes = {0, 1}
    NoIndex <- NoToolIndex
    Deltas <- SomeDeltas
    SideBufferSizes = {0, 2}
    MaxEntries = 4
INVARIANTS BufferedNoConcatenation ContentInOrder RealToolsPreserved FinishTruthful
CHECK_DEADLOCK FALSE
