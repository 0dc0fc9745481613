SPECIFICATION Spec
CONSTANTS
    Bodies <- OneItem
    Keys = {"content"}
    Gaps <- AnyGap
INVARIANTS DeliveredInFull
CHECK_DEADLOCK FALSE
