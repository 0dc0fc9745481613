SPECIFICATION TransportSpec
CONSTANTS
    Names = {"agw1", "agw2"}
    Cases <- AllCases
    Bodies <- ShortBodies
    Keys = {"content", "text", "other"}
    Gaps <- Compact
INVARIANTS DeliveredPromptly DeliveredInFull UserTurnLast ClientKept
    ClientCallsReturned TextDelivered RefusedForCause FinishHonest
CHECK_DEADLOCK FALSE
