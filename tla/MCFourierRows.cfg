CONSTANT Calls <- MCCalls
SPECIFICATION Spec
CHECK_DEADLOCK FALSE
INVARIANTS TypeOK RowsRight RoundTrip WeightsRead
