\* Every line kind, faults of the server and the connection, handler errors.
CONSTANTS
    Kinds = {"blank", "other", "bad", "chunk", "done"}
    Faults = TRUE
    HandlerErrors = TRUE
SPECIFICATION FairSpec
CONSTRAINT StateBound
\* A returned call is a final state.
CHECK_DEADLOCK FALSE
PROPERTIES
    ContractSpec
    ReturnsOnceEndedOrCancelled
