SPECIFICATION Spec
CONSTANTS
    Handlers = {"recover"}
    MaxEvents = 4
    MaxBatch = 2
    MaxOthers = 2
INVARIANTS TypeOK OneDrainer NoneStranded InSequence
PROPERTIES AllDelivered HandlerReturns
CHECK_DEADLOCK FALSE
