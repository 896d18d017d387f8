\* Two workers, three orders, inboxes of two slots and a short outbound queue:
\* the inbox is full when shutdown pushes its poison pill, and events are lost.
SPECIFICATION Spec
CONSTANTS
    Instrument = {i1, i2}
    Order = {o1, o2, o3}
    InboxCapacity = 2
    OutboundCapacity = 2
    MaxTrades = 1
    MaxStarts = 2
INVARIANTS
    AnswersInOrder
    EngineOutlivesThread
PROPERTIES
    StoppedGetsNothing
    AcceptedIsAnswered
    ShutdownReturns
CHECK_DEADLOCK FALSE
