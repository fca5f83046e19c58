\* The system may stop: every message is logged, every connection is over.
SPECIFICATION Spec
CHECK_DEADLOCK FALSE
CONSTANTS
    c1 = c1  c2 = c2
    Clients = {c1, c2}
    HistorySize = 2
    Buffer = 1
    MaxMessages = 3
INVARIANTS LogTypeOK Ordered GapMeansSlow HistoryIsRecent
PROPERTIES LoggingGoesOn DeadSubscribersLeave
