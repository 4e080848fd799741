\* Either everything may be lost, and the key be wrong, or nothing and nobody is.
CONSTANTS
    t1 = t1
    t2 = t2
    Callers = {t1, t2}
    MaxBatch = 2
    Threshold = 4
    MaxSessions = 2
    MaxInFlight = 2
SPECIFICATION Spec
INVARIANTS TypeOK Agreement VerdictSound CountersFresh AnswerMatches WaitersRegistered
PROPERTIES ImplementsCalls ConnectSucceeds EveryCallSucceeds
\* The client may stay closed for good.
CHECK_DEADLOCK FALSE
