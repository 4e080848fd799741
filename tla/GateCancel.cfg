\* Two setpoint writes that newer edits may cancel, and a poll.
CONSTANTS
    w1 = w1
    w2 = w2
    poll = poll
    Ops = {w1, w2, poll}
    Cancellable = {w1, w2}
    MaxAttempts = 2
SPECIFICATION Spec
INVARIANTS TypeOK PermitConserved NoLostWakeup LinkNeedsPermit
PROPERTIES NoOvertaking ImplementsSlot
