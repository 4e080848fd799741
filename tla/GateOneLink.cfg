\* One of three operations is a setpoint write a newer edit may cancel.
CONSTANTS
    w1 = w1
    w2 = w2
    poll = poll
    Ops = {w1, w2, poll}
    Cancellable = {w1}
    MaxAttempts = 2
SPECIFICATION Safety
INVARIANT OneLinkAtATime
