\* Three edits, a scheduled and a settle poll.
CONSTANTS
    poll1 = poll1
    poll2 = poll2
    MaxEdits = 3
    Polls = {poll1, poll2}
    MaxAttempts = 2
SPECIFICATION Spec
INVARIANTS TypeOK WriteIsShown
PROPERTIES OnlyNewestIsSent NothingGoesBack CardConverges
\* Once the entity is removed everything may have stopped.
CHECK_DEADLOCK FALSE
