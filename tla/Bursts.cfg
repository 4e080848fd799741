\* Counters come round after three messages, and the session key changes once.
CONSTANTS
    MaxMessages = 4
    MaxChunks = 2
    CounterModulus = 3
    Window = 3
    MaxKeys = 2
SPECIFICATION Spec
INVARIANTS TypeOK EmittedIsAMessage HeardIsEmitted HeardTwiceIsRead
\* The device may fall silent.
CHECK_DEADLOCK FALSE
