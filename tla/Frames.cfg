\* Frames of two messages, whole, cut anywhere, or with one wrong byte.
CONSTANTS
    MaxInnerPayload = 153
    MaxBatch = 2
    Samples <- MCSamples
    Statuses <- MCStatuses
    Tails <- MCTails
    Damages = {"cut", "altered"}
    WrongBytes <- MCWrongBytes
SPECIFICATION FrameSpec
INVARIANTS AcceptedIsEncoded FrameArrives EntitiesAgree
\* A damaged frame is the end.
CHECK_DEADLOCK FALSE
