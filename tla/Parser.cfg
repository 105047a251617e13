SPECIFICATION Spec
CONSTANTS
    Frames <- BothFormats
    Deadline = 2
    MaxFrames = 2
    MaxNet = 2
INVARIANTS
    HangIsSilence
    FramesArriveInOrder
    OutcomeHasCause
    OneReader
PROPERTIES
    ReaderEnds
    QuietWaitsEnd
