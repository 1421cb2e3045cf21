SPECIFICATION Spec
CONSTANTS
    Shapes = {"bidi"}
    Heads <- MCTimedHeads
    Items = {"Message"}
    HandlerStatuses = {"Aborted"}
    FrameLen = 2
    MaxItems = 2
    MaxReplies = 1
    MaxFrames = 3
PROPERTIES
    ContinuesAtNextFrame
CHECK_DEADLOCK FALSE
