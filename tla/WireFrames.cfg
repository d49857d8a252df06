SPECIFICATION FairSpec
CONSTANTS
    HeaderLen = 2
    MaxLen = 2
    Slack = 1
    SockCap = 4
    MaxFrames = 3
    Headers = {"good", "magic"}
INVARIANTS
    TypeOK
    FramesIntact
    WithinCapacity
    NoFalseAlarm
PROPERTIES
    Delivered
