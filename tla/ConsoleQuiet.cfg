CONSTANTS
    Capacity = 1
    MaxPerPoll = 2
    Idle = 1
    Wrap = 2
    Kinds = {"*fua5", "*tq0000", "cr"}
    RingSize = 2
    MaxBytes = 6
SPECIFICATION Spec
PROPERTIES QuietIsOneWay
