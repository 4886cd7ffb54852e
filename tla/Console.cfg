SPECIFICATION Spec
CONSTANTS
    Capacity = 1
    MaxPerPoll = 2
    Idle = 1
    Wrap = 2
    Kinds = {"x", "cr", "lf", "binary", "backspace", "*fua5", "*fca5", "*tq0001", "*tq0000"}
    RingSize = 2
    MaxBytes = 4
INVARIANTS
    LineIsTyped
    FlashIsUndisturbed
    DemoComesBack
PROPERTIES
    ConsoleComesBack
