SPECIFICATION Spec
CONSTANTS
    Buffer = {b1, b2}
    NULL = NULL
    Unwritten = Unwritten
    Off = Off
    MailboxSize = 2
    MaxU16 = 3
    SlotRoom = 2
    Setpoint <- MCSetpoint
    IsPurr = FALSE
    Payload <- MCPayloadLoops
    SmoothSlots <- MCSmoothSlots
    Leftover <- MCLeftover
    TestHold = 1
    TestDelay = 1
    TestLoop = 1
    TestSlots <- MCTestSlots
SYMMETRY BufferSymmetry

INVARIANT RendersCurrentSlot
PROPERTIES LoopOnlyCountsDown PlaysSetpoints
