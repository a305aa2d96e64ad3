SPECIFICATION Spec
CONSTANTS
    Buffer = {b1, b2, b3}
    NULL = NULL
    Unwritten = Unwritten
    Off = Off
    MailboxSize = 3
    MaxU16 = 2
    SlotRoom = 2
    Setpoint <- MCSetpoint
    IsPurr = FALSE
    Payload <- MCPayload
    SmoothSlots <- MCSmoothSlots
    Leftover <- MCLeftover
    TestHold = 1
    TestDelay = 1
    TestLoop = 1
    TestSlots <- MCTestSlots
SYMMETRY BufferSymmetry
INVARIANTS TypeOK ExclusiveOwnership PostedIsWritten PostHasRoom
PROPERTIES OnlyFlushAndSmoothLose
