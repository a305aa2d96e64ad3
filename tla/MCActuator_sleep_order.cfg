SPECIFICATION Spec
CONSTANTS
    Buffer = {b1, b2}
    NULL = NULL
    Unwritten = Unwritten
    Off = Off
    MailboxSize = 2
    MaxU16 = 2
    SlotRoom = 2
    Setpoint <- MCSetpoint
    IsPurr = FALSE
    Payload <- MCPayload
    SmoothSlots <- MCSmoothSlots
    Leftover <- MCLeftover
    TestHold = 1
    TestDelay = 1
    TestLoop = 1
    TestSlots <- MCTestSlots
PROPERTY NothingStartsBeforeStop
