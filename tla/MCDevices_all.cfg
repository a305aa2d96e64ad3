SPECIFICATION DevicesSpec
CONSTANTS
    Devices <- MCAllDevices
    MaxPwm = 7
    Period = 9
    MaxLen = 4
    OutQueue = 3
INVARIANTS
    DevicesTypeOK
    OutputIsLastValue
    OnlyTurningGlitches
    PulseFitsPeriod
    UnspoiledReadIsWhole
    LivingThreadIsKnown
    TimerHasThread
PROPERTIES
    WholeBeforeRelease
    BusIsReleased
    OnlyFirstIsSpoiled
    NoSampleAfterTerminate
    ConnectionIsSampled
    FramesAlternate
