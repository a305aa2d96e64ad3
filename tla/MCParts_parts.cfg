SPECIFICATION PartsSpec
CONSTANTS
    Parts <- MCAllParts
    C = 32
    Wrap = 5
    Samples = 2
    MaxRange = 8
    Over = 2
    Speeds <- MCSpeeds
    Buffer = {b1, b2, b3}
    NULL = NULL
    Unwritten = Unwritten
    MailboxSize = 3
    MaxU16 = 2
    SlotRoom = 2
    Setpoint <- MCSetpoint
    Off = Off
    Payload <- MCPayload
    Me = Me
    Other = Other
    Letter = Letter
    PING = PING
    SETPOINT = SETPOINT
    Zero = Zero
    One = One
    Gap = Gap
    Silence = Silence
    MaxSent = 3
    MaxLine = 12
    Sample <- MCSample
    MaxBytes = 3
    MaxPwm = 3
    PwmLimit = 2
    MaxDuration = 3
    Noise = 1
    Cap = 9
    MaxPos = 4
    Percent = 2
    Gains <- MCGains
    IsSpine = TRUE
    FullScale = 39
    Interval = 2
    MaxTime = 9
    Room = 4
    Ranges <- MCRanges
INVARIANTS
    PartsTypeOK
    ReadyBeforeUse
    CalibratedRange
    StopIsClean
    StopHangsOnlyOnSleep
    InStep
    OnlySentIsServed
    DetectsBursts
    PulseThenStep
    PulseTowardStep
    OutputDefined
    ErrorWithinNoise
    SmoothInsideMargins
PROPERTY
    StretchOnlyByOvertravel
