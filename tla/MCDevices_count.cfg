SPECIFICATION DevicesSpec
CONSTANTS
    Devices <- MCLine
    MaxPwm = 7
    Period = 9
    MaxLen = 4
    OutQueue = 3
PROPERTY
    ReturnsBytesReceived
