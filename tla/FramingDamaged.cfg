SPECIFICATION Spec
CONSTANTS
    Sof = 206
    DataLen = 11
    MinLen = 8
    MaxLen = 40
    Size = 20
    Frames <- MCFrames
    Noise <- MCNone
    Damaged <- MCDamaged
    MaxItems = 4
    GatewayId <- MCGatewayId
    Clock <- MCClock
CHECK_DEADLOCK FALSE
INVARIANT DispatchedIsFrame
