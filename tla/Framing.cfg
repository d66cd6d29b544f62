SPECIFICATION Spec
CONSTANTS
    Sof = 206
    DataLen = 11
    MinLen = 8
    MaxLen = 40
    Size = 20
    Frames <- MCFrames
    Noise <- MCNoise
    Damaged <- MCNone
    MaxItems = 4
    GatewayId <- MCGatewayId
    Clock <- MCClock
CHECK_DEADLOCK FALSE
INVARIANTS
    BytesConserved
    AlarmsArrive
    NoiseCostsOneFrame
