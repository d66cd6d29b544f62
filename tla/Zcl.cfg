SPECIFICATION Spec
CONSTANTS
    d1 = d1
    d2 = d2
    d3 = d3
    Requests <- MCRequests
    Described = {1, 2, 4}
    WithCallbacks = {1, 4}
    Registers <- MCRegisters
    InitVals <- MCInitVals
    Transitions <- MCTransitions
    Leftovers <- MCLeftovers
    Refused <- MCRefused
    Unauthorized <- MCUnauthorized
    ZCL_GEN_MAX_SCENES = 2
    APS_MAX_GROUPS = 2
    Devices <- MCDevices
    ZoneType <- MCZoneType
    ZCL_SS_MAX_ZONES = 4
    ZCL_SS_MAX_ZONE_ID = 2
    MaxRequests = 2
INVARIANTS
    AnsweredOnce
    ParsedAsSent
    AnswersAreHeard
    WritesAsReported
    DiscoveryIsExact
    RestoredAsSaved
    BelongToGroups
    NoSharedZone
    RefusedOnlyWhenFull
