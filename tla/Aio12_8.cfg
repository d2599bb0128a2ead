SPECIFICATION Spec
CONSTANTS
    Bases <- MCBases
    SystemPorts <- MCSystemPorts
    AiChans <- MCAiChans
    AiNs <- MCAiNs
    ConvTimes <- MCConvTimes
    AoChans <- MCAoChans
    AoVals <- MCAoVals
    AoNs <- MCAoNs
INVARIANT TypeOK
INVARIANT AoReadbackMatchesDac
INVARIANT RegionHeldWhileAttached
