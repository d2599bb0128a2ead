SPECIFICATION Spec
CONSTANTS
    AoChans <- MCAoChans
    AoVals <- MCAoVals
    AoNs <- MCAoNs
    AiArgs <- MCAiArgs
    DioChans <- MCDioChans
    PortBits = 1
INVARIANT TypeOK
INVARIANT MirrorsMatchRegisters
INVARIANT DacControlEncodesRange
INVARIANT ChanListEncodesRequest
