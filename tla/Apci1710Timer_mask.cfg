\* Does b_InterruptMask hold the interrupt bit of every initialised timer?
CONSTANTS
    TimerModules <- MCTimerModules
    ModuleVersion <- MCModuleVersion
    InsnN = 1
    InitArgs <- MCInitArgs
    EnableArgs <- MCEnableArgs
    BitsArgs <- MCBitsArgs
    ModArgs = {0, 1}
SPECIFICATION Spec
INVARIANT MaskMatchesConfig
