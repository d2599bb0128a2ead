\* Init, enable/disable, read and write on the three timers of one module.
CONSTANTS
    TimerModules <- MCTimerModules
    ModuleVersion <- MCModuleVersion
    InsnN = 1
    InitArgs <- MCInitArgs
    EnableArgs <- MCEnableArgs
    BitsArgs <- MCBitsArgs
    ModArgs = {0, 1}
SPECIFICATION Spec
INVARIANT TypeOK InterruptSourceKnown
PROPERTY ErrorsChangeNothing
