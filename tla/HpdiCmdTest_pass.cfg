\* di_cmd_test over every bounded command, resubmitted by the caller.
CONSTANTS
    ChanWidth = 32
    Lens <- MCLens
    StopArgs <- MCStopArgs
    MaxPasses = 3
    NULL = NULL
SPECIFICATION Spec
INVARIANT TypeOK AcceptsValid SettlesAfterTwoPasses
