\* A second command after hpdi_cancel; no overrun.
CONSTANTS
  N = 4
  BufSamples = 2
  StopArgs <- MCStopArgs
  MaxFills = 6
  AsyncBytes = 8
  MaxCmds = 2
  HwKeepsUp = TRUE
SPECIFICATION Spec
INVARIANT DeliveredInOrder
