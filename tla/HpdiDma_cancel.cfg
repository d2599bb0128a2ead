\* One command, cancelled; no overrun.
CONSTANTS
  N = 4
  BufSamples = 2
  StopArgs <- MCStopArgs
  MaxFills = 6
  AsyncBytes = 8
  MaxCmds = 1
  HwKeepsUp = TRUE
SPECIFICATION Spec
PROPERTY CancelStopsAppends
