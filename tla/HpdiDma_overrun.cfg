\* One command; the board may overrun the ring and the driver does not
\* notice.
CONSTANTS
  N = 4
  BufSamples = 2
  StopArgs <- MCStopArgs
  MaxFills = 6
  AsyncBytes = 8
  MaxCmds = 1
  HwKeepsUp = FALSE
SPECIFICATION Spec
PROPERTY OverrunIsReported
