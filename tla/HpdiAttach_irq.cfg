\* Attach, failures at every step, detach, reattach and reboot.
CONSTANTS
  Builds <- MCBuilds
  PciBuses <- MCPciBuses
  Options <- MCOptions
  RingCount = 2
SPECIFICATION Spec
INVARIANT InterruptFindsDevice
