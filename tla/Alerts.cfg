\* Throttling: the daemon's and the kernel's table, one key, limits that change while windows
\* are open, and a wall clock that may be set back.  Attribution: two policies at a time.
SPECIFICATION AlertsSpec
CONSTANTS
  feeder = feeder
  bpf = bpf
  k1 = k1
  k2 = k2
  Absent = Absent
  Sec = 2
  Wrap = 64
  Keys = {k1}
  Sites = {feeder, bpf}
  DaemonSites = {feeder}
  Capacity <- Roomy
  ClockSteps = TRUE
  MaxTime = 5
  MaxAlerts = {1, 2, Absent}
  ThrottleSecs = {1, 2}
  bash = bash
  sh = sh
  NoSource = NoSource
  Garbled = Garbled
  None = None
INVARIANTS   DenialsToldOnce
  
