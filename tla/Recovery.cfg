SPECIFICATION RFairSpec
CONSTANTS
  wide = wide
  slim = slim
  cyclic = cyclic
  NoTask = notask
  Task = {wide, cyclic}
  Slot = {w1, w2}
  Client = {c1}
  Cpu <- MCCpu
  Ram <- MCRam
  MaxExec <- MCMaxExec
  Recurrence <- MCRecurrence
  TotalCpu = 2
  TotalRam = 2
  MaxDelay = 0
  Every = 1
  Ops = {}
  Exits = {"exited0"}
  DockerFails = FALSE
  MaxStops = 2
CHECK_DEADLOCK FALSE
INVARIANTS NoOvercommit ResourcesConserved OneRunUnlessRaced NoWakeupLostByRestart
PROPERTIES InterruptedRunsEnd
