SPECIFICATION FairSpec
CONSTANTS
  wide = wide
  slim = slim
  big = big
  cyclic = cyclic
  broken = broken
  NoTask = notask
  Task = {cyclic, broken}
  Slot = {w1, w2}
  Client = {c1}
  Cpu <- MCCpu
  Ram <- MCRam
  MaxExec <- MCMaxExec
  Recurrence <- MCRecurrence
  TotalCpu = 2
  TotalRam = 2
  MaxDelay = 1
  Every = 2
  Ops = {}
  Exits = {"exited0"}
  DockerFails = TRUE
CHECK_DEADLOCK FALSE
INVARIANTS NoLostWakeup
PROPERTIES PeriodicTasksGoOn
