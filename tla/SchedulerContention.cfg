SPECIFICATION FairSpec
CONSTANTS
  wide = wide
  slim = slim
  big = big
  cyclic = cyclic
  broken = broken
  NoTask = notask
  Task = {slim, wide, big}
  Slot = {w1, w2}
  Client = {c1}
  Cpu <- MCCpu
  Ram <- MCRam
  MaxExec <- MCMaxExec
  Recurrence <- MCRecurrence
  TotalCpu = 2
  TotalRam = 2
  MaxDelay = 1
  Every = 1
  Ops = {}
  Exits = {"exited0"}
  DockerFails = TRUE
CHECK_DEADLOCK FALSE
PROPERTIES EveryTaskEnds RunsEnd
