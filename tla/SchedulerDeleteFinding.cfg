SPECIFICATION Spec
CONSTANTS
  wide = wide
  slim = slim
  big = big
  cyclic = cyclic
  broken = broken
  NoTask = notask
  Task = {slim}
  Slot = {w1, w2}
  Client = {c1}
  Cpu <- MCCpu
  Ram <- MCRam
  MaxExec <- MCMaxExec
  Recurrence <- MCRecurrence
  TotalCpu = 2
  TotalRam = 2
  MaxDelay = 0
  Every = 1
  Ops = {"delete"}
  Exits = {"exited0", "exitedN"}
  DockerFails = FALSE
CHECK_DEADLOCK FALSE
PROPERTIES DeletedStaysDeleted
