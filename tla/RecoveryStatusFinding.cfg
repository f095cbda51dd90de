SPECIFICATION RSpec
CONSTANTS
  wide = wide
  slim = slim
  cyclic = cyclic
  NoTask = notask
  Task = {slim}
  Slot = {w1, w2}
  Client = {c1}
  Cpu <- MCCpu
  Ram <- MCRam
  MaxExec <- MCMaxExec
  Recurrence <- MCRecurrence
  TotalCpu = 2
  TotalRam = 2
  MaxDelay = 0
  Every = 1
  Ops = {"cancel"}
  Exits = {"exited0"}
  DockerFails = FALSE
  MaxStops = 1
CHECK_DEADLOCK FALSE
PROPERTY FinishedIsNotWaiting
