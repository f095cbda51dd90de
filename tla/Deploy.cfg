SPECIFICATION DSpec
CONSTANTS
  Name = {"bob", "amy"}
  Task = {t1, t2}
  NoTask = notask
  Setting <- MCSetting
  DockerFails = TRUE
  Document <- MCDocument
  MaxStops = 1
CHECK_DEADLOCK FALSE
INVARIANTS TypeOK ProposedIsFree OneNetworkPerProject StartedIsConfined RunsAreAlike
PROPERTIES FullMeansFull UpReturns
