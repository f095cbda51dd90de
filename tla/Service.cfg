SPECIFICATION Spec
CONSTANTS
  Added = added
  Old = old
  Absent = absent
  Key <- MCTask
  Scanner = {"main", "loop"}
  Publisher <- MCPublisher
  Kind <- MCKind
  Sub = {s1}
  Cap = 2
CHECK_DEADLOCK FALSE
INVARIANTS TypeOK WaitStopMeansStopped ScanIsASnapshot EventsReachTheOpen RunIsAnnouncedBeforeItsEnd WaitMeansClosed
PROPERTIES CallsReturn SubscriptionsClose
