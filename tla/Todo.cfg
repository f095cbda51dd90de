SPECIFICATION FairSpec
CONSTANTS
  Pinger = {p1, p2, p3}
  Worker = worker
  NoProc = noproc
INVARIANTS TypeOK PingNeverBlocks NoLostPing
PROPERTIES WorkIsLookedAt ImplementsSignal
