SPECIFICATION FairSpec
CONSTANTS
  r1 = r1
  r2 = r2
  r3 = r3
  h1 = h1
  h2 = h2
  k1 = k1
  k2 = k2
  k3 = k3
  Reqs = {r1, r2, r3}
  Hosts = {h1, h2}
  Keys = {k1, k2}
  Calls <- OneHost
  HostOf <- SameHost
  MaxSlots = 2
  Gap = 1
  Jitter = 1
  MaxHosts = 2
  HostTTL = 0
  Ends = {"canceled"}
  Results = {"ok"}
  None = None
INVARIANTS
  HostExclusion
  NothingLeaks
  StatsAddUp
PROPERTIES
  PacedSpec
  FlightsSpec
  EveryCallReturns
