CONSTANTS
  w1 = w1
  c1 = c1
  farms = farms
  notifications = notifications
  created = created
  updated = updated
  Relay <- MCRelay
  Consumer <- MCConsumer
  Target <- MCTarget
  Pattern <- MCPattern
  Route <- MCRoute
  Farms = farms
  Created = created
  BatchSize = 2
  MaxRow = 3
  MaxFaults = 1
  UpsertFails = TRUE
  MaxRedeliver = 2
SPECIFICATION ProjectionFairSpec
INVARIANTS
  PublishedIsProjected

  
  
CHECK_DEADLOCK FALSE
