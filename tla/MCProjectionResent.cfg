CONSTANTS
  w1 = w1
  c1 = c1
  farms = farms
  notifications = notifications
  created = created
  updated = updated
  Relay <- MCRelay
  Consumer <- MCConsumer
  Target <- MCTarget
  Pattern <- MCPattern
  Route <- MCRoute
  Farms = farms
  Created = created
  BatchSize = 2
  MaxRow = 3
  MaxFaults = 1
  UpsertFails = FALSE
  MaxRedeliver = 0
SPECIFICATION ProjectionFairSpec
PROPERTIES
  RedeliveryConverges
CHECK_DEADLOCK FALSE
