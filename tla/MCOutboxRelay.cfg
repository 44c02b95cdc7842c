CONSTANTS
  w1 = w1
  w2 = w2
  farms = farms
  notifications = notifications
  created = created
  orphan = orphan
  Relay <- MCRelay
  Target <- MCTarget
  Pattern <- MCPattern
  Route <- MCRoute
  BatchSize = 2
  MaxRow = 3
  MaxFaults = 1
SPECIFICATION FairSpec
INVARIANTS
  OnlyCommittedSent
  PublishedReachedAll
  NoSharedRow
  FanoutInOrder
  CopiesNeedFaults
PROPERTIES
  PublishedNotResent
  Delivers
  EventuallyPublished
CHECK_DEADLOCK FALSE
