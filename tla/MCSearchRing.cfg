SPECIFICATION Spec
CONSTANTS
  p1 = p1
  p2 = p2
  c1 = c1
  c2 = c2
  a = a
  b = b
  none = none
  nobody = nobody
  Producers <- MCProducers
  Consumers <- MCConsumers
  Jobs <- MCJobs
  Capacity = 2
  NoJob = none
  Nobody = nobody
  MaxSpurious = 1
INVARIANTS
  TypeOK
  MutualExclusion
  RingShape
  JobWakeupsSuffice
  SpaceWakeupsSuffice
PROPERTIES
  ImplementsQueue
