SPECIFICATION LifecycleSpec
CONSTANTS
  Project = {p1}
  Signer = {h1, h2, h3, h4}
  MaxRevision = 4
  ProfileOf <- LastProfileOf
  CanaryWindow = 1
  ReviewWindow = 1
  MaxCanaries = 2
  MaxMonitors = 3
  MaxTime = 0
  Threshold = 2
  MaxIncidents = 4
  MaxSuspensions = 2
  MaxRemediations = 2
SYMMETRY Symmetry
CHECK_DEADLOCK FALSE
INVARIANTS RecordsMatchHistory 
