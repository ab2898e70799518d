SPECIFICATION Spec
CONSTANTS
  Project = {p1}
  Signer = {h1, h2, h3}
  MaxRevision = 4
  ProfileOf <- MCProfileOf
  CanaryWindow = 1
  ReviewWindow = 1
  MaxCanaries = 2
  MaxMonitors = 2
  MaxTime = 2
  MaxVerifications = 3
  MaxRollbacks = 2
  MaxRecoveries = 1
  MaxClosures = 1
SYMMETRY Symmetry
CHECK_DEADLOCK FALSE
INVARIANTS ConsideredOnce IncidentIsWhole RestoresReplaced
