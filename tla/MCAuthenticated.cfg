SPECIFICATION AuthPoweredSpec
CONSTANTS
  Proc = {p1, p2}
  m1 = m1
  Marker = {m1}
  Nonce = {x1}
  ReconId = {r1}
  LegacyId = {}
  AuthId = {r1}
  Policy = {q1}
  Status = {"accepted", "unknown"}
  Terminal = {"accepted"}
  ValidFrom <- MCValidFrom
  ExpiresAt <- MCExpiresAt
  MaxTime = 0
  Absent = Absent
  Name <- AuthName
  Bytes <- AuthBytes
SYMMETRY Symmetry
CHECK_DEADLOCK FALSE
INVARIANTS ShownIsRetained ReportIsReplayable
PROPERTIES ImplementsAtMostOnceRelease
