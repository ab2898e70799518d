SPECIFICATION FairSpec
CONSTANTS
  Proc = {p1, p2}
  m1 = m1
  m2 = m2
  Marker = {m1}
  Nonce = {x1, x2}
  ReconId = {r1}
  Status = {"accepted", "unknown"}
  Terminal = {"accepted"}
  ValidFrom <- OneMarkerFrom
  ExpiresAt <- OneMarkerUntil
  MaxTime = 0
  Absent = Absent
  Name <- LedgerName
  Bytes <- LedgerBytes
CHECK_DEADLOCK FALSE
INVARIANTS OutputIsRecorded
PROPERTIES CommandEnds
