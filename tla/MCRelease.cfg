SPECIFICATION Spec
CONSTANTS
  Proc = {p1, p2}
  m1 = m1
  m2 = m2
  Marker = {m1, m2}
  Nonce = {x1, x2}
  ReconId = {}
  Status = {"accepted", "unknown"}
  Terminal = {"accepted"}
  ValidFrom <- TwoMarkersFrom
  ExpiresAt <- TwoMarkersUntil
  MaxTime = 2
  Absent = Absent
  Name <- LedgerName
  Bytes <- LedgerBytes
SYMMETRY Symmetry
INVARIANTS TypeOK AtMostOnePost PostedIsOnDisk AdmittedOnce PostedInWindow SubmissionOutputStable OutcomeIsTruthful
PROPERTIES RecordsAreImmutable ImplementsAtMostOnceRelease
