SPECIFICATION PoweredSpec
CONSTANTS
  Proc = {p1, p2}
  x1 = x1
  Nonce = {}
  LegacyNonce = {x1}
  LegacyReceipt = {FALSE}
  ReconId = {r1}
  LegacyId = {r1}
  g = g
  h = h
  a1 = a1
  b1 = b1
  c2 = c2
  AdapterState = {g, b1}
  SequenceOf <- MCSequenceOf
  PreviousOf <- MCPreviousOf
  SubmissionOf <- MCSubmissionOf
  TerminalState = {g, b1}
  MaxSequence = 1
  Absent = Absent
  Name <- MonotonicName
  Bytes <- MonotonicBytes
SYMMETRY Symmetry
CHECK_DEADLOCK FALSE
INVARIANT TerminalIsReplayable
