SPECIFICATION PoweredSpec
CONSTANTS
  Proc = {p1, p2}
  x1 = x1
  Nonce = {}
  LegacyNonce = {x1}
  LegacyReceipt = {FALSE}
  ReconId = {r1, r2}
  LegacyId = {}
  g = g
  h = h
  a1 = a1
  b1 = b1
  c2 = c2
  AdapterState = {g, h, b1, a1}
  SequenceOf <- MCSequenceOf
  PreviousOf <- MCPreviousOf
  SubmissionOf <- MCSubmissionOf
  TerminalState = {h, b1}
  MaxSequence = 1
  Absent = Absent
  Name <- MonotonicName
  Bytes <- MonotonicBytes
SYMMETRY Symmetry
CHECK_DEADLOCK FALSE
INVARIANTS NoPublishedEquivocation TerminalIsReplayable
