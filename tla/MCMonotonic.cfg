SPECIFICATION Spec
CONSTANTS
  Proc = {p1, p2}
  x1 = x1
  Nonce = {x1}
  LegacyNonce = {x1}
  LegacyReceipt = {FALSE, TRUE}
  ReconId = {r1}
  LegacyId = {r1}
  g = g
  h = h
  a1 = a1
  b1 = b1
  c2 = c2
  AdapterState = {g, b1}
  SequenceOf <- MCSequenceOf
  PreviousOf <- MCPreviousOf
  SubmissionOf <- MCSubmissionOf
  TerminalState = {b1}
  MaxSequence = 1
  Absent = Absent
  Name <- MonotonicName
  Bytes <- MonotonicBytes
SYMMETRY Symmetry
INVARIANTS PostedOnce ChainAlwaysLoads
PROPERTIES PublishedIsRetained
