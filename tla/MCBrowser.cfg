SPECIFICATION MCSpec
CONSTANTS
  MaxPending = 2
  MaxBuffered = 3
  MaxSeq = 3
  Sizes = {1, 2}
  MaxCalls = 4
  MaxFaults = 1
  None = none
  Texts = {a}
  Long = long
  Blank = blank
  MaxInputs = 2
  MaxSends = 2
  MaxComposers = 2
  e1 = e1
  e2 = e2
  e3 = e3
  e4 = e4
  d1 = d1
  d2 = d2
  d3 = d3
  d4 = d4
  d5 = d5
  Deliveries = {d1, d2, d3, d4, d5}
  Ephemeral = {d2, d3, d4}
  NonceOf <- MCNonceOf
  MaxRows = 2
  PageInputs = 1
  PageSends = 1
  EventOf <- MCEventOf
  MaxMessages = 3
  RowIds = {r1, r2, r3, r4}
  Nonces = {n1, n2}
  NoNonce = none
  MaxRendered = 3
  Listeners = {l1, l2}
  MaxSets = 2
  MaxJoins = 3
  Nobody = nobody
\* A closed page, a used up bound: the parts may stop.
CHECK_DEADLOCK FALSE
INVARIANTS
  ClientSafe
  OneSend
  IndexExact
  PageSafe
  ToldLast
PROPERTIES
  NoLateSend
  KeepsPromise
  DraftKept
  ShowsRows
  SubmissionEnds
