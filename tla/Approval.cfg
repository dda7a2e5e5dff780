CONSTANTS
  c1 = c1 c2 = c2 c3 = c3
  d1 = d1 d2 = d2 d3 = d3 d4 = d4
  k1 = k1
  tA = tA tB = tB
  n1 = n1 n3 = n3 n4 = n4
  NoTrace = NoTrace
  None = None
  Keys = {k1}
  Traces = {tA, tB}
  Nonces = {n1, n3, n4}
  Calls = {c1, c2, c3}
  Refused = {c3}
  Decisions = {d1, d2, d3, d4}
  Unsigned = {d3}
  Malformed = {d4}
  Second = 2
  TimeWindow = 1
  NonceTTL = 1
  Start = 2
  MaxTime = 5
  CallKey <- MCCallKey
  CallTrace <- MCCallTrace
  DecisionKey <- MCDecisionKey
  DecisionTrace <- MCDecisionTrace
  NonceOf <- MCNonceOf
  TimestampOf <- MCTimestampOf
\* The system may stop: all calls have returned and all posts are answered.
CHECK_DEADLOCK FALSE
SPECIFICATION WebhookSpec
INVARIANTS
  NoMissedDecision
  AnswerMatchesRequest
  WaiterRegistration
  LostOnlyBehindOutcome
  NoOlderLeftBehind
  NonceCountsOnce
PROPERTIES
  EveryCallReturns
