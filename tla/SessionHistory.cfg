SPECIFICATION Spec
SYMMETRY LiveRuns
CONSTANTS
  p1 = p1 p2 = p2 other = other r1 = r1 r2 = r2 r3 = r3 s1 = s1 s2 = s2
  Run = {p1, p2, other, r1, r2, r3}
  Session = {s1, s2}
  SessionOf <- MCSessionOf
  Past <- MCPast
  Limit = 4
  KeepRecent = 2
  MaxTime = 1
  MaxFaults = 1
\* All runs may have ended.
CHECK_DEADLOCK FALSE
INVARIANTS
  AnswerIsRemembered
  QuestionBeforeAnswer
  WholeTurns
