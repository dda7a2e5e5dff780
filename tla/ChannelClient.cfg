\* One tick is a timeout's worth; lives just long enough for one cache hit.
SPECIFICATION Spec
CONSTANTS
  Caller = {p1, p2}
  Clients = {"wecom", "dingtalk"}
  Timeout = 1
  Delay = 1
  Margin = 7
  DefaultLife = 2
  Grants <- MCGrants
  MaxTime = 9
  None = None
\* The clock is bounded.
CHECK_DEADLOCK FALSE
SYMMETRY Perms
INVARIANTS
  NoExpiredToken
