\* One request, one text result, no fault.
SPECIFICATION FairSpec
CONSTANTS
  r1 = r1 r2 = r2
  Blank = Blank
  Request = {r1}
  Channel = {"feishu_app", "unserved"}
  Adapters = {"feishu_app"}
  DefaultTemplate = FALSE
  Origin <- MCServed
  Output <- TextOnly
  MaxResults = 1
  Faults = {}
CHECK_DEADLOCK FALSE
PROPERTIES
  AcceptedIsAnswered
