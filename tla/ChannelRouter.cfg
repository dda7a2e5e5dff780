\* Two requests, two results each, every fault.
SPECIFICATION FairSpec
CONSTANTS
  r1 = r1 r2 = r2
  Blank = Blank
  Request = {r1, r2}
  Channel = {"wecom", "wecom_robot", "feishu_app", "feishu_bot", "dingtalk_app", "dingtalk_robot"}
  Adapters = {"wecom", "wecom_robot", "feishu_app", "feishu_bot", "dingtalk_app", "dingtalk_robot"}
  DefaultTemplate = TRUE
  Origin <- MCOrigin
  Output <- AllOutputs
  MaxResults = 2
  Faults = {"enqueue", "send", "crash"}
\* Everything may be answered.
CHECK_DEADLOCK FALSE
INVARIANTS
  AnsweredAtMostOnce
  BindingIsThere
PROPERTIES
  ReachedIsAnswered
