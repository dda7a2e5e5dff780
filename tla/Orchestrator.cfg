SPECIFICATION FairSpec
CONSTANTS
  t1 = t1
  t2 = t2
  Task = {t1, t2}
  MaxBoots = 3
  Settings <- Environments
  NoTask = NoTask
\* The system may rest: all tasks are settled, or the orchestrator stays down.
CHECK_DEADLOCK FALSE
INVARIANTS
  WaitingIsUntouched
  SuccessIsEarned
  EveryMessageRunsOnce
  OneStartPerBoot
PROPERTY StartedTaskSettles
