SPECIFICATION FairSpec
CONSTANTS
  MaxChunks = 4
  Faults = {"publish", "disconnect", "store"}
\* The request ends when the handler has returned.
CHECK_DEADLOCK FALSE
INVARIANTS
  SuccessMeansFinal
  DrainedBeforeReturn
  AnswerAgreesWithRow
PROPERTIES
  HandlerReturns
  DeliversInOrder
