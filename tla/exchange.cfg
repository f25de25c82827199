SPECIFICATION ExchangeSpec
CONSTANTS
  Requests <- MCRequests
  Supported <- MCSupported
  Calls <- MCCalls
  Parts = 2
  Idle = 1
  MaxFrames = 3
INVARIANTS
  GoesOutAcceptable
  AnswerIsExact
  OneEndMark
PROPERTIES
  QuietOnly
  ExchangeEnds
