SPECIFICATION Spec
CONSTANTS
  STREAM_MAX_ITEMS = 7
  STREAM_MAX_RETAINED_BYTES = 18
  MaxReducerEvents = 2
  MaxReducerBytes = 3
  Reducers <- MCReducers
  Requests <- MCRequests
  EventsOf <- MCEventsOf
  LinesOf <- MCLinesOf
  Exits <- MCExits
  Patches <- MCPatches
  MaxEventsOf <- MCMaxEventsOf
  MaxLinesOf <- MCMaxLinesOf
  CompleteTail = 2
  FallbackTail = 3
  ResultBudget <- MCResultBudget
  NoticeBudget <- MCNoticeBudget
  BaselineBudget <- MCBaselineBudget
  MaxInputBytes = 2
  DescriptionLimit = 6
  MessageLimit = 3
  MaxCases = 2
  RedactionGrowth = 2
INVARIANTS StreamingAgreesWithBatch ReportIsTrue ResultIsContained
PROPERTIES CustomHeadlineIsFinal
CHECK_DEADLOCK FALSE
