SPECIFICATION ChannelSpec
CONSTANTS
  Cap = 2
  c1 = c1
  c2 = c2
  Bad = Bad
  Torn = Torn
  None = None
  Answers <- MCAnswers
CHECK_DEADLOCK FALSE
INVARIANTS
  Unharmed
  DeliveredRecorded
PROPERTY SpanEnds
