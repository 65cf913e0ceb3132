SPECIFICATION Spec
CONSTANT
  Topics <- MCTopics
PROPERTIES
  FormatKeepsTheTree
  FormatKeepsComments
  ParserReadsEveryName
  OperatorsBindAsInGo
CHECK_DEADLOCK FALSE
