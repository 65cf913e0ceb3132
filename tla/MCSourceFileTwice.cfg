SPECIFICATION Spec
CONSTANT
  Topics <- MCTopics
PROPERTIES
  FormattingIsIdempotent
CHECK_DEADLOCK FALSE
