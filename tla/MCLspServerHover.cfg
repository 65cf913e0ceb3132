\* HoverIsAnswered does not hold.
SPECIFICATION FairServerSpec
CONSTANTS
    Files = {"f"}
    Messages = 5
    Concurrency = 4
PROPERTIES
    HoverIsAnswered
\* The editor sends no more than Messages messages.
CHECK_DEADLOCK FALSE
