\* Four messages about two files.
SPECIFICATION FairServerSpec
CONSTANTS
    Files = {"f", "g"}
    Messages = 4
    Concurrency = 4
INVARIANTS
    QuietWorkspaceIsCurrent
    QueriesReadOneVersion
    CleanSessionSettles
PROPERTIES
    WorkspaceNeverGoesBack
    HandlersReturn
\* The editor sends no more than Messages messages.
CHECK_DEADLOCK FALSE
