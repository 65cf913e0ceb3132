CONSTANTS
    Lists <- MCLists
    ErrNames <- MCErrNames
    ImportedNames <- MCImportedNames
    MaxBlocks = 3
    MaxEntries = 2
SPECIFICATION ScopesSpec
INVARIANTS
    ScopesUnwind
PROPERTIES
    AcceptedBodiesCompile
    UsesMeanTheSame
    ConstantsAreKept
    RejectionsAreGos
    LintWarnsOfHiding
CHECK_DEADLOCK FALSE
