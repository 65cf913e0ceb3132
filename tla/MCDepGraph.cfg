\* DepGraph::build and topological_sort over every small project.
SPECIFICATION FairSpec
CONSTANTS
    Files <- MCFiles
    Dirs <- MCDirs
    Paths <- MCPaths
    Packages <- MCPackages
    Projects <- MCProjects
INVARIANTS
    TypeOK
    DegreesAreExact
    QueueIsReady
    OrderRespectsImports
    VerdictIsExact
    CycleIsReal
PROPERTIES
    SortReturns
    SortKeepsPromise
