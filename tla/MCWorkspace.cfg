\* typecheck_workspace over small projects, edited or not.
SPECIFICATION WorkspaceSpec
CONSTANTS
    Files <- MCFiles
    Dirs <- MCDirs
    Paths <- MCPaths
    Packages <- MCPackages
    Projects <- MCProjects
    Names <- MCNames
    PackageName <- MCPackageName
    GoNames <- MCGoNames
    Root = "p"
    Unresolvable = {"gone"}
    Workspaces <- MCWorkspaces
INVARIANTS
    EveryFileAnalysed
    ReportsAreExplained
