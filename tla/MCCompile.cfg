\* sop build over small projects.
SPECIFICATION BuildSpec
CONSTANTS
    Files <- MCFiles
    Dirs <- MCDirs
    Paths <- MCPaths
    Packages <- MCPackages
    Projects <- MCProjects
    Names <- MCNames
    PackageName <- MCPackageName
    GoNames <- MCGoNames
    Root = "p"
    Unresolvable <- MCUnresolvable
    Codes <- MCCodes
INVARIANTS
    RegistryIsExact
    BuildIsSound
    OnlyOrderRejectsCleanCode
