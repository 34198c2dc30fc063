CONSTANTS
    HostArch = "amd64"
    ArchToQemu <- MCArchToQemu
    Arches <- MCArches
    CustomPaths <- MCCustomPaths
    PathEnvs <- MCPathEnvs
    SearchPaths <- MCSearchPaths
    SocketDirs <- MCSocketDirs
    CacheDirs <- MCCacheDirs
    Cwd <- MCHome
    Files <- MCFiles
SPECIFICATION Spec
INVARIANTS
    ExecutesLocatedBinary
CHECK_DEADLOCK FALSE
