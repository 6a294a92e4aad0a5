CONSTANTS
    plugin_dirs <- MCPluginDirs
    lua_scripts <- MCScripts
    Ports = {443, 8443}
    Clis <- MCClis
    LinkTypes = {"ETHERNET", "USER0"}
    Resolutions = {None, 9}
    MaxInterfaces = 2
    MaxBlocks = 4
    MaxMessages = 2
    None = None
SPECIFICATION Spec
INVARIANTS
    LastPluginWins
    OwnInterface
    OutputsFollowCapture
    ChunksClosedAtExit
    NeverPanics
