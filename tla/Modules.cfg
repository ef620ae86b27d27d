\* Two commands and a program of the gateway, two native packages, one of them
\* a library; builds: signed and good, signed and of another ABI, unsigned.
SPECIFICATION Spec
CONSTANTS
    repl = repl
    peer = peer
    gateway = gateway
    Tasks = {repl, peer, gateway}
    Privileged = {repl, gateway}
    Linked = {repl, peer}
    Natives = {"x", "y"}
    Names <- MCNames
    Files <- MCFiles
    Statements <- MCStatements
    Link <- MCLink
    Broken = {"broken"}
    Programs <- MCPrograms
    Disks <- MCDisks
    Libraries <- MCLibraries
    PureLibrary <- MCPureLibrary
    MaxBuild = 3
    Signed = {1, 2}
    Loadable = {1, 3}
    MaxChanges = 1
    MaxDepth = 5
INVARIANTS
    TypeOK
    LoadedWasVerified
    ImportsLoad
    NamesReached
\* A program ends, or reaches the bound on the nesting of imports.
CHECK_DEADLOCK FALSE
