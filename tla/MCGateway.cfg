SPECIFICATION Spec
CONSTANTS
    Names <- MCNames
    Sites <- MCSites
    Rule <- MCRule
    PathPrefix <- MCPathPrefix
    AutoPrefix = AutoPrefix
    Scopes <- MCScopes
    RequiredScopes <- MCRequiredScopes
    ScopeNames = {"openid", "mcp"}
    Paths <- MCPaths
    Clients = {c1}
    Others = {c2}
    Keys = {k1, k2}
    None = None
    AccessTTL = 1
    Skew = 1
    MaxDrift = 1
    MaxTime = 4
    MaxTokens = 2
SYMMETRY Symmetry
INVARIANTS TypeOK DiscoveryCloses BackendIsolation ChecksAgree
