SPECIFICATION Spec
CONSTANTS
    Principals = {"alice", ""}
    Scopes <- MCScopes
    PermSets <- MCPermSets
    Branches <- MCBranches
    Paths <- MCPaths
    Caller = "alice"
    Calls <- MCCalls
    MaxGrants = 2
INVARIANTS
    GrantsTable
    
CHECK_DEADLOCK FALSE
