\* Any environment and up to one config file at first; two edits, two boots.
CONSTANTS
    Dirs = {"home", "srv"}
    Home = "home"
    Vault = "vault"
    Envs <- MCEnvs
    ConfigTexts <- MCConfigTexts
    PolicyTexts <- MCPolicyTexts
    Principals = {"ann"}
    Caps = {"memory:read", "admin"}
    Commands <- MCCommands
    None = None
    MaxFiles = 1
    MaxEdits = 2
    MaxIssues = 1
    MaxBoots = 2
SPECIFICATION Spec
INVARIANTS OneIssuer MintsOnlyEntitled ServesWhatItRead
CHECK_DEADLOCK FALSE
