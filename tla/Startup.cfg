SPECIFICATION Spec
CONSTANTS
    Letters = {"a", "b"}
    Digits <- MCDigits
    MaxPort = 50
    UserConfig = "config"
    Unreadable = Unreadable
    Names = {"d", ".h"}
    Hidden = {".h"}
    MaxChanges = 2
    MaxDepth = 2
    Numbers = {0, 1, 2, 3}
    Default = 3
    Malformed = 9
    SmallestBlock = 2
    Texts <- MCTexts
    Users <- MCUsers
    Hosts <- MCHosts
    PortTexts <- MCPortTexts
    Paths <- MCPaths
    Configs <- MCConfigs
    LoginNames <- MCLoginNames
    Trees <- MCTrees
INVARIANTS TypeOK CommandLineDecides ParsesBack IdentitiesOffered ListsWhatStayed ReadsWhatItListed
\* A behaviour ends when the source is listed, or the process has failed.
CHECK_DEADLOCK FALSE
