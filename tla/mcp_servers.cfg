SPECIFICATION ServersSpec
CONSTANTS
    Names = {"a", "b"}
    NoManager = NoManager
    Shares <- MCShares
    Kind <- MCKind
    Listing = {"a"}
    Swaps = 1
    ToolCalls = {c1}
    Edited = {"b"}
    StoredRows <- MCStoredRows
    Wired = TRUE
INVARIANTS ToolsHaveServer ReplacedAreClosed
PROPERTIES SwapEndsUnlessStuck
CHECK_DEADLOCK FALSE
