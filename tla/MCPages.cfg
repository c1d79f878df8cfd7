SPECIFICATION PagesSpec
CONSTANTS
    v1 = v1  v2 = v2  Unset = Unset  Loading = Loading  Missing = Missing
    Presets = {"mainnet", "devnet"}
    DEFAULT_TYPE = "mainnet"
    DEVNET = "devnet"
    Deployments = {1, 2}
    RPC_URLS <- MCRpcUrls
    CustomUrls = {"own", "local"}
    ClusterOf <- MCClusterOf
    Hosts = {"ncn", "other"}
    DEFAULT_NCN_API_URL <- MCDefaultApi
    Invalid = Invalid
    None = None
    Garbage = Garbage
    MaxSlashes = 3
    MaxEdits = 3
    MaxLoads = 2
INVARIANTS
    NetworkIsOfTheEndpoint
    PhasesAreRight
    PagesShowWhatIs
PROPERTIES
    ReloadKeepsTheEndpoint
    NothingIsTakenBack
CHECK_DEADLOCK FALSE
