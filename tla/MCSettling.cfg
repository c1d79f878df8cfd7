SPECIFICATION SettlingSpec
CONSTANTS
    v1 = v1  Unset = Unset  Loading = Loading  Missing = Missing
    Presets = {"mainnet", "devnet"}
    DEFAULT_TYPE = "mainnet"
    DEVNET = "devnet"
    Deployments = {1}
    RPC_URLS <- MCRpcUrls
    CustomUrls = {"own", "local"}
    ClusterOf <- MCClusterOf
    Hosts = {"ncn", "other"}
    DEFAULT_NCN_API_URL <- MCDefaultApi
    Invalid = Invalid
    None = None
    Garbage = Garbage
    MaxSlashes = 0
    MaxEdits = 2
    MaxLoads = 1
PROPERTIES
    EverythingSettles
CHECK_DEADLOCK FALSE
