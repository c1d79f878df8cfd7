SPECIFICATION ConfigSpec
CONSTANTS
    Keys = {k1, k2, k3}
    DefaultKey = DefaultKey
    None = None
    Operators = {o1, o2, o3}
    Nominees = {k1, k2, k3, DefaultKey}
    Programs = {svmgov}
    Thresholds = {0, 6000, 10001}
    Durations = {0, 2}
    MAX_OPERATOR_WHITELIST = 2
SYMMETRY KeySymmetry
INVARIANTS
    WhitelistFits
PROPERTIES
    AuthorityHandover
