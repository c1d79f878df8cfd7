SPECIFICATION ConfigSpec
CONSTANTS
    k1 = k1
    k2 = k2
    Keys = {k1, k2, k3}
    DefaultKey = DefaultKey
    None = None
    Nominees = {k1, k2, k3, DefaultKey}
    Settings <- MCSettings
    Updates <- MCUpdates
    Legacy <- MCLegacy
    MAX_SUPPORTERS_LIMIT = 2
INVARIANTS
    ParametersAreSane
PROPERTIES
    AdminHandover
