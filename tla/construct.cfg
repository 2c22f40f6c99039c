SPECIFICATION Spec
CONSTANTS
    p1 = p1
    p2 = p2
    nan = nan
    nil = nil
    none = none
    NaN <- nan
    Nil <- nil
    None <- none
    Processes <- MCProcesses
    Lower <- MCLower
    Defaults <- MCDefaults
    Scenarios <- MCScenarios
    MaxSanitizeDepth = 2
    MaxIDs = 4
    MaxRestarts = 1
INVARIANTS UpIsUsable IdentitySettles SecretsStayHome NoPlaintextFallback
PROPERTY ResendsAlike
CHECK_DEADLOCK FALSE
