\* Two hosts of the Keys API, one behind the other; no request fails for good.
SPECIFICATION Spec
CONSTANTS
    KeysHosts = {k1, k2}
    NoHost = NoHost
    MaxSnapshots = 2
    MaxFailures = 0
    NewOperatorAt = {}
INVARIANT
    KeysNotOutdated
