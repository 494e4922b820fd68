\* One host, one failed request between the nonce and the keys.
SPECIFICATION Spec
CONSTANTS
    KeysHosts = {k1}
    NoHost = NoHost
    MaxSnapshots = 2
    MaxFailures = 1
    NewOperatorAt = {}
INVARIANT
    SameNonceSameKeys
