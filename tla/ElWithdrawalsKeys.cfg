\* One request, a key that arrives while the handler runs.
SPECIFICATION Spec
CONSTANTS
    Validators = {v1}
    Amounts = {1}
    MaxRequests = 1
    MaxFailures = 0
INVARIANT
    OurSourceReported
CHECK_DEADLOCK FALSE
