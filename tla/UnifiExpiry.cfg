\* Two threads, one session that ends under them, nothing else fails.
SPECIFICATION Spec
CONSTANTS
    Threads = {"a", "b"}
    MaxLoginAttempts = 2
    MaxAttempts = 2
    MaxRequests = 2
    MaxExpiries = 1
    MaxFaults = 0
INVARIANT ExpiryIsBridged
CHECK_DEADLOCK FALSE
