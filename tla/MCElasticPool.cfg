SPECIFICATION PoolFairSpec
CONSTANTS
    ip1 = ip1
    ip2 = ip2
    IPs <- MCIPs
    MaxStep = 2
    MaxEvents = 3
INVARIANTS PoolTypeOK AdapterFresh
PROPERTIES Converges UpdateReturns
CHECK_DEADLOCK FALSE
