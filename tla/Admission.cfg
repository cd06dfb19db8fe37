\* Three connections over two loops, one connection in all and one per address.
CONSTANTS
    c1 = c1
    c2 = c2
    c3 = c3
    l1 = l1
    l2 = l2
    balancer = balancer
    client = client
    Conns <- MCConns
    Loops <- MCLoops
    IPs <- MCIPs
    NoIp = NoIp
    None = None
    MaxConn = 1
    MaxPerIp = 1
    ProxyProtocol = TRUE
SPECIFICATION Spec
INVARIANTS CountsMatch CapsHold
PROPERTIES  CapacityReturns
CHECK_DEADLOCK FALSE
