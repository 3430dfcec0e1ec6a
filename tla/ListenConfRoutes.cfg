\* Up to three servers with one listen directive each.
SPECIFICATION Spec
CONSTANTS
    p1 = p1
    p2 = p2
    Ports = {p1, p2}
    DefaultPort = p1
    a = a
    b = b
    Ips = {a, b}
    AnyIp = AnyIp
    host = host
    Names = {host}
    MaxServers = 3
    MaxListens = 1
SYMMETRY Symmetry
INVARIANTS
    ServedAsConfigured
    RefusedIffContradiction
CHECK_DEADLOCK FALSE
