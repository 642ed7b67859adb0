SPECIFICATION Spec
CONSTANTS
    Ports = {p1, p2}
    Conns = {k1, k2, k3}
    Credentials = {u1, u2}
    Empty = Empty
    NoPort = NoPort
SYMMETRY Symmetry
INVARIANT FailClosed
