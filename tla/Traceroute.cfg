SPECIFICATION Spec
CONSTANTS
    MAX_TTL = 3
    MAX_PROBES = 3
    PORTS = 16
    MAX_DEST_PORT = 14
    DEF_DEST_PORT = 5
    DEF_DEST_PORT_BASE = 8
    Arguments <- CommandLines
    Routers = {"r1", "r2"}
INVARIANTS
    NamesShown
    FreedOnce
    RowsComplete
PROPERTY
    Ends
