\* A deleted element may be handed at once to another CPU's insert.
CONSTANTS
    Goroutines = {g1, g2}
    Queries <- MCQueries
    SqlSize <- MCSqlSize
    QueryLen <- MCQueryLen
    Nul = Nul
    StaleByte = StaleByte
    Sockets = {s1}
    MySqlConns = {my1}
    OtherConns = {pg1}
    NullConn = NullConn
    MaxEntries <- MCMaxEntries
    RingCap <- MCRingCap
    MaxStarts <- MCMaxStarts
    ImmediateReuse = TRUE
    Resolved <- AllResolved
SPECIFICATION Spec
PROPERTY EmitReflectsOwnInvocation
SYMMETRY GoroutineSym
