\* Deferred element reuse (RCU), every offset resolved.
CONSTANTS
    Goroutines = {g1, g2}
    Queries <- MCQueries
    SqlSize <- MCSqlSize
    QueryLen <- MCQueryLen
    Nul = Nul
    StaleByte = StaleByte
    Sockets = {s1}
    MySqlConns = {my1}
    OtherConns = {pg1}
    NullConn = NullConn
    MaxEntries <- MCMaxEntries
    RingCap <- MCRingCap
    MaxStarts <- MCMaxStarts
    ImmediateReuse = FALSE
    Resolved <- AllResolved
SPECIFICATION Spec
INVARIANT TypeOK
INVARIANT HostnameSound
INVARIANT SqlTextTruncated
PROPERTY EmitReflectsOwnInvocation
PROPERTY SqlTracerRefinesSpec
SYMMETRY GoroutineSym
