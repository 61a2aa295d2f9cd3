\* The offset table lacks mysqlConn.cfg.
CONSTANTS
    Goroutines = {g1, g2}
    Queries <- MCQueries
    SqlSize <- MCSqlSize
    QueryLen <- MCQueryLen
    Nul = Nul
    StaleByte = StaleByte
    Sockets = {s1}
    MySqlConns = {my1}
    OtherConns = {pg1}
    NullConn = NullConn
    MaxEntries <- MCMaxEntries
    RingCap <- MCRingCap
    MaxStarts <- MCMaxStarts
    ImmediateReuse = FALSE
    Resolved <- CfgUnresolved
SPECIFICATION Spec
INVARIANT HostnameSound
SYMMETRY GoroutineSym
