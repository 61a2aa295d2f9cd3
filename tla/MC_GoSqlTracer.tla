--------------------------- MODULE MC_GoSqlTracer ---------------------------
(* Instantiates GoSqlTracer for TLC: two goroutines, so that one can reuse *)
(* the slot the other frees, one element slot fewer than goroutines so    *)
(* that a start can find the map full, and a one-record ring so that a    *)
(* reservation can fail.                                                   *)
EXTENDS GoSqlTracer, TLC

MCMaxEntries == 1
MCRingCap == 1
MCMaxStarts == 2
\* sizeof(trace->sql) scaled to 2 bytes, a query shorter than the buffer
\* (NUL written) and one longer (clamped, buffer filled, no NUL)
MCSqlSize == 2
MCQueries == {"q_short", "q_long"}
MCQueryLen == [q \in Queries |-> IF q = "q_short" THEN 1 ELSE 3]
AllResolved == OffsetIds
\* go-sql-driver/mysql without a resolved mysqlConn.cfg offset
CfgUnresolved == OffsetIds \ {"mysql_conn_cfg"}
\* Goroutine addresses are interchangeable.
GoroutineSym == Permutations(Goroutines)
=============================================================================
