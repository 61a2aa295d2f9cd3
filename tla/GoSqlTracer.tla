----------------------------- MODULE GoSqlTracer -----------------------------
(***************************************************************************)
(* The Go database/sql client tracer of src/bpf/gotracer/go_sql.c and the  *)
(* netFdRead probe of src/bpf/gotracer/go_net.c that lazily fills in the   *)
(* connection tuple of the in-flight query.                                *)
(*                                                                         *)
(* Every goroutine runs its probes one after another; probes of different  *)
(* goroutines run concurrently on different CPUs.  The return probe of     *)
(* queryDC/execDC is split in two steps at the one point where another     *)
(* CPU's step matters: after bpf_map_delete_elem and before the deleted    *)
(* element is read through the pointer the lookup returned.                *)
(*                                                                         *)
(* ongoing_sql_queries is a preallocated BPF hash map: a key (the          *)
(* goroutine address) points to one of MaxEntries element slots.  Whether  *)
(* a deleted slot may be handed to another CPU's insert while the deleting *)
(* program still reads it is the kernel's choice (ImmediateReuse).         *)
(***************************************************************************)
EXTENDS Naturals, Sequences, FiniteSets

CONSTANTS
    Goroutines,     \* goroutine addresses, the keys go_addr_key_t
    Queries,        \* query texts (sql_param, query_len) a goroutine may run
    Sockets,        \* sockets a goroutine may read, each with its tuple
    MySqlConns,     \* driverConn values whose ci holds a *mysql.mysqlConn
    OtherConns,     \* driverConn values of another database driver
    NullConn,       \* a NULL driverConn
    MaxEntries,     \* max_entries of ongoing_sql_queries
    RingCap,        \* records that fit in the events ring buffer
    MaxStarts,      \* bound on the queries started in one behaviour
    ImmediateReuse, \* a freed element may be reused before its reader ends
    Resolved,       \* the offsets the offset table resolves (non-zero)
    SqlSize,        \* sizeof(trace->sql)
    QueryLen,       \* query -> query_len, the length of the Go string
    Nul,            \* the byte '\0'
    StaleByte       \* a byte left in ring memory by an earlier record

ASSUME MaxEntries \in Nat \ {0} /\ RingCap \in Nat \ {0} /\ MaxStarts \in Nat
ASSUME ImmediateReuse \in BOOLEAN
ASSUME SqlSize \in Nat \ {0} /\ QueryLen \in [Queries -> Nat]

\* The go_offset ids go_sql.c resolves through go_offset_of.
OffsetIds == {"driverconn_ci", "mysql_conn_type", "mysql_conn_cfg",
              "mysql_config_addr"}
ASSUME Resolved \subseteq OffsetIds

DriverConns == MySqlConns \cup OtherConns \cup {NullConn}
Slots == 1 .. MaxEntries

\* Sentinels.  NoConn is the all-zero connection_info_t.
NoSlot == 0
NoConn == "no_conn"
NoRead == "no_read"         \* get_conn_info_from_fd failed: nothing written
Absent == "absent"          \* no entry for the goroutine in that map
NoTransport == "no_transport" \* operate_headers entry, transport not found
NoHost == <<"empty", NullConn>> \* hostname[0] == '\0'
HostOf(c) == <<"addr", c>>      \* Config.Addr of the MySQL connection c
WrongField(c) == <<"wrong", c>> \* bytes read at an offset that was 0

Hosts == {NoHost} \cup {HostOf(c) : c \in DriverConns}
                  \cup {WrongField(c) : c \in DriverConns}
Ids == 1 .. MaxStarts

\* sql_func_invocation_t; id stands for start_monotime_ns and tp, which
\* are fresh for every start.
Invocation == [id : Ids, g : Goroutines, query : Queries,
               drv : DriverConns, conn : Sockets \cup {NoConn}]
Empty == [id |-> 0, g |-> CHOOSE x \in Goroutines : TRUE,
          query |-> CHOOSE q \in Queries : TRUE, drv |-> NullConn,
          conn |-> NoConn]

\* Byte i of the text of query q, and the text itself.
QueryText(q) == [i \in 1 .. QueryLen[q] |-> <<q, i>>]
SqlBytes == {Nul, StaleByte} \cup {<<q, i>> : q \in Queries, i \in 1 .. SqlSize}

\* sql_request_trace_t as the consumer sees it; drv and query are ghost
\* fields that name the driverConn and the query the invocation carried.
SqlEvent == [g : Goroutines, id : Ids, sql : [1 .. SqlSize -> SqlBytes],
             conn : Sockets \cup {NoConn}, host : Hosts, drv : DriverConns,
             query : Queries]

VARIABLES
    pc,          \* goroutine: "idle", "query" (inside queryDC/execDC),
                 \* "return" (return probe between delete and emit)
    table,       \* ongoing_sql_queries: goroutine -> element slot
    elem,        \* the element slots' memory
    freeList,    \* slots an insert may take
    grace,       \* deleted slots still read by their deleting program
    held,        \* goroutine -> slot its return probe still reads
    nextId,      \* id of the next query started
    events,      \* the events ring buffer
    grpcConn,    \* ongoing_grpc_operate_headers + ongoing_grpc_transports
    mongoConn,   \* ongoing_mongo_requests
    serverConn,  \* ongoing_server_connections
    lastStart,   \* ghost: id of the query each goroutine last started
    readsDuring, \* ghost: sockets read since that start with no gRPC entry
    serverReads, \* ghost: sockets read by an idle goroutine with a server entry
    emitted      \* ghost: <<goroutine, id>> of every SQL event submitted

vars == <<pc, table, elem, freeList, grace, held, nextId, events, grpcConn,
          mongoConn, serverConn, lastStart, readsDuring, serverReads, emitted>>

TypeOK ==
    /\ pc \in [Goroutines -> {"idle", "query", "return"}]
    /\ table \in [Goroutines -> Slots \cup {NoSlot}]
    /\ elem \in [Slots -> Invocation \cup {Empty}]
    /\ freeList \subseteq Slots /\ grace \subseteq Slots
    /\ held \in [Goroutines -> Slots \cup {NoSlot}]
    /\ nextId \in 1 .. MaxStarts + 1
    /\ events \in Seq(SqlEvent) /\ Len(events) <= RingCap
    /\ grpcConn \in [Goroutines -> {Absent, NoTransport, NoConn} \cup Sockets]
    /\ mongoConn \in [Goroutines -> {Absent, NoConn} \cup Sockets]
    /\ serverConn \in [Goroutines -> {Absent, NoConn} \cup Sockets]
    /\ lastStart \in [Goroutines -> 0 .. MaxStarts]
    /\ readsDuring \in [Goroutines -> SUBSET Sockets]
    /\ serverReads \in [Goroutines -> SUBSET Sockets]
    /\ emitted \in Seq(Goroutines \X Ids)

Init ==
    /\ pc = [g \in Goroutines |-> "idle"]
    /\ table = [g \in Goroutines |-> NoSlot]
    /\ elem = [s \in Slots |-> Empty]
    /\ freeList = Slots
    /\ grace = {}
    /\ held = [g \in Goroutines |-> NoSlot]
    /\ nextId = 1
    /\ events = <<>>
    /\ grpcConn = [g \in Goroutines |-> Absent]
    /\ mongoConn = [g \in Goroutines |-> Absent]
    /\ serverConn = [g \in Goroutines |-> Absent]
    /\ lastStart = [g \in Goroutines |-> 0]
    /\ readsDuring = [g \in Goroutines |-> {}]
    /\ serverReads = [g \in Goroutines |-> {}]
    /\ emitted = <<>>

(***************************************************************************)
(* Hostname extraction: extract_sql_hostname and its helpers.  A pointer  *)
(* to a mysqlConn is identified with the driverConn it was read from; a   *)
(* set of outcomes stands for the reads that may fail.                    *)
(***************************************************************************)

\* get_mysql_conn_ptr with the ci type-tag check left out.
GetMysqlConnPtrNoTypeCheck(d) ==
    IF d = NullConn \/ {"driverconn_ci", "mysql_conn_type"} \ Resolved # {}
    THEN {NullConn}
    ELSE {d, NullConn}

\* get_mysql_conn_ptr: both offsets must be resolved, the type word of
\* driverConn.ci must be mysql.mysqlConn, and the data word read may fail.
GetMysqlConnPtr(d) ==
    IF \/ d = NullConn
       \/ {"driverconn_ci", "mysql_conn_type"} \ Resolved # {}
       \/ d \notin MySqlConns
    THEN {NullConn}
    ELSE {d, NullConn}

\* read_mysql_hostname_from_mysqlconn: mysqlConn.cfg, then Config.Addr.
\* Neither offset is checked: an unresolved one is 0, and the read then
\* takes whatever field sits at the start of the struct.
ReadMysqlHostname(p) ==
    IF p = NullConn THEN {NoHost}
    ELSE {NoHost} \cup
         IF {"mysql_conn_cfg", "mysql_config_addr"} \subseteq Resolved
         THEN {HostOf(p)}
         ELSE {WrongField(p)}

\* extract_sql_hostname: hostname[0] = '\0', then the chain above.
ExtractSqlHostname(d) ==
    UNION {ReadMysqlHostname(p) : p \in GetMysqlConnPtr(d)}

\* The copy of the query text without the terminating NUL.
SqlTextNoNul(inv) ==
    LET n == IF QueryLen[inv.query] > SqlSize THEN SqlSize ELSE QueryLen[inv.query]
    IN  {[i \in 1 .. SqlSize |-> IF i <= n THEN IF ok THEN <<inv.query, i>> ELSE Nul
                                ELSE StaleByte] : ok \in BOOLEAN}

\* trace->sql after the copy of the query text: query_len clamped to the
\* buffer, bpf_probe_read of that many bytes (unchecked: on a fault the
\* kernel zeroes the destination), then sql[query_len] = '\0' when the text
\* is shorter than the buffer.  Bytes past that keep what the reserved
\* ring memory held.
SqlText(inv) ==
    LET n == IF QueryLen[inv.query] > SqlSize THEN SqlSize ELSE QueryLen[inv.query]
    IN  {[i \in 1 .. SqlSize |-> IF i <= n THEN IF ok THEN <<inv.query, i>> ELSE Nul
                                ELSE IF i = n + 1 THEN Nul ELSE StaleByte]
         : ok \in BOOLEAN}

(***************************************************************************)
(* Operations.                                                             *)
(***************************************************************************)

\* bpf_map_update_elem with BPF_NOEXIST: an existing element is kept.
UpdateOngoingSqlNoExist(g, inv) ==
    \/ /\ table[g] # NoSlot
       /\ UNCHANGED <<table, elem, freeList>>
    \/ /\ table[g] = NoSlot
       /\ \E s \in freeList :
            /\ table' = [table EXCEPT ![g] = s]
            /\ elem' = [elem EXCEPT ![s] = inv]
            /\ freeList' = freeList \ {s}
    \/ /\ table[g] = NoSlot /\ freeList = {}
       /\ UNCHANGED <<table, elem, freeList>>

\* bpf_map_update_elem(&ongoing_sql_queries, &g_key, &invocation, BPF_ANY):
\* overwrite the goroutine's element, take a free one, or fail (E2BIG,
\* only logged) when the map is full.
UpdateOngoingSql(g, inv) ==
    \/ /\ table[g] # NoSlot
       /\ elem' = [elem EXCEPT ![table[g]] = inv]
       /\ UNCHANGED <<table, freeList>>
    \/ /\ table[g] = NoSlot
       /\ \E s \in freeList :
            /\ table' = [table EXCEPT ![g] = s]
            /\ elem' = [elem EXCEPT ![s] = inv]
            /\ freeList' = freeList \ {s}
    \/ /\ table[g] = NoSlot /\ freeList = {}
       /\ UNCHANGED <<table, elem, freeList>>

\* set_sql_info: a fresh invocation with a zero tuple, recorded for g.
SetSqlInfo(g, q, d) ==
    LET inv == [id |-> nextId, g |-> g, query |-> q, drv |-> d,
                conn |-> NoConn]
    IN  /\ UpdateOngoingSql(g, inv)
        /\ lastStart' = [lastStart EXCEPT ![g] = nextId]
        /\ readsDuring' = [readsDuring EXCEPT ![g] = {}]

StartCall(g) ==
    /\ pc[g] = "idle"
    /\ nextId <= MaxStarts
    /\ \E q \in Queries, d \in DriverConns : SetSqlInfo(g, q, d)
    /\ pc' = [pc EXCEPT ![g] = "query"]
    /\ nextId' = nextId + 1
    /\ UNCHANGED <<grace, held, events, grpcConn, mongoConn, serverConn,
                   serverReads, emitted>>

\* obi_uprobe_queryDC and obi_uprobe_execDC differ only in the registers
\* they take driverConn, the query pointer and its length from.
QueryDC(g) == StartCall(g)
ExecDC(g) == StartCall(g)

\* get_conn_info_from_fd used without checking its result.
ConnInfoFromFdUnchecked(cur, got) == got

\* get_conn_info_from_fd(fd_ptr, &conn): on failure nothing is written
\* ("ok to not check the result, we leave it as 0").
ConnInfoFromFd(cur, got) == IF got = NoRead THEN cur ELSE got

\* obi_uprobe_netFdRead with ongoing_sql_queries looked up before the gRPC
\* operate_headers map.
NetFdReadSqlFirst(g, s) ==
    /\ pc[g] # "return"
    /\ \E got \in {s, NoRead} :
        /\ \/ /\ table[g] # NoSlot
              /\ elem' = [elem EXCEPT ![table[g]].conn = ConnInfoFromFd(@, got)]
              /\ UNCHANGED <<grpcConn, mongoConn, serverConn>>
           \/ /\ table[g] = NoSlot
              /\ UNCHANGED <<elem, grpcConn, mongoConn, serverConn>>
        /\ readsDuring' = [readsDuring EXCEPT ![g] =
                IF pc[g] = "query" /\ got # NoRead /\ grpcConn[g] = Absent
                THEN @ \cup {got} ELSE @]
        /\ UNCHANGED serverReads
    /\ UNCHANGED <<pc, table, freeList, grace, held, nextId, events, lastStart,
                   emitted>>

\* obi_uprobe_netFdRead: the first map that holds the goroutine takes the
\* tuple of the fd being read, in the order gRPC operateHeaders, SQL,
\* MongoDB, HTTP server; gRPC and server only fill a zero tuple.
NetFdRead(g, s) ==
    /\ pc[g] # "return"
    /\ \E got \in {s, NoRead} :
        /\ \/ /\ grpcConn[g] # Absent
              /\ grpcConn' = [grpcConn EXCEPT ![g] =
                                IF @ = NoConn THEN ConnInfoFromFd(@, got) ELSE @]
              /\ UNCHANGED <<elem, mongoConn, serverConn>>
           \/ /\ grpcConn[g] = Absent /\ table[g] # NoSlot
              /\ elem' = [elem EXCEPT ![table[g]].conn =
                                ConnInfoFromFd(@, got)]
              /\ UNCHANGED <<grpcConn, mongoConn, serverConn>>
           \/ /\ grpcConn[g] = Absent /\ table[g] = NoSlot
              /\ mongoConn[g] # Absent
              /\ mongoConn' = [mongoConn EXCEPT ![g] = ConnInfoFromFd(@, got)]
              /\ UNCHANGED <<elem, grpcConn, serverConn>>
           \/ /\ grpcConn[g] = Absent /\ table[g] = NoSlot
              /\ mongoConn[g] = Absent /\ serverConn[g] # Absent
              /\ serverConn' = [serverConn EXCEPT ![g] =
                                IF @ = NoConn THEN ConnInfoFromFd(@, got) ELSE @]
              /\ UNCHANGED <<elem, grpcConn, mongoConn>>
           \/ /\ grpcConn[g] = Absent /\ table[g] = NoSlot
              /\ mongoConn[g] = Absent /\ serverConn[g] = Absent
              /\ UNCHANGED <<elem, grpcConn, mongoConn, serverConn>>
        \* ghost bookkeeping of the reads the properties talk about
        /\ readsDuring' = [readsDuring EXCEPT ![g] =
                IF pc[g] = "query" /\ got # NoRead /\ grpcConn[g] = Absent
                THEN @ \cup {got} ELSE @]
        /\ serverReads' = [serverReads EXCEPT ![g] =
                IF /\ pc[g] = "idle" /\ got # NoRead
                   /\ serverConn[g] # Absent
                   /\ grpcConn[g] = Absent /\ mongoConn[g] = Absent
                THEN @ \cup {got} ELSE @]
    /\ UNCHANGED <<pc, table, freeList, grace, held, nextId, events, lastStart,
                   emitted>>

\* The kernel's free of a deleted element: at once, or after the deleting
\* program ends (an RCU grace period).
FreeElement(s) ==
    IF ImmediateReuse
    THEN freeList' = freeList \cup {s} /\ UNCHANGED grace
    ELSE grace' = grace \cup {s} /\ UNCHANGED freeList

ReleaseElement(s) ==
    IF ImmediateReuse
    THEN UNCHANGED <<freeList, grace>>
    ELSE /\ grace' = grace \ {s}
         /\ freeList' = freeList \cup {s}

\* obi_uprobe_queryReturn without its bpf_map_delete_elem.
QueryReturnLookupNoDelete(g) ==
    /\ pc[g] = "query"
    /\ \/ /\ table[g] = NoSlot
          /\ pc' = [pc EXCEPT ![g] = "idle"]
          /\ UNCHANGED <<table, freeList, grace, held>>
       \/ /\ table[g] # NoSlot
          /\ held' = [held EXCEPT ![g] = table[g]]
          /\ pc' = [pc EXCEPT ![g] = "return"]
          /\ UNCHANGED <<table, freeList, grace>>
    /\ UNCHANGED <<elem, nextId, events, grpcConn, mongoConn, serverConn,
                   lastStart, readsDuring, serverReads, emitted>>

\* obi_uprobe_queryReturn up to bpf_map_delete_elem: no entry (the start
\* could not be stored) ends the probe; otherwise the entry is deleted and
\* the probe goes on reading the element through the lookup's pointer.
QueryReturnLookup(g) ==
    /\ pc[g] = "query"
    /\ \/ /\ table[g] = NoSlot
          /\ pc' = [pc EXCEPT ![g] = "idle"]
          /\ UNCHANGED <<table, freeList, grace, held>>
       \/ /\ table[g] # NoSlot
          /\ table' = [table EXCEPT ![g] = NoSlot]
          /\ held' = [held EXCEPT ![g] = table[g]]
          /\ FreeElement(table[g])
          /\ pc' = [pc EXCEPT ![g] = "return"]
    /\ UNCHANGED <<elem, nextId, events, grpcConn, mongoConn, serverConn,
                   lastStart, readsDuring, serverReads, emitted>>

\* obi_uprobe_queryReturn from bpf_ringbuf_reserve on: a full ring drops the
\* event; otherwise the record is filled from the element and submitted.
QueryReturnEmit(g) ==
    /\ pc[g] = "return"
    /\ LET inv == elem[held[g]] IN
        \/ /\ Len(events) < RingCap
           /\ \E sql \in SqlText(inv), h \in ExtractSqlHostname(inv.drv) :
                events' = Append(events,
                    [g |-> g, id |-> inv.id, sql |-> sql, conn |-> inv.conn,
                     host |-> h, drv |-> inv.drv, query |-> inv.query])
           /\ emitted' = Append(emitted, <<g, inv.id>>)
        \/ /\ Len(events) = RingCap
           /\ UNCHANGED <<events, emitted>>
    /\ ReleaseElement(held[g])
    /\ held' = [held EXCEPT ![g] = NoSlot]
    /\ pc' = [pc EXCEPT ![g] = "idle"]
    /\ UNCHANGED <<table, elem, nextId, grpcConn, mongoConn, serverConn,
                   lastStart, readsDuring, serverReads>>

(***************************************************************************)
(* The environment: the Go runtime, the other tracers and the consumer.    *)
(***************************************************************************)

\* A panic unwinds through queryDC/execDC: no return probe runs, and the
\* goroutine (or the next one given the same g) goes on with the entry left.
QueryPanics(g) ==
    /\ pc[g] = "query"
    /\ pc' = [pc EXCEPT ![g] = "idle"]
    /\ UNCHANGED <<table, elem, freeList, grace, held, nextId, events,
                   grpcConn, mongoConn, serverConn, lastStart, readsDuring,
                   serverReads, emitted>>

\* The gRPC, MongoDB and HTTP server probes create the goroutine's entry in
\* their map with a zero tuple, and later delete it.  A goroutine is taken
\* to run one such operation at a time.
OtherProbeEnter(g) ==
    /\ grpcConn[g] = Absent /\ mongoConn[g] = Absent /\ serverConn[g] = Absent
    /\ \/ /\ grpcConn[g] = Absent
          /\ \E v \in {NoConn, NoTransport} :
                grpcConn' = [grpcConn EXCEPT ![g] = v]
          /\ UNCHANGED <<mongoConn, serverConn, serverReads>>
       \/ /\ mongoConn[g] = Absent
          /\ mongoConn' = [mongoConn EXCEPT ![g] = NoConn]
          /\ UNCHANGED <<grpcConn, serverConn, serverReads>>
       \/ /\ serverConn[g] = Absent
          /\ serverConn' = [serverConn EXCEPT ![g] = NoConn]
          /\ serverReads' = [serverReads EXCEPT ![g] = {}]
          /\ UNCHANGED <<grpcConn, mongoConn>>
    /\ UNCHANGED <<pc, table, elem, freeList, grace, held, nextId, events,
                   lastStart, readsDuring, emitted>>

OtherProbeLeave(g) ==
    /\ \/ /\ grpcConn[g] # Absent
          /\ grpcConn' = [grpcConn EXCEPT ![g] = Absent]
          /\ UNCHANGED <<mongoConn, serverConn>>
       \/ /\ mongoConn[g] # Absent
          /\ mongoConn' = [mongoConn EXCEPT ![g] = Absent]
          /\ UNCHANGED <<grpcConn, serverConn>>
       \/ /\ serverConn[g] # Absent
          /\ serverConn' = [serverConn EXCEPT ![g] = Absent]
          /\ UNCHANGED <<grpcConn, mongoConn>>
    /\ UNCHANGED <<pc, table, elem, freeList, grace, held, nextId, events,
                   lastStart, readsDuring, serverReads, emitted>>

\* The user-space reader takes the oldest record off the ring.
Consume ==
    /\ events # <<>>
    /\ events' = Tail(events)
    /\ UNCHANGED <<pc, table, elem, freeList, grace, held, nextId, grpcConn,
                   mongoConn, serverConn, lastStart, readsDuring, serverReads,
                   emitted>>

Next ==
    \/ \E g \in Goroutines :
        \/ QueryDC(g)
        \/ ExecDC(g)
        \/ \E s \in Sockets : NetFdRead(g, s)
        \/ QueryReturnLookup(g)
        \/ QueryReturnEmit(g)
        \/ QueryPanics(g)
        \/ OtherProbeEnter(g)
        \/ OtherProbeLeave(g)
    \/ Consume

Spec == Init /\ [][Next]_vars

(***************************************************************************)
(* Properties.                                                             *)
(***************************************************************************)

\* The SQL event a goroutine's return probe submits describes that
\* goroutine's own, latest query (last start wins), and its tuple is one the
\* goroutine read during that query while no gRPC operate_headers entry was
\* pending (spec 4.4 tie-break: RPC transport, then SQL, first match wins):
\* obi_uprobe_queryReturn reads the element after deleting it, set_sql_info
\* overwrites with BPF_ANY, and netFdRead looks the maps up in that order.
EmitReflectsOwnInvocation ==
    [][\A g \in Goroutines :
         (pc[g] = "return" /\ pc'[g] = "idle" /\ Len(events') > Len(events))
         => LET e == events'[Len(events')] IN
              /\ e.id = lastStart[g]
              /\ e.conn \in readsDuring[g] \cup {NoConn}]_vars

\* A non-empty hostname in a SQL event is the Config.Addr of the MySQL
\* connection the query ran on: extract_sql_hostname checks the ci type tag
\* and follows mysqlConn.cfg and Config.Addr through the offset table.
HostnameSound ==
    \A i \in 1 .. Len(events) :
        \/ events[i].host = NoHost
        \/ /\ events[i].drv \in MySqlConns
           /\ events[i].host = HostOf(events[i].drv)

\* A goroutine that holds an HTTP server connection entry with a zero tuple
\* and no query in flight gets the tuple from its first successful read:
\* netFdRead checks the SQL map before the server connections.
ServerConnFilled ==
    \A g \in Goroutines :
        serverConn[g] = NoConn => serverReads[g] = {}

\* The abstract tracer of SqlCallSpec, with a goroutine's in-flight record
\* read from the element its return probe holds, else from the element
\* linked under its key.
SqlInflight ==
    [g \in Goroutines |->
        IF pc[g] = "return" THEN elem[held[g]].id
        ELSE IF table[g] # NoSlot THEN elem[table[g]].id ELSE 0]

Call == INSTANCE SqlCallSpec WITH inflight <- SqlInflight, reported <- emitted

\* set_sql_info, the return probe and the kernel's element reuse together
\* implement the in-flight record of spec 3: a start records a call for
\* its goroutine or is dropped when the map is full, the return probe
\* consumes that record exactly once and reports that call, and an entry
\* outlives its call only when no return probe runs (a panic).
SqlTracerRefinesSpec == Call!Spec

\* What the consumer reads out of a char buffer: up to the first NUL, or
\* the whole buffer.
CString(b) ==
    LET nuls == {i \in DOMAIN b : b[i] = Nul}
    IN  IF nuls = {} THEN b
        ELSE SubSeq(b, 1, (CHOOSE i \in nuls : \A j \in nuls : i <= j) - 1)

\* The text the consumer reads out of trace->sql is the query's text cut to
\* the buffer, or empty when the read faulted, never bytes of an earlier
\* record: queryReturn clamps query_len and writes the NUL only when the
\* text is shorter than the buffer (spec 4.4, scenario C).
SqlTextTruncated ==
    \A i \in 1 .. Len(events) :
        LET q == events[i].query IN
        CString(events[i].sql)
            \in {<<>>, SubSeq(QueryText(q), 1, IF QueryLen[q] > SqlSize
                                               THEN SqlSize ELSE QueryLen[q])}

=============================================================================
