# TLA+ models of the OBI eBPF probes

This directory holds TLA+ models of the C/eBPF sources under `src/`. TLC checks them.
`PROJECT.json` lists:
- the components,
- the runs,
- the mutants that show each checked property can fail,
- the map from every modelling definition to its source lines,
- the findings,
- the hazards.

## The system and its parts

| Part | Source | State | Operations |
|------|--------|-------|------------|
| Go SQL client tracer | `src/bpf/gotracer/go_sql.c` | `ongoing_sql_queries` (a hash map keyed by goroutine, with preallocated element slots); the `events` ring buffer; the Go offset table | `obi_uprobe_queryDC`, `obi_uprobe_execDC` (both call `set_sql_info`); `obi_uprobe_queryReturn` (lookup, delete, reserve, fill, `extract_sql_hostname`, submit) |
| Go `netFdRead` probe | `src/bpf/gotracer/go_net.c` | reads and writes the gRPC, SQL, MongoDB and HTTP-server maps | `obi_uprobe_netFdRead`: the first map that holds the goroutine gets the socket tuple |
| DNS parser | `src/bpf/common/dns.h` | `sock_pids` (read); `events` | `handle_dns` for one socket buffer |
| Trace header utilities | `src/bpf/common/trace_util.h`, `http_buf_size.h` | none (pure) | `encode_hex`, `decode_hex`, `urand_bytes`, `is_traceparent`, `bpf_strstr_tp_loop`, `bpf_strstr_tp_loop__legacy` |
| GPU event probes | `src/bpf/gpuevent/*` | the `gpu_events` ring (64 KiB) | four uprobes, each doing reserve, fill and submit |
| Shared trace context | `src/bpf/shared/obi_ctx.h` | `traces_ctx_v1`, a pinned LRU hash of 1<<14 entries | `obi_ctx__get`, `obi_ctx__set`, `obi_ctx__del` |
| Java JNI glue | `src/pkg/internal/java/agent/src/main/c/*.c` | none | three pass-throughs to system calls |

How the parts interact:
- Probes of different goroutines or threads run concurrently on different CPUs.
- Probes of one goroutine run one after another.
- The SQL start probe records an invocation under the goroutine's key.
- `netFdRead` runs while the query is in flight and writes the socket tuple into that record. It does so only if no gRPC `operate_headers` entry for the goroutine comes first in its lookup order.
- The return probe deletes the record, builds an event from it and submits the event.
- DNS events and SQL events share the `events` ring.
- The DNS handler continues a client trace found for the caller's thread, or starts a new one.

Behaviours that make the system hard to get right:
- concurrent use of a map element after it has been deleted;
- entries left behind when a Go panic skips the return probe;
- a full map or a full ring buffer;
- packet loads that fail at the end of the packet;
- integer widths (a `u8` header length, a `u16` offset);
- byte order and bitfield layout;
- bounded loops whose limits must keep every read inside a 1024-byte buffer.

## Modules

| Module | Models | Composed with |
|--------|--------|---------------|
| `SqlCallSpec` | what the SQL tracer promises (spec 3 and 4.4): the abstract in-flight record | none |
| `GoSqlTracer` | `go_sql.c` and `go_net.c` | the other tracers' maps, as environment actions; `SqlCallSpec`, through `INSTANCE ... WITH` |
| `DnsParser` | `handle_dns` in `dns.h`; `urand_bytes` | none |
| `TraceUtil` | the hex codec and both traceparent searches | none |
| `ObiCtx` | `traces_ctx_v1` and its accessors in `obi_ctx.h` | none |
| `GpuEvents` | the four probes of `cuda.c` and the `gpu_events` ring, with its reader | none |
| `MC_*` | the TLC constants and symmetry sets of the module of the same name | none |

### GoSqlTracer

Variables and what they stand for:
- `table` is `ongoing_sql_queries`. It maps a goroutine to a slot of `elem`, the preallocated element memory.
- `freeList` and `grace` hold the slots the kernel may hand out, and the deleted slots still inside an RCU grace period.
- `held[g]` is the slot whose pointer the return probe keeps after its delete.
- `events` is the ring buffer, with `RingCap` records.
- `grpcConn`, `mongoConn` and `serverConn` are the other tracers' entries.
- `lastStart`, `readsDuring`, `serverReads` and `emitted` are ghost variables used by the properties. `emitted` lists the `<<goroutine, id>>` of every event submitted.

Actions:
- `QueryDC` and `ExecDC` are `set_sql_info`. The update uses `BPF_ANY`: it overwrites the goroutine's element, takes a free slot, or fails with E2BIG (only logged). The kernel replaces an existing key's element by swapping in a spare per-CPU element (`extra_elems`). The model overwrites the element in place instead. No property depends on the difference: a return probe holds its element only after deleting the key, and an update of a deleted key takes a fresh slot.
- `NetFdRead` is the whole probe, with its five branches in source order.
- The return probe is split at the one point where another CPU can interfere:
  - `QueryReturnLookup` does the lookup and the delete;
  - `QueryReturnEmit` does the reserve, reads the element, does hostname extraction and submits.
- `FreeElement` and `ReleaseElement` are the kernel's free of a deleted element. The constant `ImmediateReuse` chooses between immediate reuse and reuse after the deleting program ends.
- `QueryPanics` is a panic that skips the return probe.
- `OtherProbeEnter` and `OtherProbeLeave` are the other tracers creating and deleting their entries.
- `Consume` is the user-space reader.

The query text is copied byte by byte into a `SqlSize`-byte `trace->sql`:
- byte `i` of query `q` is `<<q, i>>`, and the text is `QueryLen[q]` bytes long;
- `SqlText` clamps `query_len` to the buffer and copies that many bytes;
- a faulting `bpf_probe_read` leaves zeros, because the kernel zeroes the destination on a fault;
- the NUL is written only when the text is shorter than the buffer;
- the remaining bytes keep what the reserved ring memory held (`StaleByte`).

`SqlCallSpec` is the abstract tracer:
- `inflight[g]` is the id of goroutine `g`'s in-flight record;
- `reported` is the sequence of completion events;
- `Start(g)` replaces the record, or is dropped when there is none to replace;
- `Complete(g)` consumes the record and reports it, or drops it when the ring is full;
- a panic is a stutter, so the record stays behind.

The refinement mapping `SqlInflight` reads a goroutine's record from the element its return probe holds, else from the element linked under its key. `Call == INSTANCE SqlCallSpec WITH inflight <- SqlInflight, reported <- emitted`, and `SqlTracerRefinesSpec == Call!Spec` is checked by TLC.

Hostname extraction keeps every check of `get_mysql_conn_ptr` and `read_mysql_hostname_from_mysqlconn`:
- the offset-table results, through the constant `Resolved`;
- the interface type tag;
- the reads that may fail, each as a nondeterministic choice.

### DnsParser

- The state is the last packet handled (`pkt`), the return value (`ret`) and the event submitted (`out`).
- `HandleDns(p)` is one call of the handler on a packet drawn from `Packets`. `Finish` ends the call.
- Offsets keep their C widths:
  - `tcp_header_len` is `u8`, modelled as `% 2^8`;
  - `dns_off` is `u16`, modelled as `% 2^16`.
- A load fails when the bytes lie past the end of the packet.
- The flags load is unchecked. When it fails, `bpf_skb_load_bytes` has zeroed the `u16`, so `qr` is 0 and the packet is still taken as a query.
- The id is stored into the record as loaded, without `bpf_ntohs`, so on a little-endian build the record's `u16` is the byte swap of the wire id. When the id load fails, the initial 0 stays.
- The bitfield layout depends on the constant `Endian`.
- `find_trace_for_client_request_with_t_key` and `init_new_trace` are not under `src/`. They are modelled from the spec and are marked `spec_modelled` in the map.

### TraceUtil

- The codec is written as RECURSIVE operators. The lookup table `reverse_hex` is written as ranges.
- The searches are recursive operators that follow the `bpf_loop` callback. They return the offset found and the last byte compared.
- The buffer is scaled down:
  - `BufSize` 6 stands for 1024;
  - `HeaderLen` 3 stands for 68;
  - the 13-byte marker becomes 2 positions, the two case-insensitive ones;
  - `LegacyLoops` 2 stands for 350.
- Each action is one call with an input from a small set. `FirstMatch` is the reference search the spec describes.

### ObiCtx

`ObiCtx` models the map as the kernel builds a preallocated LRU hash:
- `hash` maps a key to the node linked under it; `node` is the node memory; `free` is the free nodes.
- `ObiCtxSet` is `obi_ctx__set` with `bpf_map_update_elem`. It pops a node, either a free one or one it evicts (unlinking that node's key). It copies the value into the node, links the node under the key, and frees the key's old node at once. Eviction may happen while free nodes exist, because the kernel's per-CPU free lists make that the kernel's choice.
- `ObiCtxDel` is `obi_ctx__del`: it unlinks the key's node and frees it; a missing key changes nothing.
- `ObiCtxGet` is `obi_ctx__get` plus the caller's first read through the pointer (`trace_id`). `CopySpan` is the second read (`span_id`). The callers are outside `src/`, so `CopySpan` is spec-modelled.

No refinement of an abstract cache is checked. Gets and span copies change no map state, and sets and deletes are atomic kernel operations, so such a refinement would follow from `ObiCtxSet`'s definition. Which keys an eviction removes is the kernel's choice, and `obi_ctx.h` has no code that could change it. The one hazard the code itself creates is the pointer `obi_ctx__get` returns, which `obictx_torn` checks.

### GpuEvents

- `Probe(c, call)` is the shared prologue of the four probes. The `valid_pid` filter is an input. A reservation that does not fit in the ring drops the call; otherwise `Reserve` appends a busy record that holds stale bytes.
- `Commit(c)` writes the fields (`Fill`) and calls `bpf_ringbuf_submit(e, 0)` (`Submit`). With flags 0 the kernel wakes the reader only when the committed record is the one the reader waits at (the oldest).
- `Consume` takes the oldest record once it is committed. `Sleep` puts the reader to sleep when no committed record is at the head.
- Record sizes are the structs of `cuda.h` plus the ring header, in 8-byte units. The ring is scaled down to 8 units.
- `Reserve` fails unless `Used + len < RingCap`. The kernel refuses a reservation when `new_prod_pos - cons_pos > mask`, and `mask` is the size minus one, so the ring never fills to its last byte.

## Runs

Passing runs:

| Run | Properties | What it shows | Bounds |
|-----|------------|---------------|--------|
| `sql_pass` | `TypeOK`, `HostnameSound`, `SqlTextTruncated`, `EmitReflectsOwnInvocation`, `SqlTracerRefinesSpec` | With RCU-deferred reuse, the tracer implements `SqlCallSpec`: each record is consumed and reported at most once, and an entry outlives its call only after a panic. Interleaved starts, reads, panics and return probes of two goroutines only emit each goroutine's own latest query, with a tuple read while no gRPC entry was pending (the tie-break of spec 4.4). A non-empty hostname is that query's MySQL `Config.Addr`. The text the consumer reads is the query cut to the buffer, or empty. | 2 goroutines (symmetric), 1 slot, ring of 1, 2 starts, 1 socket, a MySQL, a non-MySQL and a NULL driverConn, a 2-byte `sql` buffer with a 1-byte and a 3-byte query; about 850k states in 40 s |
| `dns_pass` | `TypeOK`, `DnsIdAsOnWire` | The event keeps the DNS id in wire byte order, or 0 when the packet does not hold it. | ip_len 20 and 40; doff 5, 7 and 15; lengths from l4 to l4+80, so every TCP boundary and failed load happens; three flag words; about 35k states |
| `obictx_pass` | `TypeOK` | Sets, deletes, gets and evictions on two CPUs keep the map, its free list and the callers' copies well formed, and every accessor fires. | 2 CPUs, 3 keys, 2 contexts, 2 nodes; a few seconds |
| `gpu_pass` | `TypeOK`, `DeliveredAsCalled`, `EveryRecordDelivered` | Every record the reader takes has its own probe's discriminant and arguments. Every reserved record is eventually read, also when a later record commits first. | 2 CPUs, 2 argument values, 3 records that pass the filter, a ring of 8 units; about 47k states in 6 s |
| `traceutil_pass` | `TypeOK`, `HexRoundTrip`, `HexDecodeCanonical`, `ScanBounded` | The hex codec round-trips and decodes both cases. Both searches read inside the buffer. | byte strings up to 3 bytes over the nibble-boundary values; hex texts up to 3 characters with non-hex characters; every 6-byte buffer over a 3-letter alphabet; every buf_len; about 21k states |

Violation runs. Each is a finding; see `PROJECT.json`.

| Run | Property | What the code does |
|-----|----------|--------------------|
| `sql_reuse` | `EmitReflectsOwnInvocation` | With immediate reuse, goroutine 2's start takes the slot goroutine 1 has just deleted, and goroutine 1 emits goroutine 2's invocation. |
| `sql_offsets` | `HostnameSound` | An unresolved `mysqlConn.cfg` offset is used as 0, and a wrong field is reported as the hostname. |
| `sql_stale` | `ServerConnFilled` | After a panic, the stale SQL entry takes the tuple meant for the HTTP server connection. |
| `dns_qr` | `DnsQrMatchesWire` | On little-endian builds, `qr` is bit 0 of the host-order flags, so a NOERROR response (0x8180) is reported as a query. |
| `dns_short_segment` | `DnsHeaderInsidePacket` | A TCP segment 1 or 2 bytes past its header yields an event. The spec rejects it. |
| `obictx_torn` | `ReadNotTorn` | A caller copying out of the node `obi_ctx__get` returned reads the trace id of one context and, after another CPU's set reuses the node, the span id of another. |
| `traceparent_first` | `ScanFindsFirstMatch` | A marker at offset 0 is missed because of the `pos == 0` sentinel. A marker running past `buf_len` is found. |

Why the bounds are enough:
- One element slot and two goroutines are the smallest setting in which a freed slot can be taken by another goroutine. Two starts let one goroutine start twice, so the panic-then-restart case is reached.
- The DNS lengths cover each side of `l4+20` (the TCP header load), `l4+doff*4` (the control-segment test) and `dns_off+4` (the flags load).
- Two nodes and three keys let the map fill, so a set must evict a live key, and let a node pass from one key's context to another's. Two CPUs let one copy while the other updates.
- A 2-byte `sql` buffer with a 1-byte query and a 3-byte query reaches both sides of the NUL test: a NUL right after the text, and a clamped, full buffer with no NUL. A faulting read is reached for both queries.
- A ring of 8 units, of which 7 can be in use, holds a graph record beside a malloc or memcpy record, but a kernel-launch record only alone. So a later record can commit before an earlier one, and a reservation can fail while the reader is idle.
- A 6-byte buffer with a header length of 3 makes the `tp_match` bound (index 3), `buf_len` and the end of the buffer all cut the search at different points.

## Fairness

Only `GpuEvents` states fairness:
- `WF_vars(Commit(c))` for each CPU. An eBPF program runs to completion once started, and the verifier rejects a program that can leave a reservation unreleased.
- `WF_vars(Consume)`. The reader keeps reading while it is awake.

No fairness is given to `Sleep`, nor to the probes' arrivals. The reader is assumed to wait in epoll without a timeout, so `EveryRecordDelivered` shows that the wakeup protocol alone gets each record to it.

Every other run checks safety only.

## Not modelled, and the plan

Not modelled:
- The JNI glue (`io_opentelemetry_obi_java_jni.c`). It is three stateless pass-throughs to `GetDirectBufferAddress`, `ioctl` and `gettid`, with no state, guard or control flow to model.
- `read_go_str`, `get_conn_info_from_fd`, `valid_pid`, `task_pid` and the ring buffer internals. They are outside `src/`, so they appear only through their outcomes: success, or failure that leaves the destination unchanged (zeroed, for `bpf_probe_read`).
- The SQL event's `status`, timestamps and trace parent. They are copied without any guard, and no property tells their values apart.
- Which key the LRU evicts. The spec says the least recently used; the kernel's per-CPU lists do not guarantee it, so the model leaves the victim nondeterministic.
- The `(u32)` splitting of the packed `dim3` arguments of `cudaLaunchKernel`. The arguments are one abstract value per call.

Liveness of the SQL tracer is not stated. Every way a query can go unreported is allowed by spec 3: a start dropped when the map is full, a completion dropped when the ring is full, or a panic that skips the return probe. So "every query is eventually reported" does not hold by design. The liveness that does hold ("a return probe that has started finishes") would only restate weak fairness. `SqlTracerRefinesSpec` covers the safety half instead: records are consumed exactly once, and entries outlive their calls only after a panic.

Left open:
- The unwritten `kind` byte of the graph-launch record (`cuda.c:139`) goes against spec 3 ("fully populated or explicitly marked"). Every run is in use, and each violation run stands for a finding of its own, so no run checks it. The model keeps the stale byte (`Fill`).
- Three CPUs in `GpuEvents` take about a minute without reaching a case two CPUs miss. The wakeup only depends on whether the committed record is at the head.
