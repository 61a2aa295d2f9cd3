-------------------------------- MODULE ObiCtx --------------------------------
(***************************************************************************)
(* traces_ctx_v1 of src/bpf/shared/obi_ctx.h and its three accessors, run *)
(* by concurrent CPUs.  The map is a preallocated BPF LRU hash: a key is   *)
(* linked to one of the element nodes; bpf_map_update_elem pops a node     *)
(* (a free one, or one it evicts: the per-CPU free lists make the choice   *)
(* the kernel's), copies the value into it, links it and pushes the old   *)
(* node of the key back to the free list at once.  obi_ctx__get returns a *)
(* pointer to the linked node; its caller then copies trace_id and        *)
(* span_id out of it, two reads another CPU's steps can fall between.     *)
(***************************************************************************)
EXTENDS FiniteSets

CONSTANTS
    Cpus,       \* CPUs running programs that use the cache
    Keys,       \* pid_tgid values
    Ctxs,       \* tp_info_t contexts; a context has one trace and one span id
    Nodes,      \* the preallocated elements (max_entries)
    NoCtx,      \* an all-zero obi_ctx_info_t
    NoNode      \* no element

VARIABLES
    hash,       \* key -> linked node
    node,       \* node -> its obi_ctx_info_t: [trace, span]
    free,       \* nodes an update may pop without evicting
    rd          \* cpu -> the caller of obi_ctx__get: pc, node, bytes read

vars == <<hash, node, free, rd>>

Info == [trace : Ctxs \cup {NoCtx}, span : Ctxs \cup {NoCtx}]
Reads == [pc : {"idle", "copying", "done"}, node : Nodes \cup {NoNode},
          trace : Ctxs \cup {NoCtx}, span : Ctxs \cup {NoCtx}]
Linked == {hash[k] : k \in {j \in Keys : hash[j] # NoNode}}

TypeOK ==
    /\ hash \in [Keys -> Nodes \cup {NoNode}]
    /\ node \in [Nodes -> Info]
    /\ free \subseteq Nodes
    /\ rd \in [Cpus -> Reads]

Init ==
    /\ hash = [k \in Keys |-> NoNode]
    /\ node = [n \in Nodes |-> [trace |-> NoCtx, span |-> NoCtx]]
    /\ free = Nodes
    /\ rd = [c \in Cpus |-> [pc |-> "idle", node |-> NoNode,
                             trace |-> NoCtx, span |-> NoCtx]]

(***************************************************************************)
(* The accessors.                                                          *)
(***************************************************************************)

\* obi_ctx__set(pid_tgid, info): obi_info is filled on the stack and
\* bpf_map_update_elem(BPF_ANY) pops a node (free, or evicted: its key is
\* unlinked), copies obi_info into it, links it under k and frees the node
\* k had.
ObiCtxSet(k, v) ==
    \E n \in Nodes :
        LET victims == IF n \in free THEN {} ELSE {j \in Keys : hash[j] = n}
            unlinked == [j \in Keys |-> IF j \in victims THEN NoNode ELSE hash[j]]
            old == unlinked[k]
        IN  /\ hash' = [unlinked EXCEPT ![k] = n]
            /\ node' = [node EXCEPT ![n] = [trace |-> v, span |-> v]]
            /\ free' = (free \ {n}) \cup (IF old = NoNode THEN {} ELSE {old})

\* obi_ctx__del without the check that the key is in the map.
ObiCtxDelUnchecked(k) ==
    /\ hash' = [hash EXCEPT ![k] = NoNode]
    /\ free' = free \cup {hash[k]}
    /\ UNCHANGED node

\* obi_ctx__del(pid_tgid): bpf_map_delete_elem unlinks the key's node and
\* frees it; a missing key is -ENOENT and changes nothing.
ObiCtxDel(k) ==
    /\ hash[k] # NoNode
    /\ hash' = [hash EXCEPT ![k] = NoNode]
    /\ free' = free \cup {hash[k]}
    /\ UNCHANGED node

\* obi_ctx__get(pid_tgid) and the caller's copy of trace_id: NULL when the
\* key is not linked, else the node's address, read from at once.
ObiCtxGet(c, k) ==
    /\ rd[c].pc # "copying"
    /\ rd' = [rd EXCEPT ![c] =
                IF hash[k] = NoNode
                THEN [pc |-> "done", node |-> NoNode, trace |-> NoCtx, span |-> NoCtx]
                ELSE [pc |-> "copying", node |-> hash[k],
                      trace |-> node[hash[k]].trace, span |-> NoCtx]]
    /\ UNCHANGED <<hash, node, free>>

\* The caller's copy of span_id through the same pointer.
CopySpan(c) ==
    /\ rd[c].pc = "copying"
    /\ rd' = [rd EXCEPT ![c].pc = "done", ![c].span = node[rd[c].node].span]
    /\ UNCHANGED <<hash, node, free>>

\* A program calls one accessor at a time: a CPU copying out of a node
\* finishes that before it sets or deletes.
Idle(c) == rd[c].pc # "copying"

Next ==
    \E c \in Cpus :
        \/ Idle(c) /\ \E k \in Keys, v \in Ctxs : ObiCtxSet(k, v) /\ UNCHANGED rd
        \/ Idle(c) /\ \E k \in Keys : ObiCtxDel(k) /\ UNCHANGED rd
        \/ \E k \in Keys : ObiCtxGet(c, k)
        \/ CopySpan(c)

Spec == Init /\ [][Next]_vars

(***************************************************************************)
(* Properties.                                                             *)
(***************************************************************************)

\* A completed obi_ctx__get copy is never torn: trace_id and span_id come
\* from the same context (spec 5: a lookup racing an eviction returns
\* absent, never a torn or partial value).
ReadNotTorn ==
    \A c \in Cpus :
        rd[c].pc = "done" /\ rd[c].node # NoNode => rd[c].trace = rd[c].span
=============================================================================
