------------------------------- MODULE GpuEvents -------------------------------
(***************************************************************************)
(* The CUDA uprobes of src/bpf/gpuevent/cuda.c and the gpu_events ring    *)
(* buffer they share (gpu_ringbuf.h), with the user-space reader.  Each    *)
(* probe runs on one CPU in two steps: the pid filter and                  *)
(* bpf_ringbuf_reserve, then the field writes and bpf_ringbuf_submit.      *)
(* The ring hands out space in reservation order; the reader takes the    *)
(* oldest record only once it is committed, and sleeps when there is none *)
(* until a submit wakes it.                                                *)
(***************************************************************************)
EXTENDS Naturals, Sequences, SequencesExt

CONSTANTS
    Cpus,       \* CPUs the probes run on
    Args,       \* argument values of a call (func_off, size, dims, kind)
    RecSize,    \* kind -> sizeof(*e) plus the ring header, in ring units
    RingCap,    \* max_entries of gpu_events (1 << 16 bytes), in ring units
    MaxCalls,   \* bound on the calls that pass the pid filter
    Stale       \* bytes left in ring memory by an earlier record

Kinds == {"launch", "malloc", "memcpy", "graph"}
ASSUME RecSize \in [Kinds -> Nat \ {0}] /\ MaxCalls \in Nat

\* k_event_kernel_launch .. k_event_graph_launch
Flag == [launch |-> 1, malloc |-> 2, memcpy |-> 3, graph |-> 4]

Calls == [kind : Kinds, arg : Args]
Ids == 1 .. MaxCalls
NoId == 0
\* A record in the ring: the call it was reserved for (a ghost), the bytes
\* the probe wrote, and whether it is still reserved (busy).
Records == [id : Ids, call : Calls, flags : {Stale} \cup {Flag[k] : k \in Kinds},
            payload : {Stale} \cup Args, busy : BOOLEAN]

VARIABLES
    slot,       \* cpu -> id of the record it reserved and is filling
    ring,       \* records not yet consumed, oldest first
    awake,      \* the reader is polling, not asleep in epoll
    nextId,     \* id of the next reservation
    consumed,   \* ghost: records the reader has taken, in order
    out         \* ghost: cpu -> how its last call ended

vars == <<slot, ring, awake, nextId, consumed, out>>

Used(r) == FoldSeq(LAMBDA e, acc : RecSize[e.call.kind] + acc, 0, r)

TypeOK ==
    /\ slot \in [Cpus -> Ids \cup {NoId}]
    /\ ring \in Seq(Records) /\ Used(ring) <= RingCap
    /\ awake \in BOOLEAN
    /\ nextId \in 1 .. MaxCalls + 1
    /\ consumed \in Seq(Records)
    /\ out \in [Cpus -> {"none", "filtered", "dropped", "submitted"}]

Init ==
    /\ slot = [c \in Cpus |-> NoId]
    /\ ring = <<>>
    /\ awake = TRUE
    /\ nextId = 1
    /\ consumed = <<>>
    /\ out = [c \in Cpus |-> "none"]

(***************************************************************************)
(* The probes.                                                             *)
(***************************************************************************)

\* bpf_ringbuf_reserve that hands out space whether or not it is free.
ReserveNoSpaceCheck(call) ==
    /\ ring' = Append(ring, [id |-> nextId, call |-> call, flags |-> Stale,
                             payload |-> Stale, busy |-> TRUE])

\* bpf_ringbuf_reserve with the record committed at once, as if
\* bpf_ringbuf_submit came before the field writes.
ReserveCommitted(call) ==
    /\ Used(ring) + RecSize[call.kind] < RingCap
    /\ ring' = Append(ring, [id |-> nextId, call |-> call, flags |-> Stale,
                             payload |-> Stale, busy |-> FALSE])

\* bpf_ringbuf_reserve(&gpu_events, sizeof(*e), 0): space after the last
\* reservation; the memory holds what an earlier record left there.  The
\* kernel fails it when new_prod_pos - cons_pos > mask (size - 1), so the
\* ring never fills to its last byte: in whole units, Used + len < RingCap.
Reserve(call) ==
    /\ Used(ring) + RecSize[call.kind] < RingCap
    /\ ring' = Append(ring, [id |-> nextId, call |-> call, flags |-> Stale,
                             payload |-> Stale, busy |-> TRUE])

\* The probe prologue: valid_pid(bpf_get_current_pid_tgid()) filters the
\* call out, a failed reservation drops it, else the CPU goes on to fill.
Probe(c, call) ==
    /\ slot[c] = NoId
    /\ \/ /\ out' = [out EXCEPT ![c] = "filtered"]
          /\ UNCHANGED <<slot, ring, nextId>>
       \/ /\ nextId <= MaxCalls
          /\ \/ /\ Used(ring) + RecSize[call.kind] >= RingCap
                /\ out' = [out EXCEPT ![c] = "dropped"]
                /\ UNCHANGED <<slot, ring, nextId>>
             \/ /\ Reserve(call)
                /\ slot' = [slot EXCEPT ![c] = nextId]
                /\ nextId' = nextId + 1
                /\ UNCHANGED out
    /\ UNCHANGED <<awake, consumed>>

ObiCudaLaunch(c, a) == Probe(c, [kind |-> "launch", arg |-> a])
ObiCudaMalloc(c, a) == Probe(c, [kind |-> "malloc", arg |-> a])
ObiCudaMemcpy(c, a) == Probe(c, [kind |-> "memcpy", arg |-> a])
ObiGraphLaunch(c) == Probe(c, [kind |-> "graph", arg |-> CHOOSE a \in Args : TRUE])

\* The field writes of each probe: flags, then task_pid and the call's
\* arguments; cudaGraphLaunch writes no argument and leaves its kind byte.
Fill(r) ==
    [r EXCEPT !.flags = Flag[r.call.kind],
              !.payload = IF r.call.kind = "graph" THEN Stale ELSE r.call.arg]

Pos(c) == CHOOSE j \in DOMAIN ring : ring[j].id = slot[c]

\* bpf_ringbuf_submit with BPF_RB_NO_WAKEUP: the reader is never woken.
SubmitNoWakeup(c) ==
    /\ slot[c] # NoId
    /\ ring' = [ring EXCEPT ![Pos(c)] = [Fill(@) EXCEPT !.busy = FALSE]]
    /\ UNCHANGED awake

\* The field writes and bpf_ringbuf_submit(e, 0): the record is committed,
\* and with flags 0 the reader is woken when this record is the oldest
\* one, the position it waits at.
Submit(c) ==
    /\ slot[c] # NoId
    /\ ring' = [ring EXCEPT ![Pos(c)] = [Fill(@) EXCEPT !.busy = FALSE]]
    /\ awake' = (awake \/ Pos(c) = 1)

Commit(c) ==
    /\ Submit(c)
    /\ slot' = [slot EXCEPT ![c] = NoId]
    /\ out' = [out EXCEPT ![c] = "submitted"]
    /\ UNCHANGED <<nextId, consumed>>

(***************************************************************************)
(* The reader in user space.                                               *)
(***************************************************************************)

\* It takes the oldest record once committed.
Consume ==
    /\ awake /\ ring # <<>> /\ ~Head(ring).busy
    /\ consumed' = Append(consumed, Head(ring))
    /\ ring' = Tail(ring)
    /\ UNCHANGED <<slot, awake, nextId, out>>

\* With nothing committed at the head it sleeps in epoll until woken.
Sleep ==
    /\ awake /\ IF ring = <<>> THEN TRUE ELSE Head(ring).busy
    /\ awake' = FALSE
    /\ UNCHANGED <<slot, ring, nextId, consumed, out>>

Next ==
    \/ \E c \in Cpus :
        \/ \E a \in Args : ObiCudaLaunch(c, a) \/ ObiCudaMalloc(c, a)
                           \/ ObiCudaMemcpy(c, a)
        \/ ObiGraphLaunch(c)
        \/ Commit(c)
    \/ Consume
    \/ Sleep

\* A program runs to completion once started, and the reader keeps
\* polling while it is awake.
Fairness == (\A c \in Cpus : WF_vars(Commit(c))) /\ WF_vars(Consume)

Spec == Init /\ [][Next]_vars /\ Fairness

(***************************************************************************)
(* Properties.                                                             *)
(***************************************************************************)

\* Every record the reader takes carries the discriminant of the probe
\* that reserved it and that call's arguments: bpf_ringbuf_submit comes
\* after the field writes, and a record is handed out only once.
DeliveredAsCalled ==
    \A j \in DOMAIN consumed :
        /\ consumed[j].flags = Flag[consumed[j].call.kind]
        /\ consumed[j].call.kind # "graph" => consumed[j].payload = consumed[j].call.arg

\* Every record reserved on gpu_events is eventually read, even when a
\* later record is committed before an earlier one: the submit of flags 0
\* wakes the reader for the record it is waiting at.
EveryRecordDelivered ==
    \A i \in Ids :
        (\E j \in DOMAIN ring : ring[j].id = i)
            ~> (\E j \in DOMAIN consumed : consumed[j].id = i)
=============================================================================
