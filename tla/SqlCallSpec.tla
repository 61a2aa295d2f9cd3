------------------------------ MODULE SqlCallSpec ------------------------------
(***************************************************************************)
(* What the SQL client tracer promises (spec 3, InFlightRecord, and 4.4,   *)
(* SQL call): a start records an in-flight call for its execution unit,    *)
(* or is dropped under capacity pressure; the completion of the call       *)
(* consumes that record exactly once and reports it, or drops it when the  *)
(* output channel is full.  A call that never completes (a panic) leaves   *)
(* its record behind until the unit's next start replaces it.              *)
(***************************************************************************)
EXTENDS Naturals, Sequences

CONSTANTS
    Goroutines,     \* execution units
    MaxStarts       \* bound on the calls started

Ids == 1 .. MaxStarts
None == 0

VARIABLES
    inflight,   \* goroutine -> id of its in-flight record, or None
    reported,   \* <<goroutine, id>> of the completion events written, in order
    nextId      \* id the next start gets

vars == <<inflight, reported, nextId>>

TypeOK ==
    /\ inflight \in [Goroutines -> Ids \cup {None}]
    /\ reported \in Seq(Goroutines \X Ids)
    /\ nextId \in 1 .. MaxStarts + 1

Init ==
    /\ inflight = [g \in Goroutines |-> None]
    /\ reported = <<>>
    /\ nextId = 1

\* A start replaces the unit's record; with no record to replace, it may
\* be dropped for want of room.
Start(g) ==
    /\ nextId <= MaxStarts
    /\ \/ inflight' = [inflight EXCEPT ![g] = nextId]
       \/ inflight[g] = None /\ UNCHANGED inflight
    /\ nextId' = nextId + 1
    /\ UNCHANGED reported

\* The completion consumes the unit's record and reports it, or drops it.
Complete(g) ==
    /\ inflight[g] # None
    /\ inflight' = [inflight EXCEPT ![g] = None]
    /\ \/ reported' = Append(reported, <<g, inflight[g]>>)
       \/ UNCHANGED reported
    /\ UNCHANGED nextId

Next == \E g \in Goroutines : Start(g) \/ Complete(g)

Spec == Init /\ [][Next]_vars
=============================================================================
