\* The four CUDA probes on two CPUs, one gpu_events ring, one reader.
CONSTANTS
    Cpus = {c1, c2}
    Args = {a1, a2}
    Stale = Stale
    RecSize <- MCRecSize
    RingCap <- MCRingCap
    MaxCalls <- MCMaxCalls
SPECIFICATION Spec
INVARIANT TypeOK
INVARIANT DeliveredAsCalled
PROPERTY EveryRecordDelivered
