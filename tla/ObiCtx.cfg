\* traces_ctx_v1 with the accessors run on two CPUs.
CONSTANTS
    Cpus = {c1, c2}
    Keys = {k1, k2, k3}
    Ctxs = {x1, x2}
    Nodes = {n1, n2}
    NoCtx = NoCtx
    NoNode = NoNode
SPECIFICATION Spec
INVARIANT TypeOK
