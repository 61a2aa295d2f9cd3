\* A little-endian (bpfel) build, the targets the tracer ships for.
CONSTANTS
    Endian = "LE"
    IpLens <- MCIpLens
    Doffs <- MCDoffs
    MaxExtra <- MCMaxExtra
    WireFlags <- MCWireFlags
    Parent <- MCParent
SPECIFICATION Spec
INVARIANT DnsQrMatchesWire
