CONSTANTS
    MaxBytes = 3
    ByteVals <- MCByteVals
    HexInputs <- MCHexInputs
    Alphabet <- MCAlphabet
    Marker <- MCMarker
    BufSize = 6
    HeaderLen = 3
    LegacyLoops = 2
SPECIFICATION Spec
INVARIANT TypeOK
INVARIANT HexRoundTrip
INVARIANT HexDecodeCanonical
INVARIANT ScanBounded
