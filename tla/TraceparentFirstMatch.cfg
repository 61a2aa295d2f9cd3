CONSTANTS
    MaxBytes = 2
    ByteVals <- MCByteVals
    HexInputs <- MCHexInputs
    Alphabet <- MCAlphabet
    Marker <- MCMarker
    BufSize = 6
    HeaderLen = 3
    LegacyLoops = 2
SPECIFICATION Spec
INVARIANT ScanFindsFirstMatch
