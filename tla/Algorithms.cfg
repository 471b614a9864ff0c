\* int64_max stands for 2^63 - 1, DoubleBits for 53, W32 and W64 for the widths 32 and 64.
CONSTANTS
    int64_max = 2147483647
    DoubleBits = 21
    W32 = 16
    W64 = 24
SPECIFICATION Spec
INVARIANTS PathsRight HeadersRight ConversionsExact RegionsDisjoint ResponsesRight WireRoundTrip
