SPECIFICATION MCSpec
CONSTANTS
    k1 = k1  k2 = k2  k3 = k3  k4 = k4  v1 = v1  v2 = v2
    Key <- FourKeys
    Value = {v1, v2}
    Upper <- FourUpper
    Lower <- FourLower
    OccupationPct = 80
    CollisionThreshold = 4
    TrimPct = 15
    EnsureCapacities = {0, 3}
    MaxCapacity = 8
    Buffer <- TwoBuffers
    INIT_CHUNK_CAPACITY = 2
    MAX_CHUNK_LENGTH = 4
    Token = {1, 2}
    Arriving <- FiveTokens
    MaxLength = 5
    MayFail = TRUE
INVARIANTS AlwaysRoom TreeSearchable RangesFound ChunksFit
PROPERTIES IsMap TreeIsMap TokensAreSequence
CHECK_DEADLOCK FALSE
