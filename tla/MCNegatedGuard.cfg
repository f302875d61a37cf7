SPECIFICATION Spec
CONSTANTS
    Bits <- MCBits
    Suites <- DeviatingSuites
    Environments <- MCEnvironments
    DfpBitint = TRUE
    MaxRewrites = 6
INVARIANT MeaningPreserved
