SPECIFICATION Spec
CONSTANTS
    Bits <- MCBits
    Suites <- MCSuites
    Environments <- MCEnvironments
    DfpBitint = TRUE
    MaxRewrites = 6
INVARIANTS OperandsDominate MeaningPreserved Converges
