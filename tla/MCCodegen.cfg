SPECIFICATION MCSpec
CONSTANTS
    Bits <- MCBits
    Suites <- MCSuites
INVARIANTS IntegersRight WideRight LongDoubleOperands LongDoublesKept
CHECK_DEADLOCK FALSE
