CONSTANTS
    Sources <- MCSources
    Main = "main"
    MaxDepth = 6
    Unfinished = TRUE
SPECIFICATION MCSpec
INVARIANT MalformedRefused
