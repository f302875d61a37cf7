CONSTANTS
    Sources <- MCSources
    Main = "main"
    MaxDepth = 6
    Unfinished = FALSE
SPECIFICATION MCSpec
INVARIANTS MacrosFollowStandard LinesFollowStandard GuardedTextOnce
PROPERTIES Terminates
