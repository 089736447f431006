SPECIFICATION MCSpec
CONSTANTS
    Controls <- Ctl
    Values = {0, 1, 2, 3}
    Lo <- Low
    Hi <- High
    NBUF = 2
    Period = 2
    Frames = {0, 1}
    Settings <- AllSettings
CHECK_DEADLOCK FALSE
INVARIANTS CoeffsCurrent ReaderSeesWhole
PROPERTIES Publishes
