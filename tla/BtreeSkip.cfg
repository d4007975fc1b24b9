\* Entries deleted while a cursor passes over them.
SPECIFICATION BtreeSpec
CONSTANTS
    U = 4
    TRUNK = 2
    Keys = {1, 2, 3, 4, 5, 6, 7}
    w = "w"
    Readers <- MCReaders
    Scenes <- MCScan
    SeekStale = FALSE
    WriteOverSkip = TRUE
INVARIANT NextInOrder
