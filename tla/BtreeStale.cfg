\* A row appended through a cursor that had the last key cached.
SPECIFICATION BtreeSpec
CONSTANTS
    U = 4
    TRUNK = 2
    Keys = {1, 2, 3, 4, 5, 6, 7}
    w = "w"
    Readers <- MCReaders
    Scenes <- MCAppend
    SeekStale = TRUE
    WriteOverSkip = FALSE
INVARIANT SearchTree
