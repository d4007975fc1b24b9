\* Small trees of three kinds, with a cursor that writes and one that reads.
SPECIFICATION BtreeSpec
CONSTANTS
    U = 4
    TRUNK = 2
    Keys = {1, 2, 3, 4, 5, 6, 7}
    w = "w"
    Readers <- MCReaders
    Scenes <- MCScenes
    SeekStale = FALSE
    WriteOverSkip = FALSE
INVARIANTS BtreeTypeOK SearchTree PagesPartition PagesFit
PROPERTIES  CallsReturn
