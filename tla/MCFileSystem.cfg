SPECIFICATION FsSpec
CONSTANTS
    NULL = NULL
    a = a
    b = b
    c = c
    x = x
    y = y
    NumSectors = 10
    SectorSize = 3
    BitsInByte = 5
    NumDirEntries = 2
    Names = {a, b, c}
    Sizes = {0, 1, 5}
    Values = {x, y}
    Lengths = {2, 4}
    TransferSize = 2
    UnixFiles <- MCUnixFiles
    FileName = c
    Contents <- MCContents
    Chunks = 2
SYMMETRY Symmetry
VIEW View
INVARIANTS ClientsServed BitmapExact StopHarmsOneFile
CHECK_DEADLOCK FALSE
