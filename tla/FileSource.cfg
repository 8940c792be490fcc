\* A file present at start or created later; writers that rotate it (unlink
\* and re-create, three inodes) and writers that only append, free to act
\* between open_file_r's access() or open() and the watch that follows.
CONSTANTS
    MaxInodes = 3
    MaxSize = 3
    Chunk = 2
    MaxQueue = 2
    Unlinks = TRUE
    OpenRaces = TRUE
    MaxFiles = 1024
SPECIFICATION Spec
INVARIANT TypeOK
 
