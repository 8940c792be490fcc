\* Two sources in one directory, each present or missing at start, each
\* writer appending; either or both may rotate their files: up to three
\* inodes in all.  Writers may act inside open_file_r.
CONSTANTS
    A = A
    B = B
    MaxInodes = 3
    MaxSize = 1
    Chunk = 1
    OpenRaces = TRUE
    MaxRotating = 2
\* The daemon waits in kevent for ever once the writers are done.
CHECK_DEADLOCK FALSE
SPECIFICATION LiveSpec
INVARIANT TypeOK
PROPERTY WaitedFileOpened
