\* Both backends, two clients whose fds 5 and 22 share bucket 5 of 17.
SPECIFICATION Spec
CONSTANTS
    c1 = c1
    c2 = c2
    Clients <- MCClients
    NumBuckets = 17
    MaxData = 2
    Chunk = 1
    FdPool = {5, 22}
    Backends = {"epoll", "kqueue"}
    Resets = TRUE
INVARIANT TypeOK
INVARIANT PendingHoldsLive
PROPERTY KqueuePeerCloseReleased
PROPERTY DataEventuallyRead
