\* Slow and vanishing browsers, fair goroutines: the feed has no gaps, broken connections are let go.
SPECIFICATION HubFairSpec
CONSTANTS
    w1 = w1  w2 = w2
    Client = {w1, w2}
    QueueSize = 1
    BufferSize = 1
    MaxMessages = 3
INVARIANTS GaplessFeed
PROPERTIES BrokenIsLetGo BroadcastPassed
