\* Two callers and the keep-alive share the sessions of two hosts; anything may fail, the pool is closed.
SPECIFICATION FairSpec
CONSTANTS
    h1 = h1  h2 = h2  c1 = c1  c2 = c2  c3 = c3
    keepAlive = keepAlive  mainGo = mainGo  nobody = nobody
    Host = {h1, h2}
    Caller = {c1, c2}
    KeepAlive = keepAlive
    Main = mainGo
    Nobody = nobody
    MaxSessions = 2
    MaxCalls = 3
INVARIANTS TypeOK OneUserPerSession RightDevice NoSessionForgotten
PROPERTIES CallsReturn
