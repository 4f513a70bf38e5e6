SPECIFICATION SvcSpec
CONSTANTS
    MaxClients = 1
    Handlers = {h1}
    Loops = {l1}
    NoLoop = NoLoop
    EventsCap = 1
    Calls = {main}
    Main = main
    QRs = {q1}
    NoQR = NoQR
    Worlds = {{"badpair", "login"}}
INVARIANT QRPendingIsLive
CHECK_DEADLOCK FALSE
