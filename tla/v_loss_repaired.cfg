SPECIFICATION FairSvcSpec
CONSTANTS
    MaxClients = 1
    Handlers = {h1}
    Loops = {l1, l2}
    NoLoop = NoLoop
    EventsCap = 1
    Calls = {main}
    Main = main
    QRs = {q1}
    NoQR = NoQR
    Worlds = {{"close"}}
PROPERTY LossIsRepaired
CHECK_DEADLOCK FALSE
