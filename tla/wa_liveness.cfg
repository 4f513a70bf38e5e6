SPECIFICATION FairSpec
CONSTANTS
    MaxClients = 1
    Handlers = {h1}
    Loops = {l1, l2}
    NoLoop = NoLoop
    EventsCap = 1
PROPERTIES CancelledLoopEnds HandlersFinish
