SPECIFICATION SvcSpec
CONSTANTS
    MaxClients = 3
    Handlers = {h1}
    Loops = {l1}
    NoLoop = NoLoop
    EventsCap = 1
    Calls = {main, k}
    Main = main
    QRs = {q1, q2}
    NoQR = NoQR
    Worlds = {{"scan", "login", "logout"}, {"disk", "login", "logout"}, {"close", "dial", "unlink", "disk", "logout"}, {"codes", "login", "logout"}, {"dial", "unlink", "scan", "codes", "login"}, {"close", "unlink", "scan", "codes", "login"}, {"close", "dial", "badpair", "codes", "login"}}
INVARIANTS SvcTypeOK ConnectingServed
PROPERTIES ImplementsWAClient 
SYMMETRY QRSymmetry
CONSTRAINT SessionsBound
CHECK_DEADLOCK FALSE
