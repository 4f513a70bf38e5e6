SPECIFICATION LoginSpec
CONSTANTS
    MaxClients = 1
    Handlers = {h1}
    Loops = {l1, l2}
    NoLoop = NoLoop
    EventsCap = 2
    Calls = {main, k}
    Main = main
    QRs = {q1, q2}
    NoQR = NoQR
    Worlds = {{"dial", "codes", "login"}, {"close", "unlink"}, {"close", "dial", "reject", "traffic"}, {"scan", "login"}}
PROPERTIES ConnectingEnds QRPendingEnds RetryEnds LoginCompletes
CHECK_DEADLOCK FALSE
