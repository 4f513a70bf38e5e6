SPECIFICATION FairDaemonSpec
CONSTANTS
    Daemons = {d1, d2, d3}
    Nobody = Nobody
    Columns = {"media", "sender", "receipt"}
    FirstColumns = {"media"}
    MaxFaults = 2
INVARIANTS DaemonTypeOK OneConnection
PROPERTIES ImplementsSingleDaemon ServiceComesUp
