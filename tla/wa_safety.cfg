SPECIFICATION Spec
CONSTANTS
    MaxClients = 2
    Handlers = {h1, h2}
    Loops = {l1, l2}
    NoLoop = NoLoop
    EventsCap = 1
SYMMETRY GoroutineSymmetry
CONSTRAINT EventsBound
INVARIANTS TypeOK SlotGuardsLoops DialsExclusive
PROPERTY ImplementsRetryPolicy
