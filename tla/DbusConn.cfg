SPECIFICATION Spec
CONSTANTS
    Procs = {p1, p2, p3}
    MaxDrops = 2
INVARIANTS NoLeakedConnection OneReconnectPerDrop RightBus
PROPERTIES HealthyNeverClosed CallsReturn
