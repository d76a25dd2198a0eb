SPECIFICATION Spec
CONSTANTS
    Calls = {c1, c2}
    MaxDrops = 2
INVARIANTS StartedMeansOurs OneStatusPerChannel LeftoverNeverBlocks StoppedMeansGone
PROPERTY CallsReturn
CHECK_DEADLOCK FALSE
