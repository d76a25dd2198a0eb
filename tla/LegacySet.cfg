SPECIFICATION Spec
CONSTANTS
    Actors = {a1}
    MaxTries = 3
    ThawEvery = 2
    MaxDisturb = 2
    OldKernel = FALSE
    MaxCalls = 2
    Ops = {"legacySet", "legacyFreeze", "fsFreeze"}
INVARIANT DisruptsOnlyFrozen
PROPERTIES SetPreservesFreezer OkMeansAsked FailedFreezeThaws CallsReturn
CHECK_DEADLOCK FALSE
