\* ThawEvery is beyond MaxTries: no attempt to freeze thaws first, as in the
\* first 49 attempts of the code.
SPECIFICATION Spec
CONSTANTS
    Actors = {a1, a2}
    MaxTries = 2
    ThawEvery = 3
    MaxDisturb = 0
    OldKernel = FALSE
    MaxCalls = 2
    Ops = {"legacySet"}
CHECK_DEADLOCK FALSE
INVARIANT OverlapStaysFrozen
