SPECIFICATION SeccompSpec
CONSTANTS
    Profiles <- MCProfiles
    Natives = {"amd64", "s390x"}
    Names <- MCNames
    No <- MCNo
    X32Bit = 8
    MaxSkip = 7
    SysNos = {0, 1, 2, 3, 4, 5, 6, 7, 8, 9, 10, 11}
INVARIANT StubMeansUnknown
INVARIANT WriteNeverNotifies
INVARIANT NotifyHasListener
