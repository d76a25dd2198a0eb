SPECIFICATION Spec
CONSTANTS
    Containers = {"c1", "c2"}
    Envs <- MCEnvs
    Retries = 2
    Writes = 2
    MaxDestroys = 2
    Neighbours = {"c2"}
INVARIANTS JoinedEverywhere NoForgottenCgroup CleanFailure CpusetReady
