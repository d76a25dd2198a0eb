SPECIFICATION Spec
CONSTANTS
    Nodes <- MCNodes
    Majors = {1}
    Minors = {3}
    Perms = {"r", "w"}
    MaxRules = 2
INVARIANTS SetReachesTarget TransientBounded
PROPERTIES KeepsCommonRules AcceptedRuleInForce
