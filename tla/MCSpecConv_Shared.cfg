SPECIFICATION Spec
CONSTANTS
    Nodes <- MCNodes
    Majors = {1, 5, 10, 136}
    Minors = {0, 2, 3, 5, 7, 8, 9, 200}
    Perms = {"r", "w", "m"}
    Calls = {1, 2}
    Specs <- FewSpecs
    Host <- MCHost
INVARIANT DefaultNodesOwnedByRoot
