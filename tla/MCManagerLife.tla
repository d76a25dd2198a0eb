--------------------------- MODULE MCManagerLife ---------------------------
(* Two containers that share a parent, under each of the four managers.    *)
(* limits is FALSE when neither limits nor a path are asked for, and noPid *)
(* when Apply is given -1 for a pid.                                       *)
EXTENDS ManagerLife

Base == [flavour |-> "fs", rootless |-> FALSE, limits |-> TRUE, domainControllers |-> FALSE, setCpus |-> FALSE,
         parent |-> "none", noPid |-> FALSE]

MCEnvs ==
    {[Base EXCEPT !.setCpus = TRUE],
     [Base EXCEPT !.rootless = TRUE, !.parent = "domain"],
     [Base EXCEPT !.flavour = "sd1"],
     [Base EXCEPT !.flavour = "sd1", !.noPid = TRUE],
     [Base EXCEPT !.flavour = "fs2", !.noPid = TRUE],
     [Base EXCEPT !.flavour = "fs2", !.rootless = TRUE, !.limits = FALSE],
     [Base EXCEPT !.flavour = "fs2", !.domainControllers = TRUE],
     [Base EXCEPT !.flavour = "fs2", !.domainControllers = TRUE, !.parent = "domain threaded"],
     [Base EXCEPT !.flavour = "sd2", !.parent = "domain threaded"]}

=============================================================================
