---------------------------- MODULE MCUnifiedSet ----------------------------
(* Two managers of one cgroup, a character device with two minor numbers   *)
(* and requests that between them use every setting and every error.       *)
EXTENDS UnifiedSet

MCNodes == {CharDevice}

Allow(minor, perms) == [type |-> CharDevice, major |-> 5, minor |-> minor, perms |-> perms, allow |-> TRUE]
Deny(minor, perms) == [type |-> CharDevice, major |-> 5, minor |-> minor, perms |-> perms, allow |-> FALSE]
AnyMajor(perms) == [type |-> CharDevice, major |-> Wildcard, minor |-> 0, perms |-> perms, allow |-> TRUE]
All(allow) == [type |-> WildcardDevice, major |-> Wildcard, minor |-> Wildcard, perms |-> Perms, allow |-> allow]
Fifo == [type |-> FifoDevice, major |-> 5, minor |-> 0, perms |-> Perms, allow |-> TRUE]

Key(f, v) == [slash |-> FALSE, f |-> f, v |-> v]
Slash == [slash |-> TRUE, f |-> "memory.min", v |-> 5]

MCFiles == KnownFiles \cup {"memory.min", "misc.max"}

MCRequests ==
    {[NoLimits EXCEPT !.rules = <<Allow(0, {"r"}), AnyMajor({"w"})>>, !.memory = 100, !.swap = 100],
     [NoLimits EXCEPT !.rules = <<All(TRUE), Deny(1, {"w"})>>, !.freezer = "FROZEN", !.pids = -1, !.quota = 1500],
     [NoLimits EXCEPT !.rules = <<Allow(Wildcard, Perms)>>, !.memory = 100, !.swap = 300, !.quota = 700,
                      !.period = 1000, !.pids = 10, !.unified = {Key("pids.max", 20)}],
     [NoLimits EXCEPT !.skipDevices = TRUE, !.weight = 10, !.rdma = 5, !.cpus = {<<0, 1>>, <<3, 3>>},
                      !.hugetlb = <<[size |-> "2MB", limit |-> 4], [size |-> "1GB", limit |-> 8]>>,
                      !.unified = {Key("cpu.max", <<Infinity, 1000>>)}],
     [NoLimits EXCEPT !.rules = <<All(TRUE)>>, !.wiops = 4, !.freezer = "THAWED",
                      !.unified = {Key("cpuset.cpus", 2), Key("misc.max", 1)}],
     [NoLimits EXCEPT !.rules = <<Fifo>>],
     [NoLimits EXCEPT !.rules = <<Allow(1, {"r"})>>, !.swap = 300],
     [NoLimits EXCEPT !.rules = <<Allow(1, {"r"})>>, !.weightDevice = 20, !.mems = {<<3, 1>>}, !.unified = {Slash}]}

Plain == [configured |-> TRUE, systemd |-> FALSE, rootless |-> FALSE, noPath |-> FALSE, userns |-> FALSE, haveReplace |-> TRUE,
          hidden |-> FALSE, sdVer |-> 245, groups |-> {5}, nodes |-> {}, bfq |-> "none", rsvd |-> TRUE]

MCEnvs ==
    {[Plain EXCEPT !.configured = FALSE, !.haveReplace = FALSE, !.rootless = TRUE, !.noPath = TRUE, !.bfq = "device", !.rsvd = FALSE],
     [Plain EXCEPT !.systemd = TRUE, !.bfq = "plain"],
     [Plain EXCEPT !.systemd = TRUE, !.hidden = TRUE, !.groups = {}, !.sdVer = 239]}

=============================================================================
