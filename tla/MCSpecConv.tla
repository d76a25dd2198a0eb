----------------------------- MODULE MCSpecConv -----------------------------
(* Documents for SpecConv: one plain document, and variants of it along    *)
(* the three questions the conversions are asked.                          *)
EXTENDS SpecConv, FiniteSets

MCNodes == {CharDevice, BlockDevice}

Map(c, h, n) == [c |-> c, h |-> h, n |-> n]
MapA == <<Map(0, 100, 2), Map(2, 200, 2)>>
MapB == <<Map(0, 100, 4)>>

MCHost ==
    [unified |-> TRUE, selinux |-> FALSE, cat |-> TRUE, mba |-> FALSE, hasUserns |-> TRUE, hasCgroupns |-> TRUE,
     netns |-> [host |-> "host", pod |-> "other", gone |-> "error"],
     userns |-> [podA |-> [uid |-> MapA, gid |-> MapB], podB |-> [uid |-> MapB, gid |-> MapB]]]

M(dest, src, type, options) == [dest |-> dest, src |-> src, type |-> type, options |-> options, abs |-> FALSE, null |-> FALSE]
CgroupMount(options) == M("/sys/fs/cgroup", "cgroup", "cgroup", options)

NoRdt == [set |-> FALSE, closIdOk |-> TRUE, l3 |-> FALSE, mb |-> FALSE]
Base ==
    [root |-> "dir", hostname |-> FALSE, mounts |-> <<CgroupMount(<<>>)>>, annots |-> {}, uid |-> 0, label |-> FALSE,
     linux |-> TRUE, noPivot |-> FALSE, rootless |-> FALSE, systemd |-> FALSE, name |-> "c1", cgroupsPath |-> <<>>,
     propagation |-> "", namespaces |-> <<<<"mount", "">>, <<"cgroup", "">>>>, uidMap |-> <<>>, gidMap |-> <<>>,
     restricts |-> FALSE, sysctl |-> {}, rdt |-> NoRdt, devs |-> <<>>, rules |-> <<>>,
     res |-> [memory |-> Nil, swap |-> Nil, shares |-> Nil, unified |-> Nil], badSeccomp |-> FALSE]

(* Rule lists of up to two rules, and redeclared devices.                  *)
R(type, major, minor, access, allow) ==
    [type |-> type, major |-> major, minor |-> minor, access |-> access, allow |-> allow]
MCRules == {R(t, mm[1], mm[2], access, allow) :
              t \in {"", "b", "c"}, mm \in {<<Nil, Nil>>, <<1, Nil>>, <<1, 3>>, <<5, 0>>}, access \in {{"w"}, RWM}, allow \in BOOLEAN}
           \cup {R("x", 1, 3, RWM, TRUE), R("c", 1, 3, {}, TRUE)}
D(path, type) == [path |-> path, type |-> type, uid |-> Nil, gid |-> 5]
DeviceSpecs ==
    {[Base EXCEPT !.rules = rules, !.devs = devs] :
        rules \in UNION {[1..n -> MCRules] : n \in 0..2}, devs \in {<<>>, <<D("/dev/null", "c")>>}}
    \cup {[Base EXCEPT !.devs = <<D("/dev/x", type)>>, !.linux = linux] : type \in {"p", "q"}, linux \in BOOLEAN}

(* Every combination of a user namespace, mappings, mounts and process id. *)
UsernsSpecs ==
    {[Base EXCEPT !.namespaces = <<<<"mount", "">>, <<"cgroup", cg>>>> \o ns, !.uidMap = u, !.gidMap = g,
                  !.uid = uid, !.rootless = rootless, !.mounts = mounts] :
        cg \in {"", "podcg"},
        ns \in {<<>>} \cup {<<<<"user", p>>>> : p \in {"", "podA", "podB", "gone"}}, u \in {<<>>, MapA, MapB}, g \in {<<>>, MapA, MapB},
        uid \in {0, 1, 2, 4}, rootless \in BOOLEAN,
        mounts \in {<<CgroupMount(<<>>)>>, <<CgroupMount(<<<<"rbind">>>>)>>, <<CgroupMount(<<<<"ro">>>>)>>, <<CgroupMount(<<<<"ro">>, <<"rw">>, <<"uid=", 3>>>>)>>}}

(* One thing changed at a time: what each check of the code is for.        *)
Key(parts, seps) == [parts |-> parts, seps |-> seps]
Keys == {Key(<<"kernel", "sem">>, <<"/">>), Key(<<"fs", "mqueue", "q">>, <<".", ".">>), Key(<<"fs", "mqueue", "q">>, <<"/", ".">>),
         Key(<<"net", "x">>, <<".">>), Key(<<"kernel", "domainname">>, <<".">>), Key(<<"kernel", "hostname">>, <<".">>)}
A(sec, letters) == [name |-> "Timeout", letters |-> letters, parses |-> TRUE, number |-> TRUE, sec |-> sec, value |-> 3]
OddMount == M("data", "here", "ext4", <<<<"rbind">>, <<"rslave">>, <<"rro">>, <<"rrw">>, <<"rnoatime">>, <<"tmpcopyup">>, <<"defaults">>>>)
CheckSpecs ==
    {[Base EXCEPT !.root = r] : r \in {"none", "link", "missing"}}
    \cup {[Base EXCEPT !.mounts = <<OddMount>>], [Base EXCEPT !.mounts = <<[OddMount EXCEPT !.null = TRUE]>>],
          [Base EXCEPT !.mounts = <<[OddMount EXCEPT !.abs = TRUE]>>]}
    \cup {[Base EXCEPT !.hostname = TRUE, !.namespaces = ns] : ns \in {<<>>, <<<<"uts", "">>>>}}
    \cup {[Base EXCEPT !.restricts = TRUE, !.label = label, !.namespaces = ns] : label \in BOOLEAN, ns \in {<<>>, <<<<"mount", "">>>>}}
    \cup {[Base EXCEPT !.sysctl = {v}, !.namespaces = <<ns>>] :
            v \in Keys, ns \in {<<"ipc", "">>, <<"uts", "">>} \cup {<<"network", p>> : p \in {"", "host", "pod", "gone"}}}
    \cup {[Base EXCEPT !.namespaces = ns] : ns \in {<<<<"pid", "">>, <<"pid", "x">>>>, <<<<"time", "">>>>}}
    \cup {[Base EXCEPT !.noPivot = b, !.propagation = p] : b \in BOOLEAN, p \in {"rprivate", "slave", "odd"}}
    \cup {[Base EXCEPT !.systemd = TRUE, !.linux = l, !.cgroupsPath = p, !.annots = an] :
            l \in BOOLEAN, p \in {<<>>, <<"s", "p", "n">>, <<"x">>}, an \in {{}, {A(TRUE, TRUE)}, {A(FALSE, TRUE)}, {A(FALSE, FALSE)}, {[A(FALSE, TRUE) EXCEPT !.name = "Sec"]},
                {[A(FALSE, TRUE) EXCEPT !.name = "Sec"], A(FALSE, FALSE)}}}
    \cup {[Base EXCEPT !.cgroupsPath = <<"x">>], [Base EXCEPT !.badSeccomp = TRUE]}
    \cup {[Base EXCEPT !.res = [memory |-> m, swap |-> s, shares |-> c, unified |-> u]] : m \in {Nil, -1, 5}, s \in {Nil, -1, 4, 5}, c \in {Nil, 1024}, u \in {Nil, 1}}
    \cup {[Base EXCEPT !.rdt = [set |-> TRUE, closIdOk |-> id, l3 |-> l, mb |-> mb]] : id, l, mb \in BOOLEAN}

MCSpecs == DeviceSpecs \cup UsernsSpecs \cup CheckSpecs

(* For two conversions in one process.                                     *)
FewSpecs == {Base, [Base EXCEPT !.namespaces = <<<<"user", "podA">>>>]}

=============================================================================
