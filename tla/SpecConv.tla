------------------------------ MODULE SpecConv ------------------------------
(***************************************************************************)
(* CreateLibcontainerConfig (specconv/spec_linux.go) followed by Validate  *)
(* (configs/validate): several conversions in one process, each the        *)
(* sequence of calls the function makes.  They share AllowedDevices, a     *)
(* package variable that holds pointers: a configuration's default device  *)
(* nodes are the very objects of the table.                                *)
(*                                                                         *)
(* Fields that are only copied are left out, except the resources, which   *)
(* are copied as one record.  The host is a constant record.               *)
(***************************************************************************)
EXTENDS DeviceFilter, Conversions

CONSTANTS Calls,  \* the calls of CreateLibcontainerConfig
          Specs,        \* the documents and options they are given
          Host          \* external: what the conversions find on the host

VARIABLES pc, spec, config,
          allowed       \* AllowedDevices, as it is now

vars == <<pc, spec, config, allowed>>

Nil == -2               \* a nil pointer to a number
RWM == {"r", "w", "m"}

(* configs.IDMap; a device of the document, whose owner may be left out;   *)
(* and specs.LinuxDeviceCgroup, in which 'a' may be left out and -1 is a   *)
(* wildcard as nil is.                                                     *)
IDMap == [c : Nat, h : Nat, n : Nat]
LinuxDevice == [path : STRING, type : STRING, uid : Nat \cup {Nil}, gid : Nat \cup {Nil}]
DeviceCgroup == [type : STRING, major : Majors \cup {Nil, Wildcard}, minor : Minors \cup {Nil, Wildcard},
                 access : SUBSET Perms, allow : BOOLEAN]

(* The devices considered include the default ones.                        *)
ASSUME SpecAssumption ==
    /\ {CharDevice, BlockDevice} \subseteq Nodes /\ RWM \subseteq Perms
    /\ {1, 5, 10, 136} \subseteq Majors /\ {0, 2, 3, 5, 7, 8, 9, 200} \subseteq Minors
    /\ \A s \in Specs :
          /\ s.linux \in BOOLEAN /\ s.uid \in Nat
          /\ s.uidMap \in Seq(IDMap) /\ s.gidMap \in Seq(IDMap)
          /\ s.rules \in Seq(DeviceCgroup) /\ s.devs \in Seq(LinuxDevice)
    /\ \A path \in DOMAIN Host.userns : Host.userns[path].uid \in Seq(IDMap)

Rng(s) == {s[i] : i \in DOMAIN s}

(* The elements of a sequence that are kept, in their order.               *)
Kept(seq, keep) ==
    LET upTo[i \in 0..Len(seq)] ==
            IF i = 0 THEN <<>>
            ELSE IF seq[i] \in keep THEN Append(upTo[i - 1], seq[i]) ELSE upTo[i - 1]
    IN  upTo[Len(seq)]

-----------------------------------------------------------------------------
(* The tables.                                                             *)

NewRule(type, major, minor, perms, allow) ==
    [type |-> type, major |-> major, minor |-> minor, perms |-> perms, allow |-> allow]

Default(path, type, major, minor, perms) ==
    [path |-> path, uid |-> 0, gid |-> 0, rule |-> NewRule(type, major, minor, perms, TRUE)]

(* AllowedDevices as the package initialises it.                           *)
AllowedDevices ==
    <<Default("", CharDevice, Wildcard, Wildcard, {"m"}),
      Default("", BlockDevice, Wildcard, Wildcard, {"m"}),
      Default("/dev/null", CharDevice, 1, 3, RWM),
      Default("/dev/random", CharDevice, 1, 8, RWM),
      Default("/dev/full", CharDevice, 1, 7, RWM),
      Default("/dev/tty", CharDevice, 5, 0, RWM),
      Default("/dev/zero", CharDevice, 1, 5, RWM),
      Default("/dev/urandom", CharDevice, 1, 9, RWM),
      Default("", CharDevice, 136, Wildcard, RWM),
      Default("", CharDevice, 5, 2, RWM),
      Default("", CharDevice, 10, 200, RWM)>>

KnownNamespaces == {"pid", "network", "mount", "user", "ipc", "uts", "cgroup"}

Propagations == {"rprivate", "private", "rslave", "slave", "rshared", "shared", "runbindable", "unbindable"}

(* mountFlags: an option that sets a flag has the flag's name here.  The   *)
(* option "defaults" has no flag and is handed on as data.                 *)
SetFlags ==
    {"acl", "bind", "dirsync", "iversion", "lazytime", "mand", "noatime", "nodev", "nodiratime",
     "noexec", "nosuid", "nosymfollow", "relatime", "remount", "ro", "silent", "strictatime", "sync"}
ClearFlags ==
    [async |-> "sync", atime |-> "noatime", dev |-> "nodev", diratime |-> "nodiratime", exec |-> "noexec",
     loud |-> "silent", noacl |-> "acl", noiversion |-> "iversion", nolazytime |-> "lazytime",
     nomand |-> "mand", norelatime |-> "relatime", nostrictatime |-> "strictatime", rw |-> "ro",
     suid |-> "nosuid", symfollow |-> "nosymfollow"]

(* recAttrFlags.  MOUNT_ATTR_RELATIME is 0: it has no bit of its own.      *)
RecSet ==
    [rro |-> {"ro"}, rnosuid |-> {"nosuid"}, rnodev |-> {"nodev"}, rnoexec |-> {"noexec"},
     rnodiratime |-> {"nodiratime"}, rrelatime |-> {}, rnoatime |-> {"noatime"},
     rstrictatime |-> {"strictatime"}, rnosymfollow |-> {"nosymfollow"}]
RecClear ==
    [rrw |-> {"ro"}, rsuid |-> {"nosuid"}, rdev |-> {"nodev"}, rexec |-> {"noexec"},
     rdiratime |-> {"nodiratime"}, rnorelatime |-> {}, ratime |-> {"noatime"},
     rnostrictatime |-> {"strictatime"}, rsymfollow |-> {"nosymfollow"}]
AtimeMask == {"noatime", "strictatime", "otheratime"}

-----------------------------------------------------------------------------
(* Mounts.  An option is a tuple: its name, and a number for uid= / gid=.  *)

AddOption(m, o) ==
    LET name == o[1]
    IN  CASE name \in SetFlags -> [m EXCEPT !.flags = @ \cup {name}]
          [] name = "rbind" -> [m EXCEPT !.flags = @ \cup {"bind", "rec"}]
          [] name \in DOMAIN ClearFlags -> [m EXCEPT !.flags = @ \ {ClearFlags[name]}]
          [] name \in Propagations -> [m EXCEPT !.propagation = Append(@, name)]
          [] name \in DOMAIN RecClear -> [m EXCEPT !.recClr = @ \cup RecClear[name]]
          [] name \in DOMAIN RecSet ->
               [m EXCEPT !.recSet = @ \cup RecSet[name],
                         !.recClr = @ \cup IF RecSet[name] \subseteq AtimeMask THEN AtimeMask ELSE {}]
          [] name = "tmpcopyup" -> [m EXCEPT !.copyup = TRUE]
          [] OTHER -> [m EXCEPT !.data = Append(@, o)]

parseMountOptions(options) ==
    FoldLeft(AddOption, [flags |-> {}, propagation |-> <<>>, recSet |-> {}, recClr |-> {},
                         copyup |-> FALSE, data |-> <<>>], options)

(* inCwd: the relative source of a bind mount is put below the bundle.     *)
createLibcontainerMount(m) ==
    LET opts == parseMountOptions(m.options)
    IN  [dest |-> m.dest, src |-> m.src, inCwd |-> "bind" \in opts.flags /\ ~m.abs, opts |-> opts,
         device |-> IF "bind" \in opts.flags THEN "bind" ELSE m.type]

-----------------------------------------------------------------------------
(* Devices.  A node of the configuration is an object of the table (ref    *)
(* is its index) or one of its own (ref = 0).                              *)

stringToDeviceRune == [p |-> FifoDevice, u |-> CharDevice, c |-> CharDevice, b |-> BlockDevice]
stringToCgroupDeviceRune == [a |-> WildcardDevice, b |-> BlockDevice, c |-> CharDevice]

Shared(i) == [ref |-> i, path |-> allowed[i].path, uid |-> 0, gid |-> 0]
Own(d) == [ref |-> 0, path |-> d.path, uid |-> IF d.uid = Nil THEN 0 ELSE d.uid,
           gid |-> IF d.gid = Nil THEN 0 ELSE d.gid]

(* The default devices that no device of the document redeclares.          *)
dedupedAllowDevs(s) ==
    Kept([i \in DOMAIN allowed |-> i],
         {i \in DOMAIN allowed : allowed[i].path = "" \/ ~s.linux \/ \A d \in Rng(s.devs) : d.path # allowed[i].path})

DeviceNodes(s) ==
    LET named == Kept(dedupedAllowDevs(s), {i \in DOMAIN allowed : allowed[i].path # ""})
    IN  [k \in DOMAIN named |-> Shared(named[k])]
            \o (IF s.linux THEN [k \in DOMAIN s.devs |-> Own(s.devs[k])] ELSE <<>>)

DevicesConvert(s) == ~s.linux \/ \A d \in Rng(s.devs) : d.type \in DOMAIN stringToDeviceRune

-----------------------------------------------------------------------------
(* The cgroup.                                                             *)

(* initSystemdProps: an annotation is its name without the prefix, whether *)
(* that is at least three letters, whether its value parses and is a       *)
(* number, and whether it ends in Sec after a lower-case letter, which     *)
(* turns seconds into microseconds under the name with USec.  The letter   *)
(* before Sec is looked at without a test that there is one.               *)
SystemdProp(a) ==
    IF a.sec THEN [name |-> <<a.name, "USec">>, value |-> a.value * 1000000]
    ELSE [name |-> <<a.name>>, value |-> a.value]
PropsConvert(s) == \A a \in s.annots : a.letters /\ a.parses /\ (a.sec => a.number)
IndexPanics(s) == s.systemd /\ \E a \in s.annots : a.name = "Sec" /\ a.parses

(* A resource rule: no type is 'a', no major or minor is a wildcard.       *)
ResourceRule(d) ==
    NewRule(stringToCgroupDeviceRune[IF d.type = "" THEN "a" ELSE d.type],
            IF d.major = Nil THEN Wildcard ELSE d.major,
            IF d.minor = Nil THEN Wildcard ELSE d.minor, d.access, d.allow)
RulesConvert(s) ==
    ~s.linux \/ \A d \in Rng(s.rules) : d.access # {} /\ d.type \in {"", "a", "b", "c"}

(* Every other resource: its value, or zero when the document has none;    *)
(* the CPU shares also as a weight for cgroup v2.                          *)
Resources(s) ==
    LET value == [f \in DOMAIN s.res |-> IF ~s.linux \/ s.res[f] = Nil THEN 0 ELSE s.res[f]]
    IN  value @@ ("cpuWeight" :> ConvertCPUSharesToCgroupV2Value(value.shares))

(* The cgroup's place.  A systemd cgroupsPath is split at its colons.      *)
PathConverts(s) == ~(s.linux /\ s.systemd) \/ Len(s.cgroupsPath) \in {0, 3}
CgroupPlace(s) ==
    LET path == IF s.linux THEN s.cgroupsPath ELSE <<>>
    IN  CASE s.systemd /\ path = <<>> -> [name |-> s.name, parent |-> "", prefix |-> "runc", path |-> <<>>]
          [] s.systemd /\ path # <<>> -> [name |-> path[3], parent |-> path[1], prefix |-> path[2], path |-> <<>>]
          [] ~s.systemd -> [name |-> IF path = <<>> THEN s.name ELSE "", parent |-> "", prefix |-> "", path |-> path]

(* A mutation: the default rules come first.                               *)
CgroupRulesDefaultsFirst(s) ==
    LET defaults == dedupedAllowDevs(s)
    IN  [k \in DOMAIN defaults |-> allowed[defaults[k]].rule]
            \o (IF s.linux THEN [k \in DOMAIN s.rules |-> ResourceRule(s.rules[k])] ELSE <<>>)

(* The device rules: the document's, then the default ones.                *)
CgroupRules(s) ==
    LET defaults == dedupedAllowDevs(s)
    IN  (IF s.linux THEN [k \in DOMAIN s.rules |-> ResourceRule(s.rules[k])] ELSE <<>>)
            \o [k \in DOMAIN defaults |-> allowed[defaults[k]].rule]

-----------------------------------------------------------------------------
(* Namespaces and the translation of ids.                                  *)

HasNs(c, t) == t \in DOMAIN c.namespaces
PathOf(c, t) == IF HasNs(c, t) THEN c.namespaces[t] ELSE ""

NoID == -1              \* the id of an error

(* A mutation: the range of a mapping is one too long.                     *)
hostIDFromMappingOneMore(id, uMap) ==
    LET hits == {i \in DOMAIN uMap : id >= uMap[i].c /\ id <= uMap[i].c + uMap[i].n}
        first == CHOOSE i \in hits : \A j \in hits : i <= j
    IN  IF hits = {} THEN NoID ELSE uMap[first].h + (id - uMap[first].c)

hostIDFromMapping(id, uMap) ==
    LET hits == {i \in DOMAIN uMap : id >= uMap[i].c /\ id <= uMap[i].c + uMap[i].n - 1}
        first == CHOOSE i \in hits : \A j \in hits : i <= j
    IN  IF hits = {} THEN NoID ELSE uMap[first].h + (id - uMap[first].c)

HostID(c, id, uMap) == IF HasNs(c, "user") THEN hostIDFromMapping(id, uMap) ELSE id
HostUID(c, id) == HostID(c, id, c.uidMap)
HostGID(c, id) == HostID(c, id, c.gidMap)

(* A mutation: the group mappings are not compared.                        *)
SameMappingsUidOnly(actual, s) == actual.uid = s.uidMap

(* IsSameMapping, twice.                                                   *)
SameMappings(actual, s) == actual.uid = s.uidMap /\ actual.gid = s.gidMap

(* The mappings setupUserNamespace leaves in the configuration: those of   *)
(* the namespace it joins, read by GetUserNamespaceMappings, or those of   *)
(* the document.                                                           *)
Joined(c) == Host.userns[PathOf(c, "user")]
Mappings(c, s) ==
    IF PathOf(c, "user") # "" THEN Joined(c) ELSE [uid |-> s.uidMap, gid |-> s.gidMap]
MappingsConvert(c, s) ==
    PathOf(c, "user") # "" =>
        /\ PathOf(c, "user") \in DOMAIN Host.userns
        /\ (s.uidMap # <<>> \/ s.gidMap # <<>>) => SameMappings(Joined(c), s)

-----------------------------------------------------------------------------
EmptyConfig ==
    [mounts |-> <<>>, devices |-> <<>>, rules |-> <<>>, res |-> <<>>, place |-> <<>>, props |-> {},
     namespaces |-> <<>>, networks |-> FALSE, uidMap |-> <<>>, gidMap |-> <<>>, owner |-> NoID]

Init ==
    /\ pc = [k \in Calls |-> "mounts"]
    /\ spec \in [Calls -> Specs]
    /\ config = [k \in Calls |-> EmptyConfig]
    /\ allowed = AllowedDevices

Refuse(k) == pc' = [pc EXCEPT ![k] = "refused"] /\ UNCHANGED <<spec, config, allowed>>
Go(k, to, c) ==
    /\ pc' = [pc EXCEPT ![k] = to]
    /\ config' = [config EXCEPT ![k] = c]
    /\ UNCHANGED <<spec, allowed>>

(* The root must be given, and a mount with a null byte is refused.        *)
CreateMounts(k) ==
    LET s == spec[k]
    IN  /\ pc[k] = "mounts"
        /\ IF s.root = "none" \/ \E m \in Rng(s.mounts) : m.null THEN Refuse(k)
           ELSE Go(k, "devices", [config[k] EXCEPT
                    !.mounts = [i \in DOMAIN s.mounts |-> createLibcontainerMount(s.mounts[i])]])

createDevices(k) ==
    /\ pc[k] = "devices"
    /\ IF ~DevicesConvert(spec[k]) THEN Refuse(k)
       ELSE Go(k, "cgroup", [config[k] EXCEPT !.devices = DeviceNodes(spec[k])])

CreateCgroupConfig(k) ==
    LET s == spec[k]
    IN  /\ pc[k] = "cgroup"
        /\ IndexPanics(s) => ~PropsConvert(s)
        /\ IF (s.systemd /\ ~PropsConvert(s)) \/ ~PathConverts(s) \/ ~RulesConvert(s) THEN Refuse(k)
           ELSE Go(k, IF s.linux THEN "namespaces" ELSE "owner",
                   [config[k] EXCEPT !.rules = CgroupRules(s), !.res = Resources(s), !.place = CgroupPlace(s),
                                     !.props = IF s.systemd THEN {SystemdProp(a) : a \in s.annots} ELSE {}])

(* The annotations come in any order: a wrong one may be found first.      *)
Panic(k) ==
    /\ pc[k] = "cgroup" /\ IndexPanics(spec[k])
    /\ pc' = [pc EXCEPT ![k] = "panicked"]
    /\ UNCHANGED <<spec, config, allowed>>

(* The propagation of the root mount, and the namespaces.                  *)
CreateNamespaces(k) ==
    LET s == spec[k]
        types == {ns[1] : ns \in Rng(s.namespaces)}
        paths == [t \in types |-> (CHOOSE ns \in Rng(s.namespaces) : ns[1] = t)[2]]
    IN  /\ pc[k] = "namespaces"
        /\ IF \/ s.propagation \notin Propagations \cup {""}
              \/ s.noPivot /\ s.propagation \in {"private", "rprivate"}
              \/ ~types \subseteq KnownNamespaces
              \/ \E i, j \in DOMAIN s.namespaces : i # j /\ s.namespaces[i][1] = s.namespaces[j][1]
           THEN Refuse(k)
           ELSE Go(k, IF "user" \in types THEN "userns" ELSE "seccomp",
                   [config[k] EXCEPT !.namespaces = paths,
                                     !.networks = "network" \in types /\ paths["network"] = ""])

(* setupUserNamespace: its last loop writes through the pointers.  A host  *)
(* without the joined namespace fails when its mappings are read.          *)
setupUserNamespace(k) ==
    LET s == spec[k]
        maps == Mappings(config[k], s)
        c == [config[k] EXCEPT !.uidMap = maps.uid, !.gidMap = maps.gid]
        uid == HostUID(c, 0)
        gid == HostGID(c, 0)
        touched == {n.ref : n \in Rng(c.devices)}
    IN  /\ pc[k] = "userns"
        /\ IF ~MappingsConvert(config[k], s) \/ uid = NoID \/ gid = NoID THEN Refuse(k)
           ELSE /\ allowed' = [i \in DOMAIN allowed |->
                                  IF i \in touched THEN [allowed[i] EXCEPT !.uid = uid, !.gid = gid] ELSE allowed[i]]
                /\ config' = [config EXCEPT ![k] =
                        [c EXCEPT !.devices = [i \in DOMAIN @ |-> [@[i] EXCEPT !.uid = uid, !.gid = gid]]]]
                /\ pc' = [pc EXCEPT ![k] = "seccomp"]
                /\ UNCHANGED spec

(* SetupSeccomp is in module Seccomp: here it converts or refuses.         *)
ConvertSeccomp(k) ==
    /\ pc[k] = "seccomp"
    /\ IF spec[k].badSeccomp THEN Refuse(k) ELSE Go(k, "owner", config[k])

hasRwCgroupfs(c) ==
    \E m \in Rng(c.mounts) : m.src = "cgroup" /\ ~m.inCwd /\ m.dest = "/sys/fs/cgroup" /\ "ro" \notin m.opts.flags

(* The owner of the container's cgroup; an id that has no mapping is       *)
(* ignored.                                                                *)
SetOwner(k) ==
    LET c == config[k]
        hasCgroupNS == HasNs(c, "cgroup") /\ PathOf(c, "cgroup") = ""
    IN  /\ pc[k] = "owner"
        /\ Go(k, "validate", IF hasCgroupNS /\ hasRwCgroupfs(c)
                             THEN [c EXCEPT !.owner = HostUID(c, spec[k].uid)] ELSE c)

-----------------------------------------------------------------------------
(* Validate.                                                               *)

rootfs(s) == s.root = "dir"

network(c) == HasNs(c, "network") \/ ~c.networks
hostname(c, s) == s.hostname => HasNs(c, "uts")
security(c, s) == (s.linux /\ s.restricts => HasNs(c, "mount")) /\ (s.label => Host.selinux)

usernamespace(c) ==
    LET hasMappings == c.uidMap # <<>> \/ c.gidMap # <<>>
    IN  IF HasNs(c, "user") THEN Host.hasUserns /\ (PathOf(c, "user") # "" \/ hasMappings) ELSE ~hasMappings
cgroupnamespace(c) == HasNs(c, "cgroup") => Host.hasCgroupns

(* A sysctl key is its parts and the separators between them; a key whose  *)
(* first separator is '/' has the two swapped.                             *)
convertSysctlVariableToDotsSeparator(v) ==
    IF v.seps = <<>> \/ v.seps[1] = "." THEN v
    ELSE [v EXCEPT !.seps = [i \in DOMAIN @ |-> IF @[i] = "." THEN "/" ELSE "."]]

IpcKeys == {"msgmax", "msgmnb", "msgmni", "sem", "shmall", "shmmax", "shmmni", "shm_rmid_forced"}
IsIpcKey(v) ==
    \/ Len(v.parts) = 2 /\ v.parts[1] = "kernel" /\ v.parts[2] \in IpcKeys
    \/ Len(v.parts) > 2 /\ v.parts[1] = "fs" /\ v.parts[2] = "mqueue" /\ v.seps[2] = "."

(* isHostNetNS: the two namespaces are compared, or one cannot be read.    *)
PrivateNet(c) ==
    HasNs(c, "network") /\ (PathOf(c, "network") = "" \/ Host.netns[PathOf(c, "network")] = "other")

sysctlAllowed(c, key) ==
    LET v == convertSysctlVariableToDotsSeparator(key)
    IN  IF IsIpcKey(v) THEN HasNs(c, "ipc")
        ELSE IF Len(v.parts) > 1 /\ v.parts[1] = "net" THEN PrivateNet(c)
        ELSE HasNs(c, "uts") /\ v.parts = <<"kernel", "domainname">>
sysctl(c, s) == s.linux => \A v \in s.sysctl : sysctlAllowed(c, v)

intelrdt(s) ==
    s.linux /\ s.rdt.set => s.rdt.closIdOk /\ (s.rdt.l3 => Host.cat) /\ (s.rdt.mb => Host.mba)

cgroups(c) ==
    /\ ~((c.place.name # "" \/ c.place.parent # "") /\ c.place.path # <<>>)
    /\ IF Host.unified THEN ~SwapErr(c.res.swap, c.res.memory) ELSE c.res.unified = 0

rootlessEUIDMappings(c) ==
    HasNs(c, "user") /\ (PathOf(c, "user") = "" => c.uidMap # <<>> /\ c.gidMap # <<>>)
rootlessEUIDMount(c) ==
    \A m \in Rng(c.mounts) : \A o \in Rng(m.opts.data) :
        (o[1] = "uid=" => HostUID(c, o[2]) # NoID) /\ (o[1] = "gid=" => HostGID(c, o[2]) # NoID)
rootlessEUID(c, s) == s.rootless => rootlessEUIDMappings(c) /\ rootlessEUIDMount(c)

(* Relative mount destinations only warn.                                  *)
Validate(k) ==
    LET c == config[k]  s == spec[k]
    IN  /\ pc[k] = "validate"
        /\ IF /\ cgroups(c) /\ rootfs(s) /\ network(c) /\ hostname(c, s) /\ security(c, s)
              /\ usernamespace(c) /\ cgroupnamespace(c) /\ sysctl(c, s) /\ intelrdt(s) /\ rootlessEUID(c, s)
           THEN Go(k, "accepted", c) ELSE Refuse(k)

Finished == (\A k \in Calls : pc[k] \in {"accepted", "refused", "panicked"}) /\ UNCHANGED vars

Convert(k) ==
    \/ CreateMounts(k) \/ createDevices(k) \/ CreateCgroupConfig(k) \/ Panic(k) \/ CreateNamespaces(k)
    \/ setupUserNamespace(k) \/ ConvertSeccomp(k) \/ SetOwner(k) \/ Validate(k)

Next == (\E k \in Calls : Convert(k)) \/ Finished

Spec == Init /\ [][Next]_vars

-----------------------------------------------------------------------------
(* The mappings the container's processes will run under, from the         *)
(* document and the host alone.                                            *)
UsernsPath(s) == {ns[2] : ns \in {n \in Rng(s.namespaces) : n[1] = "user"}}
InForce(s) ==
    IF "" \in UsernsPath(s) THEN [uid |-> s.uidMap, gid |-> s.gidMap]
    ELSE Host.userns[CHOOSE p \in UsernsPath(s) : TRUE]
HasUserns(s) == s.linux /\ UsernsPath(s) # {}

(* The host ids a set of mappings gives to a container id.                 *)
HostIDs(uMap, id) == {m.h + id - m.c : m \in {n \in Rng(uMap) : id \in n.c..(n.c + n.n - 1)}}

Accepted(k) == pc[k] = "accepted"

(* Every device node that an accepted document leaves at its default can   *)
(* be opened in the container, whatever rules the document gives before:   *)
(* if the device emulator takes the converted rule list, it allows r, w    *)
(* and m on /dev/null and the others.                                      *)
DefaultDevicesUsable ==
    \A k \in Calls : Accepted(k) =>
        LET result == Emulate(config[k].rules)
        IN  result.err \/
            \A n \in Rng(config[k].devices) : n.ref # 0 =>
                LET r == AllowedDevices[n.ref].rule
                IN  \A p \in RWM : Allowed(result.emu, [node |-> r.type, major |-> r.major, minor |-> r.minor], p)

(* The cgroup of an accepted container is given to the host id its process *)
(* really runs as, in a joined user namespace too.                         *)
CgroupOwnerIsMapped ==
    \A k \in Calls : Accepted(k) /\ config[k].owner # NoID =>
        LET s == spec[k]
        IN  config[k].owner \in IF HasUserns(s) THEN HostIDs(InForce(s).uid, s.uid) ELSE {s.uid}

(* An accepted document with a user namespace carries the id mappings that *)
(* the container will have: a joined namespace decides, and explicit       *)
(* mappings must agree with it for users and for groups.  Mappings in a    *)
(* document without a user namespace are ignored.                          *)
MappingInForce ==
    \A k \in Calls : Accepted(k) /\ HasUserns(spec[k]) =>
        /\ config[k].uidMap = InForce(spec[k]).uid /\ config[k].gidMap = InForce(spec[k]).gid
        /\ spec[k].uidMap # <<>> \/ spec[k].gidMap # <<>> =>
              spec[k].uidMap = InForce(spec[k]).uid /\ spec[k].gidMap = InForce(spec[k]).gid

(* AllowedDevices "is the set of devices which are automatically included  *)
(* for all containers", with Uid and Gid 0.  Violated: after a conversion  *)
(* with a user namespace, a container without one is given nodes that the  *)
(* other container's root owns.                                            *)
DefaultNodesOwnedByRoot ==
    \A k \in Calls : Accepted(k) /\ ~HasUserns(spec[k]) =>
        \A n \in Rng(config[k].devices) : n.ref # 0 => allowed[n.ref].uid = 0 /\ allowed[n.ref].gid = 0

=============================================================================
