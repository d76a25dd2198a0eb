----------------------------- MODULE UnifiedSet -----------------------------
(***************************************************************************)
(* Set and Freeze of the two managers for cgroup v2: fs2 (cgroups/fs2) and *)
(* systemd's unifiedManager (cgroups/systemd/v2.go), which sets properties *)
(* of the unit and then lets an fs2 manager write the files.  The callers  *)
(* are managers of one cgroup in processes of their own: no lock is held.  *)
(*                                                                         *)
(* A file of the cgroup is an entry of file, keyed by its name; io.max has *)
(* one for each key, and that of cpu.max is a quota and a period.  The     *)
(* unit's properties are keyed by the name of the file they stand for, but *)
(* for cpu.period.  Set(nil) changes nothing and is left out.              *)
(***************************************************************************)
EXTENDS EbpfAttach, DeviceFilter, Conversions

CONSTANTS Envs,       \* the configurations and hosts considered
          Files,      \* the names of files and properties
          Requests,   \* configs.Resources given to Set
          MaxCalls,   \* bound: calls made in all
          maxIter     \* how often waitFrozen looks

VARIABLES env,        \* the manager's configuration and the host's abilities
          file,       \* the cgroup's files
          unit,       \* the properties systemd keeps for the unit
          frozen,     \* cgroup.events says that every process is frozen
          pc, req,    \* where a call is, and what it was given
          steps,      \* what fs2's Set has still to do
          tries,      \* waitFrozen's counter
          stored,     \* the manager has a m.config.Resources
          result,     \* what the last call returned
          alone,      \* history: no other call ran since this one began
          calls

cgVars == <<env, file, unit, frozen, pc, req, steps, tries, stored, result, alone, calls>>
vars == <<cgVars, ebpfVars>>

(* configs.Undefined, and the name that stands for no file.                *)
Undefined == "UNDEFINED"
NoFile == "none"

(* configs.Resources that ask for nothing; 0 and the empty set are unset.  *)
NoLimits ==
    [set |-> TRUE, pids |-> 0, memory |-> 0, swap |-> 0, low |-> 0, weight |-> 0, weightDevice |-> 0,
     rbps |-> 0, wbps |-> 0, riops |-> 0, wiops |-> 0, cpuWeight |-> 0, quota |-> 0, period |-> 0,
     skipDevices |-> FALSE, rules |-> <<>>, cpus |-> {}, mems |-> {}, hugetlb |-> <<>>, rdma |-> 0,
     freezer |-> Undefined, unified |-> {}]

Unset == -2             \* a file or property that no one has written

KnownFiles ==
    {"pids.max", "memory.swap.max", "memory.max", "memory.low", "io.bfq.weight", "io.weight", "io.bfq.device",
     "rbps", "wbps", "riops", "wiops", "cpu.weight", "cpu.max", "cpu.period", "cpuset.cpus", "cpuset.mems",
     "hugetlb.2MB.max", "hugetlb.1GB.max", "hugetlb.2MB.rsvd.max", "hugetlb.1GB.rsvd.max", "rdma.max",
     "cgroup.freeze"}

(* Numbers are -1 or natural where the kernel takes nothing else, and it   *)
(* takes no bandwidth of 0.                                                *)
Limit == Nat \cup {-1}
Settings ==
    [f : Files \ {"cpu.max", "cpu.period"}, slash : BOOLEAN, v : Int]
    \cup [f : {"cpu.max"}, slash : BOOLEAN, v : (Nat \ {0}) \X (Nat \ {0})]
Resources ==
    [set : BOOLEAN, pids : Limit, memory : Limit, swap : Limit, low : Limit, weight : Nat, weightDevice : Nat,
     rbps : Nat, wbps : Nat, riops : Nat, wiops : Nat, cpuWeight : Nat, quota : Int, period : Nat,
     skipDevices : BOOLEAN, rules : Seq(Rule), cpus : SUBSET (Nat \X Nat), mems : SUBSET (Nat \X Nat),
     hugetlb : Seq([size : {"2MB", "1GB"}, limit : Nat]), rdma : Nat, freezer : {Undefined, "FROZEN", "THAWED"},
     unified : SUBSET Settings]

(* The unified settings are a map: finite, with one value for a file.      *)
ASSUME UnifiedAssumption ==
    /\ Accesses = AllAccesses
    /\ KnownFiles \subseteq Files /\ NoFile \notin Files
    /\ \A e \in Envs : e.haveReplace \in BOOLEAN /\ e.configured \in BOOLEAN
    /\ Requests \subseteq Resources
    /\ \A r \in Requests :
          /\ r.set
          /\ IsFiniteSet(r.unified)
          /\ \A u, w \in r.unified : u.f = w.f => u = w

-----------------------------------------------------------------------------
(* What fs2's Set does, in order, as a sequence of steps.                  *)
Step(k, f, v) == [k |-> k, f |-> f, v |-> v]
Bare(k) == Step(k, NoFile, 0)
Write(cond, f, v) == IF cond THEN <<Step("write", f, v)>> ELSE <<>>
Number(f, v) == Write(v # 0, f, Unlimited(v))

setPids(r) == Number("pids.max", r.pids)

(* setMemory: a swap limit of 0 is written if memory and memory+swap are   *)
(* given and equal.                                                        *)
setMemory(r) ==
    LET swap == ConvertMemorySwapToCgroupV2Value(r.swap, r.memory)
    IN  IF SwapErr(r.swap, r.memory) THEN <<Bare("error")>>
        ELSE Write(swap # 0 \/ r.swap > 0, "memory.swap.max", Unlimited(swap))
             \o Number("memory.max", r.memory) \o Number("memory.low", r.low)

(* setIo: the weight goes to BFQ's file where there is one, and device     *)
(* weights only there, if it has them; then the limits of io.max.          *)
setIo(r) ==
    Write(r.weight # 0 /\ env.bfq # "none", "io.bfq.weight", r.weight)
    \o Write(r.weight # 0 /\ env.bfq = "none", "io.weight", ConvertBlkIOToIOWeightValue(r.weight))
    \o Write(r.weightDevice # 0 /\ env.bfq = "device", "io.bfq.device", r.weightDevice)
    \o Number("rbps", r.rbps) \o Number("wbps", r.wbps) \o Number("riops", r.riops) \o Number("wiops", r.wiops)

setCpu(r) ==
    Number("cpu.weight", r.cpuWeight)
    \o Write(r.quota # 0 \/ r.period # 0, "cpu.max",
             <<IF r.quota > 0 THEN r.quota ELSE Infinity, IF r.period = 0 THEN defCPUQuotaPeriod ELSE r.period>>)

(* setCpuset; the kernel refuses what RangeToBits does.                    *)
CpuRanges(f, ranges) ==
    IF ranges # {} /\ RangeToBits(ranges) = 0 THEN <<Bare("error")>>
    ELSE Write(ranges # {}, f, RangeToBits(ranges))
setCpuset(r) == CpuRanges("cpuset.cpus", r.cpus) \o CpuRanges("cpuset.mems", r.mems)

(* Two steps for each page size.                                           *)
hugetlbMax == [size \in {"2MB", "1GB"} |-> IF size = "2MB" THEN "hugetlb.2MB.max" ELSE "hugetlb.1GB.max"]
hugetlbRsvd == [size \in {"2MB", "1GB"} |-> IF size = "2MB" THEN "hugetlb.2MB.rsvd.max" ELSE "hugetlb.1GB.rsvd.max"]
setHugeTlb(r) ==
    [i \in 1..(2 * Len(r.hugetlb)) |->
        LET page == r.hugetlb[(i + 1) \div 2]
        IN  IF i % 2 = 1 THEN Step("write", hugetlbMax[page.size], page.limit)
            ELSE Step("rsvd", hugetlbRsvd[page.size], page.limit)]

RdmaSet(r) == Write(r.rdma # 0, "rdma.max", r.rdma)

setFreezer(state) ==
    IF state = Undefined THEN <<>> ELSE <<Step("freeze", "cgroup.freeze", IF state = "FROZEN" THEN 1 ELSE 0)>>

(* setUnified, in one order of the map's keys.                             *)
setUnified(order) ==
    [i \in DOMAIN order |-> IF order[i].slash THEN Bare("error") ELSE Step("write", order[i].f, order[i].v)]

(* A mutation: the unified settings are written before the others.         *)
SetStepsUnifiedFirst(r, order) ==
    setUnified(order) \o setPids(r) \o setMemory(r) \o setIo(r) \o setCpu(r) \o <<Bare("devices")>>
    \o setCpuset(r) \o setHugeTlb(r) \o RdmaSet(r) \o setFreezer(r.freezer)

SetSteps(r, order) ==
    setPids(r) \o setMemory(r) \o setIo(r) \o setCpu(r) \o <<Bare("devices")>>
    \o setCpuset(r) \o setHugeTlb(r) \o RdmaSet(r) \o setFreezer(r.freezer) \o setUnified(order)

-----------------------------------------------------------------------------
(* The properties systemd is given.                                        *)
Prop(cond, f, v) == IF cond THEN {[f |-> f, v |-> v]} ELSE {}
Names(props) == {e.f : e \in props}
Value(props, f) == (CHOOSE e \in props : e.f = f).v

(* addCpuQuota; the period is a property since systemd 242.                *)
addCpuQuota(quota, period) ==
    Prop(period # 0 /\ env.sdVer >= 242, "cpu.period", period)
    \cup Prop(quota # 0 \/ period # 0, "cpu.max", cpuQuotaPerSec(quota, period))

(* addCpuset, since systemd 244.                                           *)
addCpuset(r) ==
    Prop(r.cpus # {} /\ env.sdVer >= 244, "cpuset.cpus", RangeToBits(r.cpus))
    \cup Prop(r.mems # {} /\ env.sdVer >= 244, "cpuset.mems", RangeToBits(r.mems))

(* unifiedResToSystemdProps of one setting; unknown ones are left to fs2.  *)
KnownToSystemd == {"cpu.weight", "memory.high", "memory.low", "memory.min", "memory.max", "memory.swap.max", "pids.max"}
unifiedProp(u) ==
    IF u.f = "cpu.max" THEN addCpuQuota(IF u.v[1] = Infinity THEN 0 ELSE u.v[1], u.v[2])
    ELSE Prop(u.f \in KnownToSystemd \/ (u.f \in {"cpuset.cpus", "cpuset.mems"} /\ env.sdVer >= 244), u.f, u.v)
unifiedResToSystemdProps(settings) == UNION {unifiedProp(u) : u \in settings}

(* A property given twice has its last value.                              *)
Then(first, last) == {e \in first : e.f \notin Names(last)} \cup last

(* A mutation: the limit on tasks is only raised to infinity by hand.      *)
genV2ResourcesPropertiesNoMax(r) ==
    LET swap == ConvertMemorySwapToCgroupV2Value(r.swap, r.memory)
    IN  Then(Prop(r.memory # 0, "memory.max", Unlimited(r.memory)) \cup Prop(r.low # 0, "memory.low", Unlimited(r.low))
             \cup Prop(swap # 0, "memory.swap.max", Unlimited(swap))
             \cup Prop(r.cpuWeight # 0, "cpu.weight", r.cpuWeight) \cup addCpuQuota(r.quota, r.period)
             \cup Prop(r.pids > 0, "pids.max", r.pids) \cup addCpuset(r),
             unifiedResToSystemdProps(r.unified))

(* genV2ResourcesProperties without the device properties.                 *)
genV2ResourcesProperties(r) ==
    LET swap == ConvertMemorySwapToCgroupV2Value(r.swap, r.memory)
    IN  Then(Prop(r.memory # 0, "memory.max", Unlimited(r.memory)) \cup Prop(r.low # 0, "memory.low", Unlimited(r.low))
             \cup Prop(swap # 0, "memory.swap.max", Unlimited(swap))
             \cup Prop(r.cpuWeight # 0, "cpu.weight", r.cpuWeight) \cup addCpuQuota(r.quota, r.period)
             \cup Prop(r.pids > 0 \/ r.pids = -1, "pids.max", Unlimited(r.pids)) \cup addCpuset(r),
             unifiedResToSystemdProps(r.unified))

(* Its error returns.                                                      *)
PropertiesErr(r) ==
    \/ ~r.skipDevices /\ Emulate(r.rules).err
    \/ SwapErr(r.swap, r.memory)
    \/ env.sdVer >= 244 /\ \E ranges \in {r.cpus, r.mems} \ {{}} : RangeToBits(ranges) = 0
    \/ \E u \in r.unified : u.slash

(* systemd (external) keeps the properties and writes the files of those   *)
(* that changed.                                                           *)
UnitWith(props) == [f \in Files |-> IF f \in Names(props) THEN Value(props, f) ELSE unit[f]]
SystemdFiles(props, properties) ==
    LET period == IF properties["cpu.period"] = Unset THEN defCPUQuotaPeriod ELSE properties["cpu.period"]
        perSec == properties["cpu.max"]
        quota == IF perSec = Infinity THEN Infinity ELSE ((perSec \div 10000) * period) \div 100
    IN  [f \in Files |->
            IF f \notin Names(props) THEN file[f] ELSE IF f = "cpu.max" THEN <<quota, period>> ELSE properties[f]]

-----------------------------------------------------------------------------
Init ==
    /\ EbpfInit
    /\ env \in Envs
    /\ file = [f \in Files |-> IF f = "cgroup.freeze" THEN 0
                             ELSE IF f = "cpu.max" THEN <<Infinity, defCPUQuotaPeriod>> ELSE Unset]
    /\ unit = [f \in Files |-> Unset]
    /\ frozen = FALSE
    /\ pc = [p \in Procs |-> "idle"]
    /\ req = [p \in Procs |-> NoLimits]
    /\ steps = [p \in Procs |-> <<>>]
    /\ tries = [p \in Procs |-> 0]
    /\ stored = [p \in Procs |-> env.configured]
    /\ result = [p \in Procs |-> "none"]
    /\ alone = [p \in Procs |-> FALSE]
    /\ calls = 0

Go(p, where) == pc' = [pc EXCEPT ![p] = where]
ToDo(p, todo) == steps' = [steps EXCEPT ![p] = todo]

(* A call begins: another that is under way is no longer alone.            *)
Begin(p) ==
    /\ pc[p] = "idle"
    /\ calls < MaxCalls
    /\ calls' = calls + 1
    /\ alone' = [q \in Procs |-> q = p /\ \A o \in Procs \ {p} : pc[o] = "idle"]
    /\ result' = [result EXCEPT ![p] = "none"]

Return(p, res) ==
    /\ Go(p, "idle")
    /\ result' = [result EXCEPT ![p] = res]
    /\ ToDo(p, <<>>)

Set(p) ==
    /\ Begin(p)
    /\ \E r \in Requests : req' = [req EXCEPT ![p] = r]
    /\ Go(p, IF env.systemd THEN "props" ELSE "controllers")
    /\ UNCHANGED <<env, file, unit, frozen, steps, tries, stored, ebpfVars>>

(* Freeze: an error for a manager that has no resources.                   *)
Freeze(p) ==
    /\ Begin(p)
    /\ \E state \in {"FROZEN", "THAWED"} :
          /\ req' = [req EXCEPT ![p].freezer = state, ![p].set = FALSE]
          /\ ToDo(p, IF stored[p] THEN setFreezer(state) ELSE <<Bare("error")>>)
    /\ Go(p, "freeze")
    /\ UNCHANGED <<env, file, unit, frozen, tries, stored, ebpfVars>>

(* The unified manager: the properties are computed and set, the devices'  *)
(* among them.  On an error nothing has changed.                           *)
SetProperties(p) ==
    /\ pc[p] = "props"
    /\ LET r == req[p]
           props == genV2ResourcesProperties(r)
       IN  IF PropertiesErr(r)
           THEN Return(p, "err") /\ UNCHANGED <<file, unit, ebpfVars>>
           ELSE /\ unit' = UnitWith(props)
                /\ file' = SystemdFiles(props, unit')
                /\ IF r.skipDevices THEN UNCHANGED ebpfVars
                   ELSE SystemdAttach(generateDeviceProperties(Emulate(r.rules).emu, env))
                /\ Go(p, "controllers")
                /\ UNCHANGED <<steps, result>>
    /\ UNCHANGED <<env, frozen, req, tries, stored, alone, calls>>

(* getControllers, then the steps.                                         *)
FsSet(p) ==
    /\ pc[p] = "controllers"
    /\ \E order \in Bijection(1..Cardinality(req[p].unified), req[p].unified) : ToDo(p, SetSteps(req[p], order))
    /\ Go(p, "set")
    /\ UNCHANGED <<env, file, unit, frozen, req, tries, stored, result, alone, calls, ebpfVars>>

Performed(s) == file' = [file EXCEPT ![s.f] = s.v]
AtStep(p, k) == pc[p] \in {"set", "freeze"} /\ steps[p] # <<>> /\ Head(steps[p]).k = k

WriteFile(p) ==
    /\ AtStep(p, "write")
    /\ Performed(Head(steps[p]))
    /\ ToDo(p, Tail(steps[p]))
    /\ UNCHANGED <<env, unit, frozen, pc, req, tries, stored, result, alone, calls, ebpfVars>>

(* A kernel without a rsvd file: it is passed over.                        *)
WriteRsvd(p) ==
    /\ AtStep(p, "rsvd")
    /\ IF env.rsvd THEN Performed(Head(steps[p])) ELSE UNCHANGED file
    /\ ToDo(p, Tail(steps[p]))
    /\ UNCHANGED <<env, unit, frozen, pc, req, tries, stored, result, alone, calls, ebpfVars>>

(* Any file may fail to open, read or write, and D-Bus may fail; the       *)
(* caller has the error and what was done stays.                           *)
Fails(p) ==
    /\ \/ pc[p] = "props"
       \/ pc[p] = "controllers" /\ ~(env.rootless /\ env.noPath)
       \/ \E k \in {"write", "freeze", "check"} : AtStep(p, k)
       \/ AtStep(p, "rsvd") /\ env.rsvd
    /\ Return(p, "err")
    /\ UNCHANGED <<env, file, unit, frozen, req, tries, stored, alone, calls, ebpfVars>>

(* A setting that is refused for what it says.                             *)
Refuse(p) ==
    /\ AtStep(p, "error")
    /\ Return(p, "err")
    /\ UNCHANGED <<env, file, unit, frozen, req, tries, stored, alone, calls, ebpfVars>>

isRWM(perms) == perms = Perms
canSkipEBPFError(r) == env.userns \/ \A i \in DOMAIN r.rules : r.rules[i].allow /\ isRWM(r.rules[i].perms)

(* setDevices up to the call that attaches the program.  A list of rules   *)
(* that the emulator refuses, or a directory that does not open, is an     *)
(* error whatever canSkipEBPFError says, unless the manager is rootless.   *)
SetDevices(p) ==
    /\ AtStep(p, "devices")
    /\ apc[p] = "idle" /\ ares[p] = "none"
    /\ LET emu == Emulate(req[p].rules)
       IN  \/ /\ req[p].skipDevices \/ env.rootless
              /\ ToDo(p, Tail(steps[p])) /\ UNCHANGED <<pc, result, ebpfVars>>
           \/ /\ ~req[p].skipDevices /\ ~env.rootless
              /\ Return(p, "err") /\ UNCHANGED ebpfVars
           \/ /\ ~req[p].skipDevices /\ ~emu.err
              /\ AtCall(p, Filter(emu.emu)) /\ UNCHANGED <<pc, steps, result>>
    /\ UNCHANGED <<env, file, unit, frozen, req, tries, stored, alone, calls>>

Attaching(p) ==
    /\ AtWork(p, IF env.hidden THEN {0} ELSE {}, env.haveReplace)
    /\ UNCHANGED cgVars

(* ... and after it.                                                       *)
DevicesSet(p) ==
    /\ AtStep(p, "devices")
    /\ IF ares[p] = "nil" \/ canSkipEBPFError(req[p]) \/ env.rootless
       THEN ToDo(p, Tail(steps[p])) /\ UNCHANGED <<pc, result>>
       ELSE Return(p, "err")
    /\ AtTake(p)
    /\ UNCHANGED <<env, file, unit, frozen, req, tries, stored, alone, calls>>

(* setFreezer: open and write.  A freezer that cannot be opened only       *)
(* matters to FROZEN.                                                      *)
WriteFreeze(p) ==
    /\ AtStep(p, "freeze")
    /\ LET s == Head(steps[p])
       IN  \/ Performed(s) /\ ToDo(p, <<Step("check", s.f, s.v)>> \o Tail(steps[p]))
           \/ s.v = 0 /\ ToDo(p, Tail(steps[p])) /\ UNCHANGED file
    /\ tries' = [tries EXCEPT ![p] = 0]
    /\ UNCHANGED <<env, unit, frozen, pc, req, stored, result, alone, calls, ebpfVars>>

(* The state readFreezer saw is the wanted one or it is an error.          *)
Saw(p, v) ==
    /\ IF v = Head(steps[p]).v THEN ToDo(p, Tail(steps[p])) /\ UNCHANGED <<pc, result>> ELSE Return(p, "err")
    /\ UNCHANGED tries

(* A mutation: cgroup.freeze is believed without a look at cgroup.events.  *)
CheckFreezeNoWait(p) ==
    /\ AtStep(p, "check")
    /\ Saw(p, file["cgroup.freeze"])
    /\ UNCHANGED <<env, file, unit, frozen, req, stored, alone, calls, ebpfVars>>

(* A mutation: no timeout.                                                 *)
CheckFreezeForever(p) ==
    /\ AtStep(p, "check")
    /\ IF tries[p] = 0 /\ file["cgroup.freeze"] = 0 THEN Saw(p, 0)
       ELSE IF frozen THEN Saw(p, 1)
       ELSE tries' = [tries EXCEPT ![p] = 1] /\ UNCHANGED <<pc, steps, result>>
    /\ UNCHANGED <<env, file, unit, frozen, req, stored, alone, calls, ebpfVars>>

(* readFreezer reads cgroup.freeze once; after a "1" waitFrozen looks at   *)
(* cgroup.events up to maxIter times.                                      *)
CheckFreeze(p) ==
    /\ AtStep(p, "check")
    /\ IF tries[p] = 0 /\ file["cgroup.freeze"] = 0 THEN Saw(p, 0)
       ELSE IF tries[p] = maxIter THEN Return(p, "err") /\ UNCHANGED tries
       ELSE IF frozen THEN Saw(p, 1)
       ELSE tries' = [tries EXCEPT ![p] = @ + 1] /\ UNCHANGED <<pc, steps, result>>
    /\ UNCHANGED <<env, file, unit, frozen, req, stored, alone, calls, ebpfVars>>

(* The end of Set and of Freeze: the manager's resources are the new ones. *)
Succeed(p) ==
    /\ pc[p] \in {"set", "freeze"} /\ steps[p] = <<>>
    /\ stored' = [stored EXCEPT ![p] = TRUE]
    /\ Return(p, "nil")
    /\ UNCHANGED <<env, file, unit, frozen, req, tries, alone, calls, ebpfVars>>

(* The kernel (external) freezes and thaws the processes in its own time.  *)
Settle ==
    /\ frozen # (file["cgroup.freeze"] = 1)
    /\ frozen' = ~frozen
    /\ UNCHANGED <<env, file, unit, pc, req, steps, tries, stored, result, alone, calls, ebpfVars>>

Work(p) ==
    \/ SetProperties(p) \/ FsSet(p) \/ WriteFile(p) \/ WriteRsvd(p) \/ Refuse(p) \/ SetDevices(p) \/ Attaching(p)
    \/ DevicesSet(p) \/ WriteFreeze(p) \/ CheckFreeze(p) \/ Succeed(p)

Finished == calls = MaxCalls /\ (\A p \in Procs : pc[p] = "idle") /\ UNCHANGED vars

Next == (\E p \in Procs : Set(p) \/ Freeze(p) \/ Work(p) \/ Fails(p)) \/ Settle \/ Finished

(* A process that is in a call goes on with it; nothing is assumed about   *)
(* failures and about the kernel's freezing.                               *)
Spec == Init /\ [][Next]_vars /\ \A p \in Procs : WF_vars(Work(p))

-----------------------------------------------------------------------------
(* Properties.                                                             *)

(* A call that returned nil and that no other one has run beside or after. *)
LoneSuccess(p) == pc[p] = "idle" /\ alone[p] /\ result[p] = "nil"
LoneSet(p) == LoneSuccess(p) /\ req[p].set

(* The program DeviceFilter compiles decides as a cgroup v1 devices        *)
(* controller with the same rules would: about every access when the rules *)
(* are an allow list, about every single letter when they are a deny list. *)
FilterMatchesV1 ==
    \A p \in Procs : apc[p] # "idle" =>
        LET emu == Emulate(req[p].rules).emu
        IN  \A acc \in Accesses : ~emu.defaultAllow \/ Cardinality(acc.a) = 1 => (acc \in want[p] <=> V1Allows(emu, acc))

(* The emulator "gives us a guarantee that the behaviour of devices        *)
(* filtering is the same as cgroupv1".  Violated: a deny rule for w does   *)
(* not stop an open for reading and writing.                               *)
FilterSameAsV1 ==
    \A p \in Procs : apc[p] # "idle" =>
        LET emu == Emulate(req[p].rules).emu
        IN  \A acc \in Accesses : acc \in want[p] <=> V1Allows(emu, acc)

(* After a Set that nothing disturbed, the accesses let through are those  *)
(* of the requested filter, whatever programs earlier calls and systemd    *)
(* have left; only a program that could not be opened refuses more.        *)
SetEnforces ==
    \A p \in Procs : LoneSet(p) /\ ~req[p].skipDevices /\ ~env.rootless /\ ~canSkipEBPFError(req[p]) =>
        Effective = {acc \in Filter(Emulate(req[p].rules).emu) :
                        env.hidden /\ 0 \in attached => acc \in policy[0]}

Unified(r) == {u.f : u \in r.unified}

(* After such a Set the files say what was asked: a unified setting wins   *)
(* over the others, and the limits on memory and on swap add up to the     *)
(* memory+swap limit, down to no swap at all.                              *)
SettingsApplied ==
    \A p \in Procs : LoneSet(p) =>
        LET r == req[p]
            memoryFiles == {"memory.max", "memory.swap.max"}
        IN  /\ \A u \in r.unified : file[u.f] = u.v
            /\ r.memory > 0 /\ r.swap > 0 /\ Unified(r) \cap memoryFiles = {} =>
                  file["memory.max"] + file["memory.swap.max"] = r.swap

(* memory and memory+swap are the same, which is how swap is turned off,   *)
(* and no unified setting says otherwise.                                  *)
TurnsSwapOff(r) == r.swap > 0 /\ r.swap = r.memory /\ "memory.swap.max" \notin Unified(r)

(* The names, among those that systemd has a property for in its version,  *)
(* which the fields and the unified settings of a request are about.       *)
Limits(r) ==
    {f \in {"memory.max"} : r.memory # 0} \cup {f \in {"memory.low"} : r.low # 0}
    \cup {f \in {"memory.swap.max"} : r.swap # 0 \/ r.memory = -1} \cup {f \in {"pids.max"} : r.pids # 0}
    \cup {f \in {"cpu.weight"} : r.cpuWeight # 0} \cup {f \in {"cpu.max"} : r.quota # 0 \/ r.period # 0}
    \cup {f \in {"cpuset.cpus"} : r.cpus # {} /\ env.sdVer >= 244}
    \cup {f \in {"cpuset.mems"} : r.mems # {} /\ env.sdVer >= 244}
    \cup (Unified(r) \cap (KnownToSystemd \cup {"cpu.max"}))
    \cup {f \in Unified(r) \cap {"cpuset.cpus", "cpuset.mems"} : env.sdVer >= 244}

(* After such a Set of the systemd manager the unit's properties agree     *)
(* with the files in every limit the request is about: the same number,    *)
(* and a CPU bandwidth that is the file's rounded up to a percent, but for *)
(* the microsecond that the division drops.                                *)
(*                                                                         *)
(* There is one exception.  A request that turns swap off writes 0 to the  *)
(* file (setMemory), but gives systemd no MemorySwapMax ("if swap != 0" in *)
(* genV2ResourcesProperties): the unit keeps the limit it had.  With       *)
(* memory at 100 and memory+swap at 300, then at 100, it goes on saying    *)
(* 200 where the file says 0.                                              *)
UnitAgrees ==
    \A p \in Procs : LoneSet(p) /\ env.systemd =>
        LET r == req[p]
            quota == file["cpu.max"][1]
            period == file["cpu.max"][2]
        IN  /\ \A f \in Limits(r) \ {"cpu.max"} :
                  unit[f] = file[f] \/ (f = "memory.swap.max" /\ TurnsSwapOff(r) /\ file[f] = 0)
            /\ "cpu.max" \in Limits(r) =>
                  \/ unit["cpu.max"] = Infinity /\ quota = Infinity
                  \/ /\ (unit["cpu.max"] + 1) * period > quota * 1000000
                     /\ (unit["cpu.max"] - 10000) * period < quota * 1000000

(* Without the exception.  TLC refutes it: a first Set leaves the unit     *)
(* without a limit, a second one with its old limit.                       *)
UnitAgreesOnSwap ==
    \A p \in Procs : LoneSet(p) /\ env.systemd /\ "memory.swap.max" \in Limits(req[p]) =>
        unit["memory.swap.max"] = file["memory.swap.max"]

(* A Set or Freeze that asked for FROZEN and was not disturbed returns nil *)
(* only when the kernel has stopped every process of the cgroup.  (A Set   *)
(* may ask for the opposite in a unified setting.)                         *)
AsksToFreeze(r) == r.freezer = "FROZEN" /\ (r.set => "cgroup.freeze" \notin Unified(r))
FreezeMeansFrozen == \A p \in Procs : LoneSuccess(p) /\ AsksToFreeze(req[p]) => frozen

(* Every call returns, even when the processes never freeze.               *)
CallsReturn == \A p \in Procs : pc[p] # "idle" ~> pc[p] = "idle"

=============================================================================
