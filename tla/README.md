# A TLA+ model of libcontainer

libcontainer is the Go library that turns a container configuration into
cgroups, namespaces, device rules and security profiles. This directory holds
TLA+ modules translated from its source, TLC configurations that check them on
small instances, and proofs, checked by TLAPS, of the safety properties for
every value of the constants.

    tlc -config MCDevicesCgroup.cfg MCDevicesCgroup     # one run of PROJECT.json
    tlapm DevicesCgroupProofs.tla                       # the proofs of one component

`PROJECT.json` lists the components, the runs with their properties, for each
property a mutation of the model that breaks it, the source lines every
definition translates, the hazards the properties are for, the findings and the
theorems.

## 1. The system

The library is called by a runtime that makes, updates, freezes and removes
containers. A *cgroup manager* is made once per container and process
(`cgroups/manager`); there are four, over two kernel interfaces:

| manager | cgroup v1 | cgroup v2 |
|---|---|---|
| writes the cgroup files itself | `cgroups/fs` | `cgroups/fs2` |
| asks systemd over dbus, then writes the rest | `cgroups/systemd/v1.go` | `cgroups/systemd/v2.go` |

### Inventory

| component | state | operations | what makes it correct |
|---|---|---|---|
| systemd dbus connection (`systemd/dbus.go`) | the package variables `dbusC`, `dbusInited`, `dbusRootless` under `dbusMu` | newDbusConnManager, getConnection, resetConnection, retryOnDisconnect | one connection shared by all goroutines, none leaked, none closed while it works, one dial per bus restart, calls return |
| device rule emulator (`cgroups/devices`) | a default policy and a map of exceptions | Apply, EmulatorFromList, Transition, Rules | accepted rules are in force; Transition's rules lead from one policy to the other |
| v1 devices controller (`fs/devices.go`) | devices.allow, devices.deny, devices.list (kernel) | Set, Apply | Set reaches the policy asked for, and on the way grants nothing new |
| v1 freezer (`fs/freezer.go`) | freezer.state, freezer.self_freezing (kernel) | Set, GetState | freezes, or undoes the attempt; never waits for ever |
| systemd v1 manager (`systemd/v1.go`) | paths, `cgroups.Resources`, the unit | Apply, Set, Freeze, Destroy, GetFreezerState | devices change only under a frozen container; the freezer is restored |
| fs manager (`fs/fs.go`) | paths, `cgroups.Resources` under `mu` in some methods | Apply, Set, Freeze, Destroy | controllers applied in order, a failure reported |
| v1 memory and cpu controllers (`fs/memory.go`, `fs/cpu.go`) | limits in the kernel, pairwise constrained | Set, SetRtSched, Apply | the order of writes never makes a legal update fail |
| systemd unit calls (`systemd/common.go`) | the unit's job; a completion channel | startUnit, stopUnit, resetFailedUnit, setUnitProperties | waits for the job or times out; retries a failed unit once; a late completion harms nobody |
| systemd v2 manager, fs2 manager (`systemd/v2.go`, `fs2/`) | the unit's properties and the files of the unified hierarchy | Apply, Set, Freeze, Destroy | files, unit and device filter as asked; unit and files agree; errors ignored only in rootless mode |
| fs2 freezer, fs2 creation | cgroup.freeze, cgroup.events, cgroup.subtree_control | setFreezer, waitFrozen, CreateCgroupPath | freeze reported only when frozen; a failed creation removes what it made |
| cgroup paths (`cgroups/utils.go`, `fs/paths.go`) | directories and cgroup.procs | RemovePaths, WriteCgroupProc, EnterPid | removal is retried until empty; joining is retried on EINVAL |
| v1 cpuset (`fs/cpuset.go`) | cpuset.cpus and cpuset.mems of all ancestors | ApplyDir, ensureParent | no process joins a cpuset without CPUs or memory nodes |
| eBPF device filter (`cgroups/ebpf`) | the programs attached to the cgroup | DeviceFilter, LoadAttachCgroupDeviceFilter | the program decides as the emulator does; there is never no filter during an update |
| spec conversion (`specconv`), user namespaces, configuration types | the package table `AllowedDevices`, shared by all conversions of a process | CreateLibcontainerConfig and what it calls | default devices stay usable, ids are translated by the mapping in force, one conversion does not change the next |
| validator (`configs/validate`) | none | Validate | refuses what the later steps cannot carry out |
| seccomp (`seccomp`, `seccomp/patchbpf`) | the filter loaded into the kernel, its listener | InitSeccomp, PatchAndLoad, the -ENOSYS stub | ENOSYS exactly for the calls the profile cannot know; a notification always has a listener |
| Intel RDT, user lookup, AppArmor, utilities | mostly none | pure functions and single writes | field by field |

Interactions: a manager calls the controllers of its hierarchy one after the
other; the systemd managers go through the one dbus connection and then through
the same controllers; `fs/devices.go`, `fs2/devices.go` and the systemd device
properties all go through the emulator; the systemd v1 manager freezes the
container, through the v1 freezer, around the call to systemd.

### What is hard in it

* **Concurrency without locks.** `Set` and `Freeze` of the managers hold no lock
  while they talk to systemd and the kernel; the freezer state read at the start
  is used at the end; `fs` Freeze passes its argument through shared memory.
* **Tasks of the container run meanwhile.** They open devices between two writes
  to the devices cgroup and fork while it is being frozen.
* **Partial failure.** Every update is a list of file writes, any of which may
  fail; what is left behind is the start of the next update.
* **Order.** The kernel validates each limit against the others at each write.
* **Retries and timeouts.** The freeze loop (1000 attempts, a thaw every 50), the
  wait for systemd (30 s), the removal of a cgroup, the reconnection to dbus.
* **Representation.** A nil Go map is not an empty one; `-1` converted to
  `uint64`; clamped shares; a table of pointers that every conversion hands out;
  jump offsets of eight bits counted by hand.
* **Several writers of one thing.** A limit of a v2 container has a field, a unified
  setting and a property of the unit; a device filter has programs of several
  managers and of systemd; a parent directory belongs to several containers.

The `hazards` of `PROJECT.json` give these line by line, with the properties that
cover them or why none does yet.

## 2. Modules

| module | models | how |
|---|---|---|
| `DeviceEmulator` | `cgroups/devices/devices_emulator.go`, `devices/device.go` | operators without state: `Apply`, `addRule`, `rmRule`, and the plan of `Transition` as three batches |
| `DevicesCgroup` | `fs/devices.go` `Set` | extends `DeviceEmulator`; `kernel` is the controller, `pc` is the place in `Set`, each write is a step, each may fail |
| `DbusConn` | `systemd/dbus.go` | one `pc` per goroutine; sections under `dbusMu` that do not block are one step, the section that dials holds the mutex across steps |
| `FreezerV1` | `fs/freezer.go` | the routines `Set` and `GetState` per actor, each access to a file a step |
| `LegacySet` | `systemd/v1.go` `Set`, `freezeBeforeSet`, `Freeze`; `fs/fs.go` `Freeze` | extends `FreezerV1`; the managers' calls start the routines and act on what they return |
| `LimitsV1` | `fs/memory.go` `Set`, `fs/cpu.go` `Set` and `SetRtSched`, in the order of `fs/fs.go` `Set` | one step per write; the kernel's validation decides which are refused |
| `SystemdUnit` | `systemd/common.go` `startUnit`, `stopUnit`, `resetFailedUnit` | each call with a status channel of its own; systemd's unit and job are external; a request or a status may be lost with the bus |
| `Conversions` | the arithmetic of `cgroups/utils.go`, `systemd/common.go`, `systemd/cpuset.go`, `fs2/memory.go` | operators: shares, weights, swap, CPU quota, CPU lists |
| `DeviceFilter` | `ebpf/devicefilter`, generateDeviceProperties of `systemd/common.go` | extends `DeviceEmulator`; the compiled program and systemd's properties as the set of accesses they let through, block by block |
| `EbpfAttach` | `ebpf/ebpf_linux.go` | a `pc` per caller; find, attach or replace, detach, each a step that may fail |
| `DeviceGuard` | | the abstract specification of `EbpfAttach` |
| `UnifiedSet` | `fs2/` Set and Freeze, `systemd/v2.go` Set | composes `EbpfAttach`, `DeviceFilter` and `Conversions`; a call is a sequence of steps computed from the request, each write one of them |
| `ManagerLife` | Apply and Destroy of the four managers, `cgroups/utils.go`, `fs/paths.go`, `fs/cpuset.go`, `fs2/create.go` | a tree of directories per hierarchy; a call is a sequence of steps on it; the container's process is an actor of its own |
| `Seccomp` | `seccomp/`, `seccomp/patchbpf`, SetupSeccomp | the phases of InitSeccomp; the stub as BPF instructions, which an interpreter (`Run`) runs on every call number |
| `SpecConv` | `specconv/spec_linux.go`, `configs/validate`, `configs/config_linux.go`, `userns` | the conversion in the order of its calls, then Validate; uses `DeviceFilter` and `Conversions` |
| `DevicesCgroupProofs`, `DbusConnProofs`, `LegacySetProofs`, `LimitsV1Proofs`, `SystemdUnitProofs`, `ManagerLifeProofs`, `UnifiedSetProofs`, `SpecConvProofs` | | the theorems |
| `MCDevicesCgroup`, `MCLimitsV1`, `MCUnifiedSet`, `MCManagerLife`, `MCSeccomp`, `MCSpecConv` | | constants of the runs |

`FreezerV1` and `LegacySet` are one system in two modules: the first has the
kernel and the routines, the second the callers. `SystemdUnit` uses
retryOnDisconnect the way `DbusConn` shows it to behave: a request is repeated as
long as the connection breaks under it, and then returns. `ManagerLife` in turn
takes from `SystemdUnit` that startUnit succeeds as a whole or fails, and that stopUnit
fails or returns nil with the unit gone or still there.
`UnifiedSet` is a composition: its callers run the attach protocol of `EbpfAttach`
with the programs `DeviceFilter` compiles from the rules the emulator accepts.

Definitions marked external in the map stand for the kernel, systemd and the bus.
They say what the code in this repository relies on:

* devices controller: `a` resets the cgroup, any other rule changes the exception
  with exactly its type, major and minor; `devices.list` of an allow-all cgroup
  hides its exceptions;
* freezer: a cgroup freezes when it or an ancestor is told to, and is FREEZING
  until every task has stopped; a thaw written to it does not thaw an ancestor;
* memory: `limit <= memsw` is enforced at every write; the memsw file exists only
  with swap accounting;
* cpu: a period and a quota must be in range and within the parent's share of the
  CPU; shares are clamped and never refused. The kernel compares ratios rounded
  down to a fixed precision, the model compares them exactly, which is the same
  for a parent whose ratio is a rounded one;
* device programs: an access is let through when every attached program lets it
  through; replacing a program that is no longer attached fails. systemd's program for
  new properties takes the place of its earlier one. The model lets a caller that found
  the earlier one detach the later, which is more than the kernel does;
* cgroup directories: rmdir of a directory with a process or a sub-cgroup fails; a
  cpuset without CPUs takes no process; a directory below a threaded one is invalid;
* cgroup.events: says frozen some time after cgroup.freeze was written, or never;
* seccomp: the interpreter has the load, jump, conditional jump and return of classic
  BPF; libseccomp's own filter is the set of rules given to it;
* bus: a restart makes every open connection dead; an operation on a connection
  that is dead or closed fails with dbus.ErrClosed;
* systemd: a unit that exists, even a failed one, makes StartTransientUnit fail; a
  stop cancels a start and joins another stop; the status of a job is sent once to
  each channel registered on a connection that is still up. A call to the bus gets an
  answer or breaks with the connection: it has no deadline of its own in the code.

What is abstracted: a device permission string is a set of letters (every
operation of the code on it goes through a set); names, paths, log messages and
the text of a `devices.list` line are left out; a file of a v2 cgroup is an entry of a
function, keyed by its name, and there are two huge page sizes; sleeping is a step boundary;
which of several errors is returned is kept only where a property tells them
apart.

Definitions under a comment that starts "A mutation" are not part of any
specification: each is a plausible mistake in the definition that follows it, and
`PROJECT.json` names the property that catches it.

## 3. Runs

### `devices`: MCDevicesCgroup, passes

Any sequence of Set calls, any rule list of up to two rules, any read or write
failing. Instance: one char device, major 1, minor 3, and the three wildcards over
it; permissions r and w. One device with its wildcards is enough for every way in
which two metas of one device overlap; two permissions are enough for an update
that keeps one and drops the other; two rules are enough for a wildcard and an
exception to it, and, since calls follow each other, for the transition from any
such policy to any other. Deadlock is checked: `Set` can always be called again.

* `SetReachesTarget`: a Set that returned nil left the kernel in the state asked
  for. The code verifies only white-lists; for black-lists it rests on the `a`
  rule being written first.
* `TransientBounded`: while writing, and after a write failed, no access is
  granted that neither policy grants (towards a black-list: refused that neither
  refuses).
* `KeepsCommonRules`: between white-lists, what the target keeps is never taken
  away.
* `AcceptedRuleInForce`: an accepted rule about one device decides that device.

### `dbus`: DbusConn, passes

Three goroutines (the third comes between two that race), two restarts of the bus
(one can hit the connection that replaced another). `MaxConns` is one more than
`OneReconnectPerDrop` allows, so the bound never hides a dial too many.

* `NoLeakedConnection`, `OneReconnectPerDrop`, `RightBus`, `HealthyNeverClosed`,
  and the liveness property `CallsReturn`.
* Fairness: strong fairness of each goroutine's own steps. A goroutine is scheduled
  and `sync.RWMutex` lets no waiter starve; weak fairness would let a goroutine
  that waits for a mutex, free again and again, be passed over for ever. Nothing
  obliges anyone to make a call, or the bus to restart or to stay up.

### `legacy_set`: LegacySet, passes

Calls of legacyManager.Set, legacyManager.Freeze and manager.Freeze one after the
other, two in all, so that the second starts from whatever the first left. The
freeze loop has 3 attempts and thaws in every second one (the code: 1000 and 50):
an attempt before a thaw, the one that thaws, and one after. Two disturbances: a
task that appears, and an ancestor that freezes or thaws. Because calls are
bounded the system may stop: deadlock is not checked.

* `DisruptsOnlyFrozen`: systemd applies device rules only while the container's own
  cgroup is frozen.
* `SetPreservesFreezer`: a Set that asks nothing of the freezer leaves it as it was,
  unless the write that thaws failed (the code logs that and goes on).
* `OkMeansAsked`, `FailedFreezeThaws`, and the liveness property `CallsReturn`.
* Fairness: weak fairness of each call's own steps but for the error of a read, and of
  `Settle`: a task told to freeze stops in the end. GetState has no limit of its own and
  relies on that; nothing makes a read fail to end its wait.

`OldKernel` is FALSE: the kernel has freezer.self_freezing. On a kernel without
it GetState takes a container frozen by an ancestor for one frozen itself, which
the code's comment accepts.

### `legacy_set_overlap`: LegacySet, a violation

Two actors, two calls of legacyManager.Set in all, no disturbances, two attempts of which
none thaws first (as in the first 49 of the code's). `OverlapStaysFrozen` is
`DisruptsOnlyFrozen` for Sets that update devices, ask nothing of the freezer and meet no
failure (`OnlyPlainSets`), so that only a Set's own freezing and thawing is in the way of
the other; see Findings.

### `limits`: MCLimitsV1, passes

Any sequence of updates, any write failing. `Unlimited` is 5 and `2^64` is 16, so
that negative numbers wrap to values above every limit as they do in the code.
Requests: memory -2..2 with swap -2..3; quota -1, 0, 2, 3 with period 0, 1, 2, 4
for each scheduler; shares below the minimum and in range. The parent has three
quarters of a CPU and half of one for real time, so that all of "fits with both",
"fits only with the new", "fits only with the old" and "never fits" occur. One
pair per request: the pairs share no state, and the runs of requests cover every
pair of old and new values.

* `OnlyBadRequestsRefused`: the kernel refuses a value only when the limits asked
  for cannot stand together in any order.
* `SuccessIsExact`: success means exactly the limits asked for.
* `NoStrayLimit`: in the middle and after a failure each limit is old or new.

### `systemd_unit`: SystemdUnit, passes

Two calls, each to start the unit, to start it and ignore that it exists, or to stop
it, in any overlap, on a unit that does not exist, is active or failed; two restarts
of the bus, so that both the request and the status of one call can be lost. Each call
is made once, so the system stops: deadlock is not checked.

* `StartedMeansOurs`: a start that may not ignore an existing unit succeeds only if a
  unit it made itself became active, also when a reply was lost and the request
  repeated.
* `OneStatusPerChannel`: the channel is shared by all attempts of a call and outlives
  a timeout, yet gets at most one status, and none after it was closed (a panic).
* `LeftoverNeverBlocks`: a failed unit left over makes a start fail only if it cannot
  be reset.
* `StoppedMeansGone`: a stop that returns nil saw the unit go, except in the two cases
  the code swallows.
* `CallsReturn`, under weak fairness of each call's own steps: the timer is one of
  them. systemd need not finish any job.

What the run does not claim: a start that timed out leaves the job running, and the
unit may come up after the caller was told of the error.

### `unified`: MCUnifiedSet, passes

Two managers of one cgroup, in processes of their own, make two calls of Set or Freeze
that overlap or follow each other. Any access to a file or to the bus may fail. Three
hosts: a rootless fs2 manager on an old kernel (no replacing of programs, BFQ with device
weights, no hugetlb reservation); systemd of version 245; systemd of version 239 whose
device program cannot be opened. The first starts from a manager without resources, which
cannot Freeze before it was Set. Eight requests, which between them use every setting,
every error return and every kind of rule list. Two calls are enough for one to disturb
another at each of its steps, and for one to start from what another left. `MaxProgs`
is one program for each call. `maxIter` is 2 where waitFrozen has 1000 rounds of 10 ms:
the loop's exits do not depend on the count.

* `NewestInForce`: the program attached last stays, however the calls overlap and fail.
* `GuardSpec`: the refinement of `DeviceGuard`, which says of a call what `NewestInForce`
  does not: it installs its filter once, as it was given; it removes others only after that,
  and never the newest; nil means that its filter was installed and that nothing in force
  when it was called is so any more, however often another caller has replaced a program
  between the two. The mutant takes a program that has gone since for one replaced.
* `SetEnforces`: after a Set that nothing disturbed exactly the accesses of the requested
  filter pass; only a program that cannot be opened refuses more. Together with
  `NewestInForce` it says that an update neither opens nor closes the container.
* `FilterMatchesV1`: the compiled filter decides as a v1 controller with the same rules
  would, for every access under an allow list and for every single letter under a deny list.
* `SettingsApplied`: unified settings win over fields in both ways of setting them, and the
  memory and swap limits add up, down to no swap at all.
* `UnitAgrees`: what systemd keeps for the unit is what is in the files, the CPU bandwidth
  rounded up to a percent; systemd, which writes the files again when it likes, takes
  nothing back. The exception is a request that turns swap off: the file is then 0 and the
  unit is as it was before (section 5).
* `FreezeMeansFrozen`: nil after FROZEN means that the kernel has stopped every process.
* `CallsReturn`, under weak fairness of each caller's own steps: a process is scheduled,
  and no step of a call waits for another process. Nothing is assumed of failures, nor of
  the kernel: cgroup.events may never say frozen.

### `ebpf_denylist`: MCUnifiedSet, a violation

The same instance with the claim of a comment; see Findings.

### `life`: MCManagerLife, passes

Apply and then Destroy, twice, of one container, beside a neighbour that applies in the
same parent directories; in each of nine environments: the four managers, with and
without rootless mode, limits or a process (pid -1), with the parent there, missing or
threaded, and with limits that threaded mode allows or not. Any step may fail. The
container's process makes a sub-cgroup in any hierarchy, moves into it and exits at any time
after Apply, Destroy under way included. Two ancestors show an order of creation; two v1 hierarchies, of which one is
cpuset, and systemd's own show one that fails after another is done. `Retries` and
`Writes` are 2 where the code has 5: a first attempt, one more, and giving up.
`Neighbours` names the container of which only Apply is considered, `MaxDestroys` allows
the repetition of a Destroy that failed.

* `JoinedEverywhere`: after an Apply that returned nil the process is in the container's
  cgroup in every hierarchy. The code makes three exceptions, which the property states: a
  rootless fs manager forgets the hierarchies it may not join; a rootless fs2 manager that
  was asked for no limits and no path, and could not make its directory, returns nil and has
  joined nothing (`fs2/fs2.go:73`); for pid -1 WriteCgroupProc moves nobody.
* `NoForgottenCgroup`: a cgroup of the container that exists is in the manager's paths, so
  that a Destroy can be repeated, and a Destroy that returned nil left none.
* `CleanFailure`: a CreateCgroupPath that failed on its own left none of its directories.
  With two at once a directory that the other uses stays, and its maker does not know; the
  code promises nothing there.
* `CpusetReady`: whoever made the shared parent, a process is only moved into a cpuset
  that has CPUs.

### `seccomp`: MCSeccomp, passes

About 32,000 profiles: lists of up to three of five architectures (one with two call
modes in one audit architecture, one with a multiplexed call 0), two native
architectures, rules of one or two blocks with good and bad conditions, and what
SetupSeccomp turns away. The stub is run on every number from 0 to 11 for every
architecture. `X32Bit` is 8 and `MaxSkip` 7 in place of 2^30 and 255, so that three
architectures already make jumps too long for one instruction; map iteration is any
order of the sections. Deadlock is checked: a finished run stutters.

* `StubMeansUnknown`: the loaded stub answers ENOSYS to exactly the numbers beyond the last
  one the profile names for the caller's mode, and hands on everything else.
* `WriteNeverNotifies`, `NotifyHasListener`: the two things that would hang the container.

### `spec_conv`: MCSpecConv, passes; `spec_shared`: a violation

One conversion of each of about 8,100 documents along three lines: every rule list of up
to two rules over the default devices and their wildcards, with and without a device that
is declared again; every combination of a user name space (none, new, two to join, one
that is gone), mappings, cgroup mount options and user; and one thing changed at a time
for every check of the conversion and of the validator. Mappings of two ranges show an id
in the second one and an id in neither. `spec_shared` makes two conversions in one
process, with and without a user name space.

* `DefaultDevicesUsable`: whatever the document's rules, the default devices it did not
  declare can be opened if the emulator takes the list at all.
* `CgroupOwnerIsMapped`: the owner given to the cgroup is the host id of the process.
* `MappingInForce`: the mappings in the configuration of an accepted document with a user
  name space are those of the name space the container will be in, for users and for groups.
  Mappings without a user name space are ignored.

## 4. Proofs

Eight modules prove, for every value of the constants, all safety properties of the
passing runs, and a little arithmetic that they rest on. Each has an inductive invariant
`IInv`, the lemmas `InitIInv` and `NextIInv` (`InitFits` and `NextFits` in
`ManagerLifeProofs`, `MapInv`, `DevInv` and `SeccompInv` in `SpecConvProofs`; one case per
action), `Invariance`, and one theorem per property.

**DevicesCgroupProofs** (assumes `DeviceConstants`: nodes are block or char, numbers
are natural; `MaxRulesAssumption`). The properties say nothing about the middle of
the write loop, so `IInv` says where it is: at each `pc` the kernel agrees with the
source on the metas still to be written and with the target on the others
(`AtPlan`, `AtDrop`, `AtGain`, `AtCheck`), and in a black-list transition the `a`
rule is behind us. `TransientIsBounded` follows from that
description of the kernel and `DepartsIffExcepted`, and `AfterWriteErr` carries it
across a failed call. `CommonRulesKept` and `AcceptedRulesHold` are action
properties; the latter rests on `ConcreteRule`, a case analysis of `addRule` and
`rmRule` with the three wildcards that contain a device.

**DbusConnProofs** (assumes `DbusAssumption`, `NoProcAssumption`). `IInv` adds that
connections are numbered as they are dialled, that a goroutine is dialling exactly
when it holds the mutex and then there is no shared connection, that a goroutine
about to reset holds a connection that is dead or closed, that dials are paid for by
drops, and that all managers use one bus. `HealthyKept` is an action property.

**LegacySetProofs** (assumes `FreezerAssumption`, `LegacyAssumption`). The theorems are
about `Spec /\ []Serial`: any number of actors, whose calls follow one another; overlapping
calls are finding 1. With one actor, as in the run, `Serial` always holds. `DisruptsFrozen`
also takes `~OldKernel`: without `freezer.self_freezing` GetState reads the effective state,
takes an ancestor's freeze for the container's own and leaves the freeze out, as its comment
says. The properties compare the end of a call with its beginning. `IInv` says what holds of
the freezer in between: at each stage of a call (`AtQuery` to `AtFsCall`), in terms of where
the routine it waits for has got to (`SetReached`, `GetReached`), with the exception of a
thaw that failed, which `stuck` records. `ReturnOutcome` is what a returning call
establishes; three action properties follow from it.

**LimitsV1Proofs** (assumes `LimitsAssumption`: the clamps are ordered, limits fit in
an int64, which is half of a uint64). The heart is `EitherOrderFits`: if the old pair
and the new pair both fit, and the new period does not fit with the old quota, then
the new quota fits with the old period. It is why one retry of the period is enough.
`IInv` says at each `pc` which values are already new (`MemoryPhase`, `CpuPhase`),
what the order chosen by setMemoryAndSwap says about the old limit and the new swap
limit (in `MemoryPhase`), and that a cgroup without swap accounting has no swap limit
(`SwapFacts`).

**SystemdUnitProofs** (assumes `DropsAssumption`, `NobodyAssumption`). `IInv` says who
waits for the job (`Waiters`: of a start only the call that made the unit), that a
channel is empty and unknown to systemd until its request is accepted (`Fresh`), what a
status in the channel implies about the unit (`StatusTrue`), and that after the reset a
unit can only be one that lived since (`RetryClean`, which needs `LiveSeen`).

**ManagerLifeProofs** (no assumptions). The state after a call depends on what the steps
left in `todo` will do, so `IInv` is about them. `Local` gives the shape of each step, the
order of any two (`PairOK`: a step of a hierarchy does not follow its join; directories are
created from the root down and undone from the bottom up), and three facts that an Apply
depends on: what has not been joined has a join among the steps (`Pending`), a directory is
created below the ones made (`Growing`), and before a process joins a cpuset there is a copy
of CPUs into it, and before that one into its parent (`Ready`). `Known` says that the paths cover the cgroups that exist, and in
a v2 Destroy that a removal is still to come. `Clean` is about a manager that no other call
overlaps (`Alone`): what lies below a directory it made, it made itself (`Covered`), so that
removing the deepest first empties every one. `Tree` and `InPlace` tie directories and
process together. The proof has three layers: what a call computes has that shape
(`ApplyFits`, `RemoveFits`), dropping the head or a prefix of the steps keeps it
(`LocalContinue`, `LocalSkip`, `LocalUndo`), and each action changes one container and a few
directories (`CallStep`, `ContinueStep`, `OthersKept`). No recursion or induction is needed:
the invariant quantifies over the positions of `todo`.

**UnifiedSetProofs** (assumes `EbpfAssumption`, `DeviceConstants`, `UnifiedAssumption`: the
accesses are those to devices; a request is one that configs.Resources can hold, and its
unified settings are a finite map) has the parts first and then the whole.

* *The attach protocol*, about `EbpfSpec`: any number of callers attach any policies while
  systemd comes and goes. `NewestInForce` is not inductive: a caller that detaches must not
  have the newest program on its list. `AttachInv` adds `NumberedInOrder` (attached programs
  have numbers up to the newest) and `OldIsOld` (a caller's list holds programs older than
  the newest, once its own is attached). `ImplementsGuard` proves the refinement of
  `DeviceGuard`, with a lemma for each action: an attach maps to `Install`, a detach to
  `Remove` or, with nothing left to detach, `Succeed`; finding programs and systemd's steps
  change nothing that `DeviceGuard` sees. That a nil saw the filters go that were there when
  the call was made needs `BeforeIsFound`: what of them is still attached is on the list.
* *Arithmetic.* `SharesGiveWeights` and `BlkioGivesWeights`: the kernel's range of v1 values
  goes into the range of v2 values; `SharesKeepOrder`: the conversion is monotone;
  `SwapAddsUp`: memory and swap add up to memory+swap; `QuotaRoundsUp`: the bandwidth for
  systemd is whole percents, less than one above the quota, and below it by less than a
  microsecond a second.
* *The emulator and the filter.* `EmulateSound`: whatever the list of rules, the emulator has
  an entry for every exception. It is by induction over the list: `NatSetInduction` states
  induction for a set of numbers, which follows from a least element (`WFMin`), and
  `TraceExists` and `EmulateIsTrace` turn the recursive function into an array of intermediate
  emulators. With it the compiled blocks decide as the v1 controller does (`FilterIsV1`).
* *Requests.* What fs2's Set writes and what systemd is given are computed from the request by
  different code. `StepsOfSet` says of the steps that the last one for each file leaves what
  was asked (`Asked`: the fields, overridden by the unified settings), or that one of them
  refuses; `GivenUnique`, `GivenAsked` and `GivenCpu` say that systemd has one value for a
  property, the same one, or the same bandwidth rounded.
* *Calls*, about `Spec`. `IInv` is about what a call has still to do: what was asked of a file
  is there and no step left touches it, or one of the steps left writes it last (`Promised`);
  the unit has its properties (`InUnit`); the programs a lone caller found are all that can be
  opened, so that only its own is left when they are gone (`Guarded`); a freeze is to come, is
  waited for, or has happened (`Freezing`). A call that is not alone promises nothing, so a
  step is judged for its own caller only (`Locally`); most steps take the first one off the
  list (`PopStep`) or end in an error (`ErrReturn`). `CallsAttach` shows that whole calls run
  the attach protocol, and carries its two theorems over.

**SpecConvProofs** (assumes `DeviceConstants`, `SpecAssumption`: the devices include the
default ones; a document's mappings, devices and rules are lists of what the types of the
code hold, and so are the mappings of a name space of the host). Two invariants, each over
any number of calls that share the table of default devices:

* `MapInv` follows the user name space through the calls: the configuration has one exactly
  when the document has, with the document's path (`OneOfEachType`: a type given twice is
  refused), its mappings are those in force from setupUserNamespace on, and the owner is an
  id they give. `MappedID` says that hostIDFromMapping takes the first range that holds the
  id, which exists because a set of indices has a least one.
* `DevInv`: the path and the rule of an entry of the table never change, whatever its owner
  becomes; the nodes a configuration shares are among the defaults its document leaves; its
  rules are the document's followed by those defaults'. `AllowTakes` and `AllowKeeps` say
  what an accepted allow rule does to the emulator in either mode: the device it names can
  be used, and no device is lost; `DefaultInForce` is the induction over the rule list.

The second half of **SpecConvProofs** is about `Seccomp` (assumes `SeccompAssumption`: the
native architecture and those of the profiles have a table of numbers, the names libseccomp
knows are finitely many, and a conditional jump reaches at least two instructions on). The
run has one small table and jumps of at most 7; the theorems are about any table, any set of
architectures and any longest jump, 255 among them.

* *Running a program.* `RunExists` shows, by induction over what is left of the program, that
  the recursion of `Run` defines a function for every program whose jumps go forward. The stub
  is laid out from its end, so a place in it is named by how many instructions follow
  (`Left`), which prepending does not change; `JumpDoes`, `JumpIfDoes` and `RetDoes` are one
  step each.
* *A section.* `CompareAnswers`, `OneModeAnswers` and `TwoModesAnswer` execute each form of a
  section, with short and with long jumps: run before an end of known length, it answers
  ENOSYS or gets to the filter as it should. The distances `base + 1` and `base + 2` of the
  code are right there, and `Uint8` never cuts one off.
* *The two loops.* `SectionsAreGood` and `JumpsAreGood` are inductions over the iterations, in
  any order of the Go map: an entry of the jump table leads to the section of its
  architecture, however much was put in front since (`AddSectionGood`), and the jumps put in
  front get there from the architecture's number (`AddArchJumpGood`). `StubAnswers` puts them
  together.
* *The table.* `LastIsOK`: findLastSyscalls has one mode per audit architecture but for x86_64,
  and the largest number exists since the names are finitely many (`LargestExists`).
* *InitSeccomp.* `SeccompInv` says what each phase leaves to the next: the filter has rules for
  calls of the profile only, each with the call's action, nothing in `NotifyProblem` got past
  the check, the listener was asked for exactly when a rule notifies.

Only model-checked: the liveness properties (`CallsReturn` of `DbusConn`, `LegacySet`,
`SystemdUnit` and `UnifiedSet`), since temporal reasoning with ENABLED is out of the
prover's reach; and the findings, which are counterexamples. No module uses a RECURSIVE
operator.

## 5. Findings

Each is a run that expects a violation.

1. Two overlapping `legacyManager.Set` calls on a running container, neither of which asks
   for a freezer state or fails (`legacy_set_overlap`). The first finds the container
   thawed and freezes it; the second reads FROZEN and concludes that it should stay so; the
   first updates the unit and thaws; then the second updates the devices of a container
   that runs.
2. The eBPF filter of a deny list refuses an access only if a rule denies all letters of
   it: with `w` of a device denied, an open for reading and writing passes, which the v1
   controller refuses (`ebpf_denylist`). The comment promises the same behaviour.
3. setupUserNamespace writes the owner of the device nodes through pointers into the
   package table of default devices, so the next container of the process gets nodes that
   belong to the root of the first (`spec_shared`).

Observed while modelling. The first five are stated as properties that no run has; TLC
refutes each when it is added to the configuration named.

* `MismatchIsReal` (`MCDevicesCgroup.cfg`): `fs/devices.go:98` compares emulators with
  reflect.DeepEqual; a rule list whose exceptions cancel out leaves an empty map where
  devices.list yields a nil one, and Set fails although the cgroup is as requested.
* `NoHolePunchedSilently` (`MCDevicesCgroup.cfg`): `rmRule` considers only wildcards that
  contain the rule, not those that overlap it: denying `c 1:*` after allowing `c *:3` is
  accepted and leaves 1:3 allowed.
* `NoSpuriousDeviceErrors` (`MCDevicesCgroup.cfg`): `Transition` removes before it adds:
  from `c 1:*` to `c 1:3` the device is refused for a moment.
* `FreezeNotCrossed` (`LegacySetOverlap.cfg` with `Ops = {"fsFreeze"}`): two overlapping
  `Freeze` calls on one fs manager share `Resources.Freezer`: one can apply the state of
  the other and report success.
* `UnitAgreesOnSwap` (`MCUnifiedSet.cfg`): memory equal to memory+swap turns swap off. The
  limit of 0 is written to memory.swap.max (`fs2/memory.go:49`) and not given to systemd
  (`systemd/v2.go:204`), whose unit keeps the MemorySwapMax of an earlier Set, or none, and
  disagrees with the file until it is given another.
* generatePatch (`patchbpf/enosys_linux.go:586`) compares defaultErrnoRet with
  SCMP_ACT_ERRNO(ENOSYS), which no errno is equal to, so a profile whose default is ENOSYS
  is patched too; the stub then answers as the filter would (`Unpatched` of `Seccomp`).
* An annotation for the systemd property `Sec` passes checkPropertyName and makes
  `specconv/spec_linux.go:603` index an empty string (`IndexPanics` of `SpecConv`).
* `configs/cgroup_linux.go:87` says that a PidsLimit of 0 or less disables the limit; fs2's
  setPids leaves the file alone for 0 and writes a number below -1 as it is (`fs2/pids.go:16`).
* addCpuQuota divides before it rounds up: 99001 us of 100001 us become 99 % instead of
  100 %, a microsecond a second too little.

## 6. Not modelled

Parsers and formatters of kernel files, statistics, mount-table detection, the
disassembly of BPF programs, wrappers of system calls: I/O or field-by-field
translation without a state that a property could be about. EnterPid, CpuGroup.Apply's
real-time limits, ExpandSlice and the single writes of the small v1 controllers are left
to the plan. A crash between two steps is not an action: the library persists nothing
and has no code that recovers, so it would only show that the work is half done, which
the failures of single steps show too. The `components` of `PROJECT.json` give the
reason for each.

Some details of modelled functions are left out, because no property depends on them.
WriteFile is one write: the loop that repeats it after EINTR (`file.go:60`) is in it, and so
must end. addCpuQuota is over unbounded integers: its product overflows an int64 for a quota
above 9.2e12 us, over a hundred days. getAction keeps the errno as it is, where
`seccomp_linux.go:120` cuts it to an int16. HostUID and HostGID refuse an id above MaxInt,
which no 32-bit id is on a 64-bit machine. A directory that CreateCgroupPath undoes can be
kept from going only by what is in it.

## 7. Plan

Done: the modules of sections 2 and 3. Left, in this order:

1. An abstract connection (an operation is repeated while the bus restarts) that
   `DbusConn` implements, and that `SystemdUnit` builds on.
2. Intel RDT's Apply, Set and Destroy; GetExecUser's precedence; EnterPid.
