---------------------------- MODULE DeviceFilter ----------------------------
(***************************************************************************)
(* What is computed from a list of device rules on a unified hierarchy:    *)
(* the eBPF program of cgroups/ebpf/devicefilter, and the DeviceAllow list *)
(* systemd is given (generateDeviceProperties in systemd/common.go).  An   *)
(* access is a device and the set of letters an open or a mknod asks for   *)
(* at once: an open for reading and writing asks for r and w.              *)
(***************************************************************************)
EXTENDS DeviceEmulator, Sequences, SequencesExt

AllAccesses == [d : Device, a : (SUBSET Perms) \ {{}}]

(* A fresh emulator that is given the rules one by one.                    *)
Emulate(rules) ==
    LET after[i \in 0..Len(rules)] ==
            IF i = 0 THEN Done(EmptyEmulator(FALSE))
            ELSE LET before == after[i - 1]
                 IN  IF before.err THEN before ELSE Apply(before.emu, rules[i])
    IN  after[Len(rules)]

-----------------------------------------------------------------------------
(* A mutation: a minor number of 0 is taken for a missing one.             *)
appendRuleZero(m, perms, acc) ==
    /\ acc.d.node = m.node
    /\ perms # Perms => acc.a \subseteq perms
    /\ m.major >= 0 => acc.d.major = m.major
    /\ m.minor > 0 => acc.d.minor = m.minor

(* appendRule: whether the block compiled for an exception decides about   *)
(* an access.  The letters are not looked at when the rule has them all.   *)
appendRule(m, perms, acc) ==
    /\ acc.d.node = m.node
    /\ perms # Perms => acc.a \subseteq perms
    /\ m.major >= 0 => acc.d.major = m.major
    /\ m.minor >= 0 => acc.d.minor = m.minor

(* DeviceFilter: a block for each exception, all with the same verdict,    *)
(* and the default at the end (finalize).  The accesses it returns 1 for.  *)
Filter(emu) ==
    {acc \in AllAccesses :
        IF \E m \in emu.keys : appendRule(m, emu.perms[m], acc) THEN ~emu.defaultAllow ELSE emu.defaultAllow}

-----------------------------------------------------------------------------
IsAllowAll(emu) == IsBlacklist(emu) /\ emu.keys = {}

(* generateDeviceProperties: the exceptions that have an entry in the      *)
(* DeviceAllow list.  env.groups are the majors with a line in             *)
(* /proc/devices and env.nodes the devices with a path under /dev/char or  *)
(* /dev/block, which systemd needs before version 240.                     *)
DeviceAllow(emu, env) ==
    {m \in emu.keys :
        /\ m.major = Wildcard => m.minor = Wildcard
        /\ m.major # Wildcard /\ m.minor = Wildcard => m.major \in env.groups
        /\ m.major # Wildcard /\ m.minor # Wildcard => env.sdVer >= 240 \/ m \in env.nodes}

(* The accesses systemd's own program allows for these properties.  It has *)
(* no deny lists: one is a deny-all list, unless it denies nothing.        *)
generateDeviceProperties(emu, env) ==
    IF IsAllowAll(emu) THEN AllAccesses
    ELSE IF IsBlacklist(emu) THEN {}
    ELSE {acc \in AllAccesses : \E m \in DeviceAllow(emu, env) : Matches(m, acc.d) /\ acc.a \subseteq emu.perms[m]}

-----------------------------------------------------------------------------
(* External: the kernel's cgroup v1 devices controller in the state that   *)
(* the emulator stands for.  One exception must cover an access to allow   *)
(* it; any exception that has one of its letters denies it.                *)
V1Allows(emu, acc) ==
    IF emu.defaultAllow
    THEN ~\E m \in deviceMeta : Matches(m, acc.d) /\ emu.perms[m] \cap acc.a # {}
    ELSE \E m \in deviceMeta : Matches(m, acc.d) /\ acc.a \subseteq emu.perms[m]

=============================================================================
