--------------------------- MODULE DeviceEmulator ---------------------------
(***************************************************************************)
(* The in-memory emulation of a cgroup v1 devices controller, from         *)
(* cgroups/devices/devices_emulator.go and devices/device.go.  An Emulator *)
(* is a default policy and a map of exceptions (deviceRules).  This module *)
(* has no state: it is the pure algebra that fs/devices.go, fs2/devices.go *)
(* and the systemd device properties are computed with.                    *)
(*                                                                         *)
(* A devices.Permissions string is a set of letters: the only operations   *)
(* the code applies to it (Union, Difference, Intersection) go through     *)
(* toSet / fromSet, so a non-canonical spelling ("mr") never survives one. *)
(***************************************************************************)
EXTENDS Integers

CONSTANTS Nodes,    \* the device types a meta can have: block, char
          Majors,   \* the concrete major numbers
          Minors,   \* the concrete minor numbers
          Perms     \* the access letters r, w, m

(* devices.Wildcard and the runes of devices.Type.                         *)
Wildcard == -1
WildcardDevice == 97
BlockDevice == 98
CharDevice == 99
FifoDevice == 112

ASSUME DeviceConstants ==
    /\ Nodes \subseteq {BlockDevice, CharDevice}
    /\ Majors \subseteq Nat
    /\ Minors \subseteq Nat
    /\ Perms \subseteq {"r", "w", "m"}

CanCgroup(type) == type \in {WildcardDevice, BlockDevice, CharDevice}

(* deviceMeta: the match part of a rule.  Device: what a process opens.    *)
deviceMeta == [node : Nodes, major : Majors \cup {Wildcard}, minor : Minors \cup {Wildcard}]
Device == [node : Nodes, major : Majors, minor : Minors]

(* devices.Rule.  For type 'a' (all) every field but Allow is ignored, and *)
(* a fifo is a valid device type that has no cgroup rule.                  *)
Rule == [type : Nodes \cup {WildcardDevice, FifoDevice}, major : Majors \cup {Wildcard},
         minor : Minors \cup {Wildcard}, perms : SUBSET Perms, allow : BOOLEAN]

(***************************************************************************)
(* Emulator.  The Go map is split into what the code can observe of it:    *)
(* made  - whether the map was ever allocated (a nil map and an empty map  *)
(*         are different values to reflect.DeepEqual),                     *)
(* keys  - the metas that have an entry (possibly with no permission),     *)
(* perms - what indexing the map yields; a missing key yields "".          *)
(***************************************************************************)
NoPerms == [m \in deviceMeta |-> {}]

Emulator == [defaultAllow : BOOLEAN, made : BOOLEAN, keys : SUBSET deviceMeta,
             perms : [deviceMeta -> SUBSET Perms]]

EmptyEmulator(default) ==
    [defaultAllow |-> default, made |-> FALSE, keys |-> {}, perms |-> NoPerms]

IsBlacklist(e) == e.defaultAllow

(* The rule order of orderedEntries: by major, minor, node.                *)
Before(a, b) ==
    \/ a.major < b.major
    \/ a.major = b.major /\ a.minor < b.minor
    \/ a.major = b.major /\ a.minor = b.minor /\ a.node < b.node

-----------------------------------------------------------------------------
(* Every operation returns [err, emu]: on an error the caller drops emu.   *)
Done(e) == [err |-> FALSE, emu |-> e]
Failed(e) == [err |-> TRUE, emu |-> e]

addRule(e, meta, perms) ==
    Done([defaultAllow |-> e.defaultAllow, made |-> TRUE, keys |-> e.keys \cup {meta},
          perms |-> [e.perms EXCEPT ![meta] = @ \cup perms]])

(* A mutation: the wildcard over majors is forgotten.                      *)
PartialMetasNoMajor(meta) ==
    {[meta EXCEPT !.minor = Wildcard], [meta EXCEPT !.major = Wildcard, !.minor = Wildcard]} \ {meta}

(* The wildcard metas rmRule looks at before it removes a rule.            *)
PartialMetas(meta) ==
    {[meta EXCEPT !.major = Wildcard], [meta EXCEPT !.minor = Wildcard],
     [meta EXCEPT !.major = Wildcard, !.minor = Wildcard]} \ {meta}

rmRule(e, meta, perms) ==
    IF \E pm \in PartialMetas(meta) : e.perms[pm] \cap perms # {}
    THEN Failed(e)
    ELSE LET newPerms == e.perms[meta] \ perms
         IN  Done([defaultAllow |-> e.defaultAllow, made |-> e.made,
                   keys |-> IF newPerms = {} THEN e.keys \ {meta} ELSE e.keys,
                   perms |-> [e.perms EXCEPT ![meta] = newPerms]])

(* allow / deny on a non-wildcard type: in the mode the rule agrees with,  *)
(* an exception is removed, in the other mode one is added.                *)
Except(e, meta, perms, allow) ==
    IF e.defaultAllow = allow THEN rmRule(e, meta, perms) ELSE addRule(e, meta, perms)

MetaOf(rule) == [node |-> rule.type, major |-> rule.major, minor |-> rule.minor]

Apply(e, rule) ==
    IF ~CanCgroup(rule.type) THEN Failed(e)
    ELSE IF rule.type = WildcardDevice THEN Done(EmptyEmulator(rule.allow))
    ELSE Except(e, MetaOf(rule), rule.perms, rule.allow)

-----------------------------------------------------------------------------
(***************************************************************************)
(* Transition(source, target): the rules that turn a cgroup in the state   *)
(* source into target, as three batches the caller writes in this order:   *)
(* an 'a' rule (when Disrupts), then the permissions each old exception    *)
(* loses, then those each new exception gains.                             *)
(***************************************************************************)
(* A mutation: a black-list source is trusted to have no exceptions.       *)
DisruptsOnModeOnly(source, target) == source.defaultAllow # target.defaultAllow

Disrupts(source, target) ==
    IsBlacklist(source) \/ source.defaultAllow # target.defaultAllow

OldPerms(source, target) == IF Disrupts(source, target) THEN NoPerms ELSE source.perms

(* A mutation: all of an old exception that changes is dropped.            *)
DroppedWhole(source, target, m) ==
    IF target.perms[m] = OldPerms(source, target)[m] THEN {} ELSE OldPerms(source, target)[m]

Dropped(source, target, m) == OldPerms(source, target)[m] \ target.perms[m]
Gained(source, target, m) == target.perms[m] \ OldPerms(source, target)[m]

DropMetas(source, target) == {m \in deviceMeta : Dropped(source, target, m) # {}}
GainMetas(source, target) == {m \in deviceMeta : Gained(source, target, m) # {}}

-----------------------------------------------------------------------------
(* What a policy (an emulator, or the kernel's own state) says about one   *)
(* access letter on one device: an exception that matches it inverts the   *)
(* default.                                                                *)
Matches(m, d) ==
    /\ m.node = d.node
    /\ m.major \in {Wildcard, d.major}
    /\ m.minor \in {Wildcard, d.minor}

Excepted(policy, d, p) == \E m \in deviceMeta : Matches(m, d) /\ p \in policy.perms[m]

Allowed(policy, d, p) == policy.defaultAllow # Excepted(policy, d, p)
=============================================================================
