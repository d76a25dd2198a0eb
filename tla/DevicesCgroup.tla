---------------------------- MODULE DevicesCgroup ----------------------------
(***************************************************************************)
(* DevicesGroup.Set of cgroups/fs/devices.go, running against the kernel's *)
(* v1 devices controller.  A cgroup sees a sequence of Set calls with      *)
(* arbitrary rule lists.  Every write to devices.allow / devices.deny is a *)
(* step of its own, because processes of the container open devices        *)
(* between two writes; every read, write and rule may fail, and a failed   *)
(* call leaves the cgroup as it was at that moment for the next call.      *)
(***************************************************************************)
EXTENDS DeviceEmulator

CONSTANT MaxRules   \* bound: length of a rule list

ASSUME MaxRulesAssumption == MaxRules \in Nat

VARIABLES
    kernel,     \* the controller's own state (external): mode and exceptions
    pc,         \* where Set is
    current,    \* the emulator loaded from devices.list
    target,     \* the emulator built from r.Devices
    built,      \* how many rules of r.Devices were applied to target
    drop,       \* the metas whose drop rule is not yet written
    gain,       \* the metas whose gain rule is not yet written
    result,     \* what the last call returned
    before      \* history: kernel when the current call loaded it

vars == <<kernel, pc, current, target, built, drop, gain, result, before>>

Kernel == [defaultAllow : BOOLEAN, perms : [deviceMeta -> SUBSET Perms]]

PCs == {"idle", "build", "disrupt", "drop", "gain", "check"}

Results == {"none", "nil", "skipped", "loadErr", "ruleErr", "writeErr", "mismatch"}

(***************************************************************************)
(* The kernel (external), as far as Set uses it.  'a' resets the cgroup to *)
(* a mode without exceptions.  Any other rule adds to, or subtracts from,  *)
(* the exception with exactly that type, major and minor.  devices.list of *)
(* an allow-all cgroup is the one line "a *:* rwm", whatever its           *)
(* exceptions are.                                                         *)
(***************************************************************************)
KernelReset(allow) == [defaultAllow |-> allow, perms |-> NoPerms]

KernelWrite(k, m, perms, allow) ==
    [defaultAllow |-> k.defaultAllow,
     perms |-> [k.perms EXCEPT ![m] = IF k.defaultAllow = allow THEN @ \ perms ELSE @ \cup perms]]

(* loadEmulator: EmulatorFromList of the cgroup's devices.list.            *)
loadEmulator(k) ==
    IF k.defaultAllow THEN EmptyEmulator(TRUE)
    ELSE LET listed == {m \in deviceMeta : k.perms[m] # {}}
         IN  [defaultAllow |-> FALSE, made |-> listed # {}, keys |-> listed, perms |-> k.perms]

Init ==
    /\ kernel \in {KernelReset(allow) : allow \in BOOLEAN}
    /\ pc = "idle"
    /\ current = EmptyEmulator(FALSE)
    /\ target = EmptyEmulator(FALSE)
    /\ built = 0
    /\ drop = {} /\ gain = {}
    /\ result = "none"
    /\ before = kernel

Return(r) ==
    /\ pc' = "idle"
    /\ result' = r
    /\ drop' = {} /\ gain' = {} /\ built' = 0
    /\ UNCHANGED <<current, target, before>>

(* Inside a user namespace, or with r.SkipDevices, Set does nothing; and   *)
(* reading devices.list may fail.                                          *)
SetSkipped ==
    /\ pc = "idle"
    /\ \E r \in {"skipped", "loadErr"} : Return(r)
    /\ UNCHANGED kernel

SetLoad ==
    /\ pc = "idle"
    /\ pc' = "build"
    /\ current' = loadEmulator(kernel)
    /\ target' = EmptyEmulator(FALSE)
    /\ before' = kernel
    /\ result' = "none"
    /\ UNCHANGED <<kernel, built, drop, gain>>

(* buildEmulator: the next rule of the list; the first error ends the call *)
(* with the cgroup untouched.                                              *)
BuildRule(rule) ==
    /\ pc = "build" /\ built < MaxRules
    /\ LET applied == Apply(target, rule)
       IN  IF applied.err
           THEN Return("ruleErr") /\ UNCHANGED kernel
           ELSE /\ target' = applied.emu
                /\ built' = built + 1
                /\ UNCHANGED <<kernel, pc, current, drop, gain, result, before>>

(* current.Transition(target): the whole plan is computed before a write.  *)
Transition ==
    /\ pc = "build"
    /\ pc' = IF Disrupts(current, target) THEN "disrupt" ELSE "drop"
    /\ drop' = DropMetas(current, target)
    /\ gain' = GainMetas(current, target)
    /\ UNCHANGED <<kernel, current, target, built, result, before>>

(* The write loop.  orderedEntries: the least meta of the batch is next.   *)
First(S) == {m \in S : \A o \in S : ~Before(o, m)}

(* A mutation: the 'a' rule restates the mode the cgroup has.              *)
WriteDisruptSource ==
    /\ pc = "disrupt"
    /\ kernel' = KernelReset(current.defaultAllow)
    /\ pc' = "drop"
    /\ UNCHANGED <<current, target, built, drop, gain, result, before>>

WriteDisrupt ==
    /\ pc = "disrupt"
    /\ kernel' = KernelReset(target.defaultAllow)
    /\ pc' = "drop"
    /\ UNCHANGED <<current, target, built, drop, gain, result, before>>

WriteDrop ==
    /\ pc = "drop" /\ drop # {}
    /\ \E m \in First(drop) :
          /\ kernel' = KernelWrite(kernel, m, Dropped(current, target, m), target.defaultAllow)
          /\ drop' = drop \ {m}
    /\ UNCHANGED <<pc, current, target, built, gain, result, before>>

WriteGain ==
    /\ pc = "gain" /\ gain # {}
    /\ \E m \in First(gain) :
          /\ kernel' = KernelWrite(kernel, m, Gained(current, target, m), ~target.defaultAllow)
          /\ gain' = gain \ {m}
    /\ UNCHANGED <<pc, current, target, built, drop, result, before>>

NextBatch ==
    /\ \/ pc = "drop" /\ drop = {} /\ pc' = "gain"
       \/ pc = "gain" /\ gain = {} /\ pc' = "check"
    /\ UNCHANGED <<kernel, current, target, built, drop, gain, result, before>>

(* A write is refused (the parent cgroup does not allow the device, ...).  *)
WriteFails ==
    /\ \/ pc = "disrupt"
       \/ pc = "drop" /\ drop # {}
       \/ pc = "gain" /\ gain # {}
    /\ Return("writeErr")
    /\ UNCHANGED kernel

(* reflect.DeepEqual of two emulators: a nil map differs from an empty one *)
(* and an entry without permissions differs from no entry.                 *)
DeepEqual(a, b) == a = b

CheckResult(after) ==
    IF ~IsBlacklist(target) /\ ~DeepEqual(after, target) THEN "mismatch"
    ELSE IF IsBlacklist(target) # IsBlacklist(after) THEN "mismatch"
    ELSE "nil"

FinalCheck ==
    /\ pc = "check"
    /\ Return(CheckResult(loadEmulator(kernel)))
    /\ UNCHANGED kernel

FinalCheckLoadFails ==
    /\ pc = "check"
    /\ Return("loadErr")
    /\ UNCHANGED kernel

Next ==
    \/ SetSkipped \/ SetLoad
    \/ \E rule \in Rule : BuildRule(rule)
    \/ Transition
    \/ WriteDisrupt \/ WriteDrop \/ WriteGain \/ NextBatch \/ WriteFails
    \/ FinalCheck \/ FinalCheckLoadFails

Spec == Init /\ [][Next]_vars

-----------------------------------------------------------------------------
(* The type of every variable.                                             *)
TypeOK ==
    /\ kernel \in Kernel
    /\ pc \in PCs
    /\ current \in Emulator
    /\ target \in Emulator
    /\ built \in 0..MaxRules
    /\ drop \subseteq deviceMeta
    /\ gain \subseteq deviceMeta
    /\ result \in Results
    /\ before \in Kernel

(***************************************************************************)
(* A Set that returned nil left the cgroup in precisely the requested      *)
(* state, in either mode.  The code's own check looks at the exceptions of *)
(* a white-list only (devices.list hides those of a black-list); that a    *)
(* black-list is exact too depends on the disruptive rule always being     *)
(* written first.                                                          *)
(***************************************************************************)
SetReachesTarget ==
    result = "nil" =>
        /\ kernel.defaultAllow = target.defaultAllow
        /\ kernel.perms = target.perms

(***************************************************************************)
(* What a process of the container can observe while Set is writing.  On   *)
(* the way to a white-list no access is allowed that is allowed neither    *)
(* before nor after the call; on the way to a black-list none is denied    *)
(* that is denied neither before nor after.  It holds after a failed write *)
(* as well: the container is left with no more than either policy grants.  *)
(***************************************************************************)
TransientBounded ==
    pc \in {"disrupt", "drop", "gain", "check"} \/ result = "writeErr" =>
        \A d \in Device, p \in Perms :
            LET onlyNow == Allowed(kernel, d, p) # target.defaultAllow
            IN  onlyNow => \/ Allowed(before, d, p) # target.defaultAllow
                           \/ Allowed(target, d, p) # target.defaultAllow

(***************************************************************************)
(* "any already-existing rules will not be applied, and disruptive rules   *)
(* (like denying all device access) will only be applied if necessary":    *)
(* between two white-lists, no write ever takes away an exception that the *)
(* target keeps.                                                           *)
(***************************************************************************)
KeepsCommonRules ==
    [][(pc \in {"disrupt", "drop", "gain"}) /\ ~current.defaultAllow /\ ~target.defaultAllow =>
        \A m \in deviceMeta :
            kernel.perms[m] \cap target.perms[m] \subseteq kernel'.perms[m]]_vars

(***************************************************************************)
(* A rule of the list that names one concrete device and is accepted is in *)
(* force when it was applied: the policy under construction gives exactly  *)
(* the verdict of the rule on each of its permissions, whatever rules and  *)
(* wildcards came before.  This is what rmRule's error is for.             *)
(***************************************************************************)
AcceptedRuleInForce ==
    [][\A rule \in Rule :
          (BuildRule(rule) /\ pc' = "build") =>
              \A d \in Device : MetaOf(rule) = d =>
                  \A p \in rule.perms : Allowed(target', d, p) = rule.allow]_vars

(***************************************************************************)
(* rmRule's comment: "Give an error if any of the permissions requested to *)
(* be removed are present in a partially-matching wildcard rule": after an *)
(* accepted rule, no wildcard exception that matches some of the rule's    *)
(* devices still holds one of its permissions against the rule's verdict.  *)
(* TLC refutes it: a wildcard that overlaps the rule is not looked at.     *)
(***************************************************************************)
NoHolePunchedSilently ==
    [][\A rule \in Rule :
          (BuildRule(rule) /\ pc' = "build" /\ rule.type \in Nodes
              /\ target.defaultAllow = rule.allow) =>
              \A d \in Device : Matches(MetaOf(rule), d) =>
                  \A m \in deviceMeta :
                      Matches(m, d) /\ Wildcard \in {m.major, m.minor} =>
                          target'.perms[m] \cap rule.perms = {}]_vars

(***************************************************************************)
(* The final check's comment: "ensure that the resulting state is what was *)
(* requested": it reports a mismatch only when the cgroup's policy differs *)
(* from the requested one (here: a request without an entry of empty       *)
(* permissions, which no devices.list can show).  TLC refutes it: a nil    *)
(* map is not an empty one.                                                *)
(***************************************************************************)
MismatchIsReal ==
    result = "mismatch" /\ (\A m \in target.keys : target.perms[m] # {}) =>
        ~(kernel.defaultAllow = target.defaultAllow /\ kernel.perms = target.perms)

(***************************************************************************)
(* Transition's comment: rules are computed "to figure out how to update a *)
(* containers' cgroups without causing spurious device errors (if          *)
(* possible)": between two white-lists, a device that may be accessed both *)
(* before and after the call may be accessed throughout.  TLC refutes it:  *)
(* rules are removed before others are added.                              *)
(***************************************************************************)
NoSpuriousDeviceErrors ==
    pc \in {"drop", "gain", "check"} /\ ~current.defaultAllow /\ ~target.defaultAllow =>
        \A d \in Device, p \in Perms :
            Allowed(before, d, p) /\ Allowed(target, d, p) => Allowed(kernel, d, p)
=============================================================================
