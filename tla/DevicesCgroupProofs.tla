------------------------- MODULE DevicesCgroupProofs -------------------------
(***************************************************************************)
(* Proofs about DevicesCgroup, for any sets of device types, majors,       *)
(* minors and permissions and rule lists of any length.  The inductive     *)
(* invariant says what the kernel's exceptions are at every point of the   *)
(* write loop, as a function of the old rules, the target and the batches  *)
(* that are left; the properties follow from it.                           *)
(***************************************************************************)
EXTENDS DevicesCgroup, TLAPS

Old == OldPerms(current, target)

(* The plan and the kernel's state at each point of Set.                   *)
AtBuild ==
    pc \in {"build", "disrupt"} => kernel = before

AtPlan ==
    pc # "idle" => current = loadEmulator(before)

AtDisrupt ==
    pc = "disrupt" =>
        /\ Disrupts(current, target)
        /\ drop = {}
        /\ gain = GainMetas(current, target)

AtDrop ==
    pc = "drop" =>
        /\ kernel.defaultAllow = target.defaultAllow
        /\ gain = GainMetas(current, target)
        /\ \A m \in deviceMeta :
              kernel.perms[m] = IF m \in drop THEN Old[m] ELSE Old[m] \cap target.perms[m]

AtGain ==
    pc = "gain" =>
        /\ kernel.defaultAllow = target.defaultAllow
        /\ \A m \in deviceMeta :
              kernel.perms[m] = IF m \in gain THEN Old[m] \cap target.perms[m]
                                              ELSE target.perms[m]

AtCheck ==
    pc = "check" =>
        /\ kernel.defaultAllow = target.defaultAllow
        /\ kernel.perms = target.perms

(* What one access may be while the call is under way.                     *)
Bounded ==
    \A d \in Device, p \in Perms :
        Allowed(kernel, d, p) # target.defaultAllow =>
            \/ Allowed(before, d, p) # target.defaultAllow
            \/ Allowed(target, d, p) # target.defaultAllow

AfterWriteErr == result = "writeErr" => Bounded

Progress == result = "none" \/ pc = "idle"

IInv ==
    /\ TypeOK
    /\ AtBuild /\ AtPlan /\ AtDisrupt /\ AtDrop /\ AtGain /\ AtCheck
    /\ SetReachesTarget /\ AfterWriteErr /\ Progress

-----------------------------------------------------------------------------
(* Types of the emulator's operations.                                     *)

(* The empty emulator is an emulator.                                      *)
LEMMA EmptyTyped == \A b \in BOOLEAN : EmptyEmulator(b) \in Emulator
  BY DEF EmptyEmulator, Emulator, NoPerms

(* Loading a kernel state gives an emulator.                               *)
LEMMA LoadTyped == ASSUME NEW k \in Kernel PROVE loadEmulator(k) \in Emulator
  <1>1. CASE k.defaultAllow
    BY <1>1, EmptyTyped DEF loadEmulator
  <1>2. CASE ~k.defaultAllow
    BY <1>2 DEF loadEmulator, Emulator, Kernel
  <1> QED BY <1>1, <1>2

(* The meta of a rule that is neither a fifo nor 'a' is a deviceMeta.      *)
LEMMA MetaTyped ==
  ASSUME NEW rule \in Rule, CanCgroup(rule.type), rule.type # WildcardDevice
  PROVE  MetaOf(rule) \in deviceMeta
  BY DEF Rule, CanCgroup, MetaOf, deviceMeta, WildcardDevice, FifoDevice, BlockDevice, CharDevice

(* Applying a rule to an emulator gives an emulator.                       *)
LEMMA ApplyTyped ==
  ASSUME NEW e \in Emulator, NEW rule \in Rule
  PROVE  Apply(e, rule).emu \in Emulator
  <1>1. CASE ~CanCgroup(rule.type)
    BY <1>1 DEF Apply, Failed
  <1>2. CASE CanCgroup(rule.type) /\ rule.type = WildcardDevice
    <2>1. rule.allow \in BOOLEAN BY DEF Rule
    <2> QED BY <1>2, <2>1, EmptyTyped DEF Apply, Done
  <1>3. CASE CanCgroup(rule.type) /\ rule.type # WildcardDevice
    <2> DEFINE meta == MetaOf(rule)
    <2>1. meta \in deviceMeta BY <1>3, MetaTyped
    <2>2. rule.perms \in SUBSET Perms BY DEF Rule
    <2> HIDE DEF meta
    <2>3. addRule(e, meta, rule.perms).emu \in Emulator
      BY <2>1, <2>2 DEF addRule, Done, Emulator
    <2>4. rmRule(e, meta, rule.perms).emu \in Emulator
      BY <2>1, <2>2 DEF rmRule, Done, Failed, Emulator
    <2>5. Apply(e, rule).emu \in {addRule(e, meta, rule.perms).emu, rmRule(e, meta, rule.perms).emu}
      BY <1>3 DEF Apply, Except, meta
    <2> QED BY <2>3, <2>4, <2>5
  <1> QED BY <1>1, <1>2, <1>3

(* The old rules are permissions.                                          *)
LEMMA OldTyped ==
  ASSUME NEW s \in Emulator, NEW t \in Emulator
  PROVE  /\ OldPerms(s, t) \in [deviceMeta -> SUBSET Perms]
         /\ \A m \in deviceMeta : Dropped(s, t, m) \in SUBSET Perms /\ Gained(s, t, m) \in SUBSET Perms
  BY DEF OldPerms, NoPerms, Emulator, Dropped, Gained

-----------------------------------------------------------------------------
(* Init establishes the invariant.                                         *)
LEMMA InitIInv == Init => IInv
  <1> SUFFICES ASSUME Init PROVE IInv OBVIOUS
  <1>1. kernel \in Kernel BY DEF Init, KernelReset, Kernel, NoPerms
  <1>2. EmptyEmulator(FALSE) \in Emulator BY EmptyTyped
  <1>3. TypeOK
    <2>1. built \in 0..MaxRules BY MaxRulesAssumption DEF Init
    <2>2. current \in Emulator /\ target \in Emulator /\ before \in Kernel BY <1>1, <1>2 DEF Init
    <2> QED BY <1>1, <2>1, <2>2 DEF Init, TypeOK, PCs, Results
  <1> QED
    BY <1>3 DEF Init, IInv, AtBuild, AtPlan, AtDisrupt, AtDrop, AtGain, AtCheck,
               SetReachesTarget, AfterWriteErr, Progress

(* An access departs from the default exactly when an exception matches.   *)
LEMMA DepartsIffExcepted ==
  ASSUME NEW policy, NEW d, NEW p, policy.defaultAllow \in BOOLEAN
  PROVE  Allowed(policy, d, p) # policy.defaultAllow <=> Excepted(policy, d, p)
  <1>1. Excepted(policy, d, p) \in BOOLEAN BY DEF Excepted
  <1>2. CASE Excepted(policy, d, p)
    <2>1. Allowed(policy, d, p) = (policy.defaultAllow # TRUE) BY <1>1, <1>2, Zenon DEF Allowed
    <2> QED BY <1>2, <2>1
  <1>3. CASE ~Excepted(policy, d, p)
    <2>1. Allowed(policy, d, p) = (policy.defaultAllow # FALSE) BY <1>1, <1>3, Zenon DEF Allowed
    <2> QED BY <1>3, <2>1
  <1> QED BY <1>2, <1>3

(* While Set writes, an access is bounded by the two policies.             *)
LEMMA WritingBounded ==
  ASSUME IInv, pc \in {"disrupt", "drop", "gain", "check"}
  PROVE  Bounded
  <1> SUFFICES ASSUME NEW d \in Device, NEW p \in Perms,
                      Allowed(kernel, d, p) # target.defaultAllow
               PROVE  \/ Allowed(before, d, p) # target.defaultAllow
                      \/ Allowed(target, d, p) # target.defaultAllow
    BY DEF Bounded
  <1> USE DEF IInv
  <1>1. CASE pc = "disrupt"
    BY <1>1 DEF AtBuild
  <1>2. CASE pc \in {"drop", "gain", "check"}
    <2>1. /\ kernel.defaultAllow = target.defaultAllow
          /\ \A m \in deviceMeta : kernel.perms[m] \subseteq Old[m] \cup target.perms[m]
      BY <1>2 DEF AtDrop, AtGain, AtCheck
    <2>0. /\ kernel.defaultAllow \in BOOLEAN
          /\ target.defaultAllow \in BOOLEAN
          /\ before.defaultAllow \in BOOLEAN
      BY DEF TypeOK, Kernel, Emulator
    <2>a. Excepted(kernel, d, p)
      BY <2>0, <2>1, DepartsIffExcepted
    <2>2. PICK m \in deviceMeta : Matches(m, d) /\ p \in kernel.perms[m]
      BY <2>a DEF Excepted
    <2>3. CASE p \in target.perms[m]
      <3>1. Excepted(target, d, p) BY <2>2, <2>3 DEF Excepted
      <3> QED BY <2>0, <3>1, DepartsIffExcepted
    <2>4. CASE p \in Old[m]
      <3>1. ~Disrupts(current, target) /\ Old = current.perms
        BY <2>4, <2>2 DEF Old, OldPerms, NoPerms
      <3>2. ~current.defaultAllow /\ ~target.defaultAllow
        BY <3>1 DEF Disrupts, IsBlacklist, TypeOK, Emulator
      <3>3. current = loadEmulator(before)
        BY <1>2 DEF AtPlan
      <3>4. ~before.defaultAllow /\ current.perms = before.perms
        BY <3>2, <3>3 DEF loadEmulator, EmptyEmulator
      <3>5. Excepted(before, d, p) BY <2>2, <2>4, <3>1, <3>4 DEF Excepted
      <3>6. before.defaultAllow = target.defaultAllow BY <2>0, <3>2, <3>4
      <3> QED BY <2>0, <3>5, <3>6, DepartsIffExcepted
    <2> QED BY <2>1, <2>2, <2>3, <2>4
  <1> QED BY <1>1, <1>2

-----------------------------------------------------------------------------
(* Every step keeps the invariant, one step per action.                    *)
LEMMA NextIInv == IInv /\ [Next]_vars => IInv'
  <1> SUFFICES ASSUME IInv, [Next]_vars PROVE IInv' OBVIOUS
  <1> USE DEF IInv
  <1> DEFINE Rest == /\ AtBuild' /\ AtPlan' /\ AtDisrupt' /\ AtDrop' /\ AtGain' /\ AtCheck'
                     /\ SetReachesTarget' /\ AfterWriteErr' /\ Progress'
  <1>0. ASSUME NEW r \in Results \ {"nil"}, Return(r), UNCHANGED kernel,
               r = "writeErr" => Bounded
        PROVE  IInv'
    <2>1. TypeOK' BY <1>0, MaxRulesAssumption DEF Return, TypeOK, PCs
    <2>2. AfterWriteErr' BY <1>0 DEF Return, AfterWriteErr, Bounded
    <2> QED BY <1>0, <2>1, <2>2 DEF Return, AtBuild, AtPlan, AtDisrupt, AtDrop, AtGain, AtCheck,
                             SetReachesTarget, Progress
  <1>1. CASE SetSkipped
    BY <1>0, <1>1 DEF SetSkipped, Results
  <1>2. CASE SetLoad
    <2>1. TypeOK'
      BY <1>2, LoadTyped, EmptyTyped DEF SetLoad, TypeOK, PCs, Results
    <2> QED BY <1>2, <2>1 DEF SetLoad, AtBuild, AtPlan, AtDisrupt, AtDrop, AtGain, AtCheck,
                             SetReachesTarget, AfterWriteErr, Progress
  <1>3. CASE \E rule \in Rule : BuildRule(rule)
    <2> PICK rule \in Rule : BuildRule(rule) BY <1>3
    <2>1. CASE Apply(target, rule).err
      BY <2>1, <1>0 DEF BuildRule, Results
    <2>2. CASE ~Apply(target, rule).err
      <3>1. /\ target' = Apply(target, rule).emu /\ built' = built + 1 /\ built < MaxRules
            /\ UNCHANGED <<kernel, pc, current, drop, gain, result, before>> /\ pc = "build"
        BY <2>2 DEF BuildRule
      <3>2. target' \in Emulator BY <3>1, ApplyTyped DEF TypeOK
      <3>3. TypeOK' BY <3>1, <3>2, MaxRulesAssumption DEF TypeOK
      <3> QED BY <3>1, <3>3 DEF AtBuild, AtPlan, AtDisrupt, AtDrop, AtGain, AtCheck,
                               SetReachesTarget, AfterWriteErr, Progress
    <2> QED BY <2>1, <2>2
  <1>4. CASE Transition
    <2>1. TypeOK'
      BY <1>4 DEF Transition, TypeOK, PCs, DropMetas, GainMetas
    <2>2. kernel = before /\ current = loadEmulator(kernel)
      BY <1>4 DEF Transition, AtBuild, AtPlan
    <2>3. CASE Disrupts(current, target)
      <3>1. drop' = {} /\ pc' = "disrupt"
        BY <1>4, <2>3 DEF Transition, DropMetas, Dropped, OldPerms, NoPerms
      <3> QED BY <1>4, <2>1, <2>2, <2>3, <3>1 DEF Transition, AtBuild, AtPlan, AtDisrupt, AtDrop,
                AtGain, AtCheck, SetReachesTarget, AfterWriteErr, Progress, Disrupts, GainMetas,
                Gained, OldPerms
    <2>4. CASE ~Disrupts(current, target)
      <3>1. ~current.defaultAllow /\ ~target.defaultAllow /\ Old = current.perms
        BY <2>4 DEF Disrupts, IsBlacklist, TypeOK, Emulator, Old, OldPerms
      <3>2. ~kernel.defaultAllow /\ current.perms = kernel.perms
        BY <2>2, <3>1 DEF loadEmulator, EmptyEmulator
      <3>3. \A m \in deviceMeta :
               kernel.perms[m] = IF m \in drop' THEN Old[m] ELSE Old[m] \cap target.perms[m]
        BY <1>4, <3>1, <3>2 DEF Transition, DropMetas, Dropped, Old
      <3>4. AtDrop'
        BY <1>4, <2>1, <3>1, <3>2, <3>3 DEF Transition, AtDrop, Old, TypeOK, Kernel, Emulator
      <3> QED BY <1>4, <2>1, <2>2, <2>4, <3>4 DEF Transition, AtBuild, AtPlan, AtDisrupt,
                AtGain, AtCheck, SetReachesTarget, AfterWriteErr, Progress
    <2> QED BY <2>3, <2>4
  <1>5. CASE WriteDisrupt
    <2>1. TypeOK'
      BY <1>5 DEF WriteDisrupt, TypeOK, PCs, KernelReset, NoPerms, Kernel, Emulator
    <2>2. Old = NoPerms
      BY <1>5 DEF WriteDisrupt, AtDisrupt, Old, OldPerms
    <2>3. AtDrop'
      BY <1>5, <2>2 DEF WriteDisrupt, AtDisrupt, AtDrop, Old, KernelReset, NoPerms
    <2> QED BY <1>5, <2>1, <2>3 DEF WriteDisrupt, AtBuild, AtPlan, AtDisrupt,
                AtGain, AtCheck, SetReachesTarget, AfterWriteErr, Progress
  <1>6. CASE WriteDrop
    <2> PICK m \in First(drop) :
          /\ kernel' = KernelWrite(kernel, m, Dropped(current, target, m), target.defaultAllow)
          /\ drop' = drop \ {m}
      BY <1>6 DEF WriteDrop
    <2>1. m \in drop /\ m \in deviceMeta BY DEF First, TypeOK
    <2>2. /\ kernel \in Kernel /\ target.defaultAllow \in BOOLEAN
          /\ Dropped(current, target, m) \in SUBSET Perms
      BY <2>1, OldTyped DEF TypeOK, Emulator
    <2>3. /\ kernel' \in Kernel /\ kernel'.defaultAllow = kernel.defaultAllow
          /\ \A o \in deviceMeta : kernel'.perms[o] =
               IF o # m THEN kernel.perms[o] ELSE kernel.perms[o] \ Dropped(current, target, m)
      <3>1. kernel.defaultAllow = target.defaultAllow BY <1>6 DEF WriteDrop, AtDrop
      <3> QED BY <2>1, <2>2, <3>1 DEF KernelWrite, Kernel
    <2>4. TypeOK' BY <1>6, <2>3 DEF WriteDrop, TypeOK
    <2>5. AtDrop'
      BY <1>6, <2>1, <2>3 DEF WriteDrop, AtDrop, Old, Dropped
    <2> QED BY <1>6, <2>4, <2>5 DEF WriteDrop, AtBuild, AtPlan, AtDisrupt,
                AtGain, AtCheck, SetReachesTarget, AfterWriteErr, Progress
  <1>7. CASE WriteGain
    <2> PICK m \in First(gain) :
          /\ kernel' = KernelWrite(kernel, m, Gained(current, target, m), ~target.defaultAllow)
          /\ gain' = gain \ {m}
      BY <1>7 DEF WriteGain
    <2>1. m \in gain /\ m \in deviceMeta BY DEF First, TypeOK
    <2>2. /\ kernel \in Kernel /\ target.defaultAllow \in BOOLEAN
          /\ Gained(current, target, m) \in SUBSET Perms
      BY <2>1, OldTyped DEF TypeOK, Emulator
    <2>3. /\ kernel' \in Kernel /\ kernel'.defaultAllow = kernel.defaultAllow
          /\ \A o \in deviceMeta : kernel'.perms[o] =
               IF o # m THEN kernel.perms[o] ELSE kernel.perms[o] \cup Gained(current, target, m)
      <3>1. kernel.defaultAllow # ~target.defaultAllow BY <1>7, <2>2 DEF WriteGain, AtGain
      <3> QED BY <2>1, <2>2, <3>1 DEF KernelWrite, Kernel
    <2>4. TypeOK' BY <1>7, <2>3 DEF WriteGain, TypeOK
    <2>5. AtGain'
      BY <1>7, <2>1, <2>3 DEF WriteGain, AtGain, Old, Gained
    <2> QED BY <1>7, <2>4, <2>5 DEF WriteGain, AtBuild, AtPlan, AtDisrupt,
                AtDrop, AtCheck, SetReachesTarget, AfterWriteErr, Progress
  <1>8. CASE NextBatch
    <2>1. TypeOK' BY <1>8 DEF NextBatch, TypeOK, PCs
    <2>2. CASE pc = "drop"
      <3>1. \A m \in deviceMeta : m \notin gain => target.perms[m] \subseteq Old[m]
        BY <2>2 DEF AtDrop, GainMetas, Gained, Old
      <3>2. AtGain'
        BY <1>8, <2>2, <3>1 DEF NextBatch, AtDrop, AtGain, Old
      <3> QED BY <1>8, <2>1, <2>2, <3>2 DEF NextBatch, AtBuild, AtPlan, AtDisrupt,
                AtDrop, AtCheck, SetReachesTarget, AfterWriteErr, Progress
    <2>3. CASE pc = "gain"
      <3>1. kernel.perms = target.perms
        <4>1. /\ kernel.perms \in [deviceMeta -> SUBSET Perms]
              /\ target.perms \in [deviceMeta -> SUBSET Perms]
          BY DEF TypeOK, Kernel, Emulator
        <4>2. \A m \in deviceMeta : kernel.perms[m] = target.perms[m]
          BY <1>8, <2>3 DEF NextBatch, AtGain
        <4> QED BY <4>1, <4>2
      <3> QED BY <1>8, <2>1, <2>3, <3>1 DEF NextBatch, AtBuild, AtPlan, AtDisrupt,
                AtDrop, AtGain, AtCheck, SetReachesTarget, AfterWriteErr, Progress
    <2> QED BY <1>8, <2>2, <2>3 DEF NextBatch
  <1>9. CASE WriteFails
    <2>1. Bounded BY <1>9, WritingBounded DEF WriteFails
    <2> QED BY <1>0, <1>9, <2>1 DEF WriteFails, Results
  <1>10. CASE FinalCheck
    <2>1. CASE CheckResult(loadEmulator(kernel)) = "nil"
      <3>1. Return("nil") /\ UNCHANGED kernel /\ pc = "check"
        BY <1>10, <2>1 DEF FinalCheck
      <3>2. TypeOK' BY <3>1, MaxRulesAssumption DEF Return, TypeOK, PCs, Results
      <3>3. SetReachesTarget' BY <3>1 DEF Return, AtCheck, SetReachesTarget
      <3> QED BY <3>1, <3>2, <3>3 DEF Return, AtBuild, AtPlan, AtDisrupt, AtDrop, AtGain,
                 AtCheck, AfterWriteErr, Progress
    <2>2. CASE CheckResult(loadEmulator(kernel)) = "mismatch"
      BY <1>0, <1>10, <2>2 DEF FinalCheck, Results
    <2> QED BY <2>1, <2>2 DEF CheckResult
  <1>11. CASE FinalCheckLoadFails
    BY <1>0, <1>11 DEF FinalCheckLoadFails, Results
  <1>12. CASE UNCHANGED vars
    BY <1>12 DEF vars, TypeOK, AtBuild, AtPlan, AtDisrupt, AtDrop, AtGain, AtCheck,
                 SetReachesTarget, AfterWriteErr, Progress, Bounded, Old
  <1> QED BY <1>1, <1>2, <1>3, <1>4, <1>5, <1>6, <1>7, <1>8, <1>9, <1>10, <1>11, <1>12 DEF Next

(* The inductive invariant holds in every reachable state.                 *)
THEOREM Invariance == Spec => []IInv
  BY InitIInv, NextIInv, PTL DEF Spec

(* Every variable keeps its type (DevicesGroup.Set never leaves an emulator *)
(* or the cgroup with an entry that is not a device rule).                  *)
THEOREM TypeCorrect == Spec => []TypeOK
  BY Invariance, PTL DEF IInv

(* A Set that returns nil leaves the cgroup exactly as requested.          *)
THEOREM SetIsExact == Spec => []SetReachesTarget
  BY Invariance, PTL DEF IInv

(* While Set writes, and after a failed write, no access goes beyond what  *)
(* the old and the new policy give.                                        *)
THEOREM TransientIsBounded == Spec => []TransientBounded
  <1>1. IInv => TransientBounded
    <2> SUFFICES ASSUME IInv, pc \in {"disrupt", "drop", "gain", "check"} \/ result = "writeErr"
                 PROVE  Bounded
      BY DEF TransientBounded, Bounded
    <2> QED BY WritingBounded DEF IInv, AfterWriteErr
  <1> QED BY <1>1, Invariance, PTL

(* Between two white-lists, no write of Set takes away a permission the    *)
(* target keeps.                                                           *)
THEOREM CommonRulesKept == Spec => KeepsCommonRules
  <1> DEFINE Keep == (pc \in {"disrupt", "drop", "gain"}) /\ ~current.defaultAllow /\ ~target.defaultAllow =>
                       \A m \in deviceMeta : kernel.perms[m] \cap target.perms[m] \subseteq kernel'.perms[m]
  <1>1. ASSUME IInv, [Next]_vars PROVE [Keep]_vars
    <2> USE <1>1 DEF IInv
    <2> SUFFICES ASSUME pc \in {"disrupt", "drop", "gain"}, ~current.defaultAllow, ~target.defaultAllow,
                        NEW o \in deviceMeta
                 PROVE  kernel.perms[o] \cap target.perms[o] \subseteq kernel'.perms[o]
      OBVIOUS
    <2>1. CASE kernel' = kernel
      BY <2>1
    <2>2. CASE WriteDisrupt
      BY <2>2 DEF WriteDisrupt, AtDisrupt, Disrupts, IsBlacklist, TypeOK, Emulator
    <2>3. CASE WriteDrop
      <3> PICK m \in First(drop) :
            kernel' = KernelWrite(kernel, m, Dropped(current, target, m), target.defaultAllow)
        BY <2>3 DEF WriteDrop
      <3>1. /\ m \in deviceMeta /\ kernel \in Kernel /\ target.defaultAllow \in BOOLEAN
            /\ Dropped(current, target, m) \in SUBSET Perms
        BY OldTyped DEF First, TypeOK, Emulator
      <3>2. kernel.defaultAllow = target.defaultAllow BY <2>3 DEF WriteDrop, AtDrop
      <3>3. kernel'.perms[o] = IF o # m THEN kernel.perms[o]
                                        ELSE kernel.perms[o] \ Dropped(current, target, m)
        BY <3>1, <3>2 DEF KernelWrite, Kernel
      <3> QED BY <3>3 DEF Dropped
    <2>4. CASE WriteGain
      <3> PICK m \in First(gain) :
            kernel' = KernelWrite(kernel, m, Gained(current, target, m), ~target.defaultAllow)
        BY <2>4 DEF WriteGain
      <3>1. /\ m \in deviceMeta /\ kernel \in Kernel /\ target.defaultAllow \in BOOLEAN
            /\ Gained(current, target, m) \in SUBSET Perms
        BY OldTyped DEF First, TypeOK, Emulator
      <3>2. kernel.defaultAllow # ~target.defaultAllow BY <2>4, <3>1 DEF WriteGain, AtGain
      <3>3. kernel'.perms[o] = IF o # m THEN kernel.perms[o]
                                        ELSE kernel.perms[o] \cup Gained(current, target, m)
        BY <3>1, <3>2 DEF KernelWrite, Kernel
      <3> QED BY <3>3
    <2> QED BY <2>1, <2>2, <2>3, <2>4 DEF Next, SetSkipped, SetLoad, BuildRule, Transition,
              NextBatch, WriteFails, FinalCheck, FinalCheckLoadFails, vars
  <1>2. IInv /\ [Next]_vars => [Keep]_vars BY <1>1
  <1> QED BY <1>2, Invariance, PTL DEF Spec, KeepsCommonRules

-----------------------------------------------------------------------------
(* An accepted rule for one concrete device is in force right away.        *)
LEMMA ConcreteRule ==
  ASSUME NEW e \in Emulator, NEW rule \in Rule, NEW d \in Device, MetaOf(rule) = d,
         ~Apply(e, rule).err, NEW p \in rule.perms
  PROVE  Allowed(Apply(e, rule).emu, d, p) = rule.allow
  <1> DEFINE after == Apply(e, rule).emu
  <1>1. rule.type \in Nodes /\ rule.type # WildcardDevice /\ CanCgroup(rule.type)
    <2>1. d.node = rule.type /\ d.node \in Nodes BY DEF MetaOf, Device
    <2>2. rule.type \in {98, 99} BY <2>1, DeviceConstants DEF BlockDevice, CharDevice
    <2> QED BY <2>1, <2>2 DEF CanCgroup, WildcardDevice, BlockDevice, CharDevice
  <1>2. d \in deviceMeta BY <1>1, MetaTyped
  <1>3. /\ rule.perms \in SUBSET Perms /\ rule.allow \in BOOLEAN
        /\ e.defaultAllow \in BOOLEAN /\ e.perms \in [deviceMeta -> SUBSET Perms]
    BY DEF Rule, Emulator
  <1>4. Apply(e, rule) = Except(e, d, rule.perms, rule.allow)
    BY <1>1 DEF Apply
  <1>5. CASE e.defaultAllow # rule.allow
    <2>1. after = addRule(e, d, rule.perms).emu BY <1>4, <1>5 DEF Except
    <2>2. after.defaultAllow = e.defaultAllow /\ p \in after.perms[d]
      BY <1>2, <1>3, <2>1 DEF addRule, Done
    <2>3. Matches(d, d) BY DEF Matches
    <2>4. Excepted(after, d, p) BY <1>2, <2>2, <2>3 DEF Excepted
    <2> HIDE DEF after
    <2>5. Allowed(after, d, p) # e.defaultAllow /\ Allowed(after, d, p) \in BOOLEAN
      BY <1>3, <2>2, <2>4, DepartsIffExcepted DEF Allowed
    <2>6. Allowed(after, d, p) = rule.allow BY <1>3, <1>5, <2>5
    <2> QED BY <2>6 DEF after
  <1>6. CASE e.defaultAllow = rule.allow
    <2>1. Apply(e, rule) = rmRule(e, d, rule.perms) BY <1>4, <1>6 DEF Except
    <2>2. \A pm \in PartialMetas(d) : e.perms[pm] \cap rule.perms = {}
      BY <2>1 DEF rmRule, Failed
    <2>3. /\ after.defaultAllow = e.defaultAllow
          /\ after.perms = [e.perms EXCEPT ![d] = e.perms[d] \ rule.perms]
      BY <2>1, <2>2 DEF rmRule, Done
    <2>4. ASSUME NEW m \in deviceMeta, Matches(m, d) PROVE m = d \/ m \in PartialMetas(d)
      <3>1. /\ m = [node |-> m.node, major |-> m.major, minor |-> m.minor]
            /\ d = [node |-> d.node, major |-> d.major, minor |-> d.minor]
        BY <1>2, <2>4 DEF deviceMeta
      <3> QED BY <2>4, <3>1 DEF Matches, PartialMetas
    <2>5. ~Excepted(after, d, p)
      BY <1>2, <1>3, <2>2, <2>3, <2>4 DEF Excepted
    <2> HIDE DEF after
    <2>6. Allowed(after, d, p) = e.defaultAllow
      BY <1>3, <2>3, <2>5, DepartsIffExcepted
    <2> QED BY <1>6, <2>6 DEF after
  <1> QED BY <1>5, <1>6

(* An accepted rule for one device is in force when Set applies it to the  *)
(* policy it builds.                                                       *)
THEOREM AcceptedRulesHold == Spec => AcceptedRuleInForce
  <1> DEFINE InForce == \A rule \in Rule :
          (BuildRule(rule) /\ pc' = "build") =>
              \A d \in Device : MetaOf(rule) = d =>
                  \A p \in rule.perms : Allowed(target', d, p) = rule.allow
  <1>1. ASSUME IInv PROVE InForce
    <2> SUFFICES ASSUME NEW rule \in Rule, BuildRule(rule), pc' = "build", NEW d \in Device,
                        MetaOf(rule) = d, NEW p \in rule.perms
                 PROVE  Allowed(target', d, p) = rule.allow
      OBVIOUS
    <2>1. ~Apply(target, rule).err /\ target' = Apply(target, rule).emu
      BY DEF BuildRule, Return
    <2>2. target \in Emulator BY <1>1 DEF IInv, TypeOK
    <2> QED BY <2>1, <2>2, ConcreteRule
  <1>2. IInv => [InForce]_vars BY <1>1
  <1> QED BY <1>2, Invariance, PTL DEF AcceptedRuleInForce
=============================================================================
