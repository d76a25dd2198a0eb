--------------------------- MODULE LegacySetProofs ---------------------------
(***************************************************************************)
(* Proofs about Set and Freeze of the v1 managers, for any number of       *)
(* actors, attempts of the freeze loop, disturbances and calls.  The calls *)
(* are made one after the other (Serial): without that the run             *)
(* legacy_set_overlap refutes the first of them.                           *)
(***************************************************************************)
EXTENDS LegacySet, TLAPS

(* No two calls are under way at the same time.                            *)
Serial == \A p, q \in Actors : Busy(p) /\ Busy(q) => p = q

(* A cgroup without a freezer file is not frozen.                          *)
FrozenHasFile == (self => hasFile) /\ (~hasFreezer => ~hasFile)

Loop == {"enter", "occasional", "write", "read", "undo", "ret"}

(* What FreezerGroup.Set has reached, by the state it was asked for: only  *)
(* a thaw that failed (stuck) leaves the cgroup frozen against its will.   *)
SetReached(p) ==
    LET f == fz[p]
    IN  /\ f.at \in Loop
        /\ f.at \in {"occasional", "write", "read", "undo"} => f.want = Frozen
        /\ f.at = "read" => self
        /\ f.at = "ret" =>
              /\ f.out \in {"nil", "err"}
              /\ f.want = Frozen => (f.out = "nil" => self) /\ (f.out = "err" => ~self \/ f.stuck)
              /\ f.want = Thawed => (f.out = "nil" => ~self) /\ (f.out = "err" => f.stuck)

(* A call of doFreeze: without a freezer path it returns at once.          *)
DoFreezeReached(p, state) ==
    /\ hasFreezer => SetReached(p) /\ fz[p].want = state
    /\ ~hasFreezer => fz[p].at = "ret" /\ fz[p].out = "err"

(* What GetState has reached.                                              *)
GetReached(p) ==
    LET f == fz[p]
    IN  /\ f.at \in {"getstate", "getself", "ret"}
        /\ f.at = "getself" => hasFile
        /\ f.at = "ret" => /\ f.out \in {"err", Frozen, Thawed, Undefined}
                           /\ f.out = Frozen /\ ~OldKernel => self
                           /\ f.out \in {Thawed, Undefined} => ~self

(* Where a call of each kind is, and what holds there of the container's   *)
(* freezer: now, when the call began, and as the call wants to leave it.   *)
AtQuery(p) == fz[p].at = "idle" /\ ~fz[p].stuck /\ ~act[p].needsThaw /\ self = start[p]
AtState(p) == GetReached(p) /\ ~fz[p].stuck /\ ~act[p].needsThaw /\ self = start[p]
AtFreeze(p) ==
    /\ DoFreezeReached(p, Frozen)
    /\ ~start[p] /\ act[p].needsThaw = (act[p].arg # Frozen)
    /\ fz[p].stuck => hasFreezer /\ fz[p].at = "ret" /\ fz[p].out = "err"
AtProps(p) ==
    /\ fz[p].at = "idle" /\ ~fz[p].stuck
    /\ act[p].needsThaw => ~start[p] /\ act[p].arg # Frozen
    /\ ~act[p].needsThaw /\ act[p].arg # Frozen => self = start[p]
    /\ Disrupts(p) /\ hasFreezer /\ ~OldKernel => self
AtThaw(p) == DoFreezeReached(p, Thawed) /\ ~start[p] /\ act[p].arg # Frozen
Kept(p) == act[p].arg = Undefined /\ ~fz[p].stuck => self = start[p]
AtSubsys(p) == fz[p].at = "idle" /\ Kept(p)
AtFinal(p) == hasFreezer /\ SetReached(p) /\ fz[p].want = act[p].arg /\ Kept(p)
AtFsCall(p) ==
    /\ hasFreezer
    /\ \/ fz[p].at = "idle" /\ resFreezer = act[p].arg
       \/ SetReached(p) /\ fz[p].want = act[p].arg

SetStages == {"query", "state", "freeze", "giveup", "props", "thaw", "subsys", "final"}

CallInv(p) ==
    LET stage == act[p].stage
    IN  /\ stage = "idle" => fz[p].at = "idle"
        /\ stage \in SetStages => act[p].op = "legacySet"
        /\ stage \in {"fsFreeze", "fsCall"} => act[p].op = "fsFreeze"
        /\ stage = "legacyFreeze" => act[p].op = "legacyFreeze"
        /\ stage = "query" => AtQuery(p)
        /\ stage = "state" => AtState(p)
        /\ stage = "freeze" => AtFreeze(p)
        /\ stage = "giveup" => AtThaw(p) /\ hasFreezer
        /\ stage = "props" => AtProps(p)
        /\ stage = "thaw" => AtThaw(p)
        /\ stage = "subsys" => AtSubsys(p)
        /\ stage = "final" => AtFinal(p)
        /\ stage = "fsFreeze" => fz[p].at = "idle"
        /\ stage = "fsCall" => AtFsCall(p)
        /\ stage = "legacyFreeze" => DoFreezeReached(p, act[p].arg)

IInv == TypeOK /\ FrozenHasFile /\ \A p \in Actors : CallInv(p)

-----------------------------------------------------------------------------
(* The type invariant.                                                     *)

LEMMA FzPoints == \A at \in Loop \cup {"idle", "getstate", "getself"} : at \in FzPCs
BY DEF FzPCs, Loop

LEMMA FzStatesDiffer ==
    /\ Frozen \in FreezerStates /\ Thawed \in FreezerStates /\ Undefined \in FreezerStates
    /\ Frozen # Thawed /\ Frozen # Undefined /\ Thawed # Undefined
    /\ {Frozen, Thawed, Undefined} \cap {"none", "nil", "err"} = {}
BY DEF FreezerStates, Frozen, Thawed, Undefined

LEMMA FzIdleType == FzIdle \in Fz
<1>1. "idle" \in FzPCs /\ Undefined \in FreezerStates /\ 0 \in 0..(MaxTries - 1)
  BY FzPoints, FzStatesDiffer, FreezerAssumption
<1> QED  BY <1>1 DEF FzIdle, Fz

LEMMA InitType == Init => TypeOK
<1> SUFFICES ASSUME Init PROVE TypeOK
  OBVIOUS
<1>1. fz \in [Actors -> Fz]
  BY FzIdleType DEF Init, FzInit
<1>2. Idle \in Act
  BY FzStatesDiffer DEF Idle, Act, Stages, Results
<1>3. act \in [Actors -> Act]
  BY <1>2 DEF Init
<1>4. resFreezer \in FreezerStates
  BY FzStatesDiffer DEF Init
<1>5. self \in BOOLEAN /\ parent \in BOOLEAN /\ settled \in BOOLEAN /\ hasFile \in BOOLEAN /\ hasFreezer \in BOOLEAN
  BY DEF Init, FzInit
<1>6. disturbed \in 0..MaxDisturb /\ calls \in 0..MaxCalls
  BY FreezerAssumption, LegacyAssumption DEF Init, FzInit
<1>7. start \in [Actors -> BOOLEAN] /\ unit \in {"auto", "strict"}
  BY <1>5 DEF Init
<1> QED  BY <1>1, <1>3, <1>4, <1>5, <1>6, <1>7 DEF TypeOK, FzTypeOK

LEMMA FzStepType ==
    ASSUME FzTypeOK, NEW p \in Actors, FzStep(p)
    PROVE  FzTypeOK'
<1>1. CASE FzEnter(p)
  <2>1. "ret" \in FzPCs /\ "occasional" \in FzPCs
    BY FzPoints DEF Loop
  <2>2. fz' \in [Actors -> Fz]
    BY <1>1, <2>1 DEF FzTypeOK, Fz, FzEnter, FzGoto, FzReturn
  <2> QED  BY <1>1, <2>2 DEF FzTypeOK, FzEnter, KernelWriteThawed, kernel
<1>2. CASE FzOccasional(p)
  <2>1. "write" \in FzPCs
    BY FzPoints DEF Loop
  <2>2. fz' \in [Actors -> Fz]
    BY <1>2, <2>1 DEF FzTypeOK, Fz, FzOccasional, FzGoto
  <2> QED  BY <1>2, <2>2 DEF FzTypeOK, FzOccasional, KernelWriteThawed, kernel
<1>3. CASE FzWrite(p)
  <2>1. "read" \in FzPCs /\ "undo" \in FzPCs
    BY FzPoints DEF Loop
  <2>2. fz' \in [Actors -> Fz]
    BY <1>3, <2>1 DEF FzTypeOK, Fz, FzWrite, FzGoto
  <2> QED  BY <1>3, <2>2 DEF FzTypeOK, FzWrite, KernelWriteFrozen, kernel
<1>4. CASE FzRead(p)
  <2>1. "ret" \in FzPCs /\ "occasional" \in FzPCs /\ "undo" \in FzPCs
    BY FzPoints DEF Loop
  <2>2. fz[p].i + 1 < MaxTries => fz[p].i + 1 \in 0..(MaxTries - 1)
    BY FreezerAssumption DEF FzTypeOK, Fz
  <2>3. fz' \in [Actors -> Fz]
    BY <1>4, <2>1, <2>2 DEF FzTypeOK, Fz, FzRead, FzGoto, FzReturn
  <2> QED  BY <1>4, <2>3 DEF FzTypeOK, FzRead, kernel
<1>5. CASE FzUndo(p)
  <2>1. "ret" \in FzPCs
    BY FzPoints DEF Loop
  <2>2. fz' \in [Actors -> Fz]
    BY <1>5, <2>1 DEF FzTypeOK, Fz, FzUndo, FzReturn
  <2> QED  BY <1>5, <2>2 DEF FzTypeOK, FzUndo, KernelWriteThawed, kernel
<1>6. CASE FzGetStateRead(p)
  <2>1. "ret" \in FzPCs /\ "getself" \in FzPCs
    BY FzPoints DEF Loop
  <2>2. fz' \in [Actors -> Fz]
    BY <1>6, <2>1 DEF FzTypeOK, Fz, FzGetStateRead, FzGoto, FzReturn
  <2> QED  BY <1>6, <2>2 DEF FzTypeOK, FzGetStateRead, kernel
<1>7. CASE FzGetSelf(p)
  <2>1. "ret" \in FzPCs
    BY FzPoints DEF Loop
  <2>2. fz' \in [Actors -> Fz]
    BY <1>7, <2>1 DEF FzTypeOK, Fz, FzGetSelf, FzReturn
  <2> QED  BY <1>7, <2>2 DEF FzTypeOK, FzGetSelf, kernel
<1> QED  BY <1>1, <1>2, <1>3, <1>4, <1>5, <1>6, <1>7 DEF FzStep

-----------------------------------------------------------------------------
(* What the managers' steps are made of: the fields they set, the ones     *)
(* they keep, and that they concern one actor.                             *)

Local(p) == \A q \in Actors \ {p} : act'[q] = act[q] /\ fz'[q] = fz[q]
SameCall(p) ==
    /\ act'[p].op = act[p].op /\ act'[p].arg = act[p].arg /\ act'[p].devs = act[p].devs
    /\ act'[p].needsThaw = act[p].needsThaw

LEMMA DoneStep ==
    ASSUME TypeOK, NEW p \in Actors, NEW res \in Results, Done(p, res)
    PROVE  /\ act' \in [Actors -> Act] /\ fz' \in [Actors -> Fz] /\ Local(p)
           /\ act'[p].stage = "idle" /\ act'[p].result = res /\ SameCall(p)
           /\ fz'[p].at = "idle" /\ fz'[p].stuck = fz[p].stuck
<1>0. "idle" \in Stages
  BY DEF Stages
<1>1. act' \in [Actors -> Act]
  <2>1. [act[p] EXCEPT !.stage = "idle", !.result = res] \in Act
    BY <1>0 DEF TypeOK, Act
  <2>2. act' = [act EXCEPT ![p] = [act[p] EXCEPT !.stage = "idle", !.result = res]]
    BY DEF TypeOK, Act, Done
  <2> QED  BY <2>1, <2>2 DEF TypeOK
<1>2. [FzIdle EXCEPT !.stuck = fz[p].stuck] \in Fz
  BY FzIdleType DEF TypeOK, FzTypeOK, Fz
<1>3. fz' \in [Actors -> Fz] /\ fz'[p] = [FzIdle EXCEPT !.stuck = fz[p].stuck]
  BY <1>2 DEF TypeOK, FzTypeOK, Done
<1>4. fz'[p].at = "idle" /\ fz'[p].stuck = fz[p].stuck
  BY <1>3 DEF FzIdle
<1>5. Local(p)
  BY DEF TypeOK, FzTypeOK, Local, Done
<1>6. act'[p].stage = "idle" /\ act'[p].result = res /\ SameCall(p)
  BY DEF TypeOK, Act, Done, SameCall
<1> QED  BY <1>1, <1>3, <1>4, <1>5, <1>6

LEMMA StageStep ==
    ASSUME TypeOK, NEW p \in Actors, NEW stage \in Stages, Stage(p, stage)
    PROVE  /\ act' \in [Actors -> Act] /\ act'[p].stage = stage /\ SameCall(p)
           /\ \A q \in Actors \ {p} : act'[q] = act[q]
<1>1. act' \in [Actors -> Act]
  BY DEF TypeOK, Act, Stage
<1>2. act'[p].stage = stage /\ SameCall(p) /\ \A q \in Actors \ {p} : act'[q] = act[q]
  BY DEF TypeOK, Act, Stage, SameCall
<1> QED  BY <1>1, <1>2

LEMMA LeaveStep ==
    ASSUME TypeOK, NEW p \in Actors, FzLeave(p)
    PROVE  /\ fz' \in [Actors -> Fz] /\ fz'[p].at = "idle" /\ fz'[p].stuck = fz[p].stuck
           /\ \A q \in Actors \ {p} : fz'[q] = fz[q]
<1>1. "idle" \in FzPCs
  BY FzPoints
<1>2. fz' \in [Actors -> Fz]
  BY <1>1 DEF TypeOK, FzTypeOK, Fz, FzLeave
<1>3. fz'[p].at = "idle" /\ fz'[p].stuck = fz[p].stuck /\ \A q \in Actors \ {p} : fz'[q] = fz[q]
  BY DEF TypeOK, FzTypeOK, Fz, FzLeave
<1> QED  BY <1>2, <1>3

LEMMA CallStep ==
    ASSUME TypeOK, NEW p \in Actors, NEW want \in FreezerStates, FzCall(p, want)
    PROVE  /\ fz' \in [Actors -> Fz] /\ fz'[p].at = "enter" /\ fz'[p].want = want /\ fz'[p].stuck = fz[p].stuck
           /\ \A q \in Actors \ {p} : fz'[q] = fz[q]
<1>1. "enter" \in FzPCs /\ 0 \in 0..(MaxTries - 1)
  BY FzPoints, FreezerAssumption DEF Loop
<1>2. fz' \in [Actors -> Fz]
  <2> DEFINE r == [fz[p] EXCEPT !.at = "enter", !.want = want, !.i = 0]
  <2>1. r \in Fz
    BY <1>1 DEF TypeOK, FzTypeOK, Fz
  <2>2. fz' = [fz EXCEPT ![p] = r]
    BY DEF TypeOK, FzTypeOK, Fz, FzCall
  <2> QED  BY <2>1, <2>2 DEF TypeOK, FzTypeOK
<1>3. fz'[p].at = "enter" /\ fz'[p].want = want /\ fz'[p].stuck = fz[p].stuck
      /\ \A q \in Actors \ {p} : fz'[q] = fz[q]
  BY DEF TypeOK, FzTypeOK, Fz, FzCall
<1> QED  BY <1>2, <1>3

(* doFreeze starts FreezerGroup.Set, or fails for want of a path.          *)
LEMMA DoFreezeStep ==
    ASSUME TypeOK, NEW p \in Actors, NEW state \in FreezerStates, doFreeze(p, state), hasFreezer' = hasFreezer
    PROVE  /\ fz' \in [Actors -> Fz] /\ DoFreezeReached(p, state)' /\ fz'[p].stuck = fz[p].stuck
           /\ hasFreezer => fz'[p].at = "enter"
           /\ \A q \in Actors \ {p} : fz'[q] = fz[q]
<1>1. CASE hasFreezer
  <2>1. FzCall(p, state)
    BY <1>1 DEF doFreeze
  <2> QED  BY <1>1, <2>1, CallStep DEF DoFreezeReached, SetReached, Loop
<1>2. CASE ~hasFreezer
  <2>1. "ret" \in FzPCs
    BY FzPoints DEF Loop
  <2>2. fz' = [fz EXCEPT ![p].at = "ret", ![p].out = "err"]
    BY <1>2 DEF doFreeze
  <2>3. fz' \in [Actors -> Fz]
    BY <2>1, <2>2 DEF TypeOK, FzTypeOK, Fz
  <2>4. fz'[p].at = "ret" /\ fz'[p].out = "err" /\ fz'[p].stuck = fz[p].stuck
        /\ \A q \in Actors \ {p} : fz'[q] = fz[q]
    BY <2>2 DEF TypeOK, FzTypeOK, Fz
  <2> QED  BY <1>2, <2>3, <2>4 DEF DoFreezeReached
<1> QED  BY <1>1, <1>2

(* A call that begins.                                                     *)
LEMMA BeginStep ==
    ASSUME TypeOK, NEW p \in Actors, NEW op \in {"legacySet", "legacyFreeze", "fsFreeze"}, NEW stage \in Stages,
           NEW arg \in FreezerStates, NEW devs \in {"set", "skip", "skipFreeze"}, Begin(p, op, stage, arg, devs)
    PROVE  /\ act' \in [Actors -> Act] /\ calls' \in 0..MaxCalls /\ start' \in [Actors -> BOOLEAN]
           /\ act'[p].stage = stage /\ act'[p].op = op /\ act'[p].arg = arg /\ ~act'[p].needsThaw
           /\ \A q \in Actors \ {p} : act'[q] = act[q]
           /\ start'[p] = self
<1> DEFINE r == [Idle EXCEPT !.stage = stage, !.op = op, !.arg = arg, !.devs = devs]
<1>1. r \in Act /\ r.stage = stage /\ r.op = op /\ r.arg = arg /\ ~r.needsThaw
  BY FzStatesDiffer DEF Idle, Act, Results
<1>2. act' = [act EXCEPT ![p] = r]
  BY DEF Begin
<1>3. act' \in [Actors -> Act] /\ act'[p] = r /\ \A q \in Actors \ {p} : act'[q] = act[q]
  BY <1>1, <1>2 DEF TypeOK
<1>4. start' \in [Actors -> BOOLEAN] /\ start'[p] = self
  BY DEF TypeOK, FzTypeOK, Begin
<1>5. calls' \in 0..MaxCalls
  BY LegacyAssumption DEF TypeOK, Begin
<1> QED  BY <1>1, <1>3, <1>4, <1>5

-----------------------------------------------------------------------------
(* The freezer's routines: FreezerGroup.Set and GetState get further, and  *)
(* only the one that was called changes the freezer.                       *)

LEMMA SetRoutine ==
    ASSUME TypeOK, FrozenHasFile, NEW p \in Actors, FzStep(p), SetReached(p), fz' \in [Actors -> Fz]
    PROVE  /\ SetReached(p)' /\ fz'[p].want = fz[p].want
           /\ fz[p].want = Undefined => self' = self
           /\ fz'[p].stuck => fz[p].stuck \/ (fz'[p].at = "ret" /\ fz'[p].out = "err")
           /\ fz[p].stuck => fz'[p].stuck
<1> USE FzStatesDiffer DEF TypeOK, FzTypeOK, Fz, SetReached, Loop, kernel
<1>1. CASE FzEnter(p)
  BY <1>1 DEF FzEnter, FzGoto, FzReturn, KernelWriteThawed
<1>2. CASE FzOccasional(p)
  BY <1>2 DEF FzOccasional, FzGoto, KernelWriteThawed
<1>3. CASE FzWrite(p)
  BY <1>3 DEF FzWrite, FzGoto, KernelWriteFrozen
<1>4. CASE FzRead(p)
  BY <1>4 DEF FzRead, FzGoto, FzReturn
<1>5. CASE FzUndo(p)
  BY <1>5 DEF FzUndo, FzReturn, KernelWriteThawed
<1>6. ~FzGetStateRead(p) /\ ~FzGetSelf(p)
  BY DEF FzGetStateRead, FzGetSelf
<1> QED  BY <1>1, <1>2, <1>3, <1>4, <1>5, <1>6 DEF FzStep

LEMMA GetRoutine ==
    ASSUME TypeOK, FrozenHasFile, NEW p \in Actors, FzStep(p), GetReached(p), fz' \in [Actors -> Fz]
    PROVE  GetReached(p)' /\ self' = self /\ fz'[p].stuck = fz[p].stuck
<1> USE DEF TypeOK, FzTypeOK
<1>1. CASE FzGetStateRead(p)
  <2>1. self' = self /\ hasFile' = hasFile
    BY <1>1 DEF FzGetStateRead, kernel
  <2>2. KernelState = Thawed => ~self
    BY FzStatesDiffer DEF KernelState, Thawed, Frozen
  <2>3. \/ hasFile /\ fz'[p].at = "getself" /\ fz'[p].stuck = fz[p].stuck
        \/ fz'[p] = fz[p]
        \/ /\ fz'[p].at = "ret" /\ fz'[p].stuck = fz[p].stuck
           /\ \/ fz'[p].out = "err"
              \/ fz'[p].out = Undefined /\ ~hasFile
              \/ fz'[p].out = Thawed /\ ~self
    BY <1>1, <2>2 DEF FzGetStateRead, FzGoto, FzReturn, Fz
  <2> QED  BY <2>1, <2>3, FzStatesDiffer DEF GetReached, FrozenHasFile
<1>2. CASE FzGetSelf(p)
  <2>1. self' = self /\ hasFile' = hasFile
    BY <1>2 DEF FzGetSelf, kernel
  <2>2. /\ fz'[p].at = "ret" /\ fz'[p].stuck = fz[p].stuck
        /\ \/ fz'[p].out = "err"
           \/ fz'[p].out = Frozen /\ (self \/ OldKernel)
           \/ fz'[p].out = Thawed /\ ~self
    BY <1>2 DEF FzGetSelf, FzReturn, Fz
  <2> QED  BY <2>1, <2>2, FzStatesDiffer DEF GetReached
<1>3. FzGetStateRead(p) \/ FzGetSelf(p)
  <2>1. fz[p].at \in {"getstate", "getself", "ret"}
    BY DEF GetReached
  <2> QED  BY <2>1 DEF FzStep, FzEnter, FzOccasional, FzWrite, FzRead, FzUndo
<1> QED  BY <1>1, <1>2, <1>3

-----------------------------------------------------------------------------
(* One lemma for each step of a call: where it leaves the call.            *)

After(p) == TypeOK' /\ FrozenHasFile' /\ CallInv(p)' /\ Local(p)
Quiet == UNCHANGED <<self, parent, settled, hasFile, disturbed, hasFreezer, calls, start>>

(* A step that leaves the kernel alone has its types from its parts.       *)
LEMMA QuietStep ==
    ASSUME TypeOK, FrozenHasFile, Quiet, act' \in [Actors -> Act], fz' \in [Actors -> Fz],
           unit' \in {"auto", "strict"}, resFreezer' \in FreezerStates
    PROVE  TypeOK' /\ FrozenHasFile'
BY DEF TypeOK, FzTypeOK, FrozenHasFile, Quiet

(* A call that returns.                                                    *)
LEMMA DoneAfter ==
    ASSUME IInv, NEW p \in Actors, NEW res \in Results, Done(p, res), Quiet,
           unit' \in {"auto", "strict"}, resFreezer' \in FreezerStates
    PROVE  After(p)
<1>1. TypeOK' /\ FrozenHasFile' /\ Local(p)
  BY DoneStep, QuietStep DEF IInv
<1>2. CallInv(p)'
  BY DoneStep DEF IInv, CallInv, SetStages
<1> QED  BY <1>1, <1>2 DEF After

LEMMA QueryAfter ==
    ASSUME IInv, NEW p \in Actors, SetQuery(p)
    PROVE  After(p)
<1>1. CASE Stage(p, "props") /\ UNCHANGED fz
           /\ (act[p].devs = "skipFreeze" \/ (act[p].devs = "skip" /\ unit = "auto"))
  <2>1. "props" \in Stages
    BY DEF Stages
  <2>2. act' \in [Actors -> Act] /\ act'[p].stage = "props" /\ SameCall(p) /\ \A q \in Actors \ {p} : act'[q] = act[q]
    BY <1>1, <2>1, StageStep DEF IInv
  <2>3. TypeOK' /\ FrozenHasFile' /\ Local(p)
    BY <1>1, <2>2, QuietStep DEF IInv, TypeOK, FzTypeOK, SetQuery, Quiet, kernel, manager, Local
  <2>4. AtQuery(p) /\ act[p].op = "legacySet"
    BY DEF IInv, CallInv, SetStages, SetQuery
  <2>5. AtProps(p)'
    BY <1>1, <2>2, <2>4 DEF AtQuery, AtProps, Disrupts, SameCall, SetQuery, kernel, manager
  <2> QED  BY <2>2, <2>3, <2>4, <2>5 DEF After, CallInv, SetStages, SameCall
<1>2. CASE Stage(p, "state") /\ IF hasFreezer THEN FzGetState(p)
                                ELSE fz' = [fz EXCEPT ![p].at = "ret", ![p].out = Undefined]
  <2>1. "state" \in Stages /\ "getstate" \in FzPCs /\ "ret" \in FzPCs
    BY FzPoints DEF Stages, Loop
  <2>2. act' \in [Actors -> Act] /\ act'[p].stage = "state" /\ SameCall(p) /\ \A q \in Actors \ {p} : act'[q] = act[q]
    BY <1>2, <2>1, StageStep DEF IInv
  <2>3. fz' \in [Actors -> Fz]
    BY <1>2, <2>1 DEF IInv, TypeOK, FzTypeOK, Fz, FzGetState
  <2>4. /\ fz'[p].at = "getstate" \/ (~hasFreezer /\ fz'[p].at = "ret" /\ fz'[p].out = Undefined)
        /\ fz'[p].stuck = fz[p].stuck
        /\ \A q \in Actors \ {p} : fz'[q] = fz[q]
    BY <1>2 DEF IInv, TypeOK, FzTypeOK, Fz, FzGetState
  <2>5. TypeOK' /\ FrozenHasFile' /\ Local(p)
    BY <2>2, <2>3, <2>4, QuietStep DEF IInv, TypeOK, SetQuery, Quiet, kernel, manager, Local
  <2>6. AtQuery(p) /\ act[p].op = "legacySet"
    BY DEF IInv, CallInv, SetStages, SetQuery
  <2>7. self' = self /\ start' = start /\ (~hasFreezer => ~self)
    BY DEF IInv, FrozenHasFile, SetQuery, kernel, manager
  <2>8. AtState(p)'
    BY <2>2, <2>4, <2>6, <2>7, FzStatesDiffer DEF AtQuery, AtState, GetReached, SameCall
  <2> QED  BY <2>2, <2>5, <2>6, <2>8 DEF After, CallInv, SetStages, SameCall
<1> QED  BY <1>1, <1>2 DEF SetQuery

(* "Already frozen, and should stay frozen", or the freeze begins.         *)
LEMMA DecideAfter ==
    ASSUME IInv, NEW p \in Actors, SetDecide(p)
    PROVE  After(p)
<1>1. AtState(p) /\ act[p].op = "legacySet" /\ fz[p].at = "ret"
  BY DEF IInv, CallInv, SetStages, SetDecide
<1>2. Quiet /\ unit' = unit /\ resFreezer' = resFreezer
  BY DEF SetDecide, Quiet, kernel, manager
<1>3. CASE fz[p].out = "err"
  BY <1>2, <1>3, DoneAfter DEF IInv, TypeOK, SetDecide, Results
<1>4. CASE fz[p].out = Frozen
  <2>1. Stage(p, "props") /\ FzLeave(p) /\ "props" \in Stages
    BY <1>4, FzStatesDiffer DEF SetDecide, Stages
  <2>2. act' \in [Actors -> Act] /\ act'[p].stage = "props" /\ SameCall(p) /\ \A q \in Actors \ {p} : act'[q] = act[q]
    BY <2>1, StageStep DEF IInv
  <2>3. /\ fz' \in [Actors -> Fz] /\ fz'[p].at = "idle" /\ fz'[p].stuck = fz[p].stuck
        /\ \A q \in Actors \ {p} : fz'[q] = fz[q]
    BY <2>1, LeaveStep DEF IInv
  <2>4. TypeOK' /\ FrozenHasFile' /\ Local(p)
    BY <1>2, <2>2, <2>3, QuietStep DEF IInv, TypeOK, Local
  <2>5. AtProps(p)'
    BY <1>1, <1>2, <1>4, <2>2, <2>3 DEF AtState, GetReached, AtProps, SameCall, Quiet
  <2> QED  BY <1>1, <2>2, <2>4, <2>5 DEF After, CallInv, SetStages, SameCall
<1>5. CASE fz[p].out # "err" /\ fz[p].out # Frozen
  <2>1. /\ act' = [act EXCEPT ![p].stage = "freeze", ![p].needsThaw = act[p].arg # Frozen]
        /\ doFreeze(p, Frozen)
    BY <1>5 DEF SetDecide
  <2>2. "freeze" \in Stages /\ (act[p].arg # Frozen) \in BOOLEAN
    BY DEF Stages
  <2>3. act' \in [Actors -> Act]
    <3> DEFINE r == [act[p] EXCEPT !.stage = "freeze", !.needsThaw = act[p].arg # Frozen]
    <3>1. r \in Act
      BY <2>2 DEF IInv, TypeOK, Act
    <3>2. act' = [act EXCEPT ![p] = r]
      BY <2>1 DEF IInv, TypeOK, Act
    <3> QED  BY <3>1, <3>2 DEF IInv, TypeOK
  <2>4. /\ act'[p].stage = "freeze" /\ act'[p].needsThaw = (act[p].arg # Frozen) /\ act'[p].arg = act[p].arg
        /\ act'[p].op = act[p].op
        /\ \A q \in Actors \ {p} : act'[q] = act[q]
    BY <2>1 DEF IInv, TypeOK, Act
  <2>5. /\ fz' \in [Actors -> Fz] /\ DoFreezeReached(p, Frozen)' /\ fz'[p].stuck = fz[p].stuck
        /\ \A q \in Actors \ {p} : fz'[q] = fz[q]
    BY <1>2, <2>1, DoFreezeStep, FzStatesDiffer DEF IInv, Quiet
  <2>6. TypeOK' /\ FrozenHasFile' /\ Local(p)
    BY <1>2, <2>3, <2>4, <2>5, QuietStep DEF IInv, TypeOK, Local
  <2>7. AtFreeze(p)'
    BY <1>1, <1>2, <1>5, <2>4, <2>5 DEF AtState, GetReached, AtFreeze, Quiet
  <2> QED  BY <1>1, <2>4, <2>6, <2>7 DEF After, CallInv, SetStages
<1> QED  BY <1>3, <1>4, <1>5

(* A freeze that succeeded, or a cgroup that cannot be frozen at all: the  *)
(* update goes on.  Any other failure is undone.                           *)
LEMMA FrozenAfter ==
    ASSUME IInv, NEW p \in Actors, SetFrozen(p)
    PROVE  After(p)
<1>1. AtFreeze(p) /\ act[p].op = "legacySet" /\ fz[p].at = "ret"
  BY DEF IInv, CallInv, SetStages, SetFrozen
<1>2. Quiet /\ unit' = unit /\ resFreezer' = resFreezer
  BY DEF SetFrozen, Quiet, kernel, manager
<1>3. CASE fz[p].out = "nil" \/ ~hasFreezer
  <2>1. Stage(p, "props") /\ FzLeave(p) /\ "props" \in Stages
    BY <1>3 DEF SetFrozen, Stages
  <2>2. act' \in [Actors -> Act] /\ act'[p].stage = "props" /\ SameCall(p) /\ \A q \in Actors \ {p} : act'[q] = act[q]
    BY <2>1, StageStep DEF IInv
  <2>3. /\ fz' \in [Actors -> Fz] /\ fz'[p].at = "idle" /\ fz'[p].stuck = fz[p].stuck
        /\ \A q \in Actors \ {p} : fz'[q] = fz[q]
    BY <2>1, LeaveStep DEF IInv
  <2>4. TypeOK' /\ FrozenHasFile' /\ Local(p)
    BY <1>2, <2>2, <2>3, QuietStep DEF IInv, TypeOK, Local
  <2>5. ~fz[p].stuck /\ (hasFreezer => self)
    BY <1>1, <1>3, FzStatesDiffer DEF AtFreeze, DoFreezeReached, SetReached
  <2>6. AtProps(p)'
    BY <1>1, <1>2, <2>2, <2>3, <2>5 DEF AtFreeze, AtProps, SameCall, Quiet
  <2> QED  BY <1>1, <2>2, <2>4, <2>6 DEF After, CallInv, SetStages, SameCall
<1>4. CASE ~(fz[p].out = "nil" \/ ~hasFreezer) /\ act[p].needsThaw
  <2>1. Stage(p, "giveup") /\ doFreeze(p, Thawed) /\ "giveup" \in Stages
    BY <1>4 DEF SetFrozen, Stages
  <2>2. act' \in [Actors -> Act] /\ act'[p].stage = "giveup" /\ SameCall(p) /\ \A q \in Actors \ {p} : act'[q] = act[q]
    BY <2>1, StageStep DEF IInv
  <2>3. /\ fz' \in [Actors -> Fz] /\ DoFreezeReached(p, Thawed)' /\ fz'[p].stuck = fz[p].stuck
        /\ \A q \in Actors \ {p} : fz'[q] = fz[q]
    BY <1>2, <2>1, DoFreezeStep, FzStatesDiffer DEF IInv, Quiet
  <2>4. TypeOK' /\ FrozenHasFile' /\ Local(p)
    BY <1>2, <2>2, <2>3, QuietStep DEF IInv, TypeOK, Local
  <2>5. AtThaw(p)' /\ hasFreezer'
    BY <1>1, <1>2, <1>4, <2>2, <2>3 DEF AtFreeze, AtThaw, SameCall, Quiet
  <2> QED  BY <1>1, <2>2, <2>4, <2>5 DEF After, CallInv, SetStages, SameCall
<1>5. CASE ~(fz[p].out = "nil" \/ ~hasFreezer) /\ ~act[p].needsThaw
  BY <1>2, <1>5, DoneAfter DEF IInv, TypeOK, SetFrozen, Results
<1> QED  BY <1>3, <1>4, <1>5

(* setUnitProperties, and the thaw that is due.                            *)
LEMMA PropsAfter ==
    ASSUME IInv, NEW p \in Actors, SetProps(p)
    PROVE  After(p)
<1>1. AtProps(p) /\ act[p].op = "legacySet"
  BY DEF IInv, CallInv, SetStages, SetProps
<1>2. Quiet /\ unit' \in {"auto", "strict"} /\ resFreezer' = resFreezer
  BY DEF IInv, TypeOK, SetProps, Quiet, kernel
<1>3. PICK setErr \in BOOLEAN :
          IF act[p].needsThaw
          THEN /\ act' = [act EXCEPT ![p].stage = "thaw", ![p].setErr = setErr]
               /\ doFreeze(p, Thawed)
          ELSE IF setErr THEN Done(p, "err")
          ELSE Stage(p, "subsys") /\ UNCHANGED fz
  BY DEF SetProps
<1>4. CASE act[p].needsThaw
  <2>1. act' = [act EXCEPT ![p].stage = "thaw", ![p].setErr = setErr] /\ doFreeze(p, Thawed)
    BY <1>3, <1>4
  <2>2. act' \in [Actors -> Act]
    <3> DEFINE r == [act[p] EXCEPT !.stage = "thaw", !.setErr = setErr]
    <3>1. r \in Act
      BY DEF IInv, TypeOK, Act, Stages
    <3>2. act' = [act EXCEPT ![p] = r]
      BY <2>1 DEF IInv, TypeOK, Act
    <3> QED  BY <3>1, <3>2 DEF IInv, TypeOK
  <2>3. act'[p].stage = "thaw" /\ act'[p].arg = act[p].arg /\ act'[p].op = act[p].op /\ \A q \in Actors \ {p} : act'[q] = act[q]
    BY <2>1 DEF IInv, TypeOK, Act
  <2>4. /\ fz' \in [Actors -> Fz] /\ DoFreezeReached(p, Thawed)' /\ fz'[p].stuck = fz[p].stuck
        /\ \A q \in Actors \ {p} : fz'[q] = fz[q]
    BY <1>2, <2>1, DoFreezeStep, FzStatesDiffer DEF IInv, Quiet
  <2>5. TypeOK' /\ FrozenHasFile' /\ Local(p)
    BY <1>2, <2>2, <2>3, <2>4, QuietStep DEF IInv, TypeOK, Local
  <2>6. AtThaw(p)'
    BY <1>1, <1>2, <1>4, <2>3, <2>4 DEF AtProps, AtThaw, Quiet
  <2> QED  BY <1>1, <2>3, <2>5, <2>6 DEF After, CallInv, SetStages
<1>5. CASE ~act[p].needsThaw /\ setErr
  BY <1>2, <1>3, <1>5, DoneAfter DEF IInv, TypeOK, Results
<1>6. CASE ~act[p].needsThaw /\ ~setErr
  <2>1. Stage(p, "subsys") /\ fz' = fz /\ "subsys" \in Stages
    BY <1>3, <1>6 DEF Stages
  <2>2. act' \in [Actors -> Act] /\ act'[p].stage = "subsys" /\ SameCall(p) /\ \A q \in Actors \ {p} : act'[q] = act[q]
    BY <2>1, StageStep DEF IInv
  <2>3. TypeOK' /\ FrozenHasFile' /\ Local(p)
    BY <1>2, <2>1, <2>2, QuietStep DEF IInv, TypeOK, FzTypeOK, Local
  <2>4. AtSubsys(p)'
    BY <1>1, <1>2, <1>6, <2>1, <2>2, FzStatesDiffer DEF AtProps, AtSubsys, Kept, SameCall, Quiet
  <2> QED  BY <1>1, <2>2, <2>3, <2>4 DEF After, CallInv, SetStages, SameCall
<1> QED  BY <1>4, <1>5, <1>6

LEMMA ThawedAfter ==
    ASSUME IInv, NEW p \in Actors, SetThawed(p)
    PROVE  After(p)
<1>1. AtThaw(p) /\ act[p].op = "legacySet" /\ fz[p].at = "ret"
  BY DEF IInv, CallInv, SetStages, SetThawed
<1>2. Quiet /\ unit' = unit /\ resFreezer' = resFreezer
  BY DEF SetThawed, Quiet, kernel, manager
<1>3. CASE act[p].setErr
  BY <1>2, <1>3, DoneAfter DEF IInv, TypeOK, SetThawed, Results
<1>4. CASE ~act[p].setErr
  <2>1. Stage(p, "subsys") /\ FzLeave(p) /\ "subsys" \in Stages
    BY <1>4 DEF SetThawed, Stages
  <2>2. act' \in [Actors -> Act] /\ act'[p].stage = "subsys" /\ SameCall(p) /\ \A q \in Actors \ {p} : act'[q] = act[q]
    BY <2>1, StageStep DEF IInv
  <2>3. /\ fz' \in [Actors -> Fz] /\ fz'[p].at = "idle" /\ fz'[p].stuck = fz[p].stuck
        /\ \A q \in Actors \ {p} : fz'[q] = fz[q]
    BY <2>1, LeaveStep DEF IInv
  <2>4. TypeOK' /\ FrozenHasFile' /\ Local(p)
    BY <1>2, <2>2, <2>3, QuietStep DEF IInv, TypeOK, Local
  <2>5. ~fz[p].stuck => ~self
    BY <1>1, FzStatesDiffer DEF IInv, FrozenHasFile, AtThaw, DoFreezeReached, SetReached
  <2>6. AtSubsys(p)'
    BY <1>1, <1>2, <2>2, <2>3, <2>5 DEF IInv, TypeOK, FzTypeOK, AtThaw, AtSubsys, Kept, SameCall, Quiet
  <2> QED  BY <1>1, <2>2, <2>4, <2>6 DEF After, CallInv, SetStages, SameCall
<1> QED  BY <1>3, <1>4

LEMMA SubsystemsAfter ==
    ASSUME IInv, NEW p \in Actors, SetSubsystems(p)
    PROVE  After(p)
<1>1. AtSubsys(p) /\ act[p].op = "legacySet"
  BY DEF IInv, CallInv, SetStages, SetSubsystems
<1>2. Quiet /\ unit' = unit /\ resFreezer' = resFreezer
  BY DEF SetSubsystems, Quiet, kernel, manager
<1>3. CASE Done(p, "err") \/ Done(p, "nil")
  BY <1>2, <1>3, DoneAfter DEF IInv, TypeOK, Results
<1>4. CASE hasFreezer /\ Stage(p, "final") /\ FzCall(p, act[p].arg)
  <2>1. "final" \in Stages /\ act[p].arg \in FreezerStates
    BY DEF Stages, IInv, TypeOK, Act
  <2>2. act' \in [Actors -> Act] /\ act'[p].stage = "final" /\ SameCall(p) /\ \A q \in Actors \ {p} : act'[q] = act[q]
    BY <1>4, <2>1, StageStep DEF IInv
  <2>3. /\ fz' \in [Actors -> Fz] /\ fz'[p].at = "enter" /\ fz'[p].want = act[p].arg /\ fz'[p].stuck = fz[p].stuck
        /\ \A q \in Actors \ {p} : fz'[q] = fz[q]
    BY <1>4, <2>1, CallStep DEF IInv
  <2>4. TypeOK' /\ FrozenHasFile' /\ Local(p)
    BY <1>2, <2>2, <2>3, QuietStep DEF IInv, TypeOK, Local
  <2>5. AtFinal(p)'
    BY <1>1, <1>2, <1>4, <2>2, <2>3 DEF AtSubsys, AtFinal, Kept, SetReached, Loop, SameCall, Quiet
  <2> QED  BY <1>1, <2>2, <2>4, <2>5 DEF After, CallInv, SetStages, SameCall
<1> QED  BY <1>3, <1>4 DEF SetSubsystems

(* The steps that end a call.                                              *)
LEMMA ReturnsAfter ==
    ASSUME IInv, NEW p \in Actors,
           SetRejected(p) \/ SetGiveUp(p) \/ SetFinal(p) \/ LegacyFreezeReturns(p) \/ FsFreezeReturns(p)
    PROVE  After(p)
<1>1. CASE SetRejected(p) \/ SetGiveUp(p)
  BY <1>1, DoneAfter DEF IInv, TypeOK, SetRejected, SetGiveUp, Results, Quiet, kernel, manager
<1>2. CASE SetFinal(p)
  <2>1. fz[p].out \in Results
    BY <1>2 DEF IInv, CallInv, AtFinal, SetReached, SetFinal, Results
  <2> QED  BY <1>2, <2>1, DoneAfter DEF IInv, TypeOK, SetFinal, Results, Quiet, kernel, manager
<1>3. CASE LegacyFreezeReturns(p)
  <2>1. fz[p].out \in Results
    BY <1>3 DEF IInv, CallInv, DoFreezeReached, SetReached, LegacyFreezeReturns, Results
  <2>2. resFreezer' \in FreezerStates /\ unit' \in {"auto", "strict"}
    BY <1>3 DEF IInv, TypeOK, Act, LegacyFreezeReturns
  <2> QED  BY <1>3, <2>1, <2>2, DoneAfter DEF LegacyFreezeReturns, Quiet, kernel
<1>4. CASE FsFreezeReturns(p)
  <2>1. fz[p].out \in Results
    BY <1>4 DEF IInv, CallInv, AtFsCall, SetReached, FsFreezeReturns, Results
  <2>2. resFreezer' \in FreezerStates /\ unit' \in {"auto", "strict"}
    BY <1>4 DEF IInv, TypeOK, Act, FsFreezeReturns
  <2> QED  BY <1>4, <2>1, <2>2, DoneAfter DEF FsFreezeReturns, Quiet, kernel
<1> QED  BY <1>1, <1>2, <1>3, <1>4

(* fs Freeze: the shared Resources hold this call's state, for there is no *)
(* other call.                                                             *)
LEMMA FsFreezeAfter ==
    ASSUME IInv, NEW p \in Actors, FsFreezeStore(p) \/ FsFreezeSet(p)
    PROVE  After(p)
<1>1. CASE FsFreezeStore(p) /\ hasFreezer
  <2>1. /\ act' = [act EXCEPT ![p].stage = "fsCall", ![p].prev = resFreezer]
        /\ resFreezer' = act[p].arg /\ fz' = fz /\ fz[p].at = "idle" /\ Quiet /\ unit' = unit
    BY <1>1 DEF FsFreezeStore, Quiet, kernel
  <2>2. act' \in [Actors -> Act]
    <3> DEFINE r == [act[p] EXCEPT !.stage = "fsCall", !.prev = resFreezer]
    <3>1. r \in Act
      BY DEF IInv, TypeOK, Act, Stages
    <3>2. act' = [act EXCEPT ![p] = r]
      BY <2>1 DEF IInv, TypeOK, Act
    <3> QED  BY <3>1, <3>2 DEF IInv, TypeOK
  <2>3. act'[p].stage = "fsCall" /\ act'[p].arg = act[p].arg /\ act'[p].op = act[p].op /\ \A q \in Actors \ {p} : act'[q] = act[q]
    BY <2>1 DEF IInv, TypeOK, Act
  <2>4. TypeOK' /\ FrozenHasFile' /\ Local(p)
    BY <2>1, <2>2, <2>3, QuietStep DEF IInv, TypeOK, FzTypeOK, Act, Local
  <2>5. AtFsCall(p)' /\ act[p].op = "fsFreeze"
    BY <1>1, <2>1, <2>3 DEF IInv, CallInv, FsFreezeStore, AtFsCall, Quiet
  <2> QED  BY <2>3, <2>4, <2>5 DEF After, CallInv, SetStages
<1>2. CASE FsFreezeStore(p) /\ ~hasFreezer
  BY <1>2, DoneAfter DEF IInv, TypeOK, FsFreezeStore, Results, Quiet, kernel
<1>3. CASE FsFreezeSet(p)
  <2>1. FzCall(p, resFreezer) /\ act' = act /\ Quiet /\ unit' = unit /\ resFreezer' = resFreezer /\ act[p].stage = "fsCall"
    BY <1>3 DEF FsFreezeSet, Quiet, kernel, manager
  <2>2. AtFsCall(p) /\ fz[p].at = "idle" /\ act[p].op = "fsFreeze"
    BY <1>3 DEF IInv, CallInv, FsFreezeSet
  <2>3. /\ fz' \in [Actors -> Fz] /\ fz'[p].at = "enter" /\ fz'[p].want = resFreezer
        /\ \A q \in Actors \ {p} : fz'[q] = fz[q]
    BY <2>1, CallStep DEF IInv, TypeOK
  <2>4. TypeOK' /\ FrozenHasFile' /\ Local(p)
    BY <2>1, <2>3, QuietStep DEF IInv, TypeOK, Local
  <2>5. AtFsCall(p)'
    BY <2>1, <2>2, <2>3 DEF AtFsCall, SetReached, Loop, Quiet
  <2> QED  BY <2>1, <2>2, <2>4, <2>5 DEF After, CallInv, SetStages
<1> QED  BY <1>1, <1>2, <1>3

(* A call begins.                                                          *)
LEMMA CallAfter ==
    ASSUME IInv, NEW p \in Actors, Call(p)
    PROVE  After(p)
<1>1. {"query", "legacyFreeze", "fsFreeze"} \subseteq Stages
  BY DEF Stages
<1>2. UNCHANGED <<self, parent, settled, hasFile, disturbed, hasFreezer, unit, resFreezer>>
  BY DEF Call, SetCall, LegacyFreezeCall, FsFreezeCall, kernel
<1>3. CASE SetCall(p)
  <2>1. PICK arg \in FreezerStates, devs \in {"set", "skip", "skipFreeze"} : Begin(p, "legacySet", "query", arg, devs)
    BY <1>3 DEF SetCall
  <2>2. /\ act' \in [Actors -> Act] /\ calls' \in 0..MaxCalls /\ start' \in [Actors -> BOOLEAN]
        /\ act'[p].stage = "query" /\ act'[p].op = "legacySet" /\ ~act'[p].needsThaw
        /\ \A q \in Actors \ {p} : act'[q] = act[q]
        /\ start'[p] = self
    BY <1>1, <2>1, BeginStep DEF IInv
  <2>3. /\ fz' \in [Actors -> Fz] /\ fz'[p] = FzIdle /\ \A q \in Actors \ {p} : fz'[q] = fz[q]
    BY <1>3, FzIdleType DEF IInv, TypeOK, FzTypeOK, SetCall
  <2>4. TypeOK' /\ FrozenHasFile' /\ Local(p)
    BY <1>2, <2>2, <2>3 DEF IInv, TypeOK, FzTypeOK, FrozenHasFile, Local
  <2>5. AtQuery(p)'
    BY <1>2, <2>2, <2>3 DEF AtQuery, FzIdle
  <2> QED  BY <2>2, <2>4, <2>5 DEF After, CallInv, SetStages
<1>4. CASE LegacyFreezeCall(p)
  <2>1. PICK arg \in FreezerStates : Begin(p, "legacyFreeze", "legacyFreeze", arg, "set")
    BY <1>4 DEF LegacyFreezeCall
  <2>2. /\ act' \in [Actors -> Act] /\ calls' \in 0..MaxCalls /\ start' \in [Actors -> BOOLEAN]
        /\ act'[p].stage = "legacyFreeze" /\ act'[p].op = "legacyFreeze" /\ act'[p].arg = arg
        /\ \A q \in Actors \ {p} : act'[q] = act[q]
    BY <1>1, <2>1, BeginStep DEF IInv
  <2> DEFINE r == IF hasFreezer THEN [FzIdle EXCEPT !.at = "enter", !.want = arg]
                  ELSE [FzIdle EXCEPT !.at = "ret", !.out = "err"]
  <2>3. fz' = [fz EXCEPT ![p] = r]
    BY <1>4, <2>2 DEF LegacyFreezeCall
  <2>4. "enter" \in FzPCs /\ "ret" \in FzPCs
    BY FzPoints DEF Loop
  <2>5. r \in Fz
    BY <2>4, FzIdleType DEF Fz
  <2>6. fz' \in [Actors -> Fz] /\ fz'[p] = r /\ \A q \in Actors \ {p} : fz'[q] = fz[q]
    BY <2>3, <2>5 DEF IInv, TypeOK, FzTypeOK
  <2>7. TypeOK' /\ FrozenHasFile' /\ Local(p)
    BY <1>2, <2>2, <2>6 DEF IInv, TypeOK, FzTypeOK, FrozenHasFile, Local
  <2>8. DoFreezeReached(p, act[p].arg)'
    BY <1>2, <2>2, <2>6 DEF DoFreezeReached, SetReached, Loop, FzIdle
  <2> QED  BY <2>2, <2>7, <2>8 DEF After, CallInv, SetStages
<1>5. CASE FsFreezeCall(p)
  <2>1. PICK arg \in FreezerStates : Begin(p, "fsFreeze", "fsFreeze", arg, "set")
    BY <1>5 DEF FsFreezeCall
  <2>2. /\ act' \in [Actors -> Act] /\ calls' \in 0..MaxCalls /\ start' \in [Actors -> BOOLEAN]
        /\ act'[p].stage = "fsFreeze" /\ act'[p].op = "fsFreeze"
        /\ \A q \in Actors \ {p} : act'[q] = act[q]
    BY <1>1, <2>1, BeginStep DEF IInv
  <2>3. /\ fz' \in [Actors -> Fz] /\ fz'[p] = FzIdle /\ \A q \in Actors \ {p} : fz'[q] = fz[q]
    BY <1>5, FzIdleType DEF IInv, TypeOK, FzTypeOK, FsFreezeCall
  <2>4. TypeOK' /\ FrozenHasFile' /\ Local(p)
    BY <1>2, <2>2, <2>3 DEF IInv, TypeOK, FzTypeOK, FrozenHasFile, Local
  <2>5. fz'[p].at = "idle"
    BY <2>3 DEF FzIdle
  <2> QED  BY <2>2, <2>4, <2>5 DEF After, CallInv, SetStages
<1> QED  BY <1>3, <1>4, <1>5 DEF Call

(* A step inside the freezer's routines.                                   *)
LEMMA RoutineAfter ==
    ASSUME IInv, NEW p \in Actors, FzStep(p), UNCHANGED mvars
    PROVE  After(p)
<1>1. FzTypeOK'
  BY FzStepType DEF IInv, TypeOK
<1>2. TypeOK'
  BY <1>1 DEF IInv, TypeOK, mvars
<1>3. /\ Local(p) /\ hasFile' = hasFile /\ act' = act /\ start' = start /\ resFreezer' = resFreezer
      /\ hasFreezer' = hasFreezer /\ unit' = unit
  BY DEF IInv, TypeOK, FzTypeOK, Local, mvars, FzStep, FzEnter, FzOccasional, FzWrite, FzRead, FzUndo, FzGetStateRead,
         FzGetSelf, FzGoto, FzReturn
<1>4. FrozenHasFile'
  BY <1>3 DEF IInv, FrozenHasFile, FzStep, FzEnter, FzOccasional, FzWrite, FzRead, FzUndo, FzGetStateRead,
         FzGetSelf, KernelWriteFrozen, KernelWriteThawed, kernel
<1>5. fz' \in [Actors -> Fz]
  BY <1>1 DEF FzTypeOK
<1>6. fz[p].at \notin {"idle", "ret"}
  BY DEF FzStep, FzEnter, FzOccasional, FzWrite, FzRead, FzUndo, FzGetStateRead, FzGetSelf
<1>7. act[p].stage \in Stages /\ CallInv(p)
  BY DEF IInv, TypeOK, Act
<1>8. ASSUME SetReached(p)
      PROVE  /\ SetReached(p)' /\ fz'[p].want = fz[p].want
             /\ fz[p].want = Undefined => self' = self
             /\ fz'[p].stuck => fz[p].stuck \/ (fz'[p].at = "ret" /\ fz'[p].out = "err")
             /\ fz[p].stuck => fz'[p].stuck
  BY <1>5, <1>8, SetRoutine DEF IInv
<1>9. CASE act[p].stage = "state"
  <2>1. AtState(p)
    BY <1>7, <1>9 DEF CallInv
  <2>2. GetReached(p)' /\ self' = self /\ fz'[p].stuck = fz[p].stuck
    BY <1>5, <2>1, GetRoutine DEF IInv, AtState
  <2>3. AtState(p)'
    BY <1>3, <2>1, <2>2 DEF AtState
  <2> QED  BY <1>2, <1>3, <1>4, <1>7, <1>9, <2>3 DEF After, CallInv, SetStages
<1>10. CASE act[p].stage = "freeze"
  <2>1. AtFreeze(p)
    BY <1>7, <1>10 DEF CallInv
  <2>2. SetReached(p) /\ hasFreezer /\ fz[p].want = Frozen
    BY <1>6, <2>1 DEF AtFreeze, DoFreezeReached
  <2>3. AtFreeze(p)'
    BY <1>3, <1>6, <1>8, <2>1, <2>2 DEF AtFreeze, DoFreezeReached
  <2> QED  BY <1>2, <1>3, <1>4, <1>7, <1>10, <2>3 DEF After, CallInv, SetStages
<1>11. CASE act[p].stage \in {"giveup", "thaw"}
  <2>1. AtThaw(p)
    BY <1>7, <1>11 DEF CallInv
  <2>2. SetReached(p) /\ hasFreezer /\ fz[p].want = Thawed
    BY <1>6, <2>1 DEF AtThaw, DoFreezeReached
  <2>3. AtThaw(p)'
    BY <1>3, <1>8, <2>1, <2>2 DEF AtThaw, DoFreezeReached
  <2> QED  BY <1>2, <1>3, <1>4, <1>7, <1>11, <2>2, <2>3 DEF After, CallInv, SetStages
<1>12. CASE act[p].stage = "final"
  <2>1. AtFinal(p)
    BY <1>7, <1>12 DEF CallInv
  <2>2. AtFinal(p)'
    BY <1>3, <1>8, <2>1 DEF AtFinal, Kept
  <2> QED  BY <1>2, <1>3, <1>4, <1>7, <1>12, <2>2 DEF After, CallInv, SetStages
<1>13. CASE act[p].stage = "fsCall"
  <2>1. AtFsCall(p) /\ SetReached(p)
    BY <1>6, <1>7, <1>13 DEF CallInv, AtFsCall
  <2>2. AtFsCall(p)'
    BY <1>3, <1>6, <1>8, <2>1 DEF AtFsCall
  <2> QED  BY <1>2, <1>3, <1>4, <1>7, <1>13, <2>2 DEF After, CallInv, SetStages
<1>14. CASE act[p].stage = "legacyFreeze"
  <2>1. DoFreezeReached(p, act[p].arg) /\ hasFreezer /\ SetReached(p)
    BY <1>6, <1>7, <1>14 DEF CallInv, DoFreezeReached
  <2>2. DoFreezeReached(p, act[p].arg)'
    BY <1>3, <1>8, <2>1 DEF DoFreezeReached
  <2> QED  BY <1>2, <1>3, <1>4, <1>7, <1>14, <2>2 DEF After, CallInv, SetStages
<1>15. act[p].stage \notin {"idle", "query", "props", "subsys", "fsFreeze"}
  BY <1>6, <1>7 DEF CallInv, AtQuery, AtProps, AtSubsys
<1> QED  BY <1>7, <1>9, <1>10, <1>11, <1>12, <1>13, <1>14, <1>15 DEF Stages

-----------------------------------------------------------------------------
(* The invariant, for calls that do not overlap.                           *)

(* An actor that waits its turn is not affected.                           *)
LEMMA Others ==
    ASSUME IInv, Serial, Serial', NEW p \in Actors, Busy(p) \/ Busy(p)', After(p)
    PROVE  IInv'
<1>1. ASSUME NEW q \in Actors, q # p PROVE CallInv(q)'
  <2>1. act'[q] = act[q] /\ fz'[q] = fz[q]
    BY <1>1 DEF After, Local
  <2>2. act[q].stage = "idle"
    BY <1>1, <2>1 DEF Serial, Busy
  <2>3. fz[q].at = "idle"
    BY <2>2 DEF IInv, CallInv
  <2> QED  BY <2>1, <2>2, <2>3 DEF CallInv, SetStages
<1> QED  BY <1>1 DEF IInv, After

LEMMA WorkBusy ==
    ASSUME IInv, NEW p \in Actors, Work(p)
    PROVE  Busy(p) /\ After(p)
<1>1. CASE FzStep(p) /\ UNCHANGED mvars
  <2>1. Busy(p)
    BY <1>1 DEF IInv, CallInv, Busy, FzStep, FzEnter, FzOccasional, FzWrite, FzRead, FzUndo, FzGetStateRead, FzGetSelf
  <2> QED  BY <1>1, <2>1, RoutineAfter
<1>2. CASE SetQuery(p) \/ SetDecide(p) \/ SetFrozen(p) \/ SetProps(p) \/ SetThawed(p) \/ SetSubsystems(p)
  <2>1. Busy(p)
    BY <1>2 DEF Busy, SetQuery, SetDecide, SetFrozen, SetProps, SetThawed, SetSubsystems
  <2> QED  BY <1>2, <2>1, QueryAfter, DecideAfter, FrozenAfter, PropsAfter, ThawedAfter, SubsystemsAfter
<1>3. CASE SetRejected(p) \/ SetGiveUp(p) \/ SetFinal(p) \/ LegacyFreezeReturns(p) \/ FsFreezeReturns(p)
  <2>1. Busy(p)
    BY <1>3 DEF Busy, SetRejected, SetGiveUp, SetFinal, LegacyFreezeReturns, FsFreezeReturns
  <2> QED  BY <1>3, <2>1, ReturnsAfter
<1>4. CASE FsFreezeStore(p) \/ FsFreezeSet(p)
  <2>1. Busy(p)
    BY <1>4 DEF Busy, FsFreezeStore, FsFreezeSet
  <2> QED  BY <1>4, <2>1, FsFreezeAfter
<1> QED  BY <1>1, <1>2, <1>3, <1>4 DEF Work

(* Tasks that stop or appear, and a parent that freezes or thaws, leave    *)
(* the cgroup's own freezer alone.                                         *)
LEMMA KernelIInv ==
    ASSUME IInv, Settle \/ Disturb, UNCHANGED mvars
    PROVE  IInv'
<1>1. self' = self /\ hasFile' = hasFile /\ fz' = fz /\ UNCHANGED mvars
  BY DEF Settle, Disturb
<1>2. parent' \in BOOLEAN /\ settled' \in BOOLEAN
  BY DEF IInv, TypeOK, FzTypeOK, Settle, Disturb
<1>5. disturbed' \in 0..MaxDisturb
  <2>1. disturbed \in 0..MaxDisturb /\ (disturbed' = disturbed \/ (disturbed < MaxDisturb /\ disturbed' = disturbed + 1))
    BY DEF IInv, TypeOK, FzTypeOK, Settle, Disturb
  <2> QED  BY <2>1, FreezerAssumption
<1>3. TypeOK' /\ FrozenHasFile'
  BY <1>1, <1>2, <1>5 DEF IInv, TypeOK, FzTypeOK, FrozenHasFile, mvars
<1>4. ASSUME NEW p \in Actors PROVE CallInv(p)'
  BY <1>1 DEF IInv, CallInv, AtQuery, AtState, AtFreeze, AtProps, AtThaw, Kept, AtSubsys, AtFinal, AtFsCall, Disrupts,
              DoFreezeReached, SetReached, GetReached, mvars
<1> QED  BY <1>3, <1>4 DEF IInv

LEMMA InitIInv == Init => IInv
<1> SUFFICES ASSUME Init PROVE IInv
  OBVIOUS
<1>1. FrozenHasFile
  BY DEF Init, FzInit, FrozenHasFile
<1>2. ASSUME NEW p \in Actors PROVE act[p].stage = "idle" /\ fz[p].at = "idle"
  BY DEF Init, FzInit, Idle, FzIdle
<1> QED  BY <1>1, <1>2, InitType DEF IInv, CallInv, SetStages

LEMMA NextIInv == IInv /\ Serial /\ Serial' /\ [Next]_vars => IInv'
<1> SUFFICES ASSUME IInv, Serial, Serial', [Next]_vars PROVE IInv'
  OBVIOUS
<1>1. ASSUME NEW p \in Actors, Call(p) PROVE IInv'
  <2>1. Busy(p)'
    <3>1. \A op, stage, arg, devs : Begin(p, op, stage, arg, devs) => act'[p].stage = stage
      BY DEF IInv, TypeOK, Begin, Idle
    <3> QED  BY <1>1, <3>1 DEF Call, SetCall, LegacyFreezeCall, FsFreezeCall, Busy
  <2> QED  BY <1>1, <2>1, CallAfter, Others
<1>2. ASSUME NEW p \in Actors, Work(p) PROVE IInv'
  BY <1>2, WorkBusy, Others
<1>3. CASE (Settle \/ Disturb) /\ UNCHANGED mvars
  BY <1>3, KernelIInv
<1>4. CASE UNCHANGED vars
  <2>1. UNCHANGED <<self, parent, settled, hasFile, disturbed, fz, hasFreezer, unit, resFreezer, calls, act, start>>
    BY <1>4 DEF vars, fzvars, mvars
  <2>2. TypeOK' /\ FrozenHasFile'
    BY <2>1 DEF IInv, TypeOK, FzTypeOK, FrozenHasFile
  <2>3. ASSUME NEW p \in Actors PROVE CallInv(p)'
    BY <2>1 DEF IInv, CallInv, AtQuery, AtState, AtFreeze, AtProps, AtThaw, Kept, AtSubsys, AtFinal, AtFsCall, Disrupts,
                DoFreezeReached, SetReached, GetReached
  <2> QED  BY <2>2, <2>3 DEF IInv
<1> QED  BY <1>1, <1>2, <1>3, <1>4 DEF Next

LEMMA Invariance == Spec /\ []Serial => []IInv
BY InitIInv, NextIInv, PTL DEF Spec

(* "So we have to freeze the container": legacyManager.Set updates the     *)
(* devices of the unit only while the container's own cgroup is frozen,    *)
(* however many actors take turns, whatever fails and whatever the tasks   *)
(* and the parent cgroup do.  (On a kernel without freezer.self_freezing a *)
(* container that only its parent freezes is taken for frozen.)            *)
THEOREM DisruptsFrozen ==
    ASSUME ~OldKernel
    PROVE  Spec /\ []Serial => []DisruptsOnlyFrozen
<1>1. IInv => DisruptsOnlyFrozen
  <2> SUFFICES ASSUME IInv, NEW p \in Actors, Disrupts(p), hasFreezer PROVE self
    BY DEF DisruptsOnlyFrozen
  <2>1. AtProps(p)
    BY DEF IInv, CallInv, Disrupts
  <2> QED  BY <2>1 DEF AtProps
<1> QED  BY <1>1, Invariance, PTL

-----------------------------------------------------------------------------
(* What is true when a call returns.                                       *)

Outcome(p) ==
    /\ self' = self /\ fz'[p].stuck = fz[p].stuck
    /\ act[p].op = "legacySet" => Kept(p)
    /\ act'[p].result = "nil" /\ hasFreezer /\ act[p].arg \in {Frozen, Thawed} => self = (act[p].arg = Frozen)
    /\ (/\ act[p].op \in {"legacyFreeze", "fsFreeze"} /\ act'[p].result = "err" /\ hasFreezer
        /\ act[p].arg = Frozen /\ ~fz[p].stuck) => ~self

(* FreezerGroup.Set has returned: its answer tells what it left.           *)
LEMMA AnswerTells ==
    ASSUME IInv, NEW p \in Actors, fz[p].at = "ret", hasFreezer => SetReached(p) /\ fz[p].want = act[p].arg,
           self' = self, fz'[p].stuck = fz[p].stuck, act'[p].result \in {fz[p].out, "err"},
           act[p].op = "legacySet" => Kept(p),
           act'[p].result = "err" => act[p].op = "legacySet" \/ fz[p].out = "err"
    PROVE  Outcome(p)
<1>1. self \in BOOLEAN
  BY DEF IInv, TypeOK, FzTypeOK
<1> QED  BY <1>1, FzStatesDiffer DEF Outcome, SetReached

LEMMA ReturnOutcome ==
    ASSUME IInv, NEW p \in Actors, Work(p), Busy(p), act'[p].stage = "idle"
    PROVE  Outcome(p)
<1>1. TypeOK /\ CallInv(p) /\ FrozenHasFile /\ self \in BOOLEAN /\ start[p] \in BOOLEAN
  BY DEF IInv, TypeOK, FzTypeOK
<1>2. ASSUME NEW res \in Results, Done(p, res), self' = self
      PROVE  /\ self' = self /\ fz'[p].stuck = fz[p].stuck /\ act'[p].result = res
  BY <1>1, <1>2, DoneStep
<1>3. "err" \in Results /\ "nil" \in Results
  BY DEF Results
(* A Set that fails before the subsystems' turn. *)
<1>4. ASSUME Done(p, "err"), self' = self, act[p].op = "legacySet", Kept(p) PROVE Outcome(p)
  BY <1>2, <1>3, <1>4 DEF Outcome
<1>5. CASE SetRejected(p)
  <2>1. act[p].op = "legacySet" /\ Kept(p)
    BY <1>1, <1>5 DEF SetRejected, CallInv, SetStages, AtQuery, Kept
  <2> QED  BY <1>4, <1>5, <2>1 DEF SetRejected, kernel
<1>6. CASE SetDecide(p)
  <2>1. act[p].op = "legacySet" /\ Kept(p)
    BY <1>1, <1>6 DEF SetDecide, CallInv, SetStages, AtState, Kept
  <2>2. Done(p, "err")
    <3>1. \A s \in {"props", "freeze"} : s \in Stages /\ s # "idle"
      BY DEF Stages
    <3>2. ~Stage(p, "props")
      BY <1>1, <3>1, StageStep
    <3>3. act' # [act EXCEPT ![p].stage = "freeze", ![p].needsThaw = act[p].arg # Frozen]
      BY <1>1 DEF TypeOK, Act
    <3> QED  BY <1>6, <3>2, <3>3 DEF SetDecide
  <2> QED  BY <1>4, <1>6, <2>1, <2>2 DEF SetDecide, kernel
<1>7. CASE SetFrozen(p)
  <2>1. Done(p, "err") /\ ~act[p].needsThaw
    <3>1. \A s \in {"props", "giveup"} : s \in Stages /\ s # "idle"
      BY DEF Stages
    <3>2. ~Stage(p, "props") /\ ~Stage(p, "giveup")
      BY <1>1, <3>1, StageStep
    <3> QED  BY <1>7, <3>2 DEF SetFrozen
  <2>2. act[p].op = "legacySet" /\ Kept(p)
    BY <1>1, <1>7, <2>1, FzStatesDiffer DEF SetFrozen, CallInv, SetStages, AtFreeze, Kept
  <2> QED  BY <1>4, <1>7, <2>1, <2>2 DEF SetFrozen, kernel
<1>8. CASE SetGiveUp(p)
  <2>1. act[p].op = "legacySet" /\ AtThaw(p)
    BY <1>1, <1>8 DEF SetGiveUp, CallInv, SetStages
  <2>2. Kept(p)
    BY <1>1, <1>8, <2>1, FzStatesDiffer DEF SetGiveUp, AtThaw, DoFreezeReached, SetReached, FrozenHasFile, Kept
  <2> QED  BY <1>4, <1>8, <2>1, <2>2 DEF SetGiveUp, kernel
<1>9. CASE SetProps(p)
  <2>1. ~act[p].needsThaw /\ Done(p, "err")
    <3>1. "subsys" \in Stages
      BY DEF Stages
    <3>2. ~Stage(p, "subsys")
      BY <1>1, <3>1, StageStep
    <3>3. \A setErr : act' # [act EXCEPT ![p].stage = "thaw", ![p].setErr = setErr]
      BY <1>1 DEF TypeOK, Act
    <3> QED  BY <1>9, <3>2, <3>3 DEF SetProps
  <2>2. act[p].op = "legacySet" /\ Kept(p)
    BY <1>1, <1>9, <2>1, FzStatesDiffer DEF SetProps, CallInv, SetStages, AtProps, Kept
  <2> QED  BY <1>4, <1>9, <2>1, <2>2 DEF SetProps, kernel
<1>10. CASE SetThawed(p)
  <2>1. Done(p, "err")
    <3>1. "subsys" \in Stages
      BY DEF Stages
    <3>2. ~Stage(p, "subsys")
      BY <1>1, <3>1, StageStep
    <3> QED  BY <1>10, <3>2 DEF SetThawed
  <2>2. act[p].op = "legacySet" /\ AtThaw(p)
    BY <1>1, <1>10 DEF SetThawed, CallInv, SetStages
  <2>3. Kept(p)
    BY <1>1, <1>10, <2>2, FzStatesDiffer DEF SetThawed, AtThaw, DoFreezeReached, SetReached, FrozenHasFile, Kept
  <2> QED  BY <1>4, <1>10, <2>1, <2>2, <2>3 DEF SetThawed, kernel
<1>11. CASE SetSubsystems(p)
  <2>1. act[p].op = "legacySet" /\ Kept(p)
    BY <1>1, <1>11 DEF SetSubsystems, CallInv, SetStages, AtSubsys
  <2>2. Done(p, "err") \/ (~hasFreezer /\ Done(p, "nil"))
    <3>1. "final" \in Stages
      BY DEF Stages
    <3>2. ~Stage(p, "final")
      BY <1>1, <3>1, StageStep
    <3> QED  BY <1>11, <3>2 DEF SetSubsystems
  <2>3. CASE ~hasFreezer /\ Done(p, "nil")
    BY <1>2, <1>3, <1>11, <2>1, <2>3 DEF SetSubsystems, Outcome, kernel
  <2> QED  BY <1>4, <1>11, <2>1, <2>2, <2>3 DEF SetSubsystems, kernel
(* The freezer's own answer decides. *)
<1>12. CASE SetFinal(p)
  <2>1. act[p].op = "legacySet" /\ AtFinal(p) /\ fz[p].at = "ret"
    BY <1>1, <1>12 DEF SetFinal, CallInv, SetStages
  <2>2. fz[p].out \in Results
    BY <2>1 DEF AtFinal, SetReached, Results
  <2>3. self' = self /\ fz'[p].stuck = fz[p].stuck /\ act'[p].result \in {fz[p].out, "err"}
    BY <1>2, <1>3, <1>12, <2>2 DEF SetFinal, kernel
  <2> QED  BY <2>1, <2>3, AnswerTells DEF AtFinal
<1>13. CASE LegacyFreezeReturns(p)
  <2>1. act[p].op = "legacyFreeze" /\ DoFreezeReached(p, act[p].arg) /\ fz[p].at = "ret"
    BY <1>1, <1>13 DEF LegacyFreezeReturns, CallInv
  <2>2. fz[p].out \in Results
    BY <2>1 DEF DoFreezeReached, SetReached, Results
  <2>3. self' = self /\ fz'[p].stuck = fz[p].stuck /\ act'[p].result = fz[p].out
    BY <1>2, <1>13, <2>2 DEF LegacyFreezeReturns, kernel
  <2> QED  BY <2>1, <2>3, AnswerTells DEF DoFreezeReached
<1>14. CASE FsFreezeStore(p)
  <2>1. act[p].op = "fsFreeze"
    BY <1>1, <1>14 DEF FsFreezeStore, CallInv
  <2>2. ~hasFreezer /\ Done(p, "err")
    <3>1. act' # [act EXCEPT ![p].stage = "fsCall", ![p].prev = resFreezer]
      BY <1>1 DEF TypeOK, Act
    <3> QED  BY <1>14, <3>1 DEF FsFreezeStore
  <2> QED  BY <1>2, <1>3, <1>14, <2>1, <2>2 DEF FsFreezeStore, Outcome, kernel
<1>15. CASE FsFreezeReturns(p)
  <2>1. act[p].op = "fsFreeze" /\ AtFsCall(p) /\ fz[p].at = "ret"
    BY <1>1, <1>15 DEF FsFreezeReturns, CallInv
  <2>2. fz[p].out \in Results
    BY <2>1 DEF AtFsCall, SetReached, Results
  <2>3. self' = self /\ fz'[p].stuck = fz[p].stuck /\ act'[p].result = fz[p].out
    BY <1>2, <1>15, <2>2 DEF FsFreezeReturns, kernel
  <2> QED  BY <2>1, <2>3, AnswerTells DEF AtFsCall
<1>16. ~SetQuery(p) /\ ~FsFreezeSet(p) /\ ~(FzStep(p) /\ UNCHANGED mvars)
  <2>1. \A s \in {"props", "state"} : s \in Stages /\ s # "idle"
    BY DEF Stages
  <2>2. ~Stage(p, "props") /\ ~Stage(p, "state")
    BY <1>1, <2>1, StageStep
  <2> QED  BY <2>2 DEF SetQuery, FsFreezeSet, Busy, mvars
<1> QED  BY <1>5, <1>6, <1>7, <1>8, <1>9, <1>10, <1>11, <1>12, <1>13, <1>14, <1>15, <1>16 DEF Work

(* Only its own step makes a call return.                                  *)
LEMMA ReturnsTell ==
    ASSUME IInv, [Next]_vars, NEW p \in Actors, Busy(p), act'[p].stage = "idle"
    PROVE  Outcome(p)
<1>1. ASSUME NEW q \in Actors, Work(q) PROVE Outcome(p)
  <2>1. CASE q = p
    BY <1>1, <2>1, ReturnOutcome
  <2>2. CASE q # p
    BY <1>1, <2>2, WorkBusy DEF After, Local, Busy
  <2> QED  BY <2>1, <2>2
<1>2. ASSUME NEW q \in Actors, Call(q) PROVE FALSE
  <2>1. Local(q) /\ ~Busy(q)
    BY <1>2, CallAfter DEF After, Call, SetCall, LegacyFreezeCall, FsFreezeCall, Begin
  <2> QED  BY <2>1 DEF Local, Busy
<1>3. ~UNCHANGED act
  BY DEF Busy
<1> QED  BY <1>1, <1>2, <1>3 DEF Next, vars, mvars

(* legacyManager.Set restores the freezer: a call that asks nothing of it  *)
(* leaves the container frozen or running as it found it, whatever failed, *)
(* unless the write that thaws failed.                                     *)
THEOREM SetPreserves == Spec /\ []Serial => SetPreservesFreezer
<1>1. IInv /\ [Next]_vars =>
        [\A p \in Actors : Returns(p, "legacySet") /\ act[p].arg = Undefined /\ ~fz'[p].stuck => self' = start[p]]_vars
  BY ReturnsTell DEF Returns, Outcome, Kept
<1> QED  BY <1>1, Invariance, PTL DEF Spec, SetPreservesFreezer

(* Freeze and Set: success means that the cgroup's own freezer is in the   *)
(* state that was asked for.                                               *)
THEOREM OkIsAsked == Spec /\ []Serial => OkMeansAsked
<1>1. IInv /\ [Next]_vars =>
        [\A p \in Actors, op \in Ops :
            (Returns(p, op) /\ act'[p].result = "nil" /\ hasFreezer /\ act[p].arg \in {Frozen, Thawed})
                => self' = (act[p].arg = Frozen)]_vars
  BY ReturnsTell DEF Returns, Outcome
<1> QED  BY <1>1, Invariance, PTL DEF Spec, OkMeansAsked

(* "It is bad and dangerous to leave the cgroup in FROZEN or FREEZING      *)
(* state": a Freeze that failed has thawed, unless that write failed too.  *)
THEOREM FailedFreezeIsUndone == Spec /\ []Serial => FailedFreezeThaws
<1>1. IInv /\ [Next]_vars =>
        [\A p \in Actors, op \in {"legacyFreeze", "fsFreeze"} :
            (Returns(p, op) /\ act'[p].result = "err" /\ hasFreezer /\ act[p].arg = Frozen /\ ~fz'[p].stuck)
                => ~self']_vars
  BY ReturnsTell DEF Returns, Outcome
<1> QED  BY <1>1, Invariance, PTL DEF Spec, FailedFreezeThaws

=============================================================================
