------------------------------ MODULE LegacySet ------------------------------
(***************************************************************************)
(* Set and Freeze of the systemd v1 manager (cgroups/systemd/v1.go) and    *)
(* Freeze of the fs manager (cgroups/fs/fs.go), composed with the freezer  *)
(* routines of FreezerV1.  legacyManager.Set hands the resources to        *)
(* systemd, which applies device rules disruptively, so it freezes the     *)
(* container around that call and restores the freezer afterwards.  None   *)
(* of these operations holds the manager's lock: calls of two actors (two  *)
(* goroutines, or two processes with a manager each) interleave.           *)
(***************************************************************************)
EXTENDS FreezerV1

CONSTANTS MaxCalls,    \* bound: calls made in all
          Ops          \* the operations the actors call

ASSUME LegacyAssumption == MaxCalls \in Nat

VARIABLES
    hasFreezer,  \* the managers have a freezer path
    unit,        \* DevicePolicy of the systemd unit: auto (all allowed) or strict
    resFreezer,  \* m.cgroups.Resources.Freezer, shared by calls on one fs manager
    calls,       \* calls made so far
    act,         \* per actor: its call
    start        \* history, per actor: self when its call began

mvars == <<hasFreezer, unit, resFreezer, calls, act, start>>
vars == <<fzvars, mvars>>

Results == {"none", "nil", "err"}

Stages == {"idle", "query", "state", "freeze", "giveup", "props", "thaw", "subsys", "final",
           "fsFreeze", "fsCall", "legacyFreeze"}

(* stage: where the call is; arg: r.Freezer or the state asked of Freeze;  *)
(* devs: whether r sets devices, skips them (SkipDevices), or also skips   *)
(* freezing (SkipFreezeOnSet); prev: fs Freeze's saved state.              *)
Idle == [stage |-> "idle", op |-> "none", arg |-> Undefined, devs |-> "set", needsThaw |-> FALSE,
         setErr |-> FALSE, prev |-> Undefined, result |-> "none"]

Act == [stage : Stages, op : {"none", "legacySet", "legacyFreeze", "fsFreeze"}, arg : FreezerStates,
        devs : {"set", "skip", "skipFreeze"}, needsThaw : BOOLEAN, setErr : BOOLEAN,
        prev : FreezerStates, result : Results]

Init ==
    /\ FzInit
    /\ hasFreezer \in {TRUE, hasFile}
    /\ unit \in {"auto", "strict"}
    /\ resFreezer = Undefined
    /\ calls = 0
    /\ act = [p \in Actors |-> Idle]
    /\ start = [p \in Actors |-> self]

Busy(p) == act[p].stage # "idle"

Begin(p, op, stage, arg, devs) ==
    /\ ~Busy(p)
    /\ op \in Ops
    /\ calls < MaxCalls
    /\ calls' = calls + 1
    /\ act' = [act EXCEPT ![p] = [Idle EXCEPT !.stage = stage, !.op = op, !.arg = arg, !.devs = devs]]
    /\ start' = [start EXCEPT ![p] = self]

Stage(p, stage) == act' = [act EXCEPT ![p].stage = stage]

Done(p, result) ==
    /\ act' = [act EXCEPT ![p].stage = "idle", ![p].result = result]
    /\ fz' = [fz EXCEPT ![p] = [FzIdle EXCEPT !.stuck = fz[p].stuck]]

manager == <<hasFreezer, unit, resFreezer, calls, start>>

-----------------------------------------------------------------------------
(* legacyManager.Set.  (A nil request is no call at all.)  A unified       *)
(* request, or properties that cannot be generated, end the call before it *)
(* does anything; calls that survive go to freezeBeforeSet.                *)
SetCall(p) ==
    /\ \E arg \in FreezerStates, devs \in {"set", "skip", "skipFreeze"} :
          Begin(p, "legacySet", "query", arg, devs)
    /\ fz' = [fz EXCEPT ![p] = FzIdle]
    /\ UNCHANGED <<kernel, hasFile, disturbed, hasFreezer, unit, resFreezer>>

SetRejected(p) ==
    /\ act[p].stage = "query"
    /\ Done(p, "err")
    /\ UNCHANGED <<kernel, hasFile, disturbed, manager>>

(* freezeBeforeSet, first half: with SkipDevices there is no freeze when   *)
(* the caller says so or the unit (if it exists) allows all devices.       *)
SetQuery(p) ==
    /\ act[p].stage = "query"
    /\ \/ /\ act[p].devs = "skipFreeze" \/ (act[p].devs = "skip" /\ unit = "auto")
          /\ Stage(p, "props") /\ UNCHANGED fz
       \/ /\ act[p].devs \in {"set", "skip"}      \* for skip: strict, or a dbus error
          /\ Stage(p, "state")
          /\ IF hasFreezer THEN FzGetState(p)
             ELSE fz' = [fz EXCEPT ![p].at = "ret", ![p].out = Undefined]
    /\ UNCHANGED <<kernel, hasFile, disturbed, manager>>

(* doFreeze(state): FreezerGroup.Set on resources of its own.              *)
doFreeze(p, state) ==
    IF hasFreezer THEN FzCall(p, state) ELSE fz' = [fz EXCEPT ![p].at = "ret", ![p].out = "err"]

(* A mutation: the container is thawed after Set although it was frozen    *)
(* before.                                                                 *)
SetDecideAlwaysThaw(p) ==
    /\ act[p].stage = "state" /\ fz[p].at = "ret"
    /\ IF fz[p].out = "err" THEN Done(p, "err")
       ELSE IF fz[p].out = Frozen
       THEN act' = [act EXCEPT ![p].stage = "props", ![p].needsThaw = TRUE] /\ FzLeave(p)
       ELSE act' = [act EXCEPT ![p].stage = "freeze", ![p].needsThaw = act[p].arg # Frozen]
            /\ doFreeze(p, Frozen)
    /\ UNCHANGED <<kernel, hasFile, disturbed, manager>>

(* freezeBeforeSet, second half, and the freeze it asks for: a container   *)
(* that is frozen stays so, one that will be frozen need not be thawed.    *)
SetDecide(p) ==
    /\ act[p].stage = "state" /\ fz[p].at = "ret"
    /\ IF fz[p].out = "err" THEN Done(p, "err")
       ELSE IF fz[p].out = Frozen
       THEN Stage(p, "props") /\ FzLeave(p)
       ELSE act' = [act EXCEPT ![p].stage = "freeze", ![p].needsThaw = act[p].arg # Frozen]
            /\ doFreeze(p, Frozen)
    /\ UNCHANGED <<kernel, hasFile, disturbed, manager>>

(* A mutation: a container that could not be frozen is updated anyway.     *)
SetFrozenOrNot(p) ==
    /\ act[p].stage = "freeze" /\ fz[p].at = "ret"
    /\ Stage(p, "props") /\ FzLeave(p)
    /\ UNCHANGED <<kernel, hasFile, disturbed, manager>>

(* After doFreeze(Frozen): a missing freezer is only logged, any other     *)
(* failure ends the call, thawing first if a thaw is due.                  *)
SetFrozen(p) ==
    /\ act[p].stage = "freeze" /\ fz[p].at = "ret"
    /\ IF fz[p].out = "nil" \/ ~hasFreezer
       THEN Stage(p, "props") /\ FzLeave(p)
       ELSE IF act[p].needsThaw
       THEN Stage(p, "giveup") /\ doFreeze(p, Thawed)
       ELSE Done(p, "err")
    /\ UNCHANGED <<kernel, hasFile, disturbed, manager>>

SetGiveUp(p) ==
    /\ act[p].stage = "giveup" /\ fz[p].at = "ret"
    /\ Done(p, "err")
    /\ UNCHANGED <<kernel, hasFile, disturbed, manager>>

(* setUnitProperties (external: systemd).  With device rules the unit gets *)
(* a policy of its own; the call may fail, having applied them or not.     *)
SetProps(p) ==
    /\ act[p].stage = "props"
    /\ unit' \in IF act[p].devs = "set" THEN {"auto", "strict"} ELSE {unit}
    /\ \E setErr \in BOOLEAN :
          IF act[p].needsThaw
          THEN /\ act' = [act EXCEPT ![p].stage = "thaw", ![p].setErr = setErr]
               /\ doFreeze(p, Thawed)
          ELSE IF setErr THEN Done(p, "err")
          ELSE Stage(p, "subsys") /\ UNCHANGED fz
    /\ UNCHANGED <<kernel, hasFile, disturbed, hasFreezer, resFreezer, calls, start>>

SetThawed(p) ==
    /\ act[p].stage = "thaw" /\ fz[p].at = "ret"
    /\ IF act[p].setErr THEN Done(p, "err") ELSE Stage(p, "subsys") /\ FzLeave(p)
    /\ UNCHANGED <<kernel, hasFile, disturbed, manager>>

(* The subsystems' own Set.  The freezer is one of them, in the middle:    *)
(* one before it or after it may fail.                                     *)
SetSubsystems(p) ==
    /\ act[p].stage = "subsys"
    /\ \/ Done(p, "err")
       \/ ~hasFreezer /\ Done(p, "nil")
       \/ hasFreezer /\ Stage(p, "final") /\ FzCall(p, act[p].arg)
    /\ UNCHANGED <<kernel, hasFile, disturbed, manager>>

SetFinal(p) ==
    /\ act[p].stage = "final" /\ fz[p].at = "ret"
    /\ \/ Done(p, fz[p].out)
       \/ Done(p, "err")
    /\ UNCHANGED <<kernel, hasFile, disturbed, manager>>

-----------------------------------------------------------------------------
(* legacyManager.Freeze: doFreeze, and on success the state is recorded.   *)
LegacyFreezeCall(p) ==
    /\ \E arg \in FreezerStates : Begin(p, "legacyFreeze", "legacyFreeze", arg, "set")
    /\ fz' = [fz EXCEPT ![p] = IF hasFreezer
                 THEN [FzIdle EXCEPT !.at = "enter", !.want = act'[p].arg]
                 ELSE [FzIdle EXCEPT !.at = "ret", !.out = "err"]]
    /\ UNCHANGED <<kernel, hasFile, disturbed, hasFreezer, unit, resFreezer>>

LegacyFreezeReturns(p) ==
    /\ act[p].stage = "legacyFreeze" /\ fz[p].at = "ret"
    /\ Done(p, fz[p].out)
    /\ resFreezer' = IF fz[p].out = "nil" THEN act[p].arg ELSE resFreezer
    /\ UNCHANGED <<kernel, hasFile, disturbed, hasFreezer, unit, calls, start>>

(* fs manager.Freeze: the state is stored in the shared Resources first    *)
(* and FreezerGroup.Set reads it from there.                               *)
FsFreezeCall(p) ==
    /\ \E arg \in FreezerStates : Begin(p, "fsFreeze", "fsFreeze", arg, "set")
    /\ fz' = [fz EXCEPT ![p] = FzIdle]
    /\ UNCHANGED <<kernel, hasFile, disturbed, hasFreezer, unit, resFreezer>>

FsFreezeStore(p) ==
    /\ act[p].stage = "fsFreeze" /\ fz[p].at = "idle"
    /\ IF hasFreezer
       THEN /\ act' = [act EXCEPT ![p].stage = "fsCall", ![p].prev = resFreezer]
            /\ resFreezer' = act[p].arg
            /\ UNCHANGED fz
       ELSE Done(p, "err") /\ UNCHANGED resFreezer
    /\ UNCHANGED <<kernel, hasFile, disturbed, hasFreezer, unit, calls, start>>

FsFreezeSet(p) ==
    /\ act[p].stage = "fsCall" /\ fz[p].at = "idle"
    /\ FzCall(p, resFreezer)
    /\ UNCHANGED <<kernel, hasFile, disturbed, manager, act>>

FsFreezeReturns(p) ==
    /\ act[p].stage = "fsCall" /\ fz[p].at = "ret"
    /\ Done(p, fz[p].out)
    /\ resFreezer' = IF fz[p].out = "err" THEN act[p].prev ELSE resFreezer
    /\ UNCHANGED <<kernel, hasFile, disturbed, hasFreezer, unit, calls, start>>

-----------------------------------------------------------------------------
Call(p) == SetCall(p) \/ LegacyFreezeCall(p) \/ FsFreezeCall(p)

Work(p) ==
    \/ SetRejected(p) \/ SetQuery(p) \/ SetDecide(p) \/ SetFrozen(p) \/ SetGiveUp(p)
    \/ SetProps(p) \/ SetThawed(p) \/ SetSubsystems(p) \/ SetFinal(p)
    \/ LegacyFreezeReturns(p)
    \/ FsFreezeStore(p) \/ FsFreezeSet(p) \/ FsFreezeReturns(p)
    \/ FzStep(p) /\ UNCHANGED mvars

Next ==
    \/ \E p \in Actors : Call(p) \/ Work(p)
    \/ Settle /\ UNCHANGED mvars
    \/ Disturb /\ UNCHANGED mvars

(* A call that can go on does, and a frozen task stops in the end.  That   *)
(* GetState's read of the file fails is possible, but nothing to count on: *)
(* it has to get out of its wait by what it reads.                         *)
Fairness ==
    /\ \A p \in Actors : WF_vars(Work(p) /\ (fz[p].at = "getstate" => fz'[p].out # "err"))
    /\ WF_vars(Settle /\ UNCHANGED mvars)

Spec == Init /\ [][Next]_vars /\ Fairness

-----------------------------------------------------------------------------
TypeOK ==
    /\ FzTypeOK
    /\ hasFreezer \in BOOLEAN
    /\ unit \in {"auto", "strict"}
    /\ resFreezer \in FreezerStates
    /\ calls \in 0..MaxCalls
    /\ act \in [Actors -> Act]
    /\ start \in [Actors -> BOOLEAN]

(* systemd's disruptive update (not one of a unit that allows all devices, *)
(* or that the caller exempted) reaches the container.                     *)
Disrupts(p) == act[p].stage = "props" /\ (act[p].devs = "set" \/ (act[p].devs = "skip" /\ unit = "strict"))

(***************************************************************************)
(* "So we have to freeze the container to avoid the container get an       *)
(* occasional permission denied error": Set updates the unit's devices only *)
(* while the container's own cgroup is frozen, though tasks appear,        *)
(* ancestors freeze and thaw, and every file access may fail.  It holds    *)
(* for calls made one after the other; when two overlap, "Already frozen,  *)
(* and should stay frozen" is concluded from a state that the other Set is *)
(* about to undo.                                                          *)
(***************************************************************************)
DisruptsOnlyFrozen ==
    \A p \in Actors : Disrupts(p) /\ hasFreezer => self

(* No call under way, or made last by its actor, was asked for a freezer   *)
(* state or leaves the devices out, and none has met a failure: whoever    *)
(* thaws then only ends a freeze of its own.                               *)
OnlyPlainSets ==
    \A p \in Actors :
        /\ act[p].arg = Undefined /\ act[p].devs = "set"
        /\ act[p].result # "err" /\ ~act[p].setErr
        /\ act[p].stage # "giveup" /\ fz[p].out # "err"

(***************************************************************************)
(* The same promise for Sets of devices that overlap, of which none is     *)
(* asked to freeze or thaw anything and none fails.  TLC refutes it: a Set *)
(* that finds the container frozen by another Set concludes "Already       *)
(* frozen, and should stay frozen", and that other Set ends by thawing it. *)
(***************************************************************************)
OverlapStaysFrozen == OnlyPlainSets => DisruptsOnlyFrozen

(***************************************************************************)
(* A Set that asks nothing of the freezer leaves the container frozen or   *)
(* running as it found it, whatever failed on the way, unless a write that *)
(* thaws failed (which the code only logs).                                *)
(***************************************************************************)
Returns(p, op) == Busy(p) /\ act[p].op = op /\ act'[p].stage = "idle"

SetPreservesFreezer ==
    [][\A p \in Actors :
          Returns(p, "legacySet") /\ act[p].arg = Undefined /\ ~fz'[p].stuck
              => self' = start[p]]_vars

(***************************************************************************)
(* "Freeze sets the freezer cgroup to the specified state": a call that   *)
(* reports success left the cgroup's own freezer as asked.                 *)
(***************************************************************************)
OkMeansAsked ==
    [][\A p \in Actors, op \in Ops :
          (Returns(p, op) /\ act'[p].result = "nil" /\ hasFreezer
              /\ act[p].arg \in {Frozen, Thawed})
              => self' = (act[p].arg = Frozen)]_vars

(***************************************************************************)
(* "Freezing failed, and it is bad and dangerous to leave the cgroup in    *)
(* FROZEN or FREEZING state": a Freeze(Frozen) that fails leaves the       *)
(* cgroup's own freezer off, unless that last write failed too.            *)
(***************************************************************************)
FailedFreezeThaws ==
    [][\A p \in Actors, op \in {"legacyFreeze", "fsFreeze"} :
          (Returns(p, op) /\ act'[p].result = "err" /\ hasFreezer
              /\ act[p].arg = Frozen /\ ~fz'[p].stuck)
              => ~self']_vars

(* Every call returns: the freeze loop gives up, and GetState, which has   *)
(* no limit of its own, waits only for tasks to stop.  No read error is    *)
(* assumed to end that wait (see Fairness).                                *)
CallsReturn == \A p \in Actors : Busy(p) ~> ~Busy(p)

(***************************************************************************)
(* "Freeze sets the freezer cgroup to the specified state", for calls that *)
(* overlap: a Freeze that reports success wrote the state it was asked     *)
(* for, not that of another call.  TLC refutes it for two actors: they     *)
(* share m.cgroups.Resources.Freezer.                                      *)
(***************************************************************************)
FreezeNotCrossed ==
    [][\A p \in Actors, op \in {"legacyFreeze", "fsFreeze"} :
          Returns(p, op) /\ act'[p].result = "nil" => fz[p].want = act[p].arg]_vars
=============================================================================
