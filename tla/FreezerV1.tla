------------------------------ MODULE FreezerV1 ------------------------------
(***************************************************************************)
(* FreezerGroup.Set and FreezerGroup.GetState of cgroups/fs/freezer.go,    *)
(* against the kernel's v1 freezer controller.  Both are loops of file     *)
(* reads and writes that other actors interleave with, so every access to  *)
(* a freezer file is a step.  The module gives the routines; LegacySet     *)
(* composes them with the managers that call them.                         *)
(***************************************************************************)
EXTENDS Integers

CONSTANTS Actors,      \* goroutines or processes that call a cgroup manager
          MaxTries,    \* attempts of the freeze loop (the code: 1000)
          ThawEvery,   \* an attempt of this many thaws first (the code: 50)
          MaxDisturb,  \* bound: new tasks and changes of the parent cgroup
          OldKernel    \* the kernel has no freezer.self_freezing file

ASSUME FreezerAssumption ==
    /\ MaxTries \in Nat \ {0}
    /\ ThawEvery \in Nat \ {0}
    /\ MaxDisturb \in Nat
    /\ OldKernel \in BOOLEAN

(* configs.FreezerState, and a value that is none.                         *)
Frozen == "FROZEN"
Thawed == "THAWED"
Undefined == ""
FreezerStates == {Frozen, Thawed, Undefined, "invalid"}

VARIABLES
    self,      \* kernel: freezer.self_freezing of the container's cgroup
    parent,    \* kernel: an ancestor is freezing
    settled,   \* kernel: every task of the cgroup has stopped
    hasFile,   \* kernel: there is a freezer.state file (not so on old kernels)
    disturbed, \* how many disturbances there were
    fz         \* per actor: its activation of FreezerGroup.Set / GetState

kernel == <<self, parent, settled>>
fzvars == <<self, parent, settled, hasFile, disturbed, fz>>

(* at: idle, or where the routine is; want: the state asked for; i: the    *)
(* attempt; out: what it returned (nil or err; GetState: a state or err);  *)
(* stuck: history, a thaw of this call failed.                             *)
FzIdle == [at |-> "idle", want |-> Undefined, i |-> 0, out |-> "none", stuck |-> FALSE]

FzPCs == {"idle", "enter", "occasional", "write", "read", "undo", "getstate", "getself", "ret"}

Fz == [at : FzPCs, want : FreezerStates, i : 0..(MaxTries - 1),
       out : {"none", "nil", "err", Frozen, Thawed, Undefined}, stuck : BOOLEAN]

FzInit ==
    /\ self \in BOOLEAN
    /\ parent = FALSE
    /\ settled = self
    /\ hasFile \in BOOLEAN /\ (self => hasFile)
    /\ disturbed = 0
    /\ fz = [p \in Actors |-> FzIdle]

-----------------------------------------------------------------------------
(* The kernel (external): a cgroup freezes when it or an ancestor is told  *)
(* to, is FREEZING until all its tasks have stopped, then FROZEN.          *)
KernelState ==
    IF ~(self \/ parent) THEN Thawed ELSE IF settled THEN Frozen ELSE "FREEZING"

KernelWriteFrozen == hasFile /\ self' = TRUE /\ UNCHANGED <<parent, settled>>

KernelWriteThawed ==
    /\ hasFile
    /\ self' = FALSE
    /\ settled' = (settled /\ parent)
    /\ UNCHANGED parent

Settle ==
    /\ self \/ parent
    /\ ~settled
    /\ settled' = TRUE
    /\ UNCHANGED <<self, parent, hasFile, disturbed, fz>>

(* A task appears in the cgroup (fork, exec into the container) or the     *)
(* parent cgroup is frozen or thawed.                                      *)
Disturb ==
    /\ disturbed < MaxDisturb
    /\ hasFile
    /\ disturbed' = disturbed + 1
    /\ \/ settled /\ settled' = FALSE /\ UNCHANGED <<self, parent>>
       \/ ~parent /\ parent' = TRUE /\ UNCHANGED <<self, settled>>
       \/ parent /\ parent' = FALSE /\ settled' = (settled /\ self) /\ UNCHANGED self
    /\ UNCHANGED <<hasFile, fz>>

-----------------------------------------------------------------------------
FzGoto(p, at) == fz' = [fz EXCEPT ![p].at = at]
FzReturn(p, out) == fz' = [fz EXCEPT ![p].at = "ret", ![p].out = out]

(* Called by a manager's step: the routine starts, or is skipped because   *)
(* the cgroup has no freezer path.                                         *)
FzCall(p, want) == fz' = [fz EXCEPT ![p].at = "enter", ![p].want = want, ![p].i = 0]
FzGetState(p) == fz' = [fz EXCEPT ![p].at = "getstate"]
FzLeave(p) == fz' = [fz EXCEPT ![p].at = "idle"]

(* A mutation: the error of the thaw is lost.                              *)
FzEnterNoError(p) ==
    /\ fz[p].at = "enter"
    /\ CASE fz[p].want = Frozen    -> FzGoto(p, "occasional") /\ UNCHANGED kernel
         [] fz[p].want = Thawed    -> FzReturn(p, "nil") /\ (KernelWriteThawed \/ UNCHANGED kernel)
         [] fz[p].want = Undefined -> FzReturn(p, "nil") /\ UNCHANGED kernel
         [] OTHER                  -> FzReturn(p, "err") /\ UNCHANGED kernel
    /\ UNCHANGED <<hasFile, disturbed>>

(* The switch on r.Freezer.                                                *)
FzEnter(p) ==
    /\ fz[p].at = "enter"
    /\ CASE fz[p].want = Frozen    -> FzGoto(p, "occasional") /\ UNCHANGED kernel
         [] fz[p].want = Thawed    ->
              \/ KernelWriteThawed /\ FzReturn(p, "nil")
              \/ /\ fz' = [fz EXCEPT ![p].at = "ret", ![p].out = "err", ![p].stuck = TRUE]
                 /\ UNCHANGED kernel
         [] fz[p].want = Undefined -> FzReturn(p, "nil") /\ UNCHANGED kernel
         [] OTHER                  -> FzReturn(p, "err") /\ UNCHANGED kernel
    /\ UNCHANGED <<hasFile, disturbed>>

(* The start of an attempt: every ThawEvery-th one thaws, errors ignored.  *)
FzOccasional(p) ==
    /\ fz[p].at = "occasional"
    /\ \/ fz[p].i % ThawEvery = ThawEvery - 1 /\ KernelWriteThawed
       \/ UNCHANGED kernel
    /\ FzGoto(p, "write")
    /\ UNCHANGED <<hasFile, disturbed>>

FzWrite(p) ==
    /\ fz[p].at = "write"
    /\ \/ KernelWriteFrozen /\ FzGoto(p, "read")
       \/ UNCHANGED kernel /\ FzGoto(p, "undo")
    /\ UNCHANGED <<hasFile, disturbed>>

(* A mutation: no limit on the attempts.                                   *)
FzReadForever(p) ==
    /\ fz[p].at = "read"
    /\ \/ KernelState = Frozen /\ FzReturn(p, "nil")
       \/ KernelState = "FREEZING" /\ fz' = [fz EXCEPT ![p].at = "occasional", ![p].i = (@ + 1) % MaxTries]
       \/ KernelState = Thawed /\ FzGoto(p, "undo")
       \/ FzGoto(p, "undo")
    /\ UNCHANGED <<kernel, hasFile, disturbed>>

(* The state read back: FREEZING means another attempt, or giving up after *)
(* the last; a read error or any other state is an error.                  *)
FzRead(p) ==
    /\ fz[p].at = "read"
    /\ \/ KernelState = Frozen /\ FzReturn(p, "nil")
       \/ /\ KernelState = "FREEZING"
          /\ IF fz[p].i + 1 < MaxTries
             THEN fz' = [fz EXCEPT ![p].at = "occasional", ![p].i = @ + 1]
             ELSE FzGoto(p, "undo")
       \/ KernelState = Thawed /\ FzGoto(p, "undo")
       \/ FzGoto(p, "undo")
    /\ UNCHANGED <<kernel, hasFile, disturbed>>

(* A mutation: a failed freeze is not undone.                              *)
FzNoUndo(p) ==
    /\ fz[p].at = "undo"
    /\ FzReturn(p, "err")
    /\ UNCHANGED <<kernel, hasFile, disturbed>>

(* The deferred thaw of a failed freeze.                                   *)
FzUndo(p) ==
    /\ fz[p].at = "undo"
    /\ \/ KernelWriteThawed /\ FzReturn(p, "err")
       \/ /\ fz' = [fz EXCEPT ![p].at = "ret", ![p].out = "err", ![p].stuck = TRUE]
          /\ UNCHANGED kernel
    /\ UNCHANGED <<hasFile, disturbed>>

(* GetState: FREEZING is waited out without a limit.  ENODEV or a missing  *)
(* file is the state "undefined", not an error.                            *)
FzGetStateRead(p) ==
    /\ fz[p].at = "getstate"
    /\ \/ hasFile /\ KernelState = Thawed /\ FzReturn(p, Thawed)
       \/ hasFile /\ KernelState = Frozen /\ FzGoto(p, "getself")
       \/ hasFile /\ KernelState = "FREEZING" /\ UNCHANGED fz
       \/ FzReturn(p, IF hasFile THEN "err" ELSE Undefined)
    /\ UNCHANGED <<kernel, hasFile, disturbed>>

(* A second file tells frozen itself from frozen by an ancestor.           *)
FzGetSelf(p) ==
    /\ fz[p].at = "getself"
    /\ \/ FzReturn(p, IF self \/ OldKernel THEN Frozen ELSE Thawed)
       \/ FzReturn(p, "err")
    /\ UNCHANGED <<kernel, hasFile, disturbed>>

FzStep(p) ==
    \/ FzEnter(p) \/ FzOccasional(p) \/ FzWrite(p) \/ FzRead(p) \/ FzUndo(p)
    \/ FzGetStateRead(p) \/ FzGetSelf(p)

FzTypeOK ==
    /\ self \in BOOLEAN /\ parent \in BOOLEAN /\ settled \in BOOLEAN /\ hasFile \in BOOLEAN
    /\ disturbed \in 0..MaxDisturb
    /\ fz \in [Actors -> Fz]
=============================================================================
