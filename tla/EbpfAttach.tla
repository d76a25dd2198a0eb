----------------------------- MODULE EbpfAttach -----------------------------
(***************************************************************************)
(* LoadAttachCgroupDeviceFilter (cgroups/ebpf/ebpf_linux.go): any number   *)
(* of callers, in processes of their own, put a device filter on one       *)
(* cgroup.  The kernel allows an access that every attached program allows *)
(* and everything when none is attached.  systemd has a program of its own *)
(* on the cgroup when the unit has device properties.                      *)
(*                                                                         *)
(* Programs are numbered in the order they were loaded by an attach call,  *)
(* the number 0 stands for systemd's.                                      *)
(***************************************************************************)
EXTENDS Integers, FiniteSets

CONSTANTS Procs,     \* the callers
          Accesses,  \* the accesses a process of the cgroup may ask for
          MaxProgs   \* bound: how many programs are ever attached

ASSUME EbpfAssumption == MaxProgs \in Nat

VARIABLES attached,  \* kernel: the numbers of the attached programs
          policy,    \* the accesses each program allows
          newest,    \* history: the number of the program attached last
          apc,       \* where a caller is
          want,      \* the policy it was given
          old,       \* the programs it found, or has still to detach
          before,    \* history: those of other callers attached when it called
          replace,   \* useReplaceProg
          ares       \* what its last call returned

ebpfVars == <<attached, policy, newest, apc, want, old, before, replace, ares>>

Numbers == 0..MaxProgs

(* The accesses the kernel lets through.                                   *)
Effective == {a \in Accesses : \A n \in attached : a \in policy[n]}

EbpfTypeOK ==
    /\ attached \subseteq Numbers
    /\ policy \in [Numbers -> SUBSET Accesses]
    /\ newest \in Numbers
    /\ apc \in [Procs -> {"idle", "query", "attach", "detach"}]
    /\ want \in [Procs -> SUBSET Accesses]
    /\ old \in [Procs -> SUBSET Numbers]
    /\ before \in [Procs -> SUBSET (Numbers \ {0})]
    /\ replace \in [Procs -> BOOLEAN]
    /\ ares \in [Procs -> {"none", "nil", "err"}]

EbpfInit ==
    /\ attached = {}
    /\ policy = [n \in Numbers |-> Accesses]
    /\ newest = 0
    /\ apc = [p \in Procs |-> "idle"]
    /\ want = [p \in Procs |-> {}]
    /\ old = [p \in Procs |-> {}]
    /\ before = [p \in Procs |-> {}]
    /\ replace = [p \in Procs |-> FALSE]
    /\ ares = [p \in Procs |-> "none"]

AtReturn(p, res) ==
    /\ apc' = [apc EXCEPT ![p] = "idle"]
    /\ ares' = [ares EXCEPT ![p] = res]
    /\ old' = [old EXCEPT ![p] = {}]
    /\ before' = [before EXCEPT ![p] = {}]

(* The call, with a compiled program.                                      *)
AtCall(p, allows) ==
    /\ apc[p] = "idle"
    /\ apc' = [apc EXCEPT ![p] = "query"]
    /\ want' = [want EXCEPT ![p] = allows]
    /\ before' = [before EXCEPT ![p] = attached \ {0}]
    /\ ares' = [ares EXCEPT ![p] = "none"]
    /\ UNCHANGED <<attached, policy, newest, old, replace>>

AtFails(p) ==
    /\ apc[p] \in {"query", "attach", "detach"}
    /\ AtReturn(p, "err")
    /\ UNCHANGED <<attached, policy, newest, want, replace>>

(* A mutation: a program is replaced although there are others.            *)
findAttachedReplaceFirst(p, hidden, haveReplace) ==
    /\ apc[p] = "query"
    /\ LET found == attached \ hidden
       IN  \E n \in IF haveReplace /\ found # {} THEN {{CHOOSE m \in found : TRUE}} ELSE {found} :
             /\ old' = [old EXCEPT ![p] = n]
             /\ replace' = [replace EXCEPT ![p] = haveReplace /\ found # {}]
    /\ apc' = [apc EXCEPT ![p] = "attach"]
    /\ UNCHANGED <<attached, policy, newest, want, before, ares>>

(* A mutation: the old programs are detached before the new one is there. *)
findAttachedDetaching(p, hidden, haveReplace) ==
    /\ apc[p] = "query"
    /\ attached' = attached \cap hidden
    /\ apc' = [apc EXCEPT ![p] = "attach"]
    /\ UNCHANGED <<policy, newest, want, old, before, replace, ares>>

(* findAttachedCgroupDeviceFilters: the programs that can be opened.  Only *)
(* a single one is replaced, and only if the kernel knows how.             *)
findAttached(p, hidden, haveReplace) ==
    /\ apc[p] = "query"
    /\ old' = [old EXCEPT ![p] = attached \ hidden]
    /\ replace' = [replace EXCEPT ![p] = haveReplace /\ Cardinality(attached \ hidden) = 1]
    /\ apc' = [apc EXCEPT ![p] = "attach"]
    /\ UNCHANGED <<attached, policy, newest, want, before, ares>>

(* A mutation: a program that someone else has replaced meanwhile is no    *)
(* reason to fail, and none to attach the new one either.                  *)
AttachUnlessGone(p) ==
    /\ apc[p] = "attach"
    /\ newest < MaxProgs
    /\ LET n == newest + 1
           gone == replace[p] /\ ~(old[p] \subseteq attached)
       IN  /\ attached' = IF gone THEN attached ELSE (attached \ (IF replace[p] THEN old[p] ELSE {})) \cup {n}
           /\ policy' = IF gone THEN policy ELSE [policy EXCEPT ![n] = want[p]]
           /\ newest' = IF gone THEN newest ELSE n
    /\ IF replace[p] THEN AtReturn(p, "nil")
       ELSE apc' = [apc EXCEPT ![p] = "detach"] /\ UNCHANGED <<old, before, ares>>
    /\ UNCHANGED <<want, replace>>

(* RawAttachProgram.  Replacing fails when the program is no longer there. *)
Attach(p) ==
    /\ apc[p] = "attach"
    /\ newest < MaxProgs
    /\ replace[p] => old[p] \subseteq attached
    /\ LET n == newest + 1
       IN  /\ attached' = IF replace[p] THEN (attached \ old[p]) \cup {n} ELSE attached \cup {n}
           /\ policy' = [policy EXCEPT ![n] = want[p]]
           /\ newest' = n
    /\ IF replace[p] THEN AtReturn(p, "nil")
       ELSE apc' = [apc EXCEPT ![p] = "detach"] /\ UNCHANGED <<old, before, ares>>
    /\ UNCHANGED <<want, replace>>

(* RawDetachProgram of the programs found, one after the other.  One that  *)
(* is no longer attached is an error (AtFails).                            *)
Detach(p) ==
    /\ apc[p] = "detach"
    /\ IF old[p] = {} THEN AtReturn(p, "nil") /\ UNCHANGED attached
       ELSE \E n \in old[p] \cap attached :
              /\ attached' = attached \ {n}
              /\ old' = [old EXCEPT ![p] = @ \ {n}]
              /\ UNCHANGED <<apc, before, ares>>
    /\ UNCHANGED <<policy, newest, want, replace>>

(* systemd (external): its own program for new properties takes the place  *)
(* of the one before, or there is none.  Both have the number 0, so that a *)
(* caller that found the first may detach the second: the kernel would     *)
(* refuse that.                                                            *)
SystemdAttach(allows) ==
    /\ attached' = IF allows = Accesses THEN attached \ {0} ELSE attached \cup {0}
    /\ policy' = [policy EXCEPT ![0] = allows]
    /\ UNCHANGED <<newest, apc, want, old, before, replace, ares>>

(* The caller takes notice of what the call returned.                      *)
AtTake(p) ==
    /\ apc[p] = "idle" /\ ares[p] # "none"
    /\ ares' = [ares EXCEPT ![p] = "none"]
    /\ UNCHANGED <<attached, policy, newest, apc, want, old, before, replace>>

AtWork(p, hidden, haveReplace) == findAttached(p, hidden, haveReplace) \/ Attach(p) \/ Detach(p) \/ AtFails(p)

EbpfNext ==
    \/ \E p \in Procs :
          \/ \E allows \in SUBSET Accesses : AtCall(p, allows)
          \/ \E hidden \in SUBSET {0}, haveReplace \in BOOLEAN : AtWork(p, hidden, haveReplace)
          \/ AtTake(p)
    \/ \E allows \in SUBSET Accesses : SystemdAttach(allows)

EbpfSpec == EbpfInit /\ [][EbpfNext]_ebpfVars

-----------------------------------------------------------------------------
(* The filter attached last stays attached until a newer one is, however   *)
(* the callers overlap and wherever a call fails: old programs are taken   *)
(* from the list made before the new one is attached, so that no call ever *)
(* removes a filter newer than its own and leaves the cgroup open.         *)
NewestInForce == newest # 0 => newest \in attached

(* What the attach and detach calls together are, to callers that overlap: *)
(* see DeviceGuard.  systemd's program is none of theirs.                  *)
Guard == INSTANCE DeviceGuard WITH
            last <- newest,
            filters <- [n \in 1..newest |-> policy[n]],
            inForce <- attached \ {0},
            at <- [p \in Procs |-> IF apc[p] = "idle" THEN "idle"
                                   ELSE IF apc[p] = "detach" THEN "installed" ELSE "asked"],
            asked <- want,
            answer <- ares

(* The refinement, for a run: a call that overlaps others and reports      *)
(* success has put its own filter in force and has seen those go that were *)
(* there when it was made; none but a caller whose filter is in force      *)
(* removes one, and never the newest.                                      *)
GuardSpec == Guard!Spec

=============================================================================
