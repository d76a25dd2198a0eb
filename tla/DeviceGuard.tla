---------------------------- MODULE DeviceGuard ----------------------------
(***************************************************************************)
(* What LoadAttachCgroupDeviceFilter promises to callers that overlap,     *)
(* without saying how: each caller puts a filter of its own on the cgroup. *)
(* The filters in force all have to allow an access.                       *)
(*                                                                         *)
(*   - the filter installed last is always in force;                       *)
(*   - a filter is installed in the course of a call, once, as its caller  *)
(*     gave it, beside the others or in the place of one;                  *)
(*   - only a caller who has installed its own filter removes others;      *)
(*   - a call that reports success has installed its filter, and none that *)
(*     was in force when the call was made is so any more.                 *)
(***************************************************************************)
EXTENDS Naturals

CONSTANTS Procs, Accesses

VARIABLES last,     \* how many filters were installed so far
          filters,  \* what each of them allows
          inForce,  \* the numbers of those in force
          at,       \* per caller: idle, asked (for a filter), installed
          asked,    \* the filter it asked for
          before,   \* the filters in force when it did
          answer    \* what its last call returned

guardVars == <<last, filters, inForce, at, asked, before, answer>>

Init ==
    /\ last = 0 /\ inForce = {}
    /\ filters = [n \in 1..0 |-> {}]
    /\ at = [p \in Procs |-> "idle"]
    /\ asked = [p \in Procs |-> {}]
    /\ before = [p \in Procs |-> {}]
    /\ answer = [p \in Procs |-> "none"]

Ask(p) ==
    /\ at[p] = "idle"
    /\ at' = [at EXCEPT ![p] = "asked"]
    /\ \E allows \in SUBSET Accesses : asked' = [asked EXCEPT ![p] = allows]
    /\ before' = [before EXCEPT ![p] = inForce]
    /\ answer' = [answer EXCEPT ![p] = "none"]
    /\ UNCHANGED <<last, filters, inForce>>

(* What the call has to see gone before it may report success.             *)
Outdated(p) == before[p] \cap inForce'

Returns(p, res) ==
    /\ res = "nil" => Outdated(p) = {}
    /\ at' = [at EXCEPT ![p] = "idle"]
    /\ before' = [before EXCEPT ![p] = {}]
    /\ answer' = [answer EXCEPT ![p] = res]

(* The call may return with the same step.                                 *)
Install(p) ==
    /\ at[p] = "asked"
    /\ last' = last + 1
    /\ filters' = [n \in 1..last' |-> IF n = last' THEN asked[p] ELSE filters[n]]
    /\ \/ inForce' = inForce \cup {last'}
       \/ \E n \in inForce : inForce' = (inForce \ {n}) \cup {last'}
    /\ \/ at' = [at EXCEPT ![p] = "installed"] /\ UNCHANGED <<before, answer>>
       \/ Returns(p, "nil")
    /\ UNCHANGED asked

Remove(p) ==
    /\ at[p] = "installed"
    /\ \E n \in inForce \ {last} : inForce' = inForce \ {n}
    /\ UNCHANGED <<last, filters, at, asked, before, answer>>

Succeed(p) ==
    /\ at[p] = "installed"
    /\ Returns(p, "nil")
    /\ UNCHANGED <<last, filters, inForce, asked>>

Fail(p) ==
    /\ at[p] # "idle"
    /\ Returns(p, "err")
    /\ UNCHANGED <<last, filters, inForce, asked>>

(* The caller takes notice of the answer.                                  *)
Take(p) ==
    /\ at[p] = "idle"
    /\ answer' = [answer EXCEPT ![p] = "none"]
    /\ UNCHANGED <<last, filters, inForce, at, asked, before>>

Next == \E p \in Procs : Ask(p) \/ Install(p) \/ Remove(p) \/ Succeed(p) \/ Fail(p) \/ Take(p)

Spec == Init /\ [][Next]_guardVars

=============================================================================
