-------------------------- MODULE UnifiedSetProofs --------------------------
(***************************************************************************)
(* Proofs about Set and Freeze on cgroup v2, for any requests, hosts and   *)
(* number of managers.  First the parts: the protocol that attaches device *)
(* programs (EbpfAttach), which implements DeviceGuard, and the arithmetic *)
(* of Conversions; then what a call as a whole leaves behind.              *)
(***************************************************************************)
EXTENDS UnifiedSet, SequenceTheorems, FiniteSetTheorems, WellFoundedInduction, TLAPS

-----------------------------------------------------------------------------
(* The attach protocol by itself: any number of callers and programs.      *)

(* What a caller has found or has still to detach is older than the        *)
(* filter attached last; once its own filter is attached, strictly so.     *)
OldIsOld ==
    \A p \in Procs :
        /\ \A n \in old[p] : n <= newest
        /\ apc[p] = "detach" => newest # 0 /\ \A n \in old[p] : n < newest

(* Numbers are given in order.                                             *)
NumberedInOrder == \A n \in attached : n <= newest

(* What was attached when a caller called and still is, it has found; and  *)
(* it replaces a program only when that is the one found.                  *)
BeforeIsFound ==
    \A p \in Procs :
        /\ \A n \in before[p] : n <= newest
        /\ apc[p] = "attach" /\ replace[p] => \E n : old[p] = {n}
        /\ apc[p] \in {"attach", "detach"} => before[p] \cap attached \subseteq old[p]

AttachInv == EbpfTypeOK /\ NumberedInOrder /\ OldIsOld /\ BeforeIsFound /\ NewestInForce

LEMMA InitAttachInv == EbpfInit => AttachInv
BY EbpfAssumption DEF EbpfInit, AttachInv, EbpfTypeOK, NumberedInOrder, OldIsOld, BeforeIsFound, NewestInForce, Numbers

(* AtCall and AtFails change nothing in the kernel.                        *)
LEMMA CallAttachInv ==
    ASSUME AttachInv, NEW p \in Procs, NEW allows \in SUBSET Accesses, AtCall(p, allows)
    PROVE  AttachInv'
<1>1. EbpfTypeOK'
  BY DEF AttachInv, EbpfTypeOK, AtCall
<1>2. NumberedInOrder' /\ OldIsOld' /\ NewestInForce'
  BY DEF AttachInv, EbpfTypeOK, NumberedInOrder, OldIsOld, NewestInForce, AtCall
<1>3. BeforeIsFound'
  <2>1. ASSUME NEW q \in Procs \ {p} PROVE before'[q] = before[q] /\ apc'[q] = apc[q]
    BY DEF AttachInv, EbpfTypeOK, AtCall
  <2>2. before'[p] = attached \ {0} /\ apc'[p] = "query"
    BY DEF AttachInv, EbpfTypeOK, AtCall
  <2>3. UNCHANGED <<attached, old, newest, replace>>
    BY DEF AtCall
  <2> QED  BY <2>1, <2>2, <2>3 DEF AttachInv, NumberedInOrder, BeforeIsFound
<1> QED  BY <1>1, <1>2, <1>3 DEF AttachInv

LEMMA FailsAttachInv ==
    ASSUME AttachInv, NEW p \in Procs, AtFails(p)
    PROVE  AttachInv'
<1>1. EbpfTypeOK'
  BY DEF AttachInv, EbpfTypeOK, AtFails, AtReturn
<1>2. NumberedInOrder' /\ OldIsOld' /\ NewestInForce'
  BY DEF AttachInv, EbpfTypeOK, NumberedInOrder, OldIsOld, NewestInForce, AtFails, AtReturn
<1>3. BeforeIsFound'
  <2>1. ASSUME NEW q \in Procs \ {p} PROVE before'[q] = before[q] /\ apc'[q] = apc[q] /\ old'[q] = old[q]
    BY DEF AttachInv, EbpfTypeOK, AtFails, AtReturn
  <2>2. before'[p] = {} /\ apc'[p] = "idle"
    BY DEF AttachInv, EbpfTypeOK, AtFails, AtReturn
  <2>3. UNCHANGED <<attached, newest, replace>>
    BY DEF AtFails
  <2> QED  BY <2>1, <2>2, <2>3 DEF AttachInv, BeforeIsFound
<1> QED  BY <1>1, <1>2, <1>3 DEF AttachInv

(* The list is made of programs that are attached.                         *)
LEMMA FindAttachInv ==
    ASSUME AttachInv, NEW p \in Procs, NEW hidden \in SUBSET {0}, NEW haveReplace \in BOOLEAN,
           findAttached(p, hidden, haveReplace)
    PROVE  AttachInv'
<1>1. EbpfTypeOK'
  <2>1. (haveReplace /\ Cardinality(attached \ hidden) = 1) \in BOOLEAN
    OBVIOUS
  <2>2. replace' \in [Procs -> BOOLEAN]
    BY <2>1 DEF AttachInv, EbpfTypeOK, findAttached
  <2>3. old' \in [Procs -> SUBSET Numbers]
    BY DEF AttachInv, EbpfTypeOK, findAttached
  <2> QED  BY <2>2, <2>3 DEF AttachInv, EbpfTypeOK, findAttached
<1>2. OldIsOld'
  BY DEF AttachInv, EbpfTypeOK, NumberedInOrder, OldIsOld, findAttached
<1>3. NumberedInOrder' /\ NewestInForce'
  BY DEF AttachInv, NumberedInOrder, NewestInForce, findAttached
<1>4. BeforeIsFound'
  <2>1. ASSUME NEW q \in Procs \ {p} PROVE apc'[q] = apc[q] /\ old'[q] = old[q] /\ replace'[q] = replace[q]
    BY DEF AttachInv, EbpfTypeOK, findAttached
  <2>2. old'[p] = attached \ hidden /\ before[p] \subseteq Numbers \ {0}
    BY DEF AttachInv, EbpfTypeOK, findAttached
  <2>3. before[p] \cap attached \subseteq old'[p]
    BY <2>2
  <2>4. UNCHANGED <<attached, newest, before>>
    BY DEF findAttached
  <2>5. replace'[p] => \E n : old'[p] = {n}
    <3>1. IsFiniteSet(attached \ hidden)
      <4>1. attached \ hidden \subseteq Numbers
        BY DEF AttachInv, EbpfTypeOK
      <4>2. IsFiniteSet(Numbers)
        BY EbpfAssumption, FS_Interval DEF Numbers
      <4> QED  BY <4>1, <4>2, FS_Subset
    <3>2. replace' = [replace EXCEPT ![p] = haveReplace /\ Cardinality(attached \ hidden) = 1]
      BY DEF findAttached
    <3>3. replace'[p] => Cardinality(attached \ hidden) = 1
      BY <3>2, Zenon DEF AttachInv, EbpfTypeOK
    <3> QED  BY <2>2, <3>1, <3>3, FS_Singleton
  <2> QED  BY <2>1, <2>3, <2>4, <2>5 DEF AttachInv, BeforeIsFound
<1> QED  BY <1>1, <1>2, <1>3, <1>4 DEF AttachInv

(* The new program is newer than all that was ever found.                  *)
LEMMA AttachAttachInv ==
    ASSUME AttachInv, NEW p \in Procs, Attach(p)
    PROVE  AttachInv'
<1> DEFINE n == newest + 1
<1>1. n \in Numbers /\ n # 0 /\ newest \in Nat
  BY EbpfAssumption DEF AttachInv, EbpfTypeOK, Attach, Numbers
<1>2. newest' = n /\ n \in attached' /\ attached' \subseteq attached \cup {n}
  BY DEF Attach
<1>3. EbpfTypeOK'
  <2>1. policy' \in [Numbers -> SUBSET Accesses]
    BY <1>1 DEF AttachInv, EbpfTypeOK, Attach
  <2>2. attached' \subseteq Numbers
    BY <1>1, <1>2 DEF AttachInv, EbpfTypeOK
  <2> QED  BY <1>1, <1>2, <2>1, <2>2 DEF AttachInv, EbpfTypeOK, Attach, AtReturn
<1>4. NumberedInOrder'
  BY <1>1, <1>2 DEF AttachInv, EbpfTypeOK, NumberedInOrder, Numbers
<1>5. OldIsOld'
  <2>1. ASSUME NEW q \in Procs, NEW k \in old'[q]
        PROVE  k < newest'
    <3>1. k \in old[q]
      BY DEF AttachInv, EbpfTypeOK, Attach, AtReturn
    <3>2. k <= newest /\ k \in Nat
      BY <3>1 DEF AttachInv, EbpfTypeOK, OldIsOld, Numbers
    <3> QED  BY <1>1, <1>2, <3>2
  <2>2. \A q \in Procs : \A k \in old'[q] : k \in Nat
    BY <1>3 DEF EbpfTypeOK, Numbers
  <2> QED  BY <1>1, <1>2, <2>1, <2>2 DEF OldIsOld
<1>6. NewestInForce'
  BY <1>2 DEF NewestInForce
<1>7. BeforeIsFound'
  <2>1. ASSUME NEW q \in Procs, NEW k \in before[q] PROVE k <= newest' /\ k # n
    <3>1. k <= newest /\ k \in Nat
      BY DEF AttachInv, EbpfTypeOK, BeforeIsFound, Numbers
    <3> QED  BY <1>1, <1>2, <3>1
  <2>2. ASSUME NEW q \in Procs \ {p}
        PROVE  before'[q] = before[q] /\ apc'[q] = apc[q] /\ old'[q] = old[q]
    BY DEF AttachInv, EbpfTypeOK, Attach, AtReturn
  <2>3. \/ before'[p] = before[p] /\ old'[p] = old[p] /\ apc[p] = "attach" /\ apc'[p] = "detach"
        \/ before'[p] = {} /\ apc'[p] = "idle"
    BY DEF AttachInv, EbpfTypeOK, Attach, AtReturn
  <2>4. replace' = replace
    BY DEF Attach
  <2> QED  BY <1>2, <2>1, <2>2, <2>3, <2>4 DEF AttachInv, BeforeIsFound
<1> QED  BY <1>3, <1>4, <1>5, <1>6, <1>7 DEF AttachInv

(* Only older programs are detached.                                       *)
LEMMA DetachAttachInv ==
    ASSUME AttachInv, NEW p \in Procs, Detach(p)
    PROVE  AttachInv'
<1>1. EbpfTypeOK'
  BY DEF AttachInv, EbpfTypeOK, Detach, AtReturn
<1>2. attached' \subseteq attached
  BY DEF Detach
<1>3. NumberedInOrder'
  BY <1>2 DEF AttachInv, NumberedInOrder, Detach
<1>4. OldIsOld'
  <2>1. \A q \in Procs : old'[q] \subseteq old[q] /\ (apc'[q] = "detach" => apc[q] = "detach")
    BY DEF AttachInv, EbpfTypeOK, Detach, AtReturn
  <2> QED  BY <2>1 DEF AttachInv, OldIsOld, Detach
<1>5. NewestInForce'
  <2>1. newest \notin old[p]
    BY DEF AttachInv, OldIsOld, EbpfTypeOK, Numbers, Detach
  <2>2. attached \ old[p] \subseteq attached'
    BY DEF Detach
  <2> QED  BY <2>1, <2>2 DEF AttachInv, NewestInForce, Detach
<1>6. BeforeIsFound'
  <2>1. ASSUME NEW q \in Procs \ {p}
        PROVE  before'[q] = before[q] /\ apc'[q] = apc[q] /\ old'[q] = old[q]
    BY DEF AttachInv, EbpfTypeOK, Detach, AtReturn
  <2>2. CASE old[p] = {}
    <3>1. before'[p] = {} /\ apc'[p] = "idle"
      BY <2>2 DEF AttachInv, EbpfTypeOK, Detach, AtReturn
    <3>2. UNCHANGED <<attached, newest, replace>>
      BY <2>2 DEF Detach
    <3> QED  BY <2>1, <3>1, <3>2 DEF AttachInv, BeforeIsFound
  <2>3. CASE old[p] # {}
    <3>1. PICK n \in old[p] \cap attached : attached' = attached \ {n} /\ old' = [old EXCEPT ![p] = @ \ {n}]
      BY <2>3 DEF Detach
    <3>2. old'[p] = old[p] \ {n} /\ UNCHANGED <<apc, before, newest, replace>> /\ apc[p] = "detach"
      BY <2>3, <3>1 DEF AttachInv, EbpfTypeOK, Detach
    <3> QED  BY <2>1, <3>1, <3>2 DEF AttachInv, BeforeIsFound
  <2> QED  BY <2>2, <2>3
<1> QED  BY <1>1, <1>3, <1>4, <1>5, <1>6 DEF AttachInv

(* systemd replaces only its own program.                                  *)
LEMMA SystemdAttachInv ==
    ASSUME AttachInv, NEW allows \in SUBSET Accesses, SystemdAttach(allows)
    PROVE  AttachInv'
<1>1. 0 \in Numbers
  BY EbpfAssumption DEF Numbers
<1>2. EbpfTypeOK'
  BY <1>1 DEF AttachInv, EbpfTypeOK, SystemdAttach
<1>3. NumberedInOrder'
  BY DEF AttachInv, EbpfTypeOK, NumberedInOrder, SystemdAttach, Numbers
<1>4. OldIsOld' /\ NewestInForce'
  BY DEF AttachInv, OldIsOld, NewestInForce, SystemdAttach
<1>5. BeforeIsFound'
  <2>1. \A q \in Procs : 0 \notin before[q]
    BY DEF AttachInv, EbpfTypeOK
  <2>2. attached' \subseteq attached \cup {0} /\ UNCHANGED <<newest, apc, old, before, replace>>
    BY DEF SystemdAttach
  <2> QED  BY <2>1, <2>2 DEF AttachInv, BeforeIsFound
<1> QED  BY <1>2, <1>3, <1>4, <1>5 DEF AttachInv

(* Nothing that matters here changes.                                      *)
LEMMA TakeAttachInv ==
    ASSUME AttachInv, NEW p \in Procs, AtTake(p)
    PROVE  AttachInv'
<1>1. EbpfTypeOK'
  BY DEF AttachInv, EbpfTypeOK, AtTake
<1> QED  BY <1>1 DEF AttachInv, NumberedInOrder, OldIsOld, BeforeIsFound, NewestInForce, AtTake

LEMMA NextAttachInv == AttachInv /\ [EbpfNext]_ebpfVars => AttachInv'
<1> SUFFICES ASSUME AttachInv, [EbpfNext]_ebpfVars PROVE AttachInv'
  OBVIOUS
<1>1. ASSUME NEW p \in Procs, NEW allows \in SUBSET Accesses, AtCall(p, allows) PROVE AttachInv'
  BY <1>1, CallAttachInv
<1>2. ASSUME NEW p \in Procs, NEW hidden \in SUBSET {0}, NEW haveReplace \in BOOLEAN,
             AtWork(p, hidden, haveReplace)
      PROVE AttachInv'
  BY <1>2, FindAttachInv, AttachAttachInv, DetachAttachInv, FailsAttachInv DEF AtWork
<1>3. ASSUME NEW allows \in SUBSET Accesses, SystemdAttach(allows) PROVE AttachInv'
  BY <1>3, SystemdAttachInv
<1>4. CASE UNCHANGED ebpfVars
  BY <1>4 DEF AttachInv, EbpfTypeOK, NumberedInOrder, OldIsOld, BeforeIsFound, NewestInForce, ebpfVars
<1>5. ASSUME NEW p \in Procs, AtTake(p) PROVE AttachInv'
  BY <1>5, TakeAttachInv
<1> QED  BY <1>1, <1>2, <1>3, <1>4, <1>5 DEF EbpfNext

LEMMA AttachInvariance == EbpfSpec => []AttachInv
BY InitAttachInv, NextAttachInv, PTL DEF EbpfSpec

-----------------------------------------------------------------------------
(* Type correctness of the attach protocol.                                *)
THEOREM TypeCorrect == EbpfSpec => []EbpfTypeOK
BY AttachInvariance, PTL DEF AttachInv

(* LoadAttachCgroupDeviceFilter: however calls overlap and wherever they   *)
(* fail, the filter attached last stays attached until a newer one is.     *)
THEOREM NewestStays == EbpfSpec => []NewestInForce
BY AttachInvariance, PTL DEF AttachInv

-----------------------------------------------------------------------------
(* What Guard sees: the filters numbered so far, those in force, and how   *)
(* far a call is.                                                          *)
FiltersSeen == [n \in 1..newest |-> policy[n]]
InForce == attached \ {0}
Phase(where) == IF where = "idle" THEN "idle" ELSE IF where = "detach" THEN "installed" ELSE "asked"
Phases == [p \in Procs |-> IF apc[p] = "idle" THEN "idle"
                           ELSE IF apc[p] = "detach" THEN "installed" ELSE "asked"]
seen == <<newest, FiltersSeen, InForce, Phases, want, before, ares>>

LEMMA PhaseChanges ==
    ASSUME AttachInv, NEW p \in Procs, NEW where, apc' = [apc EXCEPT ![p] = where]
    PROVE  Phases' = [Phases EXCEPT ![p] = Phase(where)]
<1>1. ASSUME NEW q \in Procs PROVE Phases'[q] = [Phases EXCEPT ![p] = Phase(where)][q]
  BY DEF AttachInv, EbpfTypeOK, Phases, Phase
<1> QED  BY <1>1 DEF Phases

LEMMA FiltersSame ==
    ASSUME newest' = newest, \A n \in 1..newest : policy'[n] = policy[n]
    PROVE  FiltersSeen' = FiltersSeen
BY DEF FiltersSeen

LEMMA CallAsks ==
    ASSUME AttachInv, NEW p \in Procs, NEW allows \in SUBSET Accesses, AtCall(p, allows)
    PROVE  Guard!Ask(p)
<1>1. Phases[p] = "idle" /\ Phases' = [Phases EXCEPT ![p] = "asked"]
  <2>1. apc' = [apc EXCEPT ![p] = "query"] /\ apc[p] = "idle"
    BY DEF AtCall
  <2> QED  BY <2>1, PhaseChanges DEF Phases, Phase
<1>2. FiltersSeen' = FiltersSeen /\ InForce' = InForce /\ newest' = newest
  BY FiltersSame DEF AtCall, InForce
<1>3. /\ want' = [want EXCEPT ![p] = allows]
      /\ before' = [before EXCEPT ![p] = InForce]
      /\ ares' = [ares EXCEPT ![p] = "none"]
  BY DEF AtCall, InForce
<1> QED  BY <1>1, <1>2, <1>3 DEF Guard!Ask, FiltersSeen, InForce, Phases

(* Making the list of programs is not seen.                                *)
LEMMA FindUnseen ==
    ASSUME AttachInv, NEW p \in Procs, NEW hidden, NEW haveReplace, findAttached(p, hidden, haveReplace)
    PROVE  UNCHANGED seen
<1>1. Phases' = Phases
  <2>1. apc' = [apc EXCEPT ![p] = "attach"] /\ apc[p] = "query"
    BY DEF findAttached
  <2>2. Phases' = [Phases EXCEPT ![p] = Phases[p]]
    BY <2>1, PhaseChanges DEF Phases, Phase
  <2> QED  BY <2>2 DEF Phases
<1>2. FiltersSeen' = FiltersSeen /\ InForce' = InForce
  BY FiltersSame DEF findAttached, InForce
<1> QED  BY <1>1, <1>2 DEF findAttached, seen

LEMMA FailureAnswers ==
    ASSUME AttachInv, NEW p \in Procs, AtFails(p)
    PROVE  Guard!Fail(p)
<1>1. Phases[p] # "idle" /\ Phases' = [Phases EXCEPT ![p] = "idle"]
  <2>1. apc' = [apc EXCEPT ![p] = "idle"] /\ apc[p] # "idle"
    BY DEF AtFails, AtReturn
  <2> QED  BY <2>1, PhaseChanges DEF Phases, Phase
<1>2. FiltersSeen' = FiltersSeen /\ InForce' = InForce /\ newest' = newest /\ want' = want
  BY FiltersSame DEF AtFails, InForce
<1>3. before' = [before EXCEPT ![p] = {}] /\ ares' = [ares EXCEPT ![p] = "err"]
  BY DEF AtFails, AtReturn
<1> QED  BY <1>1, <1>2, <1>3 DEF Guard!Fail, Guard!Returns, FiltersSeen, InForce, Phases

(* Attaching or replacing installs; the one program that is replaced was   *)
(* the only one found, so that the call may return.                        *)
LEMMA AttachInstalls ==
    ASSUME AttachInv, NEW p \in Procs, Attach(p)
    PROVE  Guard!Install(p)
<1> DEFINE n == newest + 1
<1>1. newest \in Nat /\ n \in Numbers /\ n # 0 /\ newest' = n /\ apc[p] = "attach"
  BY EbpfAssumption DEF AttachInv, EbpfTypeOK, Attach, Numbers
<1>2. FiltersSeen' = [k \in 1..newest' |-> IF k = newest' THEN want[p] ELSE FiltersSeen[k]]
  <2>1. policy' = [policy EXCEPT ![n] = want[p]]
    BY DEF Attach
  <2>2. ASSUME NEW k \in 1..newest' PROVE policy'[k] = (IF k = newest' THEN want[p] ELSE FiltersSeen[k])
    <3>1. k \in Numbers
      BY <1>1, EbpfAssumption DEF Numbers
    <3>2. CASE k = n
      BY <1>1, <2>1, <3>1, <3>2 DEF AttachInv, EbpfTypeOK
    <3>3. CASE k # n
      <4>1. k \in 1..newest
        BY <1>1, <3>3
      <4> QED  BY <1>1, <2>1, <3>1, <3>3, <4>1 DEF AttachInv, EbpfTypeOK, FiltersSeen
    <3> QED  BY <3>2, <3>3
  <2> QED  BY <2>2 DEF FiltersSeen
<1>3. Phases[p] = "asked" /\ want' = want
  BY <1>1 DEF Phases, Attach
<1>4. CASE ~replace[p]
  <2>1. InForce' = InForce \cup {newest'}
    BY <1>1, <1>4 DEF Attach, InForce
  <2>2. Phases' = [Phases EXCEPT ![p] = "installed"]
    <3>1. apc' = [apc EXCEPT ![p] = "detach"]
      BY <1>4 DEF Attach
    <3> QED  BY <3>1, PhaseChanges DEF Phase
  <2>3. UNCHANGED <<before, ares>>
    BY <1>4 DEF Attach
  <2> QED  BY <1>1, <1>2, <1>3, <2>1, <2>2, <2>3 DEF Guard!Install, FiltersSeen, InForce, Phases
<1>5. CASE replace[p]
  <2>1. PICK m : old[p] = {m}
    BY <1>1, <1>5 DEF AttachInv, BeforeIsFound
  <2>2. m \in attached /\ attached' = (attached \ {m}) \cup {n}
    BY <1>5, <2>1 DEF Attach
  <2>3. \/ InForce' = InForce \cup {newest'}
        \/ \E k \in InForce : InForce' = (InForce \ {k}) \cup {newest'}
    <3>1. CASE m = 0
      BY <1>1, <2>2, <3>1 DEF InForce
    <3>2. CASE m # 0
      BY <1>1, <2>2, <3>2 DEF InForce
    <3> QED  BY <3>1, <3>2
  <2>4. before[p] \cap InForce' = {}
    <3>1. before[p] \cap attached \subseteq {m} /\ n \notin before[p]
      <4>1. \A k \in before[p] : k <= newest /\ k \in Nat
        BY DEF AttachInv, EbpfTypeOK, BeforeIsFound, Numbers
      <4> QED  BY <1>1, <2>1, <4>1 DEF AttachInv, BeforeIsFound
    <3> QED  BY <2>2, <3>1 DEF InForce
  <2>5. Phases' = [Phases EXCEPT ![p] = "idle"]
    <3>1. apc' = [apc EXCEPT ![p] = "idle"]
      BY <1>5 DEF Attach, AtReturn
    <3> QED  BY <3>1, PhaseChanges DEF Phase
  <2>6. before' = [before EXCEPT ![p] = {}] /\ ares' = [ares EXCEPT ![p] = "nil"]
    BY <1>5 DEF Attach, AtReturn
  <2> QED  BY <1>1, <1>2, <1>3, <2>3, <2>4, <2>5, <2>6
           DEF Guard!Install, Guard!Returns, Guard!Outdated, FiltersSeen, InForce, Phases
<1> QED  BY <1>4, <1>5

(* Detaching removes an older filter, or systemd's, which is not seen.     *)
LEMMA DetachRemoves ==
    ASSUME AttachInv, NEW p \in Procs, Detach(p)
    PROVE  Guard!Remove(p) \/ Guard!Succeed(p) \/ UNCHANGED seen
<1>1. Phases[p] = "installed" /\ UNCHANGED <<policy, newest, want>>
  BY DEF Phases, Detach
<1>2. FiltersSeen' = FiltersSeen
  BY <1>1, FiltersSame
<1>3. CASE old[p] = {}
  <2>1. UNCHANGED attached /\ AtReturn(p, "nil")
    BY <1>3 DEF Detach
  <2>2. Phases' = [Phases EXCEPT ![p] = "idle"]
    <3>1. apc' = [apc EXCEPT ![p] = "idle"]
      BY <2>1 DEF AtReturn
    <3> QED  BY <3>1, PhaseChanges DEF Phase
  <2>3. InForce' = InForce /\ before[p] \cap InForce' = {}
    BY <1>3, <2>1 DEF InForce, AttachInv, BeforeIsFound, Detach
  <2>4. before' = [before EXCEPT ![p] = {}] /\ ares' = [ares EXCEPT ![p] = "nil"]
    BY <2>1 DEF AtReturn
  <2> QED  BY <1>1, <1>2, <2>2, <2>3, <2>4
           DEF Guard!Succeed, Guard!Returns, Guard!Outdated, FiltersSeen, InForce, Phases
<1>4. CASE old[p] # {}
  <2>1. PICK n \in old[p] \cap attached : attached' = attached \ {n}
    BY <1>4 DEF Detach
  <2>2. UNCHANGED <<apc, before, ares>>
    BY <1>4 DEF Detach
  <2>3. n < newest /\ n \in Nat /\ newest \in Nat
    BY DEF AttachInv, EbpfTypeOK, OldIsOld, Numbers, Detach
  <2>4. Phases' = Phases
    BY <2>2 DEF Phases
  <2>5. CASE n = 0
    <3>1. InForce' = InForce
      BY <2>1, <2>5 DEF InForce
    <3> QED  BY <1>1, <1>2, <2>2, <2>4, <3>1 DEF seen
  <2>6. CASE n # 0
    <3>1. n \in InForce \ {newest} /\ InForce' = InForce \ {n}
      BY <2>1, <2>3, <2>6 DEF InForce
    <3> QED  BY <1>1, <1>2, <2>2, <2>4, <3>1 DEF Guard!Remove, FiltersSeen, InForce, Phases
  <2> QED  BY <2>5, <2>6
<1> QED  BY <1>3, <1>4

(* What systemd does is not seen.                                          *)
LEMMA SystemdUnseen ==
    ASSUME AttachInv, NEW allows, SystemdAttach(allows)
    PROVE  UNCHANGED seen
<1>1. \A n \in 1..newest : policy'[n] = policy[n]
  BY DEF AttachInv, EbpfTypeOK, Numbers, SystemdAttach
<1>2. newest' = newest /\ UNCHANGED <<apc, want, before, ares>>
  BY DEF SystemdAttach
<1>3. InForce' = InForce
  BY DEF SystemdAttach, InForce
<1>4. FiltersSeen' = FiltersSeen /\ Phases' = Phases
  BY <1>1, <1>2, FiltersSame DEF Phases
<1> QED  BY <1>2, <1>3, <1>4 DEF seen

LEMMA TakeTakes ==
    ASSUME AttachInv, NEW p \in Procs, AtTake(p)
    PROVE  Guard!Take(p)
<1>1. Phases[p] = "idle" /\ Phases' = Phases /\ InForce' = InForce
  BY DEF AtTake, Phases, InForce
<1>2. FiltersSeen' = FiltersSeen
  BY FiltersSame DEF AtTake
<1> QED  BY <1>1, <1>2 DEF AtTake, Guard!Take, FiltersSeen, InForce, Phases

(* The attach and detach calls implement DeviceGuard: a call that reports  *)
(* success has put its own filter in force and has seen those go that were *)
(* there when it was made; none but a caller whose filter is in force      *)
(* removes one, and never the newest.                                      *)
THEOREM ImplementsGuard == EbpfSpec => GuardSpec
<1>1. EbpfInit => Guard!Init
  BY DEF EbpfInit, Guard!Init
<1>2. AttachInv /\ [EbpfNext]_ebpfVars => [Guard!Next]_seen
  <2> SUFFICES ASSUME AttachInv, [EbpfNext]_ebpfVars PROVE Guard!Next \/ UNCHANGED seen
    OBVIOUS
  <2>1. ASSUME NEW p \in Procs, NEW allows \in SUBSET Accesses, AtCall(p, allows) PROVE Guard!Next
    BY <2>1, CallAsks DEF Guard!Next
  <2>2. ASSUME NEW p \in Procs, NEW hidden \in SUBSET {0}, NEW haveReplace \in BOOLEAN,
               AtWork(p, hidden, haveReplace)
        PROVE  Guard!Next \/ UNCHANGED seen
    <3>1. CASE findAttached(p, hidden, haveReplace)
      BY <3>1, FindUnseen
    <3>2. CASE Attach(p)
      BY <3>2, AttachInstalls DEF Guard!Next
    <3>3. CASE Detach(p)
      BY <3>3, DetachRemoves DEF Guard!Next
    <3>4. CASE AtFails(p)
      BY <3>4, FailureAnswers DEF Guard!Next
    <3> QED  BY <2>2, <3>1, <3>2, <3>3, <3>4 DEF AtWork
  <2>3. ASSUME NEW p \in Procs, AtTake(p) PROVE Guard!Next
    BY <2>3, TakeTakes DEF Guard!Next
  <2>4. ASSUME NEW allows \in SUBSET Accesses, SystemdAttach(allows) PROVE UNCHANGED seen
    BY <2>4, SystemdUnseen
  <2>5. CASE UNCHANGED ebpfVars
    BY <2>5 DEF ebpfVars, seen, FiltersSeen, InForce, Phases
  <2> QED  BY <2>1, <2>2, <2>3, <2>4, <2>5 DEF EbpfNext
<1>3. [Guard!Next]_seen => [Guard!Next]_(Guard!guardVars)
  BY DEF seen, Guard!guardVars, FiltersSeen, InForce, Phases
<1> QED  BY <1>1, <1>2, <1>3, AttachInvariance, PTL DEF EbpfSpec, GuardSpec, Guard!Spec

-----------------------------------------------------------------------------
(* What the conversions to cgroup v2 and systemd units compute, for every  *)
(* input: TLC evaluates them only for the requests of a run.               *)

(* Euclid's division, in the form the provers do not find by themselves.   *)
LEMMA Division ==
    ASSUME NEW a \in Nat, NEW b \in Nat, b > 0
    PROVE  /\ a \div b \in Nat
           /\ (a \div b) * b <= a
           /\ a < (a \div b + 1) * b
OBVIOUS

(* ConvertCPUSharesToCgroupV2Value takes the kernel's range of shares into *)
(* the range of cpu.weight.                                                *)
THEOREM SharesGiveWeights ==
    ASSUME NEW shares \in Nat, 2 <= shares, shares <= 262144
    PROVE  ConvertCPUSharesToCgroupV2Value(shares) \in 1..10000
<1> DEFINE a == (shares - 2) * 9999
<1>1. a \in Nat /\ a < 262142 * 10000
  OBVIOUS
<1> HIDE DEF a
<1>2. a \div 262142 \in 0..9999
  BY <1>1, Division
<1> QED  BY <1>2 DEF ConvertCPUSharesToCgroupV2Value, a

(* ... and keeps the order of two containers.                              *)
THEOREM SharesKeepOrder ==
    ASSUME NEW s \in Nat, NEW t \in Nat, s >= 2, s <= t
    PROVE  ConvertCPUSharesToCgroupV2Value(s) <= ConvertCPUSharesToCgroupV2Value(t)
BY DEF ConvertCPUSharesToCgroupV2Value

(* ConvertBlkIOToIOWeightValue takes the range of blkio weights into that  *)
(* of io.weight.                                                           *)
THEOREM BlkioGivesWeights ==
    ASSUME NEW w \in 10..1000
    PROVE  ConvertBlkIOToIOWeightValue(w) \in 1..10000
BY DEF ConvertBlkIOToIOWeightValue

(* ConvertMemorySwapToCgroupV2Value: when it reports no error the limits   *)
(* on memory and on swap add up to the memory+swap limit.                  *)
THEOREM SwapAddsUp ==
    ASSUME NEW mem \in Int, NEW swap \in Int, ~SwapErr(swap, mem), mem > 0, swap > 0
    PROVE  /\ ConvertMemorySwapToCgroupV2Value(swap, mem) >= 0
           /\ mem + ConvertMemorySwapToCgroupV2Value(swap, mem) = swap
BY DEF SwapErr, ConvertMemorySwapToCgroupV2Value

(* addCpuQuota: what systemd is given is a whole number of percents, the   *)
(* least that is not below quota / period, but for the microsecond that    *)
(* the division drops before the rounding.                                 *)
THEOREM QuotaRoundsUp ==
    ASSUME NEW quota \in Nat, quota > 0, NEW period \in Nat, period > 0
    PROVE  /\ cpuQuotaPerSec(quota, period) % 10000 = 0
           /\ (cpuQuotaPerSec(quota, period) + 1) * period > quota * 1000000
           /\ (cpuQuotaPerSec(quota, period) - 10000) * period < quota * 1000000
<1> DEFINE exact == (quota * 1000000) \div period
           q == cpuQuotaPerSec(quota, period)
<1>1. exact \in Nat /\ exact * period <= quota * 1000000 /\ quota * 1000000 < (exact + 1) * period
  BY Division
<1>2. q = IF exact % 10000 = 0 THEN exact ELSE (exact \div 10000 + 1) * 10000
  BY DEF cpuQuotaPerSec
<1> HIDE DEF exact
<1>3. q \in Nat /\ q % 10000 = 0 /\ exact <= q /\ q - 10000 < exact
  BY <1>1, <1>2
<1>4. (exact + 1) * period <= (q + 1) * period
  BY <1>1, <1>3
<1>5. (q - 10000) * period < exact * period
  BY <1>1, <1>3
<1> QED  BY <1>1, <1>3, <1>4, <1>5

-----------------------------------------------------------------------------
(* Sequences of steps.                                                     *)

LEMMA TailFacts ==
    ASSUME NEW S, NEW s \in Seq(S), s # <<>>
    PROVE  /\ Head(s) = s[1] /\ 1 \in DOMAIN s /\ s[1] \in S /\ Tail(s) \in Seq(S)
           /\ \A i \in DOMAIN Tail(s) : i \in Nat /\ i > 0 /\ i + 1 \in DOMAIN s /\ Tail(s)[i] = s[i + 1]
           /\ \A j \in DOMAIN s : j = 1 \/ (j - 1 \in DOMAIN Tail(s) /\ Tail(s)[j - 1] = s[j])
<1> DEFINE t == Tail(s)
<1>1. Len(s) \in Nat \ {0} /\ DOMAIN s = 1..Len(s)
  BY EmptySeq, LenProperties
<1>2. t \in Seq(S) /\ Len(t) = Len(s) - 1 /\ \A i \in 1..Len(t) : t[i] = s[i + 1]
  BY HeadTailProperties
<1>3. Head(s) = s[1]
  OBVIOUS
<1> HIDE DEF t
<1>4. DOMAIN t = 1..Len(s) - 1
  BY <1>2, LenProperties
<1>5. s[1] \in S
  BY <1>1, ElementOfSeq
<1>6. \A i \in DOMAIN t : i \in Nat /\ i > 0 /\ i + 1 \in DOMAIN s /\ t[i] = s[i + 1]
  BY ONLY <1>1, <1>2, <1>4
<1>7. ASSUME NEW j \in DOMAIN s, j # 1 PROVE j - 1 \in DOMAIN t /\ t[j - 1] = s[j]
  <2>1. j - 1 \in 1..Len(s) - 1 /\ (j - 1) + 1 = j  BY ONLY <1>1, <1>7, j \in DOMAIN s
  <2> QED  BY <1>4, <1>6, <2>1
<1> QED  BY <1>1, <1>2, <1>3, <1>5, <1>6, <1>7 DEF t

LEMMA ConcatFacts ==
    ASSUME NEW S, NEW s \in Seq(S), NEW t \in Seq(S)
    PROVE  /\ s \o t \in Seq(S)
           /\ \A i \in DOMAIN (s \o t) :
                \/ i \in DOMAIN s /\ (s \o t)[i] = s[i]
                \/ i - Len(s) \in DOMAIN t /\ (s \o t)[i] = t[i - Len(s)]
           /\ \A i \in DOMAIN s : i \in DOMAIN (s \o t) /\ (s \o t)[i] = s[i]
           /\ \A i \in DOMAIN t : Len(s) + i \in DOMAIN (s \o t) /\ (s \o t)[Len(s) + i] = t[i]
           /\ DOMAIN s = 1..Len(s) /\ Len(s) \in Nat /\ DOMAIN t \subseteq Nat \ {0}
           /\ DOMAIN (s \o t) \subseteq Nat
<1> DEFINE u == s \o t
<1>1. DOMAIN s = 1..Len(s) /\ DOMAIN t = 1..Len(t) /\ Len(s) \in Nat /\ Len(t) \in Nat
  BY LenProperties
<1>2. /\ u \in Seq(S) /\ Len(u) = Len(s) + Len(t)
      /\ \A i \in 1..Len(s) + Len(t) : u[i] = IF i <= Len(s) THEN s[i] ELSE t[i - Len(s)]
  BY ConcatProperties
<1>3. DOMAIN u = 1..Len(s) + Len(t)  BY <1>2, LenProperties
<1> HIDE DEF u
<1>4. \A i \in DOMAIN u : (i \in DOMAIN s /\ u[i] = s[i]) \/ (i - Len(s) \in DOMAIN t /\ u[i] = t[i - Len(s)])
  BY ONLY <1>1, <1>2, <1>3
<1>5. \A i \in DOMAIN s : i \in DOMAIN u /\ u[i] = s[i]
  BY ONLY <1>1, <1>2, <1>3
<1>6. ASSUME NEW i \in DOMAIN t PROVE Len(s) + i \in DOMAIN u /\ u[Len(s) + i] = t[i]
  <2>1. (Len(s) + i) - Len(s) = i /\ ~(Len(s) + i <= Len(s)) /\ Len(s) + i \in 1..Len(s) + Len(t)
    BY ONLY <1>1, i \in DOMAIN t
  <2> QED  BY <1>2, <1>3, <2>1
<1>7. DOMAIN t \subseteq Nat \ {0} /\ DOMAIN u \subseteq Nat
  BY ONLY <1>1, <1>3
<1> QED  BY <1>1, <1>2, <1>4, <1>5, <1>6, <1>7 DEF u

Values == Int \cup (Int \X Int)
Kinds == {"write", "rsvd", "freeze", "check", "devices", "error"}
Steps == [k : Kinds, f : Files \cup {NoFile}, v : Values]

Has(s, k) == \E i \in DOMAIN s : s[i].k = k
NamesIn(s) == {s[i].f : i \in DOMAIN s}

(* A file has its value, or the last of the steps that touch it writes it. *)
LastWrite(s, f, v) ==
    \E i \in DOMAIN s : s[i].k = "write" /\ s[i].f = f /\ s[i].v = v /\ \A j \in DOMAIN s : j > i => s[j].f # f
Outcome(s, f, v) == LastWrite(s, f, v) \/ (file[f] = v /\ f \notin NamesIn(s))

LEMMA ConcatHas ==
    ASSUME NEW s \in Seq(Steps), NEW t \in Seq(Steps)
    PROVE  /\ \A k : Has(s \o t, k) <=> Has(s, k) \/ Has(t, k)
           /\ NamesIn(s \o t) = NamesIn(s) \cup NamesIn(t)
<1> DEFINE u == s \o t
<1>1. /\ \A i \in DOMAIN u : (i \in DOMAIN s /\ u[i] = s[i]) \/ (i - Len(s) \in DOMAIN t /\ u[i] = t[i - Len(s)])
      /\ \A i \in DOMAIN s : i \in DOMAIN u /\ u[i] = s[i]
      /\ \A i \in DOMAIN t : Len(s) + i \in DOMAIN u /\ u[Len(s) + i] = t[i]
  BY ConcatFacts
<1> HIDE DEF u
<1>2. \A k : Has(u, k) <=> Has(s, k) \/ Has(t, k)
  BY <1>1 DEF Has
<1>3. NamesIn(u) = NamesIn(s) \cup NamesIn(t)
  BY <1>1 DEF NamesIn
<1> QED  BY <1>2, <1>3 DEF u

(* The second sequence has the last word.                                  *)
LEMMA ConcatLast ==
    ASSUME NEW s \in Seq(Steps), NEW t \in Seq(Steps), NEW f, NEW v
    PROVE  /\ LastWrite(t, f, v) => LastWrite(s \o t, f, v)
           /\ LastWrite(s, f, v) /\ f \notin NamesIn(t) => LastWrite(s \o t, f, v)
<1> DEFINE u == s \o t
<1>1. /\ \A i \in DOMAIN u : (i \in DOMAIN s /\ u[i] = s[i]) \/ (i - Len(s) \in DOMAIN t /\ u[i] = t[i - Len(s)])
      /\ \A i \in DOMAIN s : i \in DOMAIN u /\ u[i] = s[i]
      /\ \A i \in DOMAIN t : Len(s) + i \in DOMAIN u /\ u[Len(s) + i] = t[i]
      /\ DOMAIN s = 1..Len(s) /\ Len(s) \in Nat /\ DOMAIN t \subseteq Nat \ {0} /\ DOMAIN u \subseteq Nat
  BY ConcatFacts
<1> HIDE DEF u
<1>2. ASSUME LastWrite(t, f, v) PROVE LastWrite(u, f, v)
  <2>1. PICK i \in DOMAIN t : t[i].k = "write" /\ t[i].f = f /\ t[i].v = v /\ \A j \in DOMAIN t : j > i => t[j].f # f
    BY <1>2 DEF LastWrite
  <2> DEFINE n == Len(s) + i
  <2>2. n \in DOMAIN u /\ u[n] = t[i]
    BY <1>1
  <2>3. ASSUME NEW j \in DOMAIN u, j > n PROVE u[j].f # f
    <3>1. j \notin DOMAIN s /\ j - Len(s) > i
      BY ONLY <1>1, <2>3, j \in DOMAIN u, i \in DOMAIN t
    <3> QED  BY <1>1, <2>1, <3>1
  <2> HIDE DEF n
  <2> QED  BY <2>1, <2>2, <2>3 DEF LastWrite
<1>3. ASSUME LastWrite(s, f, v), f \notin NamesIn(t) PROVE LastWrite(u, f, v)
  <2>1. PICK i \in DOMAIN s : s[i].k = "write" /\ s[i].f = f /\ s[i].v = v /\ \A j \in DOMAIN s : j > i => s[j].f # f
    BY <1>3 DEF LastWrite
  <2>2. i \in DOMAIN u /\ u[i] = s[i]
    BY <1>1
  <2>3. ASSUME NEW j \in DOMAIN u, j > i PROVE u[j].f # f
    BY <1>1, <1>3, <2>1, <2>3 DEF NamesIn
  <2> QED  BY <2>1, <2>2, <2>3 DEF LastWrite
<1> QED  BY <1>2, <1>3 DEF u

(* What is left to do after the first step.                                *)
LEMMA TailHas ==
    ASSUME NEW s \in Seq(Steps), s # <<>>
    PROVE  /\ Head(s) \in Steps /\ 1 \in DOMAIN s /\ Head(s) = s[1]
           /\ \A k : Head(s).k # k => (Has(Tail(s), k) <=> Has(s, k))
           /\ NamesIn(Tail(s)) \subseteq NamesIn(s) /\ Head(s).f \in NamesIn(s)
<1>1. /\ Head(s) = s[1] /\ 1 \in DOMAIN s /\ s[1] \in Steps
      /\ \A i \in DOMAIN Tail(s) : i + 1 \in DOMAIN s /\ Tail(s)[i] = s[i + 1]
      /\ \A j \in DOMAIN s : j = 1 \/ (j - 1 \in DOMAIN Tail(s) /\ Tail(s)[j - 1] = s[j])
  BY TailFacts
<1>2. ASSUME NEW k, s[1].k # k PROVE Has(Tail(s), k) <=> Has(s, k)
  BY <1>1, <1>2 DEF Has
<1>3. NamesIn(Tail(s)) \subseteq NamesIn(s) /\ s[1].f \in NamesIn(s)
  BY <1>1 DEF NamesIn
<1> QED  BY <1>1, <1>2, <1>3

LEMMA TailLast ==
    ASSUME NEW s \in Seq(Steps), s # <<>>, NEW f, NEW v, LastWrite(s, f, v)
    PROVE  \/ LastWrite(Tail(s), f, v)
           \/ Head(s).k = "write" /\ Head(s).f = f /\ Head(s).v = v /\ f \notin NamesIn(Tail(s))
<1> DEFINE t == Tail(s)
<1>1. /\ Head(s) = s[1]
      /\ \A i \in DOMAIN t : i \in Nat /\ i > 0 /\ i + 1 \in DOMAIN s /\ t[i] = s[i + 1]
      /\ \A j \in DOMAIN s : j = 1 \/ (j - 1 \in DOMAIN t /\ t[j - 1] = s[j])
      /\ DOMAIN s \subseteq Nat
  BY TailFacts, LenProperties
<1> HIDE DEF t
<1>2. PICK i \in DOMAIN s : s[i].k = "write" /\ s[i].f = f /\ s[i].v = v /\ \A j \in DOMAIN s : j > i => s[j].f # f
  BY DEF LastWrite
<1>3. CASE i = 1
  <2>1. ASSUME NEW j \in DOMAIN t PROVE t[j].f # f
    <3>1. j + 1 > 1 /\ j + 1 \in DOMAIN s  BY <1>1
    <3> QED  BY <1>1, <1>2, <1>3, <3>1
  <2> QED  BY <1>1, <1>2, <1>3, <2>1 DEF NamesIn, t
<1>4. CASE i # 1
  <2>1. i - 1 \in DOMAIN t /\ t[i - 1] = s[i]  BY <1>1, <1>4
  <2>2. ASSUME NEW j \in DOMAIN t, j > i - 1 PROVE t[j].f # f
    <3>1. j + 1 > i /\ j + 1 \in DOMAIN s  BY <1>1, <2>2
    <3> QED  BY <1>1, <1>2, <3>1
  <2> QED  BY <1>2, <2>1, <2>2 DEF LastWrite, t
<1> QED  BY <1>3, <1>4

(* A step that was performed, or that does not write, is not missed.       *)
LEMMA PopOutcome ==
    ASSUME NEW s \in Seq(Steps), s # <<>>, NEW f \in Files, NEW v, file \in [Files -> Values], Outcome(s, f, v),
           Performed(Head(s)) \/ (Head(s).k # "write" /\ UNCHANGED file)
    PROVE  LastWrite(Tail(s), f, v) \/ (file'[f] = v /\ f \notin NamesIn(Tail(s)))
<1>1. CASE LastWrite(s, f, v)
  <2>1. LastWrite(Tail(s), f, v)
        \/ (Head(s).k = "write" /\ Head(s).f = f /\ Head(s).v = v /\ f \notin NamesIn(Tail(s)))
    BY <1>1, TailLast
  <2> QED  BY <2>1 DEF Performed
<1>2. CASE file[f] = v /\ f \notin NamesIn(s)
  <2>1. NamesIn(Tail(s)) \subseteq NamesIn(s) /\ Head(s).f \in NamesIn(s)
    BY TailHas
  <2> QED  BY <1>2, <2>1 DEF Performed
<1> QED  BY <1>1, <1>2 DEF Outcome

(* The freeze is waited for: its step is replaced.                         *)
LEMMA CheckOutcome ==
    ASSUME NEW s \in Seq(Steps), s # <<>>, NEW f \in Files, NEW v, file \in [Files -> Values], Outcome(s, f, v),
           Performed(Head(s)), Head(s).k = "freeze", NEW c \in Steps, c.f = Head(s).f
    PROVE  LET t == <<c>> \o Tail(s) IN LastWrite(t, f, v) \/ (file'[f] = v /\ f \notin NamesIn(t))
<1>1. Tail(s) \in Seq(Steps) /\ <<c>> \in Seq(Steps) /\ NamesIn(<<c>>) = {c.f}
  BY TailFacts DEF NamesIn
<1>2. CASE LastWrite(s, f, v)
  <2>1. LastWrite(Tail(s), f, v)
    BY <1>2, TailLast
  <2> QED  BY <1>1, <2>1, ConcatLast
<1>3. CASE file[f] = v /\ f \notin NamesIn(s)
  <2>1. NamesIn(Tail(s)) \subseteq NamesIn(s) /\ Head(s).f \in NamesIn(s)
    BY TailHas
  <2>2. NamesIn(<<c>> \o Tail(s)) = NamesIn(<<c>>) \cup NamesIn(Tail(s))
    BY <1>1, ConcatHas
  <2> QED  BY <1>1, <1>3, <2>1, <2>2 DEF Performed
<1> QED  BY <1>2, <1>3 DEF Outcome

-----------------------------------------------------------------------------
(* The emulator and the filter compiled from it.                           *)

(* Induction on the natural numbers, over a set instead of a predicate.    *)
LEMMA NatSetInduction ==
    ASSUME NEW S, 0 \in S, \A n \in Nat : n \in S => n + 1 \in S
    PROVE  Nat \subseteq S
<1> DEFINE R == {ss \in Nat \X Nat : ss[1] < ss[2]}
           T == Nat \ S
<1>1. IsWellFoundedOn(R, Nat)
  BY NatLessThanWellFounded DEF OpToRel
<1>2. SUFFICES ASSUME T # {} PROVE FALSE
  OBVIOUS
<1>3. T \subseteq Nat
  OBVIOUS
<1> HIDE DEF R, T
<1>4. PICK m \in T : \A k \in T : ~(<<k, m>> \in R)
  BY <1>1, <1>2, <1>3, WFMin
<1>5. m \in Nat /\ m \notin S /\ \A k \in T : ~(k < m)
  BY <1>3, <1>4 DEF R, T
<1>6. m # 0 /\ m - 1 \in Nat /\ (m - 1) + 1 = m
  BY <1>5
<1>7. m - 1 \in S
  BY <1>5, <1>6 DEF T
<1> QED  BY <1>5, <1>6, <1>7

EmuStep(prev, rule) == IF prev.err THEN prev ELSE Apply(prev.emu, rule)
IsTrace(g, rules, n) ==
    g = [i \in 0..n |-> IF i = 0 THEN Done(EmptyEmulator(FALSE)) ELSE EmuStep(g[i - 1], rules[i])]

(* The recursion of Emulate defines a function.                            *)
LEMMA TraceExists ==
    ASSUME NEW rules, NEW n \in Nat
    PROVE  \E g : IsTrace(g, rules, n)
<1> DEFINE S == {m \in Nat : \E g : IsTrace(g, rules, m)}
<1>1. 0 \in S
  <2> DEFINE g == [i \in 0..0 |-> Done(EmptyEmulator(FALSE))]
  <2>1. IsTrace(g, rules, 0)
    BY DEF IsTrace
  <2> QED  BY <2>1
<1>2. ASSUME NEW m \in Nat, m \in S PROVE m + 1 \in S
  <2>1. PICK g : IsTrace(g, rules, m)
    BY <1>2
  <2> DEFINE h == [i \in 0..(m + 1) |-> IF i = m + 1 THEN EmuStep(g[m], rules[m + 1]) ELSE g[i]]
             Next1(i) == IF i = 0 THEN Done(EmptyEmulator(FALSE)) ELSE EmuStep(h[i - 1], rules[i])
  <2>2. \A i \in 0..m : h[i] = g[i]
    OBVIOUS
  <2>3. ASSUME NEW i \in 0..(m + 1) PROVE h[i] = Next1(i)
    <3>1. CASE i = m + 1
      <4>1. i # 0 /\ i - 1 = m /\ h[i] = EmuStep(g[m], rules[i]) /\ h[m] = g[m]  BY <2>2, <3>1
      <4> QED  BY <4>1
    <3>2. CASE i # m + 1
      <4>1. i \in 0..m /\ (i # 0 => i - 1 \in 0..m)  BY <3>2
      <4>2. g[i] = IF i = 0 THEN Done(EmptyEmulator(FALSE)) ELSE EmuStep(g[i - 1], rules[i])
        BY <2>1, <4>1 DEF IsTrace
      <4> HIDE DEF h
      <4> QED  BY <2>2, <4>1, <4>2
    <3> QED  BY <3>1, <3>2
  <2>4. h = [i \in 0..(m + 1) |-> h[i]]
    OBVIOUS
  <2> HIDE DEF h
  <2>5. h = [i \in 0..(m + 1) |-> Next1(i)]
    BY <2>3, <2>4
  <2>6. IsTrace(h, rules, m + 1)
    BY <2>5 DEF IsTrace
  <2> QED  BY <2>6
<1> HIDE DEF S
<1>3. Nat \subseteq S
  BY <1>1, <1>2, NatSetInduction
<1> QED  BY <1>3 DEF S

LEMMA EmulateIsTrace ==
    ASSUME NEW rules \in Seq(Rule)
    PROVE  \E g : IsTrace(g, rules, Len(rules)) /\ Emulate(rules) = g[Len(rules)]
<1> DEFINE e == CHOOSE g : IsTrace(g, rules, Len(rules))
<1>1. Len(rules) \in Nat
  BY LenProperties
<1>2. IsTrace(e, rules, Len(rules))
  BY <1>1, TraceExists
<1>3. Emulate(rules) = e[Len(rules)]
  BY DEF Emulate, IsTrace, EmuStep
<1> QED  BY <1>2, <1>3

(* An emulator whose exceptions all have an entry.                         *)
Sound(emu) == emu \in Emulator /\ \A m \in deviceMeta : emu.perms[m] # {} => m \in emu.keys
SoundOutcome(o) == o.err \in BOOLEAN /\ Sound(o.emu)

LEMMA EmptySound == ASSUME NEW b \in BOOLEAN PROVE SoundOutcome(Done(EmptyEmulator(b)))
BY DEF SoundOutcome, Sound, Done, EmptyEmulator, Emulator, NoPerms

LEMMA ApplySound ==
    ASSUME NEW e, Sound(e), NEW rule \in Rule
    PROVE  SoundOutcome(Apply(e, rule))
<1>1. CASE ~CanCgroup(rule.type)
  BY <1>1 DEF Apply, Failed, SoundOutcome
<1>2. CASE CanCgroup(rule.type) /\ rule.type = WildcardDevice
  <2>1. rule.allow \in BOOLEAN
    BY DEF Rule
  <2> QED  BY <1>2, <2>1, EmptySound DEF Apply
<1>3. CASE CanCgroup(rule.type) /\ rule.type # WildcardDevice
  <2> DEFINE meta == MetaOf(rule)
  <2>1. meta \in deviceMeta
    BY <1>3 DEF Rule, CanCgroup, MetaOf, deviceMeta, WildcardDevice, FifoDevice, BlockDevice, CharDevice
  <2>2. rule.perms \in SUBSET Perms
    BY DEF Rule
  <2> HIDE DEF meta
  <2>3. SoundOutcome(addRule(e, meta, rule.perms))
    BY <2>1, <2>2 DEF addRule, Done, Emulator, Sound, SoundOutcome
  <2>4. SoundOutcome(rmRule(e, meta, rule.perms))
    <3> DEFINE newPerms == e.perms[meta] \ rule.perms
               after == [defaultAllow |-> e.defaultAllow, made |-> e.made,
                         keys |-> IF newPerms = {} THEN e.keys \ {meta} ELSE e.keys,
                         perms |-> [e.perms EXCEPT ![meta] = newPerms]]
    <3>1. newPerms \in SUBSET Perms
      BY <2>1 DEF Sound, Emulator
    <3>2. newPerms # {} => meta \in e.keys
      BY <2>1 DEF Sound
    <3> HIDE DEF newPerms
    <3>3. after \in Emulator
      BY <2>1, <3>1 DEF Sound, Emulator
    <3>4. \A m \in deviceMeta : after.perms[m] # {} => m \in after.keys
      BY <2>1, <3>2 DEF Sound, Emulator
    <3>5. rmRule(e, meta, rule.perms) \in {Failed(e), Done(after)}
      BY DEF rmRule, newPerms
    <3> HIDE DEF after
    <3>6. SoundOutcome(Failed(e))
      BY DEF Failed, SoundOutcome
    <3>7. SoundOutcome(Done(after))
      BY <3>3, <3>4 DEF Done, Sound, SoundOutcome
    <3> QED  BY <3>5, <3>6, <3>7
  <2>5. Apply(e, rule) \in {addRule(e, meta, rule.perms), rmRule(e, meta, rule.perms)}
    BY <1>3 DEF Apply, Except, meta
  <2> QED  BY <2>3, <2>4, <2>5
<1> QED  BY <1>1, <1>2, <1>3

LEMMA EmulateSound ==
    ASSUME NEW rules \in Seq(Rule)
    PROVE  Sound(Emulate(rules).emu)
<1> DEFINE n == Len(rules)
<1>1. n \in Nat /\ \A i \in 1..n : rules[i] \in Rule
  BY LenProperties, ElementOfSeq
<1>2. PICK g : IsTrace(g, rules, n) /\ Emulate(rules) = g[n]
  BY EmulateIsTrace
<1> HIDE DEF n
<1> DEFINE S == {i \in Nat : i <= n => SoundOutcome(g[i])}
<1>3. 0 \in S
  <2>1. g[0] = Done(EmptyEmulator(FALSE))
    BY <1>1, <1>2 DEF IsTrace
  <2> QED  BY <2>1, EmptySound
<1>4. ASSUME NEW i \in Nat, i \in S PROVE i + 1 \in S
  <2>1. SUFFICES ASSUME i + 1 <= n PROVE SoundOutcome(g[i + 1])
    OBVIOUS
  <2>2. SoundOutcome(g[i]) /\ rules[i + 1] \in Rule
    BY <1>1, <1>4, <2>1
  <2>3. g[i + 1] = EmuStep(g[i], rules[i + 1])
    <3>1. i + 1 \in 0..n /\ i + 1 # 0 /\ (i + 1) - 1 = i  BY <1>1, <2>1
    <3> QED  BY <1>2, <3>1 DEF IsTrace
  <2>4. CASE g[i].err
    BY <2>2, <2>3, <2>4 DEF EmuStep
  <2>5. CASE ~g[i].err
    BY <2>2, <2>3, <2>5, ApplySound DEF EmuStep, SoundOutcome
  <2> QED  BY <2>4, <2>5
<1> HIDE DEF S
<1>5. Nat \subseteq S
  BY <1>3, <1>4, NatSetInduction
<1>6. SoundOutcome(g[n])
  BY <1>1, <1>5 DEF S
<1> QED  BY <1>2, <1>6 DEF SoundOutcome

(* One exception at a time, the block compiled for it decides as it does.  *)
LEMMA BlockMatches ==
    ASSUME NEW m \in deviceMeta, NEW acc \in AllAccesses, NEW perms \in SUBSET Perms
    PROVE  appendRule(m, perms, acc) <=> Matches(m, acc.d) /\ acc.a \subseteq perms
<1>1. m.major \in Majors \cup {Wildcard} /\ m.minor \in Minors \cup {Wildcard}
  BY DEF deviceMeta
<1>2. acc.a \subseteq Perms /\ acc.d.major \in Majors /\ acc.d.minor \in Minors
  BY DEF AllAccesses, Device
<1>3. \A n \in Nat \cup {Wildcard} : n >= 0 <=> n # Wildcard
  BY DEF Wildcard
<1>4. m.major \in Nat \cup {Wildcard} /\ m.minor \in Nat \cup {Wildcard}
  BY <1>1, DeviceConstants
<1> QED  BY <1>1, <1>2, <1>3, <1>4 DEF appendRule, Matches

LEMMA FilterIsV1 ==
    ASSUME NEW emu, Sound(emu), NEW acc \in AllAccesses, emu.defaultAllow => Cardinality(acc.a) = 1
    PROVE  acc \in Filter(emu) <=> V1Allows(emu, acc)
<1> DEFINE Decides(m) == Matches(m, acc.d) /\ acc.a \subseteq emu.perms[m]
<1>1. emu.keys \subseteq deviceMeta /\ emu.defaultAllow \in BOOLEAN /\ \A m \in deviceMeta : emu.perms[m] \in SUBSET Perms
  BY DEF Sound, Emulator
<1>2. acc.a # {} /\ acc.a \subseteq Perms
  BY DEF AllAccesses
<1>3. (\E m \in emu.keys : appendRule(m, emu.perms[m], acc)) <=> \E m \in deviceMeta : Decides(m)
  <2>1. \A m \in emu.keys : appendRule(m, emu.perms[m], acc) <=> Decides(m)
    BY <1>1, BlockMatches
  <2>2. \A m \in deviceMeta : Decides(m) => m \in emu.keys
    BY <1>2 DEF Sound
  <2> QED  BY <1>1, <2>1, <2>2
<1>4. acc \in Filter(emu) <=> IF \E m \in deviceMeta : Decides(m) THEN ~emu.defaultAllow ELSE emu.defaultAllow
  BY <1>3 DEF Filter
<1>5. CASE ~emu.defaultAllow
  BY <1>1, <1>4, <1>5 DEF V1Allows
<1>6. CASE emu.defaultAllow
  <2>1. PICK x : acc.a = {x}
    <3>1. IsFiniteSet({"r"}) /\ IsFiniteSet({"r"} \cup {"w"}) /\ IsFiniteSet(({"r"} \cup {"w"}) \cup {"m"})
      BY FS_Singleton, FS_AddElement
    <3>2. acc.a \subseteq ({"r"} \cup {"w"}) \cup {"m"}
      BY <1>2, DeviceConstants
    <3>3. IsFiniteSet(acc.a)
      BY <3>1, <3>2, FS_Subset
    <3> QED  BY <1>6, <3>3, FS_Singleton
  <2>2. \A m \in deviceMeta : acc.a \subseteq emu.perms[m] <=> emu.perms[m] \cap acc.a # {}
    BY <2>1
  <2> QED  BY <1>1, <1>4, <1>6, <2>2 DEF V1Allows
<1> QED  BY <1>1, <1>5, <1>6

-----------------------------------------------------------------------------
(* What fs2's Set does for a request.                                      *)

(* The unified settings are a map.                                         *)
Fit(r) == IsFiniteSet(r.unified) /\ \A u, w \in r.unified : u.f = w.f => u = w

AskedFirst(r) ==
    LET swap == ConvertMemorySwapToCgroupV2Value(r.swap, r.memory)
    IN  Prop(r.pids # 0, "pids.max", Unlimited(r.pids))
        \cup Prop(swap # 0 \/ r.swap > 0, "memory.swap.max", Unlimited(swap))
        \cup Prop(r.memory # 0, "memory.max", Unlimited(r.memory)) \cup Prop(r.low # 0, "memory.low", Unlimited(r.low))
        \cup Prop(r.cpuWeight # 0, "cpu.weight", Unlimited(r.cpuWeight))
        \cup Prop(r.quota # 0 \/ r.period # 0, "cpu.max",
                  <<IF r.quota > 0 THEN r.quota ELSE Infinity, IF r.period = 0 THEN defCPUQuotaPeriod ELSE r.period>>)
        \cup Prop(r.cpus # {}, "cpuset.cpus", RangeToBits(r.cpus)) \cup Prop(r.mems # {}, "cpuset.mems", RangeToBits(r.mems))

(* What a request leaves in the files when it is carried out.              *)
AskedLast(r) == {[f |-> u.f, v |-> u.v] : u \in r.unified}
Asked(r) == Then(AskedFirst(r), AskedLast(r))

(* Steps that are about some files, F, and give some of them the values E  *)
(* unless there is an error among them.                                    *)
Block(s, F, E) ==
    /\ s \in Seq(Steps)
    /\ F \subseteq Files /\ NamesIn(s) \subseteq F \cup {NoFile} /\ Names(E) \subseteq F
    /\ \A i \in DOMAIN s : s[i].k \in {"write", "rsvd", "devices", "error"}
    /\ Has(s, "error") \/ \A e \in E : LastWrite(s, e.f, e.v)

LEMMA OneStep ==
    ASSUME NEW k \in Kinds, NEW f \in Files \cup {NoFile}, NEW v \in Values
    PROVE  LET s == <<Step(k, f, v)>>
           IN  /\ s \in Seq(Steps) /\ NamesIn(s) = {f} /\ DOMAIN s = {1}
               /\ s[1].k = k /\ s[1].f = f /\ s[1].v = v
               /\ Has(s, k)
               /\ k = "write" => LastWrite(s, f, v)
<1> DEFINE x == Step(k, f, v)
           s == <<x>>
<1>1. x \in Steps /\ x.k = k /\ x.f = f /\ x.v = v
  BY DEF Step, Steps
<1> HIDE DEF x
<1>2. s \in Seq(Steps) /\ Len(s) = 1 /\ s[1] = x
  BY <1>1
<1> HIDE DEF s
<1>3. DOMAIN s = {1}
  <2>1. DOMAIN s = 1..1  BY <1>2, LenProperties
  <2> QED  BY <2>1
<1>4. NamesIn(s) = {f} /\ Has(s, k)
  BY <1>1, <1>2, <1>3 DEF NamesIn, Has
<1>5. k = "write" => LastWrite(s, f, v)
  <2>1. \A j \in DOMAIN s : ~(j > 1)  BY <1>3
  <2> QED  BY <1>1, <1>2, <1>3, <2>1 DEF LastWrite
<1> QED  BY <1>1, <1>2, <1>3, <1>4, <1>5 DEF s, x

LEMMA NoStep == Block(<<>>, {}, {}) /\ <<>> \in Seq(Steps) /\ NamesIn(<<>>) = {}
<1>1. <<>> \in Seq(Steps) /\ DOMAIN (<<>>) = {}
  OBVIOUS
<1> QED  BY <1>1 DEF Block, NamesIn, Names

LEMMA WriteBlock ==
    ASSUME NEW cond, NEW f \in Files, NEW v \in Values
    PROVE  Block(Write(cond, f, v), {f}, Prop(cond, f, v))
<1>1. CASE cond
  <2> DEFINE s == <<Step("write", f, v)>>
  <2>1. /\ s \in Seq(Steps) /\ NamesIn(s) = {f} /\ DOMAIN s = {1} /\ s[1].k = "write" /\ LastWrite(s, f, v)
    <3>1. "write" \in Kinds /\ f \in Files \cup {NoFile}  BY DEF Kinds
    <3> QED  BY <3>1, OneStep
  <2>2. Write(cond, f, v) = s /\ Prop(cond, f, v) = {[f |-> f, v |-> v]}
    BY <1>1 DEF Write, Prop
  <2> HIDE DEF s
  <2>3. \A e \in Prop(cond, f, v) : e.f = f /\ e.v = v
    BY <2>2
  <2>4. \A i \in DOMAIN s : s[i].k = "write"
    BY <2>1
  <2>5. Names(Prop(cond, f, v)) \subseteq {f}
    BY <2>3 DEF Names
  <2> QED  BY <2>1, <2>2, <2>3, <2>4, <2>5 DEF Block
<1>2. CASE ~cond
  <2>1. Write(cond, f, v) = <<>> /\ Prop(cond, f, v) = {}
    BY <1>2 DEF Write, Prop
  <2> QED  BY <2>1, NoStep DEF Block
<1> QED  BY <1>1, <1>2

LEMMA UnlimitedTyped == ASSUME NEW v \in Int PROVE Unlimited(v) \in Int
BY DEF Unlimited, Infinity

LEMMA NumberBlock ==
    ASSUME NEW f \in Files, NEW v \in Int
    PROVE  Block(Number(f, v), {f}, Prop(v # 0, f, Unlimited(v)))
<1>1. Unlimited(v) \in Values
  BY UnlimitedTyped DEF Values
<1> QED  BY <1>1, WriteBlock DEF Number

(* Blocks about different files do not disturb each other.                 *)
LEMMA ConcatBlock ==
    ASSUME NEW s, NEW F, NEW E, Block(s, F, E), NEW t, NEW G, NEW D, Block(t, G, D), F \cap G = {}
    PROVE  /\ Block(s \o t, F \cup G, E \cup D)
           /\ \A k : Has(s, k) \/ Has(t, k) => Has(s \o t, k)
<1> DEFINE u == s \o t
<1>1. s \in Seq(Steps) /\ t \in Seq(Steps) /\ NoFile \notin F /\ NoFile \notin G
  BY UnifiedAssumption DEF Block
<1>2. /\ u \in Seq(Steps)
      /\ \A i \in DOMAIN u : (i \in DOMAIN s /\ u[i] = s[i]) \/ (i - Len(s) \in DOMAIN t /\ u[i] = t[i - Len(s)])
  BY <1>1, ConcatFacts
<1>3. /\ \A k : Has(u, k) <=> Has(s, k) \/ Has(t, k)
      /\ NamesIn(u) = NamesIn(s) \cup NamesIn(t)
  BY <1>1, ConcatHas
<1>4. /\ \A f, v : LastWrite(t, f, v) => LastWrite(u, f, v)
      /\ \A f, v : LastWrite(s, f, v) /\ f \notin NamesIn(t) => LastWrite(u, f, v)
  BY <1>1, ConcatLast
<1> HIDE DEF u
<1>5. \A i \in DOMAIN u : u[i].k \in {"write", "rsvd", "devices", "error"}
  BY <1>2 DEF Block
<1>6. NamesIn(u) \subseteq (F \cup G) \cup {NoFile} /\ Names(E \cup D) \subseteq F \cup G /\ F \cup G \subseteq Files
  BY <1>3 DEF Block, Names
<1>7. Has(u, "error") \/ \A e \in E \cup D : LastWrite(u, e.f, e.v)
  <2>1. SUFFICES ASSUME ~Has(u, "error"), NEW e \in E \cup D PROVE LastWrite(u, e.f, e.v)
    OBVIOUS
  <2>2. ~Has(s, "error") /\ ~Has(t, "error")
    BY <1>3, <2>1
  <2>3. CASE e \in D
    BY <1>4, <2>2, <2>3 DEF Block
  <2>4. CASE e \in E
    <3>1. e.f \in F /\ LastWrite(s, e.f, e.v)
      BY <2>2, <2>4 DEF Block, Names
    <3>2. e.f \notin NamesIn(t)
      BY <1>1, <3>1 DEF Block
    <3> QED  BY <1>4, <3>1, <3>2
  <2> QED  BY <2>3, <2>4
<1> QED  BY <1>2, <1>3, <1>5, <1>6, <1>7 DEF Block, u

LEMMA ResourceFacts ==
    ASSUME NEW r \in Resources
    PROVE  /\ r.pids \in Int /\ r.pids >= -1 /\ r.memory \in Int /\ r.swap \in Int /\ r.low \in Int
           /\ r.weight \in Nat /\ r.weightDevice \in Nat /\ r.rbps \in Nat /\ r.wbps \in Nat /\ r.riops \in Nat
           /\ r.wiops \in Nat /\ r.cpuWeight \in Nat /\ r.quota \in Int /\ r.period \in Nat /\ r.rdma \in Nat
           /\ r.rules \in Seq(Rule) /\ r.hugetlb \in Seq([size : {"2MB", "1GB"}, limit : Nat])
           /\ r.freezer \in {Undefined, "FROZEN", "THAWED"} /\ r.unified \subseteq Settings
<1>1. \A n \in Limit : n \in Int /\ n >= -1
  BY DEF Limit
<1> QED  BY <1>1 DEF Resources

LEMMA FileFacts ==
    /\ KnownFiles \subseteq Files /\ NoFile \notin Files
    /\ \A f \in KnownFiles : f # NoFile
BY UnifiedAssumption

(* The lemmas on the settings one by one.                                  *)
LEMMA PidsBlock ==
    ASSUME NEW r \in Resources
    PROVE  Block(setPids(r), {"pids.max"}, Prop(r.pids # 0, "pids.max", Unlimited(r.pids)))
<1>1. "pids.max" \in Files /\ r.pids \in Int
  BY FileFacts, ResourceFacts DEF KnownFiles
<1> QED  BY <1>1, NumberBlock DEF setPids

LEMMA SwapTyped ==
    ASSUME NEW swap \in Int, NEW mem \in Int
    PROVE  ConvertMemorySwapToCgroupV2Value(swap, mem) \in Int
BY DEF ConvertMemorySwapToCgroupV2Value

LEMMA ErrorBlock ==
    ASSUME NEW F \in SUBSET Files, NEW E, Names(E) \subseteq F
    PROVE  Block(<<Bare("error")>>, F, E) /\ Has(<<Bare("error")>>, "error")
<1> DEFINE s == <<Step("error", NoFile, 0)>>
<1>1. "error" \in Kinds /\ NoFile \in Files \cup {NoFile} /\ 0 \in Values
  BY DEF Kinds, Values
<1>2. s \in Seq(Steps) /\ NamesIn(s) = {NoFile} /\ DOMAIN s = {1} /\ s[1].k = "error" /\ Has(s, "error")
  BY <1>1, OneStep
<1>3. s = <<Bare("error")>>
  BY DEF Bare
<1> HIDE DEF s
<1>4. Block(s, F, E)
  BY <1>2 DEF Block
<1> QED  BY <1>2, <1>3, <1>4

LEMMA MemoryBlock ==
    ASSUME NEW r \in Resources
    PROVE  LET swap == ConvertMemorySwapToCgroupV2Value(r.swap, r.memory)
           IN  /\ Block(setMemory(r), {"memory.swap.max"} \cup {"memory.max"} \cup {"memory.low"},
                        Prop(swap # 0 \/ r.swap > 0, "memory.swap.max", Unlimited(swap))
                        \cup Prop(r.memory # 0, "memory.max", Unlimited(r.memory))
                        \cup Prop(r.low # 0, "memory.low", Unlimited(r.low)))
               /\ SwapErr(r.swap, r.memory) => Has(setMemory(r), "error")
<1> DEFINE swap == ConvertMemorySwapToCgroupV2Value(r.swap, r.memory)
           F1 == {"memory.swap.max"}
           F2 == {"memory.max"}
           F3 == {"memory.low"}
           E1 == Prop(swap # 0 \/ r.swap > 0, "memory.swap.max", Unlimited(swap))
           E2 == Prop(r.memory # 0, "memory.max", Unlimited(r.memory))
           E3 == Prop(r.low # 0, "memory.low", Unlimited(r.low))
           s1 == Write(swap # 0 \/ r.swap > 0, "memory.swap.max", Unlimited(swap))
           s2 == Number("memory.max", r.memory)
           s3 == Number("memory.low", r.low)
<1>1. r.memory \in Int /\ r.swap \in Int /\ r.low \in Int
  BY ResourceFacts
<1>2. F1 \subseteq Files /\ F2 \subseteq Files /\ F3 \subseteq Files
  BY FileFacts DEF KnownFiles
<1>3. Unlimited(swap) \in Values
  BY <1>1, SwapTyped, UnlimitedTyped DEF Values
<1>4. Block(s1, F1, E1)
  BY <1>2, <1>3, WriteBlock
<1>5. Block(s2, F2, E2)
  BY <1>1, <1>2, NumberBlock
<1>6. Block(s3, F3, E3)
  BY <1>1, <1>2, NumberBlock
<1>7. F1 \cap F2 = {} /\ (F1 \cup F2) \cap F3 = {}
  OBVIOUS
<1>8. setMemory(r) = IF SwapErr(r.swap, r.memory) THEN <<Bare("error")>> ELSE s1 \o s2 \o s3
  BY DEF setMemory
<1> HIDE DEF s1, s2, s3, E1, E2, E3, F1, F2, F3
<1>9. Block(s1 \o s2, F1 \cup F2, E1 \cup E2)
  BY <1>4, <1>5, <1>7, ConcatBlock
<1>10. Block(s1 \o s2 \o s3, F1 \cup F2 \cup F3, E1 \cup E2 \cup E3)
  BY <1>6, <1>7, <1>9, ConcatBlock
<1>11. F1 \cup F2 \cup F3 \in SUBSET Files /\ Names(E1 \cup E2 \cup E3) \subseteq F1 \cup F2 \cup F3
  BY <1>10 DEF Block
<1>12. SwapErr(r.swap, r.memory) => Has(setMemory(r), "error") /\ Block(setMemory(r), F1 \cup F2 \cup F3, E1 \cup E2 \cup E3)
  BY <1>8, <1>11, ErrorBlock
<1>13. Block(setMemory(r), F1 \cup F2 \cup F3, E1 \cup E2 \cup E3)
  BY <1>8, <1>10, <1>12
<1> QED  BY <1>12, <1>13 DEF E1, E2, E3, F1, F2, F3

(* What a block is not asked to promise, it need not.                      *)
LEMMA Weaken ==
    ASSUME NEW s, NEW F, NEW E, Block(s, F, E), NEW D \in SUBSET E
    PROVE  Block(s, F, D)
BY DEF Block, Names

LEMMA IoBlock ==
    ASSUME NEW r \in Resources
    PROVE  Block(setIo(r), {"io.bfq.weight"} \cup {"io.weight"} \cup {"io.bfq.device"} \cup {"rbps"} \cup {"wbps"}
                           \cup {"riops"} \cup {"wiops"}, {})
<1> DEFINE s1 == Write(r.weight # 0 /\ env.bfq # "none", "io.bfq.weight", r.weight)
           s2 == Write(r.weight # 0 /\ env.bfq = "none", "io.weight", ConvertBlkIOToIOWeightValue(r.weight))
           s3 == Write(r.weightDevice # 0 /\ env.bfq = "device", "io.bfq.device", r.weightDevice)
           s4 == Number("rbps", r.rbps)
           s5 == Number("wbps", r.wbps)
           s6 == Number("riops", r.riops)
           s7 == Number("wiops", r.wiops)
<1>1. /\ r.weight \in Values /\ ConvertBlkIOToIOWeightValue(r.weight) \in Values /\ r.weightDevice \in Values
      /\ r.rbps \in Int /\ r.wbps \in Int /\ r.riops \in Int /\ r.wiops \in Int
  BY ResourceFacts DEF Values, ConvertBlkIOToIOWeightValue
<1>2. {"io.bfq.weight", "io.weight", "io.bfq.device", "rbps", "wbps", "riops", "wiops"} \subseteq Files
  BY FileFacts DEF KnownFiles
<1>3. \A f \in Files, v \in Values : \A c : Block(Write(c, f, v), {f}, {})
  BY WriteBlock, Weaken
<1>4. \A f \in Files, v \in Int : Block(Number(f, v), {f}, {})
  BY NumberBlock, Weaken
<1>5. Block(s1, {"io.bfq.weight"}, {})
  BY <1>1, <1>2, <1>3
<1>6. Block(s2, {"io.weight"}, {})
  BY <1>1, <1>2, <1>3
<1>7. Block(s3, {"io.bfq.device"}, {})
  BY <1>1, <1>2, <1>3
<1>8. Block(s4, {"rbps"}, {}) /\ Block(s5, {"wbps"}, {}) /\ Block(s6, {"riops"}, {}) /\ Block(s7, {"wiops"}, {})
  BY <1>1, <1>2, <1>4
<1>9. setIo(r) = s1 \o s2 \o s3 \o s4 \o s5 \o s6 \o s7
  BY DEF setIo
<1>10. ASSUME NEW s, NEW F, Block(s, F, {}), NEW t, NEW G, Block(t, G, {}), F \cap G = {}
       PROVE  Block(s \o t, F \cup G, {})
  <2>1. Block(s \o t, F \cup G, {} \cup {})
    BY <1>10, ConcatBlock
  <2>2. {} \cup {} = {}
    OBVIOUS
  <2> QED  BY <2>1, <2>2
<1> HIDE DEF s1, s2, s3, s4, s5, s6, s7
<1>11. Block(s1 \o s2, {"io.bfq.weight"} \cup {"io.weight"}, {})
  BY <1>5, <1>6, <1>10
<1>12. Block(s1 \o s2 \o s3, {"io.bfq.weight"} \cup {"io.weight"} \cup {"io.bfq.device"}, {})
  BY <1>7, <1>10, <1>11
<1>13. Block(s1 \o s2 \o s3 \o s4, {"io.bfq.weight"} \cup {"io.weight"} \cup {"io.bfq.device"} \cup {"rbps"}, {})
  BY <1>8, <1>10, <1>12
<1>14. Block(s1 \o s2 \o s3 \o s4 \o s5,
             {"io.bfq.weight"} \cup {"io.weight"} \cup {"io.bfq.device"} \cup {"rbps"} \cup {"wbps"}, {})
  BY <1>8, <1>10, <1>13
<1>15. Block(s1 \o s2 \o s3 \o s4 \o s5 \o s6,
             {"io.bfq.weight"} \cup {"io.weight"} \cup {"io.bfq.device"} \cup {"rbps"} \cup {"wbps"} \cup {"riops"}, {})
  BY <1>8, <1>10, <1>14
<1>16. Block(s1 \o s2 \o s3 \o s4 \o s5 \o s6 \o s7,
             {"io.bfq.weight"} \cup {"io.weight"} \cup {"io.bfq.device"} \cup {"rbps"} \cup {"wbps"} \cup {"riops"}
             \cup {"wiops"}, {})
  BY <1>8, <1>10, <1>15
<1> QED  BY <1>9, <1>16

CpuMax(r) == <<IF r.quota > 0 THEN r.quota ELSE Infinity, IF r.period = 0 THEN defCPUQuotaPeriod ELSE r.period>>

LEMMA CpuBlock ==
    ASSUME NEW r \in Resources
    PROVE  Block(setCpu(r), {"cpu.weight"} \cup {"cpu.max"},
                 Prop(r.cpuWeight # 0, "cpu.weight", Unlimited(r.cpuWeight))
                 \cup Prop(r.quota # 0 \/ r.period # 0, "cpu.max", CpuMax(r)))
<1> DEFINE s1 == Number("cpu.weight", r.cpuWeight)
           s2 == Write(r.quota # 0 \/ r.period # 0, "cpu.max", CpuMax(r))
           E1 == Prop(r.cpuWeight # 0, "cpu.weight", Unlimited(r.cpuWeight))
           E2 == Prop(r.quota # 0 \/ r.period # 0, "cpu.max", CpuMax(r))
<1>1. r.cpuWeight \in Int /\ CpuMax(r) \in Values
  BY ResourceFacts DEF CpuMax, Values, Infinity, defCPUQuotaPeriod
<1>2. "cpu.weight" \in Files /\ "cpu.max" \in Files
  BY FileFacts DEF KnownFiles
<1>3. Block(s1, {"cpu.weight"}, E1)
  BY <1>1, <1>2, NumberBlock
<1>4. Block(s2, {"cpu.max"}, E2)
  BY <1>1, <1>2, WriteBlock
<1>5. setCpu(r) = s1 \o s2
  BY DEF setCpu, CpuMax
<1>6. {"cpu.weight"} \cap {"cpu.max"} = {}
  OBVIOUS
<1> HIDE DEF s1, s2, E1, E2
<1>7. Block(s1 \o s2, {"cpu.weight"} \cup {"cpu.max"}, E1 \cup E2)
  BY <1>3, <1>4, <1>6, ConcatBlock
<1> QED  BY <1>5, <1>7 DEF E1, E2

LEMMA BitsTyped == ASSUME NEW ranges PROVE RangeToBits(ranges) \in Int
BY DEF RangeToBits

LEMMA RangesBlock ==
    ASSUME NEW f \in Files, NEW ranges
    PROVE  Block(CpuRanges(f, ranges), {f}, Prop(ranges # {}, f, RangeToBits(ranges)))
<1> DEFINE E == Prop(ranges # {}, f, RangeToBits(ranges))
<1>1. RangeToBits(ranges) \in Values
  BY BitsTyped DEF Values
<1>2. Block(Write(ranges # {}, f, RangeToBits(ranges)), {f}, E)
  BY <1>1, WriteBlock
<1>3. {f} \in SUBSET Files /\ Names(E) \subseteq {f}
  BY <1>2 DEF Block
<1> HIDE DEF E
<1>4. Block(<<Bare("error")>>, {f}, E)
  BY <1>3, ErrorBlock
<1> QED  BY <1>2, <1>4 DEF CpuRanges, E

LEMMA CpusetBlock ==
    ASSUME NEW r \in Resources
    PROVE  Block(setCpuset(r), {"cpuset.cpus"} \cup {"cpuset.mems"},
                 Prop(r.cpus # {}, "cpuset.cpus", RangeToBits(r.cpus))
                 \cup Prop(r.mems # {}, "cpuset.mems", RangeToBits(r.mems)))
<1>1. "cpuset.cpus" \in Files /\ "cpuset.mems" \in Files /\ {"cpuset.cpus"} \cap {"cpuset.mems"} = {}
  BY FileFacts DEF KnownFiles
<1>2. Block(CpuRanges("cpuset.cpus", r.cpus), {"cpuset.cpus"}, Prop(r.cpus # {}, "cpuset.cpus", RangeToBits(r.cpus)))
  BY <1>1, RangesBlock
<1>3. Block(CpuRanges("cpuset.mems", r.mems), {"cpuset.mems"}, Prop(r.mems # {}, "cpuset.mems", RangeToBits(r.mems)))
  BY <1>1, RangesBlock
<1> QED  BY <1>1, <1>2, <1>3, ConcatBlock DEF setCpuset

LEMMA DevicesBlock == Block(<<Bare("devices")>>, {}, {}) /\ Has(<<Bare("devices")>>, "devices")
<1> DEFINE s == <<Step("devices", NoFile, 0)>>
<1>1. "devices" \in Kinds /\ NoFile \in Files \cup {NoFile} /\ 0 \in Values
  BY DEF Kinds, Values
<1>2. s \in Seq(Steps) /\ NamesIn(s) = {NoFile} /\ DOMAIN s = {1} /\ s[1].k = "devices" /\ Has(s, "devices")
  BY <1>1, OneStep
<1>3. s = <<Bare("devices")>>
  BY DEF Bare
<1> HIDE DEF s
<1>4. Block(s, {}, {})
  BY <1>2 DEF Block, Names
<1> QED  BY <1>2, <1>3, <1>4

HugeFiles == {"hugetlb.2MB.max", "hugetlb.1GB.max", "hugetlb.2MB.rsvd.max", "hugetlb.1GB.rsvd.max"}

LEMMA HugeBlock ==
    ASSUME NEW r \in Resources
    PROVE  Block(setHugeTlb(r), HugeFiles, {})
<1> DEFINE Page == [size : {"2MB", "1GB"}, limit : Nat]
           n == Len(r.hugetlb)
           x(i) == LET page == r.hugetlb[(i + 1) \div 2]
                   IN  IF i % 2 = 1 THEN Step("write", hugetlbMax[page.size], page.limit)
                       ELSE Step("rsvd", hugetlbRsvd[page.size], page.limit)
           s == [i \in 1..(2 * n) |-> x(i)]
<1>1. n \in Nat /\ \A i \in 1..n : r.hugetlb[i] \in Page
  <2>1. r.hugetlb \in Seq(Page)  BY ResourceFacts
  <2> HIDE DEF Page
  <2> QED  BY <2>1, LenProperties, ElementOfSeq
<1> HIDE DEF n
<1>2. HugeFiles \subseteq Files
  BY FileFacts DEF KnownFiles, HugeFiles
<1>3. ASSUME NEW i \in 1..(2 * n) PROVE x(i) \in Steps /\ x(i).f \in HugeFiles /\ x(i).k \in {"write", "rsvd"}
  <2> DEFINE page == r.hugetlb[(i + 1) \div 2]
  <2>1. (i + 1) \div 2 \in 1..n
    BY <1>1
  <2>2. page.size \in {"2MB", "1GB"} /\ page.limit \in Nat
    BY <1>1, <2>1
  <2> HIDE DEF page
  <2>3. hugetlbMax[page.size] \in HugeFiles /\ hugetlbRsvd[page.size] \in HugeFiles
    BY <2>2 DEF hugetlbMax, hugetlbRsvd, HugeFiles
  <2>4. x(i) = IF i % 2 = 1 THEN Step("write", hugetlbMax[page.size], page.limit)
               ELSE Step("rsvd", hugetlbRsvd[page.size], page.limit)
    BY DEF page
  <2> HIDE DEF x
  <2> QED  BY <1>2, <2>2, <2>3, <2>4 DEF Step, Steps, Kinds, Values
<1>4. setHugeTlb(r) = s
  BY DEF setHugeTlb, n
<1> HIDE DEF x
<1>5. 2 * n \in Nat
  BY <1>1
<1>6. s \in Seq(Steps)
  BY <1>3, <1>5
<1>7. DOMAIN s = 1..(2 * n) /\ \A i \in DOMAIN s : s[i] = x(i)
  OBVIOUS
<1> HIDE DEF s
<1> QED  BY <1>2, <1>3, <1>4, <1>6, <1>7 DEF Block, NamesIn, Names

LEMMA RdmaBlock ==
    ASSUME NEW r \in Resources
    PROVE  Block(RdmaSet(r), {"rdma.max"}, {})
<1>1. "rdma.max" \in Files /\ r.rdma \in Values
  BY FileFacts, ResourceFacts DEF KnownFiles, Values
<1>2. Block(RdmaSet(r), {"rdma.max"}, Prop(r.rdma # 0, "rdma.max", r.rdma))
  BY <1>1, WriteBlock DEF RdmaSet
<1> QED  BY <1>2, Weaken

(* All that comes before the freezer and the unified settings.             *)
First(r) ==
    setPids(r) \o setMemory(r) \o setIo(r) \o setCpu(r) \o <<Bare("devices")>> \o setCpuset(r) \o setHugeTlb(r) \o RdmaSet(r)

LEMMA FirstBlock ==
    ASSUME NEW r \in Resources
    PROVE  /\ Block(First(r), KnownFiles \ {"cgroup.freeze"}, AskedFirst(r))
           /\ Has(First(r), "devices")
           /\ SwapErr(r.swap, r.memory) => Has(First(r), "error")
<1> DEFINE swap == ConvertMemorySwapToCgroupV2Value(r.swap, r.memory)
           F1 == {"pids.max"}
           F2 == {"memory.swap.max"} \cup {"memory.max"} \cup {"memory.low"}
           F3 == {"io.bfq.weight"} \cup {"io.weight"} \cup {"io.bfq.device"} \cup {"rbps"} \cup {"wbps"}
                 \cup {"riops"} \cup {"wiops"}
           F4 == {"cpu.weight"} \cup {"cpu.max"}
           F6 == {"cpuset.cpus"} \cup {"cpuset.mems"}
           F7 == HugeFiles
           F8 == {"rdma.max"}
           E1 == Prop(r.pids # 0, "pids.max", Unlimited(r.pids))
           E2 == Prop(swap # 0 \/ r.swap > 0, "memory.swap.max", Unlimited(swap))
                 \cup Prop(r.memory # 0, "memory.max", Unlimited(r.memory))
                 \cup Prop(r.low # 0, "memory.low", Unlimited(r.low))
           E4 == Prop(r.cpuWeight # 0, "cpu.weight", Unlimited(r.cpuWeight))
                 \cup Prop(r.quota # 0 \/ r.period # 0, "cpu.max", CpuMax(r))
           E6 == Prop(r.cpus # {}, "cpuset.cpus", RangeToBits(r.cpus))
                 \cup Prop(r.mems # {}, "cpuset.mems", RangeToBits(r.mems))
           s1 == setPids(r)
           s2 == setMemory(r)
           s3 == setIo(r)
           s4 == setCpu(r)
           s5 == <<Bare("devices")>>
           s6 == setCpuset(r)
           s7 == setHugeTlb(r)
           s8 == RdmaSet(r)
<1>1. Block(s1, F1, E1)  BY PidsBlock
<1>2. Block(s2, F2, E2) /\ (SwapErr(r.swap, r.memory) => Has(s2, "error"))  BY MemoryBlock
<1>3. Block(s3, F3, {})  BY IoBlock
<1>4. Block(s4, F4, E4)  BY CpuBlock
<1>5. Block(s5, {}, {}) /\ Has(s5, "devices")  BY DevicesBlock
<1>6. Block(s6, F6, E6)  BY CpusetBlock
<1>7. Block(s7, F7, {})  BY HugeBlock
<1>8. Block(s8, F8, {})  BY RdmaBlock
<1>9. /\ F1 \cap F2 = {} /\ (F1 \cup F2) \cap F3 = {} /\ (F1 \cup F2 \cup F3) \cap F4 = {}
      /\ (F1 \cup F2 \cup F3 \cup F4) \cap {} = {}
  OBVIOUS
<1>10. (F1 \cup F2 \cup F3 \cup F4 \cup {}) \cap F6 = {}
  OBVIOUS
<1>11. (F1 \cup F2 \cup F3 \cup F4 \cup {} \cup F6) \cap F7 = {}
  BY DEF HugeFiles
<1>12. (F1 \cup F2 \cup F3 \cup F4 \cup {} \cup F6 \cup F7) \cap F8 = {}
  BY DEF HugeFiles
<1>13. F1 \cup F2 \cup F3 \cup F4 \cup {} \cup F6 \cup F7 \cup F8 \subseteq KnownFiles \ {"cgroup.freeze"}
  BY DEF HugeFiles, KnownFiles
<1>14. First(r) = s1 \o s2 \o s3 \o s4 \o s5 \o s6 \o s7 \o s8
  BY DEF First
<1>15. AskedFirst(r) \subseteq E1 \cup E2 \cup {} \cup E4 \cup {} \cup E6 \cup {} \cup {}
  BY DEF AskedFirst, CpuMax
<1> HIDE DEF s1, s2, s3, s4, s5, s6, s7, s8, E1, E2, E4, E6, F1, F2, F3, F4, F6, F7, F8
<1>16. Block(s1 \o s2, F1 \cup F2, E1 \cup E2) /\ (Has(s2, "error") => Has(s1 \o s2, "error"))
  BY <1>1, <1>2, <1>9, ConcatBlock
<1>17. /\ Block(s1 \o s2 \o s3, F1 \cup F2 \cup F3, E1 \cup E2 \cup {})
       /\ Has(s1 \o s2, "error") => Has(s1 \o s2 \o s3, "error")
  BY <1>3, <1>9, <1>16, ConcatBlock
<1>18. /\ Block(s1 \o s2 \o s3 \o s4, F1 \cup F2 \cup F3 \cup F4, E1 \cup E2 \cup {} \cup E4)
       /\ Has(s1 \o s2 \o s3, "error") => Has(s1 \o s2 \o s3 \o s4, "error")
  BY <1>4, <1>9, <1>17, ConcatBlock
<1> DEFINE t4 == s1 \o s2 \o s3 \o s4
           G4 == F1 \cup F2 \cup F3 \cup F4
           D4 == E1 \cup E2 \cup {} \cup E4
<1>19. Block(t4, G4, D4) /\ (SwapErr(r.swap, r.memory) => Has(t4, "error")) /\ G4 \cap {} = {}
  BY <1>2, <1>16, <1>17, <1>18, <1>9
<1>20. (G4 \cup {}) \cap F6 = {} /\ (G4 \cup {} \cup F6) \cap F7 = {} /\ (G4 \cup {} \cup F6 \cup F7) \cap F8 = {}
  BY <1>10, <1>11, <1>12
<1>21. /\ First(r) = t4 \o s5 \o s6 \o s7 \o s8
       /\ AskedFirst(r) \subseteq D4 \cup {} \cup E6 \cup {} \cup {}
       /\ G4 \cup {} \cup F6 \cup F7 \cup F8 \subseteq KnownFiles \ {"cgroup.freeze"}
  BY <1>13, <1>14, <1>15
<1> HIDE DEF t4, G4, D4
<1>22. Block(t4 \o s5, G4 \cup {}, D4 \cup {}) /\ \A k : Has(t4, k) \/ Has(s5, k) => Has(t4 \o s5, k)
  BY <1>5, <1>19, ConcatBlock
<1>23. Block(t4 \o s5 \o s6, G4 \cup {} \cup F6, D4 \cup {} \cup E6) /\ \A k : Has(t4 \o s5, k) => Has(t4 \o s5 \o s6, k)
  BY <1>6, <1>20, <1>22, ConcatBlock
<1>24. /\ Block(t4 \o s5 \o s6 \o s7, G4 \cup {} \cup F6 \cup F7, D4 \cup {} \cup E6 \cup {})
       /\ \A k : Has(t4 \o s5 \o s6, k) => Has(t4 \o s5 \o s6 \o s7, k)
  BY <1>7, <1>20, <1>23, ConcatBlock
<1>25. /\ Block(t4 \o s5 \o s6 \o s7 \o s8, G4 \cup {} \cup F6 \cup F7 \cup F8, D4 \cup {} \cup E6 \cup {} \cup {})
       /\ \A k : Has(t4 \o s5 \o s6 \o s7, k) => Has(t4 \o s5 \o s6 \o s7 \o s8, k)
  BY <1>8, <1>20, <1>24, ConcatBlock
<1>26. Has(First(r), "devices") /\ (SwapErr(r.swap, r.memory) => Has(First(r), "error"))
  BY <1>5, <1>19, <1>21, <1>22, <1>23, <1>24, <1>25
<1>27. Block(First(r), G4 \cup {} \cup F6 \cup F7 \cup F8, AskedFirst(r))
  BY <1>21, <1>25, Weaken
<1>28. Block(First(r), KnownFiles \ {"cgroup.freeze"}, AskedFirst(r))
  <2>1. KnownFiles \ {"cgroup.freeze"} \subseteq Files
    BY FileFacts
  <2> QED  BY <1>21, <1>27, <2>1 DEF Block
<1> QED  BY <1>26, <1>28

(* The unified settings, in any order.                                     *)
LEMMA UnifiedSteps ==
    ASSUME NEW r \in Resources, Fit(r), NEW order \in Bijection(1..Cardinality(r.unified), r.unified)
    PROVE  LET s == setUnified(order)
           IN  /\ s \in Seq(Steps) /\ NamesIn(s) \subseteq Unified(r) \cup {NoFile}
               /\ \A i \in DOMAIN s : s[i].k \in {"write", "error"}
               /\ Has(s, "error") \/ \A u \in r.unified : LastWrite(s, u.f, u.v)
<1> DEFINE n == Cardinality(r.unified)
           s == [i \in 1..n |-> IF order[i].slash THEN Bare("error") ELSE Step("write", order[i].f, order[i].v)]
<1>1. n \in Nat
  BY FS_CardinalityType DEF Fit
<1> HIDE DEF n
<1>2. /\ order \in [1..n -> r.unified]
      /\ \A i, j \in 1..n : i # j => order[i] # order[j]
      /\ \A u \in r.unified : \E i \in 1..n : order[i] = u
  BY DEF Bijection, Injection, Surjection, IsInjective, n
<1>3. \A u \in r.unified : u.f \in Files /\ u.v \in Values
  BY ResourceFacts, FileFacts DEF Settings, Values, KnownFiles
<1>4. DOMAIN order = 1..n /\ setUnified(order) = s
  BY <1>2 DEF setUnified
<1>5. ASSUME NEW i \in 1..n
      PROVE  s[i] \in Steps /\ s[i].k \in {"write", "error"} /\ s[i].f \in {order[i].f, NoFile} /\ order[i] \in r.unified
             /\ (s[i].k # "error" => s[i].k = "write" /\ s[i].f = order[i].f /\ s[i].v = order[i].v)
  <2>1. order[i] \in r.unified
    BY <1>2
  <2>2. s[i] = IF order[i].slash THEN Bare("error") ELSE Step("write", order[i].f, order[i].v)
    OBVIOUS
  <2> HIDE DEF s
  <2> QED  BY <1>3, <2>1, <2>2 DEF Bare, Step, Steps, Kinds, Values
<1>6. s \in Seq(Steps) /\ DOMAIN s = 1..n
  BY <1>1, <1>5
<1> HIDE DEF s
<1>7. NamesIn(s) \subseteq Unified(r) \cup {NoFile} /\ \A i \in DOMAIN s : s[i].k \in {"write", "error"}
  BY <1>5, <1>6 DEF NamesIn, Unified
<1>8. ASSUME ~Has(s, "error"), NEW u \in r.unified PROVE LastWrite(s, u.f, u.v)
  <2>1. PICK i \in 1..n : order[i] = u
    BY <1>2
  <2>2. \A j \in 1..n : s[j].k = "write" /\ s[j].f = order[j].f /\ s[j].v = order[j].v
    BY <1>5, <1>6, <1>8 DEF Has
  <2>3. ASSUME NEW j \in 1..n, j > i PROVE s[j].f # u.f
    <3>1. j # i
      BY <2>3
    <3>2. order[j] # u /\ order[j] \in r.unified
      BY <1>2, <2>1, <3>1
    <3> QED  BY <2>2, <3>2 DEF Fit
  <2> QED  BY <1>6, <2>1, <2>2, <2>3 DEF LastWrite
<1> QED  BY <1>4, <1>6, <1>7, <1>8

LEMMA FreezerSteps ==
    ASSUME NEW state \in {Undefined, "FROZEN", "THAWED"}
    PROVE  LET s == setFreezer(state)
           IN  /\ s \in Seq(Steps) /\ NamesIn(s) \subseteq {"cgroup.freeze"}
               /\ \A i \in DOMAIN s : s[i].k = "freeze" /\ s[i].f = "cgroup.freeze" /\ (state = "FROZEN" => s[i].v = 1)
               /\ state = "FROZEN" => Has(s, "freeze")
<1> DEFINE v == IF state = "FROZEN" THEN 1 ELSE 0
           s == <<Step("freeze", "cgroup.freeze", v)>>
<1>1. "freeze" \in Kinds /\ "cgroup.freeze" \in Files \cup {NoFile} /\ v \in Values
  BY FileFacts DEF Kinds, Values, KnownFiles
<1>2. state = "FROZEN" => v = 1 /\ state # Undefined
  BY DEF Undefined
<1>3. setFreezer(state) = IF state = Undefined THEN <<>> ELSE s
  BY DEF setFreezer
<1> HIDE DEF v
<1>4. /\ s \in Seq(Steps) /\ NamesIn(s) = {"cgroup.freeze"} /\ DOMAIN s = {1} /\ Has(s, "freeze")
      /\ s[1].k = "freeze" /\ s[1].f = "cgroup.freeze" /\ s[1].v = v
  BY <1>1, OneStep
<1> HIDE DEF s
<1>5. <<>> \in Seq(Steps) /\ NamesIn(<<>>) = {} /\ DOMAIN <<>> = {}
  BY NoStep
<1>6. CASE state = Undefined
  BY <1>2, <1>3, <1>5, <1>6
<1>7. CASE state # Undefined
  BY <1>2, <1>3, <1>4, <1>7
<1> QED  BY <1>6, <1>7

(* The steps of a request: they leave what it asks for, and the freeze is  *)
(* the last word on cgroup.freeze unless the unified settings have it.     *)
LEMMA StepsOfSet ==
    ASSUME NEW r \in Resources, Fit(r), NEW order \in Bijection(1..Cardinality(r.unified), r.unified)
    PROVE  LET s == SetSteps(r, order)
           IN  /\ s \in Seq(Steps)
               /\ Has(s, "devices")
               /\ \A i \in DOMAIN s : s[i].k # "check" /\ (s[i].k = "freeze" => s[i].f = "cgroup.freeze")
               /\ Has(s, "error") \/ (~SwapErr(r.swap, r.memory) /\ \A e \in Asked(r) : LastWrite(s, e.f, e.v))
               /\ r.freezer = "FROZEN" => Has(s, "freeze")
               /\ AsksToFreeze(r) /\ r.set => \A i \in DOMAIN s : s[i].f = "cgroup.freeze" => s[i].k = "freeze" /\ s[i].v = 1
<1> DEFINE s1 == First(r)
           s2 == setFreezer(r.freezer)
           s3 == setUnified(order)
           s12 == s1 \o s2
           s == s12 \o s3
<1>1. /\ Block(s1, KnownFiles \ {"cgroup.freeze"}, AskedFirst(r)) /\ Has(s1, "devices")
      /\ SwapErr(r.swap, r.memory) => Has(s1, "error")
  BY FirstBlock
<1>2. /\ s2 \in Seq(Steps) /\ NamesIn(s2) \subseteq {"cgroup.freeze"}
      /\ \A i \in DOMAIN s2 : s2[i].k = "freeze" /\ s2[i].f = "cgroup.freeze" /\ (r.freezer = "FROZEN" => s2[i].v = 1)
      /\ r.freezer = "FROZEN" => Has(s2, "freeze")
  BY ResourceFacts, FreezerSteps
<1>3. /\ s3 \in Seq(Steps) /\ NamesIn(s3) \subseteq Unified(r) \cup {NoFile}
      /\ \A i \in DOMAIN s3 : s3[i].k \in {"write", "error"}
      /\ Has(s3, "error") \/ \A u \in r.unified : LastWrite(s3, u.f, u.v)
  BY UnifiedSteps
<1>4. SetSteps(r, order) = s
  BY DEF SetSteps, First
<1>5. /\ s1 \in Seq(Steps) /\ NamesIn(s1) \subseteq (KnownFiles \ {"cgroup.freeze"}) \cup {NoFile}
      /\ \A i \in DOMAIN s1 : s1[i].k \in {"write", "rsvd", "devices", "error"}
      /\ Has(s1, "error") \/ \A e \in AskedFirst(r) : LastWrite(s1, e.f, e.v)
      /\ Names(AskedFirst(r)) \subseteq KnownFiles \ {"cgroup.freeze"}
  BY <1>1 DEF Block
<1> HIDE DEF s1, s2, s3
<1>6. /\ s12 \in Seq(Steps)
      /\ \A i \in DOMAIN s12 : (i \in DOMAIN s1 /\ s12[i] = s1[i]) \/ (i - Len(s1) \in DOMAIN s2 /\ s12[i] = s2[i - Len(s1)])
      /\ \A k : Has(s12, k) <=> Has(s1, k) \/ Has(s2, k)
  BY <1>2, <1>5, ConcatFacts, ConcatHas
<1>7. \A f, v : LastWrite(s1, f, v) /\ f \notin NamesIn(s2) => LastWrite(s12, f, v)
  BY <1>2, <1>5, ConcatLast
<1> HIDE DEF s12
<1>8. /\ s \in Seq(Steps)
      /\ \A i \in DOMAIN s : (i \in DOMAIN s12 /\ s[i] = s12[i]) \/ (i - Len(s12) \in DOMAIN s3 /\ s[i] = s3[i - Len(s12)])
      /\ \A k : Has(s, k) <=> Has(s12, k) \/ Has(s3, k)
  BY <1>3, <1>6, ConcatFacts, ConcatHas
<1>9. /\ \A f, v : LastWrite(s12, f, v) /\ f \notin NamesIn(s3) => LastWrite(s, f, v)
      /\ \A f, v : LastWrite(s3, f, v) => LastWrite(s, f, v)
  BY <1>3, <1>6, ConcatLast
<1> HIDE DEF s
<1>10. Has(s, "devices") /\ (r.freezer = "FROZEN" => Has(s, "freeze"))
  BY <1>1, <1>2, <1>6, <1>8 DEF s1
<1>11. \A i \in DOMAIN s : \/ \E j \in DOMAIN s1 : s[i] = s1[j]
                           \/ \E j \in DOMAIN s2 : s[i] = s2[j]
                           \/ \E j \in DOMAIN s3 : s[i] = s3[j]
  BY <1>6, <1>8
<1>12. ASSUME NEW i \in DOMAIN s PROVE s[i].k # "check" /\ (s[i].k = "freeze" => s[i].f = "cgroup.freeze")
  <2>1. CASE \E j \in DOMAIN s1 : s[i] = s1[j]
    BY <1>5, <2>1
  <2>2. CASE \E j \in DOMAIN s2 : s[i] = s2[j]
    BY <1>2, <2>2
  <2>3. CASE \E j \in DOMAIN s3 : s[i] = s3[j]
    BY <1>3, <2>3
  <2> QED  BY <1>11, <2>1, <2>2, <2>3
<1>13. ASSUME AsksToFreeze(r), r.set, NEW i \in DOMAIN s, s[i].f = "cgroup.freeze"
       PROVE  s[i].k = "freeze" /\ s[i].v = 1
  <2>1. r.freezer = "FROZEN" /\ "cgroup.freeze" \notin Unified(r) /\ "cgroup.freeze" # NoFile
    BY <1>13, FileFacts DEF AsksToFreeze, KnownFiles
  <2>2. "cgroup.freeze" \notin NamesIn(s1) /\ "cgroup.freeze" \notin NamesIn(s3)
    BY <1>3, <1>5, <2>1
  <2>3. PICK j \in DOMAIN s2 : s[i] = s2[j]
    BY <1>11, <1>13, <2>2 DEF NamesIn
  <2> QED  BY <1>2, <2>1, <2>3
<1>14. ASSUME ~Has(s, "error") PROVE ~SwapErr(r.swap, r.memory) /\ \A e \in Asked(r) : LastWrite(s, e.f, e.v)
  <2>1. ~Has(s1, "error") /\ ~Has(s3, "error")
    BY <1>6, <1>8, <1>14
  <2>2. ~SwapErr(r.swap, r.memory)
    BY <1>1, <2>1 DEF s1
  <2>3. ASSUME NEW e \in AskedLast(r) PROVE LastWrite(s, e.f, e.v)
    <3>1. PICK u \in r.unified : e = [f |-> u.f, v |-> u.v]
      BY <2>3 DEF AskedLast
    <3> QED  BY <1>3, <1>9, <2>1, <3>1
  <2>4. ASSUME NEW e \in AskedFirst(r), e.f \notin Names(AskedLast(r)) PROVE LastWrite(s, e.f, e.v)
    <3>1. LastWrite(s1, e.f, e.v) /\ e.f \in KnownFiles \ {"cgroup.freeze"}
      BY <1>5, <2>1 DEF Names
    <3>2. e.f # NoFile /\ e.f \notin NamesIn(s2)
      BY <1>2, <3>1, FileFacts
    <3>3. e.f \notin Unified(r)
      <4>1. ASSUME NEW u \in r.unified PROVE u.f # e.f
        <5>1. [f |-> u.f, v |-> u.v] \in AskedLast(r)  BY DEF AskedLast
        <5>2. u.f \in Names(AskedLast(r))  BY <5>1 DEF Names
        <5> QED  BY <2>4, <5>2
      <4> QED  BY <4>1 DEF Unified
    <3>4. e.f \notin NamesIn(s3)
      BY <1>3, <3>2, <3>3
    <3> QED  BY <1>7, <1>9, <3>1, <3>2, <3>4
  <2> QED  BY <2>2, <2>3, <2>4 DEF Asked, Then
<1> QED  BY <1>4, <1>8, <1>10, <1>12, <1>13, <1>14

-----------------------------------------------------------------------------
(* What the unified manager gives systemd for a request.                   *)

GivenFirst(r) ==
    LET swap == ConvertMemorySwapToCgroupV2Value(r.swap, r.memory)
    IN  Prop(r.memory # 0, "memory.max", Unlimited(r.memory)) \cup Prop(r.low # 0, "memory.low", Unlimited(r.low))
        \cup Prop(swap # 0, "memory.swap.max", Unlimited(swap))
        \cup Prop(r.cpuWeight # 0, "cpu.weight", r.cpuWeight) \cup addCpuQuota(r.quota, r.period)
        \cup Prop(r.pids > 0 \/ r.pids = -1, "pids.max", Unlimited(r.pids)) \cup addCpuset(r)
GivenLast(r) == unifiedResToSystemdProps(r.unified)

LEMMA GivenIs == ASSUME NEW r PROVE genV2ResourcesProperties(r) = Then(GivenFirst(r), GivenLast(r))
BY DEF genV2ResourcesProperties, GivenFirst, GivenLast

(* One at a time.                                                          *)
LEMMA PropFacts ==
    ASSUME NEW cond, NEW f, NEW v, NEW e \in Prop(cond, f, v)
    PROVE  cond /\ e = [f |-> f, v |-> v] /\ e.f = f /\ e.v = v
BY DEF Prop

LEMMA QuotaFacts ==
    ASSUME NEW quota, NEW period, NEW e \in addCpuQuota(quota, period)
    PROVE  \/ e.f = "cpu.period" /\ e.v = period /\ e = [f |-> "cpu.period", v |-> period]
           \/ /\ quota # 0 \/ period # 0
              /\ e.f = "cpu.max" /\ e.v = cpuQuotaPerSec(quota, period)
              /\ e = [f |-> "cpu.max", v |-> cpuQuotaPerSec(quota, period)]
<1>1. CASE e \in Prop(period # 0 /\ env.sdVer >= 242, "cpu.period", period)
  BY <1>1, PropFacts
<1>2. CASE e \in Prop(quota # 0 \/ period # 0, "cpu.max", cpuQuotaPerSec(quota, period))
  BY <1>2 DEF Prop
<1> QED  BY <1>1, <1>2 DEF addCpuQuota

CpuFiles == {"cpu.max", "cpu.period"}

(* What comes from the settings that are not unified.                      *)
LEMMA FirstFacts ==
    ASSUME NEW r \in Resources, NEW e \in GivenFirst(r)
    PROVE  \/ e.f \in CpuFiles /\ e \in addCpuQuota(r.quota, r.period)
           \/ /\ e.f \in {"memory.max", "memory.low", "memory.swap.max", "cpu.weight", "pids.max", "cpuset.cpus", "cpuset.mems"}
              /\ e.f \in {"cpuset.cpus", "cpuset.mems"} => env.sdVer >= 244
              /\ e \in AskedFirst(r)
              /\ e.v \in Int
<1> DEFINE swap == ConvertMemorySwapToCgroupV2Value(r.swap, r.memory)
<1>1. r.memory \in Int /\ r.low \in Int /\ swap \in Int /\ r.cpuWeight \in Nat /\ r.pids \in Int /\ r.pids >= -1
  BY ResourceFacts, SwapTyped
<1> HIDE DEF swap
<1>2. Unlimited(r.cpuWeight) = r.cpuWeight
  BY <1>1 DEF Unlimited
<1>3. CASE e \in Prop(r.memory # 0, "memory.max", Unlimited(r.memory))
  <2>1. e.f = "memory.max" /\ e.v = Unlimited(r.memory)  BY <1>3, PropFacts
  <2>2. e \in AskedFirst(r)  BY <1>3 DEF AskedFirst
  <2> QED  BY <1>1, <2>1, <2>2, UnlimitedTyped
<1>4. CASE e \in Prop(r.low # 0, "memory.low", Unlimited(r.low))
  <2>1. e.f = "memory.low" /\ e.v = Unlimited(r.low)  BY <1>4, PropFacts
  <2>2. e \in AskedFirst(r)  BY <1>4 DEF AskedFirst
  <2> QED  BY <1>1, <2>1, <2>2, UnlimitedTyped
<1>5. CASE e \in Prop(swap # 0, "memory.swap.max", Unlimited(swap))
  <2>1. e.f = "memory.swap.max" /\ e.v = Unlimited(swap) /\ swap # 0 /\ e = [f |-> "memory.swap.max", v |-> Unlimited(swap)]
    BY <1>5, PropFacts
  <2>2. e \in Prop(swap # 0 \/ r.swap > 0, "memory.swap.max", Unlimited(swap))
    BY <2>1 DEF Prop
  <2>3. e \in AskedFirst(r)  BY <2>2 DEF AskedFirst, swap
  <2> QED  BY <1>1, <2>1, <2>3, UnlimitedTyped
<1>6. CASE e \in Prop(r.cpuWeight # 0, "cpu.weight", r.cpuWeight)
  <2>1. e.f = "cpu.weight" /\ e.v = r.cpuWeight  BY <1>6, PropFacts
  <2>2. e \in AskedFirst(r)  BY <1>2, <1>6 DEF AskedFirst
  <2> QED  BY <1>1, <2>1, <2>2
<1>7. CASE e \in addCpuQuota(r.quota, r.period)
  BY <1>7, QuotaFacts DEF CpuFiles
<1>8. CASE e \in Prop(r.pids > 0 \/ r.pids = -1, "pids.max", Unlimited(r.pids))
  <2>1. /\ e.f = "pids.max" /\ e.v = Unlimited(r.pids) /\ (r.pids > 0 \/ r.pids = -1)
        /\ e = [f |-> "pids.max", v |-> Unlimited(r.pids)]
    BY <1>8 DEF Prop
  <2>2. r.pids # 0  BY <1>1, <2>1
  <2>3. e \in Prop(r.pids # 0, "pids.max", Unlimited(r.pids))
    BY <2>1, <2>2 DEF Prop
  <2>4. e \in AskedFirst(r)  BY <2>3 DEF AskedFirst
  <2> QED  BY <1>1, <2>1, <2>4, UnlimitedTyped
<1>9. CASE e \in addCpuset(r)
  <2>1. CASE e \in Prop(r.cpus # {} /\ env.sdVer >= 244, "cpuset.cpus", RangeToBits(r.cpus))
    <3> DEFINE bits == RangeToBits(r.cpus)
    <3> HIDE DEF bits
    <3>1. env.sdVer >= 244 /\ r.cpus # {} /\ e = [f |-> "cpuset.cpus", v |-> bits] /\ e.f = "cpuset.cpus" /\ e.v = bits
      <4>1. e \in Prop(r.cpus # {} /\ env.sdVer >= 244, "cpuset.cpus", bits)
        BY <2>1 DEF bits
      <4> QED  BY <4>1 DEF Prop
    <3>2. e \in Prop(r.cpus # {}, "cpuset.cpus", RangeToBits(r.cpus))  BY <3>1 DEF Prop, bits
    <3>3. e \in AskedFirst(r)  BY <3>2 DEF AskedFirst
    <3> QED  BY <3>1, <3>3, BitsTyped DEF bits
  <2>2. CASE e \in Prop(r.mems # {} /\ env.sdVer >= 244, "cpuset.mems", RangeToBits(r.mems))
    <3> DEFINE bits == RangeToBits(r.mems)
    <3> HIDE DEF bits
    <3>1. env.sdVer >= 244 /\ r.mems # {} /\ e = [f |-> "cpuset.mems", v |-> bits] /\ e.f = "cpuset.mems" /\ e.v = bits
      <4>1. e \in Prop(r.mems # {} /\ env.sdVer >= 244, "cpuset.mems", bits)
        BY <2>2 DEF bits
      <4> QED  BY <4>1 DEF Prop
    <3>2. e \in Prop(r.mems # {}, "cpuset.mems", RangeToBits(r.mems))  BY <3>1 DEF Prop, bits
    <3>3. e \in AskedFirst(r)  BY <3>2 DEF AskedFirst
    <3> QED  BY <3>1, <3>3, BitsTyped DEF bits
  <2> QED  BY <1>9, <2>1, <2>2 DEF addCpuset
<1> QED  BY <1>3, <1>4, <1>5, <1>6, <1>7, <1>8, <1>9 DEF GivenFirst, swap

SettingQuota(u) == IF u.v[1] = Infinity THEN 0 ELSE u.v[1]

(* What comes from a unified setting.                                      *)
LEMMA LastFacts ==
    ASSUME NEW u \in Settings, NEW e \in unifiedProp(u)
    PROVE  \/ u.f = "cpu.max" /\ e.f \in CpuFiles /\ e \in addCpuQuota(SettingQuota(u), u.v[2])
           \/ u.f \notin CpuFiles /\ e.f = u.f /\ e.v = u.v /\ e = [f |-> u.f, v |-> u.v] /\ u.v \in Int
<1>1. CASE u.f = "cpu.max"
  <2>1. e \in addCpuQuota(SettingQuota(u), u.v[2])
    BY <1>1 DEF unifiedProp, SettingQuota
  <2> QED  BY <1>1, <2>1, QuotaFacts DEF CpuFiles
<1>2. CASE u.f # "cpu.max"
  <2>1. e \in Prop(u.f \in KnownToSystemd \/ (u.f \in {"cpuset.cpus", "cpuset.mems"} /\ env.sdVer >= 244), u.f, u.v)
    BY <1>2 DEF unifiedProp
  <2>2. e.f = u.f /\ e.v = u.v /\ e = [f |-> u.f, v |-> u.v]
    BY <2>1, PropFacts
  <2>3. u.f \notin CpuFiles /\ u.v \in Int
    BY <1>2 DEF Settings, CpuFiles
  <2> QED  BY <2>2, <2>3
<1> QED  BY <1>1, <1>2

LEMMA SettingFacts ==
    ASSUME NEW u \in Settings
    PROVE  /\ u.f \in Files /\ u.v \in Values
           /\ u.f = "cpu.max" => u.v[1] \in Nat \ {0} /\ u.v[2] \in Nat \ {0} /\ SettingQuota(u) \in Nat
BY FileFacts DEF Settings, Values, KnownFiles, SettingQuota

LEMMA PerSecTyped ==
    ASSUME NEW quota \in Int, NEW period \in Nat
    PROVE  cpuQuotaPerSec(quota, period) \in Int
<1> DEFINE p == IF period = 0 THEN defCPUQuotaPeriod ELSE period
           exact == (quota * 1000000) \div p
<1>1. p \in Nat /\ p > 0 /\ quota * 1000000 \in Int
  BY DEF defCPUQuotaPeriod
<1>2. cpuQuotaPerSec(quota, period) =
        IF quota <= 0 THEN Infinity ELSE IF exact % 10000 = 0 THEN exact ELSE (exact \div 10000 + 1) * 10000
  BY DEF cpuQuotaPerSec
<1> HIDE DEF p
<1>3. exact \in Int
  BY <1>1
<1> HIDE DEF exact
<1> QED  BY <1>2, <1>3 DEF Infinity

LEMMA GivenTyped ==
    ASSUME NEW r \in Resources, NEW e \in genV2ResourcesProperties(r)
    PROVE  e.f \in Files /\ e.v \in Int
<1>1. e \in GivenFirst(r) \/ e \in GivenLast(r)
  BY GivenIs DEF Then
<1>2. "cpu.max" \in Files /\ "cpu.period" \in Files
      /\ {"memory.max", "memory.low", "memory.swap.max", "cpu.weight", "pids.max", "cpuset.cpus", "cpuset.mems"} \subseteq Files
  BY FileFacts DEF KnownFiles
<1>3. ASSUME NEW quota \in Int, NEW period \in Nat, e \in addCpuQuota(quota, period)
      PROVE  e.f \in Files /\ e.v \in Int
  BY <1>2, <1>3, QuotaFacts, PerSecTyped
<1>4. CASE e \in GivenFirst(r)
  <2>1. r.quota \in Int /\ r.period \in Nat
    BY ResourceFacts
  <2> QED  BY <1>2, <1>3, <1>4, <2>1, FirstFacts
<1>5. CASE e \in GivenLast(r)
  <2>1. PICK u \in r.unified : e \in unifiedProp(u)
    BY <1>5 DEF GivenLast, unifiedResToSystemdProps
  <2>2. u \in Settings
    BY ResourceFacts
  <2>3. CASE u.f = "cpu.max" /\ e \in addCpuQuota(SettingQuota(u), u.v[2])
    <3>1. SettingQuota(u) \in Int /\ u.v[2] \in Nat  BY <2>2, <2>3, SettingFacts
    <3> QED  BY <1>3, <2>3, <3>1
  <2>4. CASE e.f = u.f /\ e.v = u.v /\ u.v \in Int
    BY <2>2, <2>4, SettingFacts
  <2> QED  BY <2>1, <2>2, <2>3, <2>4, LastFacts
<1> QED  BY <1>1, <1>4, <1>5

(* What AskedFirst has for a file.                                         *)
AskedValue(r, f) ==
    IF f = "pids.max" THEN Unlimited(r.pids)
    ELSE IF f = "memory.swap.max" THEN Unlimited(ConvertMemorySwapToCgroupV2Value(r.swap, r.memory))
    ELSE IF f = "memory.max" THEN Unlimited(r.memory)
    ELSE IF f = "memory.low" THEN Unlimited(r.low)
    ELSE IF f = "cpu.weight" THEN Unlimited(r.cpuWeight)
    ELSE IF f = "cpu.max" THEN CpuMax(r)
    ELSE IF f = "cpuset.cpus" THEN RangeToBits(r.cpus)
    ELSE RangeToBits(r.mems)

LEMMA AskedFirstIs ==
    ASSUME NEW r, NEW e \in AskedFirst(r)
    PROVE  e = [f |-> e.f, v |-> AskedValue(r, e.f)]
<1> DEFINE swap == ConvertMemorySwapToCgroupV2Value(r.swap, r.memory)
           Is(f) == e.f = f /\ e = [f |-> f, v |-> AskedValue(r, f)]
<1> HIDE DEF swap
<1>1. CASE e \in Prop(r.pids # 0, "pids.max", Unlimited(r.pids))
  BY <1>1 DEF Prop, AskedValue
<1>2. CASE e \in Prop(swap # 0 \/ r.swap > 0, "memory.swap.max", Unlimited(swap))
  BY <1>2 DEF Prop, AskedValue, swap
<1>3. CASE e \in Prop(r.memory # 0, "memory.max", Unlimited(r.memory))
  BY <1>3 DEF Prop, AskedValue
<1>4. CASE e \in Prop(r.low # 0, "memory.low", Unlimited(r.low))
  BY <1>4 DEF Prop, AskedValue
<1>5. CASE e \in Prop(r.cpuWeight # 0, "cpu.weight", Unlimited(r.cpuWeight))
  BY <1>5 DEF Prop, AskedValue
<1>6. CASE e \in Prop(r.quota # 0 \/ r.period # 0, "cpu.max", CpuMax(r))
  BY <1>6 DEF Prop, AskedValue
<1>7. CASE e \in Prop(r.cpus # {}, "cpuset.cpus", RangeToBits(r.cpus))
  BY <1>7 DEF Prop, AskedValue
<1>8. CASE e \in Prop(r.mems # {}, "cpuset.mems", RangeToBits(r.mems))
  BY <1>8 DEF Prop, AskedValue
<1> QED  BY <1>1, <1>2, <1>3, <1>4, <1>5, <1>6, <1>7, <1>8 DEF AskedFirst, CpuMax, swap

LEMMA QuotaUnique ==
    ASSUME NEW quota, NEW period, NEW e \in addCpuQuota(quota, period), NEW d \in addCpuQuota(quota, period), e.f = d.f
    PROVE  e = d
BY QuotaFacts

(* A property is given once.                                               *)
LEMMA GivenUnique ==
    ASSUME NEW r \in Resources, Fit(r),
           NEW e \in genV2ResourcesProperties(r), NEW d \in genV2ResourcesProperties(r), e.f = d.f
    PROVE  e = d
<1>1. \/ e \in GivenLast(r) /\ d \in GivenLast(r)
      \/ e \in GivenFirst(r) /\ d \in GivenFirst(r)
  BY GivenIs DEF Then, Names
<1>2. CASE e \in GivenLast(r) /\ d \in GivenLast(r)
  <2>1. PICK u \in r.unified : e \in unifiedProp(u)
    BY <1>2 DEF GivenLast, unifiedResToSystemdProps
  <2>2. PICK w \in r.unified : d \in unifiedProp(w)
    BY <1>2 DEF GivenLast, unifiedResToSystemdProps
  <2>3. u \in Settings /\ w \in Settings
    BY ResourceFacts
  <2>4. \/ u.f = "cpu.max" /\ e.f \in CpuFiles /\ e \in addCpuQuota(SettingQuota(u), u.v[2])
        \/ u.f \notin CpuFiles /\ e.f = u.f /\ e = [f |-> u.f, v |-> u.v]
    BY <2>1, <2>3, LastFacts
  <2>5. \/ w.f = "cpu.max" /\ d.f \in CpuFiles /\ d \in addCpuQuota(SettingQuota(w), w.v[2])
        \/ w.f \notin CpuFiles /\ d.f = w.f /\ d = [f |-> w.f, v |-> w.v]
    BY <2>2, <2>3, LastFacts
  <2>6. u.f = w.f
    BY <2>4, <2>5
  <2>7. u = w
    BY <2>6 DEF Fit
  <2>8. CASE u.f = "cpu.max"
    <3>1. e \in addCpuQuota(SettingQuota(u), u.v[2]) /\ d \in addCpuQuota(SettingQuota(u), u.v[2])
      BY <2>4, <2>5, <2>7, <2>8 DEF CpuFiles
    <3> QED  BY <3>1, QuotaUnique
  <2>9. CASE u.f # "cpu.max"
    BY <2>4, <2>5, <2>7, <2>9
  <2> QED  BY <2>8, <2>9
<1>3. CASE e \in GivenFirst(r) /\ d \in GivenFirst(r)
  <2>1. \/ e.f \in CpuFiles /\ e \in addCpuQuota(r.quota, r.period)
        \/ e.f \notin CpuFiles /\ e \in AskedFirst(r)
    BY <1>3, FirstFacts DEF CpuFiles
  <2>2. \/ d.f \in CpuFiles /\ d \in addCpuQuota(r.quota, r.period)
        \/ d.f \notin CpuFiles /\ d \in AskedFirst(r)
    BY <1>3, FirstFacts DEF CpuFiles
  <2>3. CASE e.f \in CpuFiles
    BY <2>1, <2>2, <2>3, QuotaUnique
  <2>4. CASE e.f \notin CpuFiles
    <3>1. e = [f |-> e.f, v |-> AskedValue(r, e.f)] /\ d = [f |-> d.f, v |-> AskedValue(r, d.f)]
      BY <2>1, <2>2, <2>4, AskedFirstIs
    <3> QED  BY <3>1
  <2> QED  BY <2>3, <2>4
<1> QED  BY <1>1, <1>2, <1>3

(* What systemd is given is what the files will say.                       *)
LEMMA GivenAsked ==
    ASSUME NEW r \in Resources, NEW e \in genV2ResourcesProperties(r), e.f \notin CpuFiles
    PROVE  e \in Asked(r)
<1>1. e \in GivenLast(r) \/ (e \in GivenFirst(r) /\ e.f \notin Names(GivenLast(r)))
  BY GivenIs DEF Then
<1>2. CASE e \in GivenLast(r)
  <2>1. PICK u \in r.unified : e \in unifiedProp(u)
    BY <1>2 DEF GivenLast, unifiedResToSystemdProps
  <2>2. e = [f |-> u.f, v |-> u.v]
    BY <2>1, ResourceFacts, LastFacts
  <2> QED  BY <2>2 DEF Asked, Then, AskedLast
<1>3. CASE e \in GivenFirst(r) /\ e.f \notin Names(GivenLast(r))
  <2>1. /\ e \in AskedFirst(r)
        /\ e.f \in {"memory.max", "memory.low", "memory.swap.max", "cpu.weight", "pids.max", "cpuset.cpus", "cpuset.mems"}
        /\ e.f \in {"cpuset.cpus", "cpuset.mems"} => env.sdVer >= 244
    BY <1>3, FirstFacts
  <2>2. ASSUME NEW d \in AskedLast(r) PROVE d.f # e.f
    <3>1. PICK u \in r.unified : d = [f |-> u.f, v |-> u.v]
      BY <2>2 DEF AskedLast
    <3>2. SUFFICES ASSUME u.f = e.f PROVE FALSE
      BY <3>1
    <3>3. u.f \in KnownToSystemd \/ (u.f \in {"cpuset.cpus", "cpuset.mems"} /\ env.sdVer >= 244)
      BY <2>1, <3>2 DEF KnownToSystemd
    <3>4. u.f # "cpu.max"
      BY <3>2 DEF CpuFiles
    <3>5. d \in unifiedProp(u)
      BY <3>1, <3>3, <3>4 DEF unifiedProp, Prop
    <3>6. d \in GivenLast(r)
      BY <3>5 DEF GivenLast, unifiedResToSystemdProps
    <3>7. d.f \in Names(GivenLast(r))
      BY <3>6 DEF Names
    <3> QED  BY <1>3, <3>1, <3>2, <3>7
  <2> QED  BY <2>1, <2>2 DEF Asked, Then, Names
<1> QED  BY <1>1, <1>2, <1>3

(* A bandwidth as systemd and as the file have it.                         *)
Close(perSec, quota, period) ==
    \/ perSec = Infinity /\ quota = Infinity
    \/ (perSec + 1) * period > quota * 1000000 /\ (perSec - 10000) * period < quota * 1000000

LEMMA QuotaClose ==
    ASSUME NEW quota \in Int, NEW period \in Nat
    PROVE  Close(cpuQuotaPerSec(quota, period), IF quota > 0 THEN quota ELSE Infinity,
                 IF period = 0 THEN defCPUQuotaPeriod ELSE period)
<1> DEFINE p == IF period = 0 THEN defCPUQuotaPeriod ELSE period
<1>1. p \in Nat /\ p > 0 /\ p # 0
  BY DEF defCPUQuotaPeriod
<1>2. cpuQuotaPerSec(quota, period) = cpuQuotaPerSec(quota, p)
  BY <1>1 DEF cpuQuotaPerSec
<1> HIDE DEF p
<1>3. CASE quota > 0
  <2>1. quota \in Nat
    BY <1>3
  <2>2. /\ (cpuQuotaPerSec(quota, p) + 1) * p > quota * 1000000
        /\ (cpuQuotaPerSec(quota, p) - 10000) * p < quota * 1000000
    BY <1>1, <1>3, <2>1, QuotaRoundsUp
  <2>3. Close(cpuQuotaPerSec(quota, p), quota, p)
    BY <2>2, SMT DEF Close
  <2>4. (IF quota > 0 THEN quota ELSE Infinity) = quota
    BY <1>3
  <2> QED  BY <1>2, <2>3, <2>4 DEF p
<1>4. CASE ~(quota > 0)
  <2>1. cpuQuotaPerSec(quota, p) = Infinity
    BY <1>4 DEF cpuQuotaPerSec
  <2>2. (IF quota > 0 THEN quota ELSE Infinity) = Infinity
    BY <1>4
  <2> HIDE DEF Infinity
  <2>3. Close(Infinity, Infinity, p)
    BY SMT DEF Close
  <2> QED  BY <1>2, <2>1, <2>2, <2>3 DEF p
<1> QED  BY <1>3, <1>4

(* A CPU bandwidth given to systemd is close to the one asked of the file. *)
LEMMA GivenCpu ==
    ASSUME NEW r \in Resources, NEW e \in genV2ResourcesProperties(r), e.f = "cpu.max"
    PROVE  \E d \in Asked(r) : d.f = "cpu.max" /\ Close(e.v, d.v[1], d.v[2])
<1>1. e \in GivenLast(r) \/ (e \in GivenFirst(r) /\ e.f \notin Names(GivenLast(r)))
  BY GivenIs DEF Then
<1>2. CASE e \in GivenLast(r)
  <2>1. PICK u \in r.unified : e \in unifiedProp(u)
    BY <1>2 DEF GivenLast, unifiedResToSystemdProps
  <2>2. u \in Settings
    BY ResourceFacts
  <2>3. u.f = "cpu.max" /\ e \in addCpuQuota(SettingQuota(u), u.v[2])
    BY <2>1, <2>2, LastFacts DEF CpuFiles
  <2>4. e.v = cpuQuotaPerSec(SettingQuota(u), u.v[2])
    BY <2>3, QuotaFacts
  <2>5. SettingQuota(u) \in Nat /\ u.v[1] \in Nat \ {0} /\ u.v[2] \in Nat \ {0}
    BY <2>2, <2>3, SettingFacts
  <2>6. Close(e.v, IF SettingQuota(u) > 0 THEN SettingQuota(u) ELSE Infinity,
              IF u.v[2] = 0 THEN defCPUQuotaPeriod ELSE u.v[2])
    BY <2>4, <2>5, QuotaClose
  <2>7. (IF SettingQuota(u) > 0 THEN SettingQuota(u) ELSE Infinity) = u.v[1]
        /\ (IF u.v[2] = 0 THEN defCPUQuotaPeriod ELSE u.v[2]) = u.v[2]
    BY <2>5 DEF SettingQuota
  <2>8. Close(e.v, u.v[1], u.v[2])
    BY <2>6, <2>7
  <2>9. [f |-> u.f, v |-> u.v] \in Asked(r)
    BY DEF Asked, Then, AskedLast
  <2> QED  BY <2>3, <2>8, <2>9
<1>3. CASE e \in GivenFirst(r) /\ e.f \notin Names(GivenLast(r))
  <2>1. e \in addCpuQuota(r.quota, r.period)
    BY <1>3, FirstFacts
  <2>2. (r.quota # 0 \/ r.period # 0) /\ e.v = cpuQuotaPerSec(r.quota, r.period)
    BY <2>1, QuotaFacts
  <2>3. r.quota \in Int /\ r.period \in Nat
    BY ResourceFacts
  <2> DEFINE d == [f |-> "cpu.max", v |-> CpuMax(r)]
  <2>4. Close(e.v, CpuMax(r)[1], CpuMax(r)[2])
    <3>1. CpuMax(r)[1] = (IF r.quota > 0 THEN r.quota ELSE Infinity)
          /\ CpuMax(r)[2] = (IF r.period = 0 THEN defCPUQuotaPeriod ELSE r.period)
      BY DEF CpuMax
    <3>2. Close(e.v, IF r.quota > 0 THEN r.quota ELSE Infinity, IF r.period = 0 THEN defCPUQuotaPeriod ELSE r.period)
      BY <2>2, <2>3, QuotaClose
    <3> QED  BY <3>1, <3>2
  <2>5. d \in AskedFirst(r)
    <3>1. d \in Prop(r.quota # 0 \/ r.period # 0, "cpu.max", CpuMax(r))
      BY <2>2 DEF Prop
    <3> QED  BY <3>1 DEF AskedFirst, CpuMax
  <2>6. ASSUME NEW a \in AskedLast(r) PROVE a.f # "cpu.max"
    <3>1. PICK u \in r.unified : a = [f |-> u.f, v |-> u.v]
      BY <2>6 DEF AskedLast
    <3>2. SUFFICES ASSUME u.f = "cpu.max" PROVE FALSE
      BY <3>1
    <3>3. u.v[2] # 0
      BY <3>2, ResourceFacts, SettingFacts
    <3> DEFINE q == cpuQuotaPerSec(SettingQuota(u), u.v[2])
               x == [f |-> "cpu.max", v |-> q]
    <3>4. x \in addCpuQuota(SettingQuota(u), u.v[2])
      BY <3>3 DEF addCpuQuota, Prop
    <3>5. x \in unifiedProp(u)
      BY <3>2, <3>4 DEF unifiedProp, SettingQuota
    <3> HIDE DEF q
    <3>6. x \in GivenLast(r)
      BY <3>5 DEF GivenLast, unifiedResToSystemdProps
    <3>7. "cpu.max" \in Names(GivenLast(r))
      BY <3>6 DEF Names
    <3> QED  BY <1>3, <3>7
  <2>7. d \in Asked(r)
    BY <2>5, <2>6 DEF Asked, Then, Names
  <2> QED  BY <2>4, <2>7
<1> QED  BY <1>1, <1>2, <1>3

(* What is in a property's place is its name.                              *)
LEMMA PropNamed ==
    ASSUME NEW cond, cond, NEW f, NEW v, NEW S, Prop(cond, f, v) \subseteq S
    PROVE  f \in Names(S)
<1> DEFINE x == [f |-> f, v |-> v]
<1>1. x \in S /\ x.f = f
  BY DEF Prop
<1> HIDE DEF x
<1> QED  BY <1>1 DEF Names

(* A unified setting that systemd has a property for is given to it.       *)
LEMMA GivenUnified ==
    ASSUME NEW r \in Resources, NEW f \in Unified(r),
           f \in KnownToSystemd \cup {"cpu.max"} \/ (f \in {"cpuset.cpus", "cpuset.mems"} /\ env.sdVer >= 244)
    PROVE  f \in Names(GivenLast(r))
<1>1. PICK u \in r.unified : u.f = f
  BY DEF Unified
<1>2. unifiedProp(u) \subseteq GivenLast(r)
  BY DEF GivenLast, unifiedResToSystemdProps
<1>3. CASE f = "cpu.max"
  <2> DEFINE q == SettingQuota(u)
             perSec == cpuQuotaPerSec(q, u.v[2])
  <2>1. q # 0 \/ u.v[2] # 0
    BY <1>1, <1>3, ResourceFacts, SettingFacts
  <2>2. unifiedProp(u) = addCpuQuota(q, u.v[2])
    BY <1>1, <1>3 DEF unifiedProp, SettingQuota
  <2>3. Prop(q # 0 \/ u.v[2] # 0, "cpu.max", perSec) \subseteq GivenLast(r)
    BY <1>2, <2>2 DEF addCpuQuota
  <2> HIDE DEF q, perSec
  <2> QED  BY <1>3, <2>1, <2>3, PropNamed
<1>4. CASE f # "cpu.max"
  <2> DEFINE x == [f |-> u.f, v |-> u.v]
  <2>1. x \in unifiedProp(u) /\ x.f = f
    BY <1>1, <1>4 DEF unifiedProp, Prop
  <2> HIDE DEF x
  <2> QED  BY <1>2, <2>1 DEF Names
<1> QED  BY <1>3, <1>4

(* Whatever a request is about, systemd is given, unless it turns swap off. *)
LEMMA GivenLimits ==
    ASSUME NEW r \in Resources, ~SwapErr(r.swap, r.memory), NEW f \in Limits(r),
           ~(f = "memory.swap.max" /\ TurnsSwapOff(r))
    PROVE  f \in Names(genV2ResourcesProperties(r))
<1> DEFINE swap == ConvertMemorySwapToCgroupV2Value(r.swap, r.memory)
           perSec == cpuQuotaPerSec(r.quota, r.period)
<1>1. f \in Names(GivenFirst(r)) \cup Names(GivenLast(r)) => f \in Names(genV2ResourcesProperties(r))
  BY GivenIs DEF Then, Names
<1>2. CASE f \in Unified(r)
  <2>1. f \in KnownToSystemd \cup {"cpu.max"} \/ (f \in {"cpuset.cpus", "cpuset.mems"} /\ env.sdVer >= 244)
    BY DEF Limits, KnownToSystemd
  <2> QED  BY <1>1, <1>2, <2>1, GivenUnified
<1>3. CASE f \notin Unified(r)
  <2>1. \/ f = "memory.max" /\ r.memory # 0
        \/ f = "memory.low" /\ r.low # 0
        \/ f = "memory.swap.max" /\ (r.swap # 0 \/ r.memory = -1)
        \/ f = "pids.max" /\ r.pids # 0
        \/ f = "cpu.weight" /\ r.cpuWeight # 0
        \/ f = "cpu.max" /\ (r.quota # 0 \/ r.period # 0)
        \/ f = "cpuset.cpus" /\ r.cpus # {} /\ env.sdVer >= 244
        \/ f = "cpuset.mems" /\ r.mems # {} /\ env.sdVer >= 244
    BY <1>3 DEF Limits
  <2>2. CASE f = "memory.max" /\ r.memory # 0
    BY <1>1, <2>2, PropNamed DEF GivenFirst
  <2>3. CASE f = "memory.low" /\ r.low # 0
    BY <1>1, <2>3, PropNamed DEF GivenFirst
  <2>4. CASE f = "memory.swap.max" /\ (r.swap # 0 \/ r.memory = -1)
    <3>1. swap # 0
      <4>1. r.swap \in Int /\ r.memory \in Int /\ ~(r.swap > 0 /\ r.swap = r.memory)
        BY <1>3, <2>4, ResourceFacts DEF TurnsSwapOff
      <4> QED  BY <2>4, <4>1 DEF SwapErr, ConvertMemorySwapToCgroupV2Value
    <3>2. Prop(swap # 0, "memory.swap.max", Unlimited(swap)) \subseteq GivenFirst(r)
      BY DEF GivenFirst
    <3> HIDE DEF swap
    <3> QED  BY <1>1, <2>4, <3>1, <3>2, PropNamed
  <2>5. CASE f = "pids.max" /\ r.pids # 0
    <3>1. r.pids > 0 \/ r.pids = -1
      <4>1. r.pids \in Int /\ r.pids >= -1
        BY ResourceFacts
      <4> QED  BY <2>5, <4>1
    <3>2. Prop(r.pids > 0 \/ r.pids = -1, "pids.max", Unlimited(r.pids)) \subseteq GivenFirst(r)
      BY DEF GivenFirst
    <3> QED  BY <1>1, <2>5, <3>1, <3>2, PropNamed
  <2>6. CASE f = "cpu.weight" /\ r.cpuWeight # 0
    BY <1>1, <2>6, PropNamed DEF GivenFirst
  <2>7. CASE f = "cpu.max" /\ (r.quota # 0 \/ r.period # 0)
    <3>1. Prop(r.quota # 0 \/ r.period # 0, "cpu.max", perSec) \subseteq GivenFirst(r)
      BY DEF GivenFirst, addCpuQuota
    <3> HIDE DEF perSec
    <3> QED  BY <1>1, <2>7, <3>1, PropNamed
  <2>8. CASE f = "cpuset.cpus" /\ r.cpus # {} /\ env.sdVer >= 244
    <3>1. Prop(r.cpus # {} /\ env.sdVer >= 244, "cpuset.cpus", RangeToBits(r.cpus)) \subseteq GivenFirst(r)
      BY DEF GivenFirst, addCpuset
    <3> QED  BY <1>1, <2>8, <3>1, PropNamed
  <2>9. CASE f = "cpuset.mems" /\ r.mems # {} /\ env.sdVer >= 244
    <3>1. Prop(r.mems # {} /\ env.sdVer >= 244, "cpuset.mems", RangeToBits(r.mems)) \subseteq GivenFirst(r)
      BY DEF GivenFirst, addCpuset
    <3> QED  BY <1>1, <2>9, <3>1, PropNamed
  <2> QED  BY <2>1, <2>2, <2>3, <2>4, <2>5, <2>6, <2>7, <2>8, <2>9
<1> QED  BY <1>2, <1>3

(* A request that turns swap off asks for 0 in the file.                   *)
LEMMA SwapOffAsked ==
    ASSUME NEW r \in Resources, TurnsSwapOff(r)
    PROVE  [f |-> "memory.swap.max", v |-> 0] \in Asked(r)
<1> DEFINE swap == ConvertMemorySwapToCgroupV2Value(r.swap, r.memory)
           x == [f |-> "memory.swap.max", v |-> 0]
<1>1. r.swap > 0 /\ swap = 0 /\ Unlimited(swap) = 0 /\ "memory.swap.max" \notin Unified(r)
  <2>1. r.swap \in Int /\ r.memory \in Int /\ r.swap > 0 /\ r.swap = r.memory
    BY ResourceFacts DEF TurnsSwapOff
  <2>2. swap = 0
    BY <2>1 DEF ConvertMemorySwapToCgroupV2Value
  <2> QED  BY <2>1, <2>2 DEF Unlimited, TurnsSwapOff
<1>2. Prop(swap # 0 \/ r.swap > 0, "memory.swap.max", Unlimited(swap)) \subseteq AskedFirst(r)
  BY DEF AskedFirst
<1> HIDE DEF swap
<1>3. x \in AskedFirst(r) /\ x.f = "memory.swap.max"
  BY <1>1, <1>2 DEF Prop
<1>4. x.f \notin Names(AskedLast(r))
  BY <1>1, <1>3 DEF Names, AskedLast, Unified
<1> QED  BY <1>3, <1>4 DEF Asked, Then

(* What is asked is asked of files.                                        *)
LEMMA AskedFiles ==
    ASSUME NEW r \in Resources, NEW e \in Asked(r)
    PROVE  e.f \in Files
<1>1. CASE e \in AskedLast(r)
  <2>1. PICK u \in r.unified : e = [f |-> u.f, v |-> u.v]
    BY <1>1 DEF AskedLast
  <2> QED  BY <2>1, ResourceFacts, SettingFacts
<1>2. CASE e \in AskedFirst(r)
  BY <1>2, FirstBlock, FileFacts DEF Block, Names
<1> QED  BY <1>1, <1>2 DEF Asked, Then

(* systemd's own writes.                                                   *)
LEMMA UnitTyped ==
    ASSUME NEW r \in Resources, Fit(r), unit \in [Files -> Int]
    PROVE  LET props == genV2ResourcesProperties(r)
           IN  /\ UnitWith(props) \in [Files -> Int]
               /\ \A e \in props : UnitWith(props)[e.f] = e.v
<1> DEFINE props == genV2ResourcesProperties(r)
<1>1. \A e \in props : e.f \in Files /\ e.v \in Int
  BY GivenTyped
<1>2. \A e, d \in props : e.f = d.f => e = d
  BY GivenUnique
<1> HIDE DEF props
<1>3. ASSUME NEW e \in props PROVE Value(props, e.f) = e.v
  <2> DEFINE c == CHOOSE d \in props : d.f = e.f
  <2>1. c \in props /\ c.f = e.f
    OBVIOUS
  <2>2. c = e
    BY <1>2, <2>1
  <2> QED  BY <2>2 DEF Value
<1>4. ASSUME NEW f \in Files PROVE UnitWith(props)[f] = (IF f \in Names(props) THEN Value(props, f) ELSE unit[f])
  BY DEF UnitWith
<1>5. ASSUME NEW f \in Files PROVE UnitWith(props)[f] \in Int
  <2>1. CASE f \in Names(props)
    <3>1. PICK e \in props : e.f = f  BY <2>1 DEF Names
    <3> QED  BY <1>1, <1>3, <1>4, <2>1, <3>1
  <2> QED  BY <1>4, <2>1
<1>6. UnitWith(props) \in [Files -> Int]
  BY <1>5 DEF UnitWith
<1>7. \A e \in props : UnitWith(props)[e.f] = e.v
  BY <1>1, <1>3, <1>4 DEF Names
<1> QED  BY <1>6, <1>7 DEF props

LEMMA SystemdTyped ==
    ASSUME NEW props, NEW properties \in [Files -> Int], file \in [Files -> Values]
    PROVE  SystemdFiles(props, properties) \in [Files -> Values]
<1> DEFINE period == IF properties["cpu.period"] = Unset THEN defCPUQuotaPeriod ELSE properties["cpu.period"]
           perSec == properties["cpu.max"]
           quota == IF perSec = Infinity THEN Infinity ELSE ((perSec \div 10000) * period) \div 100
<1>1. period \in Int /\ perSec \in Int
  BY FileFacts DEF KnownFiles, defCPUQuotaPeriod
<1>2. SystemdFiles(props, properties) =
        [f \in Files |-> IF f \notin Names(props) THEN file[f] ELSE IF f = "cpu.max" THEN <<quota, period>> ELSE properties[f]]
  BY DEF SystemdFiles
<1> HIDE DEF period, perSec
<1>3. quota \in Int
  <2>1. (perSec \div 10000) \in Int
    BY <1>1
  <2>2. (perSec \div 10000) * period \in Int
    BY <1>1, <2>1
  <2> QED  BY <2>2 DEF Infinity
<1> HIDE DEF quota
<1>4. \A f \in Files : file[f] \in Values /\ properties[f] \in Values /\ <<quota, period>> \in Values
  BY <1>1, <1>3 DEF Values
<1> QED  BY <1>2, <1>4

-----------------------------------------------------------------------------
(* The inductive invariant of whole calls.                                 *)

TypeOK ==
    /\ env \in Envs
    /\ file \in [Files -> Values]
    /\ unit \in [Files -> Int]
    /\ frozen \in BOOLEAN
    /\ pc \in [Procs -> {"idle", "props", "controllers", "set", "freeze"}]
    /\ req \in [Procs -> Resources]
    /\ steps \in [Procs -> Seq(Steps)]
    /\ stored \in [Procs -> BOOLEAN]
    /\ result \in [Procs -> {"none", "nil", "err"}]
    /\ alone \in [Procs -> BOOLEAN]

Hidden == IF env.hidden THEN {0} ELSE {}

(* Which steps there can be, and where.                                    *)
Place(p) ==
    /\ pc[p] \notin {"set", "freeze"} => steps[p] = <<>>
    /\ pc[p] \in {"props", "controllers", "set"} => req[p].set
    /\ pc[p] = "freeze" => ~req[p].set
    /\ \A i \in DOMAIN steps[p] :
          /\ steps[p][i].k = "check" => i = 1
          /\ steps[p][i].k \in {"freeze", "check"} => steps[p][i].f = "cgroup.freeze"
          /\ pc[p] = "freeze" => steps[p][i].k \in {"freeze", "check", "error"}

(* A call that attaches a program is at its step for devices.              *)
InAttach(p) ==
    apc[p] # "idle" \/ ares[p] # "none" =>
        /\ pc[p] = "set" /\ steps[p] # <<>> /\ Head(steps[p]).k = "devices"
        /\ want[p] = Filter(Emulate(req[p].rules).emu)
        /\ apc[p] # "idle" => ares[p] = "none"

Alone(p) == alone[p] => \A q \in Procs \ {p} : pc[q] = "idle"

(* A Set that writes, or that has returned nil.                            *)
Active(p) == pc[p] = "set" \/ (pc[p] = "idle" /\ result[p] = "nil" /\ req[p].set)

(* What was asked of the files is there or is still to be written.         *)
Promised(p) ==
    alone[p] /\ Active(p) =>
        \/ Has(steps[p], "error")
        \/ ~SwapErr(req[p].swap, req[p].memory) /\ \A e \in Asked(req[p]) : Outcome(steps[p], e.f, e.v)

InUnit(p) ==
    alone[p] /\ env.systemd /\ (pc[p] = "controllers" \/ Active(p)) =>
        \A e \in genV2ResourcesProperties(req[p]) : unit[e.f] = e.v

(* Of the programs that can be opened, the new one is the only one left.   *)
Enforced(p) ==
    newest # 0 /\ attached \ Hidden = {newest} /\ policy[newest] = Filter(Emulate(req[p].rules).emu)
NeedsDevices(p) == ~req[p].skipDevices /\ ~env.rootless /\ ~canSkipEBPFError(req[p])
Guarded(p) ==
    alone[p] =>
        /\ apc[p] = "attach" => old[p] = attached \ Hidden
        /\ apc[p] = "detach" => newest # 0 /\ attached \ Hidden = old[p] \cup {newest} /\ policy[newest] = want[p]
        /\ ares[p] = "nil" => Enforced(p)
        /\ Active(p) /\ NeedsDevices(p) => Has(steps[p], "devices") \/ Enforced(p)

(* The freeze is to come, was written and is waited for, or is there.      *)
FreezeDue(p) ==
    \/ Has(steps[p], "freeze")
    \/ steps[p] # <<>> /\ Head(steps[p]).k = "check" /\ file["cgroup.freeze"] = 1
    \/ frozen /\ file["cgroup.freeze"] = 1
Freezing(p) ==
    alone[p] /\ AsksToFreeze(req[p]) /\ (pc[p] \in {"set", "freeze"} \/ (pc[p] = "idle" /\ result[p] = "nil")) =>
        \/ Has(steps[p], "error")
        \/ /\ FreezeDue(p)
           /\ \A i \in DOMAIN steps[p] : steps[p][i].f = "cgroup.freeze" =>
                 steps[p][i].k \in {"freeze", "check"} /\ steps[p][i].v = 1

Mine(p) == Place(p) /\ InAttach(p) /\ Promised(p) /\ InUnit(p) /\ Guarded(p) /\ Freezing(p)

IInv == TypeOK /\ AttachInv /\ \A p \in Procs : Fit(req[p]) /\ Alone(p) /\ Mine(p)

(* A call that is under way changes only what is its own, and the files,   *)
(* the unit and the programs: no other call is alone then.                 *)
OnlyMine(p) ==
    /\ UNCHANGED <<env, req, alone>>
    /\ \A q \in Procs \ {p} :
          /\ pc'[q] = pc[q] /\ steps'[q] = steps[q]
          /\ apc'[q] = apc[q] /\ ares'[q] = ares[q] /\ want'[q] = want[q]

LEMMA Locally ==
    ASSUME IInv, NEW p \in Procs, pc[p] # "idle", OnlyMine(p), TypeOK', AttachInv', Mine(p)'
    PROVE  IInv'
<1>1. ASSUME NEW q \in Procs \ {p} PROVE ~alone[q] /\ pc'[q] = pc[q] /\ steps'[q] = steps[q]
  BY DEF IInv, Alone, OnlyMine
<1>2. ASSUME NEW q \in Procs PROVE Fit(req[q])' /\ Alone(q)'
  <2>1. Fit(req[q])'
    BY DEF IInv, Fit, OnlyMine
  <2>2. CASE q = p
    <3>1. alone[p] => \A x \in Procs \ {p} : pc[x] = "idle"
      BY DEF IInv, Alone
    <3> QED  BY <1>1, <2>1, <2>2, <3>1 DEF Alone, OnlyMine
  <2>3. CASE q # p
    BY <1>1, <2>1, <2>3 DEF Alone, OnlyMine
  <2> QED  BY <2>2, <2>3
<1>3. ASSUME NEW q \in Procs \ {p} PROVE Mine(q)'
  <2>1. Place(q)' /\ InAttach(q)'
    BY DEF IInv, Mine, Place, InAttach, OnlyMine
  <2>2. ~alone'[q]
    BY <1>1 DEF OnlyMine
  <2> QED  BY <2>1, <2>2 DEF Mine, Promised, InUnit, Guarded, Freezing
<1> QED  BY <1>2, <1>3 DEF IInv

LEMMA Update ==
    ASSUME NEW S, NEW g \in [Procs -> S], NEW p \in Procs
    PROVE  /\ \A v : [g EXCEPT ![p] = v][p] = v
           /\ \A v \in S : [g EXCEPT ![p] = v] \in [Procs -> S]
           /\ \A v : \A q \in Procs \ {p} : [g EXCEPT ![p] = v][q] = g[q]
OBVIOUS

(* An error: nothing is promised any more.                                 *)
LEMMA ErrReturn ==
    ASSUME IInv, NEW p \in Procs, pc[p] # "idle", Return(p, "err"), apc[p] = "idle",
           UNCHANGED <<env, file, unit, frozen, req, stored, alone>>,
           (UNCHANGED ebpfVars /\ ares[p] = "none") \/ AtTake(p)
    PROVE  IInv'
<1>1. TypeOK /\ AttachInv
  BY DEF IInv
<1>2. /\ pc'[p] = "idle" /\ result'[p] = "err" /\ steps'[p] = <<>>
      /\ \A q \in Procs \ {p} : pc'[q] = pc[q] /\ steps'[q] = steps[q]
  BY <1>1 DEF TypeOK, Return, Go, ToDo
<1>3. /\ apc' = apc /\ want' = want /\ ares'[p] = "none"
      /\ \A q \in Procs \ {p} : ares'[q] = ares[q]
  BY <1>1 DEF AttachInv, EbpfTypeOK, ebpfVars, AtTake
<1>4. TypeOK'
  <2>1. <<>> \in Seq(Steps)
    OBVIOUS
  <2>2. steps' \in [Procs -> Seq(Steps)]
    BY <1>1, <2>1, Update DEF TypeOK, Return, ToDo
  <2> QED  BY <1>1, <2>2 DEF TypeOK, Return, Go
<1>5. AttachInv'
  <2>1. CASE UNCHANGED ebpfVars
    BY <1>1, <2>1 DEF AttachInv, EbpfTypeOK, NumberedInOrder, OldIsOld, BeforeIsFound, NewestInForce, ebpfVars
  <2> QED  BY <1>1, <2>1, TakeAttachInv
<1>6. OnlyMine(p)
  BY <1>2, <1>3 DEF OnlyMine
<1>7. Place(p)'
  <2>1. DOMAIN steps'[p] = {}
    BY <1>2
  <2> QED  BY <1>2, <2>1 DEF Place
<1>8. InAttach(p)' /\ ~Active(p)' /\ apc'[p] = "idle" /\ pc'[p] = "idle" /\ result'[p] # "nil"
  BY <1>2, <1>3 DEF InAttach, Active
<1>9. Mine(p)'
  BY <1>3, <1>7, <1>8 DEF Mine, Promised, InUnit, Guarded, Freezing
<1> QED  BY <1>4, <1>5, <1>6, <1>9, Locally

LEMMA GivenSame ==
    ASSUME NEW p \in Procs, UNCHANGED <<env, req>>
    PROVE  genV2ResourcesProperties(req[p])' = genV2ResourcesProperties(req[p])
BY DEF genV2ResourcesProperties, addCpuQuota, addCpuset, unifiedResToSystemdProps, unifiedProp

(* waitFrozen looks again.                                                 *)
LEMMA WaitStep ==
    ASSUME IInv,
           UNCHANGED <<env, file, unit, frozen, pc, req, steps, stored, result, alone, ebpfVars>>
    PROVE  IInv'
<1> USE DEF ebpfVars
<1>1. TypeOK' /\ AttachInv'
  BY DEF IInv, TypeOK, AttachInv, EbpfTypeOK, NumberedInOrder, OldIsOld, BeforeIsFound, NewestInForce
<1>2. ASSUME NEW p \in Procs PROVE Fit(req[p])' /\ Alone(p)' /\ Mine(p)'
  <2>1. Fit(req[p]) /\ Alone(p) /\ Mine(p)
    BY DEF IInv
  <2>2. Fit(req[p])' /\ Alone(p)' /\ Place(p)' /\ InAttach(p)'
    BY <2>1 DEF Mine, Fit, Alone, Place, InAttach
  <2>3. Active(p)' <=> Active(p)
    BY DEF Active
  <2>4. Promised(p)'
    BY <2>1, <2>3 DEF Mine, Promised, Outcome
  <2>5. InUnit(p)'
    BY <2>1, <2>3, GivenSame DEF Mine, InUnit
  <2>6. Guarded(p)'
    BY <2>1, <2>3 DEF Mine, Guarded, Enforced, NeedsDevices, canSkipEBPFError, Hidden
  <2>7. Freezing(p)'
    BY <2>1 DEF Mine, Freezing, FreezeDue
  <2> QED  BY <2>2, <2>4, <2>5, <2>6, <2>7 DEF Mine
<1> QED  BY <1>1, <1>2 DEF IInv

(* With no change, nothing changes.                                        *)
LEMMA Stutter == ASSUME IInv, UNCHANGED vars PROVE IInv'
BY WaitStep DEF vars, cgVars

(* A step is done, and the next one is to do.                              *)
LEMMA PopStep ==
    ASSUME IInv, NEW p \in Procs, pc[p] \in {"set", "freeze"}, steps[p] # <<>>, ToDo(p, Tail(steps[p])),
           UNCHANGED <<env, unit, frozen, pc, req, stored, result, alone>>,
           \/ Performed(Head(steps[p])) /\ Head(steps[p]).k \in {"write", "rsvd"}
           \/ UNCHANGED file /\ Head(steps[p]).k # "write",
           Head(steps[p]).k # "error",
           (UNCHANGED ebpfVars /\ apc[p] = "idle" /\ ares[p] = "none") \/ AtTake(p),
           Head(steps[p]).k = "devices" /\ alone[p] /\ Active(p) /\ NeedsDevices(p) => Enforced(p),
           Head(steps[p]).k = "freeze" => Head(steps[p]).v # 1,
           Head(steps[p]).k = "check" /\ Head(steps[p]).v = 1 => frozen
    PROVE  IInv'
<1> DEFINE s == steps[p]
           t == Tail(s)
<1>1. TypeOK /\ AttachInv /\ Mine(p)
  BY DEF IInv
<1>2. s \in Seq(Steps) /\ s # <<>>
  BY <1>1 DEF TypeOK
<1>3. steps' \in [Procs -> Seq(Steps)] /\ steps'[p] = t /\ \A q \in Procs \ {p} : steps'[q] = steps[q]
  BY <1>1, <1>2, TailFacts, Update DEF TypeOK, ToDo
<1> HIDE DEF s
<1>4. /\ Head(s) = s[1] /\ 1 \in DOMAIN s /\ Head(s) \in Steps /\ t \in Seq(Steps)
      /\ \A i \in DOMAIN t : i \in Nat /\ i > 0 /\ i + 1 \in DOMAIN s /\ t[i] = s[i + 1]
  BY <1>2, TailFacts
<1>5. /\ \A k : Head(s).k # k => (Has(t, k) <=> Has(s, k))
      /\ NamesIn(t) \subseteq NamesIn(s)
  BY <1>2, TailHas
<1> HIDE DEF t
<1>6. apc' = apc /\ want' = want /\ ares'[p] = "none" /\ apc[p] = "idle" /\ \A q \in Procs \ {p} : ares'[q] = ares[q]
  BY <1>1 DEF AttachInv, EbpfTypeOK, ebpfVars, AtTake
<1>7. attached' = attached /\ policy' = policy /\ newest' = newest
  BY DEF ebpfVars, AtTake
<1>8. file' \in [Files -> Values]
  BY <1>1, <1>4 DEF TypeOK, Performed, Steps, s
<1>9. TypeOK'
  BY <1>1, <1>3, <1>8 DEF TypeOK
<1>10. AttachInv'
  <2>1. CASE UNCHANGED ebpfVars
    BY <1>1, <2>1 DEF AttachInv, EbpfTypeOK, NumberedInOrder, OldIsOld, BeforeIsFound, NewestInForce, ebpfVars
  <2> QED  BY <1>1, <2>1, TakeAttachInv
<1>11. OnlyMine(p)
  BY <1>3, <1>6 DEF OnlyMine
<1>12. Active(p)' <=> Active(p)
  BY DEF Active
<1>13. Place(p)'
  <2>1. \A i \in DOMAIN t : t[i].k # "check"
    BY <1>1, <1>4 DEF Mine, Place, s
  <2>2. \A i \in DOMAIN t : /\ t[i].k \in {"freeze", "check"} => t[i].f = "cgroup.freeze"
                            /\ pc[p] = "freeze" => t[i].k \in {"freeze", "check", "error"}
    BY <1>1, <1>4 DEF Mine, Place, s
  <2> QED  BY <1>1, <1>3, <2>1, <2>2 DEF Mine, Place
<1>14. InAttach(p)'
  BY <1>6 DEF InAttach
<1>15. Promised(p)'
  <2>1. SUFFICES ASSUME alone[p], Active(p), ~Has(t, "error")
                 PROVE  /\ ~SwapErr(req[p].swap, req[p].memory)
                        /\ \A e \in Asked(req[p]) : LastWrite(t, e.f, e.v) \/ (file'[e.f] = e.v /\ e.f \notin NamesIn(t))
    BY <1>3, <1>12 DEF Promised, Outcome
  <2>2. ~Has(s, "error")
    BY <1>5, <2>1 DEF s
  <2>3. ~SwapErr(req[p].swap, req[p].memory) /\ \A e \in Asked(req[p]) : Outcome(s, e.f, e.v)
    BY <1>1, <2>1, <2>2 DEF Mine, Promised, s
  <2>4. ASSUME NEW e \in Asked(req[p]) PROVE LastWrite(t, e.f, e.v) \/ (file'[e.f] = e.v /\ e.f \notin NamesIn(t))
    <3>1. Outcome(s, e.f, e.v)
      BY <2>3
    <3>2. e.f \in Files
      BY <1>1, AskedFiles DEF TypeOK
    <3>3. Performed(Head(s)) \/ (Head(s).k # "write" /\ UNCHANGED file)
      BY DEF s
    <3> QED  BY <1>1, <1>2, <3>1, <3>2, <3>3, PopOutcome DEF TypeOK, t
  <2> QED  BY <2>3, <2>4
<1>16. InUnit(p)'
  BY <1>1, <1>12, GivenSame DEF Mine, InUnit
<1>17. Guarded(p)'
  <2>1. Enforced(p)' <=> Enforced(p)
    BY <1>7 DEF Enforced, Hidden
  <2>2. NeedsDevices(p)' <=> NeedsDevices(p)
    BY DEF NeedsDevices, canSkipEBPFError
  <2>3. ASSUME alone[p], Active(p), NeedsDevices(p) PROVE Has(t, "devices") \/ Enforced(p)
    <3>1. Has(s, "devices") \/ Enforced(p)
      BY <1>1, <2>3 DEF Mine, Guarded, s
    <3> QED  BY <1>5, <2>3, <3>1 DEF s
  <2> QED  BY <1>3, <1>6, <1>12, <2>1, <2>2, <2>3 DEF Guarded
<1>18. Freezing(p)'
  <2>1. SUFFICES ASSUME alone[p], AsksToFreeze(req[p]), ~Has(t, "error")
                 PROVE  /\ \/ Has(t, "freeze")
                           \/ frozen /\ file'["cgroup.freeze"] = 1
                        /\ \A i \in DOMAIN t : t[i].f = "cgroup.freeze" => t[i].k \in {"freeze", "check"} /\ t[i].v = 1
    BY <1>3 DEF Freezing, FreezeDue
  <2>2. ~Has(s, "error")
    BY <1>5, <2>1 DEF s
  <2>3. FreezeDue(p) /\ \A i \in DOMAIN s : s[i].f = "cgroup.freeze" => s[i].k \in {"freeze", "check"} /\ s[i].v = 1
    BY <1>1, <2>1, <2>2 DEF Mine, Freezing, s
  <2>4. \A i \in DOMAIN t : t[i].f = "cgroup.freeze" => t[i].k \in {"freeze", "check"} /\ t[i].v = 1
    BY <1>4, <2>3
  <2>5. Head(s).k # "freeze" /\ (Head(s).k = "check" => Head(s).v = 1 /\ frozen)
    <3>1. Head(s).k \in {"freeze", "check"} => Head(s).v = 1
      BY <1>1, <1>4, <2>3 DEF Mine, Place, s
    <3> QED  BY <3>1 DEF s
  <2>6. file'["cgroup.freeze"] = file["cgroup.freeze"]
    <3>1. Performed(Head(s)) /\ Head(s).k \in {"write", "rsvd"} => Head(s).f # "cgroup.freeze"
      BY <1>4, <2>3
    <3>2. "cgroup.freeze" \in Files
      BY FileFacts DEF KnownFiles
    <3> QED  BY <1>1, <3>1, <3>2 DEF Performed, TypeOK, s
  <2>7. Has(t, "freeze") \/ (frozen /\ file["cgroup.freeze"] = 1)
    BY <1>5, <2>3, <2>5 DEF FreezeDue, s
  <2> QED  BY <2>4, <2>6, <2>7
<1> QED  BY <1>9, <1>10, <1>11, <1>13, <1>14, <1>15, <1>16, <1>17, <1>18, Locally, <1>1 DEF Mine

(* The freeze is written, and is now waited for.                           *)
LEMMA FreezeWritten ==
    ASSUME IInv, NEW p \in Procs, AtStep(p, "freeze"), Performed(Head(steps[p])),
           ToDo(p, <<Step("check", Head(steps[p]).f, Head(steps[p]).v)>> \o Tail(steps[p])),
           UNCHANGED <<env, unit, frozen, pc, req, stored, result, alone, ebpfVars>>
    PROVE  IInv'
<1> DEFINE s == steps[p]
           h == Head(s)
           c == Step("check", h.f, h.v)
           one == <<c>>
           t == one \o Tail(s)
<1>1. TypeOK /\ AttachInv /\ Mine(p)
  BY DEF IInv
<1>2. s \in Seq(Steps) /\ s # <<>> /\ h.k = "freeze" /\ pc[p] \in {"set", "freeze"}
  BY <1>1 DEF TypeOK, AtStep
<1>3. /\ h = s[1] /\ 1 \in DOMAIN s /\ h \in Steps /\ Tail(s) \in Seq(Steps)
      /\ \A i \in DOMAIN Tail(s) : i \in Nat /\ i > 0 /\ i + 1 \in DOMAIN s /\ Tail(s)[i] = s[i + 1]
  BY <1>2, TailFacts
<1>4. h.f = "cgroup.freeze"
  BY <1>1, <1>2, <1>3 DEF Mine, Place
<1>5. "check" \in Kinds /\ h.f \in Files \cup {NoFile} /\ h.v \in Values /\ "cgroup.freeze" \in Files
  BY <1>3, FileFacts DEF Kinds, Steps, KnownFiles
<1>6. /\ one \in Seq(Steps) /\ NamesIn(one) = {h.f} /\ DOMAIN one = {1}
      /\ one[1].k = "check" /\ one[1].f = h.f /\ one[1].v = h.v
  <2> HIDE DEF h
  <2> QED  BY <1>5, OneStep
<1>7. c \in Steps /\ c.k = "check" /\ c.f = h.f /\ c.v = h.v
  BY <1>5 DEF Step, Steps
<1>8. steps' = [steps EXCEPT ![p] = t]
  BY DEF ToDo
<1>9. /\ \A k : Head(s).k # k => (Has(Tail(s), k) <=> Has(s, k))
  BY <1>2, TailHas
<1>10. \A f \in Files : \A v : Outcome(s, f, v) => LastWrite(t, f, v) \/ (file'[f] = v /\ f \notin NamesIn(t))
  BY <1>1, <1>2, <1>7, CheckOutcome DEF TypeOK
<1> HIDE DEF c, one
<1>11. /\ t \in Seq(Steps) /\ \A k : Has(t, k) <=> Has(one, k) \/ Has(Tail(s), k)
       /\ \A i \in DOMAIN t : (i \in DOMAIN one /\ t[i] = one[i]) \/ (i - Len(one) \in DOMAIN Tail(s) /\ t[i] = Tail(s)[i - Len(one)])
       /\ \A i \in DOMAIN one : i \in DOMAIN t /\ t[i] = one[i]
  BY <1>3, <1>6, ConcatFacts, ConcatHas
<1>12. t # <<>> /\ Head(t) = t[1] /\ t[1] = one[1]
  <2>1. 1 \in DOMAIN t /\ t[1] = one[1]
    BY <1>6, <1>11
  <2> HIDE DEF t
  <2> QED  BY <2>1
<1> HIDE DEF t, s, h
<1>13. steps' \in [Procs -> Seq(Steps)] /\ steps'[p] = t /\ \A q \in Procs \ {p} : steps'[q] = steps[q]
  BY <1>1, <1>8, <1>11, Update DEF TypeOK
<1>14. TypeOK'
  <2>1. file' \in [Files -> Values]
    BY <1>1, <1>5 DEF TypeOK, Performed, h, s
  <2> QED  BY <1>1, <1>13, <2>1 DEF TypeOK
<1>15. AttachInv'
  BY <1>1 DEF AttachInv, EbpfTypeOK, NumberedInOrder, OldIsOld, BeforeIsFound, NewestInForce, ebpfVars
<1>16. OnlyMine(p)
  BY <1>13 DEF OnlyMine, ebpfVars
<1>17. Active(p)' <=> Active(p)
  BY DEF Active
<1>18. apc[p] = "idle" /\ ares[p] = "none"
  BY <1>1, <1>2 DEF Mine, InAttach, h, s
<1>19. \A i \in DOMAIN t : (i = 1 /\ t[i] = one[1]) \/ \E j \in DOMAIN s : j # 1 /\ t[i] = s[j]
  <2>1. \A i \in DOMAIN Tail(s) : i + 1 \in DOMAIN s /\ i + 1 # 1 /\ Tail(s)[i] = s[i + 1]
    BY <1>3
  <2> QED  BY <1>6, <1>11, <2>1
<1>20. Place(p)'
  <2>1. ASSUME NEW i \in DOMAIN t
        PROVE  /\ t[i].k = "check" => i = 1
               /\ t[i].k \in {"freeze", "check"} => t[i].f = "cgroup.freeze"
               /\ pc[p] = "freeze" => t[i].k \in {"freeze", "check", "error"}
    <3>1. CASE i = 1 /\ t[i] = one[1]
      BY <1>4, <1>6, <3>1
    <3>2. CASE \E j \in DOMAIN s : j # 1 /\ t[i] = s[j]
      BY <1>1, <3>2 DEF Mine, Place, s
    <3> QED  BY <1>19, <3>1, <3>2
  <2> QED  BY <1>1, <1>2, <1>13, <2>1 DEF Mine, Place
<1>21. InAttach(p)'
  BY <1>18 DEF InAttach, ebpfVars
<1>22. Promised(p)'
  <2>1. SUFFICES ASSUME alone[p], Active(p), ~Has(t, "error")
                 PROVE  /\ ~SwapErr(req[p].swap, req[p].memory)
                        /\ \A e \in Asked(req[p]) : LastWrite(t, e.f, e.v) \/ (file'[e.f] = e.v /\ e.f \notin NamesIn(t))
    BY <1>13, <1>17 DEF Promised, Outcome
  <2>2. ~Has(s, "error")
    BY <1>2, <1>9, <1>11, <2>1 DEF h
  <2>3. ~SwapErr(req[p].swap, req[p].memory) /\ \A e \in Asked(req[p]) : Outcome(s, e.f, e.v)
    BY <1>1, <2>1, <2>2 DEF Mine, Promised, s
  <2>4. \A e \in Asked(req[p]) : e.f \in Files
    BY <1>1, AskedFiles DEF TypeOK
  <2> QED  BY <1>10, <2>3, <2>4
<1>23. InUnit(p)'
  BY <1>1, <1>17, GivenSame DEF Mine, InUnit
<1>24. Guarded(p)'
  <2>1. (Enforced(p)' <=> Enforced(p)) /\ (NeedsDevices(p)' <=> NeedsDevices(p))
    BY DEF Enforced, Hidden, NeedsDevices, canSkipEBPFError, ebpfVars
  <2>2. Has(s, "devices") => Has(t, "devices")
    BY <1>2, <1>9, <1>11 DEF h
  <2> QED  BY <1>1, <1>13, <1>17, <1>18, <2>1, <2>2 DEF Mine, Guarded, ebpfVars, s
<1>25. Freezing(p)'
  <2>1. SUFFICES ASSUME alone[p], AsksToFreeze(req[p]), ~Has(t, "error")
                 PROVE  /\ Head(t).k = "check" /\ file'["cgroup.freeze"] = 1
                        /\ \A i \in DOMAIN t : t[i].f = "cgroup.freeze" => t[i].k \in {"freeze", "check"} /\ t[i].v = 1
    BY <1>12, <1>13 DEF Freezing, FreezeDue
  <2>2. ~Has(s, "error")
    BY <1>2, <1>9, <1>11, <2>1 DEF h
  <2>3. \A i \in DOMAIN s : s[i].f = "cgroup.freeze" => s[i].k \in {"freeze", "check"} /\ s[i].v = 1
    BY <1>1, <1>2, <2>1, <2>2 DEF Mine, Freezing, s
  <2>4. h.v = 1
    BY <1>3, <1>4, <2>3
  <2>5. file'["cgroup.freeze"] = 1
    BY <1>1, <1>4, <1>5, <2>4 DEF Performed, TypeOK, h, s
  <2>6. \A i \in DOMAIN t : t[i].f = "cgroup.freeze" => t[i].k \in {"freeze", "check"} /\ t[i].v = 1
    BY <1>6, <1>19, <2>3, <2>4
  <2> QED  BY <1>6, <1>12, <2>5, <2>6
<1> QED  BY <1>1, <1>2, <1>14, <1>15, <1>16, <1>20, <1>21, <1>22, <1>23, <1>24, <1>25, Locally DEF Mine

-----------------------------------------------------------------------------
(* The step that attaches a program.                                       *)

LEMMA FilterTyped == ASSUME NEW emu PROVE Filter(emu) \in SUBSET Accesses
BY UnifiedAssumption DEF Filter

(* What a step of the attach protocol does to whole calls.                 *)
AttachOf(p) ==
    /\ UNCHANGED <<env, file, unit, frozen, pc, req, steps, stored, result, alone>>
    /\ \A q \in Procs \ {p} : apc'[q] = apc[q] /\ ares'[q] = ares[q] /\ want'[q] = want[q]

LEMMA AttachMine ==
    ASSUME IInv, NEW p \in Procs, AttachOf(p), pc[p] # "idle", AttachInv', InAttach(p)', Guarded(p)'
    PROVE  IInv'
<1>1. TypeOK /\ Mine(p)
  BY DEF IInv
<1>2. TypeOK' /\ OnlyMine(p)
  BY <1>1 DEF TypeOK, OnlyMine, AttachOf
<1>3. Active(p)' <=> Active(p)
  BY DEF Active, AttachOf
<1>4. Place(p)' /\ Promised(p)'
  BY <1>1, <1>3 DEF Mine, Place, Promised, Outcome, AttachOf
<1>5. InUnit(p)'
  BY <1>1, <1>3, GivenSame DEF Mine, InUnit, AttachOf
<1>6. Freezing(p)'
  BY <1>1 DEF Mine, Freezing, FreezeDue, AttachOf
<1> QED  BY <1>2, <1>4, <1>5, <1>6, Locally DEF Mine

(* The call.                                                               *)
LEMMA DevicesCall ==
    ASSUME IInv, NEW p \in Procs, AtStep(p, "devices"), AtCall(p, Filter(Emulate(req[p].rules).emu)),
           UNCHANGED <<env, file, unit, frozen, pc, req, steps, stored, result, alone>>
    PROVE  IInv'
<1> DEFINE filter == Filter(Emulate(req[p].rules).emu)
<1>1. TypeOK /\ AttachInv /\ Mine(p)
  BY DEF IInv
<1>2. pc[p] \in {"set", "freeze"} /\ steps[p] # <<>> /\ Head(steps[p]).k = "devices"
  BY DEF AtStep
<1>3. pc[p] = "set"
  <2>1. Head(steps[p]) = steps[p][1] /\ 1 \in DOMAIN steps[p]
    BY <1>1, <1>2, TailFacts DEF TypeOK
  <2> QED  BY <1>1, <1>2, <2>1 DEF Mine, Place
<1>4. filter \in SUBSET Accesses
  BY FilterTyped
<1>5. AttachInv'
  BY <1>1, <1>4, CallAttachInv
<1> HIDE DEF filter
<1>6. /\ apc'[p] = "query" /\ want'[p] = filter /\ ares'[p] = "none"
      /\ \A q \in Procs \ {p} : apc'[q] = apc[q] /\ ares'[q] = ares[q] /\ want'[q] = want[q]
      /\ UNCHANGED <<attached, policy, newest, old>>
  BY <1>1 DEF AttachInv, EbpfTypeOK, AtCall, filter
<1>7. AttachOf(p)
  BY <1>6 DEF AttachOf
<1>8. InAttach(p)'
  BY <1>2, <1>3, <1>6 DEF InAttach, filter
<1>9. Guarded(p)'
  <2>1. Has(steps[p], "devices")
    BY <1>1, <1>2, TailFacts DEF TypeOK, Has
  <2> QED  BY <1>6, <2>1 DEF Guarded
<1> QED  BY <1>2, <1>5, <1>7, <1>8, <1>9, AttachMine

(* ... and what follows: with no other call beside, the programs found are *)
(* all that can be opened, and once they are gone only the new one is left. *)
LEMMA AttachSteps ==
    ASSUME IInv, NEW p \in Procs, Attaching(p)
    PROVE  IInv'
<1>1. TypeOK /\ AttachInv /\ InAttach(p) /\ Guarded(p)
  BY DEF IInv, Mine
<1>2. /\ UNCHANGED <<env, file, unit, frozen, pc, req, steps, stored, result, alone>>
      /\ AtWork(p, Hidden, env.haveReplace)
  BY DEF Attaching, cgVars, Hidden
<1>3. Hidden \in SUBSET {0} /\ env.haveReplace \in BOOLEAN
  BY <1>1, UnifiedAssumption DEF TypeOK, Hidden
<1>4. AttachInv'
  BY <1>1, <1>2, <1>3, FindAttachInv, AttachAttachInv, DetachAttachInv, FailsAttachInv DEF AtWork
<1>5. apc[p] # "idle"
  BY <1>2 DEF AtWork, findAttached, Attach, Detach, AtFails
<1>6. /\ pc[p] = "set" /\ steps[p] # <<>> /\ Head(steps[p]).k = "devices"
      /\ want[p] = Filter(Emulate(req[p].rules).emu) /\ ares[p] = "none"
  BY <1>1, <1>5 DEF InAttach
<1>7. /\ \A q \in Procs \ {p} : apc'[q] = apc[q] /\ ares'[q] = ares[q]
      /\ want' = want /\ (apc'[p] # "idle" => ares'[p] = "none")
  BY <1>1, <1>2, <1>6 DEF AttachInv, EbpfTypeOK, AtWork, findAttached, Attach, Detach, AtFails, AtReturn
<1>8. AttachOf(p)
  BY <1>2, <1>7 DEF AttachOf
<1>9. InAttach(p)'
  BY <1>2, <1>6, <1>7 DEF InAttach
<1>10. Guarded(p)'
  <2>1. Has(steps[p], "devices")
    BY <1>1, <1>6, TailFacts DEF TypeOK, Has
  <2>2. SUFFICES ASSUME alone[p]
                 PROVE  /\ apc'[p] = "attach" => old'[p] = attached' \ Hidden
                        /\ apc'[p] = "detach" => newest' # 0 /\ attached' \ Hidden = old'[p] \cup {newest'} /\ policy'[newest'] = want[p]
                        /\ ares'[p] = "nil" => newest' # 0 /\ attached' \ Hidden = {newest'} /\ policy'[newest'] = want[p]
    <3>1. Hidden' = Hidden
      BY <1>2 DEF Hidden
    <3> QED  BY <1>2, <1>6, <1>7, <2>1, <3>1 DEF Guarded, Enforced
  <2>3. newest \in Nat /\ newest \in Numbers /\ old[p] \subseteq Numbers
    BY <1>1 DEF AttachInv, EbpfTypeOK, Numbers
  <2>4. CASE findAttached(p, Hidden, env.haveReplace)
    BY <1>1, <1>6, <2>4 DEF AttachInv, EbpfTypeOK, findAttached
  <2>5. CASE Attach(p)
    <3> DEFINE n == newest + 1
    <3>1. n # 0 /\ n \in Numbers /\ n \notin Hidden
      BY <1>3, <2>3, <2>5, EbpfAssumption DEF Attach, Numbers
    <3>2. old[p] = attached \ Hidden
      BY <1>1, <2>2, <2>5 DEF Guarded, Attach
    <3>3. newest' = n /\ policy'[n] = want[p]
      BY <1>1, <2>5, <3>1 DEF AttachInv, EbpfTypeOK, Attach
    <3>4. CASE replace[p]
      <4>1. attached' = (attached \ old[p]) \cup {n} /\ apc'[p] = "idle"
        BY <1>1, <2>5, <3>4 DEF AttachInv, EbpfTypeOK, Attach, AtReturn
      <4>2. attached' \ Hidden = {n}
        BY <3>1, <3>2, <4>1
      <4> QED  BY <3>1, <3>3, <4>1, <4>2
    <3>5. CASE ~replace[p]
      <4>1. attached' = attached \cup {n} /\ apc'[p] = "detach" /\ old' = old /\ ares' = ares
        BY <1>1, <2>5, <3>5 DEF AttachInv, EbpfTypeOK, Attach
      <4>2. attached' \ Hidden = old'[p] \cup {n}
        BY <3>1, <3>2, <4>1
      <4> QED  BY <1>6, <3>1, <3>3, <4>1, <4>2
    <3> QED  BY <3>4, <3>5
  <2>6. CASE Detach(p)
    <3>1. newest # 0 /\ attached \ Hidden = old[p] \cup {newest} /\ policy[newest] = want[p]
      BY <1>1, <2>2, <2>6 DEF Guarded, Detach
    <3>2. newest' = newest /\ policy' = policy
      BY <2>6 DEF Detach
    <3>3. CASE old[p] = {}
      BY <1>1, <2>6, <3>1, <3>2, <3>3 DEF AttachInv, EbpfTypeOK, Detach, AtReturn
    <3>4. CASE old[p] # {}
      <4>1. PICK n \in old[p] : /\ attached' = attached \ {n} /\ old' = [old EXCEPT ![p] = @ \ {n}]
                                /\ UNCHANGED <<apc, ares>>
        BY <2>6, <3>4 DEF Detach
      <4>2. old'[p] = old[p] \ {n} /\ apc'[p] = "detach" /\ ares'[p] = "none"
        BY <1>1, <1>6, <2>6, <4>1 DEF AttachInv, EbpfTypeOK, Detach
      <4>3. n # newest
        BY <1>1, <2>3, <2>6 DEF AttachInv, OldIsOld, Detach, Numbers
      <4>4. attached' \ Hidden = old'[p] \cup {newest}
        BY <3>1, <4>1, <4>2, <4>3
      <4> QED  BY <3>1, <3>2, <4>2, <4>4
    <3> QED  BY <3>3, <3>4
  <2>7. CASE AtFails(p)
    BY <1>1, <2>7 DEF AttachInv, EbpfTypeOK, AtFails, AtReturn
  <2> QED  BY <1>2, <2>4, <2>5, <2>6, <2>7 DEF AtWork
<1> QED  BY <1>4, <1>6, <1>8, <1>9, <1>10, AttachMine

-----------------------------------------------------------------------------
(* The other steps of a call.                                              *)

(* All is done.                                                            *)
LEMMA SucceedStep ==
    ASSUME IInv, NEW p \in Procs, Succeed(p)
    PROVE  IInv'
<1>1. TypeOK /\ AttachInv /\ Mine(p)
  BY DEF IInv
<1>2. pc[p] \in {"set", "freeze"} /\ steps[p] = <<>> /\ UNCHANGED <<env, file, unit, frozen, req, alone, ebpfVars>>
  BY DEF Succeed
<1>3. /\ pc'[p] = "idle" /\ result'[p] = "nil" /\ steps'[p] = <<>>
      /\ \A q \in Procs \ {p} : pc'[q] = pc[q] /\ steps'[q] = steps[q]
  BY <1>1 DEF TypeOK, Succeed, Return, Go, ToDo
<1>4. TypeOK'
  <2>1. <<>> \in Seq(Steps)
    OBVIOUS
  <2>2. steps' \in [Procs -> Seq(Steps)]
    BY <1>1, <2>1, Update DEF TypeOK, Succeed, Return, ToDo
  <2> QED  BY <1>1, <1>2, <2>2 DEF TypeOK, Succeed, Return, Go
<1>5. AttachInv'
  BY <1>1, <1>2 DEF AttachInv, EbpfTypeOK, NumberedInOrder, OldIsOld, BeforeIsFound, NewestInForce, ebpfVars
<1>6. OnlyMine(p)
  BY <1>2, <1>3 DEF OnlyMine, ebpfVars
<1>7. DOMAIN <<>> = {}
  OBVIOUS
<1>8. Place(p)'
  BY <1>3, <1>7 DEF Place
<1>9. apc[p] = "idle" /\ ares[p] = "none"
  BY <1>1, <1>2 DEF Mine, InAttach
<1>10. InAttach(p)'
  BY <1>2, <1>9 DEF InAttach, ebpfVars
<1>11. Active(p)' => Active(p)
  BY <1>1, <1>2, <1>3 DEF Active, Mine, Place
<1>12. Promised(p)'
  BY <1>1, <1>2, <1>3, <1>11 DEF Mine, Promised, Outcome
<1>13. InUnit(p)'
  BY <1>1, <1>2, <1>3, <1>11, GivenSame DEF Mine, InUnit
<1>14. Guarded(p)'
  <2>1. (Enforced(p)' <=> Enforced(p)) /\ (NeedsDevices(p)' <=> NeedsDevices(p))
    BY <1>2 DEF Enforced, Hidden, NeedsDevices, canSkipEBPFError, ebpfVars
  <2> QED  BY <1>1, <1>2, <1>3, <1>9, <1>11, <2>1 DEF Mine, Guarded, ebpfVars
<1>15. Freezing(p)'
  BY <1>1, <1>2, <1>3 DEF Mine, Freezing, FreezeDue
<1> QED  BY <1>2, <1>4, <1>5, <1>6, <1>8, <1>10, <1>12, <1>13, <1>14, <1>15, Locally DEF Mine

(* fs2's steps are laid out.                                               *)
LEMMA FsSetStep ==
    ASSUME IInv, NEW p \in Procs, FsSet(p)
    PROVE  IInv'
<1>1. TypeOK /\ AttachInv /\ Mine(p) /\ Fit(req[p])
  BY DEF IInv
<1>2. pc[p] = "controllers" /\ UNCHANGED <<env, file, unit, frozen, req, result, stored, alone, ebpfVars>>
  BY DEF FsSet
<1>3. PICK order \in Bijection(1..Cardinality(req[p].unified), req[p].unified) : ToDo(p, SetSteps(req[p], order))
  BY DEF FsSet
<1> DEFINE s == SetSteps(req[p], order)
<1>4. /\ s \in Seq(Steps)
      /\ Has(s, "devices")
      /\ \A i \in DOMAIN s : s[i].k # "check" /\ (s[i].k = "freeze" => s[i].f = "cgroup.freeze")
      /\ Has(s, "error") \/ (~SwapErr(req[p].swap, req[p].memory) /\ \A e \in Asked(req[p]) : LastWrite(s, e.f, e.v))
      /\ req[p].freezer = "FROZEN" => Has(s, "freeze")
      /\ AsksToFreeze(req[p]) /\ req[p].set =>
            \A i \in DOMAIN s : s[i].f = "cgroup.freeze" => s[i].k = "freeze" /\ s[i].v = 1
  <2>1. req[p] \in Resources
    BY <1>1 DEF TypeOK
  <2> QED  BY <1>1, <2>1, StepsOfSet
<1>5. steps' = [steps EXCEPT ![p] = s]
  BY <1>3 DEF ToDo
<1> HIDE DEF s
<1>6. steps' \in [Procs -> Seq(Steps)] /\ steps'[p] = s /\ \A q \in Procs \ {p} : steps'[q] = steps[q]
  BY <1>1, <1>4, <1>5, Update DEF TypeOK
<1>7. pc' \in [Procs -> {"idle", "props", "controllers", "set", "freeze"}] /\ pc'[p] = "set" /\ \A q \in Procs \ {p} : pc'[q] = pc[q]
  BY <1>1 DEF TypeOK, FsSet, Go
<1>8. TypeOK'
  BY <1>1, <1>2, <1>6, <1>7 DEF TypeOK
<1>9. AttachInv'
  BY <1>1, <1>2 DEF AttachInv, EbpfTypeOK, NumberedInOrder, OldIsOld, BeforeIsFound, NewestInForce, ebpfVars
<1>10. OnlyMine(p)
  BY <1>2, <1>6, <1>7 DEF OnlyMine, ebpfVars
<1>11. req[p].set
  BY <1>1, <1>2 DEF Mine, Place
<1>12. Place(p)'
  BY <1>2, <1>4, <1>6, <1>7, <1>11 DEF Place
<1>13. apc[p] = "idle" /\ ares[p] = "none"
  BY <1>1, <1>2 DEF Mine, InAttach
<1>14. InAttach(p)'
  BY <1>2, <1>13 DEF InAttach, ebpfVars
<1>15. Promised(p)'
  BY <1>2, <1>4, <1>6 DEF Promised, Outcome
<1>16. InUnit(p)'
  BY <1>1, <1>2, GivenSame DEF Mine, InUnit
<1>17. Guarded(p)'
  BY <1>2, <1>4, <1>6, <1>13 DEF Guarded, ebpfVars
<1>18. Freezing(p)'
  BY <1>2, <1>4, <1>6, <1>11 DEF Freezing, FreezeDue, AsksToFreeze
<1> QED  BY <1>2, <1>8, <1>9, <1>10, <1>12, <1>14, <1>15, <1>16, <1>17, <1>18, Locally DEF Mine

(* systemd has the properties.                                             *)
LEMMA SetPropertiesStep ==
    ASSUME IInv, NEW p \in Procs, SetProperties(p), ~PropertiesErr(req[p])
    PROVE  IInv'
<1> DEFINE r == req[p]
           props == genV2ResourcesProperties(r)
           allows == generateDeviceProperties(Emulate(r.rules).emu, env)
<1>1. TypeOK /\ AttachInv /\ Mine(p) /\ Fit(r)
  BY DEF IInv
<1>2. /\ pc[p] = "props" /\ UNCHANGED <<env, frozen, req, stored, alone, steps, result>>
      /\ unit' = UnitWith(props) /\ file' = SystemdFiles(props, unit')
      /\ UNCHANGED ebpfVars \/ SystemdAttach(allows)
      /\ Go(p, "controllers")
  BY DEF SetProperties
<1>3. r \in Resources
  BY <1>1 DEF TypeOK
<1>4. unit' \in [Files -> Int] /\ \A e \in props : unit'[e.f] = e.v
  BY <1>1, <1>2, <1>3, UnitTyped DEF TypeOK
<1>5. file' \in [Files -> Values]
  BY <1>1, <1>2, <1>4, SystemdTyped DEF TypeOK
<1>6. allows \in SUBSET Accesses
  BY UnifiedAssumption DEF generateDeviceProperties
<1>7. pc' \in [Procs -> {"idle", "props", "controllers", "set", "freeze"}] /\ pc'[p] = "controllers" /\ \A q \in Procs \ {p} : pc'[q] = pc[q]
  BY <1>1, <1>2 DEF TypeOK, Go
<1>8. TypeOK'
  BY <1>1, <1>2, <1>4, <1>5, <1>7 DEF TypeOK
<1>9. AttachInv'
  <2>1. CASE UNCHANGED ebpfVars
    BY <1>1, <2>1 DEF AttachInv, EbpfTypeOK, NumberedInOrder, OldIsOld, BeforeIsFound, NewestInForce, ebpfVars
  <2>2. CASE SystemdAttach(allows)
    BY <1>1, <1>6, <2>2, SystemdAttachInv
  <2> QED  BY <1>2, <2>1, <2>2
<1>10. UNCHANGED <<apc, ares, want>>
  BY <1>2 DEF SystemdAttach, ebpfVars
<1>11. OnlyMine(p)
  BY <1>2, <1>7, <1>10 DEF OnlyMine
<1>12. steps[p] = <<>> /\ r.set /\ apc[p] = "idle" /\ ares[p] = "none"
  BY <1>1, <1>2 DEF Mine, Place, InAttach
<1>13. DOMAIN <<>> = {}
  OBVIOUS
<1>14. Place(p)'
  BY <1>2, <1>7, <1>12, <1>13 DEF Place
<1>15. InAttach(p)'
  BY <1>10, <1>12 DEF InAttach
<1>16. ~Active(p)'
  BY <1>7 DEF Active
<1>17. InUnit(p)'
  <2>1. genV2ResourcesProperties(req[p])' = props
    BY <1>2, GivenSame
  <2> HIDE DEF props
  <2> QED  BY <1>4, <2>1 DEF InUnit
<1>18. Promised(p)' /\ Guarded(p)' /\ Freezing(p)'
  BY <1>7, <1>10, <1>12, <1>16 DEF Promised, Guarded, Freezing
<1> QED  BY <1>2, <1>8, <1>9, <1>11, <1>14, <1>15, <1>17, <1>18, Locally DEF Mine

(* fs2's steps.                                                            *)
LEMMA StepFacts ==
    ASSUME IInv, NEW p \in Procs, NEW k, AtStep(p, k)
    PROVE  /\ pc[p] # "idle" /\ steps[p] # <<>> /\ Head(steps[p]).k = k
           /\ k # "devices" => apc[p] = "idle" /\ ares[p] = "none"
BY DEF IInv, Mine, AtStep, InAttach

LEMMA WriteSteps ==
    ASSUME IInv, NEW p \in Procs, WriteFile(p) \/ WriteRsvd(p)
    PROVE  IInv'
<1>1. PICK k \in {"write", "rsvd"} : /\ AtStep(p, k)
                                    /\ \/ Performed(Head(steps[p]))
                                       \/ UNCHANGED file /\ k = "rsvd"
  BY DEF WriteFile, WriteRsvd
<1>2. /\ ToDo(p, Tail(steps[p]))
      /\ UNCHANGED <<env, unit, frozen, pc, req, stored, result, alone, ebpfVars>>
  BY DEF WriteFile, WriteRsvd
<1> QED  BY <1>1, <1>2, StepFacts, PopStep DEF AtStep

LEMMA RefuseStep == ASSUME IInv, NEW p \in Procs, Refuse(p) PROVE IInv'
BY StepFacts, ErrReturn DEF Refuse

LEMMA FailsStep == ASSUME IInv, NEW p \in Procs, Fails(p) PROVE IInv'
<1>1. pc[p] # "idle" /\ apc[p] = "idle" /\ ares[p] = "none"
  <2>1. CASE pc[p] \in {"props", "controllers"}
    BY <2>1 DEF IInv, Mine, InAttach
  <2> QED  BY <2>1, StepFacts DEF Fails
<1> QED  BY <1>1, ErrReturn DEF Fails

LEMMA SetDevicesStep == ASSUME IInv, NEW p \in Procs, SetDevices(p) PROVE IInv'
<1> DEFINE emu == Emulate(req[p].rules)
<1>1. /\ AtStep(p, "devices") /\ apc[p] = "idle" /\ ares[p] = "none"
      /\ UNCHANGED <<env, file, unit, frozen, req, stored, alone>>
  BY DEF SetDevices
<1>2. pc[p] # "idle" /\ pc[p] \in {"set", "freeze"} /\ steps[p] # <<>> /\ Head(steps[p]).k = "devices"
  BY <1>1 DEF AtStep
<1>3. \/ /\ req[p].skipDevices \/ env.rootless
         /\ ToDo(p, Tail(steps[p])) /\ UNCHANGED <<pc, result, ebpfVars>>
      \/ Return(p, "err") /\ UNCHANGED ebpfVars
      \/ AtCall(p, Filter(emu.emu)) /\ UNCHANGED <<pc, steps, result>>
  BY DEF SetDevices
<1> HIDE DEF emu
<1>4. CASE /\ req[p].skipDevices \/ env.rootless
           /\ ToDo(p, Tail(steps[p])) /\ UNCHANGED <<pc, result, ebpfVars>>
  <2>1. ~NeedsDevices(p)
    BY <1>4 DEF NeedsDevices
  <2> QED  BY <1>1, <1>2, <1>4, <2>1, PopStep
<1>5. CASE Return(p, "err") /\ UNCHANGED ebpfVars
  BY <1>1, <1>2, <1>5, ErrReturn
<1>6. CASE AtCall(p, Filter(emu.emu)) /\ UNCHANGED <<pc, steps, result>>
  BY <1>1, <1>6, DevicesCall DEF emu
<1> QED  BY <1>3, <1>4, <1>5, <1>6

LEMMA DevicesSetStep == ASSUME IInv, NEW p \in Procs, DevicesSet(p) PROVE IInv'
<1>1. /\ AtStep(p, "devices") /\ AtTake(p)
      /\ UNCHANGED <<env, file, unit, frozen, req, stored, alone>>
  BY DEF DevicesSet
<1>2. pc[p] # "idle" /\ pc[p] \in {"set", "freeze"} /\ steps[p] # <<>> /\ Head(steps[p]).k = "devices" /\ apc[p] = "idle"
  BY <1>1 DEF AtStep, AtTake
<1>3. CASE ares[p] = "nil" \/ canSkipEBPFError(req[p]) \/ env.rootless
  <2>1. ToDo(p, Tail(steps[p])) /\ UNCHANGED <<pc, result>>
    BY <1>3 DEF DevicesSet
  <2>2. alone[p] /\ Active(p) /\ NeedsDevices(p) => Enforced(p)
    BY <1>3 DEF IInv, Mine, Guarded, NeedsDevices
  <2> QED  BY <1>1, <1>2, <2>1, <2>2, PopStep
<1>4. CASE ~(ares[p] = "nil" \/ canSkipEBPFError(req[p]) \/ env.rootless)
  <2>1. Return(p, "err")
    BY <1>4 DEF DevicesSet
  <2> QED  BY <1>1, <1>2, <2>1, ErrReturn
<1> QED  BY <1>3, <1>4

LEMMA WriteFreezeStep == ASSUME IInv, NEW p \in Procs, WriteFreeze(p) PROVE IInv'
<1>1. /\ AtStep(p, "freeze")
      /\ UNCHANGED <<env, unit, frozen, pc, req, stored, result, alone, ebpfVars>>
  BY DEF WriteFreeze
<1>2. /\ pc[p] # "idle" /\ pc[p] \in {"set", "freeze"} /\ steps[p] # <<>> /\ Head(steps[p]).k = "freeze"
      /\ apc[p] = "idle" /\ ares[p] = "none"
  BY <1>1, StepFacts DEF AtStep
<1>3. CASE /\ Performed(Head(steps[p]))
           /\ ToDo(p, <<Step("check", Head(steps[p]).f, Head(steps[p]).v)>> \o Tail(steps[p]))
  BY <1>1, <1>3, FreezeWritten
<1>4. CASE Head(steps[p]).v = 0 /\ ToDo(p, Tail(steps[p])) /\ UNCHANGED file
  BY <1>1, <1>2, <1>4, PopStep
<1> QED  BY <1>3, <1>4 DEF WriteFreeze

LEMMA CheckFreezeStep == ASSUME IInv, NEW p \in Procs, CheckFreeze(p) PROVE IInv'
<1>1. /\ AtStep(p, "check")
      /\ UNCHANGED <<env, file, unit, frozen, req, stored, alone, ebpfVars>>
  BY DEF CheckFreeze
<1>2. /\ pc[p] # "idle" /\ pc[p] \in {"set", "freeze"} /\ steps[p] # <<>> /\ Head(steps[p]).k = "check"
      /\ apc[p] = "idle" /\ ares[p] = "none"
  BY <1>1, StepFacts DEF AtStep
<1>3. ASSUME NEW v \in {0, 1}, Saw(p, v), v = 1 => frozen PROVE IInv'
  <2>1. CASE v = Head(steps[p]).v
    <3>1. ToDo(p, Tail(steps[p])) /\ UNCHANGED <<pc, result>>
      BY <1>3, <2>1 DEF Saw
    <3> QED  BY <1>1, <1>2, <1>3, <2>1, <3>1, PopStep
  <2>2. CASE v # Head(steps[p]).v
    <3>1. Return(p, "err")
      BY <1>3, <2>2 DEF Saw
    <3> QED  BY <1>1, <1>2, <3>1, ErrReturn
  <2> QED  BY <2>1, <2>2
<1>4. CASE Return(p, "err")
  BY <1>1, <1>2, <1>4, ErrReturn
<1>5. CASE UNCHANGED <<pc, steps, result>>
  BY <1>1, <1>5, WaitStep
<1>6. Saw(p, 0) \/ (frozen /\ Saw(p, 1)) \/ Return(p, "err") \/ UNCHANGED <<pc, steps, result>>
  BY DEF CheckFreeze
<1> QED  BY <1>3, <1>4, <1>5, <1>6

LEMMA WorkStep == ASSUME IInv, NEW p \in Procs, Work(p) PROVE IInv'
<1>1. ASSUME SetProperties(p) PROVE IInv'
  <2>1. CASE PropertiesErr(req[p])
    <3>1. /\ pc[p] = "props" /\ Return(p, "err")
          /\ UNCHANGED <<env, file, unit, frozen, req, stored, alone, ebpfVars>>
      BY <1>1, <2>1 DEF SetProperties
    <3>2. apc[p] = "idle" /\ ares[p] = "none"
      BY <3>1 DEF IInv, Mine, InAttach
    <3> QED  BY <3>1, <3>2, ErrReturn
  <2> QED  BY <1>1, <2>1, SetPropertiesStep
<1> QED  BY <1>1, FsSetStep, WriteSteps, RefuseStep, SetDevicesStep, AttachSteps, DevicesSetStep, WriteFreezeStep,
            CheckFreezeStep, SucceedStep DEF Work

-----------------------------------------------------------------------------
(* A call begins: no other one is alone any more, and this one is if no    *)
(* other is under way.                                                     *)
LEMMA CallBegins ==
    ASSUME IInv, NEW p \in Procs, Begin(p), UNCHANGED <<env, file, unit, frozen, stored, ebpfVars>>,
           NEW where \in {"props", "controllers", "freeze"}, Go(p, where), where = "controllers" => ~env.systemd,
           NEW r \in Resources, req' = [req EXCEPT ![p] = r], Fit(r), r.set <=> where # "freeze",
           NEW t \in Seq(Steps), steps' = [steps EXCEPT ![p] = t], where # "freeze" => t = <<>>,
           \A i \in DOMAIN t : t[i].k \in {"freeze", "error"} /\ (t[i].k = "freeze" => t[i].f = "cgroup.freeze"),
           where = "freeze" /\ AsksToFreeze(r) =>
               \/ Has(t, "error")
               \/ Has(t, "freeze") /\ \A i \in DOMAIN t : t[i].f = "cgroup.freeze" => t[i].k = "freeze" /\ t[i].v = 1
    PROVE  IInv'
<1>1. TypeOK /\ AttachInv
  BY DEF IInv
<1>2. /\ pc' \in [Procs -> {"idle", "props", "controllers", "set", "freeze"}] /\ pc'[p] = where
      /\ \A q \in Procs \ {p} : pc'[q] = pc[q]
  BY <1>1 DEF TypeOK, Go
<1>3. req' \in [Procs -> Resources] /\ req'[p] = r /\ \A q \in Procs \ {p} : req'[q] = req[q]
  BY <1>1, Update DEF TypeOK
<1>4. steps' \in [Procs -> Seq(Steps)] /\ steps'[p] = t /\ \A q \in Procs \ {p} : steps'[q] = steps[q]
  BY <1>1, Update DEF TypeOK
<1>5. /\ alone' \in [Procs -> BOOLEAN] /\ pc[p] = "idle"
      /\ alone'[p] => \A q \in Procs \ {p} : pc[q] = "idle"
      /\ \A q \in Procs \ {p} : ~alone'[q]
      /\ result' \in [Procs -> {"none", "nil", "err"}]
  <2>1. alone' = [q \in Procs |-> q = p /\ \A o \in Procs \ {p} : pc[o] = "idle"]
    BY DEF Begin
  <2>2. \A q \in Procs : (q = p /\ \A o \in Procs \ {p} : pc[o] = "idle") \in BOOLEAN
    OBVIOUS
  <2> QED  BY <1>1, <2>1, <2>2 DEF TypeOK, Begin
<1>6. TypeOK'
  BY <1>1, <1>2, <1>3, <1>4, <1>5 DEF TypeOK
<1>7. AttachInv'
  BY <1>1 DEF AttachInv, EbpfTypeOK, NumberedInOrder, OldIsOld, BeforeIsFound, NewestInForce, ebpfVars
<1>8. ASSUME NEW q \in Procs \ {p} PROVE Fit(req[q])' /\ Alone(q)' /\ Mine(q)'
  <2>1. Fit(req[q]) /\ Place(q) /\ InAttach(q) /\ ~alone'[q] /\ pc'[q] = pc[q] /\ req'[q] = req[q] /\ steps'[q] = steps[q]
    BY <1>2, <1>3, <1>4, <1>5 DEF IInv, Mine
  <2>2. Fit(req[q])' /\ Alone(q)' /\ Place(q)' /\ InAttach(q)'
    BY <2>1 DEF Fit, Alone, Place, InAttach, ebpfVars
  <2> QED  BY <2>1, <2>2 DEF Mine, Promised, InUnit, Guarded, Freezing
<1>9. Fit(req[p])' /\ Alone(p)'
  BY <1>2, <1>3, <1>5 DEF Fit, Alone
<1>10. apc[p] = "idle" /\ ares[p] = "none"
  BY <1>5 DEF IInv, Mine, InAttach
<1>11. DOMAIN <<>> = {}
  OBVIOUS
<1>12. Place(p)'
  BY <1>2, <1>3, <1>4, <1>11 DEF Place
<1>13. InAttach(p)' /\ apc'[p] = "idle" /\ ares'[p] = "none"
  BY <1>10 DEF InAttach, ebpfVars
<1>14. ~Active(p)'
  BY <1>2 DEF Active
<1>15. InUnit(p)'
  BY <1>2, <1>14 DEF InUnit
<1>16. Freezing(p)'
  BY <1>2, <1>3, <1>4 DEF Freezing, FreezeDue
<1> QED  BY <1>6, <1>7, <1>8, <1>9, <1>12, <1>13, <1>14, <1>15, <1>16 DEF IInv, Mine, Promised, Guarded

LEMMA SetStep == ASSUME IInv, NEW p \in Procs, Set(p) PROVE IInv'
<1>1. PICK r \in Requests : req' = [req EXCEPT ![p] = r]
  BY DEF Set
<1>2. r \in Resources /\ r.set /\ Fit(r)
  BY UnifiedAssumption DEF Fit
<1> DEFINE where == IF env.systemd THEN "props" ELSE "controllers"
<1>3. /\ Begin(p) /\ Go(p, where) /\ UNCHANGED <<env, file, unit, frozen, steps, stored, ebpfVars>>
      /\ where \in {"props", "controllers"} /\ (where = "controllers" => ~env.systemd)
  BY DEF Set
<1> HIDE DEF where
<1>4. steps \in [Procs -> Seq(Steps)] /\ steps[p] = <<>>
  BY <1>3 DEF IInv, TypeOK, Mine, Place, Begin
<1>5. steps' = [steps EXCEPT ![p] = <<>>] /\ <<>> \in Seq(Steps) /\ DOMAIN <<>> = {}
  BY <1>3, <1>4
<1> QED  BY <1>1, <1>2, <1>3, <1>5, CallBegins

LEMMA FreezeStep == ASSUME IInv, NEW p \in Procs, Freeze(p) PROVE IInv'
<1>1. TypeOK /\ Fit(req[p])
  BY DEF IInv
<1>2. PICK state \in {"FROZEN", "THAWED"} :
         /\ req' = [req EXCEPT ![p].freezer = state, ![p].set = FALSE]
         /\ ToDo(p, IF stored[p] THEN setFreezer(state) ELSE <<Bare("error")>>)
  BY DEF Freeze
<1> DEFINE r == [req[p] EXCEPT !.freezer = state, !.set = FALSE]
           t == IF stored[p] THEN setFreezer(state) ELSE <<Bare("error")>>
<1>3. r \in Resources /\ ~r.set /\ r.freezer = state /\ r.unified = req[p].unified
  <2>1. req[p] \in Resources
    BY <1>1 DEF TypeOK
  <2> QED  BY <2>1 DEF Resources
<1>4. req' = [req EXCEPT ![p] = r]
  BY <1>1, <1>2 DEF TypeOK
<1>5. Fit(r)
  BY <1>1, <1>3 DEF Fit
<1>6. steps' = [steps EXCEPT ![p] = t]
  BY <1>2 DEF ToDo
<1>7. /\ t \in Seq(Steps)
      /\ \A i \in DOMAIN t : t[i].k \in {"freeze", "error"} /\ (t[i].k = "freeze" => t[i].f = "cgroup.freeze")
      /\ state = "FROZEN" =>
             \/ Has(t, "error")
             \/ Has(t, "freeze") /\ \A i \in DOMAIN t : t[i].f = "cgroup.freeze" => t[i].k = "freeze" /\ t[i].v = 1
  <2>1. CASE stored[p]
    <3>1. t = setFreezer(state)
      BY <2>1
    <3> HIDE DEF t
    <3> QED  BY <3>1, FreezerSteps
  <2>2. CASE ~stored[p]
    <3>1. t = <<Bare("error")>>
      BY <2>2
    <3> DEFINE s == <<Step("error", NoFile, 0)>>
    <3>2. "error" \in Kinds /\ NoFile \in Files \cup {NoFile} /\ 0 \in Values
      BY DEF Kinds, Values
    <3>3. s \in Seq(Steps) /\ NamesIn(s) = {NoFile} /\ DOMAIN s = {1} /\ s[1].k = "error" /\ Has(s, "error")
      BY <3>2, OneStep
    <3>4. t = s
      BY <3>1 DEF Bare
    <3> HIDE DEF t, s
    <3> QED  BY <3>3, <3>4
  <2> QED  BY <2>1, <2>2
<1> HIDE DEF r, t
<1>8. AsksToFreeze(r) => state = "FROZEN"
  BY <1>3 DEF AsksToFreeze
<1>9. Begin(p) /\ Go(p, "freeze") /\ UNCHANGED <<env, file, unit, frozen, stored, ebpfVars>>
  BY DEF Freeze
<1> QED  BY <1>3, <1>4, <1>5, <1>6, <1>7, <1>8, <1>9, CallBegins

(* The kernel freezes only when cgroup.freeze says so and thaws only when  *)
(* it does not.                                                            *)
LEMMA SettleStep == ASSUME IInv, Settle PROVE IInv'
<1> USE DEF ebpfVars
<1>1. UNCHANGED <<env, file, unit, pc, req, steps, stored, result, alone, ebpfVars>>
  BY DEF Settle
<1>2. TypeOK' /\ AttachInv'
  <2>1. TypeOK'
    BY <1>1 DEF IInv, TypeOK, Settle
  <2>2. AttachInv'
    BY <1>1 DEF IInv, AttachInv, EbpfTypeOK, NumberedInOrder, OldIsOld, BeforeIsFound, NewestInForce
  <2> QED  BY <2>1, <2>2
<1>3. ASSUME NEW p \in Procs PROVE Fit(req[p])' /\ Alone(p)' /\ Mine(p)'
  <2>1. Fit(req[p]) /\ Alone(p) /\ Mine(p)
    BY DEF IInv
  <2>2. Fit(req[p])' /\ Alone(p)' /\ Place(p)' /\ InAttach(p)'
    BY <1>1, <2>1 DEF Mine, Fit, Alone, Place, InAttach
  <2>3. Active(p)' <=> Active(p)
    BY <1>1 DEF Active
  <2>4. Promised(p)'
    BY <1>1, <2>1, <2>3 DEF Mine, Promised, Outcome
  <2>5. InUnit(p)'
    BY <1>1, <2>1, <2>3, GivenSame DEF Mine, InUnit
  <2>6. Guarded(p)'
    BY <1>1, <2>1, <2>3 DEF Mine, Guarded, Enforced, NeedsDevices, canSkipEBPFError, Hidden
  <2>7. FreezeDue(p) => FreezeDue(p)'
    BY <1>1 DEF FreezeDue, Settle
  <2>8. Freezing(p)'
    BY <1>1, <2>1, <2>7 DEF Mine, Freezing
  <2> QED  BY <2>2, <2>4, <2>5, <2>6, <2>8 DEF Mine
<1> QED  BY <1>2, <1>3 DEF IInv

LEMMA NextIInv == IInv /\ [Next]_vars => IInv'
BY SetStep, FreezeStep, WorkStep, FailsStep, SettleStep, Stutter DEF Next, Finished

LEMMA InitIInv == Init => IInv
<1> SUFFICES ASSUME Init PROVE IInv
  OBVIOUS
<1>1. AttachInv
  BY InitAttachInv DEF Init
<1>2. NoLimits \in Resources /\ Fit(NoLimits)
  <2>1. NoLimits \in Resources
    BY DEF NoLimits, Resources, Limit
  <2>2. NoLimits.unified = {}
    BY DEF NoLimits
  <2> QED  BY <2>1, <2>2, FS_EmptySet DEF Fit
<1>3. TypeOK
  <2>1. file \in [Files -> Values]
    BY DEF Init, Values, Infinity, defCPUQuotaPeriod, Unset
  <2>2. req \in [Procs -> Resources]
    BY <1>2 DEF Init
  <2>3. steps \in [Procs -> Seq(Steps)]
    BY DEF Init
  <2>4. unit \in [Files -> Int]
    <3>1. unit = [f \in Files |-> Unset] /\ Unset \in Int
      BY DEF Init, Unset
    <3> QED  BY <3>1
  <2>5. /\ pc \in [Procs -> {"idle", "props", "controllers", "set", "freeze"}]
        /\ stored \in [Procs -> BOOLEAN] /\ alone \in [Procs -> BOOLEAN]
        /\ result \in [Procs -> {"none", "nil", "err"}]
        /\ frozen \in BOOLEAN /\ env \in Envs
    BY UnifiedAssumption DEF Init
  <2> QED  BY <2>1, <2>2, <2>3, <2>4, <2>5 DEF TypeOK
<1>4. ASSUME NEW p \in Procs PROVE Fit(req[p]) /\ Alone(p) /\ Mine(p)
  <2>1. Fit(req[p]) /\ Alone(p)
    BY <1>2 DEF Init, Alone
  <2>2. /\ pc[p] = "idle" /\ steps[p] = <<>> /\ ~alone[p] /\ apc[p] = "idle" /\ ares[p] = "none"
        /\ DOMAIN steps[p] = {}
    BY DEF Init, EbpfInit
  <2>3. Place(p) /\ InAttach(p)
    BY <2>2 DEF Place, InAttach
  <2> QED  BY <2>1, <2>2, <2>3 DEF Mine, Promised, InUnit, Guarded, Freezing
<1> QED  BY <1>1, <1>3, <1>4 DEF IInv

LEMMA Invariance == Spec => []IInv
BY InitIInv, NextIInv, PTL DEF Spec

-----------------------------------------------------------------------------
(* What a call as a whole does.                                            *)

(* DeviceFilter: the program that a caller attaches decides as a cgroup v1 *)
(* devices controller with the requested rules would, whatever the rules:  *)
(* about every access for an allow list, about each letter for a deny list. *)
THEOREM FilterDecidesAsV1 == Spec => []FilterMatchesV1
<1>1. IInv => FilterMatchesV1
  <2> SUFFICES ASSUME IInv, NEW p \in Procs, apc[p] # "idle", NEW acc \in Accesses,
                      ~Emulate(req[p].rules).emu.defaultAllow \/ Cardinality(acc.a) = 1
               PROVE  acc \in want[p] <=> V1Allows(Emulate(req[p].rules).emu, acc)
    BY DEF FilterMatchesV1
  <2>1. req[p] \in Resources /\ want[p] = Filter(Emulate(req[p].rules).emu)
    BY DEF IInv, TypeOK, Mine, InAttach
  <2>2. Sound(Emulate(req[p].rules).emu)
    <3>1. req[p].rules \in Seq(Rule)
      BY <2>1 DEF Resources
    <3> QED  BY <3>1, EmulateSound
  <2>3. acc \in AllAccesses
    BY UnifiedAssumption
  <2> QED  BY <2>1, <2>2, <2>3, FilterIsV1
<1> QED  BY <1>1, Invariance, PTL

(* setFreezer and waitFrozen: a call that asked for FROZEN, that no other  *)
(* one has run beside or after and that returned nil has left every        *)
(* process of the cgroup stopped.                                          *)
THEOREM NilMeansFrozen == Spec => []FreezeMeansFrozen
<1>1. IInv => FreezeMeansFrozen
  <2> SUFFICES ASSUME IInv, NEW p \in Procs, LoneSuccess(p), AsksToFreeze(req[p]) PROVE frozen
    BY DEF FreezeMeansFrozen
  <2>1. Place(p) /\ Freezing(p) /\ pc[p] = "idle" /\ alone[p] /\ result[p] = "nil"
    BY DEF IInv, Mine, LoneSuccess
  <2>2. steps[p] = <<>> /\ DOMAIN <<>> = {}
    BY <2>1 DEF Place
  <2>3. ~Has(steps[p], "error") /\ ~Has(steps[p], "freeze")
    BY <2>2 DEF Has
  <2> QED  BY <2>1, <2>2, <2>3 DEF Freezing, FreezeDue
<1> QED  BY <1>1, Invariance, PTL

(* At the end of a Set that nothing disturbed.                             *)
LEMMA AtTheEnd ==
    ASSUME IInv, NEW p \in Procs, LoneSet(p)
    PROVE  /\ req[p] \in Resources /\ Fit(req[p])
           /\ ~SwapErr(req[p].swap, req[p].memory)
           /\ \A e \in Asked(req[p]) : file[e.f] = e.v
           /\ env.systemd => \A e \in genV2ResourcesProperties(req[p]) : unit[e.f] = e.v
           /\ NeedsDevices(p) => Enforced(p)
<1>1. /\ pc[p] = "idle" /\ alone[p] /\ Active(p) /\ Fit(req[p]) /\ req[p] \in Resources
      /\ Place(p) /\ Promised(p) /\ InUnit(p) /\ Guarded(p)
  BY DEF IInv, TypeOK, Mine, LoneSet, LoneSuccess, Active
<1>2. steps[p] = <<>> /\ DOMAIN <<>> = {}
  BY <1>1 DEF Place
<1>3. ~Has(steps[p], "error") /\ ~Has(steps[p], "devices") /\ \A f, v : ~LastWrite(steps[p], f, v)
  BY <1>2 DEF Has, LastWrite
<1>4. ~SwapErr(req[p].swap, req[p].memory) /\ \A e \in Asked(req[p]) : Outcome(steps[p], e.f, e.v)
  BY <1>1, <1>3 DEF Promised
<1>5. \A e \in Asked(req[p]) : file[e.f] = e.v
  BY <1>3, <1>4 DEF Outcome
<1>6. env.systemd => \A e \in genV2ResourcesProperties(req[p]) : unit[e.f] = e.v
  BY <1>1 DEF InUnit
<1>7. NeedsDevices(p) => Enforced(p)
  BY <1>1, <1>3 DEF Guarded
<1> QED  BY <1>1, <1>4, <1>5, <1>6, <1>7

(* setDevices and LoadAttachCgroupDeviceFilter: after a Set that nothing   *)
(* disturbed the cgroup lets through what the requested filter allows,     *)
(* whatever programs calls before have left, and with systemd's program    *)
(* that could not be opened, what both allow.                              *)
THEOREM SetIsEnforced == Spec => []SetEnforces
<1>1. IInv => SetEnforces
  <2> SUFFICES ASSUME IInv, NEW p \in Procs, LoneSet(p), NeedsDevices(p)
               PROVE  Effective = {acc \in Filter(Emulate(req[p].rules).emu) :
                                      env.hidden /\ 0 \in attached => acc \in policy[0]}
    BY DEF SetEnforces, NeedsDevices
  <2> DEFINE filter == Filter(Emulate(req[p].rules).emu)
  <2>1. filter \subseteq Accesses
    BY FilterTyped
  <2> HIDE DEF filter
  <2>2. attached \ Hidden = {newest} /\ policy[newest] = filter
    BY AtTheEnd DEF Enforced, filter
  <2>3. CASE env.hidden /\ 0 \in attached
    <3>1. attached = {newest, 0}
      BY <2>2, <2>3 DEF Hidden
    <3> QED  BY <2>1, <2>2, <2>3, <3>1 DEF Effective, filter
  <2>4. CASE ~(env.hidden /\ 0 \in attached)
    <3>1. attached = {newest}
      BY <2>2, <2>4 DEF Hidden
    <3> QED  BY <2>1, <2>2, <2>4, <3>1 DEF Effective, filter
  <2> QED  BY <2>3, <2>4
<1> QED  BY <1>1, Invariance, PTL

(* fs2's Set: the files say what was asked; a unified setting wins, and    *)
(* the limits on memory and on swap add up to the memory+swap limit.       *)
THEOREM SetIsApplied == Spec => []SettingsApplied
<1>1. IInv => SettingsApplied
  <2> SUFFICES ASSUME IInv, NEW p \in Procs, LoneSet(p)
               PROVE  /\ \A u \in req[p].unified : file[u.f] = u.v
                      /\ /\ req[p].memory > 0 /\ req[p].swap > 0
                         /\ Unified(req[p]) \cap {"memory.max", "memory.swap.max"} = {}
                         => file["memory.max"] + file["memory.swap.max"] = req[p].swap
    BY DEF SettingsApplied
  <2> DEFINE r == req[p]
  <2>1. r \in Resources /\ ~SwapErr(r.swap, r.memory) /\ \A e \in Asked(r) : file[e.f] = e.v
    BY AtTheEnd
  <2> HIDE DEF r
  <2>2. ASSUME NEW u \in r.unified PROVE file[u.f] = u.v
    <3>1. [f |-> u.f, v |-> u.v] \in Asked(r)
      BY DEF Asked, AskedLast, Then
    <3> QED  BY <2>1, <3>1
  <2>3. ASSUME r.memory > 0, r.swap > 0, Unified(r) \cap {"memory.max", "memory.swap.max"} = {}
        PROVE  file["memory.max"] + file["memory.swap.max"] = r.swap
    <3> DEFINE swap == ConvertMemorySwapToCgroupV2Value(r.swap, r.memory)
               ofMemory == [f |-> "memory.max", v |-> Unlimited(r.memory)]
               ofSwap == [f |-> "memory.swap.max", v |-> Unlimited(swap)]
    <3>1. r.memory \in Int /\ r.swap \in Int
      BY <2>1, ResourceFacts
    <3>2. swap >= 0 /\ swap \in Int /\ r.memory + swap = r.swap
      BY <2>1, <2>3, <3>1, SwapAddsUp DEF ConvertMemorySwapToCgroupV2Value
    <3> HIDE DEF swap
    <3>3. ofMemory \in AskedFirst(r) /\ ofSwap \in AskedFirst(r)
      <4>1. ofMemory \in Prop(r.memory # 0, "memory.max", Unlimited(r.memory))
        BY <2>3, <3>1 DEF Prop
      <4>2. ofSwap \in Prop(swap # 0 \/ r.swap > 0, "memory.swap.max", Unlimited(swap))
        BY <2>3 DEF Prop
      <4> HIDE DEF ofMemory, ofSwap
      <4> QED  BY <4>1, <4>2 DEF AskedFirst, swap
    <3>4. "memory.max" \notin Names(AskedLast(r)) /\ "memory.swap.max" \notin Names(AskedLast(r))
      BY <2>3 DEF Names, AskedLast, Unified
    <3>5. ofMemory \in Asked(r) /\ ofSwap \in Asked(r)
      BY <3>3, <3>4 DEF Asked, Then
    <3>6. file["memory.max"] = Unlimited(r.memory) /\ file["memory.swap.max"] = Unlimited(swap)
      BY <2>1, <3>5
    <3> QED  BY <2>3, <3>1, <3>2, <3>6 DEF Unlimited
  <2> QED  BY <2>2, <2>3 DEF r
<1> QED  BY <1>1, Invariance, PTL

(* genV2ResourcesProperties: after such a Set the unit's properties agree  *)
(* with the files in every limit that the request is about, and where it   *)
(* turned swap off the file says 0, whatever the unit says.                *)
THEOREM SystemdAgrees == Spec => []UnitAgrees
<1>1. IInv => UnitAgrees
  <2> SUFFICES ASSUME IInv, NEW p \in Procs, LoneSet(p), env.systemd
               PROVE  /\ \A f \in Limits(req[p]) \ {"cpu.max"} :
                            unit[f] = file[f] \/ (f = "memory.swap.max" /\ TurnsSwapOff(req[p]) /\ file[f] = 0)
                      /\ "cpu.max" \in Limits(req[p]) => Close(unit["cpu.max"], file["cpu.max"][1], file["cpu.max"][2])
    BY SMT DEF UnitAgrees, Close
  <2> DEFINE r == req[p]
             props == genV2ResourcesProperties(r)
  <2>1. r \in Resources /\ ~SwapErr(r.swap, r.memory) /\ \A e \in Asked(r) : file[e.f] = e.v
    BY AtTheEnd
  <2>2. \A e \in props : unit[e.f] = e.v
    BY AtTheEnd
  <2> HIDE DEF r
  <2>3. ASSUME NEW f \in Limits(r) \ {"cpu.max"}
        PROVE  unit[f] = file[f] \/ (f = "memory.swap.max" /\ TurnsSwapOff(r) /\ file[f] = 0)
    <3>1. CASE f = "memory.swap.max" /\ TurnsSwapOff(r)
      <4> DEFINE x == [f |-> "memory.swap.max", v |-> 0]
      <4>1. x \in Asked(r) /\ x.f = f /\ x.v = 0
        BY <2>1, <3>1, SwapOffAsked
      <4> HIDE DEF x
      <4> QED  BY <2>1, <3>1, <4>1
    <3>2. CASE ~(f = "memory.swap.max" /\ TurnsSwapOff(r))
      <4>1. PICK e \in props : e.f = f
        BY <2>1, <3>2, GivenLimits DEF Names
      <4>2. f \notin CpuFiles
        BY <2>3 DEF Limits, CpuFiles, KnownToSystemd
      <4>3. e \in Asked(r)
        BY <2>1, <4>1, <4>2, GivenAsked
      <4> QED  BY <2>1, <2>2, <4>1, <4>3
    <3> QED  BY <3>1, <3>2
  <2>4. ASSUME "cpu.max" \in Limits(r) PROVE Close(unit["cpu.max"], file["cpu.max"][1], file["cpu.max"][2])
    <3>1. PICK e \in props : e.f = "cpu.max"
      BY <2>1, <2>4, GivenLimits DEF Names
    <3>2. PICK d \in Asked(r) : d.f = "cpu.max" /\ Close(e.v, d.v[1], d.v[2])
      BY <2>1, <3>1, GivenCpu
    <3> QED  BY <2>1, <2>2, <3>1, <3>2
  <2> QED  BY <2>3, <2>4 DEF r
<1> QED  BY <1>1, Invariance, PTL

-----------------------------------------------------------------------------
(* Within whole calls the attach protocol is the one proved about above.   *)
LEMMA AttachStepsOnly == IInv /\ [Next]_vars => [EbpfNext]_ebpfVars
<1> SUFFICES ASSUME IInv, [Next]_vars PROVE EbpfNext \/ UNCHANGED ebpfVars
  OBVIOUS
<1>1. ASSUME NEW p \in Procs, SetProperties(p) PROVE EbpfNext \/ UNCHANGED ebpfVars
  <2>1. generateDeviceProperties(Emulate(req[p].rules).emu, env) \in SUBSET Accesses
    BY UnifiedAssumption DEF generateDeviceProperties
  <2>2. UNCHANGED ebpfVars \/ SystemdAttach(generateDeviceProperties(Emulate(req[p].rules).emu, env))
    BY <1>1 DEF SetProperties
  <2> QED  BY <2>1, <2>2 DEF EbpfNext
<1>2. ASSUME NEW p \in Procs, SetDevices(p) PROVE EbpfNext \/ UNCHANGED ebpfVars
  <2>1. UNCHANGED ebpfVars \/ AtCall(p, Filter(Emulate(req[p].rules).emu))
    BY <1>2 DEF SetDevices
  <2> QED  BY <2>1, FilterTyped DEF EbpfNext
<1>3. ASSUME NEW p \in Procs, Attaching(p) PROVE EbpfNext
  <2>1. Hidden \in SUBSET {0} /\ env.haveReplace \in BOOLEAN
    BY UnifiedAssumption DEF IInv, TypeOK, Hidden
  <2>2. AtWork(p, Hidden, env.haveReplace)
    BY <1>3 DEF Attaching, Hidden
  <2> QED  BY <2>1, <2>2 DEF EbpfNext
<1>4. ASSUME NEW p \in Procs, DevicesSet(p) PROVE EbpfNext
  BY <1>4 DEF DevicesSet, EbpfNext
<1>5. ASSUME NEW p \in Procs, FsSet(p) \/ WriteFile(p) \/ WriteRsvd(p) \/ Refuse(p) \/ WriteFreeze(p) \/ CheckFreeze(p) \/ Succeed(p)
      PROVE  UNCHANGED ebpfVars
  BY <1>5 DEF FsSet, WriteFile, WriteRsvd, Refuse, WriteFreeze, CheckFreeze, Succeed
<1>6. ASSUME NEW p \in Procs, Set(p) \/ Freeze(p) \/ Fails(p) PROVE UNCHANGED ebpfVars
  BY <1>6 DEF Set, Freeze, Fails
<1>7. Settle \/ Finished \/ UNCHANGED vars => UNCHANGED ebpfVars
  BY DEF Settle, Finished, vars
<1> QED  BY <1>1, <1>2, <1>3, <1>4, <1>5, <1>6, <1>7 DEF Next, Work

LEMMA CallsAttach == Spec => EbpfSpec
BY Invariance, AttachStepsOnly, PTL DEF Spec, Init, EbpfSpec

(* However calls of Set overlap, fail and are repeated, and whatever       *)
(* systemd attaches beside them, the filter attached last is in force.     *)
THEOREM CallsKeepNewest == Spec => []NewestInForce
BY CallsAttach, NewestStays, PTL

(* Whole calls implement DeviceGuard.                                      *)
THEOREM CallsImplementGuard == Spec => GuardSpec
BY CallsAttach, ImplementsGuard, PTL

=============================================================================
