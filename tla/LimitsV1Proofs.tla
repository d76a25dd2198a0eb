---------------------------- MODULE LimitsV1Proofs ----------------------------
(***************************************************************************)
(* Proofs about LimitsV1, for every set of requests, every parent cgroup   *)
(* and every clamp of the kernel.                                          *)
(***************************************************************************)
EXTENDS LimitsV1, TLAPS

(* r.MemorySwap once Set has adapted it.                                   *)
Adapted == IF r.memory = -1 /\ r.swap = 0 /\ hasSwap THEN -1 ELSE r.swap

SwapFacts ==
    /\ ~hasSwap => memsw = Unlimited
    /\ swap = IF pc = "memory" THEN r.swap ELSE IF pc = "idle" THEN swap ELSE Adapted

(* How far the memory pair is, per place in the code.                      *)
OldMemory == limit = before.limit /\ memsw = before.memsw
NewMemory == limit = WantLimit /\ memsw = WantSwap

Early == {"memory", "swapFirst", "limitSecond", "limitFirst", "swapSecond"}
CpuPCs == {"period", "quota", "retry"}

MemoryPhase ==
    /\ pc \in {"memory", "swapFirst", "limitFirst"} => OldMemory
    /\ pc = "swapFirst" => r.memory # 0 /\ swap # 0 /\ (swap = -1 \/ limit < uint64(swap))
    /\ pc = "limitSecond" =>
          /\ r.memory # 0 /\ swap # 0 /\ hasSwap
          /\ limit = before.limit /\ memsw = WantSwap
    /\ pc \in {"limitFirst", "swapSecond"} /\ r.memory # 0 /\ swap # 0 =>
          swap # -1 /\ uint64(swap) <= before.limit
    /\ pc = "swapSecond" => limit = WantLimit /\ memsw = before.memsw
    /\ pc \in {"misc", "shares"} \cup CpuPCs => NewMemory

(* How far the scheduler pairs are.                                        *)
OldPair(s) == bw[s] = before.bw[s]
NewPair(s) == bw[s].quota = WantQuota(s) /\ bw[s].period = WantPeriod(s)

CpuPhase ==
    /\ pc \in Early \cup {"misc", "shares"} =>
          sched = "cfs" /\ ~retry /\ shares = before.shares /\ bw = before.bw
    /\ pc \in CpuPCs =>
          /\ shares = IF r.shares = 0 THEN before.shares ELSE r.shares
          /\ IF sched = "cfs" THEN OldPair("rt") ELSE NewPair("cfs")
    /\ pc = "period" => ~retry /\ OldPair(sched)
    /\ pc = "quota" /\ ~retry =>
          bw[sched].quota = before.bw[sched].quota /\ bw[sched].period = WantPeriod(sched)
    /\ pc = "quota" /\ retry =>
          /\ OldPair(sched)
          /\ r.bw[sched].period # 0 /\ r.bw[sched].quota # 0
          /\ PeriodInRange(sched, r.bw[sched].period)
                => ~Fits(sched, before.bw[sched].quota, r.bw[sched].period)
    /\ pc = "retry" =>
          /\ r.bw[sched].period # 0
          /\ bw[sched].quota = WantQuota(sched) /\ bw[sched].period = before.bw[sched].period

(* A call in progress has no result yet.                                   *)
ResultPhase == pc # "idle" => result = "none"

BeforeFits ==
    /\ before.limit <= before.memsw
    /\ ~hasSwap => before.memsw = Unlimited
    /\ \A s \in Sched : Fits(s, before.bw[s].quota, before.bw[s].period)

IInv ==
    /\ TypeOK
    /\ SwapFacts /\ MemoryPhase /\ CpuPhase /\ ResultPhase /\ BeforeFits
    /\ OnlyBadRequestsRefused /\ SuccessIsExact /\ NoStrayLimit

-----------------------------------------------------------------------------
(* The order of the writes never matters twice: where the kernel refuses   *)
(* the new period next to the old quota, it takes the new quota next to    *)
(* the old period.                                                         *)
LEMMA EitherOrderFits ==
  ASSUME NEW s \in Sched, NEW q0 \in Int, NEW p0 \in Nat, NEW q \in Int, NEW p \in Nat,
         Fits(s, q0, p0), Fits(s, q, p), ~Fits(s, q0, p)
  PROVE  Fits(s, q, p0)
  <1>1. q0 >= 0 BY DEF Fits
  <1>2. CASE q < 0 BY <1>2 DEF Fits
  <1>3. CASE q >= 0
    <2> DEFINE A == Parent[s].quota
               B == Parent[s].period
    <2>1. A \in Nat /\ B \in Nat BY LimitsAssumption
    <2>2. q0 * B <= A * p0 /\ q * B <= A * p /\ ~(q0 * B <= A * p)
      BY <1>1, <1>3 DEF Fits
    <2>3. q * B <= A * p0
      <3> HIDE DEF A, B
      <3>1. q0 * B \in Int /\ q * B \in Int /\ A * p0 \in Int /\ A * p \in Int BY <2>1
      <3> QED BY <3>1, <2>2
    <2> QED BY <1>3, <2>3 DEF Fits
  <1> QED BY <1>2, <1>3

(* A quota counts by its sign alone where it is negative.                  *)
LEMMA QuotaFits ==
  ASSUME NEW s \in Sched, NEW q \in Int, NEW p \in Nat
  PROVE  Quota(q) \in Int /\ (Fits(s, Quota(q), p) <=> Fits(s, q, p))
  BY DEF Quota, Fits

(* The types of a request's parts.                                         *)
LEMMA RequestType ==
  ASSUME NEW x \in Requests
  PROVE  /\ x.memory \in Int /\ x.swap \in Int /\ x.shares \in Nat
         /\ x.memory < Unlimited /\ x.swap < Unlimited /\ TwoTo64 + x.swap > Unlimited
         /\ \A s \in Sched : x.bw[s].quota \in Int /\ x.bw[s].period \in Nat
  BY LimitsAssumption DEF Request, Bandwidth

(* Init establishes the invariant.                                         *)
LEMMA InitIInv == Init => IInv
  <1> SUFFICES ASSUME Init PROVE IInv OBVIOUS
  <1> USE LimitsAssumption DEF Init
  <1>1. bw \in [Sched -> Bandwidth] BY DEF Bandwidth
  <1>2. TypeOK
    <2>1. /\ limit \in 1..Unlimited /\ memsw \in 1..Unlimited
          /\ shares \in MinShares..MaxShares
      OBVIOUS
    <2>2. before \in [limit : 1..Unlimited, memsw : 1..Unlimited, shares : MinShares..MaxShares,
                      bw : [Sched -> Bandwidth]]
      BY <1>1, <2>1 DEF limits
    <2>3. sched \in Sched BY DEF Sched
    <2>4. retry \in BOOLEAN /\ hasSwap \in BOOLEAN OBVIOUS
    <2> QED BY <1>1, <2>1, <2>2, <2>3, <2>4 DEF TypeOK, PCs, Results
  <1>3. \A s \in Sched : Fits(s, bw[s].quota, bw[s].period)
    <2> SUFFICES ASSUME NEW s \in Sched PROVE Fits(s, bw[s].quota, bw[s].period) OBVIOUS
    <2>1. bw[s].quota = (IF NoQuotaFits[s] THEN -1 ELSE 0) /\ bw[s].period = MaxPeriod[s] OBVIOUS
    <2>2. CASE NoQuotaFits[s] BY <2>1, <2>2 DEF Fits
    <2>3. CASE ~NoQuotaFits[s]
      <3>1. Parent[s].quota \in Nat /\ Parent[s].period \in Nat /\ MaxPeriod[s] \in Nat OBVIOUS
      <3>2. 0 * Parent[s].period = 0 /\ Parent[s].quota * MaxPeriod[s] >= 0 BY <3>1
      <3> QED BY <2>1, <2>3, <3>2 DEF Fits
    <2> QED BY <2>2, <2>3
  <1>4. SwapFacts /\ MemoryPhase /\ CpuPhase /\ ResultPhase /\ OnlyBadRequestsRefused /\ SuccessIsExact
    BY DEF SwapFacts, MemoryPhase, CpuPhase, ResultPhase, OnlyBadRequestsRefused, SuccessIsExact,
           Early, CpuPCs
  <1>5. BeforeFits /\ NoStrayLimit BY <1>3 DEF BeforeFits, NoStrayLimit, limits
  <1> QED BY <1>2, <1>4, <1>5 DEF IInv

(* A new call: what the last one left is what this one starts from.        *)
LEMMA SetKeeps == IInv /\ Set => IInv'
  <1> SUFFICES ASSUME IInv, Set PROVE IInv' OBVIOUS
  <1> USE DEF Set
  <1>1. r' \in Requests /\ pc' = "memory" /\ result' = "none" OBVIOUS
  <1>2. /\ before'.limit = limit /\ before'.memsw = memsw
        /\ before'.shares = shares /\ before'.bw = bw
    BY DEF limits
  <1>3. TypeOK'
    <2>1. r'.swap \in Int BY <1>1, RequestType
    <2>2. sched' \in Sched /\ retry' \in BOOLEAN BY DEF Sched
    <2>3. before' \in [limit : 1..Unlimited, memsw : 1..Unlimited, shares : MinShares..MaxShares,
                      bw : [Sched -> Bandwidth]]
      BY DEF IInv, TypeOK, limits
    <2> QED BY <1>1, <2>1, <2>2, <2>3 DEF IInv, TypeOK, PCs, Results
  <1>4. SwapFacts' /\ ResultPhase' /\ OnlyBadRequestsRefused' /\ SuccessIsExact'
    BY DEF IInv, SwapFacts, ResultPhase, OnlyBadRequestsRefused, SuccessIsExact
  <1>5. MemoryPhase' BY <1>1, <1>2 DEF MemoryPhase, OldMemory, CpuPCs
  <1>6. CpuPhase' BY <1>1, <1>2 DEF CpuPhase, CpuPCs, Early
  <1>7. BeforeFits'
    BY <1>2 DEF IInv, BeforeFits, NoStrayLimit, SwapFacts, Fits
  <1>8. NoStrayLimit'
    BY <1>2 DEF IInv, NoStrayLimit, Fits
  <1> QED BY <1>3, <1>4, <1>5, <1>6, <1>7, <1>8 DEF IInv

(* Steps of the memory controller leave the schedulers alone.              *)
LEMMA MemoryStepFrame ==
  ASSUME IInv, pc \in Early \cup {"misc"},
         UNCHANGED <<shares, bw, sched, retry, hasSwap, r, before>>,
         pc' \in Early \cup {"misc", "shares", "idle"}
  PROVE  CpuPhase' /\ BeforeFits'
         /\ \A s \in Sched : /\ bw'[s].quota \in {before'.bw[s].quota, WantQuota(s)'}
                             /\ bw'[s].period \in {before'.bw[s].period, WantPeriod(s)'}
                             /\ Fits(s, bw'[s].quota, bw'[s].period)
  <1>1. CpuPhase'
    BY DEF IInv, CpuPhase, Early, CpuPCs
  <1>2. BeforeFits' BY DEF IInv, BeforeFits, Fits
  <1>3. \A s \in Sched : /\ bw'[s].quota \in {before'.bw[s].quota, WantQuota(s)'}
                         /\ bw'[s].period \in {before'.bw[s].period, WantPeriod(s)'}
                         /\ Fits(s, bw'[s].quota, bw'[s].period)
    BY DEF IInv, NoStrayLimit, WantQuota, WantPeriod
  <1> QED BY <1>1, <1>2, <1>3

LEMMA SetMemoryAndSwapKeeps == IInv /\ setMemoryAndSwap => IInv'
  <1> SUFFICES ASSUME IInv, setMemoryAndSwap PROVE IInv' OBVIOUS
  <1> USE DEF setMemoryAndSwap, call, Goto, Return
  <1>0. r \in Requests /\ r.memory \in Int /\ r.swap \in Int BY RequestType DEF IInv, TypeOK
  <1>1. swap' = Adapted /\ swap' \in Int BY <1>0 DEF IInv, SwapFacts, Adapted
  <1>2. /\ pc' \in {"idle", "swapFirst", "limitFirst"}
        /\ result' = IF pc' = "idle" THEN "failed" ELSE "none"
    BY DEF IInv, ResultPhase
  <1>3. TypeOK' BY <1>1, <1>2 DEF IInv, TypeOK, PCs, Results
  <1>4. CpuPhase' /\ BeforeFits'
         /\ \A s \in Sched : /\ bw'[s].quota \in {before'.bw[s].quota, WantQuota(s)'}
                             /\ bw'[s].period \in {before'.bw[s].period, WantPeriod(s)'}
                             /\ Fits(s, bw'[s].quota, bw'[s].period)
    BY <1>2, MemoryStepFrame DEF Early
  <1>5. SwapFacts' BY <1>1, <1>2 DEF IInv, SwapFacts, Adapted
  <1>6. MemoryPhase'
    <2>1. OldMemory' BY DEF IInv, MemoryPhase, OldMemory
    <2>2. pc' = "swapFirst" => r.memory # 0 /\ swap' # 0 /\ (swap' = -1 \/ limit < uint64(swap'))
      BY <1>2
    <2>3. pc' = "limitFirst" /\ r.memory # 0 /\ swap' # 0 => swap' # -1 /\ ~(limit < uint64(swap'))
      BY <1>2
    <2>4. uint64(swap') \in Int /\ limit \in Int
      BY <1>1, LimitsAssumption DEF uint64, IInv, TypeOK
    <2> QED BY <1>2, <2>1, <2>2, <2>3, <2>4 DEF MemoryPhase, OldMemory, CpuPCs, uint64
  <1>7. ResultPhase' /\ OnlyBadRequestsRefused' /\ SuccessIsExact'
    BY <1>2 DEF ResultPhase, OnlyBadRequestsRefused, SuccessIsExact
  <1>8. NoStrayLimit'
    BY <1>4 DEF IInv, NoStrayLimit, WantLimit, WantSwap, Fits
  <1> QED BY <1>3, <1>4, <1>5, <1>6, <1>7, <1>8 DEF IInv

(* What the adapted swap limit means for the one that is wanted.           *)
LEMMA AdaptedSwap ==
  ASSUME IInv, pc \in Early \ {"memory"}
  PROVE  /\ r.memory \in Int /\ r.swap \in Int /\ swap \in Int
         /\ r.memory < Unlimited /\ swap < Unlimited /\ TwoTo64 + swap > Unlimited
         /\ limit \in 1..Unlimited /\ memsw \in 1..Unlimited
         /\ before.limit \in 1..Unlimited /\ before.memsw \in 1..Unlimited
         /\ swap # 0 => WantSwap = Bytes(swap)
         /\ swap # 0 /\ ~hasSwap => r.swap # 0
         /\ swap = 0 => r.swap = 0 /\ WantSwap = before.memsw
         /\ swap < -1 => r.swap < -1
  <1>1. /\ r \in Requests /\ hasSwap \in BOOLEAN
        /\ before \in [limit : 1..Unlimited, memsw : 1..Unlimited, shares : MinShares..MaxShares,
                       bw : [Sched -> Bandwidth]]
        /\ limit \in 1..Unlimited /\ memsw \in 1..Unlimited
    BY DEF IInv, TypeOK
  <1>2. /\ r.memory \in Int /\ r.swap \in Int
        /\ r.memory < Unlimited /\ r.swap < Unlimited /\ TwoTo64 + r.swap > Unlimited
    BY <1>1, RequestType
  <1>3. before.limit \in 1..Unlimited /\ before.memsw \in 1..Unlimited BY <1>1
  <1>4. swap = Adapted BY DEF IInv, SwapFacts, Early
  <1>5. ~hasSwap => before.memsw = Unlimited BY DEF IInv, BeforeFits
  <1>6. swap = IF r.memory = -1 /\ r.swap = 0 /\ hasSwap THEN -1 ELSE r.swap BY <1>4 DEF Adapted
  <1>7. swap \in Int /\ swap < Unlimited /\ TwoTo64 + swap > Unlimited
    BY <1>2, <1>6, LimitsAssumption
  <1> QED BY <1>1, <1>2, <1>3, <1>5, <1>6, <1>7 DEF WantSwap, Bytes

(* The common part of the four writes: what is left to show of each is     *)
(* where the pair now is and that a refusal was earned.                    *)
LEMMA MemoryWrite ==
  ASSUME IInv, pc \in Early \ {"memory"},
         UNCHANGED <<shares, bw, sched, retry, swap, hasSwap, r, before>>,
         pc' \in {"limitSecond", "swapSecond", "misc", "idle"},
         pc' # "idle" => result' = "none",
         pc' = "idle" => result' \in {"EINVAL", "ENOENT", "failed"},
         pc' = "idle" => UNCHANGED <<limit, memsw>>,
         limit' \in 1..Unlimited, memsw' \in 1..Unlimited, limit' <= memsw',
         limit' \in {before.limit, WantLimit}, memsw' \in {before.memsw, WantSwap},
         ~hasSwap => memsw' = Unlimited,
         MemoryPhase',
         result' \in {"EINVAL", "ENOENT"} => ~MemoryFits
  PROVE  IInv'
  <1>1. CpuPhase' /\ BeforeFits'
         /\ \A s \in Sched : /\ bw'[s].quota \in {before'.bw[s].quota, WantQuota(s)'}
                             /\ bw'[s].period \in {before'.bw[s].period, WantPeriod(s)'}
                             /\ Fits(s, bw'[s].quota, bw'[s].period)
    BY MemoryStepFrame DEF Early
  <1>2. TypeOK' BY DEF IInv, TypeOK, PCs, Results
  <1>3. SwapFacts' BY DEF IInv, SwapFacts, Adapted, Early
  <1>4. ResultPhase' /\ SuccessIsExact' BY DEF ResultPhase, SuccessIsExact
  <1>5. OnlyBadRequestsRefused'
    <2>1. MemoryFits' <=> MemoryFits BY DEF MemoryFits, WantLimit, WantSwap
    <2> QED BY <2>1 DEF OnlyBadRequestsRefused
  <1>6. NoStrayLimit'
    BY <1>1 DEF NoStrayLimit, WantLimit, WantSwap, Fits
  <1> QED BY <1>1, <1>2, <1>3, <1>4, <1>5, <1>6 DEF IInv

LEMMA SwapFirstKeeps == IInv /\ setSwap("swapFirst", "limitSecond") => IInv'
  <1> SUFFICES ASSUME IInv, setSwap("swapFirst", "limitSecond") PROVE IInv' OBVIOUS
  <1> USE DEF setSwap, call, Goto, Return
  <1>1. pc = "swapFirst" /\ pc \in Early \ {"memory"} BY DEF Early
  <1> USE AdaptedSwap
  <1>2. OldMemory /\ r.memory # 0 /\ swap # 0 /\ (swap = -1 \/ limit < uint64(swap))
    BY <1>1 DEF IInv, MemoryPhase
  <1>3. result = "none" BY <1>1 DEF IInv, ResultPhase
  <1>4. limit <= memsw /\ (~hasSwap => memsw = Unlimited) BY DEF IInv, NoStrayLimit, SwapFacts
  <1>5. CASE hasSwap /\ KernelTakesSwap(swap) /\ memsw' = Bytes(swap) /\ Goto("limitSecond")
    <2>1. /\ memsw' \in 1..Unlimited /\ memsw' = WantSwap /\ limit' = limit /\ limit <= memsw'
      BY <1>1, <1>2, <1>5, LimitsAssumption DEF KernelTakesSwap, Bytes
    <2>2. WantSwap' = WantSwap BY DEF WantSwap
    <2>3. MemoryPhase' BY <1>2, <1>5, <2>1, <2>2 DEF MemoryPhase, OldMemory, CpuPCs
    <2> QED BY <1>1, <1>2, <1>3, <1>5, <2>1, <2>3, MemoryWrite DEF OldMemory
  <1>6. CASE pc' = "idle" /\ UNCHANGED memsw /\ result' \in {"EINVAL", "ENOENT", "failed"}
    <2>1. MemoryPhase' BY <1>6 DEF MemoryPhase, CpuPCs
    <2>2. result' = "EINVAL" => hasSwap /\ ~KernelTakesSwap(swap) BY <1>1, <1>2, <1>6
    <2>3. result' = "ENOENT" => ~hasSwap BY <1>1, <1>2, <1>6
    <2>4. limit <= Bytes(swap) \/ swap < -1
      BY <1>1, <1>2, LimitsAssumption DEF uint64, Bytes, OldMemory
    <2>5. result' \in {"EINVAL", "ENOENT"} => ~MemoryFits
      BY <1>1, <1>2, <2>2, <2>3, <2>4, LimitsAssumption DEF MemoryFits, KernelTakesSwap, Bytes
    <2> QED BY <1>1, <1>2, <1>4, <1>6, <2>1, <2>5, MemoryWrite DEF OldMemory
  <1> QED BY <1>2, <1>5, <1>6

LEMMA LimitSecondKeeps == IInv /\ setMemory("limitSecond", "misc") => IInv'
  <1> SUFFICES ASSUME IInv, setMemory("limitSecond", "misc") PROVE IInv' OBVIOUS
  <1> USE DEF setMemory, call, Goto, Return
  <1>1. pc = "limitSecond" /\ pc \in Early \ {"memory"} BY DEF Early
  <1> USE AdaptedSwap
  <1>2. r.memory # 0 /\ hasSwap /\ limit = before.limit /\ memsw = WantSwap
    BY <1>1 DEF IInv, MemoryPhase
  <1>3. result = "none" BY <1>1 DEF IInv, ResultPhase
  <1>4. limit <= memsw /\ WantLimit = Bytes(r.memory) BY <1>2 DEF IInv, NoStrayLimit, WantLimit
  <1>5. CASE KernelTakesLimit(r.memory) /\ limit' = Bytes(r.memory) /\ Goto("misc")
    <2>1. limit' \in 1..Unlimited /\ limit' = WantLimit /\ memsw' = memsw /\ limit' <= memsw'
      BY <1>1, <1>4, <1>5, LimitsAssumption DEF KernelTakesLimit, Bytes
    <2>2. WantSwap' = WantSwap /\ WantLimit' = WantLimit BY DEF WantSwap, WantLimit
    <2>3. MemoryPhase' BY <1>2, <1>5, <2>1, <2>2 DEF MemoryPhase, NewMemory, CpuPCs
    <2> QED BY <1>1, <1>2, <1>3, <1>5, <2>1, <2>3, MemoryWrite
  <1>6. CASE pc' = "idle" /\ UNCHANGED limit /\ result' \in {"EINVAL", "failed"}
    <2>1. MemoryPhase' BY <1>6 DEF MemoryPhase, CpuPCs
    <2>2. result' = "EINVAL" => ~KernelTakesLimit(r.memory) BY <1>1, <1>2, <1>6
    <2>3. result' \in {"EINVAL", "ENOENT"} => ~MemoryFits
      BY <1>1, <1>2, <1>4, <1>6, <2>2 DEF MemoryFits, KernelTakesLimit
    <2> QED BY <1>1, <1>2, <1>4, <1>6, <2>1, <2>3, MemoryWrite
  <1> QED BY <1>2, <1>5, <1>6

LEMMA LimitFirstKeeps == IInv /\ setMemory("limitFirst", "swapSecond") => IInv'
  <1> SUFFICES ASSUME IInv, setMemory("limitFirst", "swapSecond") PROVE IInv' OBVIOUS
  <1> USE DEF setMemory, call, Goto, Return
  <1>1. pc = "limitFirst" /\ pc \in Early \ {"memory"} BY DEF Early
  <1> USE AdaptedSwap
  <1>2. /\ OldMemory
        /\ r.memory # 0 /\ swap # 0 => swap # -1 /\ uint64(swap) <= before.limit
    BY <1>1 DEF IInv, MemoryPhase
  <1>3. result = "none" BY <1>1 DEF IInv, ResultPhase
  <1>4. limit <= memsw /\ (~hasSwap => memsw = Unlimited)
    BY DEF IInv, NoStrayLimit, SwapFacts
  <1>5. CASE pc' = "swapSecond" /\ result' = result /\ limit' = WantLimit
             /\ (r.memory = 0 \/ KernelTakesLimit(r.memory))
    <2>1. limit' \in 1..Unlimited /\ memsw' = memsw /\ limit' <= memsw'
      BY <1>1, <1>2, <1>4, <1>5, LimitsAssumption DEF KernelTakesLimit, Bytes, WantLimit, OldMemory
    <2>2. WantLimit' = WantLimit BY DEF WantLimit
    <2>3. MemoryPhase' BY <1>2, <1>5, <2>1, <2>2 DEF MemoryPhase, OldMemory, CpuPCs, uint64
    <2> QED BY <1>1, <1>2, <1>3, <1>4, <1>5, <2>1, <2>3, MemoryWrite DEF OldMemory
  <1>6. CASE pc' = "idle" /\ UNCHANGED limit /\ r.memory # 0 /\ result' \in {"EINVAL", "failed"}
    <2>1. MemoryPhase' BY <1>6 DEF MemoryPhase, CpuPCs
    <2>2. result' = "EINVAL" => ~KernelTakesLimit(r.memory) BY <1>1, <1>6
    <2>3. WantLimit = Bytes(r.memory) BY <1>6 DEF WantLimit
    <2>4. swap # 0 => swap > 0 /\ Bytes(swap) <= memsw
      BY <1>1, <1>2, <1>4, <1>6, LimitsAssumption DEF uint64, Bytes, OldMemory
    <2>5. swap # 0 => WantSwap <= memsw BY <1>1, <2>4
    <2>6. swap = 0 => WantSwap = memsw BY <1>1, <1>2 DEF OldMemory
    <2>7. WantSwap \in Int BY <1>1, LimitsAssumption DEF Bytes
    <2>8. Bytes(r.memory) \in Int BY <1>1, LimitsAssumption DEF Bytes
    <2>9. result' \in {"EINVAL", "ENOENT"} => ~MemoryFits
      BY <1>1, <1>6, <2>2, <2>3, <2>5, <2>6, <2>7, <2>8 DEF MemoryFits, KernelTakesLimit
    <2> QED BY <1>1, <1>2, <1>4, <1>6, <2>1, <2>9, MemoryWrite DEF OldMemory
  <1>7. r.memory = 0 => WantLimit = limit BY <1>2 DEF WantLimit, OldMemory
  <1>8. r.memory # 0 => WantLimit = Bytes(r.memory) BY DEF WantLimit
  <1> QED BY <1>5, <1>6, <1>7, <1>8

LEMMA SwapSecondKeeps == IInv /\ setSwap("swapSecond", "misc") => IInv'
  <1> SUFFICES ASSUME IInv, setSwap("swapSecond", "misc") PROVE IInv' OBVIOUS
  <1> USE DEF setSwap, call, Goto, Return
  <1>1. pc = "swapSecond" /\ pc \in Early \ {"memory"} BY DEF Early
  <1> USE AdaptedSwap
  <1>2. limit = WantLimit /\ memsw = before.memsw BY <1>1 DEF IInv, MemoryPhase
  <1>3. result = "none" BY <1>1 DEF IInv, ResultPhase
  <1>4. limit <= memsw /\ (~hasSwap => memsw = Unlimited) BY DEF IInv, NoStrayLimit, SwapFacts
  <1>5. CASE pc' = "misc" /\ result' = result /\ memsw' = WantSwap
             /\ (swap = 0 \/ (hasSwap /\ KernelTakesSwap(swap)))
    <2>1. memsw' \in 1..Unlimited /\ limit' = limit /\ limit' <= memsw' /\ (~hasSwap => memsw' = Unlimited)
      BY <1>1, <1>2, <1>4, <1>5, LimitsAssumption DEF KernelTakesSwap, Bytes
    <2>2. WantSwap' = WantSwap /\ WantLimit' = WantLimit BY DEF WantSwap, WantLimit
    <2>3. MemoryPhase' BY <1>2, <1>5, <2>1, <2>2 DEF MemoryPhase, NewMemory, CpuPCs
    <2> QED BY <1>1, <1>2, <1>3, <1>5, <2>1, <2>3, MemoryWrite
  <1>6. CASE pc' = "idle" /\ UNCHANGED memsw /\ swap # 0 /\ result' \in {"EINVAL", "ENOENT", "failed"}
    <2>1. MemoryPhase' BY <1>6 DEF MemoryPhase, CpuPCs
    <2>2. result' = "EINVAL" => ~KernelTakesSwap(swap) BY <1>1, <1>6
    <2>3. result' = "ENOENT" => ~hasSwap BY <1>1, <1>6
    <2>4. result' \in {"EINVAL", "ENOENT"} => ~MemoryFits
      BY <1>1, <1>2, <1>6, <2>2, <2>3 DEF MemoryFits, KernelTakesSwap
    <2> QED BY <1>1, <1>2, <1>4, <1>6, <2>1, <2>4, MemoryWrite
  <1>7. swap = 0 => WantSwap = memsw BY <1>1, <1>2
  <1>8. swap # 0 => WantSwap = Bytes(swap) BY <1>1
  <1> QED BY <1>5, <1>6, <1>7, <1>8

LEMMA MiscKeeps == IInv /\ SetMemoryMisc => IInv'
  <1> SUFFICES ASSUME IInv, SetMemoryMisc PROVE IInv' OBVIOUS
  <1> USE DEF SetMemoryMisc, call, Goto, Return
  <1>1. /\ pc = "misc" /\ pc' \in {"shares", "idle"}
        /\ result' = IF pc' = "idle" THEN "failed" ELSE "none"
    BY DEF IInv, ResultPhase
  <1>2. CpuPhase' /\ BeforeFits'
         /\ \A s \in Sched : /\ bw'[s].quota \in {before'.bw[s].quota, WantQuota(s)'}
                             /\ bw'[s].period \in {before'.bw[s].period, WantPeriod(s)'}
                             /\ Fits(s, bw'[s].quota, bw'[s].period)
    BY <1>1, MemoryStepFrame
  <1>3. TypeOK' BY <1>1 DEF IInv, TypeOK, PCs, Results
  <1>4. SwapFacts' BY <1>1 DEF IInv, SwapFacts, Adapted
  <1>5. MemoryPhase'
    BY <1>1 DEF IInv, MemoryPhase, NewMemory, WantLimit, WantSwap, CpuPCs
  <1>6. ResultPhase' /\ OnlyBadRequestsRefused' /\ SuccessIsExact'
    BY <1>1 DEF ResultPhase, OnlyBadRequestsRefused, SuccessIsExact
  <1>7. NoStrayLimit'
    BY <1>2 DEF IInv, NoStrayLimit, WantLimit, WantSwap, Fits
  <1> QED BY <1>2, <1>3, <1>4, <1>5, <1>6, <1>7 DEF IInv

(* Steps of the CPU controller leave memory alone; what is left to show of *)
(* each is its own part.                                                   *)
LEMMA CpuStep ==
  ASSUME IInv, pc \in {"shares"} \cup CpuPCs,
         UNCHANGED <<limit, memsw, swap, hasSwap, r, before>>,
         pc' \in CpuPCs \cup {"idle"},
         sched' \in Sched, retry' \in BOOLEAN, result' \in Results,
         pc' # "idle" => result' = "none",
         shares' \in MinShares..MaxShares,
         bw' \in [Sched -> Bandwidth],
         \A s \in Sched : /\ bw'[s].quota \in {before.bw[s].quota, WantQuota(s)}
                          /\ bw'[s].period \in {before.bw[s].period, WantPeriod(s)}
                          /\ Fits(s, bw'[s].quota, bw'[s].period),
         CpuPhase',
         result' \in {"EINVAL", "ENOENT"} => \E s \in Sched : ~BandwidthFits(s),
         result' = "nil" =>
             /\ shares' = IF r.shares = 0 THEN before.shares ELSE r.shares
             /\ \A s \in Sched : bw'[s].quota = WantQuota(s) /\ bw'[s].period = WantPeriod(s)
  PROVE  IInv'
  <1>1. TypeOK' BY DEF IInv, TypeOK, PCs, CpuPCs
  <1>2. SwapFacts' BY DEF IInv, SwapFacts, Adapted, CpuPCs
  <1>3. NewMemory BY DEF IInv, MemoryPhase
  <1>4. WantLimit' = WantLimit /\ WantSwap' = WantSwap BY DEF WantLimit, WantSwap
  <1>5. \A s \in Sched : WantQuota(s)' = WantQuota(s) /\ WantPeriod(s)' = WantPeriod(s)
    BY DEF WantQuota, WantPeriod
  <1>6. MemoryPhase' BY <1>3, <1>4 DEF MemoryPhase, NewMemory, CpuPCs
  <1>7. ResultPhase' BY DEF ResultPhase
  <1>8. BeforeFits' BY DEF IInv, BeforeFits, Fits
  <1>9. OnlyBadRequestsRefused'
    <2>1. \A s \in Sched : BandwidthFits(s)' <=> BandwidthFits(s)
      BY <1>5 DEF BandwidthFits, Fits, PeriodInRange, QuotaInRange
    <2> QED BY <2>1 DEF OnlyBadRequestsRefused
  <1>10. SuccessIsExact'
    <2> SUFFICES ASSUME result' = "nil"
                 PROVE  /\ limit' = WantLimit' /\ memsw' = WantSwap'
                        /\ shares' = IF r'.shares = 0 THEN before'.shares ELSE r'.shares
                        /\ \A s \in Sched : bw'[s] = [quota |-> WantQuota(s)', period |-> WantPeriod(s)']
      BY DEF SuccessIsExact
    <2>1. \A s \in Sched : bw'[s] = [quota |-> WantQuota(s), period |-> WantPeriod(s)]
      <3> SUFFICES ASSUME NEW s \in Sched
                   PROVE  bw'[s] = [quota |-> WantQuota(s), period |-> WantPeriod(s)]
        OBVIOUS
      <3>1. bw'[s] \in [quota : Int, period : Nat] BY DEF Bandwidth
      <3> QED BY <3>1
    <2> QED BY <1>3, <1>4, <1>5, <2>1 DEF NewMemory
  <1>11. NoStrayLimit'
    BY <1>4, <1>5 DEF IInv, NoStrayLimit, Fits
  <1> QED BY <1>1, <1>2, <1>6, <1>7, <1>8, <1>9, <1>10, <1>11 DEF IInv

(* The pairs of both schedulers, where a step leaves them alone.           *)
LEMMA PairsKept ==
  ASSUME IInv
  PROVE  /\ bw \in [Sched -> Bandwidth]
         /\ \A s \in Sched : /\ bw[s].quota \in Int /\ bw[s].period \in Nat
                             /\ before.bw[s].quota \in Int /\ before.bw[s].period \in Nat
                             /\ r.bw[s].quota \in Int /\ r.bw[s].period \in Nat
                             /\ bw[s].quota \in {before.bw[s].quota, WantQuota(s)}
                             /\ bw[s].period \in {before.bw[s].period, WantPeriod(s)}
                             /\ Fits(s, bw[s].quota, bw[s].period)
                             /\ Fits(s, before.bw[s].quota, before.bw[s].period)
  <1>1. r \in Requests /\ bw \in [Sched -> Bandwidth] /\ before.bw \in [Sched -> Bandwidth]
    BY DEF IInv, TypeOK
  <1>2. \A s \in Sched : r.bw[s].quota \in Int /\ r.bw[s].period \in Nat BY <1>1, RequestType
  <1> QED BY <1>1, <1>2 DEF IInv, NoStrayLimit, BeforeFits, Bandwidth

LEMMA SharesKeeps == IInv /\ SetShares => IInv'
  <1> SUFFICES ASSUME IInv, SetShares PROVE IInv' OBVIOUS
  <1> USE DEF SetShares, call, Goto, Return
  <1>1. pc = "shares" /\ result = "none" BY DEF IInv, ResultPhase
  <1>2. /\ sched = "cfs" /\ ~retry /\ shares = before.shares /\ bw = before.bw
    BY <1>1 DEF IInv, CpuPhase
  <1>3. r.shares \in Nat /\ shares \in MinShares..MaxShares BY RequestType DEF IInv, TypeOK
  <1>4. Clamp(r.shares) \in MinShares..MaxShares BY <1>3, LimitsAssumption DEF Clamp
  <1>5. /\ pc' \in {"period", "idle"}
        /\ result' = IF pc' = "period" THEN "none" ELSE result'
        /\ result' \in {"none", "clamped", "failed"}
        /\ shares' \in MinShares..MaxShares
        /\ pc' = "period" => shares' = IF r.shares = 0 THEN before.shares ELSE r.shares
    BY <1>1, <1>2, <1>3, <1>4
  <1>6. CpuPhase'
    BY <1>2, <1>5 DEF CpuPhase, CpuPCs, Early, OldPair, Sched
  <1>7. sched' \in Sched /\ retry' \in BOOLEAN BY DEF IInv, TypeOK
  <1> QED BY <1>1, <1>5, <1>6, <1>7, PairsKept, CpuStep DEF CpuPCs, Results

(* Writing one member of one pair.                                         *)
LEMMA PeriodWritten ==
  ASSUME bw \in [Sched -> Bandwidth], NEW s \in Sched, NEW x \in Nat,
         bw' = [bw EXCEPT ![s].period = x]
  PROVE  /\ bw' \in [Sched -> Bandwidth]
         /\ bw'[s].period = x /\ bw'[s].quota = bw[s].quota
         /\ \A t \in Sched \ {s} : bw'[t] = bw[t]
  BY DEF Bandwidth

LEMMA QuotaWritten ==
  ASSUME bw \in [Sched -> Bandwidth], NEW s \in Sched, NEW x \in Int,
         bw' = [bw EXCEPT ![s].quota = x]
  PROVE  /\ bw' \in [Sched -> Bandwidth]
         /\ bw'[s].quota = x /\ bw'[s].period = bw[s].period
         /\ \A t \in Sched \ {s} : bw'[t] = bw[t]
  BY DEF Bandwidth

CpuFrame == UNCHANGED <<limit, memsw, shares, swap, hasSwap, r, before>>

(* The pair of the current scheduler is as it should be: the next one, or  *)
(* the end of the call.                                                    *)
LEMMA PairDone ==
  ASSUME IInv, pc \in CpuPCs, CpuFrame, NextSched,
         bw' \in [Sched -> Bandwidth],
         \A t \in Sched \ {sched} : bw'[t] = bw[t],
         bw'[sched].quota = WantQuota(sched), bw'[sched].period = WantPeriod(sched),
         Fits(sched, bw'[sched].quota, bw'[sched].period)
  PROVE  IInv'
  <1> USE DEF NextSched, Goto, Return, CpuFrame
  <1>1. sched \in Sched /\ result = "none" BY DEF IInv, TypeOK, ResultPhase, CpuPCs
  <1>2. /\ shares = IF r.shares = 0 THEN before.shares ELSE r.shares
        /\ IF sched = "cfs" THEN OldPair("rt") ELSE NewPair("cfs")
    BY DEF IInv, CpuPhase
  <1>3. \A s \in Sched : /\ bw'[s].quota \in {before.bw[s].quota, WantQuota(s)}
                         /\ bw'[s].period \in {before.bw[s].period, WantPeriod(s)}
                         /\ Fits(s, bw'[s].quota, bw'[s].period)
    BY PairsKept
  <1>4. sched' \in Sched /\ retry' \in BOOLEAN /\ shares' \in MinShares..MaxShares
    BY DEF Sched, IInv, TypeOK
  <1>5. \A s \in Sched : WantQuota(s)' = WantQuota(s) /\ WantPeriod(s)' = WantPeriod(s)
    BY DEF WantQuota, WantPeriod
  <1>6. CASE sched = "cfs"
    <2>1. pc' = "period" /\ result' = "none" /\ sched' = "rt" /\ ~retry' BY <1>1, <1>6
    <2>2. bw'["rt"] = before.bw["rt"] BY <1>2, <1>6 DEF OldPair, Sched
    <2>3. CpuPhase'
      <3>1. OldPair("rt")' BY <2>2 DEF OldPair
      <3>2. NewPair("cfs")' BY <1>5, <1>6 DEF NewPair, Sched
      <3> QED BY <1>2, <2>1, <3>1, <3>2 DEF CpuPhase, CpuPCs, Early
    <2> QED BY <1>3, <1>4, <2>1, <2>3, CpuStep DEF CpuPCs, Results
  <1>7. CASE sched = "rt"
    <2>1. pc' = "idle" /\ result' = "nil" BY <1>7
    <2>2. CpuPhase' BY <2>1 DEF CpuPhase, CpuPCs, Early
    <2>3. \A s \in Sched : bw'[s].quota = WantQuota(s) /\ bw'[s].period = WantPeriod(s)
      BY <1>2, <1>7 DEF NewPair, Sched
    <2> QED BY <1>2, <1>3, <1>4, <2>1, <2>2, <2>3, CpuStep DEF CpuPCs, Results
  <1> QED BY <1>1, <1>6, <1>7 DEF Sched

(* The call ends in the middle of a pair.                                  *)
LEMMA PairGivenUp ==
  ASSUME IInv, pc \in CpuPCs, CpuFrame, UNCHANGED <<bw, sched, retry>>, pc' = "idle",
         result' \in {"EINVAL", "failed"},
         result' = "EINVAL" => ~BandwidthFits(sched)
  PROVE  IInv'
  <1>1. sched' \in Sched /\ sched \in Sched /\ retry' \in BOOLEAN /\ shares' \in MinShares..MaxShares
    BY DEF IInv, TypeOK, CpuFrame
  <1>2. CpuPhase' BY DEF CpuPhase, CpuPCs, Early
  <1> QED BY <1>1, <1>2, PairsKept, CpuStep DEF CpuFrame, Results

LEMMA PeriodKeeps == IInv /\ WritePeriod => IInv'
  <1> SUFFICES ASSUME IInv, WritePeriod PROVE IInv' OBVIOUS
  <1> DEFINE p == r.bw[sched].period
  <1> USE DEF WritePeriod, call, Goto, Return
  <1>1. pc = "period" /\ result = "none" /\ pc \in CpuPCs BY DEF IInv, ResultPhase, CpuPCs
  <1>2. CpuFrame BY DEF CpuFrame
  <1>3. sched \in Sched /\ retry \in BOOLEAN /\ shares \in MinShares..MaxShares BY DEF IInv, TypeOK
  <1>4. ~retry /\ OldPair(sched)
        /\ (shares = IF r.shares = 0 THEN before.shares ELSE r.shares)
        /\ (IF sched = "cfs" THEN OldPair("rt") ELSE NewPair("cfs"))
    BY <1>1 DEF IInv, CpuPhase
  <1>5. \A s \in Sched : WantQuota(s)' = WantQuota(s) /\ WantPeriod(s)' = WantPeriod(s)
    BY DEF WantQuota, WantPeriod
  <1>6. p \in Nat BY <1>3, PairsKept
  <1>7. CASE /\ pc' = "quota" /\ result' = result /\ retry' = retry /\ sched' = sched
             /\ bw' \in [Sched -> Bandwidth]
             /\ bw'[sched].quota = bw[sched].quota /\ bw'[sched].period = WantPeriod(sched)
             /\ Fits(sched, bw'[sched].quota, bw'[sched].period)
             /\ \A t \in Sched \ {sched} : bw'[t] = bw[t]
    <2>1. CpuPhase'
      <3>1. IF sched = "cfs" THEN OldPair("rt")' ELSE NewPair("cfs")'
        BY <1>3, <1>4, <1>5, <1>7 DEF OldPair, NewPair, Sched
      <3>2. bw'[sched].quota = before.bw[sched].quota BY <1>4, <1>7 DEF OldPair
      <3> QED BY <1>1, <1>2, <1>3, <1>4, <1>5, <1>7, <3>1, <3>2 DEF CpuPhase, CpuPCs, Early, CpuFrame
    <2>2. \A s \in Sched : /\ bw'[s].quota \in {before.bw[s].quota, WantQuota(s)}
                           /\ bw'[s].period \in {before.bw[s].period, WantPeriod(s)}
                           /\ Fits(s, bw'[s].quota, bw'[s].period)
      BY <1>3, <1>7, PairsKept
    <2> QED BY <1>1, <1>2, <1>3, <1>7, <2>1, <2>2, CpuStep DEF CpuPCs, CpuFrame, Results
  <1>8. CASE /\ pc' = "quota" /\ result' = result /\ retry' = TRUE /\ sched' = sched /\ bw' = bw
             /\ p # 0 /\ ~KernelTakesPeriod(sched, p) /\ r.bw[sched].quota # 0
    <2>1. PeriodInRange(sched, p) => ~Fits(sched, before.bw[sched].quota, p)
      BY <1>4, <1>8 DEF KernelTakesPeriod, OldPair
    <2>2. CpuPhase'
      <3>1. IF sched = "cfs" THEN OldPair("rt")' ELSE NewPair("cfs")'
        BY <1>3, <1>4, <1>5, <1>8 DEF OldPair, NewPair, Sched
      <3>2. OldPair(sched)' BY <1>4, <1>8 DEF OldPair
      <3> QED BY <1>1, <1>2, <1>4, <1>8, <2>1, <3>1, <3>2
          DEF CpuPhase, CpuPCs, Early, CpuFrame, PeriodInRange, Fits, OldPair
    <2> QED BY <1>1, <1>2, <1>3, <1>8, <2>2, PairsKept, CpuStep DEF CpuPCs, CpuFrame, Results
  <1>9. CASE pc' = "idle" /\ result' = "EINVAL" /\ UNCHANGED <<bw, sched, retry>>
             /\ p # 0 /\ ~KernelTakesPeriod(sched, p) /\ r.bw[sched].quota = 0
    <2>1. ~BandwidthFits(sched)
      BY <1>4, <1>9 DEF BandwidthFits, KernelTakesPeriod, WantPeriod, WantQuota, OldPair
    <2> QED BY <1>1, <1>2, <1>9, <2>1, PairGivenUp
  <1>10. CASE pc' = "idle" /\ result' = "failed" /\ UNCHANGED <<bw, sched, retry>>
    BY <1>1, <1>2, <1>10, PairGivenUp
  <1>11. p = 0 /\ UNCHANGED <<bw, retry, sched>> /\ pc' = "quota" /\ result' = result => IInv'
    <2>1. p = 0 => bw[sched].period = WantPeriod(sched) BY <1>4 DEF OldPair, WantPeriod
    <2> QED BY <1>3, <1>7, <2>1, PairsKept
  <1>12. ASSUME p # 0, KernelTakesPeriod(sched, p), bw' = [bw EXCEPT ![sched].period = p],
                UNCHANGED <<retry, sched>>, pc' = "quota", result' = result
         PROVE  IInv'
    <2>1. WantPeriod(sched) = p BY <1>12 DEF WantPeriod
    <2>2. /\ bw' \in [Sched -> Bandwidth] /\ bw'[sched].period = p /\ bw'[sched].quota = bw[sched].quota
          /\ \A t \in Sched \ {sched} : bw'[t] = bw[t]
      BY <1>3, <1>6, <1>12, PairsKept, PeriodWritten
    <2> QED BY <1>7, <1>12, <2>1, <2>2 DEF KernelTakesPeriod
  <1> HIDE DEF p
  <1> QED BY <1>8, <1>9, <1>10, <1>11, <1>12 DEF p

LEMMA QuotaKeeps == IInv /\ WriteQuota => IInv'
  <1> SUFFICES ASSUME IInv, WriteQuota PROVE IInv' OBVIOUS
  <1> DEFINE q == r.bw[sched].quota
  <1> USE DEF WriteQuota, call, Goto, Return
  <1>1. pc = "quota" /\ result = "none" /\ pc \in CpuPCs BY DEF IInv, ResultPhase, CpuPCs
  <1>2. CpuFrame BY DEF CpuFrame
  <1>3. sched \in Sched /\ retry \in BOOLEAN /\ shares \in MinShares..MaxShares BY DEF IInv, TypeOK
  <1>4. /\ shares = IF r.shares = 0 THEN before.shares ELSE r.shares
        /\ IF sched = "cfs" THEN OldPair("rt") ELSE NewPair("cfs")
    BY <1>1 DEF IInv, CpuPhase, CpuPCs
  <1>5. ~retry => /\ bw[sched].quota = before.bw[sched].quota
                  /\ bw[sched].period = WantPeriod(sched)
    BY <1>1 DEF IInv, CpuPhase
  <1>6. retry => /\ OldPair(sched)
                 /\ r.bw[sched].period # 0 /\ q # 0
                 /\ PeriodInRange(sched, r.bw[sched].period)
                       => ~Fits(sched, before.bw[sched].quota, r.bw[sched].period)
    BY <1>1 DEF IInv, CpuPhase
  <1>7. q \in Int BY <1>3, PairsKept
  <1>8. q = 0 /\ UNCHANGED bw /\ NextSched => IInv'
    <2>1. q = 0 => ~retry /\ bw[sched].quota = WantQuota(sched) BY <1>5, <1>6 DEF WantQuota
    <2> QED BY <1>1, <1>2, <1>3, <1>5, <2>1, PairsKept, PairDone
  <1>9. ASSUME q # 0, KernelTakesQuota(sched, q), bw' = [bw EXCEPT ![sched].quota = Quota(q)]
        PROVE  /\ bw' \in [Sched -> Bandwidth]
               /\ \A t \in Sched \ {sched} : bw'[t] = bw[t]
               /\ bw'[sched].quota = WantQuota(sched) /\ bw'[sched].period = bw[sched].period
               /\ Fits(sched, bw'[sched].quota, bw'[sched].period)
    <2>1. Quota(q) = WantQuota(sched) BY <1>9 DEF WantQuota
    <2>2. /\ bw[sched].period \in Nat /\ Quota(q) \in Int
          /\ Fits(sched, Quota(q), bw[sched].period)
      BY <1>3, <1>7, <1>9, PairsKept, QuotaFits DEF KernelTakesQuota
    <2> HIDE DEF q
    <2>3. /\ bw' \in [Sched -> Bandwidth] /\ bw'[sched].quota = Quota(q)
          /\ bw'[sched].period = bw[sched].period /\ \A t \in Sched \ {sched} : bw'[t] = bw[t]
      BY <1>3, <1>9, <2>2, PairsKept, QuotaWritten
    <2> QED BY <2>1, <2>2, <2>3
  <1>10. ASSUME q # 0, KernelTakesQuota(sched, q), bw' = [bw EXCEPT ![sched].quota = Quota(q)],
                ~retry, NextSched
         PROVE  IInv'
    BY <1>1, <1>2, <1>5, <1>9, <1>10, PairDone
  <1>11. ASSUME q # 0, KernelTakesQuota(sched, q), bw' = [bw EXCEPT ![sched].quota = Quota(q)],
                retry, pc' = "retry", result' = result, UNCHANGED <<sched, retry>>
         PROVE  IInv'
    <2>1. \A s \in Sched : WantQuota(s)' = WantQuota(s) /\ WantPeriod(s)' = WantPeriod(s)
      BY DEF WantQuota, WantPeriod
    <2>2. IF sched = "cfs" THEN OldPair("rt")' ELSE NewPair("cfs")'
      BY <1>3, <1>4, <1>9, <1>11, <2>1 DEF OldPair, NewPair, Sched
    <2>3. bw'[sched].period = before.bw[sched].period BY <1>6, <1>9, <1>11 DEF OldPair
    <2>4. CpuPhase'
      BY <1>2, <1>3, <1>4, <1>6, <1>9, <1>11, <2>1, <2>2, <2>3 DEF CpuPhase, CpuPCs, Early, CpuFrame
    <2>5. \A s \in Sched : /\ bw'[s].quota \in {before.bw[s].quota, WantQuota(s)}
                           /\ bw'[s].period \in {before.bw[s].period, WantPeriod(s)}
                           /\ Fits(s, bw'[s].quota, bw'[s].period)
      BY <1>3, <1>9, <1>11, <2>3, PairsKept
    <2> QED BY <1>1, <1>2, <1>3, <1>9, <1>11, <2>4, <2>5, CpuStep DEF CpuPCs, CpuFrame, Results
  <1>12. ASSUME q # 0, ~KernelTakesQuota(sched, q), UNCHANGED <<bw, sched, retry>>,
                pc' = "idle", result' = "EINVAL"
         PROVE  IInv'
    <2>1. WantQuota(sched) = Quota(q) BY <1>12 DEF WantQuota
    <2>2. ~BandwidthFits(sched)
      <3> SUFFICES ASSUME BandwidthFits(sched) PROVE FALSE OBVIOUS
      <3>1. QuotaInRange(sched, q) BY <1>12 DEF BandwidthFits
      <3>2. /\ bw[sched].period \in Nat /\ before.bw[sched].period \in Nat
            /\ before.bw[sched].quota \in Int /\ r.bw[sched].period \in Nat
            /\ Fits(sched, before.bw[sched].quota, before.bw[sched].period)
        BY <1>3, PairsKept
      <3>3. WantPeriod(sched) \in Nat /\ (retry => WantPeriod(sched) = r.bw[sched].period)
        BY <1>6, <3>2 DEF WantPeriod
      <3>4. Fits(sched, q, WantPeriod(sched))
        BY <1>3, <1>7, <2>1, <3>3, QuotaFits DEF BandwidthFits
      <3>5. CASE ~retry BY <1>5, <1>12, <3>1, <3>4, <3>5 DEF KernelTakesQuota
      <3>6. CASE retry
        <4>1. ~Fits(sched, before.bw[sched].quota, WantPeriod(sched))
          BY <1>6, <3>3, <3>6 DEF BandwidthFits
        <4>2. Fits(sched, q, before.bw[sched].period)
          BY <1>3, <1>7, <3>2, <3>3, <3>4, <4>1, EitherOrderFits
        <4> QED BY <1>6, <1>12, <3>1, <3>6, <4>2 DEF KernelTakesQuota, OldPair
      <3> QED BY <3>5, <3>6
    <2> QED BY <1>1, <1>2, <1>12, <2>2, PairGivenUp
  <1>13. ASSUME UNCHANGED <<bw, sched, retry>>, pc' = "idle", result' = "failed" PROVE IInv'
    BY <1>1, <1>2, <1>13, PairGivenUp
  <1> HIDE DEF q
  <1> QED BY <1>8, <1>10, <1>11, <1>12, <1>13 DEF q

LEMMA RetryKeeps == IInv /\ RetryPeriod => IInv'
  <1> SUFFICES ASSUME IInv, RetryPeriod PROVE IInv' OBVIOUS
  <1> DEFINE p == r.bw[sched].period
  <1> USE DEF RetryPeriod, call, Goto, Return
  <1>1. pc = "retry" /\ pc \in CpuPCs BY DEF CpuPCs
  <1>2. CpuFrame BY DEF CpuFrame
  <1>3. sched \in Sched BY DEF IInv, TypeOK
  <1>4. p # 0 /\ bw[sched].quota = WantQuota(sched) /\ WantPeriod(sched) = p
    BY <1>1 DEF IInv, CpuPhase, WantPeriod
  <1>5. p \in Nat BY <1>3, PairsKept
  <1>6. ASSUME KernelTakesPeriod(sched, p), bw' = [bw EXCEPT ![sched].period = p], NextSched
        PROVE  IInv'
    <2> HIDE DEF p
    <2>1. /\ bw' \in [Sched -> Bandwidth] /\ bw'[sched].period = p /\ bw'[sched].quota = bw[sched].quota
          /\ \A t \in Sched \ {sched} : bw'[t] = bw[t]
      BY <1>3, <1>5, <1>6, PairsKept, PeriodWritten
    <2> QED BY <1>1, <1>2, <1>4, <1>6, <2>1, PairDone DEF KernelTakesPeriod
  <1>7. ASSUME ~KernelTakesPeriod(sched, p), UNCHANGED <<bw, sched, retry>>,
               pc' = "idle", result' = "EINVAL"
        PROVE  IInv'
    <2>1. ~BandwidthFits(sched) BY <1>4, <1>7 DEF BandwidthFits, KernelTakesPeriod
    <2> QED BY <1>1, <1>2, <1>7, <2>1, PairGivenUp
  <1>8. ASSUME UNCHANGED <<bw, sched, retry>>, pc' = "idle", result' = "failed" PROVE IInv'
    BY <1>1, <1>2, <1>8, PairGivenUp
  <1> HIDE DEF p
  <1> QED BY <1>6, <1>7, <1>8 DEF p

(* Every step keeps the invariant.                                         *)
LEMMA NextIInv == IInv /\ [Next]_vars => IInv'
  <1> SUFFICES ASSUME IInv, [Next]_vars PROVE IInv' OBVIOUS
  <1>1. CASE UNCHANGED vars
    <2>1. UNCHANGED <<limit, memsw, hasSwap, shares, bw, pc, sched, r, swap, retry, result, before>>
      BY <1>1 DEF vars
    <2>2. TypeOK' BY <2>1 DEF IInv, TypeOK
    <2>3. SwapFacts' /\ MemoryPhase' /\ ResultPhase' /\ BeforeFits'
      BY <2>1 DEF IInv, SwapFacts, MemoryPhase, ResultPhase, BeforeFits, Adapted, OldMemory, NewMemory,
                  WantLimit, WantSwap, Fits, uint64
    <2>4. CpuPhase'
      BY <2>1 DEF IInv, CpuPhase, OldPair, NewPair, WantQuota, WantPeriod, PeriodInRange, Fits
    <2>5. OnlyBadRequestsRefused'
      BY <2>1 DEF IInv, OnlyBadRequestsRefused, MemoryFits, BandwidthFits, WantLimit, WantSwap,
                  WantQuota, WantPeriod, PeriodInRange, QuotaInRange, Fits
    <2>6. SuccessIsExact' /\ NoStrayLimit'
      BY <2>1 DEF IInv, SuccessIsExact, NoStrayLimit, WantLimit, WantSwap, WantQuota, WantPeriod, Fits
    <2> QED BY <2>2, <2>3, <2>4, <2>5, <2>6 DEF IInv
  <1>2. CASE Next
    BY <1>2, SetKeeps, SetMemoryAndSwapKeeps, SwapFirstKeeps, LimitSecondKeeps, LimitFirstKeeps,
       SwapSecondKeeps, MiscKeeps, SharesKeeps, PeriodKeeps, QuotaKeeps, RetryKeeps
    DEF Next
  <1> QED BY <1>1, <1>2

-----------------------------------------------------------------------------
(* The inductive invariant holds throughout.                               *)
THEOREM Invariance == Spec => []IInv
  BY InitIInv, NextIInv, PTL DEF Spec

(* Type correctness.                                                       *)
THEOREM TypeCorrect == Spec => []TypeOK
  <1>1. IInv => TypeOK BY DEF IInv
  <1> QED BY <1>1, Invariance, PTL

(* The order in which setMemoryAndSwap, CpuGroup.Set and SetRtSched write  *)
(* their pairs never makes the kernel refuse a request that it could       *)
(* grant, for every value of the old and the new limits.                   *)
THEOREM WriteOrderIsRight == Spec => []OnlyBadRequestsRefused
  <1>1. IInv => OnlyBadRequestsRefused BY DEF IInv
  <1> QED BY <1>1, Invariance, PTL

(* A Set that reports success put every limit asked for in force and no    *)
(* other.                                                                  *)
THEOREM SuccessExact == Spec => []SuccessIsExact
  <1>1. IInv => SuccessIsExact BY DEF IInv
  <1> QED BY <1>1, Invariance, PTL

(* No failure between the writes of a pair leaves a limit that is neither  *)
(* the old nor the new one, nor two limits that contradict each other.     *)
THEOREM NothingStray == Spec => []NoStrayLimit
  <1>1. IInv => NoStrayLimit BY DEF IInv
  <1> QED BY <1>1, Invariance, PTL
=============================================================================
