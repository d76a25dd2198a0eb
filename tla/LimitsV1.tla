------------------------------ MODULE LimitsV1 ------------------------------
(***************************************************************************)
(* The limits of one cgroup v1 container that are written as a pair whose  *)
(* members the kernel validates against each other: memory and             *)
(* memory+swap (MemoryGroup.Set, cgroups/fs/memory.go), and the period and *)
(* quota of the CFS and the real-time scheduler (CpuGroup.Set,             *)
(* cgroups/fs/cpu.go).  manager.Set runs the two in this order under the   *)
(* manager's lock.  Each file write is a step of its own: any of them may  *)
(* fail, and what was written before it stays.                             *)
(***************************************************************************)
EXTENDS Integers

CONSTANTS
    Unlimited,     \* what the kernel reads back for "no limit"
    TwoTo64,       \* 2^64
    MinShares, MaxShares,    \* the kernel clamps cpu.shares to these
    MinPeriod, MaxPeriod,    \* accepted periods and least quota, per scheduler
    Parent,        \* per scheduler: [quota, period] of the parent cgroup
    NoQuotaFits,   \* per scheduler: no quota at all is within the parent's
    Requests       \* the Resources Set is called with

Sched == {"cfs", "rt"}

Bandwidth == [quota : Int, period : Nat]

(* Zero means "not asked for"; -1 is "no limit".                           *)
Request == [memory : Int, swap : Int, shares : Nat, bw : [Sched -> Bandwidth]]

ASSUME LimitsAssumption ==
    /\ Unlimited \in Nat \ {0} /\ TwoTo64 \in Nat /\ TwoTo64 > 2 * Unlimited
    /\ MinShares \in Nat \ {0} /\ MaxShares \in Nat /\ MinShares <= MaxShares
    /\ MinPeriod \in [Sched -> Nat] /\ MaxPeriod \in [Sched -> Nat]
    /\ Parent \in [Sched -> [quota : Nat, period : Nat]]
    /\ NoQuotaFits \in [Sched -> BOOLEAN]
    /\ Requests \subseteq Request
    \* int64 holds every byte count, and is half of uint64
    /\ \A r \in Requests :
          /\ r.memory < Unlimited /\ r.swap < Unlimited
          /\ TwoTo64 + r.swap > Unlimited

VARIABLES
    limit,     \* memory.limit_in_bytes
    memsw,     \* memory.memsw.limit_in_bytes
    hasSwap,   \* ... which exists only with swap accounting
    shares,    \* cpu.shares
    bw,        \* per scheduler: [quota, period]; a quota of -1 is none
    pc,
    sched,     \* the scheduler whose pair is being written
    r,         \* the request
    swap,      \* r.MemorySwap, which Set itself may change
    retry,     \* the period was refused and is still to be written
    result,
    before     \* history: the limits when the call began

vars == <<limit, memsw, hasSwap, shares, bw, pc, sched, r, swap, retry, result, before>>

limits == [limit |-> limit, memsw |-> memsw, shares |-> shares, bw |-> bw]
call == <<hasSwap, r, before>>

PCs == {"idle", "memory", "swapFirst", "limitSecond", "limitFirst", "swapSecond", "misc",
        "shares", "period", "quota", "retry"}

(* A call fails with the kernel's verdict on the value, with a missing     *)
(* file, or with an error that says nothing about the request.             *)
Results == {"none", "nil", "EINVAL", "ENOENT", "clamped", "failed"}

-----------------------------------------------------------------------------
(* The kernel (external).  Byte counts: -1 is no limit, other negative     *)
(* values do not parse.                                                    *)
Bytes(v) == IF v = -1 THEN Unlimited ELSE v

KernelTakesLimit(v) == v >= -1 /\ Bytes(v) <= memsw
KernelTakesSwap(v) == v >= -1 /\ limit <= Bytes(v)

(* A quota is within the parent's share of the CPU.  (The kernel compares  *)
(* ratios rounded down, which is this comparison for a rounded Parent.)    *)
Fits(s, q, p) == IF q < 0 THEN NoQuotaFits[s] ELSE q * Parent[s].period <= Parent[s].quota * p

PeriodInRange(s, p) == MinPeriod[s] <= p /\ p <= MaxPeriod[s]
QuotaInRange(s, q) == q < 0 \/ MinPeriod[s] <= q

KernelTakesPeriod(s, p) == PeriodInRange(s, p) /\ Fits(s, bw[s].quota, p)
KernelTakesQuota(s, q) == QuotaInRange(s, q) /\ Fits(s, q, bw[s].period)

(* cpu.shares is never refused.                                            *)
Clamp(v) == IF v < MinShares THEN MinShares ELSE IF v > MaxShares THEN MaxShares ELSE v

-----------------------------------------------------------------------------
(* A cgroup as the kernel makes it.                                        *)
Init ==
    /\ limit = Unlimited /\ memsw = Unlimited
    /\ hasSwap \in BOOLEAN
    /\ shares = MaxShares
    /\ bw = [s \in Sched |-> [quota |-> IF NoQuotaFits[s] THEN -1 ELSE 0, period |-> MaxPeriod[s]]]
    /\ pc = "idle" /\ sched = "cfs"
    /\ r \in Requests /\ swap = 0 /\ retry = FALSE
    /\ result = "none"
    /\ before = limits

(* manager.Set.                                                            *)
Set ==
    /\ pc = "idle"
    /\ pc' = "memory" /\ sched' = "cfs" /\ retry' = FALSE
    /\ r' \in Requests /\ swap' = r'.swap
    /\ result' = "none"
    /\ before' = limits
    /\ UNCHANGED <<limit, memsw, hasSwap, shares, bw>>

Goto(next) == pc' = next /\ UNCHANGED result
Return(res) == pc' = "idle" /\ result' = res

(* int64 converted to uint64.                                              *)
uint64(v) == IF v < 0 THEN v + TwoTo64 ELSE v

(* A mutation: memory is always written first.                             *)
setMemoryAndSwapInOrder ==
    /\ pc = "memory"
    /\ swap' = IF r.memory = -1 /\ swap = 0 /\ hasSwap THEN -1 ELSE swap
    /\ Goto("limitFirst")
    /\ UNCHANGED <<limit, memsw, shares, bw, sched, retry, call>>

(* A mutation: the swap limit is lifted first, so that any memory limit    *)
(* fits.                                                                   *)
setMemoryAndSwapLifted ==
    /\ pc = "memory"
    /\ memsw' = IF hasSwap /\ swap # 0 THEN Unlimited ELSE memsw
    /\ Goto("limitFirst")
    /\ UNCHANGED <<limit, swap, shares, bw, sched, retry, call>>

(* setMemoryAndSwap up to the first write: the swap limit follows a memory *)
(* limit that is lifted, and the order of the writes is chosen.            *)
setMemoryAndSwap ==
    /\ pc = "memory"
    /\ swap' = IF r.memory = -1 /\ swap = 0 /\ hasSwap THEN -1 ELSE swap
    /\ \/ r.memory # 0 /\ swap' # 0 /\ Return("failed")      \* the limit cannot be read
       \/ Goto(IF r.memory # 0 /\ swap' # 0 /\ (swap' = -1 \/ limit < uint64(swap'))
               THEN "swapFirst" ELSE "limitFirst")
    /\ UNCHANGED <<limit, memsw, shares, bw, sched, retry, call>>

(* A write that goes through continues at next; the kernel may refuse the  *)
(* value, and any access may fail (the limit: EBUSY, too low for what is   *)
(* in use).                                                                *)
setMemory(from, next) ==
    /\ pc = from
    /\ \/ r.memory = 0 /\ UNCHANGED limit /\ Goto(next)
       \/ r.memory # 0 /\ KernelTakesLimit(r.memory) /\ limit' = Bytes(r.memory) /\ Goto(next)
       \/ r.memory # 0 /\ ~KernelTakesLimit(r.memory) /\ UNCHANGED limit /\ Return("EINVAL")
       \/ r.memory # 0 /\ UNCHANGED limit /\ Return("failed")
    /\ UNCHANGED <<memsw, shares, bw, sched, retry, swap, call>>

setSwap(from, next) ==
    /\ pc = from
    /\ \/ swap = 0 /\ UNCHANGED memsw /\ Goto(next)
       \/ swap # 0 /\ hasSwap /\ KernelTakesSwap(swap) /\ memsw' = Bytes(swap) /\ Goto(next)
       \/ swap # 0 /\ hasSwap /\ ~KernelTakesSwap(swap) /\ UNCHANGED memsw /\ Return("EINVAL")
       \/ swap # 0 /\ ~hasSwap /\ UNCHANGED memsw /\ Return("ENOENT")
       \/ swap # 0 /\ UNCHANGED memsw /\ Return("failed")
    /\ UNCHANGED <<limit, shares, bw, sched, retry, swap, call>>

(* The rest of MemoryGroup.Set: reservation, OOM killer and swappiness.    *)
SetMemoryMisc ==
    /\ pc = "misc"
    /\ Goto("shares") \/ Return("failed")
    /\ UNCHANGED <<limit, memsw, shares, bw, sched, retry, swap, call>>

(* CpuGroup.Set: the shares are written, read back and compared.           *)
SetShares ==
    /\ pc = "shares"
    /\ \/ r.shares = 0 /\ UNCHANGED shares /\ Goto("period")
       \/ /\ r.shares # 0
          /\ shares' = Clamp(r.shares)
          /\ IF shares' = r.shares THEN Goto("period") ELSE Return("clamped")
       \/ r.shares # 0 /\ shares' \in {shares, Clamp(r.shares)} /\ Return("failed")
    /\ UNCHANGED <<limit, memsw, bw, sched, retry, swap, call>>

(* The first write of the period (CFS: CpuGroup.Set; real time:            *)
(* SetRtSched).  A refusal is put aside if a quota is to be written too.   *)
WritePeriod ==
    /\ pc = "period"
    /\ LET p == r.bw[sched].period IN
       \/ p = 0 /\ UNCHANGED <<bw, retry>> /\ Goto("quota")
       \/ /\ p # 0 /\ KernelTakesPeriod(sched, p)
          /\ bw' = [bw EXCEPT ![sched].period = p]
          /\ UNCHANGED retry /\ Goto("quota")
       \/ /\ p # 0 /\ ~KernelTakesPeriod(sched, p)
          /\ UNCHANGED bw
          /\ IF r.bw[sched].quota = 0 THEN UNCHANGED retry /\ Return("EINVAL")
             ELSE retry' = TRUE /\ Goto("quota")
       \/ p # 0 /\ UNCHANGED <<bw, retry>> /\ Return("failed")
    /\ UNCHANGED <<limit, memsw, shares, sched, swap, call>>

(* After the pair of one scheduler: real time follows CFS, then Set is     *)
(* through with its limits.                                                *)
NextSched ==
    /\ sched' = "rt" /\ retry' = FALSE
    /\ IF sched = "cfs" THEN Goto("period") ELSE Return("nil")

Quota(q) == IF q < 0 THEN -1 ELSE q

(* A mutation: the period that was put aside is forgotten.                 *)
WriteQuotaOnly ==
    /\ pc = "quota"
    /\ LET q == r.bw[sched].quota IN
       \/ q = 0 /\ UNCHANGED bw /\ NextSched
       \/ q # 0 /\ KernelTakesQuota(sched, q) /\ bw' = [bw EXCEPT ![sched].quota = Quota(q)] /\ NextSched
       \/ q # 0 /\ UNCHANGED <<bw, sched, retry>> /\ Return("failed")
    /\ UNCHANGED <<limit, memsw, shares, swap, call>>

WriteQuota ==
    /\ pc = "quota"
    /\ LET q == r.bw[sched].quota IN
       \/ q = 0 /\ UNCHANGED bw /\ NextSched
       \/ /\ q # 0 /\ KernelTakesQuota(sched, q)
          /\ bw' = [bw EXCEPT ![sched].quota = Quota(q)]
          /\ IF retry THEN Goto("retry") /\ UNCHANGED <<sched, retry>> ELSE NextSched
       \/ q # 0 /\ ~KernelTakesQuota(sched, q) /\ UNCHANGED <<bw, sched, retry>> /\ Return("EINVAL")
       \/ q # 0 /\ UNCHANGED <<bw, sched, retry>> /\ Return("failed")
    /\ UNCHANGED <<limit, memsw, shares, swap, call>>

RetryPeriod ==
    /\ pc = "retry"
    /\ LET p == r.bw[sched].period IN
       \/ /\ KernelTakesPeriod(sched, p)
          /\ bw' = [bw EXCEPT ![sched].period = p]
          /\ NextSched
       \/ ~KernelTakesPeriod(sched, p) /\ UNCHANGED <<bw, sched, retry>> /\ Return("EINVAL")
       \/ UNCHANGED <<bw, sched, retry>> /\ Return("failed")
    /\ UNCHANGED <<limit, memsw, shares, swap, call>>

Next ==
    \/ Set
    \/ setMemoryAndSwap
    \/ setSwap("swapFirst", "limitSecond") \/ setMemory("limitSecond", "misc")
    \/ setMemory("limitFirst", "swapSecond") \/ setSwap("swapSecond", "misc")
    \/ SetMemoryMisc
    \/ SetShares \/ WritePeriod \/ WriteQuota \/ RetryPeriod

Spec == Init /\ [][Next]_vars

-----------------------------------------------------------------------------
TypeOK ==
    /\ limit \in 1..Unlimited /\ memsw \in 1..Unlimited
    /\ hasSwap \in BOOLEAN
    /\ shares \in MinShares..MaxShares
    /\ bw \in [Sched -> Bandwidth]
    /\ pc \in PCs
    /\ sched \in Sched
    /\ r \in Requests
    /\ swap \in Int
    /\ retry \in BOOLEAN
    /\ result \in Results
    /\ before \in [limit : 1..Unlimited, memsw : 1..Unlimited, shares : MinShares..MaxShares,
                   bw : [Sched -> Bandwidth]]

(* What a request leaves in place, taken on its own: the new value, or the *)
(* old one where it asks for none.                                         *)
WantLimit == IF r.memory = 0 THEN before.limit ELSE Bytes(r.memory)

WantSwap ==
    IF r.swap # 0 THEN Bytes(r.swap)
    ELSE IF r.memory = -1 THEN Unlimited ELSE before.memsw

WantPeriod(s) == IF r.bw[s].period = 0 THEN before.bw[s].period ELSE r.bw[s].period
WantQuota(s) == IF r.bw[s].quota = 0 THEN before.bw[s].quota ELSE Quota(r.bw[s].quota)

(* The limits it asks for are ones the kernel allows to stand together.    *)
MemoryFits ==
    /\ r.memory >= -1 /\ r.swap >= -1
    /\ r.swap # 0 => hasSwap
    /\ WantLimit <= WantSwap

BandwidthFits(s) ==
    /\ r.bw[s].period # 0 => PeriodInRange(s, r.bw[s].period)
    /\ r.bw[s].quota # 0 => QuotaInRange(s, r.bw[s].quota)
    /\ Fits(s, WantQuota(s), WantPeriod(s))

(***************************************************************************)
(* "We should adapt the write sequence for memory and swap memory, so it   *)
(* won't fail because the new value and the old value don't fit kernel's   *)
(* validation", and the same for periods and quotas: the kernel refuses a  *)
(* value, or a file is missing, only for a request whose limits could not  *)
(* stand together whatever the order of the writes.                        *)
(***************************************************************************)
OnlyBadRequestsRefused ==
    result \in {"EINVAL", "ENOENT"} => ~(MemoryFits /\ \A s \in Sched : BandwidthFits(s))

(***************************************************************************)
(* A Set that succeeds left in force every limit that was asked for, and   *)
(* every other as it was (a memory limit that is lifted lifts the swap     *)
(* limit too).                                                             *)
(***************************************************************************)
SuccessIsExact ==
    result = "nil" =>
        /\ limit = WantLimit /\ memsw = WantSwap
        /\ shares = IF r.shares = 0 THEN before.shares ELSE r.shares
        /\ \A s \in Sched : bw[s] = [quota |-> WantQuota(s), period |-> WantPeriod(s)]

(***************************************************************************)
(* However a Set ends, and in the middle of it, the limits of a pair are   *)
(* each the old or the new one, and the kernel's own rule holds between    *)
(* them: no failure in the middle leaves a limit nobody asked for.         *)
(***************************************************************************)
NoStrayLimit ==
    /\ limit \in {before.limit, WantLimit} /\ memsw \in {before.memsw, WantSwap}
    /\ limit <= memsw
    /\ \A s \in Sched :
          /\ bw[s].quota \in {before.bw[s].quota, WantQuota(s)}
          /\ bw[s].period \in {before.bw[s].period, WantPeriod(s)}
          /\ Fits(s, bw[s].quota, bw[s].period)
=============================================================================
