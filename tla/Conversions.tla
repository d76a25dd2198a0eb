---------------------------- MODULE Conversions ----------------------------
(***************************************************************************)
(* The conversions from the cgroup v1 units of configs.Resources to those  *)
(* of cgroup v2 files and systemd properties (cgroups/utils.go,            *)
(* fs2/memory.go, systemd/common.go).  Numbers stand for bytes, microsec-  *)
(* onds or weights; Infinity stands for "max" and for the all-ones uint64  *)
(* that systemd reads as infinity.                                         *)
(***************************************************************************)
EXTENDS Integers

Infinity == 1000000000

(* numToStr of a limit that is not 0; uint64() treats -1 the same way.     *)
Unlimited(v) == IF v = -1 THEN Infinity ELSE v

(* ConvertMemorySwapToCgroupV2Value: memory+swap to swap alone.            *)
SwapErr(swap, mem) == swap \notin {-1, 0} /\ (mem <= 0 \/ swap < mem)
ConvertMemorySwapToCgroupV2Value(swap, mem) ==
    IF mem = -1 /\ swap = 0 THEN -1
    ELSE IF swap \in {-1, 0} THEN swap
    ELSE swap - mem

(* ConvertCPUSharesToCgroupV2Value, for shares of 2 and more: a share of 1 *)
(* is less than the kernel's least and wraps around in the code's uint64.  *)
ConvertCPUSharesToCgroupV2Value(shares) == IF shares = 0 THEN 0 ELSE 1 + ((shares - 2) * 9999) \div 262142

(* ConvertBlkIOToIOWeightValue, for weights of 10 and more.                *)
ConvertBlkIOToIOWeightValue(w) == IF w = 0 THEN 0 ELSE 1 + ((w - 10) * 9999) \div 990

(* addCpuQuota: a quota in microseconds per CPU second, rounded up to a    *)
(* whole percent.                                                          *)
defCPUQuotaPeriod == 100000
cpuQuotaPerSec(quota, period) ==
    LET p == IF period = 0 THEN defCPUQuotaPeriod ELSE period
        exact == (quota * 1000000) \div p
    IN  IF quota <= 0 THEN Infinity
        ELSE IF exact % 10000 = 0 THEN exact ELSE (exact \div 10000 + 1) * 10000

(* RangeToBits: the bit mask of a list of CPU ranges, 0 for an error (a    *)
(* range that ends before it starts, or no CPU at all).                    *)
RangeToBits(ranges) ==
    LET Covered(bit) == \E r \in ranges : bit \in r[1]..r[2]
        Bit(bit, weight) == IF Covered(bit) THEN weight ELSE 0
    IN  IF \E r \in ranges : r[1] > r[2] THEN 0
        ELSE Bit(0, 1) + Bit(1, 2) + Bit(2, 4) + Bit(3, 8)   \* a bound: CPUs 0 to 3

=============================================================================
