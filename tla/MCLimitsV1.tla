----------------------------- MODULE MCLimitsV1 -----------------------------
(* Requests for one pair at a time: the pairs do not share state.          *)
EXTENDS LimitsV1

NoBandwidth == [s \in Sched |-> [quota |-> 0, period |-> 0]]

MemoryRequests ==
    [memory : {-2, -1, 0, 1, 2}, swap : {-2, -1, 0, 1, 2, 3}, shares : {0}, bw : {NoBandwidth}]

BandwidthRequests ==
    {[memory |-> 0, swap |-> 0, shares |-> 0, bw |-> [NoBandwidth EXCEPT ![s] = b]] :
        s \in Sched, b \in [quota : {-1, 0, 2, 3}, period : {0, 1, 2, 4}]}

MCRequests ==
    MemoryRequests \cup BandwidthRequests
    \cup [memory : {0}, swap : {0}, shares : {1, 3}, bw : {NoBandwidth}]

MCMinPeriod == [s \in Sched |-> IF s = "cfs" THEN 2 ELSE 1]
MCMaxPeriod == [s \in Sched |-> 4]

(* Three quarters of a CPU, and half of one for real time.                 *)
MCParent == [s \in Sched |-> IF s = "cfs" THEN [quota |-> 3, period |-> 4] ELSE [quota |-> 1, period |-> 2]]
MCNoQuotaFits == [s \in Sched |-> s = "cfs"]
=============================================================================
