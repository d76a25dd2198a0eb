-------------------------- MODULE SystemdUnitProofs --------------------------
(***************************************************************************)
(* Proofs about SystemdUnit for any number of calls at a time and any      *)
(* number of restarts of the bus.                                          *)
(***************************************************************************)
EXTENDS SystemdUnit, TLAPS

(* A unit has a job exactly while it is on its way up or down.             *)
JobMatches ==
    /\ job.kind = "start" <=> unit = "activating"
    /\ job.kind = "stop" <=> unit = "deactivating"

(* Who is to be told: of a start only the call that made the unit, of a    *)
(* stop only calls that asked for it; each has an empty channel.           *)
Waiters ==
    \A c \in job.waiters :
        /\ job.kind \in {"start", "stop"}
        /\ ch[c] = "empty"
        /\ job.kind = "start" => maker = c /\ op[c] # "stop"
        /\ job.kind = "stop" => op[c] = "stop"

(* Until its request is accepted nobody knows of a call's channel.         *)
Fresh ==
    \A c \in Calls : pc[c] \in {"new", "start", "reset", "stop"} =>
        ch[c] = "empty" /\ c \notin job.waiters

(* The place of a call agrees with what it is.                             *)
OpAt ==
    \A c \in Calls :
        /\ pc[c] \in {"start", "reset", "startWait"} => op[c] # "stop"
        /\ pc[c] \in {"stop", "stopWait"} => op[c] = "stop"

(* A status says what happened to the unit.                                *)
StatusTrue ==
    \A c \in Calls :
        /\ op[c] # "stop" /\ ch[c] = "done" => "up" \in seen[c]
        /\ pc[c] = "stopWait" /\ ch[c] = "done" => "gone" \in seen[c]
        /\ pc[c] = "cleanup" /\ op[c] = "stop" =>
              got[c] \in {"refused", "failed"} \/ "gone" \in seen[c]

(* A unit that lives during a call is noticed, and after the reset there   *)
(* is no unit but one that lived since.                                    *)
LiveSeen == \A c \in Calls : Busy(c) /\ Live => "live" \in seen[c]

RetryClean ==
    \A c \in Calls :
        /\ pc[c] = "new" => retry[c]
        /\ pc[c] = "start" /\ ~retry[c] => unit = "none" \/ "live" \in seen[c] \/ resetErr[c]

IInv ==
    /\ TypeOK
    /\ JobMatches /\ Waiters /\ Fresh /\ OpAt /\ StatusTrue /\ LiveSeen /\ RetryClean
    /\ StartedMeansOurs /\ OneStatusPerChannel /\ LeftoverNeverBlocks /\ StoppedMeansGone

-----------------------------------------------------------------------------
(* What the history is told by a step.                                     *)
Noted ==
    /\ seen' \in [Calls -> SUBSET {"live", "up", "gone"}]
    /\ \A c \in Calls :
          /\ seen[c] \subseteq seen'[c]
          /\ Busy(c)' /\ Live' => "live" \in seen'[c]
          /\ unit' = "active" /\ maker' = c => "up" \in seen'[c]
          /\ pc'[c] = "stopWait" /\ ~Live' => "gone" \in seen'[c]

(* Watch notes it.                                                         *)
LEMMA WatchNotes == ASSUME TypeOK, Watch PROVE Noted
  <1>1. ASSUME NEW c \in Calls PROVE seen'[c] = seen[c]
           \cup (IF Busy(c)' /\ Live' THEN {"live"} ELSE {})
           \cup (IF unit' = "active" /\ maker' = c THEN {"up"} ELSE {})
           \cup (IF pc'[c] = "stopWait" /\ ~Live' THEN {"gone"} ELSE {})
    BY <1>1 DEF Watch
  <1>2. \A c \in Calls : seen[c] \subseteq {"live", "up", "gone"} BY DEF TypeOK
  <1>3. seen' = [c \in Calls |-> seen'[c]] BY DEF Watch
  <1>4. \A c \in Calls : seen'[c] \subseteq {"live", "up", "gone"} BY <1>1, <1>2
  <1> QED BY <1>1, <1>3, <1>4 DEF Noted

(* Init establishes the invariant.                                         *)
LEMMA InitIInv == Init => IInv
  <1> SUFFICES ASSUME Init PROVE IInv OBVIOUS
  <1> USE DropsAssumption, NobodyAssumption DEF Init, NoJob
  <1>1. TypeOK BY DEF TypeOK
  <1>2. JobMatches /\ Waiters /\ Fresh /\ OpAt BY DEF JobMatches, Waiters, Fresh, OpAt
  <1>3. StatusTrue /\ LiveSeen /\ RetryClean BY DEF StatusTrue, LiveSeen, RetryClean, Busy
  <1>4. StartedMeansOurs /\ OneStatusPerChannel /\ LeftoverNeverBlocks /\ StoppedMeansGone
    BY DEF StartedMeansOurs, OneStatusPerChannel, LeftoverNeverBlocks, StoppedMeansGone
  <1> QED BY <1>1, <1>2, <1>3, <1>4 DEF IInv

-----------------------------------------------------------------------------
(* Every step keeps the invariant.                                         *)
LEMMA NextIInv == IInv /\ [Next]_vars => IInv'
  <1> SUFFICES ASSUME IInv, [Next]_vars PROVE IInv' OBVIOUS
  <1>s. CASE UNCHANGED vars
    BY <1>s DEF vars, IInv, TypeOK, JobMatches, Waiters, Fresh, OpAt, StatusTrue, LiveSeen,
       RetryClean, StartedMeansOurs, OneStatusPerChannel, LeftoverNeverBlocks, StoppedMeansGone,
       Busy, Live
  <1>n. CASE Next
    <2>w. Noted BY <1>n, WatchNotes DEF Next, IInv
    <2> USE <2>w, DropsAssumption, NobodyAssumption
        DEF IInv, TypeOK, JobMatches, Waiters, Fresh, OpAt, StatusTrue, LiveSeen,
            RetryClean, StartedMeansOurs, OneStatusPerChannel, LeftoverNeverBlocks,
            StoppedMeansGone, Noted, Busy, Live, Goto, Return, Got, systemd, NoJob
    <2>1. ASSUME NEW c \in Calls, Call(c) PROVE IInv'
      BY <2>1 DEF Call
    <2>2. ASSUME NEW c \in Calls, StartRequest(c) PROVE IInv'
      BY <2>2 DEF StartRequest, UnitExists, MakeUnit, Restart, Deaf
    <2>3. ASSUME NEW c \in Calls, ResetAndRetry(c) PROVE IInv'
      <3>1. CASE unit' = (IF unit = "failed" THEN "none" ELSE unit) /\ UNCHANGED resetErr
        BY <2>3, <3>1 DEF ResetAndRetry
      <3>2. CASE resetErr' = [resetErr EXCEPT ![c] = TRUE] /\ UNCHANGED unit
        BY <2>3, <3>2 DEF ResetAndRetry
      <3> QED BY <2>3, <3>1, <3>2 DEF ResetAndRetry, resetFailedUnit
    <2>4. ASSUME NEW c \in Calls, StartStatus(c) PROVE IInv'
      BY <2>4 DEF StartStatus, HasStatus
    <2>5. ASSUME NEW c \in Calls, StartTimeout(c) PROVE IInv'
      BY <2>5 DEF StartTimeout
    <2>6. ASSUME NEW c \in Calls, StopRequest(c) PROVE IInv'
      BY <2>6 DEF StopRequest, StopJob, Tell, Sent, Restart, Deaf
    <2>7. ASSUME NEW c \in Calls, StopStatus(c) PROVE IInv'
      BY <2>7 DEF StopStatus, HasStatus
    <2>8. ASSUME NEW c \in Calls, StopTimeout(c) PROVE IInv'
      BY <2>8 DEF StopTimeout
    <2>9. ASSUME NEW c \in Calls, Cleanup(c) PROVE IInv'
      <3>1. CASE unit' = (IF unit = "failed" THEN "none" ELSE unit) /\ UNCHANGED resetErr
        BY <2>9, <3>1 DEF Cleanup
      <3>2. CASE resetErr' = [resetErr EXCEPT ![c] = TRUE] /\ UNCHANGED unit
        BY <2>9, <3>2 DEF Cleanup
      <3> QED BY <2>9, <3>1, <3>2 DEF Cleanup, resetFailedUnit
    <2>10. CASE BusRestarts
      BY <2>10 DEF BusRestarts, Restart, Deaf
    <2>11. CASE JobEnds
      BY <2>11 DEF JobEnds, JobDone, JobFails, Tell, Sent
    <2>12. CASE UnitExits
      BY <2>12 DEF UnitExits
    <2> QED BY <1>n, <2>1, <2>2, <2>3, <2>4, <2>5, <2>6, <2>7, <2>8, <2>9, <2>10, <2>11, <2>12
            DEF Next, Work
  <1> QED BY <1>s, <1>n

(* The inductive invariant holds in every reachable state.                 *)
THEOREM Invariance == Spec => []IInv
  BY InitIInv, NextIInv, PTL DEF Spec

(* Every variable keeps its type.                                          *)
THEOREM TypeCorrect == Spec => []TypeOK
  BY Invariance, PTL DEF IInv

(* A start that succeeds made the unit itself.                             *)
THEOREM StartIsOurs == Spec => []StartedMeansOurs
  BY Invariance, PTL DEF IInv

(* No status is sent twice or to a closed channel.                         *)
THEOREM ChannelsSafe == Spec => []OneStatusPerChannel
  BY Invariance, PTL DEF IInv

(* A leftover failed unit does not make a start fail.                      *)
THEOREM LeftoverHarmless == Spec => []LeftoverNeverBlocks
  BY Invariance, PTL DEF IInv

(* A stop that succeeds stopped the unit.                                  *)
THEOREM StopIsReal == Spec => []StoppedMeansGone
  BY Invariance, PTL DEF IInv
=============================================================================
