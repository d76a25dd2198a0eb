----------------------------- MODULE SystemdUnit -----------------------------
(***************************************************************************)
(* startUnit, stopUnit and resetFailedUnit of cgroups/systemd/common.go,   *)
(* called for one unit name by any number of managers at a time.  A call   *)
(* asks systemd for a job and waits for its status on a channel of its     *)
(* own, for at most 30 seconds.  The bus may restart at any moment: a      *)
(* request is then repeated by retryOnDisconnect (DbusConn), although      *)
(* systemd may have carried it out already, and a status that was awaited  *)
(* never comes.                                                            *)
(*                                                                         *)
(* A call to the bus is one step.  It has no deadline (context.TODO): that *)
(* systemd answers, or the connection breaks, is assumed.                  *)
(***************************************************************************)
EXTENDS Integers

CONSTANTS Calls,      \* the calls made, each at most once
          MaxDrops    \* bound: how often the bus is restarted

ASSUME DropsAssumption == MaxDrops \in Nat

Nobody == "nobody"
ASSUME NobodyAssumption == Nobody \notin Calls

VARIABLES
    unit,      \* systemd: the state of the unit
    maker,     \* systemd: the call that made it
    job,       \* systemd: the unit's job, and the calls to be told its status
    drops,     \* how often the bus was restarted
    pc,
    op,        \* what each call is: start, startIgnore (ignoreExist) or stop
    retry,     \* startUnit's retry
    ch,        \* statusChan: empty, a status, or closed; or what must not be
    got,       \* the status or error the call acts on
    resetErr,  \* resetFailedUnit failed
    result,
    seen       \* history: what happened to the unit meanwhile

vars == <<unit, maker, job, drops, pc, op, retry, ch, got, resetErr, result, seen>>
systemd == <<unit, maker, job, drops>>

Live == unit \in {"activating", "active", "deactivating"}
NoJob == [kind |-> "none", waiters |-> {}]

Init ==
    /\ unit \in {"none", "active", "failed"} /\ maker = Nobody
    /\ job = NoJob /\ drops = 0
    /\ pc = [c \in Calls |-> "new"]
    /\ op \in [Calls -> {"start", "startIgnore", "stop"}]
    /\ retry = [c \in Calls |-> TRUE]
    /\ ch = [c \in Calls |-> "empty"]
    /\ got = [c \in Calls |-> "none"]
    /\ resetErr = [c \in Calls |-> FALSE]
    /\ result = [c \in Calls |-> "none"]
    /\ seen = [c \in Calls |-> {}]

Busy(c) == pc[c] \notin {"new", "done"}

-----------------------------------------------------------------------------
(* systemd and the dbus library (external).                                *)

(* A status is sent once to everyone who waits for the job.  A send to a   *)
(* closed channel panics; to a full one it blocks the library for ever.    *)
Sent(old, status) ==
    IF old = "empty" THEN status ELSE IF old = "closed" THEN "panic" ELSE "blocked"

Tell(waiters, status) ==
    ch' = [c \in Calls |-> IF c \in waiters THEN Sent(ch[c], status) ELSE ch[c]]

(* StartTransientUnit: an existing unit, failed ones included, is an error.*)
MakeUnit(c, waiters) ==
    /\ unit = "none"
    /\ unit' = "activating" /\ maker' = c
    /\ job' = [kind |-> "start", waiters |-> waiters]

(* StopUnit: a job to start it is cancelled, a job to stop it is shared,   *)
(* and a failed unit has nothing to stop.                                  *)
StopJob(waiters) ==
    /\ unit # "none"
    /\ IF unit = "failed" THEN Tell(waiters, "done") /\ UNCHANGED <<unit, job>>
       ELSE /\ unit' = "deactivating"
            /\ job' = [kind |-> "stop", waiters |-> waiters \cup IF job.kind = "stop" THEN job.waiters ELSE {}]
            /\ IF job.kind = "start" THEN Tell(job.waiters, "failed") ELSE UNCHANGED ch
    /\ UNCHANGED maker

(* A restart of the bus: whoever waits for a status waits in vain.         *)
Restart == drops < MaxDrops /\ drops' = drops + 1
Deaf(kind) == [kind |-> kind, waiters |-> {}]

BusRestarts ==
    /\ Restart
    /\ job' = Deaf(job.kind)
    /\ UNCHANGED <<unit, maker, pc, op, retry, ch, got, resetErr, result>>

(* The job ends, with "done" or with any other status ("failed" here).     *)
JobDone ==
    /\ Tell(job.waiters, "done")
    /\ unit' \in IF job.kind = "start" THEN {"active"} ELSE {"none", "failed"}

JobFails ==
    /\ Tell(job.waiters, "failed")
    /\ unit' \in IF job.kind = "start" THEN {"none", "failed"} ELSE {"active", "failed"}

JobEnds ==
    /\ job # NoJob
    /\ job' = NoJob
    /\ JobDone \/ JobFails
    /\ UNCHANGED <<maker, drops, pc, op, retry, got, resetErr, result>>

(* The last process of the unit ends.                                      *)
UnitExits ==
    /\ unit = "active" /\ job = NoJob
    /\ unit' \in {"none", "failed"}
    /\ UNCHANGED <<maker, job, drops, pc, op, retry, ch, got, resetErr, result>>

(* ResetFailedUnit collects a failed unit; it may itself fail.             *)
resetFailedUnit(c) ==
    \/ /\ unit' = IF unit = "failed" THEN "none" ELSE unit
       /\ UNCHANGED resetErr
    \/ /\ resetErr' = [resetErr EXCEPT ![c] = TRUE]
       /\ UNCHANGED unit

-----------------------------------------------------------------------------
Goto(c, from, to) == pc[c] = from /\ pc' = [pc EXCEPT ![c] = to]
Return(c, from, res) == Goto(c, from, "done") /\ result' = [result EXCEPT ![c] = res]
Got(c, what) == got' = [got EXCEPT ![c] = what]

Call(c) ==
    /\ Goto(c, "new", IF op[c] = "stop" THEN "stop" ELSE "start")
    /\ UNCHANGED <<systemd, op, retry, ch, got, resetErr, result>>

(* A mutation: ignoreExist is not looked at.                               *)
UnitExistsIgnored(c) ==
    /\ unit # "none"
    /\ Return(c, "start", "nil") /\ UNCHANGED <<systemd, ch>>

(* startUnit is told that the unit exists.                                 *)
UnitExists(c) ==
    /\ unit # "none"
    /\ IF op[c] = "startIgnore" THEN Return(c, "start", "nil")
       ELSE IF retry[c] THEN Goto(c, "start", "reset") /\ UNCHANGED result
       ELSE Return(c, "start", "exists")
    /\ UNCHANGED <<systemd, ch>>

(* startUnit's request: made, refused, failed, or of unknown outcome and   *)
(* repeated.                                                               *)
StartRequest(c) ==
    /\ \/ /\ Goto(c, "start", "startWait") /\ MakeUnit(c, {c})
          /\ UNCHANGED <<drops, ch, result>>
       \/ UnitExists(c)
       \/ Return(c, "start", "err") /\ UNCHANGED <<systemd, ch>>
       \/ /\ Goto(c, "start", "start") /\ Restart
          /\ \/ MakeUnit(c, {})
             \/ job' = Deaf(job.kind) /\ UNCHANGED <<unit, maker>>
          /\ UNCHANGED <<ch, result>>
    /\ UNCHANGED <<op, retry, got, resetErr>>

(* A mutation: the leftover is not reset.                                  *)
RetryOnly(c) ==
    /\ Goto(c, "reset", "start")
    /\ retry' = [retry EXCEPT ![c] = FALSE]
    /\ UNCHANGED <<systemd, op, ch, got, resetErr, result>>

(* A mutation: it is forgotten that this was the one retry.                *)
RetryAgain(c) ==
    /\ Goto(c, "reset", "start")
    /\ resetFailedUnit(c)
    /\ UNCHANGED <<maker, job, drops, op, retry, ch, got, result>>

(* "this may be a leftover failed unit": it is reset, and one more attempt *)
(* is made whether that worked or not.                                     *)
ResetAndRetry(c) ==
    /\ Goto(c, "reset", "start")
    /\ resetFailedUnit(c)
    /\ retry' = [retry EXCEPT ![c] = FALSE]
    /\ UNCHANGED <<maker, job, drops, op, ch, got, result>>

HasStatus(c) == ch[c] \in {"done", "failed"}

(* startUnit's select: the status, or the timer.                           *)
StartStatus(c) ==
    /\ HasStatus(c)
    /\ Got(c, ch[c])
    /\ ch' = [ch EXCEPT ![c] = "closed"]
    /\ IF ch[c] = "done" THEN Return(c, "startWait", "nil")
       ELSE Goto(c, "startWait", "cleanup") /\ UNCHANGED result
    /\ UNCHANGED <<systemd, op, retry, resetErr>>

(* A mutation: the channel is closed on every way out.                     *)
StartTimeoutCloses(c) ==
    /\ Goto(c, "startWait", "cleanup")
    /\ Got(c, "timeout")
    /\ ch' = [ch EXCEPT ![c] = "closed"]
    /\ UNCHANGED <<systemd, op, retry, resetErr, result>>

StartTimeout(c) ==
    /\ Goto(c, "startWait", "cleanup")
    /\ Got(c, "timeout")
    /\ UNCHANGED <<systemd, op, retry, ch, resetErr, result>>

(* stopUnit's request: an error of any kind (no such unit, too) is not     *)
(* reported.                                                               *)
StopRequest(c) ==
    /\ \/ Goto(c, "stop", "stopWait") /\ StopJob({c}) /\ UNCHANGED <<drops, got>>
       \/ Goto(c, "stop", "cleanup") /\ Got(c, "refused") /\ UNCHANGED <<systemd, ch>>
       \/ /\ Goto(c, "stop", "stop") /\ Restart /\ UNCHANGED got
          /\ unit' \in {unit, IF Live THEN "deactivating" ELSE unit}
          /\ job' = Deaf(IF unit' = "deactivating" THEN "stop" ELSE job.kind)
          /\ UNCHANGED <<maker, ch>>
    /\ UNCHANGED <<op, retry, resetErr, result>>

(* stopUnit's select: a bad status is only logged.                         *)
StopStatus(c) ==
    /\ HasStatus(c)
    /\ Got(c, ch[c])
    /\ ch' = [ch EXCEPT ![c] = "closed"]
    /\ Goto(c, "stopWait", "cleanup")
    /\ UNCHANGED <<systemd, op, retry, resetErr, result>>

(* A mutation: a timeout is only logged.                                   *)
StopTimeoutLogged(c) ==
    /\ Goto(c, "stopWait", "cleanup")
    /\ Got(c, "timeout")
    /\ UNCHANGED <<systemd, op, retry, ch, resetErr, result>>

StopTimeout(c) ==
    /\ Return(c, "stopWait", "err")
    /\ Got(c, "timeout")
    /\ UNCHANGED <<systemd, op, retry, ch, resetErr>>

(* The last thing both do: a failed unit is reset, errors ignored.         *)
Cleanup(c) ==
    /\ Return(c, "cleanup", IF op[c] = "stop" THEN "nil" ELSE "err")
    /\ resetFailedUnit(c)
    /\ UNCHANGED <<maker, job, drops, op, retry, ch, got>>

(* What the history keeps: whether during the call the unit lived, whether *)
(* a unit the call made became active, and whether the unit was gone after *)
(* it was asked to stop.                                                   *)
Watch ==
    seen' = [c \in Calls |-> seen[c]
        \cup (IF Busy(c)' /\ Live' THEN {"live"} ELSE {})
        \cup (IF unit' = "active" /\ maker' = c THEN {"up"} ELSE {})
        \cup (IF pc'[c] = "stopWait" /\ ~Live' THEN {"gone"} ELSE {})]

Work(c) ==
    \/ StartRequest(c) \/ ResetAndRetry(c) \/ StartStatus(c) \/ StartTimeout(c)
    \/ StopRequest(c) \/ StopStatus(c) \/ StopTimeout(c)
    \/ Cleanup(c)

Next ==
    /\ \/ \E c \in Calls : Call(c) \/ Work(c)
       \/ BusRestarts \/ JobEnds \/ UnitExits
    /\ Watch

(* A call goes on, and its timer fires if nothing else happens.  Nothing   *)
(* obliges systemd to finish a job.                                        *)
Fairness == \A c \in Calls : WF_vars(Work(c) /\ Watch)

Spec == Init /\ [][Next]_vars /\ Fairness

-----------------------------------------------------------------------------
TypeOK ==
    /\ unit \in {"none", "activating", "active", "deactivating", "failed"}
    /\ maker \in Calls \cup {Nobody}
    /\ job \in [kind : {"none", "start", "stop"}, waiters : SUBSET Calls]
    /\ drops \in 0..MaxDrops
    /\ pc \in [Calls -> {"new", "start", "reset", "startWait", "stop", "stopWait", "cleanup", "done"}]
    /\ op \in [Calls -> {"start", "startIgnore", "stop"}]
    /\ retry \in [Calls -> BOOLEAN]
    /\ ch \in [Calls -> {"empty", "done", "failed", "closed", "panic", "blocked"}]
    /\ got \in [Calls -> {"none", "done", "failed", "refused", "timeout"}]
    /\ resetErr \in [Calls -> BOOLEAN]
    /\ result \in [Calls -> {"none", "nil", "err", "exists"}]
    /\ seen \in [Calls -> SUBSET {"live", "up", "gone"}]

(***************************************************************************)
(* A startUnit that may not ignore an existing unit reports success only   *)
(* when a unit it made itself became active (and so holds the pid it was   *)
(* made with): never for the unit of another container with that name, nor *)
(* for a request whose outcome was lost with the connection.               *)
(***************************************************************************)
StartedMeansOurs ==
    \A c \in Calls : op[c] = "start" /\ result[c] = "nil" => "up" \in seen[c]

(***************************************************************************)
(* The channel is used for both attempts of startUnit, for every repeated  *)
(* request, and outlives a timeout: still at most one status is ever sent  *)
(* to it, and none after it was closed.                                    *)
(***************************************************************************)
OneStatusPerChannel == \A c \in Calls : ch[c] \notin {"panic", "blocked"}

(***************************************************************************)
(* A leftover failed unit never makes a start fail: "unit exists" is       *)
(* reported only if a unit of that name really lived during the call, or   *)
(* the leftover could not be reset.                                        *)
(***************************************************************************)
LeftoverNeverBlocks ==
    \A c \in Calls : result[c] = "exists" => "live" \in seen[c] \/ resetErr[c]

(***************************************************************************)
(* A stopUnit that returns nil stopped the unit, unless systemd refused    *)
(* the request or reported a failure, which the code does not pass on; a   *)
(* status that was lost or is late is not taken for success.               *)
(***************************************************************************)
StoppedMeansGone ==
    \A c \in Calls :
        op[c] = "stop" /\ result[c] = "nil" =>
            got[c] \in {"refused", "failed"} \/ "gone" \in seen[c]

(* Every call returns, whatever the bus and systemd do to its job.         *)
CallsReturn == \A c \in Calls : Busy(c) ~> pc[c] = "done"
=============================================================================
