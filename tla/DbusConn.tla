------------------------------ MODULE DbusConn ------------------------------
(***************************************************************************)
(* The shared systemd dbus connection of cgroups/systemd/dbus.go.  All     *)
(* cgroup managers of a process use the one package variable dbusC, under  *)
(* dbusMu; retryOnDisconnect runs an operation outside the lock and        *)
(* replaces the connection when the bus went away.                         *)
(*                                                                         *)
(* A section that holds dbusMu and neither blocks nor talks to the bus is  *)
(* one step that needs the mutex free (the read-locked fast path too).     *)
(* The section that dials holds the mutex across steps.                    *)
(***************************************************************************)
EXTENDS Integers

CONSTANTS Procs,      \* the goroutines that use a cgroup manager
          MaxDrops    \* bound: how often the bus drops its connections

ASSUME DbusAssumption == MaxDrops \in Nat

NoProc == "no goroutine"
ASSUME NoProcAssumption == NoProc \notin Procs

(* Connections are numbered in the order they are dialled.  One more than  *)
(* can ever be needed, so that the bound never stops a dial.               *)
MaxConns == MaxDrops + 2
Conns == 1..MaxConns
nil == 0

VARIABLES
    dbusC,         \* the shared connection or nil
    dbusInited,    \* a manager exists
    dbusRootless,  \* ... and this is the bus it asked for
    dbusMu,        \* the goroutine that holds dbusMu across steps
    dialled,       \* number of connections made so far
    state,         \* of each connection: none, open, dead (peer gone), closed
    kind,          \* the bus each connection goes to: rootless or not
    drops,         \* how often the bus dropped its connections
    pc,            \* where each goroutine is
    rootless,      \* the bus the goroutine's manager was asked to use
    conn           \* the connection the goroutine got

vars == <<dbusC, dbusInited, dbusRootless, dbusMu, dialled, state, kind, drops, pc, rootless, conn>>

shared == <<dbusC, dbusInited, dbusRootless, dbusMu>>
bus == <<dialled, state, kind, drops>>

PCs == {"start", "panicked", "idle", "get", "slow", "dial", "op", "reset"}

Init ==
    /\ dbusC = nil /\ dbusInited = FALSE /\ dbusRootless = FALSE
    /\ dbusMu = NoProc
    /\ dialled = 0 /\ drops = 0
    /\ state = [c \in Conns |-> "none"]
    /\ kind = [c \in Conns |-> FALSE]
    /\ pc = [p \in Procs |-> "start"]
    /\ rootless \in [Procs -> BOOLEAN]
    /\ conn = [p \in Procs |-> nil]

Goto(p, from, to) == pc[p] = from /\ pc' = [pc EXCEPT ![p] = to]

Free == dbusMu = NoProc

(* A mutation: the second manager's bus silently wins.                     *)
newDbusConnManagerAnyBus(p) ==
    /\ Free
    /\ Goto(p, "start", "idle")
    /\ dbusInited' = TRUE
    /\ dbusRootless' = rootless[p]
    /\ UNCHANGED <<dbusC, dbusMu, bus, rootless, conn>>

newDbusConnManager(p) ==
    /\ Free
    /\ IF dbusInited /\ rootless[p] # dbusRootless
       THEN Goto(p, "start", "panicked") /\ UNCHANGED shared
       ELSE /\ Goto(p, "start", "idle")
            /\ dbusInited' = TRUE
            /\ dbusRootless' = rootless[p]
            /\ UNCHANGED <<dbusC, dbusMu>>
    /\ UNCHANGED <<bus, rootless, conn>>

(* retryOnDisconnect is called.                                            *)
Call(p) ==
    /\ Goto(p, "idle", "get")
    /\ UNCHANGED <<shared, bus, rootless, conn>>

(* getConnection under the read lock.                                      *)
FastPath(p) ==
    /\ Free
    /\ IF dbusC # nil
       THEN Goto(p, "get", "op") /\ conn' = [conn EXCEPT ![p] = dbusC]
       ELSE Goto(p, "get", "slow") /\ UNCHANGED conn
    /\ UNCHANGED <<shared, bus, rootless>>

(* A mutation: the connection is not looked at again under the write lock. *)
LockSlowNoRecheck(p) ==
    /\ Free
    /\ Goto(p, "slow", "dial")
    /\ dbusMu' = p
    /\ UNCHANGED <<dbusC, dbusInited, dbusRootless, bus, rootless, conn>>

(* getConnection takes the write lock and looks again.                     *)
LockSlow(p) ==
    /\ Free
    /\ IF dbusC # nil
       THEN Goto(p, "slow", "op") /\ conn' = [conn EXCEPT ![p] = dbusC] /\ UNCHANGED dbusMu
       ELSE Goto(p, "slow", "dial") /\ dbusMu' = p /\ UNCHANGED conn
    /\ UNCHANGED <<dbusC, dbusInited, dbusRootless, bus, rootless>>

(* newConnection: dials the bus dbusRootless names, stores the connection  *)
(* and releases the lock; or fails, and the call returns the error.        *)
DialOk(p) ==
    /\ dialled < MaxConns
    /\ Goto(p, "dial", "op")
    /\ dialled' = dialled + 1
    /\ state' = [state EXCEPT ![dialled + 1] = "open"]
    /\ kind' = [kind EXCEPT ![dialled + 1] = dbusRootless]
    /\ dbusC' = dialled + 1
    /\ conn' = [conn EXCEPT ![p] = dialled + 1]
    /\ dbusMu' = NoProc
    /\ UNCHANGED <<dbusInited, dbusRootless, drops, rootless>>

DialFails(p) ==
    /\ Goto(p, "dial", "idle")
    /\ dbusMu' = NoProc
    /\ UNCHANGED <<dbusC, dbusInited, dbusRootless, bus, rootless, conn>>

(* op: on a live connection it succeeds or fails with an error of its own, *)
(* and the call returns; on a dead or closed one it fails with ErrClosed.  *)
OpReturns(p) ==
    /\ Goto(p, "op", "idle")
    /\ state[conn[p]] = "open"
    /\ UNCHANGED <<shared, bus, rootless, conn>>

OpErrClosed(p) ==
    /\ Goto(p, "op", "reset")
    /\ state[conn[p]] # "open"
    /\ UNCHANGED <<shared, bus, rootless, conn>>

(* A mutation: whatever connection is current is closed.                   *)
resetConnectionAny(p) ==
    /\ Free
    /\ Goto(p, "reset", "get")
    /\ IF dbusC # nil
       THEN dbusC' = nil /\ state' = [state EXCEPT ![dbusC] = "closed"]
       ELSE UNCHANGED <<dbusC, state>>
    /\ UNCHANGED <<dbusInited, dbusRootless, dbusMu, dialled, kind, drops, rootless, conn>>

(* A mutation: the closed connection is left in place.                     *)
resetConnectionKeeps(p) ==
    /\ Free
    /\ Goto(p, "reset", "get")
    /\ IF dbusC # nil /\ dbusC = conn[p]
       THEN state' = [state EXCEPT ![dbusC] = "closed"]
       ELSE UNCHANGED state
    /\ UNCHANGED <<shared, dialled, kind, drops, rootless, conn>>

(* resetConnection(conn), then the loop starts over.                       *)
resetConnection(p) ==
    /\ Free
    /\ Goto(p, "reset", "get")
    /\ IF dbusC # nil /\ dbusC = conn[p]
       THEN dbusC' = nil /\ state' = [state EXCEPT ![dbusC] = "closed"]
       ELSE UNCHANGED <<dbusC, state>>
    /\ UNCHANGED <<dbusInited, dbusRootless, dbusMu, dialled, kind, drops, rootless, conn>>

(* The bus (external) is restarted: every connection to it is dead.        *)
BusDrops ==
    /\ drops < MaxDrops
    /\ \E c \in Conns : state[c] = "open"
    /\ drops' = drops + 1
    /\ state' = [c \in Conns |-> IF state[c] = "open" THEN "dead" ELSE state[c]]
    /\ UNCHANGED <<shared, dialled, kind, pc, rootless, conn>>

(* One iteration of retryOnDisconnect, as far as p itself drives it.       *)
Step(p) ==
    \/ FastPath(p) \/ LockSlow(p)
    \/ DialOk(p) \/ DialFails(p)
    \/ OpReturns(p) \/ OpErrClosed(p)
    \/ resetConnection(p)

Next ==
    \/ \E p \in Procs : newDbusConnManager(p) \/ Call(p) \/ Step(p)
    \/ BusDrops

(* A goroutine that can run does, and waits for dbusMu only a bounded time *)
(* (sync.RWMutex: a waiting writer blocks new readers, and no writer is    *)
(* passed over forever): strong fairness of each goroutine's own steps.    *)
(* Nothing forces a call, a manager or a restart of the bus to happen.     *)
Fairness == \A p \in Procs : SF_vars(Step(p))

Spec == Init /\ [][Next]_vars /\ Fairness

-----------------------------------------------------------------------------
TypeOK ==
    /\ dbusC \in 0..dialled           \* nil or a connection that was made
    /\ dbusInited \in BOOLEAN /\ dbusRootless \in BOOLEAN
    /\ dbusMu \in Procs \cup {NoProc}
    /\ dialled \in 0..MaxConns
    /\ state \in [Conns -> {"none", "open", "dead", "closed"}]
    /\ kind \in [Conns -> BOOLEAN]
    /\ drops \in 0..MaxDrops
    /\ pc \in [Procs -> PCs]
    /\ rootless \in [Procs -> BOOLEAN]
    /\ conn \in [Procs -> Conns \cup {nil}]

(* No connection leaks: one that was dialled and not closed is the shared  *)
(* one, so two goroutines that find dbusC nil never both keep a socket.    *)
NoLeakedConnection ==
    \A c \in Conns : state[c] \in {"open", "dead"} => c = dbusC

(* However many goroutines see the bus go away, each time costs at most    *)
(* one new connection.                                                     *)
OneReconnectPerDrop == dialled <= drops + 1

(* A goroutine's operations go to the bus its manager was made for.        *)
RightBus ==
    \A p \in Procs : pc[p] \in {"op", "reset"} => kind[conn[p]] = rootless[p]

(* A connection other goroutines use and that works is never closed: what  *)
(* resetConnection closes was dead.                                        *)
HealthyNeverClosed ==
    [][\A c \in Conns : state[c] = "open" => state'[c] # "closed"]_vars

(* Every call returns, though the bus restarts under it and others reset   *)
(* the connection first.                                                   *)
CallsReturn == \A p \in Procs : pc[p] = "get" ~> pc[p] = "idle"
=============================================================================
