---------------------------- MODULE DbusConnProofs ----------------------------
(***************************************************************************)
(* Proofs about DbusConn for any number of goroutines and of restarts of   *)
(* the bus.                                                                *)
(***************************************************************************)
EXTENDS DbusConn, TLAPS

(* Connections exist in the order they were dialled.                       *)
Numbered == \A c \in Conns : state[c] = "none" <=> c > dialled

(* The shared connection was not closed.                                   *)
SharedUsable == dbusC # nil => state[dbusC] \in {"open", "dead"}

(* The mutex is held across steps by the one goroutine that dials, and     *)
(* then there is no shared connection.                                     *)
DialHoldsMutex ==
    \A p \in Procs : pc[p] = "dial" => dbusMu = p /\ dbusC = nil

MutexIsDialling == \A p \in Procs : dbusMu = p => pc[p] = "dial"

(* A goroutine that got a connection got a real one, and resets only one   *)
(* that is gone.                                                           *)
HeldReal == \A p \in Procs : pc[p] \in {"op", "reset"} => conn[p] \in Conns /\ conn[p] <= dialled

ResetsGone == \A p \in Procs : pc[p] = "reset" => state[conn[p]] \in {"dead", "closed"}

(* Each connection but the open one was paid for by a restart of the bus.  *)
Paid == dialled <= drops + 1 /\ ((\A c \in Conns : state[c] # "open") => dialled <= drops)

(* One bus for the whole process.                                          *)
OneBus ==
    /\ \A p \in Procs : pc[p] \notin {"start", "panicked"} => dbusInited /\ rootless[p] = dbusRootless
    /\ \A c \in Conns : c <= dialled => kind[c] = dbusRootless
    /\ ~dbusInited => dialled = 0

IInv ==
    /\ TypeOK
    /\ Numbered /\ SharedUsable /\ DialHoldsMutex /\ MutexIsDialling
    /\ HeldReal /\ ResetsGone /\ Paid /\ OneBus
    /\ NoLeakedConnection

(* The connection numbers.                                                 *)
LEMMA ConnsFacts == /\ MaxConns \in Nat /\ MaxConns = MaxDrops + 2
                    /\ \A c : c \in Conns <=> c \in Nat /\ 1 <= c /\ c <= MaxConns
                    /\ nil = 0 /\ nil \notin Conns
  BY DbusAssumption DEF MaxConns, Conns, nil

(* Init establishes the invariant.                                         *)
LEMMA InitIInv == Init => IInv
  <1> SUFFICES ASSUME Init PROVE IInv OBVIOUS
  <1> USE ConnsFacts, DbusAssumption, NoProcAssumption DEF Init
  <1>1. TypeOK
    <2>1. dialled \in 0..MaxConns /\ drops \in 0..MaxDrops OBVIOUS
    <2>2. kind \in [Conns -> BOOLEAN] OBVIOUS
    <2>3. dbusInited \in BOOLEAN /\ dbusRootless \in BOOLEAN OBVIOUS
    <2> QED BY <2>1, <2>2, <2>3 DEF TypeOK, PCs
  <1>2. Numbered /\ SharedUsable /\ Paid /\ NoLeakedConnection
    BY DEF Numbered, SharedUsable, Paid, NoLeakedConnection
  <1>3. DialHoldsMutex /\ MutexIsDialling /\ HeldReal /\ ResetsGone
    BY DEF DialHoldsMutex, MutexIsDialling, HeldReal, ResetsGone
  <1>4. OneBus BY DEF OneBus
  <1> QED BY <1>1, <1>2, <1>3, <1>4 DEF IInv

(* Every step keeps the invariant.                                         *)
LEMMA NextIInv == IInv /\ [Next]_vars => IInv'
  <1> SUFFICES ASSUME IInv, [Next]_vars PROVE IInv' OBVIOUS
  <1> USE ConnsFacts, DbusAssumption, NoProcAssumption
      DEF IInv, TypeOK, PCs, Numbered, SharedUsable, DialHoldsMutex, MutexIsDialling,
         HeldReal, ResetsGone, Paid, OneBus, NoLeakedConnection, Goto, Free, shared, bus
  <1>1. ASSUME NEW p \in Procs, newDbusConnManager(p) PROVE IInv'
    <2>1. CASE dbusInited /\ rootless[p] # dbusRootless
      BY <1>1, <2>1 DEF newDbusConnManager
    <2>2. CASE ~(dbusInited /\ rootless[p] # dbusRootless)
      <3>1. /\ pc[p] = "start" /\ pc' = [pc EXCEPT ![p] = "idle"]
            /\ dbusInited' = TRUE /\ dbusRootless' = rootless[p]
            /\ UNCHANGED <<dbusC, dbusMu, dialled, state, kind, drops, rootless, conn>>
        BY <1>1, <2>2 DEF newDbusConnManager
      <3>2. TypeOK' BY <3>1
      <3>3. OneBus'
        <4>1. CASE dbusInited
          <5>1. dbusRootless' = dbusRootless BY <2>2, <3>1, <4>1
          <5> QED BY <3>1, <4>1, <5>1
        <4>2. CASE ~dbusInited
          BY <3>1, <4>2
        <4> QED BY <4>1, <4>2
      <3> QED BY <3>1, <3>2, <3>3
    <2> QED BY <2>1, <2>2
  <1>2. ASSUME NEW p \in Procs, Call(p) PROVE IInv'
    BY <1>2 DEF Call
  <1>3. ASSUME NEW p \in Procs, FastPath(p) PROVE IInv'
    BY <1>3 DEF FastPath
  <1>4. ASSUME NEW p \in Procs, LockSlow(p) PROVE IInv'
    BY <1>4 DEF LockSlow
  <1>5. ASSUME NEW p \in Procs, DialOk(p) PROVE IInv'
    BY <1>5 DEF DialOk
  <1>6. ASSUME NEW p \in Procs, DialFails(p) PROVE IInv'
    BY <1>6 DEF DialFails
  <1>7. ASSUME NEW p \in Procs, OpReturns(p) PROVE IInv'
    BY <1>7 DEF OpReturns
  <1>8. ASSUME NEW p \in Procs, OpErrClosed(p) PROVE IInv'
    BY <1>8 DEF OpErrClosed
  <1>9. ASSUME NEW p \in Procs, resetConnection(p) PROVE IInv'
    BY <1>9 DEF resetConnection
  <1>10. CASE BusDrops
    BY <1>10 DEF BusDrops
  <1>11. CASE UNCHANGED vars
    BY <1>11 DEF vars
  <1> QED BY <1>1, <1>2, <1>3, <1>4, <1>5, <1>6, <1>7, <1>8, <1>9, <1>10, <1>11 DEF Next, Step

(* The inductive invariant holds in every reachable state.                 *)
THEOREM Invariance == Spec => []IInv
  BY InitIInv, NextIInv, PTL DEF Spec

(* Every variable keeps its type.                                          *)
THEOREM TypeCorrect == Spec => []TypeOK
  BY Invariance, PTL DEF IInv

(* getConnection's double check: no goroutine leaves a socket behind.      *)
THEOREM NoLeak == Spec => []NoLeakedConnection
  BY Invariance, PTL DEF IInv

(* A restart of the bus costs at most one new connection.                  *)
THEOREM ReconnectsBounded == Spec => []OneReconnectPerDrop
  BY Invariance, PTL DEF IInv, Paid, OneReconnectPerDrop

(* Operations go to the bus the manager was made for.                      *)
THEOREM BusIsRight == Spec => []RightBus
  <1>1. IInv => RightBus
    BY ConnsFacts DEF IInv, RightBus, OneBus, HeldReal, TypeOK
  <1> QED BY <1>1, Invariance, PTL

(* resetConnection never closes a connection that works.                   *)
THEOREM HealthyKept == Spec => HealthyNeverClosed
  <1> DEFINE Keep == \A c \in Conns : state[c] = "open" => state'[c] # "closed"
  <1>1. ASSUME IInv, Next PROVE Keep
    <2> SUFFICES ASSUME NEW c \in Conns, state[c] = "open" PROVE state'[c] # "closed"
      OBVIOUS
    <2> USE <1>1 DEF IInv, TypeOK
    <2>1. CASE state' = state BY <2>1
    <2>2. ASSUME NEW p \in Procs, DialOk(p) PROVE state'[c] # "closed"
      BY <2>2 DEF DialOk
    <2>3. ASSUME NEW p \in Procs, resetConnection(p) PROVE state'[c] # "closed"
      <3>1. state[conn[p]] # "open" BY <2>3 DEF resetConnection, Goto, ResetsGone
      <3> QED BY <2>3, <3>1 DEF resetConnection
    <2>4. CASE BusDrops BY <2>4 DEF BusDrops
    <2> QED BY <1>1, <2>1, <2>2, <2>3, <2>4 DEF Next, Step, newDbusConnManager, Call, FastPath,
               LockSlow, DialFails, OpReturns, OpErrClosed, shared, bus
  <1>2. IInv /\ [Next]_vars => [Keep]_vars BY <1>1
  <1> QED BY <1>2, Invariance, PTL DEF Spec, HealthyNeverClosed
=============================================================================
