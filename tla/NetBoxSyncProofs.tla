--------------------------- MODULE NetBoxSyncProofs ---------------------------
(***************************************************************************)
(* Proofs about NetBoxSync, for any number of workers that sync beside the *)
(* scheduler and any history of the NetBox inventory.                      *)
(***************************************************************************)
EXTENDS NetBoxSync, TLAPS

\* Version numbers and times are natural numbers; Nothing lies below them.
LEMMA Numbers ==
    /\ Version \subseteq Nat /\ Time \subseteq Nat
    /\ Nothing \in Int /\ Nothing \notin Version /\ Nothing \notin Time
    /\ 0 \in Version /\ 0 \in Time
    /\ \A n \in Nat : Nothing <= n
BY NetBoxBounds DEF Version, Time, Nothing

\* StampBeforeRead is a part of SyncInv.
LEMMA StampFollows == SyncInv => StampBeforeRead
BY DEF SyncInv, StampBeforeRead

\* The initial states satisfy the inductive invariant.
LEMMA InitInvariant == Init => IInv
<1> SUFFICES ASSUME Init PROVE IInv
  OBVIOUS
<1>1. TypeOK
  BY Numbers DEF Init, TypeOK
<1>2. SyncInv
  BY Numbers DEF Init, SyncInv
<1>3. AloneInv
  BY Numbers DEF Init, AloneInv, UnderWay
<1>4. OnlyServedLists
  BY DEF Init, OnlyServedLists
<1> QED
  BY <1>1, <1>2, <1>3, <1>4, StampFollows DEF IInv

\* The order of the lists installed by syncs that meet no other one.
LEMMA AloneStep == IInv /\ [Next]_vars => AloneInv'
<1> SUFFICES ASSUME IInv, [Next]_vars PROVE AloneInv'
  OBVIOUS
<1> USE Numbers, SchedulerAssumption DEF IInv
<1>1. ASSUME NEW t \in Thread, BeginSync(t) PROVE AloneInv'
  BY <1>1
  DEF TypeOK, AloneInv, UnderWay, BeginSync, Goto, Return, netbox, local, threads,
      dashboard
<1>2. ASSUME NEW t \in Thread, NetBoxReads(t) PROVE AloneInv'
  BY <1>2
  DEF TypeOK, AloneInv, UnderWay, NetBoxReads, Goto, Return, netbox, local, threads,
      dashboard
<1>3. ASSUME NEW t \in Thread, FetchFails(t) PROVE AloneInv'
  BY <1>3
  DEF TypeOK, AloneInv, UnderWay, FetchFails, Goto, Return, netbox, local, threads,
      dashboard
<1>4. ASSUME NEW t \in Thread, Replace(t) PROVE AloneInv'
  <2>1. got[t] \in 0 .. inventory
    BY <1>4 DEF SyncInv, Replace
  <2>2. /\ hosts' = got[t] /\ UNCHANGED <<got, overlap, inventory>>
        /\ pc' = [pc EXCEPT ![t] = "top"] /\ pc[t] = "fetched"
    BY <1>4 DEF Replace, Goto, netbox
  <2>3. hosts' <= inventory'
    BY <2>1, <2>2 DEF TypeOK
  <2>4. \A u \in Thread : UnderWay(u)' <=> UnderWay(u)
    BY <2>2 DEF TypeOK, UnderWay
  <2>5. ~overlap' => \A u \in Thread \ {t} : ~UnderWay(u)'
    BY <2>2, <2>4 DEF AloneInv, UnderWay
  <2> QED
    BY <2>2, <2>3, <2>4, <2>5 DEF AloneInv, UnderWay, TypeOK
<1>5. ASSUME NEW t \in Thread, Submit(t) PROVE AloneInv'
  BY <1>5
  DEF TypeOK, AloneInv, UnderWay, Submit, Goto, Return, netbox, local, threads,
      dashboard
<1>6. ASSUME NEW t \in Thread, Accepted(t) PROVE AloneInv'
  BY <1>6
  DEF TypeOK, AloneInv, UnderWay, Accepted, Goto, Return, netbox, local, threads,
      dashboard
<1>7. ASSUME NEW t \in Thread, Refused(t) PROVE AloneInv'
  BY <1>7
  DEF TypeOK, AloneInv, UnderWay, Refused, Goto, Return, netbox, local, threads,
      dashboard
<1>8. ASSUME NEW t \in Thread, Unauthorized(t) PROVE AloneInv'
  BY <1>8
  DEF TypeOK, AloneInv, UnderWay, Unauthorized, Goto, Return, netbox, local, threads,
      dashboard
<1>9. ASSUME NEW t \in Thread, Retriable(t) PROVE AloneInv'
  BY <1>9
  DEF TypeOK, AloneInv, UnderWay, Retriable, Goto, Return, netbox, local, threads,
      dashboard
<1>10. ASSUME NEW t \in Thread, BackoffOver(t) PROVE AloneInv'
  BY <1>10
  DEF TypeOK, AloneInv, UnderWay, BackoffOver, Goto, Return, netbox, local, threads,
      dashboard
<1>11. ASSUME NEW t \in Thread, GiveUp(t) PROVE AloneInv'
  BY <1>11
  DEF TypeOK, AloneInv, UnderWay, GiveUp, Goto, Return, netbox, local, threads,
      dashboard
<1>12. ASSUME NEW t \in Thread, Record(t) PROVE AloneInv'
  BY <1>12
  DEF TypeOK, AloneInv, UnderWay, Record, Goto, Return, netbox, local, threads,
      dashboard
<1>13. CASE Signal
  BY <1>13
  DEF TypeOK, AloneInv, UnderWay, Signal, Thread, Goto, netbox, local, threads,
      dashboard
<1>14. CASE IntervalOver
  BY <1>14
  DEF TypeOK, AloneInv, UnderWay, IntervalOver, Thread, Goto, netbox, local, threads,
      dashboard
<1>15. CASE SchedulerStops
  BY <1>15
  DEF TypeOK, AloneInv, UnderWay, SchedulerStops, Thread, Goto, netbox, local,
      threads, dashboard
<1>16. CASE ConfigBroken
  BY <1>16
  DEF TypeOK, AloneInv, UnderWay, ConfigBroken, Thread, Goto, netbox, local, threads,
      dashboard
<1>17. CASE NetBoxChanges
  BY <1>17
  DEF TypeOK, AloneInv, UnderWay, NetBoxChanges, netbox, local, threads, dashboard
<1>18. CASE LateRequest
  BY <1>18
  DEF TypeOK, AloneInv, UnderWay, LateRequest, netbox, local, threads, dashboard
<1>19. CASE Revoke
  BY <1>19 DEF TypeOK, AloneInv, UnderWay, Revoke, netbox, local, threads, dashboard
<1>20. CASE SignalShutdown
  BY <1>20
  DEF TypeOK, AloneInv, UnderWay, SignalShutdown, netbox, local, threads, dashboard
<1>21. CASE Tick
  BY <1>21 DEF TypeOK, AloneInv, UnderWay, Tick, netbox, local, threads, dashboard
<1>22. CASE UNCHANGED vars
  BY <1>22 DEF AloneInv, UnderWay, vars, netbox, local, threads, dashboard
<1> QED
  BY <1>1, <1>2, <1>3, <1>4, <1>5, <1>6, <1>7, <1>8, <1>9, <1>10, <1>11, <1>12, <1>13,
     <1>14, <1>15, <1>16, <1>17, <1>18, <1>19, <1>20, <1>21, <1>22
  DEF Next, Progress, Verdict, SchedulerLoop, Environment

\* Every step preserves the inductive invariant.
LEMMA StepInvariant == IInv /\ [Next]_vars => IInv'
<1>a. SyncInv' => StampBeforeRead'
  BY StampFollows, PTL
<1> SUFFICES ASSUME IInv, [Next]_vars PROVE TypeOK' /\ SyncInv' /\ OnlyServedLists'
  BY <1>a, AloneStep DEF IInv
<1> USE Numbers, NetBoxBounds, SchedulerAssumption DEF IInv
<1>1. ASSUME NEW t \in Thread, BeginSync(t) PROVE TypeOK' /\ SyncInv' /\ OnlyServedLists'
  <2>1. TypeOK'
    BY <1>1 DEF TypeOK, BeginSync, Goto, Return, netbox, local, threads, dashboard
  <2>2. SyncInv'
    BY <1>1
    DEF TypeOK, SyncInv, OnlyServedLists, BeginSync, Goto, Return, netbox, local,
        threads, dashboard
  <2>3. OnlyServedLists'
    BY <1>1
    DEF TypeOK, SyncInv, OnlyServedLists, BeginSync, Goto, Return, netbox, local,
        threads, dashboard
  <2> QED
    BY <2>1, <2>2, <2>3
<1>2. ASSUME NEW t \in Thread, NetBoxReads(t) PROVE TypeOK' /\ SyncInv' /\ OnlyServedLists'
  <2>1. TypeOK'
    BY <1>2
    DEF TypeOK, NetBoxReads, SyncInv, Goto, Return, netbox, local, threads, dashboard
  <2>2. SyncInv'
    BY <1>2
    DEF TypeOK, SyncInv, OnlyServedLists, NetBoxReads, Goto, Return, netbox, local,
        threads, dashboard
  <2>3. OnlyServedLists'
    BY <1>2
    DEF TypeOK, SyncInv, OnlyServedLists, NetBoxReads, Goto, Return, netbox, local,
        threads, dashboard
  <2> QED
    BY <2>1, <2>2, <2>3
<1>3. ASSUME NEW t \in Thread, FetchFails(t) PROVE TypeOK' /\ SyncInv' /\ OnlyServedLists'
  <2>1. TypeOK'
    BY <1>3 DEF TypeOK, FetchFails, Goto, Return, netbox, local, threads, dashboard
  <2>2. SyncInv'
    <3>1. /\ stamp' = [stamp EXCEPT ![t] = Nothing] /\ pc'[t] \in {"signal", "idle"}
          /\ \A u \in Thread \ {t} : pc'[u] = pc[u] /\ got'[u] = got[u]
          /\ got'[t] = Nothing \/ (got'[t] = got[t] /\ pc[t] # "fetched")
          /\ now' = now /\ Nothing <= now
      BY <1>3 DEF FetchFails, Goto, Return, TypeOK
    <3>2. UNCHANGED <<inventory, changedAt, served, hosts, late>>
      BY <1>3 DEF FetchFails, netbox, local, dashboard
    <3> QED
      BY <2>1, <3>1, <3>2 DEF TypeOK, SyncInv
  <2>3. OnlyServedLists'
    BY <1>3
    DEF TypeOK, SyncInv, OnlyServedLists, FetchFails, Goto, Return, netbox, local,
        threads, dashboard
  <2> QED
    BY <2>1, <2>2, <2>3
<1>4. ASSUME NEW t \in Thread, Replace(t) PROVE TypeOK' /\ SyncInv' /\ OnlyServedLists'
  <2>1. TypeOK'
    BY <1>4 DEF TypeOK, Replace, Goto, Return, netbox, local, threads, dashboard
  <2>2. SyncInv'
    BY <1>4
    DEF TypeOK, SyncInv, OnlyServedLists, Replace, Goto, Return, netbox, local,
        threads, dashboard
  <2>3. OnlyServedLists'
    BY <1>4
    DEF TypeOK, SyncInv, OnlyServedLists, Replace, Goto, Return, netbox, local,
        threads, dashboard
  <2> QED
    BY <2>1, <2>2, <2>3
<1>5. ASSUME NEW t \in Thread, Submit(t) PROVE TypeOK' /\ SyncInv' /\ OnlyServedLists'
  <2>1. TypeOK'
    BY <1>5 DEF TypeOK, Submit, Goto, Return, netbox, local, threads, dashboard
  <2>2. SyncInv'
    BY <1>5
    DEF TypeOK, SyncInv, OnlyServedLists, Submit, Goto, Return, netbox, local,
        threads, dashboard
  <2>3. OnlyServedLists'
    BY <1>5
    DEF TypeOK, SyncInv, OnlyServedLists, Submit, Goto, Return, netbox, local,
        threads, dashboard
  <2> QED
    BY <2>1, <2>2, <2>3
<1>6. ASSUME NEW t \in Thread, Accepted(t) PROVE TypeOK' /\ SyncInv' /\ OnlyServedLists'
  <2>1. TypeOK'
    BY <1>6 DEF TypeOK, Accepted, Goto, Return, netbox, local, threads, dashboard
  <2>2. SyncInv'
    BY <1>6
    DEF TypeOK, SyncInv, OnlyServedLists, Accepted, Goto, Return, netbox, local,
        threads, dashboard
  <2>3. OnlyServedLists'
    BY <1>6
    DEF TypeOK, SyncInv, OnlyServedLists, Accepted, Goto, Return, netbox, local,
        threads, dashboard
  <2> QED
    BY <2>1, <2>2, <2>3
<1>7. ASSUME NEW t \in Thread, Refused(t) PROVE TypeOK' /\ SyncInv' /\ OnlyServedLists'
  <2>1. TypeOK'
    BY <1>7 DEF TypeOK, Refused, Goto, Return, netbox, local, threads, dashboard
  <2>2. SyncInv'
    <3>1. /\ stamp' = [stamp EXCEPT ![t] = Nothing] /\ pc'[t] \in {"signal", "idle"}
          /\ \A u \in Thread \ {t} : pc'[u] = pc[u] /\ got'[u] = got[u]
          /\ got'[t] = Nothing \/ (got'[t] = got[t] /\ pc[t] # "fetched")
          /\ now' = now /\ Nothing <= now
      BY <1>7 DEF Refused, Goto, Return, TypeOK
    <3>2. UNCHANGED <<inventory, changedAt, served, hosts, late>>
      BY <1>7 DEF Refused, netbox, local, dashboard
    <3> QED
      BY <2>1, <3>1, <3>2 DEF TypeOK, SyncInv
  <2>3. OnlyServedLists'
    BY <1>7
    DEF TypeOK, SyncInv, OnlyServedLists, Refused, Goto, Return, netbox, local,
        threads, dashboard
  <2> QED
    BY <2>1, <2>2, <2>3
<1>8. ASSUME NEW t \in Thread, Unauthorized(t) PROVE TypeOK' /\ SyncInv' /\ OnlyServedLists'
  <2>1. TypeOK'
    BY <1>8 DEF TypeOK, Unauthorized, Goto, Return, netbox, local, threads, dashboard
  <2>2. SyncInv'
    BY <1>8
    DEF TypeOK, SyncInv, OnlyServedLists, Unauthorized, Goto, Return, netbox, local,
        threads, dashboard
  <2>3. OnlyServedLists'
    BY <1>8
    DEF TypeOK, SyncInv, OnlyServedLists, Unauthorized, Goto, Return, netbox, local,
        threads, dashboard
  <2> QED
    BY <2>1, <2>2, <2>3
<1>9. ASSUME NEW t \in Thread, Retriable(t) PROVE TypeOK' /\ SyncInv' /\ OnlyServedLists'
  <2>1. TypeOK'
    BY <1>9 DEF TypeOK, Retriable, Goto, Return, netbox, local, threads, dashboard
  <2>2. SyncInv'
    BY <1>9
    DEF TypeOK, SyncInv, OnlyServedLists, Retriable, Goto, Return, netbox, local,
        threads, dashboard
  <2>3. OnlyServedLists'
    BY <1>9
    DEF TypeOK, SyncInv, OnlyServedLists, Retriable, Goto, Return, netbox, local,
        threads, dashboard
  <2> QED
    BY <2>1, <2>2, <2>3
<1>10. ASSUME NEW t \in Thread, BackoffOver(t) PROVE TypeOK' /\ SyncInv' /\ OnlyServedLists'
  <2>1. TypeOK'
    BY <1>10 DEF TypeOK, BackoffOver, Goto, Return, netbox, local, threads, dashboard
  <2>2. SyncInv'
    BY <1>10
    DEF TypeOK, SyncInv, OnlyServedLists, BackoffOver, Goto, Return, netbox, local,
        threads, dashboard
  <2>3. OnlyServedLists'
    BY <1>10
    DEF TypeOK, SyncInv, OnlyServedLists, BackoffOver, Goto, Return, netbox, local,
        threads, dashboard
  <2> QED
    BY <2>1, <2>2, <2>3
<1>11. ASSUME NEW t \in Thread, GiveUp(t) PROVE TypeOK' /\ SyncInv' /\ OnlyServedLists'
  <2>1. TypeOK'
    BY <1>11 DEF TypeOK, GiveUp, Goto, Return, netbox, local, threads, dashboard
  <2>2. SyncInv'
    <3>1. /\ stamp' = [stamp EXCEPT ![t] = Nothing] /\ pc'[t] \in {"signal", "idle"}
          /\ \A u \in Thread \ {t} : pc'[u] = pc[u] /\ got'[u] = got[u]
          /\ got'[t] = Nothing \/ (got'[t] = got[t] /\ pc[t] # "fetched")
          /\ now' = now /\ Nothing <= now
      BY <1>11 DEF GiveUp, Goto, Return, TypeOK
    <3>2. UNCHANGED <<inventory, changedAt, served, hosts, late>>
      BY <1>11 DEF GiveUp, netbox, local, dashboard
    <3> QED
      BY <2>1, <3>1, <3>2 DEF TypeOK, SyncInv
  <2>3. OnlyServedLists'
    BY <1>11
    DEF TypeOK, SyncInv, OnlyServedLists, GiveUp, Goto, Return, netbox, local,
        threads, dashboard
  <2> QED
    BY <2>1, <2>2, <2>3
<1>12. ASSUME NEW t \in Thread, Record(t) PROVE TypeOK' /\ SyncInv' /\ OnlyServedLists'
  <2>1. TypeOK'
    BY <1>12 DEF TypeOK, Record, Goto, Return, netbox, local, threads, dashboard
  <2>2. SyncInv'
    <3>1. /\ stamp' = [stamp EXCEPT ![t] = Nothing] /\ pc'[t] \in {"signal", "idle"}
          /\ \A u \in Thread \ {t} : pc'[u] = pc[u] /\ got'[u] = got[u]
          /\ got'[t] = Nothing \/ (got'[t] = got[t] /\ pc[t] # "fetched")
          /\ now' = now /\ Nothing <= now
      BY <1>12 DEF Record, Goto, Return, TypeOK
    <3>2. UNCHANGED <<inventory, changedAt, served, hosts, late>>
      BY <1>12 DEF Record, netbox, local, dashboard
    <3> QED
      BY <2>1, <3>1, <3>2 DEF TypeOK, SyncInv
  <2>3. OnlyServedLists'
    BY <1>12
    DEF TypeOK, SyncInv, OnlyServedLists, Record, Goto, Return, netbox, local,
        threads, dashboard
  <2> QED
    BY <2>1, <2>2, <2>3
<1>13. CASE Signal
  <2>1. TypeOK'
    BY <1>13 DEF TypeOK, Signal, Thread, Goto, netbox, local, threads, dashboard
  <2>2. SyncInv'
    BY <1>13
    DEF TypeOK, SyncInv, Signal, Thread, Goto, netbox, local, threads, dashboard
  <2>3. OnlyServedLists'
    BY <1>13
    DEF TypeOK, SyncInv, OnlyServedLists, Signal, Thread, Goto, netbox, local,
        threads, dashboard
  <2> QED
    BY <2>1, <2>2, <2>3
<1>14. CASE IntervalOver
  <2>1. TypeOK'
    BY <1>14 DEF TypeOK, IntervalOver, Thread, Goto, netbox, local, threads, dashboard
  <2>2. SyncInv'
    BY <1>14
    DEF TypeOK, SyncInv, IntervalOver, Thread, Goto, netbox, local, threads, dashboard
  <2>3. OnlyServedLists'
    BY <1>14
    DEF TypeOK, SyncInv, OnlyServedLists, IntervalOver, Thread, Goto, netbox, local,
        threads, dashboard
  <2> QED
    BY <2>1, <2>2, <2>3
<1>15. CASE SchedulerStops
  <2>1. TypeOK'
    BY <1>15 DEF TypeOK, SchedulerStops, Thread, Goto, netbox, local, threads, dashboard
  <2>2. SyncInv'
    BY <1>15
    DEF TypeOK, SyncInv, SchedulerStops, Thread, Goto, netbox, local, threads, dashboard
  <2>3. OnlyServedLists'
    BY <1>15
    DEF TypeOK, SyncInv, OnlyServedLists, SchedulerStops, Thread, Goto, netbox, local,
        threads, dashboard
  <2> QED
    BY <2>1, <2>2, <2>3
<1>16. CASE ConfigBroken
  <2>1. TypeOK'
    BY <1>16 DEF TypeOK, ConfigBroken, Thread, Goto, netbox, local, threads, dashboard
  <2>2. SyncInv'
    BY <1>16
    DEF TypeOK, SyncInv, ConfigBroken, Thread, Goto, netbox, local, threads, dashboard
  <2>3. OnlyServedLists'
    BY <1>16
    DEF TypeOK, SyncInv, OnlyServedLists, ConfigBroken, Thread, Goto, netbox, local,
        threads, dashboard
  <2> QED
    BY <2>1, <2>2, <2>3
<1>17. CASE NetBoxChanges
  <2>1. TypeOK'
    <3>1. inventory + 1 \in Version
      BY <1>17 DEF TypeOK, NetBoxChanges, Version
    <3> QED
      BY <1>17, <3>1 DEF TypeOK, NetBoxChanges, local, threads, dashboard
  <2>2. SyncInv'
    <3>1. /\ UNCHANGED <<served, hosts, late, pc, got, stamp, now>>
          /\ inventory' = inventory + 1 /\ inventory \in Nat /\ inventory' \in Version
          /\ changedAt' = [changedAt EXCEPT ![inventory'] = now]
      BY <1>17, <2>1 DEF TypeOK, NetBoxChanges, local, threads, dashboard
    <3>2. now \in Nat /\ \A v \in Version : v \in Nat
      BY DEF TypeOK
    <3>3. served' \subseteq 0 .. inventory'
      BY <3>1 DEF SyncInv
    <3>4. \A v \in Version : changedAt'[v] <= now'
      BY <3>1, <3>2 DEF SyncInv, TypeOK
    <3>5. ASSUME NEW t \in Thread,
                 pc[t] \in {"fetched", "top", "await", "backoff", "record"}
          PROVE  \A v \in got[t] + 1 .. inventory' : changedAt'[v] >= stamp[t]
      <4>1. /\ got[t] \in 0 .. inventory /\ stamp[t] \in Nat /\ stamp[t] <= now
            /\ \A v \in got[t] + 1 .. inventory : changedAt[v] >= stamp[t]
        BY <3>5 DEF SyncInv, TypeOK
      <4> TAKE v \in got[t] + 1 .. inventory'
      <4>2. CASE v = inventory'
        BY <4>1, <4>2, <3>1, <3>2 DEF TypeOK
      <4>3. CASE v # inventory'
        <5>1. v \in got[t] + 1 .. inventory /\ v \in Version
          BY <4>1, <4>3, <3>1 DEF Version
        <5> QED
          BY <4>1, <5>1, <4>3, <3>1 DEF TypeOK
      <4> QED
        BY <4>2, <4>3
    <3> QED
      BY <3>1, <3>3, <3>4, <3>5 DEF SyncInv
  <2>3. OnlyServedLists'
    BY <1>17
    DEF TypeOK, SyncInv, OnlyServedLists, NetBoxChanges, netbox, local, threads,
        dashboard
  <2> QED
    BY <2>1, <2>2, <2>3
<1>18. CASE LateRequest
  <2>1. TypeOK'
    BY <1>18 DEF TypeOK, LateRequest, netbox, local, threads, dashboard
  <2>2. SyncInv'
    BY <1>18 DEF TypeOK, SyncInv, LateRequest, netbox, local, threads, dashboard
  <2>3. OnlyServedLists'
    BY <1>18
    DEF TypeOK, SyncInv, OnlyServedLists, LateRequest, netbox, local, threads, dashboard
  <2> QED
    BY <2>1, <2>2, <2>3
<1>19. CASE Revoke
  <2>1. TypeOK'
    BY <1>19 DEF TypeOK, Revoke, netbox, local, threads, dashboard
  <2>2. SyncInv'
    BY <1>19 DEF TypeOK, SyncInv, Revoke, netbox, local, threads, dashboard
  <2>3. OnlyServedLists'
    BY <1>19
    DEF TypeOK, SyncInv, OnlyServedLists, Revoke, netbox, local, threads, dashboard
  <2> QED
    BY <2>1, <2>2, <2>3
<1>20. CASE SignalShutdown
  <2>1. TypeOK'
    BY <1>20 DEF TypeOK, SignalShutdown, netbox, local, threads, dashboard
  <2>2. SyncInv'
    BY <1>20 DEF TypeOK, SyncInv, SignalShutdown, netbox, local, threads, dashboard
  <2>3. OnlyServedLists'
    BY <1>20
    DEF TypeOK, SyncInv, OnlyServedLists, SignalShutdown, netbox, local, threads,
        dashboard
  <2> QED
    BY <2>1, <2>2, <2>3
<1>21. CASE Tick
  <2>1. TypeOK'
    BY <1>21 DEF TypeOK, Tick, Time, netbox, local, threads, dashboard
  <2>2. SyncInv'
    <3>1. /\ now \in Nat /\ now' = now + 1
          /\ UNCHANGED <<inventory, changedAt, served, hosts, late, pc, got, stamp>>
      BY <1>21 DEF TypeOK, Tick, netbox, local, threads, dashboard
    <3>2. /\ \A v \in Version : changedAt[v] \in Nat
          /\ \A t \in Thread : stamp[t] \in Int
      <4>1. /\ changedAt \in [Version -> Time]
            /\ stamp \in [Thread -> Time \cup {Nothing}]
        BY DEF TypeOK
      <4>2. \A v \in Version : changedAt[v] \in Time
        BY <4>1
      <4>3. \A t \in Thread : stamp[t] \in Time \cup {Nothing}
        BY <4>1
      <4>4. Time \cup {Nothing} \subseteq Int /\ Time \subseteq Nat
        BY DEF Time, Nothing
      <4> QED
        BY <4>2, <4>3, <4>4
    <3>3. /\ \A v \in Version : changedAt[v] <= now'
          /\ \A t \in Thread : stamp[t] <= now'
      <4>1. /\ \A v \in Version : changedAt[v] <= now
            /\ \A t \in Thread : stamp[t] <= now
        BY DEF SyncInv
      <4> QED
        BY <4>1, <3>1, <3>2
    <3> QED
      BY <3>1, <3>3 DEF SyncInv
  <2>3. OnlyServedLists'
    BY <1>21
    DEF TypeOK, SyncInv, OnlyServedLists, Tick, netbox, local, threads, dashboard
  <2> QED
    BY <2>1, <2>2, <2>3
<1>22. CASE UNCHANGED vars
  BY <1>22 DEF TypeOK, SyncInv, OnlyServedLists, vars, netbox, local, threads, dashboard
<1> QED
  BY <1>1, <1>2, <1>3, <1>4, <1>5, <1>6, <1>7, <1>8, <1>9, <1>10, <1>11, <1>12, <1>13,
     <1>14, <1>15, <1>16, <1>17, <1>18, <1>19, <1>20, <1>21, <1>22
  DEF Next, Progress, Verdict, SchedulerLoop, Environment

\* The inductive invariant of the two kinds of NetBox sync.
THEOREM Invariance == Spec => []IInv
BY InitInvariant, StepInvariant, PTL DEF Spec

\* Type correctness.
THEOREM TypeCorrectness == Spec => []TypeOK
<1>1. IInv => TypeOK
  BY DEF IInv
<1> QED
  BY <1>1, Invariance, PTL

\* The agent's view, the dashboard's and what is still on its way there are lists
\* that NetBox has returned, and the agent had its list before the dashboard did.
THEOREM NothingInvented == Spec => []OnlyServedLists
<1>1. IInv => OnlyServedLists
  BY DEF IInv
<1> QED
  BY <1>1, Invariance, PTL

\* synced_at is a lower bound of the changes that a list does not show.
THEOREM StampIsSafe == Spec => []StampBeforeRead
<1>1. IInv => StampBeforeRead
  BY DEF IInv
<1> QED
  BY <1>1, Invariance, PTL

\* The two together: no list is invented, emptied by a failure or stamped too late.
THEOREM ListsStaySound == Spec => []ListsAreSound
<1>1. OnlyServedLists /\ StampBeforeRead => ListsAreSound
  BY DEF ListsAreSound
<1> QED
  BY <1>1, NothingInvented, StampIsSafe, PTL

\* The gate of the check thread opens behind the scheduler's first attempt, and
\* behind the hosts it brought.
THEOREM GateIsBehindTheAttempt == Spec => GateAfterAttempt
<1> DEFINE Behind ==
      firstDone' /\ ~firstDone =>
          /\ pc'[Scheduler] \in {"interval", "gone"}
          /\ got'[Scheduler] # Nothing => hosts' # Nothing
<1>1. IInv /\ [Next]_vars => [Behind]_vars
  <2> SUFFICES ASSUME IInv, Next, firstDone' /\ ~firstDone
               PROVE  /\ pc'[Scheduler] \in {"interval", "gone"}
                      /\ got'[Scheduler] # Nothing => hosts' # Nothing
    OBVIOUS
  <2>1. Unauthorized(Scheduler) \/ Signal \/ SchedulerStops
    BY DEF Next, Progress, Verdict, SchedulerLoop, Environment, BeginSync, NetBoxReads,
       FetchFails, Replace, Submit, Accepted, Refused, Unauthorized, Retriable,
       BackoffOver, GiveUp, Record, Signal, IntervalOver, SchedulerStops, ConfigBroken,
       NetBoxChanges, LateRequest, Revoke, SignalShutdown, Tick, local
  <2>2. /\ pc' = [pc EXCEPT ![Scheduler] = pc'[Scheduler]]
        /\ pc'[Scheduler] \in {"interval", "gone"} /\ pc[Scheduler] # "fetched"
        /\ UNCHANGED <<got, hosts>>
    BY <2>1 DEF Unauthorized, Signal, SchedulerStops, Goto, IInv, TypeOK, Thread
  <2>3. got[Scheduler] # Nothing => hosts # Nothing
    BY <2>2 DEF IInv, SyncInv, Thread
  <2> QED
    BY <2>2, <2>3
<1> QED
  BY <1>1, Invariance, PTL DEF Spec, GateAfterAttempt

\* Without overlapping syncs the agent's view only gets newer, and the dashboard is
\* told no other list than the one the agent uses.
THEOREM AloneSyncsKeepOrder == Spec => AloneInOrder
<1> DEFINE InOrder ==
      ~overlap => /\ hosts' >= hosts
                  /\ \A t \in Thread : Accepted(t) => view' = hosts
<1>1. IInv /\ [Next]_vars => [InOrder]_vars
  <2> SUFFICES ASSUME IInv, Next, ~overlap
               PROVE  /\ hosts' >= hosts
                      /\ \A t \in Thread : Accepted(t) => view' = hosts
    OBVIOUS
  <2> USE DEF IInv
  <2>1. \A t \in Thread : Accepted(t) => view' = hosts
    BY DEF Accepted, AloneInv
  <2>2. ASSUME NEW t \in Thread, Replace(t) PROVE hosts' >= hosts
    BY <2>2 DEF Replace, AloneInv
  <2>3. hosts' = hosts \/ \E t \in Thread : Replace(t)
    BY DEF Next, Progress, Verdict, SchedulerLoop, Environment, BeginSync, NetBoxReads,
       FetchFails, Submit, Accepted, Refused, Unauthorized, Retriable, BackoffOver,
       GiveUp, Record, Signal, IntervalOver, SchedulerStops, ConfigBroken,
       NetBoxChanges, LateRequest, Revoke, SignalShutdown, Tick, local
  <2>4. hosts \in Int /\ hosts >= hosts
    BY NetBoxBounds DEF TypeOK, Version, Nothing
  <2> QED
    BY <2>1, <2>2, <2>3, <2>4
<1> QED
  BY <1>1, Invariance, PTL DEF Spec, AloneInOrder

-----------------------------------------------------------------------------
(* The threads that sync keep the promise of AgentThread. *)

\* A thread that moves does so alone, and its distance stays a number.
LEMMA MoveOfPc ==
    ASSUME NEW t \in Thread, NEW step, NEW from, NEW to, TypeOK, TypeOK',
           Goto(t, step), Place(t) \in from, Place(t)' = to
    PROVE  Syncing!Move(t, from, to)
<1>1. \A u \in Thread \ {t} : Place(u)' = Place(u) /\ Left(u)' = Left(u)
  BY DEF Goto, TypeOK, Place, Left
<1>2. Left(t)' \in Nat
  BY DEF TypeOK, Left
<1> QED
  BY <1>1, <1>2 DEF Syncing!Move

LEMMA ThreadStep == IInv /\ [Next]_vars => [Syncing!TNext]_(Syncing!tvars)
<1> SUFFICES ASSUME IInv, IInv', [Next]_vars
             PROVE  Syncing!TNext \/ UNCHANGED Syncing!tvars
  BY StepInvariant
<1>0. /\ TypeOK /\ TypeOK' /\ Scheduler \in Thread
      /\ pc \in [Thread -> {"idle", "fetch", "fetched", "top", "await", "backoff",
                            "record", "signal", "interval", "gone"}]
  BY DEF IInv, TypeOK, Thread
<1> USE <1>0
<1>1. ASSUME UNCHANGED <<pc, shutdown>> PROVE UNCHANGED Syncing!tvars
  BY <1>1 DEF Syncing!tvars, Place, Left
<1>2. ASSUME NEW t \in Thread, BeginSync(t) PROVE Syncing!BeginRound(t)
  <2>1. Place(t) \in {"out"} /\ Place(t)' = "round"
    BY <1>2 DEF BeginSync, Goto, Place
  <2> QED
    BY <1>2, <2>1, MoveOfPc DEF BeginSync, local, Syncing!BeginRound
<1>3. ASSUME NEW t \in Thread,
             \/ NetBoxReads(t) \/ FetchFails(t) \/ Replace(t) \/ Submit(t)
             \/ Accepted(t) \/ Refused(t) \/ Retriable(t) \/ BackoffOver(t)
             \/ GiveUp(t) \/ Record(t) \/ (t = Scheduler /\ Signal)
      PROVE  Syncing!Work(t)
  <2>1. PICK step \in {"fetched", "top", "await", "record", "backoff", "signal",
                       "idle", "interval"} : Goto(t, step)
    BY <1>3 DEF NetBoxReads, FetchFails, Replace, Submit, Accepted, Refused,
       Retriable, BackoffOver, GiveUp, Record, Signal, Return
  <2>2. /\ Place(t) \in {"round"} /\ Place(t)' \in {"round", "out"}
        /\ shutdown' = shutdown
    BY <1>3, <2>1 DEF NetBoxReads, FetchFails, Replace, Submit, Accepted, Refused,
       Retriable, BackoffOver, GiveUp, Record, Signal, local, Goto, Place
  <2>3. shutdown => Left(t)' < Left(t)
    <3>1. CASE NetBoxReads(t) \/ FetchFails(t)
      BY <3>1 DEF NetBoxReads, FetchFails, Return, Goto, Left
    <3>2. CASE Replace(t) \/ Submit(t) \/ Accepted(t) \/ Refused(t) \/ Retriable(t)
      <4>1. CASE Replace(t) \/ Submit(t)
        BY <4>1 DEF Replace, Submit, local, Goto, Left
      <4>2. CASE Accepted(t) \/ Retriable(t)
        BY <4>2 DEF Accepted, Retriable, Goto, Left
      <4>3. CASE Refused(t)
        BY <4>3 DEF Refused, Return, Goto, Left
      <4> QED
        BY <3>2, <4>1, <4>2, <4>3
    <3>3. CASE \/ BackoffOver(t) \/ GiveUp(t) \/ Record(t)
               \/ t = Scheduler /\ Signal
      <4>1. \/ shutdown = FALSE
            \/ pc[t] \in {"top", "backoff", "record"} /\ pc'[t] \in {"signal", "idle"}
            \/ pc[t] = "signal" /\ pc'[t] = "interval"
        BY <3>3 DEF BackoffOver, GiveUp, Record, Signal, Return, Goto, TypeOK
      <4> QED
        BY <4>1 DEF Left
    <3> QED
      BY <1>3, <3>1, <3>2, <3>3
  <2>4. PICK to \in {"round", "out"} : Place(t)' = to
    BY <2>2
  <2> QED
    BY <2>1, <2>2, <2>3, <2>4, MoveOfPc DEF Syncing!Work, Syncing!Closer
<1>4. ASSUME IntervalOver PROVE Syncing!Wait(Scheduler)
  <2>1. /\ Place(Scheduler) \in {"out"} /\ Place(Scheduler)' = "out"
        /\ ~shutdown /\ UNCHANGED shutdown
    BY <1>4 DEF IntervalOver, local, Goto, Place
  <2> QED
    BY <1>4, <2>1, MoveOfPc DEF IntervalOver, Syncing!Wait, Syncing!Closer
<1>5. ASSUME NEW t \in Thread,
             \/ Unauthorized(t) \/ (t = Scheduler /\ (SchedulerStops \/ ConfigBroken))
      PROVE  Syncing!End(t)
  <2>1. /\ Place(t) \in {"out", "round"} /\ Place(t)' = "ended"
        /\ Goto(t, "gone") /\ shutdown' = TRUE
    BY <1>5 DEF Unauthorized, SchedulerStops, ConfigBroken, Goto, Place, TypeOK
  <2> QED
    BY <2>1, MoveOfPc DEF Syncing!End
<1>6. ASSUME SignalShutdown PROVE Syncing!Signal
  BY <1>6 DEF SignalShutdown, threads, Syncing!Signal, Place, Left
<1>7. ASSUME NetBoxChanges \/ LateRequest \/ Revoke \/ Tick \/ UNCHANGED vars
      PROVE  UNCHANGED <<pc, shutdown>>
  BY <1>7 DEF NetBoxChanges, LateRequest, Revoke, Tick, local, threads, vars
<1> QED
  BY <1>1, <1>2, <1>3, <1>4, <1>5, <1>6, <1>7
  DEF Next, Progress, Verdict, SchedulerLoop, Environment, Syncing!TNext

\* NetBox errors, a 401 and a broken configuration end no thread without the
\* shutdown event being set; once it is, no sync begins, and the scheduler and
\* every sync under way have at most five steps left (netbox_sync.py).
THEOREM RunnerCanRely == Spec => AreAgentThreads
<1>1. Init => Syncing!TInit
  BY DEF Init, Syncing!TInit, Place, Left
<1> QED
  BY <1>1, ThreadStep, Invariance, PTL DEF Spec, AreAgentThreads, Syncing!TSpec

=============================================================================
