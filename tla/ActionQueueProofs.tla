--------------------------- MODULE ActionQueueProofs ---------------------------
(***************************************************************************)
(* Proofs about ActionQueue, for any number of actions, workers and        *)
(* configuration versions.                                                 *)
(***************************************************************************)
EXTENDS ActionQueue, SequenceTheorems, TLAPS

LEMMA Numbers ==
    /\ Version \subseteq Nat /\ Time \subseteq Nat /\ 0 \in Version /\ 1 \in Version
    /\ 0 \in Time /\ 0 .. MaxDeliveries \subseteq Nat /\ 0 \in 0 .. MaxDeliveries
BY QueueBounds DEF Version, Time

\* The two properties follow from the other parts of the invariant.
LEMMA PropertiesFollow == TypeOK /\ ConfigInv /\ StaleInv => IInv
<1> SUFFICES ASSUME TypeOK, ConfigInv, StaleInv PROVE IInv
  OBVIOUS
<1>1. \A w \in Worker : task[w].need \in Nat /\ task[w].snap \in Nat
  BY Numbers DEF TypeOK, Task
<1>2. ActionsSeeTheirConfig
  <2> SUFFICES ASSUME NEW w \in Worker, pc[w] = "busy" PROVE task[w].snap >= task[w].need
    BY DEF ActionsSeeTheirConfig, Running
  <2>1. task[w].need <= task[w].snap
    BY DEF ConfigInv
  <2> QED
    BY <1>1, <2>1
<1>3. StaleWorkNotRun
  BY DEF StaleInv, StaleWorkNotRun, Running
<1> QED
  BY <1>2, <1>3 DEF IInv

\* The initial states satisfy the inductive invariant.
LEMMA InitInvariant == Init => IInv
<1> SUFFICES ASSUME Init PROVE TypeOK /\ ConfigInv /\ StaleInv
  BY PropertiesFollow
<1>1. NoTask \in Task /\ NoTask.id = NoAction /\ NoTask.need = 0
      /\ NoTask.takenAt = 0 /\ NoTask.late = FALSE
  BY Numbers DEF NoTask, Task
<1>2. TypeOK
  <2>1. /\ \A w \in Worker : pc[w] = "top" /\ task[w] = NoTask
        /\ pc \in [Worker -> {"top"}] /\ task \in [Worker -> Task]
    BY <1>1 DEF Init
  <2>2. /\ deliveries \in [Action -> 0 .. MaxDeliveries] /\ expires \in [Action -> Time]
        /\ config \in Version /\ version \in Version
    BY Numbers DEF Init
  <2>3. queue \in Seq([id : Action, need : Version])
    BY DEF Init
  <2>4. /\ hb = "top" /\ revoked = FALSE /\ shutdown = FALSE /\ pending = {}
        /\ batch = {} /\ reported = 0 /\ need = 0 /\ stampAt = 0 /\ now = 0
    BY DEF Init
  <2> QED
    BY <1>1, <2>1, <2>2, <2>3, <2>4, Numbers DEF TypeOK
<1>3. ConfigInv
  BY <1>1, Numbers DEF Init, ConfigInv
<1>4. StaleInv
  BY <1>1, Numbers DEF Init, StaleInv
<1> QED
  BY <1>2, <1>3, <1>4

\* The entries of the queue are typed.
LEMMA Queued ==
    ASSUME TypeOK
    PROVE  /\ DOMAIN queue = 1 .. Len(queue) /\ Len(queue) \in Nat
           /\ \A i \in DOMAIN queue : queue[i].id \in Action /\ queue[i].need \in Nat
<1>1. queue \in Seq([id : Action, need : Version])
  BY DEF TypeOK
<1>2. DOMAIN queue = 1 .. Len(queue) /\ Len(queue) \in Nat
  BY <1>1
<1>3. \A i \in DOMAIN queue : queue[i] \in [id : Action, need : Version]
  BY <1>1, <1>2, ElementOfSeq
<1> QED
  BY <1>2, <1>3, Numbers

\* What a reply hands over has been delivered, and no delivery is taken back.
LEMMA HandedOver ==
    ASSUME TypeOK, NEW S \in SUBSET Action, HandOver(S)
    PROVE  /\ deliveries' \in [Action -> 0 .. MaxDeliveries]
           /\ pending' \subseteq Action
           /\ \A a \in S : deliveries'[a] > 0
           /\ \A a \in Action : deliveries[a] > 0 => deliveries'[a] > 0
<1>1. \A a \in Action : deliveries[a] \in 0 .. MaxDeliveries
  BY DEF TypeOK
<1>2. \A a \in Action :
        deliveries'[a] = deliveries[a] + IF a \in S THEN 1 ELSE 0
  BY DEF HandOver
<1>3. \A a \in S : deliveries[a] < MaxDeliveries
  BY DEF HandOver
<1>4. \A a \in Action : deliveries'[a] \in 0 .. MaxDeliveries
  BY <1>1, <1>2, <1>3, QueueBounds
<1>5. deliveries' \in [Action -> 0 .. MaxDeliveries]
  BY <1>4 DEF HandOver
<1>6. /\ \A a \in S : deliveries'[a] > 0
      /\ \A a \in Action : deliveries[a] > 0 => deliveries'[a] > 0
  BY <1>1, <1>2, QueueBounds
<1>7. pending' \subseteq Action
  BY DEF HandOver, TypeOK
<1> QED
  BY <1>5, <1>6, <1>7

\* Every step preserves the inductive invariant.
LEMMA StepInvariant == IInv /\ [Next]_vars => IInv'
<1>a. TypeOK' /\ ConfigInv' /\ StaleInv' => IInv'
  BY PropertiesFollow, PTL
<1> SUFFICES ASSUME IInv, [Next]_vars PROVE TypeOK' /\ ConfigInv' /\ StaleInv'
  BY <1>a
<1>0. TypeOK /\ ConfigInv /\ StaleInv
  BY DEF IInv
<1> USE <1>0, Numbers, QueueBounds, ActionAssumption
<1>1. CASE BuildArgs
  <2>1. TypeOK'
    BY <1>1 DEF TypeOK, BuildArgs, dashboard, heartbeat, workers
  <2>2. ConfigInv'
    BY <1>1, <2>1 DEF TypeOK, ConfigInv, BuildArgs, dashboard, heartbeat, workers
  <2>3. StaleInv'
    BY <1>1, <2>1 DEF TypeOK, StaleInv, BuildArgs, dashboard, heartbeat, workers
  <2> QED
    BY <2>1, <2>2, <2>3
<1>2. CASE Answered
  <2>1. TypeOK'
    <3>1. PICK S \in SUBSET pending : HandOver(S) /\ batch' = S
      BY <1>2 DEF Answered
    <3>2. S \in SUBSET Action
      BY DEF TypeOK
    <3> QED
      BY <1>2, <3>1, <3>2, HandedOver DEF TypeOK, Answered, workers
  <2>2. ConfigInv'
    BY <1>2, <2>1 DEF TypeOK, ConfigInv, Answered, dashboard, heartbeat, workers
  <2>3. StaleInv'
    <3>1. PICK S \in SUBSET pending : HandOver(S) /\ batch' = S
      BY <1>2 DEF Answered
    <3>2. S \in SUBSET Action
      BY DEF TypeOK
    <3>3. /\ \A a \in batch' : deliveries'[a] > 0
          /\ \A a \in Action : deliveries[a] > 0 => deliveries'[a] > 0
          /\ UNCHANGED <<queue, task, pc, expires, shutdown, now>>
      BY <1>2, <3>1, <3>2, HandedOver DEF Answered, workers
    <3> QED
      BY <3>3, Queued DEF TypeOK, StaleInv, Task
  <2> QED
    BY <2>1, <2>2, <2>3
<1>3. CASE HeartbeatFails
  <2>1. TypeOK'
    <3>1. /\ deliveries' \in [Action -> 0 .. MaxDeliveries] /\ pending' \subseteq Action
          /\ \A a \in Action : deliveries[a] > 0 => deliveries'[a] > 0
      <4>1. CASE \E S \in SUBSET pending : HandOver(S)
        BY <4>1, HandedOver DEF TypeOK
      <4>2. CASE UNCHANGED <<pending, deliveries>>
        BY <4>2 DEF TypeOK
      <4> QED
        BY <1>3, <4>1, <4>2 DEF HeartbeatFails
    <3> QED
      BY <1>3, <3>1 DEF TypeOK, HeartbeatFails, EndHeartbeat, workers
  <2>2. ConfigInv'
    BY <1>3, <2>1
    DEF TypeOK, ConfigInv, HeartbeatFails, EndHeartbeat, dashboard, heartbeat, workers
  <2>3. StaleInv'
    <3>1. \A a \in Action : deliveries[a] > 0 => deliveries'[a] > 0
      <4>1. CASE \E S \in SUBSET pending : HandOver(S)
        BY <4>1, HandedOver DEF TypeOK
      <4>2. CASE UNCHANGED <<pending, deliveries>>
        BY <4>2
      <4> QED
        BY <1>3, <4>1, <4>2 DEF HeartbeatFails
    <3>2. UNCHANGED <<batch, queue, task, pc, expires, shutdown, now>>
      BY <1>3 DEF HeartbeatFails, workers
    <3> QED
      BY <3>1, <3>2, Queued DEF TypeOK, StaleInv, Task
  <2> QED
    BY <2>1, <2>2, <2>3
<1>4. CASE HeartbeatUnauthorized
  <2>1. TypeOK'
    BY <1>4 DEF TypeOK, HeartbeatUnauthorized, dashboard, heartbeat, workers
  <2>2. ConfigInv'
    BY <1>4, <2>1
    DEF TypeOK, ConfigInv, HeartbeatUnauthorized, dashboard, heartbeat, workers
  <2>3. StaleInv'
    BY <1>4, <2>1
    DEF TypeOK, StaleInv, HeartbeatUnauthorized, dashboard, heartbeat, workers
  <2> QED
    BY <2>1, <2>2, <2>3
<1>5. CASE Refreshed
  <2>1. TypeOK'
    BY <1>5 DEF TypeOK, Refreshed, dashboard, heartbeat, workers
  <2>2. ConfigInv'
    <3>1. /\ config' = version /\ version' = version /\ hb' = "stamp"
          /\ UNCHANGED <<need, queue, task, pc>>
      BY <1>5 DEF Refreshed, dashboard, workers
    <3>2. /\ config \in Nat /\ version \in Nat /\ need \in Nat
          /\ \A w \in Worker : task[w].need \in Nat
          /\ \A i \in DOMAIN queue : queue[i].need \in Nat
      BY Queued DEF TypeOK, Task
    <3>3. config <= config' /\ need' <= config'
      BY <3>1, <3>2 DEF ConfigInv
    <3> QED
      <4>1. \A w \in Worker : task[w].need <= config'
        BY <3>2, <3>3, <3>1 DEF ConfigInv
      <4>2. \A i \in DOMAIN queue : queue[i].need <= config'
        BY <3>2, <3>3, <3>1 DEF ConfigInv
      <4> QED
        BY <3>1, <3>2, <3>3, <4>1, <4>2 DEF ConfigInv
  <2>3. StaleInv'
    BY <1>5, <2>1 DEF TypeOK, StaleInv, Refreshed, dashboard, heartbeat, workers
  <2> QED
    BY <2>1, <2>2, <2>3
<1>6. CASE RefreshFails
  <2>1. TypeOK'
    BY <1>6 DEF TypeOK, RefreshFails, dashboard, heartbeat, workers
  <2>2. ConfigInv'
    BY <1>6, <2>1 DEF TypeOK, ConfigInv, RefreshFails, dashboard, heartbeat, workers
  <2>3. StaleInv'
    BY <1>6, <2>1 DEF TypeOK, StaleInv, RefreshFails, dashboard, heartbeat, workers
  <2> QED
    BY <2>1, <2>2, <2>3
<1>7. CASE StampBatch
  <2>1. TypeOK'
    BY <1>7 DEF TypeOK, StampBatch, dashboard, heartbeat, workers
  <2>2. ConfigInv'
    BY <1>7, <2>1 DEF TypeOK, ConfigInv, StampBatch, dashboard, heartbeat, workers
  <2>3. StaleInv'
    BY <1>7, <2>1 DEF TypeOK, StaleInv, StampBatch, dashboard, heartbeat, workers
  <2> QED
    BY <2>1, <2>2, <2>3
<1>8. ASSUME NEW a \in Action, Enqueue(a)
      PROVE  TypeOK' /\ ConfigInv' /\ StaleInv'
  <2>1. TypeOK'
    <3>1. [id |-> a, need |-> need] \in [id : Action, need : Version]
      BY <1>8 DEF TypeOK
    <3>2. queue' \in Seq([id : Action, need : Version])
      <4>1. queue \in Seq([id : Action, need : Version])
        BY DEF TypeOK
      <4>2. queue' = queue \/ queue' = Append(queue, [id |-> a, need |-> need])
        BY <1>8 DEF Enqueue
      <4>3. Append(queue, [id |-> a, need |-> need]) \in Seq([id : Action, need : Version])
        BY <3>1, <4>1, AppendProperties
      <4> QED
        BY <4>1, <4>2, <4>3
    <3> QED
      BY <1>8, <3>2 DEF TypeOK, Enqueue, dashboard, workers
  <2>2. ConfigInv'
    BY <1>8, <2>1 DEF TypeOK, ConfigInv, Enqueue, dashboard, heartbeat, workers
  <2>3. StaleInv'
    BY <1>8, <2>1 DEF TypeOK, StaleInv, Enqueue, dashboard, heartbeat, workers
  <2> QED
    BY <2>1, <2>2, <2>3
<1>9. CASE BatchDone
  <2>1. TypeOK'
    BY <1>9 DEF TypeOK, BatchDone, EndHeartbeat, dashboard, heartbeat, workers
  <2>2. ConfigInv'
    BY <1>9, <2>1
    DEF TypeOK, ConfigInv, BatchDone, EndHeartbeat, dashboard, heartbeat, workers
  <2>3. StaleInv'
    BY <1>9, <2>1
    DEF TypeOK, StaleInv, BatchDone, EndHeartbeat, dashboard, heartbeat, workers
  <2> QED
    BY <2>1, <2>2, <2>3
<1>10. CASE ReadInterval
  <2>1. TypeOK'
    BY <1>10 DEF TypeOK, ReadInterval, dashboard, heartbeat, workers
  <2>2. ConfigInv'
    BY <1>10, <2>1 DEF TypeOK, ConfigInv, ReadInterval, dashboard, heartbeat, workers
  <2>3. StaleInv'
    BY <1>10, <2>1 DEF TypeOK, StaleInv, ReadInterval, dashboard, heartbeat, workers
  <2> QED
    BY <2>1, <2>2, <2>3
<1>11. CASE ConfigUnreadable
  <2>1. TypeOK'
    BY <1>11 DEF TypeOK, ConfigUnreadable, dashboard, heartbeat, workers
  <2>2. ConfigInv'
    BY <1>11, <2>1
    DEF TypeOK, ConfigInv, ConfigUnreadable, dashboard, heartbeat, workers
  <2>3. StaleInv'
    BY <1>11, <2>1 DEF TypeOK, StaleInv, ConfigUnreadable, dashboard, heartbeat, workers
  <2> QED
    BY <2>1, <2>2, <2>3
<1>12. CASE NextHeartbeat
  <2>1. TypeOK'
    BY <1>12 DEF TypeOK, NextHeartbeat, dashboard, heartbeat, workers
  <2>2. ConfigInv'
    BY <1>12, <2>1 DEF TypeOK, ConfigInv, NextHeartbeat, dashboard, heartbeat, workers
  <2>3. StaleInv'
    BY <1>12, <2>1 DEF TypeOK, StaleInv, NextHeartbeat, dashboard, heartbeat, workers
  <2> QED
    BY <2>1, <2>2, <2>3
<1>13. CASE HeartbeatStops
  <2>1. TypeOK'
    BY <1>13 DEF TypeOK, HeartbeatStops, dashboard, heartbeat, workers
  <2>2. ConfigInv'
    BY <1>13, <2>1 DEF TypeOK, ConfigInv, HeartbeatStops, dashboard, heartbeat, workers
  <2>3. StaleInv'
    BY <1>13, <2>1 DEF TypeOK, StaleInv, HeartbeatStops, dashboard, heartbeat, workers
  <2> QED
    BY <2>1, <2>2, <2>3
<1>14. ASSUME NEW w \in Worker, EnterGet(w)
      PROVE  TypeOK' /\ ConfigInv' /\ StaleInv'
  <2>1. TypeOK'
    BY <1>14 DEF TypeOK, EnterGet, Goto, dashboard, heartbeat, workers
  <2>2. ConfigInv'
    BY <1>14, <2>1 DEF TypeOK, ConfigInv, EnterGet, Goto, dashboard, heartbeat, workers
  <2>3. StaleInv'
    BY <1>14, <2>1 DEF TypeOK, StaleInv, EnterGet, Goto, dashboard, heartbeat, workers
  <2> QED
    BY <2>1, <2>2, <2>3
<1>15. ASSUME NEW w \in Worker, WorkerStops(w)
      PROVE  TypeOK' /\ ConfigInv' /\ StaleInv'
  <2>1. TypeOK'
    BY <1>15 DEF TypeOK, WorkerStops, Goto, dashboard, heartbeat, workers
  <2>2. ConfigInv'
    BY <1>15, <2>1
    DEF TypeOK, ConfigInv, WorkerStops, Goto, dashboard, heartbeat, workers
  <2>3. StaleInv'
    BY <1>15, <2>1
    DEF TypeOK, StaleInv, WorkerStops, Goto, dashboard, heartbeat, workers
  <2> QED
    BY <2>1, <2>2, <2>3
<1>16. ASSUME NEW w \in Worker, GetTimeout(w)
      PROVE  TypeOK' /\ ConfigInv' /\ StaleInv'
  <2>1. TypeOK'
    BY <1>16 DEF TypeOK, GetTimeout, Goto, dashboard, heartbeat, workers
  <2>2. ConfigInv'
    BY <1>16, <2>1
    DEF TypeOK, ConfigInv, GetTimeout, Goto, dashboard, heartbeat, workers
  <2>3. StaleInv'
    BY <1>16, <2>1 DEF TypeOK, StaleInv, GetTimeout, Goto, dashboard, heartbeat, workers
  <2> QED
    BY <2>1, <2>2, <2>3
<1>17. ASSUME NEW w \in Worker, Take(w)
      PROVE  TypeOK' /\ ConfigInv' /\ StaleInv'
  <2>1. TypeOK'
    <3>1. /\ Head(queue) \in [id : Action, need : Version]
          /\ Tail(queue) \in Seq([id : Action, need : Version])
      BY <1>17, HeadTailProperties DEF TypeOK, Take
    <3>2. /\ Head(queue).id \in Action /\ Head(queue).need \in Version
      BY <3>1
    <3>3. [id |-> Head(queue).id, need |-> Head(queue).need, snap |-> 0,
           takenAt |-> now, late |-> shutdown] \in Task
      BY <3>2 DEF Task, TypeOK
    <3> QED
      BY <1>17, <3>1, <3>2, <3>3 DEF TypeOK, Take, Goto, dashboard, heartbeat
  <2>2. ConfigInv'
    <3>1. /\ queue' = Tail(queue) /\ Len(queue') = Len(queue) - 1 /\ Len(queue) \in Nat
          /\ Head(queue) = queue[1] /\ 1 \in DOMAIN queue
          /\ \A i \in 1 .. Len(queue') : queue'[i] = queue[i + 1]
      BY <1>17, HeadTailProperties DEF TypeOK, Take
    <3>2. \A i \in DOMAIN queue' : i + 1 \in DOMAIN queue /\ queue'[i] = queue[i + 1]
      <4>1. DOMAIN queue' = 1 .. Len(queue')
        BY <2>1 DEF TypeOK
      <4> QED
        BY <3>1, <4>1, Queued
    <3>3. /\ task' = [task EXCEPT ![w] = task'[w]] /\ task'[w].need = Head(queue).need
          /\ pc' = [pc EXCEPT ![w] = "dispatch"]
          /\ UNCHANGED <<config, version, hb, reported, need>>
      BY <1>17 DEF Take, Goto, TypeOK, dashboard, heartbeat
    <3> QED
      BY <3>1, <3>2, <3>3 DEF ConfigInv, TypeOK
  <2>3. StaleInv'
    BY <1>17, <2>1
    DEF TypeOK, StaleInv, Take, Goto, Close, NoTask, Task, dashboard, heartbeat, workers
  <2> QED
    BY <2>1, <2>2, <2>3
<1>18. ASSUME NEW w \in Worker, SkipExpired(w)
      PROVE  TypeOK' /\ ConfigInv' /\ StaleInv'
  <2>1. TypeOK'
    BY <1>18
    DEF TypeOK, SkipExpired, Goto, Close, NoTask, Task, dashboard, heartbeat, workers
  <2>2. ConfigInv'
    <3>1. /\ \A u \in Worker :
                \/ task'[u] = task[u] /\ pc'[u] = pc[u]
                \/ task'[u].need = 0 /\ pc'[u] = "top"
          /\ UNCHANGED <<config, version, hb, reported, need, queue>>
      BY <1>18 DEF SkipExpired, Goto, Close, NoTask, TypeOK, dashboard, heartbeat
    <3>2. config \in Nat
      BY DEF TypeOK
    <3> QED
      BY <3>1, <3>2 DEF ConfigInv
  <2>3. StaleInv'
    BY <1>18, <2>1
    DEF TypeOK, StaleInv, SkipExpired, Goto, Close, NoTask, Task, dashboard,
        heartbeat, workers
  <2> QED
    BY <2>1, <2>2, <2>3
<1>19. ASSUME NEW w \in Worker, NotExpired(w)
      PROVE  TypeOK' /\ ConfigInv' /\ StaleInv'
  <2>1. TypeOK'
    BY <1>19 DEF TypeOK, NotExpired, Goto, dashboard, heartbeat, workers
  <2>2. ConfigInv'
    BY <1>19, <2>1
    DEF TypeOK, ConfigInv, NotExpired, Goto, dashboard, heartbeat, workers
  <2>3. StaleInv'
    <3>1. /\ pc[w] = "dispatch" /\ expires[task[w].id] >= now
          /\ pc' = [pc EXCEPT ![w] = "check"]
          /\ UNCHANGED <<batch, deliveries, queue, task, expires, shutdown, now>>
      BY <1>19 DEF NotExpired, Goto, dashboard, heartbeat
    <3>2. /\ task[w].id \in Action /\ expires[task[w].id] \in Nat
          /\ task[w].takenAt \in Nat /\ now \in Nat
      BY <3>1 DEF TypeOK, Task
    <3>3. expires[task[w].id] >= task[w].takenAt
      BY <3>1, <3>2 DEF StaleInv
    <3> QED
      BY <3>1, <3>3 DEF StaleInv, TypeOK
  <2> QED
    BY <2>1, <2>2, <2>3
<1>20. ASSUME NEW w \in Worker, Skip(w)
      PROVE  TypeOK' /\ ConfigInv' /\ StaleInv'
  <2>1. TypeOK'
    BY <1>20 DEF TypeOK, Skip, Goto, Close, NoTask, Task, dashboard, heartbeat, workers
  <2>2. ConfigInv'
    <3>1. /\ \A u \in Worker :
                \/ task'[u] = task[u] /\ pc'[u] = pc[u]
                \/ task'[u].need = 0 /\ pc'[u] = "top"
          /\ UNCHANGED <<config, version, hb, reported, need, queue>>
      BY <1>20 DEF Skip, Goto, Close, NoTask, TypeOK, dashboard, heartbeat
    <3>2. config \in Nat
      BY DEF TypeOK
    <3> QED
      BY <3>1, <3>2 DEF ConfigInv
  <2>3. StaleInv'
    BY <1>20, <2>1
    DEF TypeOK, StaleInv, Skip, Goto, Close, NoTask, Task, dashboard, heartbeat, workers
  <2> QED
    BY <2>1, <2>2, <2>3
<1>21. ASSUME NEW w \in Worker, Dispatch(w)
      PROVE  TypeOK' /\ ConfigInv' /\ StaleInv'
  <2>1. TypeOK'
    BY <1>21 DEF TypeOK, Dispatch, Goto, dashboard, heartbeat, workers
  <2>2. ConfigInv'
    BY <1>21, <2>1 DEF TypeOK, ConfigInv, Dispatch, Goto, dashboard, heartbeat, workers
  <2>3. StaleInv'
    BY <1>21, <2>1 DEF TypeOK, StaleInv, Dispatch, Goto, dashboard, heartbeat, workers
  <2> QED
    BY <2>1, <2>2, <2>3
<1>22. ASSUME NEW w \in Worker, Snapshot(w)
      PROVE  TypeOK' /\ ConfigInv' /\ StaleInv'
  <2>1. TypeOK'
    BY <1>22
    DEF TypeOK, Snapshot, Goto, Close, NoTask, Task, dashboard, heartbeat, workers
  <2>2. ConfigInv'
    <3>1. /\ \A u \in Worker :
                /\ task'[u].id = task[u].id /\ task'[u].need = task[u].need
                /\ task'[u].takenAt = task[u].takenAt /\ task'[u].late = task[u].late
                /\ u # w => task'[u] = task[u] /\ pc'[u] = pc[u]
          /\ task'[w].snap = config /\ pc[w] = "begin" /\ pc'[w] = "busy"
      BY <1>22 DEF Snapshot, Goto, TypeOK, Task
    <3>2. UNCHANGED <<version, config, hb, reported, need, batch, deliveries, queue,
                      expires, shutdown, now>>
      BY <1>22 DEF Snapshot, dashboard, heartbeat
    <3> QED
      BY <3>1, <3>2 DEF ConfigInv
  <2>3. StaleInv'
    <3>1. /\ \A u \in Worker :
                /\ task'[u].id = task[u].id /\ task'[u].need = task[u].need
                /\ task'[u].takenAt = task[u].takenAt /\ task'[u].late = task[u].late
                /\ u # w => task'[u] = task[u] /\ pc'[u] = pc[u]
          /\ task'[w].snap = config /\ pc[w] = "begin" /\ pc'[w] = "busy"
      BY <1>22 DEF Snapshot, Goto, TypeOK, Task
    <3>2. UNCHANGED <<version, config, hb, reported, need, batch, deliveries, queue,
                      expires, shutdown, now>>
      BY <1>22 DEF Snapshot, dashboard, heartbeat
    <3> QED
      BY <3>1, <3>2 DEF StaleInv
  <2> QED
    BY <2>1, <2>2, <2>3
<1>23. ASSUME NEW w \in Worker, HandlerEnds(w)
      PROVE  TypeOK' /\ ConfigInv' /\ StaleInv'
  <2>1. TypeOK'
    BY <1>23
    DEF TypeOK, HandlerEnds, Goto, Close, NoTask, Task, dashboard, heartbeat, workers
  <2>2. ConfigInv'
    <3>1. /\ \A u \in Worker :
                \/ task'[u] = task[u] /\ pc'[u] = pc[u]
                \/ task'[u].need = 0 /\ pc'[u] = "top"
          /\ UNCHANGED <<config, version, hb, reported, need, queue>>
      BY <1>23 DEF HandlerEnds, Goto, Close, NoTask, TypeOK, dashboard, heartbeat
    <3>2. config \in Nat
      BY DEF TypeOK
    <3> QED
      BY <3>1, <3>2 DEF ConfigInv
  <2>3. StaleInv'
    BY <1>23, <2>1
    DEF TypeOK, StaleInv, HandlerEnds, Goto, Close, NoTask, Task, dashboard,
        heartbeat, workers
  <2> QED
    BY <2>1, <2>2, <2>3
<1>24. ASSUME NEW w \in Worker, HandlerFails(w)
      PROVE  TypeOK' /\ ConfigInv' /\ StaleInv'
  <2>1. TypeOK'
    BY <1>24
    DEF TypeOK, HandlerFails, Goto, Close, NoTask, Task, dashboard, heartbeat, workers
  <2>2. ConfigInv'
    <3>1. /\ \A u \in Worker :
                \/ task'[u] = task[u] /\ pc'[u] = pc[u]
                \/ task'[u].need = 0 /\ pc'[u] = "top"
          /\ UNCHANGED <<config, version, hb, reported, need, queue>>
      BY <1>24 DEF HandlerFails, Goto, Close, NoTask, TypeOK, dashboard, heartbeat
    <3>2. config \in Nat
      BY DEF TypeOK
    <3> QED
      BY <3>1, <3>2 DEF ConfigInv
  <2>3. StaleInv'
    BY <1>24, <2>1
    DEF TypeOK, StaleInv, HandlerFails, Goto, Close, NoTask, Task, dashboard,
        heartbeat, workers
  <2> QED
    BY <2>1, <2>2, <2>3
<1>25. ASSUME NEW w \in Worker, HandlerUnauthorized(w)
      PROVE  TypeOK' /\ ConfigInv' /\ StaleInv'
  <2>1. TypeOK'
    BY <1>25
    DEF TypeOK, HandlerUnauthorized, Goto, Close, NoTask, Task, dashboard, heartbeat,
        workers
  <2>2. ConfigInv'
    <3>1. /\ \A u \in Worker :
                \/ task'[u] = task[u] /\ pc'[u] = pc[u]
                \/ task'[u].need = 0 /\ pc'[u] = "top"
          /\ UNCHANGED <<config, version, hb, reported, need, queue>>
      BY <1>25
      DEF HandlerUnauthorized, Goto, Close, NoTask, TypeOK, dashboard, heartbeat
    <3>2. config \in Nat
      BY DEF TypeOK
    <3> QED
      BY <3>1, <3>2 DEF ConfigInv
  <2>3. StaleInv'
    BY <1>25, <2>1
    DEF TypeOK, StaleInv, HandlerUnauthorized, Goto, Close, NoTask, Task, dashboard,
        heartbeat, workers
  <2> QED
    BY <2>1, <2>2, <2>3
<1>26. ASSUME NEW a \in Action, OperatorQueues(a)
      PROVE  TypeOK' /\ ConfigInv' /\ StaleInv'
  <2>1. TypeOK'
    <3>1. PICK e \in now .. MaxTime : expires' = [expires EXCEPT ![a] = e]
      BY <1>26 DEF OperatorQueues
    <3>2. e \in Time
      BY DEF TypeOK, Time
    <3> QED
      BY <1>26, <3>1, <3>2 DEF TypeOK, OperatorQueues, heartbeat, workers
  <2>2. ConfigInv'
    BY <1>26, <2>1 DEF TypeOK, ConfigInv, OperatorQueues, dashboard, heartbeat, workers
  <2>3. StaleInv'
    BY <1>26, <2>1 DEF TypeOK, StaleInv, OperatorQueues, dashboard, heartbeat, workers
  <2> QED
    BY <2>1, <2>2, <2>3
<1>27. CASE OperatorEdits
  <2>1. TypeOK'
    <3>1. version' \in Version
      BY <1>27 DEF OperatorEdits, TypeOK, Version
    <3> QED
      BY <1>27, <3>1 DEF TypeOK, OperatorEdits, heartbeat, workers
  <2>2. ConfigInv'
    BY <1>27, <2>1 DEF TypeOK, ConfigInv, OperatorEdits, dashboard, heartbeat, workers
  <2>3. StaleInv'
    BY <1>27, <2>1 DEF TypeOK, StaleInv, OperatorEdits, dashboard, heartbeat, workers
  <2> QED
    BY <2>1, <2>2, <2>3
<1>28. CASE Revoke
  <2>1. TypeOK'
    BY <1>28 DEF TypeOK, Revoke, dashboard, heartbeat, workers
  <2>2. ConfigInv'
    BY <1>28, <2>1 DEF TypeOK, ConfigInv, Revoke, dashboard, heartbeat, workers
  <2>3. StaleInv'
    BY <1>28, <2>1 DEF TypeOK, StaleInv, Revoke, dashboard, heartbeat, workers
  <2> QED
    BY <2>1, <2>2, <2>3
<1>29. CASE SignalShutdown
  <2>1. TypeOK'
    BY <1>29 DEF TypeOK, SignalShutdown, dashboard, heartbeat, workers
  <2>2. ConfigInv'
    BY <1>29, <2>1 DEF TypeOK, ConfigInv, SignalShutdown, dashboard, heartbeat, workers
  <2>3. StaleInv'
    BY <1>29, <2>1 DEF TypeOK, StaleInv, SignalShutdown, dashboard, heartbeat, workers
  <2> QED
    BY <2>1, <2>2, <2>3
<1>30. CASE Tick
  <2>1. TypeOK'
    <3>1. now' \in Time
      BY <1>30 DEF Tick, TypeOK, Time
    <3> QED
      BY <1>30, <3>1 DEF TypeOK, Tick, dashboard, heartbeat, workers
  <2>2. ConfigInv'
    BY <1>30, <2>1 DEF TypeOK, ConfigInv, Tick, dashboard, heartbeat, workers
  <2>3. StaleInv'
    <3>1. now \in Nat /\ now' = now + 1 /\ \A w \in Worker : task[w].takenAt \in Nat
      BY <1>30 DEF Tick, TypeOK, Task
    <3>2. \A w \in Worker : task[w].takenAt <= now'
      BY <3>1 DEF StaleInv
    <3> QED
      BY <1>30, <3>2 DEF StaleInv, Tick, dashboard, heartbeat, workers
  <2> QED
    BY <2>1, <2>2, <2>3
<1>31. CASE UNCHANGED vars
  BY <1>31 DEF TypeOK, ConfigInv, StaleInv, vars, dashboard, heartbeat, workers
<1> QED
  BY <1>1, <1>2, <1>3, <1>4, <1>5, <1>6, <1>7, <1>8, <1>9, <1>10, <1>11, <1>12, <1>13,
      <1>14, <1>15, <1>16, <1>17, <1>18, <1>19, <1>20, <1>21, <1>22, <1>23, <1>24,
      <1>25, <1>26, <1>27, <1>28, <1>29, <1>30, <1>31
  DEF Next, HeartbeatStep, WorkerStep, Environment

\* The inductive invariant of the queue.
THEOREM Invariance == Spec => []IInv
BY InitInvariant, StepInvariant, PTL DEF Spec

\* Type correctness.
THEOREM TypeCorrectness == Spec => []TypeOK
<1>1. IInv => TypeOK
  BY DEF IInv
<1> QED
  BY <1>1, Invariance, PTL

\* A handler works with the configuration its action may count on.
THEOREM RefreshComesFirst == Spec => []ActionsSeeTheirConfig
<1>1. IInv => ActionsSeeTheirConfig
  BY DEF IInv
<1> QED
  BY <1>1, Invariance, PTL

\* What had expired, or was taken after shutdown, is not run.
THEOREM StaleWorkIsSkipped == Spec => []StaleWorkNotRun
<1>1. IInv => StaleWorkNotRun
  BY DEF IInv
<1> QED
  BY <1>1, Invariance, PTL

-----------------------------------------------------------------------------
(* An action handed over once is in one place, and goes forward only. *)

\* What a step does to the places an action can be in: nothing is added to them,
\* or a reply fills the batch, or one action goes from the batch to the queue, or
\* one from there to an idle worker.
NothingAdded ==
    /\ UNCHANGED <<queue, deliveries>>
    /\ batch' \subseteq batch
    /\ \A w \in Worker : task'[w].id \in {task[w].id, NoAction}

Handed(S) == UNCHANGED <<queue, task>> /\ HandOver(S) /\ batch' \in {S, batch}

LEMMA FourMoves ==
    ASSUME IInv, [Next]_vars
    PROVE  \/ NothingAdded
           \/ \E S \in SUBSET Action : Handed(S)
           \/ \E a \in Action : Enqueue(a)
           \/ \E w \in Worker : Take(w)
<1>0. TypeOK /\ NoTask.id = NoAction
  BY DEF IInv, NoTask
<1> USE <1>0
<1>1. ASSUME UNCHANGED <<queue, deliveries, task>>, batch' \subseteq batch
      PROVE  NothingAdded
  BY <1>1 DEF NothingAdded
<1>2. CASE HeartbeatStep
  <2>1. CASE Answered \/ HeartbeatFails
    <3>1. UNCHANGED <<queue, task>>
      BY <2>1 DEF Answered, HeartbeatFails, workers
    <3>2. CASE Answered
      BY <3>1, <3>2 DEF Answered, Handed, TypeOK
    <3>3. CASE HeartbeatFails
      <4>1. CASE UNCHANGED <<pending, deliveries>>
        BY <1>1, <3>1, <3>3, <4>1 DEF HeartbeatFails
      <4>2. CASE \E S \in SUBSET pending : HandOver(S)
        BY <3>1, <3>3, <4>2 DEF HeartbeatFails, Handed, TypeOK
      <4> QED
        BY <3>3, <4>1, <4>2 DEF HeartbeatFails
    <3> QED
      BY <2>1, <3>2, <3>3
  <2>2. CASE \/ BuildArgs \/ HeartbeatUnauthorized \/ Refreshed \/ RefreshFails
             \/ StampBatch \/ BatchDone \/ ReadInterval \/ ConfigUnreadable
             \/ NextHeartbeat \/ HeartbeatStops
    BY <1>1, <2>2 DEF BuildArgs, HeartbeatUnauthorized, Refreshed, RefreshFails,
       StampBatch, BatchDone, ReadInterval, ConfigUnreadable, NextHeartbeat,
       HeartbeatStops, dashboard, workers
  <2> QED
    BY <1>2, <2>1, <2>2 DEF HeartbeatStep
<1>3. ASSUME NEW w \in Worker, WorkerStep(w) PROVE NothingAdded \/ Take(w)
  <2>1. CASE EnterGet(w) \/ WorkerStops(w) \/ GetTimeout(w) \/ NotExpired(w) \/ Dispatch(w)
    BY <1>1, <2>1 DEF EnterGet, WorkerStops, GetTimeout, NotExpired, Dispatch,
       dashboard, heartbeat
  <2>2. CASE SkipExpired(w) \/ Skip(w) \/ HandlerEnds(w) \/ HandlerFails(w)
             \/ HandlerUnauthorized(w)
    BY <2>2 DEF SkipExpired, Skip, HandlerEnds, HandlerFails, HandlerUnauthorized,
       Close, NothingAdded, TypeOK, dashboard, heartbeat
  <2>3. CASE Snapshot(w)
    BY <2>3 DEF Snapshot, NothingAdded, TypeOK, Task, dashboard, heartbeat
  <2> QED
    BY <1>3, <2>1, <2>2, <2>3 DEF WorkerStep
<1>4. CASE Environment
  BY <1>1, <1>4 DEF Environment, OperatorQueues, OperatorEdits, Revoke,
     SignalShutdown, Tick, dashboard, heartbeat, workers
<1>5. CASE UNCHANGED vars
  BY <1>1, <1>5 DEF vars, dashboard, heartbeat, workers
<1> QED
  BY <1>2, <1>3, <1>4, <1>5 DEF Next, HeartbeatStep

\* Of an action nobody has handed over the agent has nothing.
LEMMA NotYet ==
    ASSUME IInv, NEW a \in Action, deliveries[a] = 0
    PROVE  a \notin batch /\ InQueue(a) = {} /\ InHand(a) = {}
BY ActionAssumption DEF IInv, StaleInv, InQueue, InHand

LEMMA WhenHanded ==
    ASSUME IInv, NEW S \in SUBSET Action, Handed(S), NEW a \in Action
    PROVE  /\ InQueue(a)' = InQueue(a) /\ InHand(a)' = InHand(a)
           /\ deliveries[a] \in Nat
           /\ deliveries'[a] = deliveries[a] + IF a \in S THEN 1 ELSE 0
           /\ a \in batch' => a \in batch \/ a \in S
BY Numbers DEF IInv, TypeOK, Handed, HandOver, InQueue, InHand

LEMMA WhenEnqueued ==
    ASSUME IInv, NEW b \in Action, Enqueue(b), NEW a \in Action
    PROVE  /\ InHand(a)' = InHand(a) /\ deliveries' = deliveries
           /\ b \in batch /\ batch' = batch \ {b}
           /\ InQueue(a)' \subseteq
                InQueue(a) \cup (IF a = b THEN {Len(queue) + 1} ELSE {})
<1>1. /\ UNCHANGED task /\ deliveries' = deliveries
      /\ b \in batch /\ batch' = batch \ {b}
  BY DEF Enqueue, dashboard, workers
<1>2. CASE queue' = queue
  BY <1>1, <1>2 DEF InQueue, InHand
<1>3. CASE queue' = Append(queue, [id |-> b, need |-> need])
  <2>1. queue \in Seq([id : Action, need : Version]) /\ Len(queue) \in Nat
    BY DEF IInv, TypeOK
  <2>2. /\ DOMAIN queue = 1 .. Len(queue) /\ DOMAIN queue' = 1 .. Len(queue) + 1
        /\ \A i \in 1 .. Len(queue) : queue'[i] = queue[i]
        /\ queue'[Len(queue) + 1].id = b
    BY <1>3, <2>1
  <2>3. \A i \in DOMAIN queue' : i \in DOMAIN queue \/ i = Len(queue) + 1
    BY <2>1, <2>2
  <2> QED
    BY <1>1, <2>2, <2>3 DEF InQueue, InHand
<1> QED
  BY <1>2, <1>3 DEF Enqueue

LEMMA WhenTaken ==
    ASSUME IInv, NEW w \in Worker, Take(w), NEW a \in Action
    PROVE  /\ deliveries' = deliveries /\ batch' = batch
           /\ InHand(a)' = IF a = Head(queue).id THEN InHand(a) \cup {w} ELSE InHand(a)
           /\ a = Head(queue).id => 1 \in InQueue(a)
           /\ \A i \in InQueue(a)' : i \in Nat /\ i > 0 /\ i + 1 \in InQueue(a)
<1>1. /\ queue # << >> /\ queue' = Tail(queue) /\ pc[w] = "get"
      /\ deliveries' = deliveries /\ batch' = batch
      /\ task' = [task EXCEPT ![w] =
            [id |-> Head(queue).id, need |-> Head(queue).need, snap |-> 0,
             takenAt |-> now, late |-> shutdown]]
  BY DEF Take, dashboard, heartbeat
<1>2. /\ queue \in Seq([id : Action, need : Version]) /\ Len(queue) \in Nat
      /\ task \in [Worker -> Task] /\ task[w].id = NoAction
  BY <1>1 DEF IInv, TypeOK
<1>3. /\ DOMAIN queue = 1 .. Len(queue) /\ Len(queue) >= 1 /\ Head(queue) = queue[1]
      /\ DOMAIN queue' = 1 .. Len(queue) - 1
      /\ \A i \in 1 .. Len(queue) - 1 : queue'[i] = queue[i + 1]
  BY <1>1, <1>2, HeadTailProperties, EmptySeq
<1>4. InHand(a)' = IF a = Head(queue).id THEN InHand(a) \cup {w} ELSE InHand(a)
  BY <1>1, <1>2, ActionAssumption DEF InHand
<1>5. a = Head(queue).id => 1 \in InQueue(a)
  BY <1>2, <1>3 DEF InQueue
<1>6. \A i \in InQueue(a)' : i \in Nat /\ i > 0 /\ i + 1 \in InQueue(a)
  BY <1>2, <1>3 DEF InQueue
<1> QED
  BY <1>1, <1>4, <1>5, <1>6

LEMMA PlaceStep == IInv /\ OnePlace /\ [Next]_vars => OnePlace'
<1> SUFFICES ASSUME IInv, OnePlace, [Next]_vars, NEW a \in Action, deliveries'[a] = 1
             PROVE  /\ \A i, j \in InQueue(a)' : i = j
                    /\ \A v, w \in InHand(a)' : v = w
                    /\ InQueue(a)' = {} \/ InHand(a)' = {}
                    /\ a \in batch' => InQueue(a)' = {} /\ InHand(a)' = {}
  BY DEF OnePlace
<1>0. deliveries[a] = 1 =>
        /\ \A i, j \in InQueue(a) : i = j
        /\ \A v, w \in InHand(a) : v = w
        /\ InQueue(a) = {} \/ InHand(a) = {}
        /\ a \in batch => InQueue(a) = {} /\ InHand(a) = {}
  BY DEF OnePlace
<1>1. CASE NothingAdded
  <2>1. /\ InQueue(a)' = InQueue(a) /\ InHand(a)' \subseteq InHand(a)
        /\ deliveries[a] = 1 /\ batch' \subseteq batch
    BY <1>1, ActionAssumption DEF NothingAdded, InQueue, InHand
  <2> QED
    BY <1>0, <2>1
<1>2. ASSUME NEW S \in SUBSET Action, Handed(S)
      PROVE  /\ \A i, j \in InQueue(a)' : i = j
             /\ \A v, w \in InHand(a)' : v = w
             /\ InQueue(a)' = {} \/ InHand(a)' = {}
             /\ a \in batch' => InQueue(a)' = {} /\ InHand(a)' = {}
  <2>1. CASE a \in S
    BY <1>2, <2>1, WhenHanded, NotYet
  <2>2. CASE a \notin S
    BY <1>0, <1>2, <2>2, WhenHanded
  <2> QED
    BY <2>1, <2>2
<1>3. ASSUME NEW b \in Action, Enqueue(b)
      PROVE  /\ \A i, j \in InQueue(a)' : i = j
             /\ \A v, w \in InHand(a)' : v = w
             /\ InQueue(a)' = {} \/ InHand(a)' = {}
             /\ a \in batch' => InQueue(a)' = {} /\ InHand(a)' = {}
  BY <1>0, <1>3, WhenEnqueued
<1>4. ASSUME NEW u \in Worker, Take(u)
      PROVE  /\ \A i, j \in InQueue(a)' : i = j
             /\ \A v, w \in InHand(a)' : v = w
             /\ InQueue(a)' = {} \/ InHand(a)' = {}
             /\ a \in batch' => InQueue(a)' = {} /\ InHand(a)' = {}
  <2>1. /\ deliveries[a] = 1 /\ batch' = batch
        /\ InHand(a)' = IF a = Head(queue).id THEN InHand(a) \cup {u} ELSE InHand(a)
        /\ a = Head(queue).id => 1 \in InQueue(a)
        /\ \A i \in InQueue(a)' : i \in Nat /\ i > 0 /\ i + 1 \in InQueue(a)
    BY <1>4, WhenTaken
  <2>2. CASE a = Head(queue).id
    <3>1. InQueue(a) = {1} /\ InHand(a) = {} /\ a \notin batch
      BY <1>0, <2>1, <2>2
    <3>2. InQueue(a)' = {}
      BY <2>1, <3>1
    <3> QED
      BY <2>1, <2>2, <3>1, <3>2
  <2>3. CASE a # Head(queue).id
    <3>1. \A i, j \in InQueue(a)' : i = j
      <4> SUFFICES ASSUME NEW i \in InQueue(a)', NEW j \in InQueue(a)' PROVE i = j
        OBVIOUS
      <4>1. i \in Nat /\ j \in Nat /\ i + 1 = j + 1
        BY <1>0, <2>1
      <4> QED
        BY <4>1
    <3>2. InQueue(a) = {} => InQueue(a)' = {}
      BY <2>1
    <3> QED
      BY <1>0, <2>1, <2>3, <3>1, <3>2
  <2> QED
    BY <2>2, <2>3
<1> QED
  BY <1>1, <1>2, <1>3, <1>4, FourMoves

\* An action handed over once is never in two places: no two workers run it.
THEOREM HandledOnce == Spec => []OnePlace
<1>1. Init => OnePlace
  BY DEF Init, OnePlace
<1>2. IInv /\ OnePlace /\ [Next]_vars => OnePlace'
  BY PlaceStep
<1> QED
  BY <1>1, <1>2, Invariance, PTL DEF Spec

\* Between two hand-overs an action goes from the batch to the queue, to a worker
\* and out, and never back.
THEOREM NeverPutBack == Spec => OnlyForward
<1> DEFINE Forward ==
      \A a \in Action : deliveries'[a] = deliveries[a] =>
          /\ a \in batch' => a \in batch
          /\ InQueue(a)' # {} => InQueue(a) # {} \/ a \in batch
          /\ InHand(a)' \subseteq InHand(a) \/ InQueue(a) # {}
<1>1. IInv /\ [Next]_vars => [Forward]_vars
  <2> SUFFICES ASSUME IInv, [Next]_vars, NEW a \in Action, deliveries'[a] = deliveries[a]
               PROVE  /\ a \in batch' => a \in batch
                      /\ InQueue(a)' # {} => InQueue(a) # {} \/ a \in batch
                      /\ InHand(a)' \subseteq InHand(a) \/ InQueue(a) # {}
    OBVIOUS
  <2>1. CASE NothingAdded
    BY <2>1, ActionAssumption DEF NothingAdded, InQueue, InHand
  <2>2. ASSUME NEW S \in SUBSET Action, Handed(S)
        PROVE  /\ a \in batch' => a \in batch
               /\ InQueue(a)' # {} => InQueue(a) # {} \/ a \in batch
               /\ InHand(a)' \subseteq InHand(a) \/ InQueue(a) # {}
    BY <2>2, WhenHanded
  <2>3. ASSUME NEW b \in Action, Enqueue(b)
        PROVE  /\ a \in batch' => a \in batch
               /\ InQueue(a)' # {} => InQueue(a) # {} \/ a \in batch
               /\ InHand(a)' \subseteq InHand(a) \/ InQueue(a) # {}
    BY <2>3, WhenEnqueued
  <2>4. ASSUME NEW u \in Worker, Take(u)
        PROVE  /\ a \in batch' => a \in batch
               /\ InQueue(a)' # {} => InQueue(a) # {} \/ a \in batch
               /\ InHand(a)' \subseteq InHand(a) \/ InQueue(a) # {}
    BY <2>4, WhenTaken
  <2> QED
    BY <2>1, <2>2, <2>3, <2>4, FourMoves
<1> QED
  BY <1>1, Invariance, PTL DEF Spec, OnlyForward

-----------------------------------------------------------------------------
(* The heartbeat thread and the workers keep the promise of AgentThread. *)

LEMMA BeatMoves ==
    ASSUME NEW from, NEW to, TypeOK', Place(hb) \in from, Place(hb)' = to
    PROVE  Beat!Move("heartbeat", from, to)
BY DEF Beat!Move, TypeOK, Left, Between

LEMMA BeatStep == IInv /\ [Next]_vars => [Beat!TNext]_(Beat!tvars)
<1> SUFFICES ASSUME IInv, IInv', [Next]_vars
             PROVE  Beat!TNext \/ UNCHANGED Beat!tvars
  BY StepInvariant
<1>0. TypeOK /\ TypeOK'
  BY DEF IInv
<1> USE <1>0
<1>1. ASSUME UNCHANGED <<hb, shutdown>> PROVE UNCHANGED Beat!tvars
  BY <1>1 DEF Beat!tvars, Place, Left, Between
<1>2. ASSUME BuildArgs PROVE Beat!BeginRound("heartbeat")
  BY <1>2, BeatMoves DEF BuildArgs, Place, Between, Beat!BeginRound
<1>3. ASSUME \/ Answered \/ HeartbeatFails \/ Refreshed \/ RefreshFails
             \/ StampBatch \/ BatchDone \/ ReadInterval
      PROVE  Beat!Work("heartbeat")
  <2>1. shutdown' = shutdown /\ hb \in {"call", "refresh", "stamp", "enqueue", "interval"}
    BY <1>3 DEF Answered, HeartbeatFails, Refreshed, RefreshFails, StampBatch,
                BatchDone, ReadInterval
  <2>2. CASE hb = "call"
    BY <1>3, <2>1, <2>2, BeatMoves
    DEF Answered, HeartbeatFails, Refreshed, RefreshFails, StampBatch, BatchDone,
        ReadInterval, EndHeartbeat, Place, Left, Between, Beat!Work, Beat!Closer
  <2>3. CASE hb # "call"
    BY <1>3, <2>1, <2>3, BeatMoves
    DEF Answered, HeartbeatFails, Refreshed, RefreshFails, StampBatch, BatchDone,
        ReadInterval, EndHeartbeat, Place, Left, Between, Beat!Work, Beat!Closer
  <2> QED
    BY <2>2, <2>3
<1>4. ASSUME NextHeartbeat PROVE Beat!Wait("heartbeat")
  BY <1>4, BeatMoves DEF NextHeartbeat, Place, Between, Beat!Wait, Beat!Closer
<1>5. ASSUME HeartbeatUnauthorized \/ ConfigUnreadable \/ HeartbeatStops
      PROVE  Beat!End("heartbeat")
  BY <1>5, BeatMoves DEF HeartbeatUnauthorized, ConfigUnreadable, HeartbeatStops,
                         Place, Between, TypeOK, Beat!End
<1>6. ASSUME UNCHANGED hb, shutdown' = TRUE PROVE Beat!Signal
  BY <1>6 DEF Beat!Signal, Place, Left, Between
<1>7. ASSUME NEW w \in Worker, WorkerStep(w)
      PROVE  UNCHANGED hb /\ (UNCHANGED shutdown \/ shutdown' = TRUE)
  BY <1>7 DEF WorkerStep, EnterGet, WorkerStops, GetTimeout, Take, SkipExpired,
     NotExpired, Skip, Dispatch, Snapshot, HandlerEnds, HandlerFails,
     HandlerUnauthorized, heartbeat
<1>8. ASSUME Environment \/ (\E a \in Action : Enqueue(a)) \/ UNCHANGED vars
      PROVE  UNCHANGED hb /\ (UNCHANGED shutdown \/ shutdown' = TRUE)
  BY <1>8 DEF Environment, OperatorQueues, OperatorEdits, Revoke, SignalShutdown,
              Tick, Enqueue, heartbeat, vars
<1> QED
  BY <1>1, <1>2, <1>3, <1>4, <1>5, <1>6, <1>7, <1>8
  DEF Next, HeartbeatStep, Beat!TNext

\* A worker that moves does so alone.
LEMMA PoolMoves ==
    ASSUME NEW w \in Worker, NEW step, NEW from, NEW to, TypeOK, TypeOK',
           Goto(w, step), Place(pc[w]) \in from, Place(pc[w])' = to
    PROVE  Pool!Move(w, from, to)
<1>1. \A u \in Worker \ {w} : pc'[u] = pc[u]
  BY DEF Goto, TypeOK
<1>2. \A u \in Worker \ {w} :
         Place(pc[u])' = Place(pc[u]) /\ Left(pc[u])' = Left(pc[u])
  BY <1>1 DEF Place, Left, Between
<1>3. Left(pc[w])' \in Nat
  BY DEF TypeOK, Left, Between
<1> QED
  BY <1>2, <1>3 DEF Pool!Move

LEMMA PoolStep == IInv /\ [Next]_vars => [Pool!TNext]_(Pool!tvars)
<1> SUFFICES ASSUME IInv, IInv', [Next]_vars
             PROVE  Pool!TNext \/ UNCHANGED Pool!tvars
  BY StepInvariant
<1>0. /\ TypeOK /\ TypeOK'
      /\ pc \in [Worker -> {"top", "get", "dispatch", "check", "begin", "busy",
                            "gone"}]
  BY DEF IInv, TypeOK
<1> USE <1>0
<1>1. ASSUME UNCHANGED <<pc, shutdown>> PROVE UNCHANGED Pool!tvars
  BY <1>1 DEF Pool!tvars, Place, Left, Between
<1>2. ASSUME NEW w \in Worker, EnterGet(w) PROVE Pool!BeginRound(w)
  <2>1. Place(pc[w]) \in {"out"} /\ Place(pc[w])' = "round"
    BY <1>2 DEF EnterGet, Goto, Place, Between
  <2> QED
    BY <1>2, <2>1, PoolMoves DEF EnterGet, Pool!BeginRound
<1>3. ASSUME NEW w \in Worker,
             \/ GetTimeout(w) \/ Take(w) \/ SkipExpired(w) \/ NotExpired(w) \/ Skip(w)
             \/ Dispatch(w) \/ Snapshot(w) \/ HandlerEnds(w) \/ HandlerFails(w)
             \/ HandlerUnauthorized(w)
      PROVE  Pool!Work(w)
  <2>1. PICK step \in {"top", "dispatch", "check", "begin", "busy"} : Goto(w, step)
    BY <1>3 DEF GetTimeout, Take, SkipExpired, NotExpired, Skip, Dispatch, Snapshot,
                HandlerEnds, HandlerFails, HandlerUnauthorized, Close
  <2>2. \/ pc[w] \in {"get", "dispatch", "check", "begin", "busy"} /\ pc'[w] = "top"
        \/ pc[w] = "get" /\ pc'[w] = "dispatch"
        \/ pc[w] = "dispatch" /\ pc'[w] = "check"
        \/ pc[w] = "check" /\ pc'[w] = "begin"
        \/ pc[w] = "begin" /\ pc'[w] = "busy"
    BY <1>3 DEF GetTimeout, Take, SkipExpired, NotExpired, Skip, Dispatch, Snapshot,
                HandlerEnds, HandlerFails, HandlerUnauthorized, Close, Goto
  <2>3. shutdown' \in {shutdown, TRUE}
    BY <1>3 DEF GetTimeout, Take, SkipExpired, NotExpired, Skip, Dispatch, Snapshot,
                HandlerEnds, HandlerFails, HandlerUnauthorized
  <2>4. /\ Place(pc[w]) \in {"round"} /\ Place(pc[w])' \in {"round", "out"}
        /\ Left(pc[w])' < Left(pc[w])
    BY <2>2 DEF Place, Left, Between
  <2>5. PICK to \in {"round", "out"} : Place(pc[w])' = to
    BY <2>4
  <2> QED
    BY <2>1, <2>3, <2>4, <2>5, PoolMoves DEF Pool!Work, Pool!Closer
<1>4. ASSUME NEW w \in Worker, WorkerStops(w) PROVE Pool!End(w)
  <2>1. /\ Place(pc[w]) \in {"out", "round"} /\ Place(pc[w])' = "ended"
        /\ shutdown' = TRUE
    BY <1>4 DEF WorkerStops, Goto, Place, Between, TypeOK
  <2> QED
    BY <1>4, <2>1, PoolMoves DEF WorkerStops, Pool!End
<1>5. ASSUME UNCHANGED pc, shutdown' = TRUE PROVE Pool!Signal
  BY <1>5 DEF Pool!Signal, Place, Left, Between
<1>6. ASSUME HeartbeatStep
      PROVE  UNCHANGED pc /\ (UNCHANGED shutdown \/ shutdown' = TRUE)
  BY <1>6 DEF HeartbeatStep, BuildArgs, Answered, HeartbeatFails,
     HeartbeatUnauthorized, Refreshed, RefreshFails, StampBatch, Enqueue, BatchDone,
     ReadInterval, ConfigUnreadable, NextHeartbeat, HeartbeatStops, workers
<1>7. ASSUME Environment \/ UNCHANGED vars
      PROVE  UNCHANGED pc /\ (UNCHANGED shutdown \/ shutdown' = TRUE)
  BY <1>7 DEF Environment, OperatorQueues, OperatorEdits, Revoke, SignalShutdown,
              Tick, workers, vars
<1> QED
  BY <1>1, <1>2, <1>3, <1>4, <1>5, <1>6, <1>7 DEF Next, WorkerStep, Pool!TNext

\* No reply, no configuration and no handler ends a thread without the shutdown
\* event being set; once it is, no heartbeat is sent and no action taken that was
\* not under way (HeartbeatThread.run, ActionWorkerPool._worker_loop).
THEOREM RunnerCanRely == Spec => AreAgentThreads
<1>1. Init => Beat!TInit /\ Pool!TInit
  BY DEF Init, Beat!TInit, Pool!TInit, Place, Left, Between
<1> QED
  BY <1>1, BeatStep, PoolStep, Invariance, PTL
  DEF Spec, AreAgentThreads, Beat!TSpec, Pool!TSpec

=============================================================================
