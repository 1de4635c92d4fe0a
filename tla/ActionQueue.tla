----------------------------- MODULE ActionQueue -----------------------------
(***************************************************************************)
(* The heartbeat thread (heartbeat_thread.py) fetches the configuration    *)
(* and the actions an operator has queued; the pool of action_workers.py   *)
(* takes them from a FIFO queue and runs their handlers.  A configuration  *)
(* is its version; the dashboard is external.  What a handler does inside  *)
(* is left to ReportDelivery and NetBoxSync: here it ends, fails or meets  *)
(* a 401.                                                                  *)
(*                                                                         *)
(* hb, the heartbeat thread:             pc, an action worker:             *)
(*    "top"      top of the loop            "top"      top of the loop     *)
(*    "call"     heartbeat under way        "get"      in queue.get(0.5)   *)
(*    "refresh"  get_config under way       "dispatch" has taken an action *)
(*    "stamp"    before utc_now_iso()       "check"    it has not expired  *)
(*    "enqueue"  putting actions            "begin"    about to run it     *)
(*    "interval" reading the interval       "busy"     inside the handler  *)
(*    "wait"     in clock.wait_for          "gone"     ended               *)
(*    "gone"     ended                                                     *)
(***************************************************************************)
EXTENDS Integers, Sequences, FiniteSets

CONSTANTS
    Action,         \* action ids
    Unknown,        \* the actions of a type this agent has no handler for
    NoAction,       \* "has taken no action"
    Worker,
    Malformed,      \* versions of the configuration that lack a key
    MaxVersion,     \* bound: the operator edits the configuration up to it
    MaxDeliveries,  \* bound: the dashboard hands an action over this often
    MaxTime         \* bound: the clock stops here

ASSUME ActionAssumption == Unknown \subseteq Action /\ NoAction \notin Action
ASSUME QueueBounds ==
    /\ MaxVersion \in Nat \ {0} /\ MaxDeliveries \in Nat /\ MaxTime \in Nat
    /\ Malformed \subseteq 1 .. MaxVersion

VARIABLES
    version,     \* dashboard: its current configuration
    pending,     \* dashboard: actions it will hand over
    deliveries,  \* dashboard: action -> times handed over
    expires,     \* action -> expires_at
    revoked,     \* dashboard: the agent's token is no longer accepted
    config,      \* ConfigState
    queue,       \* action_queue: [id, need] records, oldest first
    shutdown,    \* shutdown_event
    hb,          \* heartbeat thread: place in the code
    reported,    \* heartbeat thread: current_config_version it sends
    batch,       \* heartbeat thread: pending_actions still to be put
    need,        \* history: the configuration this batch may count on
    stampAt,     \* heartbeat thread: now_iso of _enqueue_actions
    pc,          \* worker -> place in the code
    task,        \* worker -> the action in hand
    now

dashboard == <<version, pending, deliveries, expires, revoked>>
heartbeat == <<hb, reported, batch, need, stampAt>>
workers   == <<pc, task>>
vars      == <<dashboard, config, queue, shutdown, heartbeat, workers, now>>

Version == 0 .. MaxVersion
Time    == 0 .. MaxTime

\* snap is the configuration the handler has read; takenAt and late are
\* history: when the action left the queue, and whether shutdown was set then.
Task == [id : Action \cup {NoAction}, need : Version, snap : Version,
         takenAt : Time, late : BOOLEAN]
NoTask == [id |-> NoAction, need |-> 0, snap |-> 0, takenAt |-> 0, late |-> FALSE]

TypeOK ==
    /\ version \in Version
    /\ pending \subseteq Action
    /\ deliveries \in [Action -> 0 .. MaxDeliveries]
    /\ expires \in [Action -> Time]
    /\ config \in Version
    /\ queue \in Seq([id : Action, need : Version])
    /\ {revoked, shutdown} \subseteq BOOLEAN
    /\ hb \in {"top", "call", "refresh", "stamp", "enqueue", "interval", "wait",
               "gone"}
    /\ reported \in Version
    /\ batch \subseteq Action
    /\ need \in Version
    /\ stampAt \in Time
    /\ pc \in [Worker -> {"top", "get", "dispatch", "check", "begin", "busy",
                          "gone"}]
    /\ task \in [Worker -> Task]
    /\ now \in Time
    /\ \A w \in Worker : task[w].id = NoAction <=> pc[w] \in {"top", "get", "gone"}

\* The dashboard's first configuration is version 1; bootstrap has fetched it or
\* fallen back to DEFAULT_CONFIG, which is version 0.
Init ==
    /\ version = 1
    /\ pending = {}
    /\ deliveries = [a \in Action |-> 0]
    /\ expires = [a \in Action |-> 0]
    /\ revoked = FALSE
    /\ config \in {0, 1}
    /\ queue = << >>
    /\ shutdown = FALSE
    /\ hb = "top"
    /\ reported = 0
    /\ batch = {}
    /\ need = 0
    /\ stampAt = 0
    /\ pc = [w \in Worker |-> "top"]
    /\ task = [w \in Worker |-> NoTask]
    /\ now = 0

-----------------------------------------------------------------------------
(* HeartbeatThread *)

\* Mutant: the version announced by the last reply is reported, installed or not.
BuildArgsAnnounced ==
    /\ hb = "top" /\ ~shutdown /\ config \notin Malformed
    /\ hb' = "call"
    /\ reported' = version
    /\ UNCHANGED <<dashboard, config, queue, shutdown, batch, need, stampAt,
                   workers, now>>

\* _build_heartbeat_args
BuildArgs ==
    /\ hb = "top" /\ ~shutdown /\ config \notin Malformed
    /\ hb' = "call"
    /\ reported' = config
    /\ UNCHANGED <<dashboard, config, queue, shutdown, batch, need, stampAt,
                   workers, now>>

\* The dashboard hands actions over; whether it offers them again is its affair.
HandOver(S) ==
    /\ S \subseteq {a \in pending : deliveries[a] < MaxDeliveries}
    /\ deliveries' = [a \in Action |-> deliveries[a] + IF a \in S THEN 1 ELSE 0]
    /\ pending' \in {pending, pending \ S}

\* Mutant: the actions of a reply are enqueued before its refresh.
AnsweredActionsFirst ==
    /\ hb = "call" /\ ~revoked
    /\ \E S \in SUBSET pending : HandOver(S) /\ batch' = S
    /\ need' = version
    /\ hb' = "stamp"
    /\ UNCHANGED <<version, expires, revoked, config, queue, shutdown, reported,
                   stampAt, workers, now>>

\* The reply: config_refresh_required and pending_actions.
Answered ==
    /\ hb = "call" /\ ~revoked
    /\ \E S \in SUBSET pending : HandOver(S) /\ batch' = S
    /\ need' = version
    /\ hb' = IF reported # version THEN "refresh" ELSE "stamp"
    /\ UNCHANGED <<version, expires, revoked, config, queue, shutdown, reported,
                   stampAt, workers, now>>

\* _do_heartbeat returns and its locals are gone.
EndHeartbeat == hb' = "interval" /\ reported' = 0 /\ need' = 0 /\ stampAt' = 0

\* Validation, retriable and unexpected errors: logged, next try at the next
\* tick.  The dashboard may have answered all the same.
HeartbeatFails ==
    /\ hb = "call"
    /\ \/ ~revoked /\ \E S \in SUBSET pending : HandOver(S)
       \/ UNCHANGED <<pending, deliveries>>
    /\ EndHeartbeat
    /\ UNCHANGED <<version, expires, revoked, config, queue, shutdown, batch,
                   workers, now>>

\* 401 from the heartbeat or from get_config: stop the world; the actions of
\* the reply in hand are dropped.
HeartbeatUnauthorized ==
    /\ hb \in {"call", "refresh"} /\ revoked
    /\ shutdown' = TRUE
    /\ hb' = "gone"
    /\ batch' = {}
    /\ UNCHANGED <<dashboard, config, queue, reported, need, stampAt, workers, now>>

\* ConfigState.replace with whatever the dashboard has returned, unvalidated.
Refreshed ==
    /\ hb = "refresh" /\ ~revoked
    /\ config' = version
    /\ hb' = "stamp"
    /\ UNCHANGED <<dashboard, queue, shutdown, reported, batch, need, stampAt,
                   workers, now>>

\* get_config fails: the old configuration stays, the actions are still taken.
RefreshFails ==
    /\ hb = "refresh"
    /\ need' = config
    /\ hb' = "stamp"
    /\ UNCHANGED <<dashboard, config, queue, shutdown, reported, batch, stampAt,
                   workers, now>>

\* _enqueue_actions reads the clock once for the whole batch.
StampBatch ==
    /\ hb = "stamp"
    /\ stampAt' = now
    /\ hb' = "enqueue"
    /\ UNCHANGED <<dashboard, config, queue, shutdown, reported, batch, need,
                   workers, now>>

\* One action of the batch: dropped when expired, put otherwise.
Enqueue(a) ==
    /\ hb = "enqueue" /\ a \in batch
    /\ batch' = batch \ {a}
    /\ queue' = IF expires[a] < stampAt
                THEN queue
                ELSE Append(queue, [id |-> a, need |-> need])
    /\ UNCHANGED <<dashboard, config, shutdown, hb, reported, need, stampAt,
                   workers, now>>

BatchDone ==
    /\ hb = "enqueue" /\ batch = {}
    /\ EndHeartbeat
    /\ UNCHANGED <<dashboard, config, queue, shutdown, batch, workers, now>>

\* _heartbeat_interval has found its key (a malformed configuration may lack
\* another one).
ReadInterval ==
    /\ hb = "interval"
    /\ hb' = "wait"
    /\ UNCHANGED <<dashboard, config, queue, shutdown, reported, batch, need,
                   stampAt, workers, now>>

\* KeyError in _heartbeat_interval or _build_heartbeat_args: the catch-all takes
\* the agent down.
ConfigUnreadable ==
    /\ hb \in {"top", "interval"} /\ config \in Malformed
    /\ shutdown' = TRUE
    /\ hb' = "gone"
    /\ UNCHANGED <<dashboard, config, queue, reported, batch, need, stampAt,
                   workers, now>>

NextHeartbeat ==
    /\ hb = "wait" /\ ~shutdown
    /\ hb' = "top"
    /\ UNCHANGED <<dashboard, config, queue, shutdown, reported, batch, need,
                   stampAt, workers, now>>

HeartbeatStops ==
    /\ hb \in {"top", "wait"} /\ shutdown
    /\ hb' = "gone"
    /\ UNCHANGED <<dashboard, config, queue, shutdown, reported, batch, need,
                   stampAt, workers, now>>

-----------------------------------------------------------------------------
(* ActionWorkerPool *)

Goto(w, step) == pc' = [pc EXCEPT ![w] = step]

\* Mutant: the worker still holds the action it is through with.
CloseKeepsTask(w) == Goto(w, "top") /\ UNCHANGED task

\* The worker is through with its action: task_done, next iteration.
Close(w) == Goto(w, "top") /\ task' = [task EXCEPT ![w] = NoTask]

EnterGet(w) ==
    /\ pc[w] = "top" /\ ~shutdown
    /\ Goto(w, "get")
    /\ UNCHANGED <<dashboard, config, queue, shutdown, heartbeat, task, now>>

WorkerStops(w) ==
    /\ pc[w] = "top" /\ shutdown
    /\ Goto(w, "gone")
    /\ UNCHANGED <<dashboard, config, queue, shutdown, heartbeat, task, now>>

GetTimeout(w) ==
    /\ pc[w] = "get" /\ queue = << >>
    /\ Goto(w, "top")
    /\ UNCHANGED <<dashboard, config, queue, shutdown, heartbeat, task, now>>

Take(w) ==
    /\ pc[w] = "get" /\ queue # << >>
    /\ queue' = Tail(queue)
    /\ task' = [task EXCEPT ![w] =
           [id |-> Head(queue).id, need |-> Head(queue).need, snap |-> 0,
            takenAt |-> now, late |-> shutdown]]
    /\ Goto(w, "dispatch")
    /\ UNCHANGED <<dashboard, config, shutdown, heartbeat, now>>

SkipExpired(w) ==
    /\ pc[w] = "dispatch" /\ expires[task[w].id] < now
    /\ Close(w)
    /\ UNCHANGED <<dashboard, config, queue, shutdown, heartbeat, now>>

\* Mutant: no second look at the clock.
NotExpiredAnyway(w) ==
    /\ pc[w] = "dispatch"
    /\ Goto(w, "check")
    /\ UNCHANGED <<dashboard, config, queue, shutdown, heartbeat, task, now>>

NotExpired(w) ==
    /\ pc[w] = "dispatch" /\ expires[task[w].id] >= now
    /\ Goto(w, "check")
    /\ UNCHANGED <<dashboard, config, queue, shutdown, heartbeat, task, now>>

\* Shutdown signalled, or no handler for the type.
Skip(w) ==
    /\ pc[w] = "check" /\ (shutdown \/ task[w].id \in Unknown)
    /\ Close(w)
    /\ UNCHANGED <<dashboard, config, queue, shutdown, heartbeat, now>>

\* Mutant: an action in hand is run, shutdown or not.
DispatchDeaf(w) ==
    /\ pc[w] = "check" /\ task[w].id \notin Unknown
    /\ Goto(w, "begin")
    /\ UNCHANGED <<dashboard, config, queue, shutdown, heartbeat, task, now>>

Dispatch(w) ==
    /\ pc[w] = "check" /\ ~shutdown /\ task[w].id \notin Unknown
    /\ Goto(w, "begin")
    /\ UNCHANGED <<dashboard, config, queue, shutdown, heartbeat, task, now>>

\* The handler starts: config_state.snapshot(), used to its end.
Snapshot(w) ==
    /\ pc[w] = "begin"
    /\ task' = [task EXCEPT ![w].snap = config]
    /\ Goto(w, "busy")
    /\ UNCHANGED <<dashboard, config, queue, shutdown, heartbeat, now>>

\* The handler returns.
HandlerEnds(w) ==
    /\ pc[w] = "busy"
    /\ Close(w)
    /\ UNCHANGED <<dashboard, config, queue, shutdown, heartbeat, now>>

\* Mutant: an exception of a handler ends its worker.
HandlerFailsKills(w) ==
    /\ pc[w] = "busy"
    /\ Goto(w, "gone")
    /\ task' = [task EXCEPT ![w] = NoTask]
    /\ UNCHANGED <<dashboard, config, queue, shutdown, heartbeat, now>>

\* Any exception but a 401 is logged and swallowed.
HandlerFails(w) ==
    /\ pc[w] = "busy"
    /\ Close(w)
    /\ UNCHANGED <<dashboard, config, queue, shutdown, heartbeat, now>>

HandlerUnauthorized(w) ==
    /\ pc[w] = "busy" /\ revoked
    /\ shutdown' = TRUE
    /\ Close(w)
    /\ UNCHANGED <<dashboard, config, queue, heartbeat, now>>

-----------------------------------------------------------------------------
(* The environment *)

\* The operator queues an action; an action that needs an edit of the
\* configuration is queued after it.
OperatorQueues(a) ==
    /\ a \notin pending /\ deliveries[a] = 0
    /\ pending' = pending \cup {a}
    /\ \E e \in now .. MaxTime : expires' = [expires EXCEPT ![a] = e]
    /\ UNCHANGED <<version, deliveries, revoked, config, queue, shutdown,
                   heartbeat, workers, now>>

OperatorEdits ==
    /\ version < MaxVersion
    /\ version' = version + 1
    /\ UNCHANGED <<pending, deliveries, expires, revoked, config, queue, shutdown,
                   heartbeat, workers, now>>

Revoke ==
    /\ ~revoked
    /\ revoked' = TRUE
    /\ UNCHANGED <<version, pending, deliveries, expires, config, queue, shutdown,
                   heartbeat, workers, now>>

SignalShutdown ==
    /\ ~shutdown
    /\ shutdown' = TRUE
    /\ UNCHANGED <<dashboard, config, queue, heartbeat, workers, now>>

Tick ==
    /\ now < MaxTime
    /\ now' = now + 1
    /\ UNCHANGED <<dashboard, config, queue, shutdown, heartbeat, workers>>

-----------------------------------------------------------------------------

HeartbeatStep ==
    \/ BuildArgs \/ Answered \/ HeartbeatFails \/ HeartbeatUnauthorized
    \/ Refreshed \/ RefreshFails
    \/ StampBatch \/ (\E a \in Action : Enqueue(a)) \/ BatchDone
    \/ ReadInterval \/ ConfigUnreadable \/ NextHeartbeat \/ HeartbeatStops

WorkerStep(w) ==
    \/ EnterGet(w) \/ WorkerStops(w) \/ GetTimeout(w) \/ Take(w)
    \/ SkipExpired(w) \/ NotExpired(w) \/ Skip(w) \/ Dispatch(w) \/ Snapshot(w)
    \/ HandlerEnds(w) \/ HandlerFails(w) \/ HandlerUnauthorized(w)

Environment ==
    \/ (\E a \in Action : OperatorQueues(a)) \/ OperatorEdits
    \/ Revoke \/ SignalShutdown \/ Tick

Next == HeartbeatStep \/ (\E w \in Worker : WorkerStep(w)) \/ Environment

Spec == Init /\ [][Next]_vars

\* Threads are scheduled, and three things are assumed of the remote parties: an
\* outage of the dashboard ends (SF), without which all workers can sit in a retry
\* loop for ever; so handlers end; and NetBox answers, without which a sync_netbox
\* handler need not.
RecoveringSpec ==
    /\ Spec
    /\ WF_vars(HeartbeatStep)
    /\ SF_vars(Answered) /\ SF_vars(Refreshed) /\ SF_vars(HeartbeatUnauthorized)
    /\ \A w \in Worker : WF_vars(WorkerStep(w))

-----------------------------------------------------------------------------
(* Properties *)

Running == {w \in Worker : pc[w] = "busy"}

\* Refresh first, then actions (heartbeat_thread.py:298-303): a handler works
\* with a configuration at least as new as the dashboard's when it handed the
\* action over, so a host added before its "check now" is found.  When the
\* refresh has failed it is at least the one of that time.
ActionsSeeTheirConfig == \A w \in Running : task[w].snap >= task[w].need

\* An action that had expired when it left the queue, or left it after shutdown
\* was signalled, is never run, however long it waited behind slow handlers
\* (_dispatch).
StaleWorkNotRun ==
    \A w \in Running : ~task[w].late /\ expires[task[w].id] >= task[w].takenAt

\* The inductive form of the two.  The agent's configuration only gets newer, and
\* what is on its way to a handler counts on no newer one; what is on its way has
\* been handed over, so its expiry is settled, and has passed the checks behind it.
ConfigInv ==
    /\ config <= version
    /\ hb \in {"call", "refresh"} => reported <= config
    /\ need <= version
    /\ hb \in {"stamp", "enqueue"} => need <= config
    /\ \A i \in DOMAIN queue : queue[i].need <= config
    /\ \A w \in Worker :
          /\ task[w].need <= config
          /\ pc[w] = "busy" => task[w].need <= task[w].snap

StaleInv ==
    /\ \A a \in batch : deliveries[a] > 0
    /\ \A i \in DOMAIN queue : deliveries[queue[i].id] > 0
    /\ \A w \in Worker :
          /\ task[w].id # NoAction => deliveries[task[w].id] > 0
          /\ task[w].takenAt <= now /\ (task[w].late => shutdown)
          /\ pc[w] \in {"check", "begin", "busy"} =>
                expires[task[w].id] >= task[w].takenAt
          /\ pc[w] \in {"begin", "busy"} => ~task[w].late

IInv == TypeOK /\ ConfigInv /\ StaleInv /\ ActionsSeeTheirConfig /\ StaleWorkNotRun

\* The entries of the queue that are for a, and the workers that have it in hand.
InQueue(a) == {i \in DOMAIN queue : queue[i].id = a}
InHand(a)  == {w \in Worker : task[w].id = a}

\* An action handed over once is in one place only: no two workers are at it, and
\* none has it while it waits in the queue or in the batch (nothing in the pool or
\* in _enqueue_actions compares action ids).
OnePlace ==
    \A a \in Action : deliveries[a] = 1 =>
        /\ \A i, j \in InQueue(a) : i = j
        /\ \A v, w \in InHand(a) : v = w
        /\ InQueue(a) = {} \/ InHand(a) = {}
        /\ a \in batch => InQueue(a) = {} /\ InHand(a) = {}

\* Between two hand-overs an action only goes forward, from the batch to the queue,
\* from there to a worker, and out: none is put back, after an error or a shutdown
\* no less than after a handler's return, so none is run a second time.
OnlyForward ==
    [][\A a \in Action : deliveries'[a] = deliveries[a] =>
          /\ a \in batch' => a \in batch
          /\ InQueue(a)' # {} => InQueue(a) # {} \/ a \in batch
          /\ InHand(a)' \subseteq InHand(a) \/ InQueue(a) # {}]_vars

\* The heartbeat thread and the workers are threads the runner can rely on: no
\* reply, configuration or handler ends one without the event being set, and none
\* begins another round after it (putting the actions of a batch in hand is not
\* counted).
Between(step) == step \in {"top", "wait"}
Place(step) == IF step = "gone" THEN "ended" ELSE IF Between(step) THEN "out"
               ELSE "round"

Left(step) ==
    CASE step \in {"call", "get"} -> 6  [] step \in {"refresh", "dispatch"} -> 5
      [] step \in {"stamp", "check"} -> 4  [] step \in {"enqueue", "begin"} -> 3
      [] step \in {"interval", "busy"} -> 2  [] Between(step) -> 1 [] step = "gone" -> 0

Beat == INSTANCE AgentThread WITH
    Thread <- {"heartbeat"},
    place  <- [t \in {"heartbeat"} |-> Place(hb)],
    left   <- [t \in {"heartbeat"} |-> Left(hb)]

Pool == INSTANCE AgentThread WITH
    Thread <- Worker,
    place  <- [w \in Worker |-> Place(pc[w])],
    left   <- [w \in Worker |-> Left(pc[w])]

AreAgentThreads == Beat!TSpec /\ Pool!TSpec

\* An action never sits in the queue for ever: a bad action does not cost a
\* worker, and no worker waits for another.
QueueServed ==
    \A a \in Action :
        (\E i \in DOMAIN queue : queue[i].id = a)
            ~> (shutdown \/ ~\E i \in DOMAIN queue : queue[i].id = a)

\* A refresh that fails, or whose announcement is lost, is made up for by a
\* later heartbeat: the agent gets the configuration it was to get.
ConfigCatchesUp ==
    \A v \in Version : version >= v ~> (config >= v \/ shutdown)

=============================================================================
