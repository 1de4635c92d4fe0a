----------------------------- MODULE NetBoxSync -----------------------------
(***************************************************************************)
(* netbox_sync.py: the scheduled NetBox sync thread and the sync_netbox    *)
(* actions of the worker pool run the same run_netbox_sync over one        *)
(* NetBoxHostsState.  A host list is abstracted to the version of the      *)
(* NetBox inventory it shows (an inventory of one page: pynetbox reads a   *)
(* larger one page by page); NetBox and the dashboard are external.        *)
(*                                                                         *)
(* A thread's pc:                                                          *)
(*    "idle"     the scheduler on top of its loop, a worker without a sync *)
(*    "fetch"    synced_at taken, netbox_client.fetch_hosts called         *)
(*    "fetched"  NetBox has read its inventory, the list is on its way     *)
(*    "top"      local state replaced; top of _submit_with_retry's loop    *)
(*    "await"    submit_discovered_hosts is under way                      *)
(*    "backoff"  in clock.wait_for(delay, shutdown_event)                  *)
(*    "record"   the dashboard has accepted the list                       *)
(*    "signal"   (scheduler) an attempt is over, whatever came of it       *)
(*    "interval" (scheduler) waiting for the next scheduled sync           *)
(*    "gone"     the thread has ended                                      *)
(***************************************************************************)
EXTENDS Integers, FiniteSets

CONSTANTS
    Scheduler,     \* the NetBoxSyncThread
    Worker,        \* the action workers that may run sync_netbox
    MaxInventory,  \* bound: NetBox changes its inventory this often
    MaxTime        \* bound: the clock stops here

ASSUME SchedulerAssumption == Scheduler \notin Worker
ASSUME NetBoxBounds == MaxInventory \in Nat /\ MaxTime \in Nat

VARIABLES
    inventory,  \* NetBox: its current version
    changedAt,  \* NetBox: version -> when it came about
    served,     \* NetBox: the versions it has returned
    hosts,      \* NetBoxHostsState._hosts
    pc,         \* thread -> place in the code
    got,        \* thread -> the list of its current sync
    stamp,      \* thread -> synced_at of its current sync
    lastSync,   \* StatsState._last_netbox_sync_at
    firstDone,  \* first_netbox_sync_done_event
    shutdown,   \* shutdown_event
    revoked,    \* the dashboard no longer accepts the agent's token
    view,       \* the dashboard's discovered-hosts table
    late,       \* lists in requests given up by the client, still under way
    overlap,    \* history: two syncs have been under way at once
    now

netbox    == <<inventory, changedAt, served>>
local     == <<hosts, lastSync, firstDone, shutdown>>
threads   == <<pc, got, stamp, overlap>>
dashboard == <<revoked, view, late>>
vars      == <<netbox, local, threads, dashboard, now>>

Client == INSTANCE DashboardClient

Thread  == {Scheduler} \cup Worker
Nothing == -1                      \* no list, no time stamp
Version == 0 .. MaxInventory
Time    == 0 .. MaxTime

Init ==
    /\ inventory = 0
    /\ changedAt = [v \in Version |-> 0]
    /\ served = {}
    /\ hosts = Nothing
    /\ pc = [t \in Thread |-> "idle"]
    /\ got = [t \in Thread |-> Nothing]
    /\ stamp = [t \in Thread |-> Nothing]
    /\ lastSync = Nothing
    /\ firstDone = FALSE
    /\ shutdown = FALSE
    /\ revoked = FALSE
    /\ view = Nothing
    /\ late = {}
    /\ overlap = FALSE
    /\ now = 0

TypeOK ==
    /\ inventory \in Version
    /\ changedAt \in [Version -> Time]
    /\ served \in SUBSET Version
    /\ hosts \in Version \cup {Nothing}
    /\ pc \in [Thread -> {"idle", "fetch", "fetched", "top", "await", "backoff",
                          "record", "signal", "interval", "gone"}]
    /\ got \in [Thread -> Version \cup {Nothing}]
    /\ stamp \in [Thread -> Time \cup {Nothing}]
    /\ lastSync \in Time \cup {Nothing}
    /\ firstDone \in BOOLEAN
    /\ shutdown \in BOOLEAN
    /\ revoked \in BOOLEAN
    /\ view \in Version \cup {Nothing}
    /\ late \in SUBSET Version
    /\ overlap \in BOOLEAN
    /\ now \in Time
    /\ \A t \in Thread :
          pc[t] \in {"fetched", "top", "await", "backoff", "record"} =>
              got[t] # Nothing /\ stamp[t] # Nothing

Goto(t, step) == pc' = [pc EXCEPT ![t] = step]

UnderWay(t) == pc[t] \in {"fetch", "fetched", "top", "await", "backoff", "record"}

\* run_netbox_sync returns, with whatever status, to its caller.
Return(t) ==
    /\ Goto(t, IF t = Scheduler THEN "signal" ELSE "idle")
    /\ stamp' = [stamp EXCEPT ![t] = Nothing]

-----------------------------------------------------------------------------
(* run_netbox_sync *)

\* The scheduler on top of its loop, or a worker that dispatches sync_netbox.
BeginSync(t) ==
    /\ pc[t] = "idle" /\ ~shutdown
    /\ stamp' = [stamp EXCEPT ![t] = now]
    /\ got' = [got EXCEPT ![t] = Nothing]
    /\ overlap' = (overlap \/ \E u \in Thread : UnderWay(u))
    /\ Goto(t, "fetch")
    /\ UNCHANGED <<netbox, local, dashboard, now>>

\* Mutant: the gate is opened as soon as NetBox answers.
NetBoxReadsSignals(t) ==
    /\ pc[t] = "fetch"
    /\ got' = [got EXCEPT ![t] = inventory]
    /\ served' = served \cup {inventory}
    /\ firstDone' = TRUE
    /\ Goto(t, "fetched")
    /\ UNCHANGED <<inventory, changedAt, hosts, lastSync, shutdown, stamp,
                   overlap, dashboard, now>>

\* NetBox reads its inventory for this request.
NetBoxReads(t) ==
    /\ pc[t] = "fetch"
    /\ got' = [got EXCEPT ![t] = inventory]
    /\ served' = served \cup {inventory}
    /\ Goto(t, "fetched")
    /\ UNCHANGED <<inventory, changedAt, local, stamp, overlap, dashboard, now>>

\* Mutant: a NetBox error is handled as an empty answer.
FetchFailsEmpty(t) ==
    /\ pc[t] \in {"fetch", "fetched"}
    /\ got' = [got EXCEPT ![t] = Nothing]
    /\ hosts' = Nothing
    /\ Goto(t, "top")
    /\ UNCHANGED <<netbox, lastSync, firstDone, shutdown, stamp, overlap,
                   dashboard, now>>

\* NetBoxSyncError: the local state is kept, nothing is submitted.
FetchFails(t) ==
    /\ pc[t] \in {"fetch", "fetched"}
    /\ got' = [got EXCEPT ![t] = Nothing]
    /\ Return(t)
    /\ UNCHANGED <<netbox, local, overlap, dashboard, now>>

\* Mutant: the sync leaves the agent's own view alone and only tells the dashboard.
ReplaceForgotten(t) ==
    /\ pc[t] = "fetched"
    /\ Goto(t, "top")
    /\ UNCHANGED <<netbox, local, got, stamp, overlap, dashboard, now>>

\* Mutant: synced_at is taken once the list is there.
ReplaceRestamps(t) ==
    /\ pc[t] = "fetched"
    /\ hosts' = got[t]
    /\ stamp' = [stamp EXCEPT ![t] = now]
    /\ Goto(t, "top")
    /\ UNCHANGED <<netbox, lastSync, firstDone, shutdown, got, overlap,
                   dashboard, now>>

\* fetch_hosts has returned: netbox_hosts_state.replace, before any submission.
Replace(t) ==
    /\ pc[t] = "fetched"
    /\ hosts' = got[t]
    /\ Goto(t, "top")
    /\ UNCHANGED <<netbox, lastSync, firstDone, shutdown, got, stamp, overlap,
                   dashboard, now>>

-----------------------------------------------------------------------------
(* _submit_with_retry *)

Submit(t) ==
    /\ pc[t] = "top" /\ ~shutdown
    /\ Goto(t, "await")
    /\ UNCHANGED <<netbox, local, got, stamp, overlap, dashboard, now>>

Accepted(t) ==
    /\ pc[t] = "await" /\ ~revoked
    /\ view' = got[t]
    /\ Goto(t, "record")
    /\ UNCHANGED <<netbox, local, got, stamp, overlap, revoked, late, now>>

\* DashboardError, 401 and the retriable classes apart: "submission_error".  The
\* list is installed all the same when only the answer's body is not JSON.
Refused(t) ==
    /\ pc[t] = "await" /\ ~revoked
    /\ \E w \in Client!Wire :
          /\ Client!Request(w) \notin Client!Retriable \cup {"value", "Auth"}
          /\ \/ view' = view
             \/ w = "2xx_text" /\ view' = got[t]
    /\ Return(t)
    /\ UNCHANGED <<netbox, local, got, overlap, revoked, late, now>>

\* DashboardRetriableError: the request may still be under way.
Retriable(t) ==
    /\ pc[t] = "await"
    /\ \E w \in Client!Wire :
          /\ Client!Request(w) \in Client!Retriable
          /\ \/ late' = late
             \/ w # "429" /\ ~revoked /\ late' = late \cup {got[t]}
    /\ Goto(t, "backoff")
    /\ UNCHANGED <<netbox, local, got, stamp, overlap, revoked, view, now>>

\* Mutant: the finally clause that releases the check thread is missing.
UnauthorizedNoFinally(t) ==
    /\ pc[t] = "await" /\ revoked
    /\ shutdown' = TRUE
    /\ Goto(t, "gone")
    /\ UNCHANGED <<netbox, hosts, lastSync, firstDone, got, stamp, overlap,
                   dashboard, now>>

\* 401 is raised through run_netbox_sync: its thread signals shutdown and ends,
\* the scheduler through the finally clause that sets the first-sync event.
Unauthorized(t) ==
    /\ pc[t] = "await" /\ revoked
    /\ shutdown' = TRUE
    /\ firstDone' = (firstDone \/ t = Scheduler)
    /\ Goto(t, "gone")
    /\ UNCHANGED <<netbox, hosts, lastSync, got, stamp, overlap, dashboard, now>>

\* Mutant: the backoff is a plain sleep.
BackoffOverDeaf(t) ==
    /\ pc[t] = "backoff"
    /\ Goto(t, "await")
    /\ UNCHANGED <<netbox, local, got, stamp, overlap, dashboard, now>>

BackoffOver(t) ==
    /\ pc[t] = "backoff" /\ ~shutdown
    /\ Goto(t, "top")
    /\ UNCHANGED <<netbox, local, got, stamp, overlap, dashboard, now>>

\* Shutdown on top of the loop or during the wait: status "shutdown".
GiveUp(t) ==
    /\ pc[t] \in {"top", "backoff"} /\ shutdown
    /\ Return(t)
    /\ UNCHANGED <<netbox, local, got, overlap, dashboard, now>>

\* stats_state.record_netbox_sync(completed_at=synced_at)
Record(t) ==
    /\ pc[t] = "record"
    /\ lastSync' = stamp[t]
    /\ Return(t)
    /\ UNCHANGED <<netbox, hosts, firstDone, shutdown, got, overlap, dashboard,
                   now>>

-----------------------------------------------------------------------------
(* NetBoxSyncThread.run *)

\* After the first attempt, failed or not, the check thread may begin.
Signal ==
    /\ pc[Scheduler] = "signal"
    /\ firstDone' = TRUE
    /\ Goto(Scheduler, "interval")
    /\ UNCHANGED <<netbox, hosts, lastSync, shutdown, got, stamp, overlap,
                   dashboard, now>>

IntervalOver ==
    /\ pc[Scheduler] = "interval" /\ ~shutdown
    /\ Goto(Scheduler, "idle")
    /\ UNCHANGED <<netbox, local, got, stamp, overlap, dashboard, now>>

\* The loop condition or the interval's wait finds the event set.
SchedulerStops ==
    /\ pc[Scheduler] \in {"idle", "interval"} /\ shutdown
    /\ firstDone' = TRUE
    /\ Goto(Scheduler, "gone")
    /\ UNCHANGED <<netbox, hosts, lastSync, shutdown, got, stamp, overlap,
                   dashboard, now>>

\* _sync_interval raises on a configuration without the interval: the thread
\* ends and takes the agent down.
ConfigBroken ==
    /\ pc[Scheduler] = "interval"
    /\ shutdown' = TRUE
    /\ Goto(Scheduler, "gone")
    /\ UNCHANGED <<netbox, hosts, lastSync, firstDone, got, stamp, overlap,
                   dashboard, now>>

-----------------------------------------------------------------------------
(* The environment *)

NetBoxChanges ==
    /\ inventory < MaxInventory
    /\ inventory' = inventory + 1
    /\ changedAt' = [changedAt EXCEPT ![inventory + 1] = now]
    /\ UNCHANGED <<served, local, threads, dashboard, now>>

\* The dashboard processes a request whose client stopped waiting, or loses it.
LateRequest ==
    \E v \in late :
        /\ late' = late \ {v}
        /\ view' \in {view, v}
        /\ UNCHANGED <<netbox, local, threads, revoked, now>>

Revoke ==
    /\ ~revoked
    /\ revoked' = TRUE
    /\ late' = {}
    /\ UNCHANGED <<netbox, local, threads, view, now>>

SignalShutdown ==
    /\ ~shutdown
    /\ shutdown' = TRUE
    /\ UNCHANGED <<netbox, hosts, lastSync, firstDone, threads, dashboard, now>>

Tick ==
    /\ now < MaxTime
    /\ now' = now + 1
    /\ UNCHANGED <<netbox, local, threads, dashboard>>

-----------------------------------------------------------------------------

Verdict(t) == Accepted(t) \/ Refused(t) \/ Unauthorized(t)

\* The steps of run_netbox_sync.
Progress(t) ==
    \/ NetBoxReads(t) \/ FetchFails(t) \/ Replace(t)
    \/ Submit(t) \/ Verdict(t) \/ Retriable(t)
    \/ BackoffOver(t) \/ GiveUp(t) \/ Record(t)

SchedulerLoop == Signal \/ IntervalOver \/ SchedulerStops \/ ConfigBroken

Environment == NetBoxChanges \/ LateRequest \/ Revoke \/ SignalShutdown \/ Tick

Next ==
    \/ \E t \in Thread : BeginSync(t) \/ Progress(t)
    \/ SchedulerLoop
    \/ Environment

Spec == Init /\ [][Next]_vars

\* What follows the fetch: local steps, and calls to the dashboard, which the HTTP
\* client bounds in time.
AfterFetch(t) ==
    \/ Submit(t) \/ Verdict(t) \/ Retriable(t)
    \/ BackoffOver(t) \/ GiveUp(t) \/ Record(t)

\* Threads are scheduled.  The fetch itself carries no fairness: the timeout that
\* netbox_client.py:131 sets is an attribute of the session which requests does not
\* read, so that a NetBox that accepts the connection and falls silent holds the
\* thread for ever, and shutdown is not looked at meanwhile.
FairSpec ==
    /\ Spec
    /\ \A t \in Thread : WF_vars(AfterFetch(t))
    /\ WF_vars(SchedulerLoop) /\ WF_vars(BeginSync(Scheduler))

\* The two assumptions on the remote parties, each made by the properties that name
\* it only: NetBox answers the fetches of t or fails them, and the dashboard's
\* outages end.
NetBoxAnswers(t) == []<>(pc[t] \notin {"fetch", "fetched"})
OutagesEnd       == \A t \in Thread : SF_vars(Verdict(t))

-----------------------------------------------------------------------------
(* Properties *)

\* The safety contract of run_netbox_sync (netbox_sync.py:121-125): what the
\* agent checks and what the dashboard is told is always a list NetBox has
\* returned; a NetBox failure neither empties the local state nor is submitted.
OnlyServedLists ==
    /\ hosts \in served \cup {Nothing}
    /\ view \in served \cup {Nothing}
    /\ late \subseteq served
    /\ hosts = Nothing => view = Nothing

\* synced_at is a safe lower bound: a list carries every inventory change made
\* before its synced_at, so nothing changed earlier is missing from it
\* (netbox_sync.py:115 takes the stamp before the fetch).
StampBeforeRead ==
    \A t \in Thread : pc[t] \in {"top", "await", "backoff", "record"} =>
        \A v \in got[t] + 1 .. inventory : changedAt[v] >= stamp[t]

\* A list, wherever it is, is one that NetBox has returned and as new as its stamp
\* says.
ListsAreSound == OnlyServedLists /\ StampBeforeRead

\* The inductive form: what is on its way in a thread is a list NetBox
\* has returned, read no earlier than its stamp, and local before it is submitted.
SyncInv ==
    /\ served \subseteq 0 .. inventory
    /\ \A v \in Version : changedAt[v] <= now
    /\ hosts = Nothing => late = {}
    /\ \A t \in Thread :
          /\ pc[t] = "fetch" => stamp[t] # Nothing
          /\ stamp[t] <= now
          /\ pc[t] \in {"fetched", "top", "await", "backoff", "record"} =>
                /\ got[t] \in served
                /\ \A v \in got[t] + 1 .. inventory : changedAt[v] >= stamp[t]
          /\ pc[t] # "fetched" /\ got[t] # Nothing => hosts # Nothing

\* A sync that has never met another one carries a list no older than the local
\* one, and once that is replaced, it is the local one.
AloneInv ==
    ~overlap =>
        /\ hosts <= inventory
        /\ \A t \in Thread :
              /\ \A u \in Thread : UnderWay(t) /\ UnderWay(u) => t = u
              /\ pc[t] = "fetched" => got[t] >= hosts
              /\ pc[t] \in {"top", "await", "backoff"} => got[t] = hosts

IInv == TypeOK /\ SyncInv /\ AloneInv /\ OnlyServedLists /\ StampBeforeRead

\* The gate opens when the scheduler's first attempt is over, and if NetBox
\* answered it, its hosts are in the agent's view by then: a check thread that the
\* gate releases does not miss them.  (One that has waited 30 s goes without.)
GateAfterAttempt ==
    [][firstDone' /\ ~firstDone =>
          /\ pc'[Scheduler] \in {"interval", "gone"}
          /\ got'[Scheduler] # Nothing => hosts' # Nothing]_vars

\* Whatever the first attempt meets (a NetBox error, 401, shutdown), the check
\* thread is released, provided NetBox answers the scheduler at all and the
\* dashboard's outages end.
GateOpens == NetBoxAnswers(Scheduler) /\ OutagesEnd => <>firstDone

\* Every sync lets go on shutdown, also with the dashboard out for good, unless
\* NetBox leaves its own fetch without an answer: a sync another thread hangs in
\* holds nobody up.
ShutdownQuiets ==
    /\ NetBoxAnswers(Scheduler) => (shutdown ~> pc[Scheduler] = "gone")
    /\ \A t \in Worker : NetBoxAnswers(t) => (shutdown ~> pc[t] \in {"idle", "gone"})

\* The threads that sync are threads the runner can rely on: NetBox trouble, a 401
\* and a broken configuration end none of them without the event being set, and
\* after it no sync begins and the ones under way go straight to their end.
Place(t) == IF pc[t] = "gone" THEN "ended" ELSE IF pc[t] \in {"idle", "interval"}
            THEN "out" ELSE "round"

Left(t) == CASE pc[t] = "fetch" -> 5 [] pc[t] \in {"fetched", "await"} -> 4
             [] pc[t] \in {"top", "backoff", "record"} -> 3
             [] pc[t] = "signal" -> 2
             [] pc[t] \in {"idle", "interval"} -> 1 [] pc[t] = "gone" -> 0

Syncing == INSTANCE AgentThread WITH
    place <- [t \in Thread |-> Place(t)],
    left  <- [t \in Thread |-> Left(t)]

AreAgentThreads == Syncing!TSpec

\* As long as no two syncs have overlapped, the agent's own view only gets newer,
\* whatever fails, and the dashboard's converges with it on the next successful
\* submission (netbox_sync.py:104-106).  Two overlapping syncs have no common lock
\* around fetch and replace, and the older of their lists may be installed last.
AloneInOrder ==
    [][~overlap =>
          /\ hosts' >= hosts
          /\ \A t \in Thread : Accepted(t) => view' = hosts]_vars

=============================================================================
