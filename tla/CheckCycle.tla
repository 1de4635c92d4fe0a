----------------------------- MODULE CheckCycle ------------------------------
(***************************************************************************)
(* check_thread.py: the cycles of the check thread.  A cycle snapshots the *)
(* hosts, checks them in a thread pool that looks at the shutdown event    *)
(* when it picks a host up, and submits one report of what was checked.    *)
(* Manual and NetBox hosts differ only in the function that checks them    *)
(* and are not told apart; a result is abstracted to its being there.      *)
(*                                                                         *)
(* The thread's pc:                                                        *)
(*    "gate"      in _wait_for_first_netbox_sync                           *)
(*    "top"       top of the loop          "interval"  reading its config  *)
(*    "pool"      in _run_parallel_checks  "wait"      in clock.wait_for   *)
(*    "submit"    the checks are listed    "gone"      ended               *)
(*    "await"     in submit_report_with_retry                              *)
(* The pool's task of a host: "none", "queued", "picked" (the event was    *)
(* clear), "running", "done", "raised" or "skipped".                       *)
(***************************************************************************)
EXTENDS Integers, FiniteSets

CONSTANTS
    Host,         \* hosts, by identity_key
    MaxParallel,  \* concurrency.max_parallel_checks
    MaxEdits      \* bound: the known hosts change this often

ASSUME HostsFinite == IsFiniteSet(Host)
ASSUME CycleBounds == MaxParallel \in Nat \ {0} /\ MaxEdits \in Nat

VARIABLES
    known,       \* hosts in ConfigState and NetBoxHostsState
    edits,       \* how many of MaxEdits have happened
    shutdown,    \* shutdown_event
    revoked,     \* the dashboard no longer accepts the agent's token
    pc,          \* place of the check thread
    first,       \* is_first_cycle
    kind,        \* report_type of the cycle
    entries,     \* to_check
    task,        \* host -> state of its task
    checks,      \* hosts in the report
    monitored,   \* StatsState: the hosts of the last recorded cycle
    opened,      \* history: some startup report has been settled
    lateBegun    \* history: hosts whose check began after shutdown was set

cycle   == <<kind, entries, checks>>
world   == <<known, edits, revoked>>
history == <<opened, lateBegun>>
vars    == <<world, shutdown, pc, first, cycle, task, monitored, history>>

TaskState == {"none", "queued", "picked", "running", "done", "raised", "skipped"}
Busy      == {"picked", "running"}
Over      == {"done", "raised", "skipped"}

TypeOK ==
    /\ {known, entries, checks, monitored, lateBegun} \subseteq SUBSET Host
    /\ edits \in 0 .. MaxEdits
    /\ {shutdown, revoked, first, opened} \subseteq BOOLEAN
    /\ pc \in {"gate", "top", "pool", "submit", "await", "interval", "wait", "gone"}
    /\ kind \in {"startup", "scheduled"}
    /\ task \in [Host -> TaskState]
    /\ \A h \in Host : task[h] # "none" => pc = "pool" /\ h \in entries

Init ==
    /\ known \in SUBSET Host
    /\ edits = 0
    /\ shutdown = FALSE /\ revoked = FALSE
    /\ pc = "gate"
    /\ first = TRUE
    /\ kind = "startup"
    /\ entries = {} /\ checks = {} /\ monitored = {}
    /\ task = [h \in Host |-> "none"]
    /\ opened = FALSE /\ lateBegun = {}

-----------------------------------------------------------------------------
(* CertCheckThread.run *)

\* The first NetBox sync is over, or thirty seconds are: the wait is not on the
\* shutdown event.
LeaveGate ==
    /\ pc = "gate"
    /\ pc' = "top"
    /\ UNCHANGED <<world, shutdown, first, cycle, task, monitored, history>>

\* Snapshots of both host lists; one task per host is queued.
BeginCycle ==
    /\ pc = "top" /\ ~shutdown
    /\ pc' = "pool"
    /\ kind' = IF first THEN "startup" ELSE "scheduled"
    /\ entries' = known
    /\ checks' = {}
    /\ task' = [h \in Host |-> IF h \in known THEN "queued" ELSE "none"]
    /\ lateBegun' = {}
    /\ UNCHANGED <<world, shutdown, first, monitored, opened>>

\* A configuration the cycle cannot read (a port that is no number, no worker
\* allowed): logged, the next cycle gets a fresh chance.
CycleRaises ==
    /\ pc = "top" /\ ~shutdown
    /\ pc' = "interval"
    /\ UNCHANGED <<world, shutdown, first, cycle, task, monitored, history>>

ReadInterval ==
    /\ pc = "interval"
    /\ pc' = "wait"
    /\ UNCHANGED <<world, shutdown, first, cycle, task, monitored, history>>

\* KeyError in _check_interval: the outer catch-all takes the agent down.
IntervalMissing ==
    /\ pc = "interval"
    /\ shutdown' = TRUE
    /\ pc' = "gone"
    /\ UNCHANGED <<world, first, cycle, task, monitored, history>>

NextCycle ==
    /\ pc = "wait" /\ ~shutdown
    /\ pc' = "top"
    /\ UNCHANGED <<world, shutdown, first, cycle, task, monitored, history>>

Stop ==
    /\ pc \in {"top", "wait"} /\ shutdown
    /\ pc' = "gone"
    /\ UNCHANGED <<world, shutdown, first, cycle, task, monitored, history>>

-----------------------------------------------------------------------------
(* _run_parallel_checks *)

InHand == {h \in Host : task[h] \in Busy}
InPool == Cardinality(InHand)

\* Mutant: the shutdown event is looked at when the task is queued, not when it
\* is picked up.
PickUpBlind(h) ==
    /\ task[h] = "queued" /\ InPool < MaxParallel
    /\ task' = [task EXCEPT ![h] = "picked"]
    /\ UNCHANGED <<world, shutdown, pc, first, cycle, monitored, history>>

\* A thread of the pool picks the next host up and looks at the event.
PickUp(h) ==
    /\ task[h] = "queued" /\ InPool < MaxParallel
    /\ task' = [task EXCEPT ![h] = IF shutdown THEN "skipped" ELSE "picked"]
    /\ UNCHANGED <<world, shutdown, pc, first, cycle, monitored, history>>

BeginCheck(h) ==
    /\ task[h] = "picked"
    /\ task' = [task EXCEPT ![h] = "running"]
    /\ lateBegun' = IF shutdown THEN lateBegun \cup {h} ELSE lateBegun
    /\ UNCHANGED <<world, shutdown, pc, first, cycle, monitored, opened>>

\* The check returns a result, whatever it says of the certificate.
EndCheck(h) ==
    /\ task[h] = "running"
    /\ task' = [task EXCEPT ![h] = "done"]
    /\ UNCHANGED <<world, shutdown, pc, first, cycle, monitored, history>>

\* The check raises (a name no handshake can carry, a bug): logged, no result.
CheckRaises(h) ==
    /\ task[h] = "running"
    /\ task' = [task EXCEPT ![h] = "raised"]
    /\ UNCHANGED <<world, shutdown, pc, first, cycle, monitored, history>>

\* Mutant: the loop over the futures ends at the first one without a result.
PoolDoneEarly ==
    /\ pc = "pool"
    /\ \/ \A h \in entries : task[h] \in Over
       \/ \E h \in entries : task[h] \in {"raised", "skipped"}
    /\ checks' = {h \in entries : task[h] = "done"}
    /\ task' = [h \in Host |-> "none"]
    /\ pc' = "submit"
    /\ UNCHANGED <<world, shutdown, first, kind, entries, monitored, history>>

\* Mutant: the pool is left without waiting for the threads that still check.
PoolDoneUnwaited ==
    /\ pc = "pool"
    /\ checks' = {h \in entries : task[h] = "done"}
    /\ task' = [h \in Host |-> IF task[h] \in Busy THEN task[h] ELSE "none"]
    /\ pc' = "submit"
    /\ UNCHANGED <<world, shutdown, first, kind, entries, monitored, history>>

\* All futures are done: the report lists the hosts that have a result.
PoolDone ==
    /\ pc = "pool"
    /\ \A h \in entries : task[h] \in Over
    /\ checks' = {h \in entries : task[h] = "done"}
    /\ task' = [h \in Host |-> "none"]
    /\ pc' = "submit"
    /\ UNCHANGED <<world, shutdown, first, kind, entries, monitored, history>>

-----------------------------------------------------------------------------
(* The submission; ReportDelivery looks inside *)

\* Mutant: no report is made once shutdown is signalled.
SubmitUnlessShutdown ==
    /\ pc = "submit"
    /\ pc' = IF shutdown THEN "interval" ELSE "await"
    /\ UNCHANGED <<world, shutdown, first, cycle, task, monitored, history>>

Submit ==
    /\ pc = "submit"
    /\ pc' = "await"
    /\ UNCHANGED <<world, shutdown, first, cycle, task, monitored, history>>

\* delivered, duplicate or rejected
Settled ==
    /\ pc = "await"
    /\ pc' = "interval"
    /\ monitored' = checks
    /\ first' = FALSE
    /\ opened' = (opened \/ kind = "startup")
    /\ UNCHANGED <<world, shutdown, cycle, task, lateBegun>>

\* Status "shutdown": recorded, but the next start is a startup still.
GivenUp ==
    /\ pc = "await" /\ shutdown
    /\ pc' = "interval"
    /\ monitored' = checks
    /\ UNCHANGED <<world, shutdown, first, cycle, task, history>>

\* Mutant: the flag is flipped in a finally clause.
SubmissionRaisesFlips ==
    /\ pc = "await"
    /\ pc' = "interval"
    /\ first' = FALSE
    /\ UNCHANGED <<world, shutdown, cycle, task, monitored, history>>

\* A full disk or a fatal answer: the cycle is not recorded.
SubmissionRaises ==
    /\ pc = "await"
    /\ pc' = "interval"
    /\ UNCHANGED <<world, shutdown, first, cycle, task, monitored, history>>

Unauthorized ==
    /\ pc = "await" /\ revoked
    /\ shutdown' = TRUE
    /\ pc' = "gone"
    /\ UNCHANGED <<world, first, cycle, task, monitored, history>>

-----------------------------------------------------------------------------
(* The environment *)

\* A configuration refresh or a NetBox sync changes the hosts.
HostsChange ==
    /\ edits < MaxEdits
    /\ edits' = edits + 1
    /\ known' \in SUBSET Host
    /\ UNCHANGED <<shutdown, revoked, pc, first, cycle, task, monitored,
                   history>>

SignalShutdown ==
    /\ ~shutdown
    /\ shutdown' = TRUE
    /\ UNCHANGED <<world, pc, first, cycle, task, monitored, history>>

Revoke ==
    /\ ~revoked
    /\ revoked' = TRUE
    /\ UNCHANGED <<known, edits, shutdown, pc, first, cycle, task,
                   monitored, history>>

-----------------------------------------------------------------------------

Pool(h) == PickUp(h) \/ BeginCheck(h) \/ EndCheck(h) \/ CheckRaises(h)

Submission == Settled \/ GivenUp \/ SubmissionRaises \/ Unauthorized

Thread ==
    \/ LeaveGate \/ BeginCycle \/ CycleRaises
    \/ PoolDone \/ Submit \/ Submission
    \/ ReadInterval \/ IntervalMissing \/ NextCycle \/ Stop

Next ==
    \/ Thread
    \/ \E h \in Host : Pool(h)
    \/ HostsChange \/ SignalShutdown \/ Revoke

Spec == Init /\ [][Next]_vars

\* The threads are scheduled and every check ends (it has a timeout).
FairSpec == Spec /\ WF_vars(Thread) /\ \A h \in Host : WF_vars(Pool(h))

-----------------------------------------------------------------------------
(* Properties *)

\* The report is made when no check of the cycle is under way any more, and a
\* host is missing from it only because its check raised or because shutdown
\* came before it was picked up, never because a result was lost on the way
\* (_run_parallel_checks and the loop at check_thread.py:363-371).
ReportComplete ==
    [][pc = "pool" /\ pc' = "submit" =>
          \A h \in entries \ checks' :
              task[h] = "raised" \/ (task[h] = "skipped" /\ shutdown)]_vars

\* After shutdown the pool only finishes what its threads had in hand: no more
\* checks begin than there are threads, however many hosts are queued.
DrainBounded == Cardinality(lateBegun) <= MaxParallel

\* A cycle is a startup cycle until one startup report is settled and a
\* scheduled one from then on, across raised, failed and interrupted cycles
\* (check_thread.py:173-179).
StartupFirst ==
    pc \in {"pool", "submit", "await"} => (kind = "startup" <=> ~opened)

\* The inductive form of the two: shutdown freezes what may still begin to what
\* the pool has picked up, and the flag and the report type change hands.
DrainInv ==
    /\ InPool <= MaxParallel
    /\ shutdown =>
          Cardinality(lateBegun \cup {h \in Host : task[h] = "picked"}) <= MaxParallel
    /\ ~shutdown => lateBegun = {}
    /\ \A h \in Host : task[h] = "skipped" => shutdown

FlagInv ==
    /\ opened = ~first
    /\ pc \in {"pool", "submit", "await"} => (kind = "startup" <=> first)

IInv == TypeOK /\ DrainInv /\ FlagInv /\ DrainBounded /\ StartupFirst

\* The check thread is one of the threads the runner relies on: it does not end
\* without the event being set, begins no cycle after that and winds the present
\* one down (steps of its pool are not steps of the thread; DrainBounded and the
\* checks' timeouts limit those).
Place == CASE pc \in {"gate", "top", "wait"} -> "out"
           [] pc = "gone"                    -> "ended"
           [] OTHER                          -> "round"

Left == CASE pc = "pool" -> 5 [] pc = "submit" -> 4 [] pc = "await" -> 3
          [] pc \in {"interval", "gate"} -> 2
          [] pc \in {"top", "wait"} -> 1 [] pc = "gone" -> 0

Checker == INSTANCE AgentThread WITH
    Thread <- {"checker"},
    place  <- [t \in {"checker"} |-> Place],
    left   <- [t \in {"checker"} |-> Left]

IsAgentThread == Checker!TSpec

\* A cycle that has begun makes its report, also when shutdown is signalled in
\* the middle of it: the partial results are submitted once.
CycleIsReported == pc = "pool" ~> pc = "await"

=============================================================================
