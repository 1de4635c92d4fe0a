# certwatch-agent: a verification development

certwatch-agent is a long-running Python process that checks the TLS
certificates of a set of hosts and reports them to a dashboard.  It registers
itself, keeps its identity and its unsent reports on disk, receives work in
heartbeat responses and reads further hosts from NetBox.  This directory holds
TLA+ models of its concurrent and failure-prone parts, the TLC configurations
that check them and TLAPS proofs of their safety properties.

All paths are relative to `src/certwatch/` unless they begin with `src/`.

## 1. Inventory

| Component | State it keeps | Operations | Talks to |
|---|---|---|---|
| Report submission, `report_submission.py` | none of its own; one retry loop per report | submit with retry, replay at start | pending store, dashboard, shutdown event |
| Pending store, `pending_reports.py` | `/data/pending_reports/*.json`, `.tmp`, `corrupt/` | save, increment attempts, delete, list, quarantine, clean up | file system |
| NetBox sync, `netbox_sync.py` | `NetBoxHostsState`, first-sync event | `run_netbox_sync` (scheduled and as an action), submission retry | NetBox, dashboard, check thread |
| Runner, `runner.py` | shutdown event, auth event, exit code | bootstrap, replay, start threads, signal handler, join, decide the code | every thread |
| Heartbeat, `heartbeat_thread.py` | `ConfigState`, `StatsState` | heartbeat, refresh the configuration, enqueue actions | dashboard, queue |
| Action pool, `action_workers.py` | FIFO queue, one action per worker | take, re-check, dispatch, handle | queue, handlers |
| Check thread, `check_thread.py` | first-cycle flag, one cycle's results | gate, cycle over a thread pool, submit, wait | both host states, report submission |
| Bootstrap, `bootstrap.py` | identity in memory | load or register, first configuration | dashboard, `agent_state.py` |
| Credentials, `agent_state.py` | `/data/agent.json` | atomic save, load | file system |
| Dashboard client, `dashboard_client.py` | an HTTP session | register, heartbeat, get_config, submit; each answer becomes a result or one of four exceptions | dashboard |
| NetBox client, `netbox_client.py` | an HTTP session | fetch all hosts (paged by pynetbox), skip unusable devices, choose the address | NetBox |
| Check with discovery, `cert_check_with_discovery.py`, `ca_category.py` | results of up to three handshakes | discover the names, verify the name, verify the chain, decide the status | hosts |
| Check and payload, `cert_check.py`, `check_payload.py` | result of up to two handshakes | verify, recover the certificate, build the report's entry | hosts |
| Command line, `__main__.py`, `check_loop.py`, `config.py` | none | run, dry run, one-shot diagnostics | |
| Clock, logging | none | sleep, wait on an event, now | |

The threads share five things: the shutdown event, the auth-error event, the first-sync event, the action queue, and the two locked holders `ConfigState` and
`NetBoxHostsState`.  Everything else crosses by a call.  Hard to test are: the
instants between a file write, a send and a delete; answers that are lost; two
syncs at once; the order of the two events against the joins; a configuration
read before and used after a refresh; a shutdown in the middle of a cycle; a
registration token that buys one identity only.  `PROJECT.json` lists each of
them at its line, with the properties that are about it.

What makes each component correct:

- **Report delivery**: no report is lost; it is on disk, and the attempt is
  counted, before it is sent; one owner at a time; foreign reports are left
  alone; shutdown ends waiting but not the one owed attempt.
- **NetBox sync**: a NetBox failure changes nothing; a list is at least as new as
  its stamp; views do not go back; the first cycle waits for the first attempt,
  and for ever only if NetBox never answers it (the check thread gives up after 30 s).
- **Runner**: the process ends after shutdown; the exit code tells revocation
  from a clean stop; no part dies alone.
- **Actions**: an action sees the configuration it was queued with; stale or late
  work is not begun; no action is stuck; the configuration catches up.
- **Check cycle**: a report contains every host but the excused ones; `startup`
  exactly until one is settled; few checks begin after shutdown.
- **Bootstrap**: one identity per token, saved before use; never re-register over
  a damaged file; come up without the dashboard.
- **Dashboard client**: an outage is met with a retriable exception, so that no caller
  takes it for final.
- **Certificate checks**: healthy is earned; status and days agree; issuer and name
  verdicts are those of the certificate, as far as they can be had; network trouble is an entry, never an
  exception.

## 2. Modules

| Module | What it models | Used by |
|---|---|---|
| `ReportPromise` | abstract specification: at-least-once delivery | refined by `ReportDelivery` |
| `AgentThread` | abstract specification: what the runner relies on from a thread | refined by `AgentRunner`, `NetBoxSync`, `ActionQueue`, `CheckCycle`; `AgentThreadProofs` |
| `ReportDelivery` | submission, retry loop, replay, file operations, crash | `MCReportDelivery`, `ReportDeliveryProofs` |
| `DashboardClient` | from what comes over the wire to a result or an exception | `Bootstrap` (EXTENDS), `NetBoxSync` (INSTANCE) |
| `NetBoxSync` | scheduled and requested syncs, gate event | `NetBoxSyncProofs` |
| `AgentRunner` | life of the process, events, joins, exit code | `AgentRunnerProofs` |
| `ActionQueue` | heartbeat, configuration, queue, workers | `MCActionQueue`, `ActionQueueProofs` |
| `CheckCycle` | cycles of the check thread and its pool | `CheckCycleProofs` |
| `Bootstrap` | registration, credentials file, first configuration | `BootstrapProofs` |
| `HostCheck` | both ways of checking one host, and the report's entry | `MCHostCheck`, `HostCheckProofs` |

How state and actions correspond to the code:

- A thread is a `pc` value; the head comment of each module says which place in
  the code each value is.  A step of a model is the code between two points where
  another thread, a crash or a remote party can be seen: a remote call is at least
  two steps (the request leaves, the answer is handled), an atomic file write is
  two (tmp written, rename), a wait is one state with two exits (time, event).
- `Event.set`, `queue.put`, `queue.get` and the locked `replace` and `snapshot`
  are atomic, as the standard library makes them.
- `ReportDelivery` lets the shutdown event be set during the replay, as its interface
  allows and its code handles; the runner installs its signal handlers later, so in the
  deployed agent only the owner of `AgentRunner.shutdown_event` can do that.
- The dashboard is its answers, by the classes the code's `except` clauses tell
  apart.  `DashboardClient` maps an HTTP status, a body that is not JSON and each
  transport failure to that class, as `_request` and `_handle_response` do; in
  `ReportDelivery` and `ActionQueue` the classes are actions.  A request whose client timed out may be processed later or not at all
  (`late`, `LateRequest`).
- `report_submission.py` reads the attempt counter back from the file; the model
  keeps it per file.  `newer` is the order of modification times, which
  `increment_attempts` changes and the replay sorts by.
- `AgentRunner` sees a round of a thread only by how it ends; the other modules
  look into the rounds.  `ActionQueue` sees a handler only by the configuration it
  reads and how it ends; what a `sync_netbox` handler does is in `NetBoxSync`
  (`Worker`), what a `check_host` handler submits in `ReportDelivery`
  (`Submitter`).
- `HostCheck` is the inside of one check, which `CheckCycle` sees as a result or an
  exception.  A step is a handshake; between two of them the server may present
  another certificate, the network may fail and a day may begin.  A certificate is a
  record of what the code looks at.  What OpenSSL verifies is external (the order is
  path, name, dates), modelled from how the code reads `verify_code`.
- `AgentThread` ties the modules together: a thread begins a round only while
  shutdown is not set, ends only with the event set behind it, and has a number of
  steps left after that.  `AgentRunner` treats every thread as one, and the modules
  that look into the rounds show that theirs are (`AreAgentThreads`,
  `IsAgentThread`), each with its own map from a place in the code to "out",
  "round" or "ended" and its own count of the steps left.  An action worker is one in
  `ActionQueue`; in `NetBoxSync` a `Worker` is the part of one that runs a sync.
- Configurations are version numbers: 0 is `DEFAULT_CONFIG`, a version in
  `Malformed` lacks a key some thread reads.  Host lists are inventory versions.

Variables marked *history* in the modules (`sends`, `foreign`, `overlap`, `cause`,
`signalled`, `timedOut`, `opened`, `lateBegun`, `need`, a task's `takenAt` and
`late`, `begun`, `ended`, `presented`, `missed`) exist for the properties.  No action of the code is guarded by one.

In the modules, an operator introduced by a comment `Mutant:` is not part of the
specification: it is a deliberately wrong form of the action after it, and serves
to show that a property notices the mistake.

## 3. Runs

`tlc -workers 2 -config <run>.cfg <module>`; the sizes are those of the complete
state graphs.

| Run | Module | Instance | States | Shows |
|---|---|---|---|---|
| `report_safety` | `MCReportDelivery` | 2 reports, 2 submitters, 2 faults, clock 0..1, counters to 2 | 290k | `IInv`, `NoReportLost`, `PersistedAndCountedFirst`, `SoleOwner`, `SkewWindow`, `ReplayKeepsOrder`, refinement of `ReportPromise` |
| `report_liveness` | `MCReportDelivery` | 2 reports, 1 submitter, 2 faults | 18k | `ShutdownEnds`, `OwedAttempt`, `RestartDrains`, `NeverGivesUp` |
| `netbox_sync` | `NetBoxSync` | scheduler, 1 worker, 1 inventory change, clock 0..1 | 340k | `ListsAreSound`, `GateAfterAttempt`, `AloneInOrder`, `GateOpens`, `ShutdownQuiets`, refinement of `AgentThread` |
| `runner` | `AgentRunner` | 3 loops, 1 worker | 73k | `ExitCodeRight`, `ShutdownDecides`, `AgentStops`, refinement of `AgentThread` |
| `action_safety` | `MCActionQueue` | 2 actions, 2 workers, versions to 2, clock 0..1 | 1.8M | `ActionsSeeTheirConfig`, `StaleWorkNotRun` |
| `action_liveness` | `MCActionQueue` | 2 actions (1 unknown), 1 worker, version 2 malformed | 97k | `QueueServed`, `ConfigCatchesUp` |
| `check_cycle` | `CheckCycle` | 3 hosts, pool of 2, 1 change of hosts | 250k | `ReportComplete`, `CycleIsReported`, `DrainBounded`, `StartupFirst` |
| `bootstrap` | `Bootstrap` | 3 tokens, 3 faults | 5.6k | `IdentityKept`, `ComesUp` |
| `host_check` | `MCHostCheck` | 13 certificates, 5 manual hosts, 5 devices, days 0..3, threshold 1 | 50k | `HealthIsEarned`, `DaysAgree`, `ReportTellsTheTruth`, `OutageNeverRaises` |
| `report_orphan_finding` | `MCReportDelivery` | dashboard's clock one second ahead | | counterexample, section 5 |
| `runner_exit_finding` | `AgentRunner` | without NetBox | | counterexample |
| `host_match_finding` | `MCHostCheck` | as `host_check` | | counterexample |

`IInv` is the inductive invariant of section 4; it includes the type invariant, and is
checked in every safety run but `bootstrap`, where `IdentityKept` is most of it.
`ListsAreSound`, `ExitCodeRight`, `SkewWindow` and `ReportTellsTheTruth` are conjunctions
of named parts, each with a theorem of its own in section 4.

**Bounds.**  `MaxTime`, `MaxCount`, `MaxInventory`, `MaxVersion`, `MaxDeliveries`,
`MaxEdits` and `MaxTokens` only make the state space finite: clocks stop, counters
saturate, operators stop editing.  Two reports are enough for every relation the
delivery has between reports (order in the list, one in hand and one waiting), two
submitters for every conflict over one file and for a crash that hits two places
at once.  A clock of two values is enough for "before", "same second" and "after".
Three hosts over a pool of two leave one queued while two are in hand.
`MCHostCheck` has a certificate of each kind the code tells apart: public, private
with and without a known issuer, self-signed, not yet valid, expiring, wildcard, with
an address first, with an IP literal as a dNSName or as the common name, without any
name, with a name no handshake can carry, and two
the x509 parser rejects.  Four days with a threshold of one give a check on either side of every date,
and one across it; a check is taken to last less than a day.
`MaxFaults` budgets crashes, full disks, damage, fatal answers and revocations in
`ReportDelivery` and `Bootstrap`; two of them give a crash during the recovery
from a crash, three in `Bootstrap` also a damaged file after that; in
`ReportDelivery` shutdown signals draw on the same budget.  Lost answers and outages
are not budgeted, and no other module budgets shutdown.  The liveness instances are smaller
than the safety ones; two actions of which one has no handler, and a configuration
that lacks a key, are what the queue and the refresh can trip over.
`CHECK_DEADLOCK FALSE` is set where the program does come to its end.

**Fairness.**  The operating system schedules every thread, and a call to the dashboard
or a TLS handshake ends, because the HTTP client and the checks have timeouts: weak
fairness of the steps of each thread.  A NetBox fetch has no timeout (section 5), so
`NetBoxSync` gives it no fairness: what needs an answer from NetBox says so
(`NetBoxAnswers`, an antecedent of `GateOpens` and, for the thread's own fetch only, of
`ShutdownQuiets`).  A supervisor restarts the process
(`ReportDelivery`'s `Start`).  Nothing is assumed of `BeginSync` by a worker, of
operators, of revocation, of signals or of crashes.  What a remote party answers is
not assumed either, except where a property names it: `OutagesEnd` (strong fairness
of the dashboard's verdicts) is the antecedent of `RestartDrains`, `NeverGivesUp`
and `GateOpens`, and `RecoveringSpec` of `ActionQueue` carries the same assumption,
since all workers may otherwise sit in retry loops with no end, and that of NetBox's
answers, since a `sync_netbox` handler may otherwise hang in its fetch.  `ShutdownEnds`,
`OwedAttempt`, `ShutdownQuiets` and `ComesUp` hold with the dashboard out for good.
In `runner`, `HangingSpec` lets the rounds hang for ever, and `ShutdownDecides` holds
all the same; `AgentStops`, which says that the process is gone in the end and that a
revocation gets it there, assumes `RoundsEnd`, which of the NetBox thread is again an
assumption on NetBox.  `HostCheck` has no liveness: each
check is a bounded sequence of handshakes with timeouts.

## 4. Proofs

Each proof module extends the module it is about and proves, for every value of the
constants, `Spec => []IInv` (theorem `Invariance`) and from it the properties:
`tlapm <module>Proofs.tla`.

| Proof module | Theorems besides `Invariance` and `TypeCorrectness` |
|---|---|
| `ReportDeliveryProofs` | `NothingLost`, `DiskBeforeWire`, `OneOwner`, `SkewIsBounded` (from `StampsAreTold`, `OrphansAreOld`, `ForeignStaysHome`); action properties `OrphansLeftAlone`, `ListStaysGood`, `RetriesEnd`; `KeepsPromise` (refinement of `ReportPromise`) |
| `NetBoxSyncProofs` | `ListsStaySound` (`NothingInvented`, `StampIsSafe`), `GateIsBehindTheAttempt` and `AloneSyncsKeepOrder` (action properties), `RunnerCanRely` (refinement of `AgentThread`) |
| `AgentRunnerProofs` | `ExitCodeIsRight` (`RevocationIsTold`, `CodeIsTold`, `NothingAfterTheCode`), `NobodyDiesAlone`, `RunnerCanRely` |
| `ActionQueueProofs` | `RefreshComesFirst`, `StaleWorkIsSkipped`, `HandledOnce`, `NeverPutBack` (action property), `RunnerCanRely` |
| `CheckCycleProofs` | `DrainIsBounded`, `StartupComesFirst`, `ReportIsComplete` (action property), `RunnerCanRely` |
| `AgentThreadProofs` | `NeverHeadless`, `NoWayBack` (of the abstract specification) |
| `BootstrapProofs` | `IdentityIsKept`, `FileIsTheOperators` (action property) |
| `HostCheckProofs` | `HealthEarned`, `DaysNeverFarApart`, `ReportIsTrue` (`VerdictsAreTrue`, `MismatchIsAnOutage`), `OutageIsReported` |

The assumptions are those the modules declare: model values that stand for "none"
are not members of the sets they stand beside, bounds are numbers, a pool has a
thread, the hosts of a cycle are finitely many, names are sequences of labels
(an address is none with a wildcard), certificates are typed.  Nothing is assumed of how many reports, threads, actions,
hosts or certificates there are.

None of the properties is inductive as it stands; what each `IInv` adds is what the
code relies on without saying so.

- **`ReportDelivery`**.  `Delete` unlinks a file without looking at the dashboard, so
  `NoReportLost` needs what a thread knows when it gets there (`HoldInv`: in `delete`
  the verdict is in, from `count` on the file is pending).
  `PersistedAndCountedFirst` needs that between the counter's rename and the call the
  counter is ahead by one, also for saturated counters (lemma `BumpRange`).
  `SoleOwner` needs that the replay and the submitters are never at work in the same
  phase (`PhaseInv`), which is the order of `AgentRunner.run`.  `PromiseStep` maps
  each action to a step of the promise (`SaveRename` to `Persist`, `Delivered` and
  `LateRequest` to `Store`, `Refused` to `Refuse`, `Delete` to `LetGo`,
  `ReplayQuarantine` to `SetAside`) or to a stutter; it needs `IInv` because a request
  may only be stored when its file was written, and a file let go of when there was a
  verdict.  `OrphanWindow` and `ForeignWindow` say what a skew of the two clocks can do,
  for every skew, either way; they need `StampInv`, which relates both stamps to the one
  true time, and that only the main thread meets reports of an earlier registration.
  `RetriesEnd` is the safety half of `ShutdownEnds`: a rank (`ToGo`) that falls at every
  step after shutdown.
- **`NetBoxSync`**.  A list in a thread's hands has been served and carries every
  change before its stamp, and a thread that has replaced the local list finds one
  there (`SyncInv`); a sync that met no other one carries a list no older than the
  local one (`AloneInv`), which needs that at most one is under way.
- **`AgentRunner`**.  The exit code is right only because the auth event is set
  before the shutdown event and because a joined thread does not run on (`AuthInv`,
  `JoinInv`).  That it names the cause needs that the cause, once set, is kept, and that
  nobody is on the way to the auth event but after a 401 (`CauseInv`).
- **`ActionQueue`**.  The agent's configuration only gets newer and never overtakes
  the dashboard's; every entry of the queue counts on a configuration the agent
  has by the time it is put (`ConfigInv`).  An action in the agent's hands has been
  handed over, so nobody changes its expiry any more, and a worker's place tells the
  checks it has passed (`StaleInv`).  `HandledOnce` and `NeverPutBack` together are
  at-most-once per hand-over; they rest on the four things a step can do to the places
  of an action (`FourMoves`) and on `Queue.get` being atomic.  An action that the
  dashboard hands over twice is run twice: nothing in the agent compares action ids.
- **`CheckCycle`**.  `DrainBounded` counts what has begun late together with what is
  picked up: shutdown freezes that set, and before shutdown it lies inside the pool
  (`DrainInv`, with the cardinality lemmas).  `first` and the history agree
  (`FlagInv`).
- **`Bootstrap`**.  A token buys one agent: as many identities are issued as tokens
  are used up, so a new identity differs from a lost one.  Since registering needs an
  absent file (`IdentityKept`), no run ever replaces one (`FileIsTheOperators`).
- **`HostCheck`**.  What is kept between handshakes was presented at one, and the
  days kept are those of the day the check began or of the present one
  (`CheckInv`).  Below it are lemmas about the operators: a verified handshake means
  path, name and dates; the code tells the path; a certificate names its canonical
  name unless that is an IP literal outside its addresses (`CanonicalNamed`); and both matchers agree with "one label in front of the rest"
  (`PatternCovers`, `MatchersCover`).  `MismatchIsAnOutage` rests on the lemma that an
  empty trust store never gives a verdict on the name (`EmptyStoreSeesNoName`).
- **`AgentThread`**.  `NeverHeadless` and `NoWayBack` are proved of the abstract
  specification once, and hold of everything that refines it.  Each `RunnerCanRely` maps
  every action of a module to `BeginRound`, `Work`, `Wait`, `End` or `Signal`, or to a
  stutter; the step count must fall in each `Work` and `Wait` after shutdown, which is
  how a thread that looks at the event late, or not at all, would show.

`StepInvariant` has one step per action, and below it one per conjunct the action
can disturb.  TLC has checked every `IInv` and every refinement, action property and
auxiliary invariant before its proof; those that no run lists (`OneLastAttempt`,
`OnePlace`, `OnlyForward`, `NeverOverwritten`, the refinements of `ActionQueue` and `CheckCycle`,
`StampInv`, `CauseInv`, `MissedInv`) are here for every value of the constants.  `StampInv`,
`CauseInv` and `MissedInv` are inductive relative to `IInv`.  Only model-checked are the
liveness properties (`ENABLED` and fairness are out of the prover's reach); of
`ShutdownEnds`, `ShutdownQuiets` and `ShutdownDecides` the safety half, a rank that only
falls after shutdown, is proved in `RetriesEnd` and the four `RunnerCanRely`.

## 5. Where the code and its documentation disagree

Each has a run whose counterexample is a behaviour of the code.

1. *A fresh report may be an orphan* (`report_orphan_finding`).  The replay compares
   `_persisted_at` (host clock) with `registered_at` (dashboard clock).  If the
   dashboard is ahead, a report written soon after the registration is skipped at
   every start and stays on disk.  `report_submission.py:157-160` says that an
   orphan is "from a previous (revoked) agent identity".  `OrphansAreOld` and
   `ForeignStaysHome` bound the effect: it reaches as far from the registration as the
   clocks are apart, and without skew it does not exist.
2. *Exit code 0 without a signal* (`runner_exit_finding`).  An unhandled error in a
   loop sets only the shutdown event, so the agent exits with 0, which
   `src/README.md:177` reserves for SIGTERM and SIGINT.  `CodeIsTold` proves that this
   is the only other cause.
3. *Success without a matching hostname, and a mismatch without another certificate*
   (`host_match_finding`).  `_determine_status` never looks at `hostname_matches`, and a
   failed connection in handshake 2 makes that false, so a short outage between two
   handshakes gives `success` with `hostname_matches` false although the server has
   presented one certificate throughout.  `src/README.md:83` says that success
   includes that the hostname matches (`SuccessMeansMatch`);
   `cert_check_with_discovery.py:25-28` and `:352-354` say that False indicates a server
   that presents a different certificate when asked by name (`MismatchMeansOtherCert`).
   The run checks `MismatchIsTold`, the disjunction of the two, so its one counterexample
   refutes both.  `MismatchIsAnOutage` proves that such an outage is the only way to
   `hostname_matches` false.

Three more are in the models and are only bounded by theorems; TLC finds the behaviour
as soon as the documentation's sentence is stated as a property:

- *The replay is not in the order of age.*  `report_submission.py:150-151` says
  "mtime-ascending order so the dashboard sees old data first", but
  `increment_attempts` rewrites a file before each attempt: what one replay has tried in
  vain is the newest at the next restart.  Within one replay the order is kept
  (`ListStaysGood`).
- *An older list of hosts may be installed last.*  The scheduled sync and a
  `sync_netbox` action have no common lock around fetch and replace, where
  `netbox_sync.py:45-46` promises "the freshest set NetBox returned".
  `AloneSyncsKeepOrder` proves that overlap is the only cause.
- *Handshake 2 does not look at names.*  It runs with an empty trust store, so the path
  error comes before the name is looked at and `verify_code` 62, on which
  `cert_check_with_discovery.py:25-28` and `:351-356` rest, cannot be seen there:
  whatever certificate the server presents, a completed handshake is a match.
  `MismatchIsAnOutage` is the other half.

Two more follow from the source and are assumptions or exceptions in the models:

- *The NetBox fetch is not bounded in time.*  `netbox_client.py:129-132` sets a `timeout`
  attribute on the session "so both connect and read are bounded", but `requests` takes
  the timeout of a call from its arguments and reads no such attribute.  If NetBox
  accepts the connection and falls silent, the sync thread does not look at shutdown
  again: the first-sync event is not set (the check thread gives up waiting after 30 s),
  the runner's join times out, `ShutdownDecides` still holds, but the thread is no
  daemon, so the process does not end by itself.
- *An IP literal that is no iPAddress costs the category.*  The canonical name is the
  first entry of the extension or the common name, whatever it is
  (`cert_check_with_discovery.py:468-471`).  An IP literal in a dNSName or in the common
  name is verified as an address, which no client finds there: code 64 at handshake 3,
  chain not trusted, and a public issuer is reported as `unknown` or
  `internal_corporate`, where `ca_category.py:26-28` wants the issuer's bucket whatever the
  name.  `CategoryTrue` names this among the causes.

Met while reading.  In the threads: if the answer to a registration is lost after the
dashboard has used the token, the retry is rejected and bootstrap fails for good
(`bootstrap.py:221-224` says it "doesn't give up on transient errors"); a fatal answer
abandons the rest of the replay's list while the threads start (`src/README.md:71`
promises all leftovers before a new cycle); a 401 during bootstrap exits with 1, not 2;
no signal handler is installed before the replay has ended (`runner.py:127`), so a
signal then kills the process, or is dropped where the agent is PID 1 of a container;
the first-sync gate's 30 s wait ignores shutdown while the runner's join waits 15 s; a
401 seen after a timed-out join is not in the exit code; an action with `expires_at` equal to the current second runs; a host
whose check raised is left out of the report as if skipped; a failing first
`get_config` is tried once although `bootstrap.py:222-224` says it backs off; a crash
between the registration's answer and the rename of `agent.json` loses the
identity and the token.

In the checks: `netbox_client.py:302-305` says an address is "NEVER used for cert
checking", while `check_thread.py:311-318` connects to it first; a certificate whose
extension cannot be parsed, or whose canonical name the idna codec rejects, raises
out of the check and costs the host its entry, where `src/README.md` lists
`tls_failed_malformed_cert`; `_match_dns` accepts `*.lan` for one label where OpenSSL
wants two labels after the wildcard; `_hostname_matches` ignores addresses in the
extension; the comments of `ca_category.py` on codes 63 and 64 are exchanged.

## 6. Not modelled

- Ports: nothing rejects one out of range (the resolver truncates it or fails).
- The NetBox client's filter expressions, port resolution, display names and tags,
  which are carried through unchanged to the report; its paging is done by pynetbox.
- Request bodies and headers of the dashboard client, its check that credentials are
  there, and the wording of its exceptions.
- Key sizes, algorithms, serial numbers and reason strings of a report's entry.
- The dry-run mode and the one-shot loop: sequential, no shared state.
- Real durations.  Backoff schedules, intervals and join timeouts are "some time":
  any wait may end before or after any other step.
- Directory entries that are renamed but not yet durable: neither file module calls
  `fsync` on the directory; a rename is taken to be durable.
- `StatsState`'s counters, which only heartbeats report.
- The thread safety of `requests.Session`, which all threads share.
- Logging and file modes.

## 7. Plan

Done, in this order: `ReportDelivery` with `ReportPromise` and its proofs,
`NetBoxSync`, `AgentRunner`, `ActionQueue`, `CheckCycle`, `Bootstrap`,
`DashboardClient`, `HostCheck`, the proofs of all their safety properties,
`AgentThread` and the proofs that four modules refine it.  What is left:

1. A composition of `CheckCycle` and `ReportDelivery` (a cycle's submission is a
   `BeginSubmit`, its verdict the cycle's status), with the cycle's startup flag
   related to what the dashboard has stored.
2. `ActionQueue` and `NetBoxSync` composed with `HostCheck`'s choice of hosts: a
   `sync_netbox` and a `check_host` of one heartbeat.
3. `StatsState`'s counters over the threads that write them and the heartbeat that
   sends them.
