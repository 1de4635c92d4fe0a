--------------------------- MODULE ReportDelivery ---------------------------
(***************************************************************************)
(* How a report reaches the dashboard: report_submission.py (submission    *)
(* with retry, start-up replay) over the files of pending_reports.py, run  *)
(* by the agent's threads and interrupted by crashes, refused disk writes, *)
(* revocation and shutdown.  The dashboard and the file system are         *)
(* external: the dashboard is the answers the code tells apart, the file   *)
(* system is an atomic rename, an unlink and an order of modification.     *)
(*                                                                         *)
(* A thread's pc names the place it has reached in the code:               *)
(*    "idle"     outside submit_report_with_retry                          *)
(*    "save"     payload built and stamped, nothing written yet            *)
(*    "saveTmp"  <report_id>.json.tmp is written, not yet renamed          *)
(*    "count"    top of the retry loop, before increment_attempts          *)
(*    "countTmp" the incremented copy is written, not yet renamed          *)
(*    "call"     about to call client.submit_report                        *)
(*    "await"    the request has left, no answer yet                       *)
(*    "backoff"  in clock.wait_for(delay, shutdown_event)                  *)
(*    "delete"   the dashboard's verdict is known, the file still there    *)
(*    "next"     (Main only) at the head of the replay loop                *)
(*    "gone"     the thread ended after an authentication error            *)
(***************************************************************************)
EXTENDS Integers, FiniteSets

CONSTANTS
    Report,      \* report ids; each is submitted at most once (uuid4)
    Submitter,   \* threads that call submit_report_with_retry
    Main,        \* the main thread, which replays before the others start
    NoReport,    \* "holds no report"
    Skew,        \* dashboard clock minus agent clock, in clock seconds
    MaxTime,     \* bound: the agent's clock stops here
    MaxCount,    \* bound: attempt counters saturate here
    MaxFaults    \* bound: crashes, signals, disk and fatal errors in a run

ASSUME ThreadAssumption == Main \notin Submitter
ASSUME ReportAssumption == NoReport \notin Report
ASSUME BoundAssumption ==
    /\ Skew \in Int
    /\ MaxTime \in Nat
    /\ MaxCount \in Nat \ {0}
    /\ MaxFaults \in Nat

VARIABLES
    file,         \* report -> what <report_id>.json is
    tmp,          \* reports with a <report_id>.json.tmp on disk
    attempts,     \* report -> `_attempts` in its file
    persistedAt,  \* report -> `_persisted_at`, Never before the first save
    newer,        \* report -> reports whose file was rewritten after its own
    phase,        \* "down", "replay" or "running"
    pc,           \* thread -> place in the code
    job,          \* thread -> the report it is delivering
    todo,         \* paths the replay has listed and not yet taken
    shutdown,     \* shutdown_event
    registeredAt, \* credentials.registered_at, a time of the dashboard
    now,          \* the agent's wall clock (utc_now_iso, one-second steps)
    revoked,      \* the dashboard no longer accepts the agent's token
    accepted,     \* reports the dashboard has stored
    rejected,     \* reports the dashboard has answered 400 or 413
    late,         \* requests given up by the client, still under way
    sends,        \* history: report -> number of submit_report calls
    foreign,      \* history: reports made under an earlier registration
    faults        \* how many of MaxFaults have happened

disk      == <<file, tmp, attempts, persistedAt, newer>>
process   == <<phase, pc, job, todo, shutdown>>
clocks    == <<registeredAt, now>>
dashboard == <<revoked, accepted, rejected, late>>
history   == <<sends, foreign>>
vars      == <<disk, process, clocks, dashboard, history, faults>>

Thread == Submitter \cup {Main}
Never  == -1
Time   == 0 .. MaxTime

FileState  == {"unwritten", "pending", "corrupt", "quarantined", "deleted"}
ThreadStep == {"idle", "save", "saveTmp", "count", "countTmp", "call",
               "await", "backoff", "delete", "next", "gone"}

TypeOK ==
    /\ file \in [Report -> FileState]
    /\ tmp \in SUBSET Report
    /\ attempts \in [Report -> 0 .. MaxCount]
    /\ persistedAt \in [Report -> Time \cup {Never}]
    /\ newer \in [Report -> SUBSET Report]
    /\ phase \in {"down", "replay", "running"}
    /\ pc \in [Thread -> ThreadStep]
    /\ job \in [Thread -> Report \cup {NoReport}]
    /\ todo \in SUBSET Report
    /\ shutdown \in BOOLEAN
    /\ registeredAt \in Int
    /\ now \in Time
    /\ revoked \in BOOLEAN
    /\ accepted \in SUBSET Report
    /\ rejected \in SUBSET Report
    /\ late \in SUBSET Report
    /\ sends \in [Report -> 0 .. MaxCount]
    /\ foreign \in SUBSET Report
    /\ faults \in 0 .. MaxFaults
    /\ \A t \in Thread :
          job[t] = NoReport <=> pc[t] \in {"idle", "next", "gone"}

Init ==
    /\ file = [r \in Report |-> "unwritten"]
    /\ tmp = {}
    /\ attempts = [r \in Report |-> 0]
    /\ persistedAt = [r \in Report |-> Never]
    /\ newer = [r \in Report |-> {}]
    /\ phase = "down"
    /\ pc = [t \in Thread |-> "idle"]
    /\ job = [t \in Thread |-> NoReport]
    /\ todo = {}
    /\ shutdown = FALSE
    /\ registeredAt = Skew
    /\ now = 0
    /\ revoked = FALSE
    /\ accepted = {}
    /\ rejected = {}
    /\ late = {}
    /\ sends = [r \in Report |-> 0]
    /\ foreign = {}
    /\ faults = 0

-----------------------------------------------------------------------------
(* Helpers *)

Bump(n) == IF n < MaxCount THEN n + 1 ELSE n

\* The files pending_reports/*.json, the ones list_pending_report_paths sees.
OnDisk == {r \in Report : file[r] \in {"pending", "corrupt"}}

\* os.replace gives the file a new mtime: it is now newer than every other.
Rewritten(r) == [x \in Report |-> IF x = r THEN {} ELSE newer[x] \cup {r}]

\* The head of the mtime-ascending list.  Only the file in hand is rewritten
\* during replay, so the order of the remaining paths is still the listed one.
OldestListed(r) == r \in todo /\ todo \ {r} \subseteq newer[r]

\* Mutant: a report of the registration's own second counts as older.
IsOrphanOrSame(r) == persistedAt[r] <= registeredAt

\* `persisted_at and persisted_at < credentials_registered_at`: the order of the two
\* ISO strings, which is that of the times as long as the dashboard writes its stamp
\* as the agent does (UTC, whole seconds, "Z").
IsOrphan(r) == persistedAt[r] < registeredAt

Fault == faults < MaxFaults /\ faults' = faults + 1

Goto(t, step) == pc' = [pc EXCEPT ![t] = step]

\* A submission returns or raises without ending its thread: the caller logs
\* and goes on.  For the replay a raise abandons the rest of the list, and
\* run() goes on to start the threads.
Abandon(t) ==
    /\ Goto(t, "idle")
    /\ job' = [job EXCEPT ![t] = NoReport]
    /\ IF t = Main
       THEN todo' = {} /\ phase' = IF shutdown THEN "down" ELSE "running"
       ELSE UNCHANGED <<todo, phase>>

\* The process ends: everything in memory is gone, the disk stays as it is.
Halt ==
    /\ phase' = "down"
    /\ pc' = [t \in Thread |-> "idle"]
    /\ job' = [t \in Thread |-> NoReport]
    /\ todo' = {}
    /\ shutdown' = FALSE

-----------------------------------------------------------------------------
(* submit_report_with_retry and save_pending_report *)

\* Mutant: the report id is not unique (say, the second the cycle began in).
BeginSubmitSameId(t, r) ==
    /\ t \in Submitter /\ phase = "running" /\ pc[t] = "idle"
    /\ persistedAt' = [persistedAt EXCEPT ![r] = now]
    /\ job' = [job EXCEPT ![t] = r]
    /\ Goto(t, "save")
    /\ UNCHANGED <<file, tmp, attempts, newer, phase, todo, shutdown,
                   clocks, dashboard, history, faults>>

\* A thread has finished a cycle or an action and submits its report, also
\* when shutdown was signalled meanwhile; _persisted_at is stamped here.
BeginSubmit(t, r) ==
    /\ t \in Submitter /\ phase = "running" /\ pc[t] = "idle"
    /\ persistedAt[r] = Never
    /\ persistedAt' = [persistedAt EXCEPT ![r] = now]
    /\ job' = [job EXCEPT ![t] = r]
    /\ Goto(t, "save")
    /\ UNCHANGED <<file, tmp, attempts, newer, phase, todo, shutdown,
                   clocks, dashboard, history, faults>>

\* _atomic_write_json up to the fsync: the bytes are in <path>.tmp only.
WriteTmp(t) ==
    /\ \/ pc[t] = "save" /\ Goto(t, "saveTmp")
       \/ pc[t] = "count" /\ Goto(t, "countTmp")
    /\ tmp' = tmp \cup {job[t]}
    /\ UNCHANGED <<file, attempts, persistedAt, newer, phase, job, todo,
                   shutdown, clocks, dashboard, history, faults>>

\* Mutant: the first attempt is made without counting it.
SaveRenameUncounted(t) ==
    /\ pc[t] = "saveTmp"
    /\ Goto(t, "call")
    /\ file' = [file EXCEPT ![job[t]] = "pending"]
    /\ attempts' = [attempts EXCEPT ![job[t]] = 0]
    /\ tmp' = tmp \ {job[t]}
    /\ newer' = Rewritten(job[t])
    /\ UNCHANGED <<persistedAt, phase, job, todo, shutdown, clocks, dashboard,
                   history, faults>>

\* os.replace of the first save: the report is on disk with _attempts = 0.
SaveRename(t) ==
    /\ pc[t] = "saveTmp"
    /\ Goto(t, "count")
    /\ file' = [file EXCEPT ![job[t]] = "pending"]
    /\ attempts' = [attempts EXCEPT ![job[t]] = 0]
    /\ tmp' = tmp \ {job[t]}
    /\ newer' = Rewritten(job[t])
    /\ UNCHANGED <<persistedAt, phase, job, todo, shutdown, clocks, dashboard,
                   history, faults>>

\* The write fails (full disk): the tmp is unlinked and the error raised.
DiskFull(t) ==
    /\ Fault
    /\ pc[t] \in {"save", "count"}
    /\ Abandon(t)
    /\ UNCHANGED <<disk, shutdown, clocks, dashboard, history>>

-----------------------------------------------------------------------------
(* _retry_loop_for_path *)

\* os.replace in increment_attempts: one more attempt on the file, new mtime.
CountRename(t) ==
    /\ pc[t] = "countTmp"
    /\ Goto(t, "call")
    /\ attempts' = [attempts EXCEPT ![job[t]] = Bump(@)]
    /\ tmp' = tmp \ {job[t]}
    /\ newer' = Rewritten(job[t])
    /\ UNCHANGED <<file, persistedAt, phase, job, todo, shutdown, clocks,
                   dashboard, history, faults>>

Call(t) ==
    /\ pc[t] = "call"
    /\ Goto(t, "await")
    /\ sends' = [sends EXCEPT ![job[t]] = Bump(@)]
    /\ UNCHANGED <<disk, phase, job, todo, shutdown, clocks, dashboard,
                   foreign, faults>>

Answered(t) == pc[t] = "await" /\ ~revoked

\* 200: stored now.
Delivered(t) ==
    /\ Answered(t) /\ job[t] \notin accepted
    /\ accepted' = accepted \cup {job[t]}
    /\ Goto(t, "delete")
    /\ UNCHANGED <<disk, phase, job, todo, shutdown, clocks, revoked, rejected,
                   late, history, faults>>

\* 409: an earlier copy was stored; "duplicate".
Duplicate(t) ==
    /\ Answered(t) /\ job[t] \in accepted
    /\ Goto(t, "delete")
    /\ UNCHANGED <<disk, phase, job, todo, shutdown, clocks, dashboard, history,
                   faults>>

\* 400 or 413: the dashboard will never take this payload.
Refused(t) ==
    /\ Answered(t) /\ job[t] \notin accepted
    /\ rejected' = rejected \cup {job[t]}
    /\ Goto(t, "delete")
    /\ UNCHANGED <<disk, phase, job, todo, shutdown, clocks, revoked, accepted,
                   late, history, faults>>

\* Mutant: a retriable error is handed to the caller like a fatal one.
RetriableGivesUp(t) ==
    /\ pc[t] = "await"
    /\ Abandon(t)
    /\ \/ late' = late
       \/ ~revoked /\ late' = late \cup {job[t]}
    /\ UNCHANGED <<disk, shutdown, clocks, revoked, accepted, rejected, history,
                   faults>>

\* 429, 5xx, no connection or no answer in time; after a timeout the request
\* may still be under way.
Retriable(t) ==
    /\ pc[t] = "await"
    /\ Goto(t, "backoff")
    /\ \/ late' = late
       \/ ~revoked /\ late' = late \cup {job[t]}
    /\ UNCHANGED <<disk, phase, job, todo, shutdown, clocks, revoked, accepted,
                   rejected, history, faults>>

\* 401: the file is preserved and the error raised; a thread signals shutdown
\* and ends, the replay ends the process.
Unauthorized(t) ==
    /\ pc[t] = "await" /\ revoked
    /\ IF t = Main
       THEN Halt
       ELSE /\ Goto(t, "gone")
            /\ job' = [job EXCEPT ![t] = NoReport]
            /\ shutdown' = TRUE
            /\ UNCHANGED <<phase, todo>>
    /\ UNCHANGED <<disk, clocks, dashboard, history, faults>>

\* Mutant: an unknown answer counts as a refusal and the file is unlinked.
FatalDeletes(t) ==
    /\ Fault
    /\ Answered(t)
    /\ Goto(t, "delete")
    /\ UNCHANGED <<disk, phase, job, todo, shutdown, clocks, dashboard, history>>

\* Any other answer (404, an unexpected status, a 200 whose body is not JSON, to
\* a report that is stored all the same): the file is preserved and the error
\* raised.
Fatal(t) ==
    /\ Fault
    /\ Answered(t)
    /\ Abandon(t)
    /\ late' \in {late, late \cup {job[t]}}
    /\ UNCHANGED <<disk, shutdown, clocks, revoked, accepted, rejected, history>>

\* Mutant: clock.sleep instead of wait_for, deaf to shutdown.
BackoffOverDeaf(t) ==
    /\ pc[t] = "backoff"
    /\ Goto(t, "count")
    /\ UNCHANGED <<disk, phase, job, todo, shutdown, clocks, dashboard, history,
                   faults>>

\* wait_for returns with the event clear: the delay has passed.
BackoffOver(t) ==
    /\ pc[t] = "backoff" /\ ~shutdown
    /\ Goto(t, "count")
    /\ UNCHANGED <<disk, phase, job, todo, shutdown, clocks, dashboard, history,
                   faults>>

\* Mutant: shutdown is also looked at on top of the loop, before any attempt.
BackoffWokenAtTop(t) ==
    /\ pc[t] \in {"count", "backoff"} /\ shutdown
    /\ IF t = Main
       THEN Halt
       ELSE /\ Goto(t, "idle")
            /\ job' = [job EXCEPT ![t] = NoReport]
            /\ UNCHANGED <<phase, todo, shutdown>>
    /\ UNCHANGED <<disk, clocks, dashboard, history, faults>>

\* wait_for returns with the event set: status "shutdown", the file stays.
BackoffWoken(t) ==
    /\ pc[t] = "backoff" /\ shutdown
    /\ IF t = Main
       THEN Halt
       ELSE /\ Goto(t, "idle")
            /\ job' = [job EXCEPT ![t] = NoReport]
            /\ UNCHANGED <<phase, todo, shutdown>>
    /\ UNCHANGED <<disk, clocks, dashboard, history, faults>>

\* Mutant: the thread keeps its hold on the report after the unlink.
DeleteKeepsJob(t) ==
    /\ pc[t] = "delete"
    /\ file' = [file EXCEPT ![job[t]] = "deleted"]
    /\ Goto(t, IF t = Main THEN "next" ELSE "idle")
    /\ UNCHANGED <<tmp, attempts, persistedAt, newer, phase, job, todo, shutdown,
                   clocks, dashboard, history, faults>>

\* delete_pending_report, then the result is returned to the caller.
Delete(t) ==
    /\ pc[t] = "delete"
    /\ file' = [file EXCEPT ![job[t]] = "deleted"]
    /\ job' = [job EXCEPT ![t] = NoReport]
    /\ Goto(t, IF t = Main THEN "next" ELSE "idle")
    /\ UNCHANGED <<tmp, attempts, persistedAt, newer, phase, todo, shutdown,
                   clocks, dashboard, history, faults>>

-----------------------------------------------------------------------------
(* Start-up, replay_pending_reports and the end of the process *)

\* A new process, with a shutdown event of its own, starts with saved credentials
\* and scans pending_reports/: stray tmp files are unlinked, then the paths are
\* listed.
Start ==
    /\ phase = "down"
    /\ phase' = "replay" /\ shutdown' = FALSE
    /\ tmp' = {}
    /\ todo' = OnDisk
    /\ Goto(Main, "next")
    /\ UNCHANGED <<file, attempts, persistedAt, newer, job, clocks, dashboard,
                   history, faults>>

\* Mutant: the directory is listed anew for each file.
ReplayTakeFresh(r) ==
    /\ pc[Main] = "next" /\ ~shutdown /\ OldestListed(r)
    /\ todo' = OnDisk \ {r}

ReplayTake(r) ==
    /\ pc[Main] = "next" /\ ~shutdown /\ OldestListed(r)
    /\ todo' = todo \ {r}

\* Mutant: a file that does not parse is unlinked instead of set aside.
ReplayQuarantineDeletes(r) ==
    /\ ReplayTake(r)
    /\ file[r] = "corrupt"
    /\ file' = [file EXCEPT ![r] = "deleted"]
    /\ UNCHANGED <<tmp, attempts, persistedAt, newer, phase, pc, job, shutdown,
                   clocks, dashboard, history, faults>>

\* A file that does not parse moves to pending_reports/corrupt/.
ReplayQuarantine(r) ==
    /\ ReplayTake(r)
    /\ file[r] = "corrupt"
    /\ file' = [file EXCEPT ![r] = "quarantined"]
    /\ UNCHANGED <<tmp, attempts, persistedAt, newer, phase, pc, job, shutdown,
                   clocks, dashboard, history, faults>>

\* A file older than the registration is left where it is.
ReplayOrphan(r) ==
    /\ ReplayTake(r)
    /\ file[r] = "pending" /\ IsOrphan(r)
    /\ UNCHANGED <<disk, phase, pc, job, shutdown, clocks, dashboard, history,
                   faults>>

\* Mutant: the stamp is not looked at.
ReplaySubmitAny(r) ==
    /\ ReplayTake(r)
    /\ file[r] = "pending"
    /\ job' = [job EXCEPT ![Main] = r]
    /\ Goto(Main, "count")
    /\ UNCHANGED <<disk, phase, shutdown, clocks, dashboard, history, faults>>

\* Any other file goes through the retry loop of the main thread.
ReplaySubmit(r) ==
    /\ ReplayTake(r)
    /\ file[r] = "pending" /\ ~IsOrphan(r)
    /\ job' = [job EXCEPT ![Main] = r]
    /\ Goto(Main, "count")
    /\ UNCHANGED <<disk, phase, shutdown, clocks, dashboard, history, faults>>

\* The list is used up: run() goes on to start the threads.
ReplayDone ==
    /\ pc[Main] = "next" /\ ~shutdown /\ todo = {}
    /\ phase' = "running"
    /\ Goto(Main, "idle")
    /\ UNCHANGED <<disk, job, todo, shutdown, clocks, dashboard, history, faults>>

\* The event is found set between two files or after the last one: run()
\* returns without starting the threads.
ReplayInterrupted ==
    /\ pc[Main] = "next" /\ shutdown
    /\ Halt
    /\ UNCHANGED <<disk, clocks, dashboard, history, faults>>

\* All threads joined after shutdown: the process ends.
Exit ==
    /\ phase = "running" /\ shutdown
    /\ \A t \in Submitter : pc[t] \in {"idle", "gone"}
    /\ Halt
    /\ UNCHANGED <<disk, clocks, dashboard, history, faults>>

-----------------------------------------------------------------------------
(* The environment *)

\* Power loss, SIGKILL, or run() returning while a daemon thread that outlived
\* its join timeout is still at work.
Crash ==
    /\ Fault
    /\ phase # "down"
    /\ Halt
    /\ UNCHANGED <<disk, clocks, dashboard, history>>

\* Somebody sets the shutdown event this component was given.
SignalShutdown ==
    /\ Fault
    /\ phase # "down" /\ ~shutdown
    /\ shutdown' = TRUE
    /\ UNCHANGED <<disk, phase, pc, job, todo, clocks, dashboard, history>>

\* A file is damaged on disk while the agent is down.
Damage(r) ==
    /\ Fault
    /\ phase = "down" /\ file[r] = "pending"
    /\ file' = [file EXCEPT ![r] = "corrupt"]
    /\ UNCHANGED <<tmp, attempts, persistedAt, newer, process, clocks, dashboard,
                   history>>

\* The dashboard processes a request whose client stopped waiting, or loses it.
LateRequest(r) ==
    /\ r \in late
    /\ late' = late \ {r}
    /\ accepted' \in {accepted, accepted \cup {r}}
    /\ UNCHANGED <<disk, process, clocks, revoked, rejected, history, faults>>

\* The token is revoked; requests under way with it will be refused.
Revoke ==
    /\ Fault
    /\ ~revoked
    /\ revoked' = TRUE
    /\ late' = {}
    /\ UNCHANGED <<disk, process, clocks, accepted, rejected, history>>

\* The operator removes the credentials and registers the agent anew: the
\* dashboard stamps registered_at with its own clock.
Reregister ==
    /\ phase = "down" /\ revoked
    /\ revoked' = FALSE
    /\ registeredAt' = now + Skew
    /\ foreign' = {r \in Report : persistedAt[r] # Never}
    /\ UNCHANGED <<disk, process, now, accepted, rejected, late, sends, faults>>

Tick ==
    /\ now < MaxTime
    /\ now' = now + 1
    /\ UNCHANGED <<disk, process, registeredAt, dashboard, history, faults>>

-----------------------------------------------------------------------------
(* Specifications *)

Verdict(t) == Delivered(t) \/ Duplicate(t) \/ Refused(t)
Answer(t)  == Verdict(t) \/ Retriable(t) \/ Unauthorized(t) \/ Fatal(t)

\* What thread t does by itself, without waiting for the dashboard.
Code(t) ==
    \/ WriteTmp(t) \/ SaveRename(t) \/ CountRename(t) \/ Call(t)
    \/ BackoffOver(t) \/ BackoffWoken(t) \/ Delete(t)

Replay ==
    \/ \E r \in Report : ReplayQuarantine(r) \/ ReplayOrphan(r) \/ ReplaySubmit(r)
    \/ ReplayDone \/ ReplayInterrupted

Environment ==
    \/ Crash \/ SignalShutdown \/ Revoke \/ Reregister \/ Tick
    \/ \E r \in Report : Damage(r) \/ LateRequest(r)

Next ==
    \/ \E t \in Thread : Code(t) \/ Answer(t) \/ DiskFull(t)
    \/ \E t \in Submitter, r \in Report : BeginSubmit(t, r)
    \/ Start \/ Replay \/ Exit
    \/ Environment

Spec == Init /\ [][Next]_vars

\* Threads are scheduled, every call ends (the HTTP client has a timeout) and
\* a supervisor restarts the process.
FairSpec ==
    /\ Spec
    /\ \A t \in Thread : WF_vars(Code(t)) /\ WF_vars(Answer(t))
    /\ WF_vars(Start) /\ WF_vars(Replay) /\ WF_vars(Exit)

\* The dashboard's outages end: a report sent again and again gets its verdict.
\* Assumed by the properties that name it and by no other.
OutagesEnd == \A t \in Thread : SF_vars(Verdict(t))

-----------------------------------------------------------------------------
(* Properties *)

\* A file is unlinked only once the dashboard has stored the report or refused
\* it for good: crashes, lost answers, authentication and fatal errors and
\* shutdown all leave it on disk (every delete_pending_report call).
NoReportLost ==
    \A r \in Report : file[r] = "deleted" => r \in accepted \cup rejected

\* The file exists before the first byte leaves, and its _attempts is never
\* behind the calls made, whatever crash came in between (increment_attempts:
\* "so the on-disk count reflects work performed").
PersistedAndCountedFirst ==
    \A r \in Report :
        /\ attempts[r] >= sends[r]
        /\ (sends[r] > 0 \/ r \in accepted \cup rejected \cup late)
              => file[r] # "unwritten"

\* Two threads never work on one file, and a file the replay still has to take
\* is in nobody's hands: replay runs "BEFORE any other thread starts producing
\* new reports".  The rename, unlink and rewrite steps rely on it.
SoleOwner ==
    \A t \in Thread : job[t] # NoReport =>
        /\ job[t] \notin todo
        /\ \A u \in Thread \ {t} : job[u] # job[t]

\* The report behind an orphan file belongs to an earlier registration, and the
\* replay leaves that file alone: it never calls the dashboard for it.
OrphansNotReplayed ==
    [][\A r \in Report :
          phase = "replay" /\ sends'[r] # sends[r] => ~IsOrphan(r)]_vars

\* The two stamps come from two clocks, and this is all a skew between them can
\* do: the replay takes a report of the present registration for an orphan only
\* when it was made within Skew seconds of that registration ...
OrphanWindow ==
    \A r \in Report : persistedAt[r] # Never /\ IsOrphan(r) =>
        r \in foreign \/ registeredAt - persistedAt[r] \in 1 .. Skew

\* ... and a report of an earlier one is delivered under the new identity only
\* when the dashboard's clock is not ahead, and then only one of the last -Skew
\* seconds before the registration (the test at report_submission.py:206).
ForeignWindow ==
    \A t \in Thread : job[t] \in foreign =>
        persistedAt[job[t]] - registeredAt \in 0 .. -Skew

\* Registrations are told apart as far as the clocks agree.
SkewWindow == OrphanWindow /\ ForeignWindow

\* The inductive form of the two: persisted before the registration is foreign,
\* after it is not, both stamps are in the past, and what is foreign can only
\* come into the main thread's hands.
StampInv ==
    /\ registeredAt <= now + Skew
    /\ \A r \in Report :
          /\ persistedAt[r] <= now
          /\ persistedAt[r] # Never /\ r \notin foreign
                => persistedAt[r] + Skew >= registeredAt
          /\ r \in foreign
                => persistedAt[r] # Never /\ persistedAt[r] + Skew <= registeredAt
    /\ \A t \in Submitter : job[t] \notin foreign

\* The list of paths is read once, at the start of the replay, and stays good to
\* its end: nothing joins the files still to be taken and none of them is
\* rewritten, so they are still in the order of their mtimes.
ReplayKeepsOrder ==
    [][phase = "replay" /\ phase' = "replay" =>
          /\ todo' \subseteq todo
          /\ \A r, s \in todo' : s \in newer'[r] <=> s \in newer[r]]_vars

\* The safety half of ShutdownEnds: once shutdown is set a thread in the retry
\* loop only comes closer to its end, so it calls the dashboard once more at most
\* (the wait between two attempts is where the event is looked at).
ToGo(step) ==
    CASE step = "save"    -> 8 [] step = "saveTmp"  -> 7
      [] step = "count"   -> 6 [] step = "countTmp" -> 5
      [] step = "call"    -> 4 [] step = "await"    -> 3
      [] step = "backoff" -> 2 [] step = "delete"   -> 1
      [] OTHER            -> 0
OneLastAttempt ==
    [][shutdown =>
          \A t \in Thread : job[t] # NoReport /\ pc'[t] # pc[t] =>
              ToGo(pc'[t]) < ToGo(pc[t])]_vars

\* report_submission.py implements the at-least-once promise.
Promise == INSTANCE ReportPromise WITH
    owed    <- OnDisk,
    aside   <- {r \in Report : file[r] = "quarantined"},
    done    <- {r \in Report : file[r] = "deleted"},
    stored  <- accepted,
    refused <- rejected

ImplementsPromise == Promise!PSpec

\* Once signalled, shutdown gets through: with the dashboard out for good, every
\* retry loop still lets go and the process ends (the wait is on the event).
ShutdownEnds == shutdown ~> phase = "down"

\* Shutdown only cuts the waits short: a report that reached the retry loop gets
\* its one attempt also when shutdown was signalled before (report_submission.py:
\* 273-279), unless the disk or the process fails first.
OwedAttempt ==
    \A t \in Submitter, r \in Report :
        (job[t] = r /\ pc[t] = "count" /\ sends[r] = 0 /\ faults = MaxFaults)
            ~> sends[r] > 0

\* Once the environment has stopped failing, a restart settles every report it
\* finds: none stays behind in a retry loop or at the end of the list.
Settled(r) == r \in accepted \cup rejected /\ file[r] = "deleted"
RestartDrains ==
    OutagesEnd => \A r \in Report :
        (phase = "down" /\ file[r] = "pending" /\ ~IsOrphan(r) /\ ~revoked
            /\ faults = MaxFaults) ~> Settled(r)

\* A fresh report is delivered by its own thread however long an outage lasts,
\* unless the thread is stopped by shutdown, revocation, a fatal error or a
\* crash: the retry loop never gives up on retriable errors.
NeverGivesUp ==
    OutagesEnd => \A t \in Submitter, r \in Report :
        (job[t] = r /\ faults = MaxFaults /\ ~shutdown /\ ~revoked)
            ~> (Settled(r) \/ shutdown)

-----------------------------------------------------------------------------
(* The inductive invariant behind NoReportLost, PersistedAndCountedFirst and *)
(* SoleOwner; ReportDeliveryProofs proves it.                                *)

\* Which threads work in which phase: the replay has the process to itself.
PhaseInv ==
    /\ phase \in {"down", "replay"} => \A t \in Submitter : pc[t] = "idle"
    /\ phase \in {"down", "running"} => pc[Main] = "idle" /\ todo = {}
    /\ \A t \in Submitter : pc[t] # "next"

\* What a thread may rely on about the report in its hands.
HoldInv ==
    \A t \in Thread :
        /\ pc[t] \in {"save", "saveTmp"} =>
              file[job[t]] = "unwritten" /\ persistedAt[job[t]] # Never
        /\ pc[t] \in {"count", "countTmp", "call", "await", "backoff", "delete"}
              => file[job[t]] = "pending"
        /\ pc[t] = "call" => attempts[job[t]] >= Bump(sends[job[t]])
        /\ pc[t] = "delete" => job[t] \in accepted \cup rejected
        /\ t = Main /\ job[t] # NoReport => ~IsOrphan(job[t])

\* What is true of a report nobody holds, too.
ReportInv ==
    \A r \in Report :
        /\ persistedAt[r] = Never => file[r] = "unwritten"
        /\ r \in todo => file[r] \in {"pending", "corrupt"}

\* The invariant is inductive: every action of the code and of the environment
\* preserves it, so it holds of the program whatever happened before.
IInv ==
    /\ TypeOK
    /\ PhaseInv
    /\ HoldInv
    /\ ReportInv
    /\ SoleOwner
    /\ NoReportLost
    /\ PersistedAndCountedFirst

-----------------------------------------------------------------------------
(* What the documentation says and the code does not do *)

\* report_submission.py:157-160: an orphan is from a previous agent identity.
OrphansAreForeign ==
    \A r \in Report :
        pc[Main] = "next" /\ r \in todo /\ IsOrphan(r) => r \in foreign

=============================================================================
