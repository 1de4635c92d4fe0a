---------------------------- MODULE AgentRunner -----------------------------
(***************************************************************************)
(* runner.py: the life of the agent process, from bootstrap over the       *)
(* replay of pending reports to the threads, the shutdown event they       *)
(* share, the joins with a timeout and the exit code.  What a thread does  *)
(* in one round of its loop is abstracted to how the round can end;        *)
(* ReportDelivery, NetBoxSync and ActionQueue look inside.                 *)
(*                                                                         *)
(* A thread's pc:                                                          *)
(*    "new"     not started           "gate"   (Checker) in                *)
(*    "top"     top of its loop                _wait_for_first_netbox_sync *)
(*    "work"    inside one round      "unauth" a 401 was caught            *)
(*    "wait"    in clock.wait_for     "signal" first event set, not second *)
(*    "ended"   run() has returned                                         *)
(***************************************************************************)
EXTENDS Integers, FiniteSets

CONSTANTS
    Heartbeat, Checker, NetBox,  \* the three threads that are not daemons
    Worker,                      \* the daemon threads of the action pool
    NetBoxConfigured             \* NETBOX_URL is set

ASSUME DistinctThreads ==
    /\ Cardinality({Heartbeat, Checker, NetBox}) = 3
    /\ {Heartbeat, Checker, NetBox} \cap Worker = {}
    /\ NetBoxConfigured \in BOOLEAN

VARIABLES
    phase,      \* where the main thread is in run() and _shutdown()
    pc,         \* thread -> place in its run()
    joined,     \* threads _shutdown() has waited for, successfully or not
    shutdown,   \* shutdown_event
    authError,  \* auth_error_event
    firstDone,  \* first_netbox_sync_done_event
    code,       \* exit code of run(), None while it is undecided
    revoked,    \* the dashboard no longer accepts the agent's credentials
    cause,      \* history: what set shutdown first
    signalled,  \* history: SIGTERM or SIGINT was sent
    timedOut    \* history: some join gave up

history == <<cause, signalled, timedOut>>
vars    == <<phase, pc, joined, shutdown, authError, firstDone, code, revoked, history>>

Loop    == {Heartbeat, Checker} \cup (IF NetBoxConfigured THEN {NetBox} ELSE {})
Thread  == Loop \cup Worker
None    == -1
Killed  == 143   \* default action of SIGTERM

\* Threads are started and joined in this order.
Rank(t) == CASE t = Heartbeat -> 1 [] t = Checker -> 3 [] t = NetBox -> 4
             [] OTHER -> 2
Before(t) == {u \in Thread : Rank(u) < Rank(t)}

TypeOK ==
    /\ phase \in {"boot", "replay", "install", "start", "running", "join",
                  "exited", "gone"}
    /\ pc \in [Thread -> {"new", "gate", "top", "work", "wait", "unauth",
                          "signal", "ended"}]
    /\ joined \in SUBSET Thread
    /\ {shutdown, authError, firstDone, revoked, signalled, timedOut}
           \subseteq BOOLEAN
    /\ code \in {None, 0, 1, 2, Killed}
    /\ cause \in {"none", "signal", "auth", "fault", "bootAuth"}
    /\ code # None <=> phase \in {"exited", "gone"}
    /\ phase \in {"boot", "replay", "install"} => \A t \in Thread : pc[t] = "new"

Init ==
    /\ phase = "boot"
    /\ pc = [t \in Thread |-> "new"]
    /\ joined = {}
    /\ shutdown = FALSE /\ authError = FALSE
    /\ firstDone = ~NetBoxConfigured
    /\ code = None
    /\ revoked = FALSE
    /\ cause = "none" /\ signalled = FALSE /\ timedOut = FALSE

Goto(t, step) == pc' = [pc EXCEPT ![t] = step]

\* shutdown_event.set(); only the first setter is remembered.
SetShutdown(why) ==
    /\ shutdown' = TRUE
    /\ cause' = IF shutdown THEN cause ELSE why

\* run() returns before any thread exists, and the process ends.
Quit(c) == phase' = "gone" /\ code' = c

-----------------------------------------------------------------------------
(* run(): bootstrap, replay, start-up *)

BootSucceeds ==
    /\ phase = "boot"
    /\ phase' = "replay"
    /\ UNCHANGED <<pc, joined, shutdown, authError, firstDone, code, revoked, history>>

\* BootstrapError or any other exception: missing variables, corrupt
\* credentials, a registration the dashboard refuses.
BootFails ==
    /\ phase = "boot"
    /\ Quit(1)
    /\ UNCHANGED <<pc, joined, shutdown, authError, firstDone, revoked, history>>

\* The first get_config is answered 401, which bootstrap turns into a
\* BootstrapError like the others.
BootUnauthorized ==
    /\ phase = "boot" /\ revoked
    /\ Quit(1)
    /\ cause' = "bootAuth"
    /\ UNCHANGED <<pc, joined, shutdown, authError, firstDone, revoked, signalled,
                   timedOut>>

\* The replay has gone through its list or has raised something other than 401.
ReplayEnds ==
    /\ phase = "replay"
    /\ phase' = "install"
    /\ UNCHANGED <<pc, joined, shutdown, authError, firstDone, code, revoked, history>>

\* EXIT_AUTH_ERROR; no event is set, no thread exists.
ReplayUnauthorized ==
    /\ phase = "replay" /\ revoked
    /\ Quit(2)
    /\ cause' = "auth"
    /\ UNCHANGED <<pc, joined, shutdown, authError, firstDone, revoked, signalled,
                   timedOut>>

\* Shared state and threads are built, then SIGTERM and SIGINT get a handler.
InstallHandlers ==
    /\ phase = "install"
    /\ phase' = "start"
    /\ UNCHANGED <<pc, joined, shutdown, authError, firstDone, code, revoked, history>>

StartThread(t) ==
    /\ phase = "start"
    /\ pc[t] = "new" /\ \A u \in Before(t) : pc[u] # "new"
    /\ Goto(t, IF t = Checker THEN "gate" ELSE "top")
    /\ UNCHANGED <<phase, joined, shutdown, authError, firstDone, code, revoked,
                   history>>

AllStarted ==
    /\ phase = "start" /\ \A t \in Thread : pc[t] # "new"
    /\ phase' = "running"
    /\ UNCHANGED <<pc, joined, shutdown, authError, firstDone, code, revoked, history>>

-----------------------------------------------------------------------------
(* run(): shutdown *)

ShutdownSeen ==
    /\ phase = "running" /\ shutdown
    /\ phase' = "join"
    /\ UNCHANGED <<pc, joined, shutdown, authError, firstDone, code, revoked, history>>

JoinTurn(t) == phase = "join" /\ t \notin joined /\ Before(t) \subseteq joined

\* Mutant: the NetBox thread is not joined (its parameter defaults to None).
JoinAllButNetBox(t) ==
    /\ JoinTurn(t) /\ (pc[t] = "ended" \/ t = NetBox)
    /\ joined' = joined \cup {t}
    /\ UNCHANGED <<phase, pc, shutdown, authError, firstDone, code, revoked, history>>

Join(t) ==
    /\ JoinTurn(t) /\ pc[t] = "ended"
    /\ joined' = joined \cup {t}
    /\ UNCHANGED <<phase, pc, shutdown, authError, firstDone, code, revoked, history>>

\* Mutant: join() without a timeout.
JoinTimeoutNever(t) == FALSE /\ JoinTurn(t) /\ UNCHANGED vars

JoinTimeout(t) ==
    /\ JoinTurn(t) /\ pc[t] # "ended"
    /\ joined' = joined \cup {t}
    /\ timedOut' = TRUE
    /\ UNCHANGED <<phase, pc, shutdown, authError, firstDone, code, revoked, cause,
                   signalled>>

\* Mutant: no value is returned unless there was an auth error.
DecideCodeOnlyAuth ==
    /\ phase = "join" /\ joined = Thread
    /\ phase' = "exited"
    /\ code' = IF authError THEN 2 ELSE None
    /\ UNCHANGED <<pc, joined, shutdown, authError, firstDone, revoked, history>>

\* Mutant: a shutdown that left threads behind counts as an auth error.
DecideCodeTimedOut ==
    /\ phase = "join" /\ joined = Thread
    /\ phase' = "exited"
    /\ code' = IF authError \/ timedOut THEN 2 ELSE 0
    /\ UNCHANGED <<pc, joined, shutdown, authError, firstDone, revoked, history>>

\* _final_exit_code
DecideCode ==
    /\ phase = "join" /\ joined = Thread
    /\ phase' = "exited"
    /\ code' = IF authError THEN 2 ELSE 0
    /\ UNCHANGED <<pc, joined, shutdown, authError, firstDone, revoked, history>>

\* The interpreter still waits for the threads that are not daemons; the
\* workers die with it.
ProcessEnds ==
    /\ phase = "exited" /\ \A t \in Loop : pc[t] = "ended"
    /\ phase' = "gone"
    /\ UNCHANGED <<pc, joined, shutdown, authError, firstDone, code, revoked, history>>

-----------------------------------------------------------------------------
(* The threads *)

Alive == phase # "gone"

\* The scheduler's finally clause and its first attempt release the checker.
Released(t) == firstDone' = (firstDone \/ t = NetBox)

\* ev.wait(30) does not look at the shutdown event.
GatePassed ==
    /\ Alive /\ pc[Checker] = "gate" /\ firstDone
    /\ Goto(Checker, "top")
    /\ UNCHANGED <<phase, joined, shutdown, authError, firstDone, code, revoked,
                   history>>

GateTimeout ==
    /\ Alive /\ pc[Checker] = "gate" /\ ~firstDone
    /\ Goto(Checker, "top")
    /\ UNCHANGED <<phase, joined, shutdown, authError, firstDone, code, revoked,
                   history>>

BeginRound(t) ==
    /\ Alive /\ pc[t] = "top" /\ ~shutdown
    /\ Goto(t, "work")
    /\ UNCHANGED <<phase, joined, shutdown, authError, firstDone, code, revoked,
                   history>>

\* A round that succeeds or whose error is logged; workers have no wait.
EndRound(t) ==
    /\ Alive /\ pc[t] = "work"
    /\ Goto(t, IF t \in Worker THEN "top" ELSE "wait")
    /\ Released(t)
    /\ UNCHANGED <<phase, joined, shutdown, authError, code, revoked, history>>

\* The wait for the next round is over.
NextRound(t) ==
    /\ Alive /\ pc[t] = "wait" /\ ~shutdown
    /\ Goto(t, "top")
    /\ UNCHANGED <<phase, joined, shutdown, authError, firstDone, code, revoked,
                   history>>

\* Mutant: only the top of the loop looks at the event, the wait is a sleep
\* whose end nothing hastens.
StopsOnlyAtTop(t) ==
    /\ Alive /\ pc[t] = "top" /\ shutdown
    /\ Goto(t, "ended")
    /\ Released(t)
    /\ UNCHANGED <<phase, joined, shutdown, authError, code, revoked, history>>

Stops(t) ==
    /\ Alive /\ pc[t] \in {"top", "wait"} /\ shutdown
    /\ Goto(t, "ended")
    /\ Released(t)
    /\ UNCHANGED <<phase, joined, shutdown, authError, code, revoked, history>>

Observes401(t) ==
    /\ Alive /\ pc[t] = "work" /\ revoked
    /\ Goto(t, "unauth")
    /\ UNCHANGED <<phase, joined, shutdown, authError, firstDone, code, revoked,
                   history>>

\* Mutant: the shutdown event is set before the auth event.
StopTheWorldSwapped(t) ==
    /\ Alive
    /\ \/ /\ pc[t] = "unauth"
          /\ SetShutdown("auth")
          /\ Goto(t, "signal")
          /\ UNCHANGED <<authError, firstDone>>
       \/ /\ pc[t] = "signal"
          /\ authError' = TRUE
          /\ Goto(t, IF t \in Worker THEN "top" ELSE "ended")
          /\ Released(t)
          /\ UNCHANGED <<shutdown, cause>>
    /\ UNCHANGED <<phase, joined, code, revoked, signalled, timedOut>>

\* Every thread sets auth_error_event first and shutdown_event second.
StopTheWorld(t) ==
    /\ Alive
    /\ \/ /\ pc[t] = "unauth"
          /\ authError' = TRUE
          /\ Goto(t, "signal")
          /\ UNCHANGED <<shutdown, firstDone, cause>>
       \/ /\ pc[t] = "signal"
          /\ SetShutdown("auth")
          /\ Goto(t, IF t \in Worker THEN "top" ELSE "ended")
          /\ Released(t)
          /\ UNCHANGED authError
    /\ UNCHANGED <<phase, joined, code, revoked, signalled, timedOut>>

\* Mutant: the catch-all logs and ends the thread, the others run on.
UnhandledSilent(t) ==
    /\ Alive /\ t \in Loop /\ pc[t] = "work"
    /\ Goto(t, "ended")
    /\ Released(t)
    /\ UNCHANGED <<phase, joined, shutdown, authError, code, revoked, history>>

\* The catch-all around the loop (a response or configuration the code cannot
\* read): the thread takes the agent down.
Unhandled(t) ==
    /\ Alive /\ t \in Loop /\ pc[t] = "work"
    /\ SetShutdown("fault")
    /\ Goto(t, "ended")
    /\ Released(t)
    /\ UNCHANGED <<phase, joined, authError, code, revoked, signalled, timedOut>>

-----------------------------------------------------------------------------
(* The environment *)

Revoke ==
    /\ ~revoked
    /\ revoked' = TRUE
    /\ UNCHANGED <<phase, pc, joined, shutdown, authError, firstDone, code, history>>

\* Handlers installed: the signal becomes the shutdown event.
SignalHandled ==
    /\ phase \in {"start", "running", "join"}
    /\ SetShutdown("signal")
    /\ signalled' = TRUE
    /\ UNCHANGED <<phase, pc, joined, authError, firstDone, code, revoked, timedOut>>

\* Before that the default action ends the process; as process 1 of a container
\* the agent does not get the signal at all, and its supervisor's SIGKILL ends it.
SignalKills ==
    /\ phase \in {"boot", "replay", "install"}
    /\ Quit(Killed)
    /\ signalled' = TRUE
    /\ UNCHANGED <<pc, joined, shutdown, authError, firstDone, revoked, cause, timedOut>>

-----------------------------------------------------------------------------

StartUp ==
    \/ BootSucceeds \/ BootFails \/ BootUnauthorized
    \/ ReplayEnds \/ ReplayUnauthorized \/ InstallHandlers
    \/ (\E t \in Thread : StartThread(t)) \/ AllStarted

ShutDown ==
    \/ ShutdownSeen
    \/ \E t \in Thread : Join(t) \/ JoinTimeout(t)
    \/ DecideCode \/ ProcessEnds

\* What a thread does without waiting for NetBox, a host or the dashboard.
OwnStep(t) ==
    \/ t = Checker /\ (GatePassed \/ GateTimeout)
    \/ BeginRound(t) \/ NextRound(t) \/ Stops(t) \/ StopTheWorld(t)

RoundEnds(t) == EndRound(t) \/ Observes401(t) \/ Unhandled(t)

Next ==
    \/ StartUp \/ ShutDown
    \/ \E t \in Thread : OwnStep(t) \/ RoundEnds(t)
    \/ Revoke \/ SignalHandled \/ SignalKills

Spec == Init /\ [][Next]_vars

\* The main thread and the threads are scheduled and joins time out; a round
\* may take for ever (a host or a server that never answers).
HangingSpec ==
    /\ Spec
    /\ WF_vars(StartUp) /\ WF_vars(ShutDown)
    /\ \A t \in Thread : WF_vars(OwnStep(t))

\* Rounds end, and a revoked agent's heartbeat gets its 401 some time.  The retry
\* loops let go on shutdown and the calls to the dashboard and to hosts have
\* timeouts; the fetch from NetBox has none (netbox_client.py:129-132), so that in a
\* NetBox sync this is an assumption on NetBox.
\* Assumed by the properties that name it and by no other.
RoundsEnd ==
    /\ \A t \in Thread : WF_vars(RoundEnds(t))
    /\ SF_vars(Observes401(Heartbeat))

-----------------------------------------------------------------------------
(* Properties *)

\* A shutdown that began with a 401 exits with code 2, also when joins time out
\* and other threads end first (runner.py: a supervisor must not restart then).
\* It depends on the order in which every thread sets the two events.
AuthShutdownExits2 ==
    phase \in {"exited", "gone"} /\ cause = "auth" => code = 2

\* The agent never runs headless: when one of the three loops has ended, every
\* other thread has been told to stop.
NeverHeadless == (\E t \in Loop : pc[t] = "ended") => shutdown

\* If every join succeeded, the exit code is final: no thread finds out about a
\* revocation after it was decided.
CodeIsFinal ==
    phase \in {"exited", "gone"} /\ ~timedOut /\ code \in {0, 2} /\ joined # {}
        => (code = 2 <=> authError)

\* The inductive form of the three: joins come after shutdown, the auth event
\* before it, and a thread whose join succeeded does not run on.
JoinInv ==
    /\ phase \in {"boot", "replay", "install"} =>
          ~shutdown /\ ~authError /\ cause = "none"
    /\ phase \in {"join", "exited"} => shutdown
    /\ shutdown = FALSE /\ phase # "gone" => cause = "none"
    /\ joined # {} => phase \in {"join", "exited", "gone"}
    /\ phase = "exited" => joined = Thread
    /\ phase = "gone" => joined \in {{}, Thread}
    /\ ~timedOut => \A t \in joined : pc[t] = "ended"

AuthInv ==
    /\ \A t \in Thread : pc[t] = "signal" => authError
    /\ cause = "auth" /\ phase # "gone" => authError

IInv == /\ TypeOK /\ JoinInv /\ AuthInv
        /\ AuthShutdownExits2 /\ NeverHeadless /\ CodeIsFinal

\* What a supervisor may conclude from the exit code: 2, on which it must not
\* restart the agent, only ever follows a revocation, and 0, on which it need not,
\* a signal or an exception nobody handled, but never a revocation noticed first.
CodeHasCause ==
    /\ code = 2 => revoked
    /\ code = 0 => signalled \/ cause = "fault"

\* The exit code tells a supervisor, to the end, what stopped the agent.
ExitCodeRight == AuthShutdownExits2 /\ CodeHasCause /\ CodeIsFinal

\* The inductive form: who has seen a 401 was answered one, and what set the
\* shutdown event is known and does not change.
CauseInv ==
    /\ authError => revoked
    /\ \A t \in Thread : pc[t] \in {"unauth", "signal"} => revoked
    /\ cause = "signal" => signalled
    /\ shutdown => cause \in {"signal", "auth", "fault"}
    /\ code = 0 => shutdown

\* The threads of this module are what AgentThread promises of each of them: the
\* modules that look into the rounds implement the same promise.
Place(t) == CASE pc[t] \in {"work", "unauth", "signal"} -> "round"
              [] pc[t] = "ended"                       -> "ended"
              [] OTHER                                 -> "out"

Left(t) == CASE pc[t] = "work" -> 4 [] pc[t] \in {"unauth", "new"} -> 3
             [] pc[t] \in {"signal", "gate"} -> 2
             [] pc[t] \in {"top", "wait"} -> 1 [] pc[t] = "ended" -> 0

Threads == INSTANCE AgentThread WITH
    place <- [t \in Thread |-> Place(t)],
    left  <- [t \in Thread |-> Left(t)]

AreAgentThreads == Threads!TSpec

\* Whatever the threads are stuck in, shutdown leads to an exit code.
ShutdownDecides == shutdown ~> code # None

\* The process itself ends; nothing waits on anything for ever.
ProcessGone == shutdown ~> phase = "gone"

\* README.md:207-210: a revoked agent shuts itself down, with exit code 2 unless
\* it was going down for another reason.
RevokedStops ==
    revoked /\ phase = "running" ~> phase = "gone" /\ (code = 2 \/ cause # "auth")

\* If calls end, so does the agent: after a shutdown and after a revocation.
AgentStops == RoundsEnd => ProcessGone /\ RevokedStops

-----------------------------------------------------------------------------
(* What comments and documentation say and the code does not do *)

\* README.md:177: 0 is a clean shutdown via SIGTERM or SIGINT.
CleanExitMeansSignal == code = 0 => signalled

=============================================================================
