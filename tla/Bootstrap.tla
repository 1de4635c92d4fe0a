------------------------------ MODULE Bootstrap ------------------------------
(***************************************************************************)
(* bootstrap.py and agent_state.py: how the agent gets its identity and    *)
(* its first configuration, across crashes and lost answers.  A            *)
(* registration token buys one agent id; agent.json keeps it.  Agent ids   *)
(* and tokens are numbers; the dashboard and the operator are external.    *)
(* What a call comes back with is the matter of DashboardClient.           *)
(*                                                                         *)
(* pc, the place in bootstrap():                                           *)
(*    "down"      no process            "backoff"  in clock.sleep          *)
(*    "load"      environment checked   "save"     registered, not saved   *)
(*    "register"  about to register     "fetch"    in get_config           *)
(*    "await"     request under way     "ready"    bootstrap has returned  *)
(***************************************************************************)
EXTENDS Integers, FiniteSets, DashboardClient

CONSTANTS
    MaxTokens,   \* bound: tokens the operator obtains
    MaxFaults    \* bound: crashes, damages and answers nothing calls for

ASSUME BootstrapBounds == MaxTokens \in Nat \ {0} /\ MaxFaults \in Nat

VARIABLES
    creds,     \* agent.json: Absent, Corrupt or an agent id
    token,     \* REGISTRATION_TOKEN of the environment
    pc,
    me,        \* the agent id in memory
    config,    \* initial_config: "none", "default" (DEFAULT_CONFIG) or "real"
    code,      \* exit code of the last run, 0 if it was not bootstrap that failed
    consumed,  \* dashboard: tokens already used
    issued,    \* dashboard: how many agents it has registered
    revoked,   \* dashboard: agents it has revoked
    late,      \* tokens in requests nobody waits for any more
    faults

disk      == <<creds, token>>
process   == <<pc, me, config, code>>
dashboard == <<consumed, issued, revoked, late>>
vars      == <<disk, process, dashboard, faults>>

Absent  == 0
Corrupt == -1
Token   == 1 .. MaxTokens
AgentId == 1 .. MaxTokens   \* a token buys one id at most

TypeOK ==
    /\ creds \in AgentId \cup {Absent, Corrupt}
    /\ token \in Token
    /\ pc \in {"down", "load", "register", "await", "backoff", "save", "fetch",
               "ready"}
    /\ me \in AgentId \cup {Absent}
    /\ config \in {"none", "default", "real"}
    /\ code \in {0, 1}
    /\ consumed \subseteq Token
    /\ issued \in 0 .. MaxTokens
    /\ revoked \subseteq 1 .. issued
    /\ late \subseteq Token
    /\ faults \in 0 .. MaxFaults
    /\ config # "none" <=> pc = "ready"
    /\ me = Absent <=> pc \notin {"save", "fetch", "ready"}

Init ==
    /\ creds = Absent
    /\ token = 1
    /\ pc = "down" /\ me = Absent /\ config = "none" /\ code = 0
    /\ consumed = {} /\ issued = 0 /\ revoked = {} /\ late = {}
    /\ faults = 0

Fault == faults < MaxFaults /\ faults' = faults + 1

\* The dashboard may be out at any time and as often as it likes; an answer that
\* neither that nor the request explains is a fault.
Answers(w) == IF w \in Outage THEN UNCHANGED faults ELSE Fault

\* The classes no except clause before DashboardError's retries or returns.
Final == {Request(w) : w \in Wire} \ (Retriable \cup {"value"})

Goto(step) == pc' = step /\ UNCHANGED <<me, config, code>>

\* The process is gone, with what it had in memory.
Leave(c) == pc' = "down" /\ me' = Absent /\ config' = "none" /\ code' = c

-----------------------------------------------------------------------------
(* bootstrap *)

Start ==
    /\ pc = "down"
    /\ pc' = "load" /\ code' = 0
    /\ UNCHANGED <<disk, me, config, dashboard, faults>>

\* load_credentials returns None: first run.
LoadAbsent ==
    /\ pc = "load" /\ creds = Absent
    /\ Goto("register")
    /\ UNCHANGED <<disk, dashboard, faults>>

\* Mutant: a file that does not parse is a first run, too.
LoadCorruptRegisters ==
    /\ pc = "load" /\ creds = Corrupt
    /\ Goto("register")
    /\ UNCHANGED <<disk, dashboard, faults>>

\* CredentialsCorruptError: exit 1, the operator must look.
LoadCorrupt ==
    /\ pc = "load" /\ creds = Corrupt
    /\ Leave(1)
    /\ UNCHANGED <<disk, dashboard, faults>>

LoadFound ==
    /\ pc = "load" /\ creds \in AgentId
    /\ pc' = "fetch" /\ me' = creds
    /\ UNCHANGED <<disk, config, code, dashboard, faults>>

SendRegister ==
    /\ pc = "register"
    /\ Goto("await")
    /\ UNCHANGED <<disk, dashboard, faults>>

\* The dashboard takes the token and creates an agent.
Buy == consumed' = consumed \cup {token} /\ issued' = issued + 1

\* Mutant: the new identity is used before it is saved.
RegisteredUnsaved ==
    /\ pc = "await" /\ token \notin consumed
    /\ Buy
    /\ pc' = "fetch" /\ me' = issued'
    /\ UNCHANGED <<disk, config, code, revoked, late, faults>>

Registered ==
    /\ pc = "await" /\ token \notin consumed
    /\ Buy
    /\ pc' = "save" /\ me' = issued'
    /\ UNCHANGED <<disk, config, code, revoked, late, faults>>

\* 401 or 409: a used token; BootstrapError, exit 1.
TokenRejected ==
    /\ pc = "await" /\ token \in consumed
    /\ \E w \in {"401", "409"} : Request(w) \in Final
    /\ Leave(1)
    /\ UNCHANGED <<disk, dashboard, faults>>

\* Every other class that is not retriable: BootstrapError, exit 1.  With a 201
\* whose body is not JSON the token is used all the same.
RegisterFatal ==
    /\ pc = "await"
    /\ \E w \in Wire :
          /\ Request(w) \in Final /\ Answers(w)
          /\ \/ UNCHANGED <<consumed, issued>>
             \/ w = "2xx_text" /\ token \notin consumed /\ Buy
    /\ Leave(1)
    /\ UNCHANGED <<disk, revoked, late>>

\* DashboardRetriableError; unless it was turned away, the request may still be
\* under way.
RegisterRetriable ==
    /\ pc = "await"
    /\ \E w \in Wire :
          /\ Request(w) \in Retriable /\ Answers(w)
          /\ \/ late' = late
             \/ w # "429" /\ late' = late \cup {token}
    /\ Goto("backoff")
    /\ UNCHANGED <<disk, consumed, issued, revoked>>

BackoffOver ==
    /\ pc = "backoff"
    /\ Goto("register")
    /\ UNCHANGED <<disk, dashboard, faults>>

\* save_credentials: the rename (a stray agent.json.tmp is never read).
SaveRename ==
    /\ pc = "save"
    /\ creds' = me
    /\ Goto("fetch")
    /\ UNCHANGED <<token, dashboard, faults>>

\* A full disk: the exception ends the run, exit 1.
SaveFails ==
    /\ Fault
    /\ pc = "save"
    /\ Leave(1)
    /\ UNCHANGED <<disk, dashboard>>

Fetched ==
    /\ pc = "fetch" /\ me \notin revoked
    /\ pc' = "ready" /\ config' = "real"
    /\ UNCHANGED <<disk, me, code, dashboard, faults>>

\* Retriable: DEFAULT_CONFIG, after one attempt (max_attempts = 1).
FetchRetriable ==
    /\ pc = "fetch"
    /\ \E w \in Wire : Request(w) \in Retriable /\ Answers(w)
    /\ pc' = "ready" /\ config' = "default"
    /\ UNCHANGED <<disk, me, code, dashboard>>

\* 401: BootstrapError, exit 1.
FetchRejected ==
    /\ pc = "fetch" /\ me \in revoked /\ Request("401") \in Final
    /\ Leave(1)
    /\ UNCHANGED <<disk, dashboard, faults>>

FetchFatal ==
    /\ pc = "fetch"
    /\ \E w \in Wire : Request(w) \in Final /\ Answers(w)
    /\ Leave(1)
    /\ UNCHANGED <<disk, dashboard>>

-----------------------------------------------------------------------------
(* The environment *)

\* The process dies, with a request under way or with an id not yet saved.
Crash ==
    /\ Fault
    /\ pc # "down"
    /\ Leave(0)
    /\ \/ late' = late
       \/ pc = "await" /\ late' = late \cup {token}
    /\ UNCHANGED <<disk, consumed, issued, revoked>>

\* A request nobody waits for is processed, or is lost.
LateRequest(t) ==
    /\ t \in late
    /\ late' = late \ {t}
    /\ \/ /\ t \notin consumed
          /\ consumed' = consumed \cup {t} /\ issued' = issued + 1
       \/ UNCHANGED <<consumed, issued>>
    /\ UNCHANGED <<disk, process, revoked, faults>>

Damage ==
    /\ Fault
    /\ pc = "down" /\ creds \in AgentId
    /\ creds' = Corrupt
    /\ UNCHANGED <<token, process, dashboard>>

Revoke(a) ==
    /\ a \in 1 .. issued \ revoked
    /\ revoked' = revoked \cup {a}
    /\ UNCHANGED <<disk, process, consumed, issued, late, faults>>

\* The operator removes agent.json after a revocation or damage.
OperatorClears ==
    /\ pc = "down" /\ creds \in revoked \cup {Corrupt}
    /\ creds' = Absent
    /\ UNCHANGED <<token, process, dashboard, faults>>

\* ... and obtains a new token when the old one is used.
OperatorNewToken ==
    /\ pc = "down" /\ creds = Absent /\ token \in consumed /\ token < MaxTokens
    /\ token' = token + 1
    /\ UNCHANGED <<creds, process, dashboard, faults>>

-----------------------------------------------------------------------------

Run ==
    \/ LoadAbsent \/ LoadCorrupt \/ LoadFound
    \/ SendRegister \/ Registered \/ TokenRejected \/ RegisterRetriable
    \/ BackoffOver \/ SaveRename
    \/ Fetched \/ FetchRetriable \/ FetchRejected

Failures == RegisterFatal \/ SaveFails \/ FetchFatal \/ Crash \/ Damage

Environment ==
    \/ \E t \in Token : LateRequest(t)
    \/ \E a \in AgentId : Revoke(a)
    \/ OperatorClears \/ OperatorNewToken

Next == Start \/ Run \/ Failures \/ Environment

Spec == Init /\ [][Next]_vars

\* The process is scheduled and every call ends.  Nothing is assumed of what the
\* dashboard answers.
FairSpec == Spec /\ WF_vars(Run)

-----------------------------------------------------------------------------
(* Properties *)

\* The agent registers only when it has no credentials file: a damaged one is
\* never taken for a first run, which would abandon the dashboard's record of
\* the agent (load_credentials).
RegistersOnlyWithoutFile ==
    pc \in {"register", "await", "backoff", "save"} => creds = Absent

\* An identity the agent works under is the one it would find again after a
\* crash: it is on disk before the first request that uses it (save_credentials
\* before get_config).
IdentityDurable == pc \in {"fetch", "ready"} => creds = me

\* No identity on disk is given up for a new one, and none is used before it is on
\* disk.  One that the dashboard has issued and the agent has not saved yet is lost
\* in a crash, and its token with it.
IdentityKept == RegistersOnlyWithoutFile /\ IdentityDurable

\* The inductive form: a token buys one agent.
IInv == TypeOK /\ issued = Cardinality(consumed) /\ IdentityKept

\* No run of the agent replaces an identity on disk, nor a damaged file that may
\* have held one, whatever the dashboard answers and wherever the run is cut off:
\* agent.json changes hands only through an operator (save_credentials).
NeverOverwritten == [][creds # Absent /\ creds' # creds => pc = "down"]_vars

\* A registered agent comes up also while the dashboard is out: it does not wait
\* for its first configuration (DEFAULT_CONFIG), and no outage, a 429 or a timeout
\* no less than a 5xx, ends its bootstrap.
ComesUp ==
    (pc = "load" /\ creds \in AgentId /\ faults = MaxFaults)
        ~> (pc = "ready" \/ creds \in revoked)

=============================================================================
