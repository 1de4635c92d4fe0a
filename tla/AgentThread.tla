---------------------------- MODULE AgentThread -----------------------------
(***************************************************************************)
(* What runner.py relies on from each thread it starts, whatever the       *)
(* thread's rounds consist of: a round begins only while shutdown is not   *)
(* signalled, nothing clears the event, a thread that ends, on whatever    *)
(* path, leaves the event set behind it, and once it is set every step     *)
(* brings the thread closer to its end.  AgentRunner joins such threads;   *)
(* the modules that look into the rounds implement them.                   *)
(***************************************************************************)
EXTENDS Naturals

CONSTANT Thread

VARIABLES
    place,     \* thread -> "out" between rounds, "round" or "ended"
    left,      \* thread -> a bound on its steps once shutdown is set
    shutdown   \* shutdown_event

tvars == <<place, left, shutdown>>

TInit ==
    /\ place = [t \in Thread |-> "out"]
    /\ left \in [Thread -> Nat]
    /\ shutdown = FALSE

\* Thread t, and no other, goes from one place to another.
Move(t, from, to) ==
    /\ place[t] \in from
    /\ place' = [place EXCEPT ![t] = to]
    /\ left' = [left EXCEPT ![t] = left'[t]]
    /\ left'[t] \in Nat

\* What keeps a thread from going on for ever after shutdown.
Closer(t) == shutdown => left'[t] < left[t]

BeginRound(t) == ~shutdown /\ Move(t, {"out"}, "round") /\ UNCHANGED shutdown

\* Inside a round and at its end; a round may find a reason to stop the agent.
Work(t) ==
    /\ \E to \in {"round", "out"} : Move(t, {"round"}, to)
    /\ Closer(t)
    /\ shutdown' \in {shutdown, TRUE}

\* Between two rounds: a gate, or the wait for the next round.
Wait(t) == Move(t, {"out"}, "out") /\ Closer(t) /\ UNCHANGED shutdown

\* In good order after shutdown, or taking the agent down with it.
End(t) == Move(t, {"out", "round"}, "ended") /\ shutdown' = TRUE

\* A signal, or a part of the agent that is not a member of Thread.
Signal == shutdown' = TRUE /\ UNCHANGED <<place, left>>

TNext ==
    \/ \E t \in Thread : BeginRound(t) \/ Work(t) \/ Wait(t) \/ End(t)
    \/ Signal

TSpec == TInit /\ [][TNext]_tvars

-----------------------------------------------------------------------------

\* What the promise comes to for the agent as a whole: it never runs headless.
EndedAfterShutdown == (\E t \in Thread : place[t] = "ended") => shutdown

=============================================================================
