-------------------------- MODULE AgentThreadProofs --------------------------
(***************************************************************************)
(* What follows for any set of threads that keep the promise of            *)
(* AgentThread, whatever they do in their rounds.                          *)
(***************************************************************************)
EXTENDS AgentThread, TLAPS

TTypeOK ==
    /\ place \in [Thread -> {"out", "round", "ended"}]
    /\ left \in [Thread -> Nat]
    /\ shutdown \in BOOLEAN

LEMMA Typing == TSpec => []TTypeOK
<1>1. TInit => TTypeOK
  BY DEF TInit, TTypeOK
<1>2. TTypeOK /\ [TNext]_tvars => TTypeOK'
  <2> SUFFICES ASSUME TTypeOK, [TNext]_tvars PROVE TTypeOK'
    OBVIOUS
  <2>1. ASSUME NEW t \in Thread, NEW from,
               NEW to \in {"out", "round", "ended"}, Move(t, from, to)
        PROVE  /\ place' \in [Thread -> {"out", "round", "ended"}]
               /\ left' \in [Thread -> Nat]
    BY <2>1 DEF Move, TTypeOK
  <2> QED
    BY <2>1 DEF TNext, BeginRound, Work, Wait, End, Signal, TTypeOK, tvars
<1> QED
  BY <1>1, <1>2, PTL DEF TSpec

\* The agent never runs headless: a thread that has ended, on whatever path, has
\* left the shutdown event set behind it.
THEOREM NeverHeadless == TSpec => []EndedAfterShutdown
<1>1. TInit => EndedAfterShutdown
  BY DEF TInit, EndedAfterShutdown
<1>2. TTypeOK /\ EndedAfterShutdown /\ [TNext]_tvars => EndedAfterShutdown'
  BY DEF TTypeOK, EndedAfterShutdown, TNext, BeginRound, Work, Wait, End, Signal,
         Move, tvars
<1> QED
  BY <1>1, <1>2, Typing, PTL DEF TSpec

\* After shutdown there is no way back: the event stays set, no thread begins a
\* round or leaves its end, and none gets farther from it.
THEOREM NoWayBack ==
    TSpec => [][shutdown =>
                   /\ shutdown'
                   /\ \A t \in Thread :
                         /\ place[t] = "out" => place'[t] # "round"
                         /\ place[t] = "ended" => place'[t] = "ended"
                         /\ left'[t] <= left[t] \/ place'[t] = "ended"]_tvars
<1> DEFINE Onward ==
      shutdown =>
          /\ shutdown'
          /\ \A t \in Thread :
                /\ place[t] = "out" => place'[t] # "round"
                /\ place[t] = "ended" => place'[t] = "ended"
                /\ left'[t] <= left[t] \/ place'[t] = "ended"
<1>1. TTypeOK /\ [TNext]_tvars => [Onward]_tvars
  <2>1. ASSUME TTypeOK, shutdown, NEW u \in Thread, Work(u) \/ Wait(u) \/ End(u),
               NEW t \in Thread
        PROVE  /\ shutdown'
               /\ place[t] = "out" => place'[t] # "round"
               /\ place[t] = "ended" => place'[t] = "ended"
               /\ left'[t] <= left[t] \/ place'[t] = "ended"
    <3>1. shutdown'
      BY <2>1 DEF Work, Wait, End
    <3>2. PICK from \in {{"out"}, {"round"}, {"out", "round"}},
               to \in {"out", "round", "ended"} :
             /\ Move(u, from, to)
             /\ to = "round" => from = {"round"}
             /\ to = "ended" \/ left'[u] < left[u]
      BY <2>1 DEF Work, Wait, End, Closer
    <3>3. /\ place'[t] = IF t = u THEN to ELSE place[t]
          /\ t # u => left'[t] = left[t]
          /\ place[u] \in from
          /\ left[t] \in Nat
          /\ left'[u] \in Nat
      BY <2>1, <3>2 DEF Move, TTypeOK
    <3> QED
      BY <3>1, <3>2, <3>3
  <2>2. ASSUME TTypeOK, shutdown, Signal
        PROVE  shutdown' /\ UNCHANGED <<place, left>>
    BY <2>2 DEF Signal
  <2>3. TTypeOK => \A t \in Thread : left[t] <= left[t]
    BY DEF TTypeOK
  <2> QED
    BY <2>1, <2>2, <2>3 DEF TNext, BeginRound
<1> QED
  BY <1>1, Typing, PTL DEF TSpec

=============================================================================
