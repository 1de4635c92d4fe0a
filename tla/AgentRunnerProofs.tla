------------------------- MODULE AgentRunnerProofs --------------------------
(***************************************************************************)
(* Proofs about AgentRunner, for any set of action workers, with and       *)
(* without the NetBox thread.                                              *)
(***************************************************************************)
EXTENDS AgentRunner, TLAPS

\* The initial states satisfy the inductive invariant.
LEMMA InitInvariant == Init => IInv
<1> SUFFICES ASSUME Init PROVE IInv
  OBVIOUS
<1>1. TypeOK
  BY DistinctThreads DEF Init, TypeOK, None
<1>2. JoinInv /\ AuthInv
  BY DEF Init, JoinInv, AuthInv
<1>3. AuthShutdownExits2 /\ NeverHeadless /\ CodeIsFinal
  BY DEF Init, AuthShutdownExits2, NeverHeadless, CodeIsFinal, Thread
<1> QED
  BY <1>1, <1>2, <1>3 DEF IInv

\* Every step preserves the inductive invariant.
LEMMA StepInvariant == IInv /\ [Next]_vars => IInv'
<1> SUFFICES ASSUME IInv, [Next]_vars PROVE IInv'
  OBVIOUS
<1>0. /\ TypeOK /\ JoinInv /\ AuthInv
      /\ AuthShutdownExits2 /\ NeverHeadless /\ CodeIsFinal
  BY DEF IInv
<1>a. /\ Loop \subseteq Thread /\ Heartbeat \in Thread /\ Checker \in Thread
      /\ None = -1 /\ Killed = 143
  BY DEF Loop, Thread, None, Killed
<1> USE <1>0, <1>a
<1>1. CASE BootSucceeds
  <2>1. TypeOK'
    BY <1>1 DEF TypeOK, JoinInv, BootSucceeds, history
  <2>2. JoinInv'
    BY <1>1 DEF JoinInv, TypeOK, BootSucceeds, history
  <2>3. AuthInv'
    BY <1>1 DEF AuthInv, JoinInv, TypeOK, BootSucceeds, history
  <2>4. AuthShutdownExits2'
    BY <1>1 DEF AuthShutdownExits2, AuthInv, JoinInv, BootSucceeds, history
  <2>5. NeverHeadless'
    BY <1>1 DEF NeverHeadless, AuthInv, TypeOK, BootSucceeds, history
  <2>6. CodeIsFinal'
    BY <1>1 DEF CodeIsFinal, JoinInv, TypeOK, BootSucceeds, history
  <2> QED
    BY <2>1, <2>2, <2>3, <2>4, <2>5, <2>6 DEF IInv
<1>2. CASE BootFails
  <2>1. TypeOK'
    BY <1>2 DEF TypeOK, JoinInv, BootFails, Quit, history
  <2>2. JoinInv'
    BY <1>2 DEF JoinInv, TypeOK, BootFails, Quit, history
  <2>3. AuthInv'
    BY <1>2 DEF AuthInv, JoinInv, TypeOK, BootFails, Quit, history
  <2>4. AuthShutdownExits2'
    BY <1>2 DEF AuthShutdownExits2, AuthInv, JoinInv, BootFails, Quit, history
  <2>5. NeverHeadless'
    BY <1>2 DEF NeverHeadless, AuthInv, TypeOK, BootFails, Quit, history
  <2>6. CodeIsFinal'
    BY <1>2 DEF CodeIsFinal, JoinInv, TypeOK, BootFails, Quit, history
  <2> QED
    BY <2>1, <2>2, <2>3, <2>4, <2>5, <2>6 DEF IInv
<1>3. CASE BootUnauthorized
  <2>1. TypeOK'
    BY <1>3 DEF TypeOK, JoinInv, BootUnauthorized, Quit
  <2>2. JoinInv'
    BY <1>3 DEF JoinInv, TypeOK, BootUnauthorized, Quit
  <2>3. AuthInv'
    BY <1>3 DEF AuthInv, JoinInv, TypeOK, BootUnauthorized, Quit
  <2>4. AuthShutdownExits2'
    BY <1>3 DEF AuthShutdownExits2, AuthInv, JoinInv, BootUnauthorized, Quit
  <2>5. NeverHeadless'
    BY <1>3 DEF NeverHeadless, AuthInv, TypeOK, BootUnauthorized, Quit
  <2>6. CodeIsFinal'
    BY <1>3 DEF CodeIsFinal, JoinInv, TypeOK, BootUnauthorized, Quit
  <2> QED
    BY <2>1, <2>2, <2>3, <2>4, <2>5, <2>6 DEF IInv
<1>4. CASE ReplayEnds
  <2>1. TypeOK'
    BY <1>4 DEF TypeOK, JoinInv, ReplayEnds, history
  <2>2. JoinInv'
    BY <1>4 DEF JoinInv, TypeOK, ReplayEnds, history
  <2>3. AuthInv'
    BY <1>4 DEF AuthInv, JoinInv, TypeOK, ReplayEnds, history
  <2>4. AuthShutdownExits2'
    BY <1>4 DEF AuthShutdownExits2, AuthInv, JoinInv, ReplayEnds, history
  <2>5. NeverHeadless'
    BY <1>4 DEF NeverHeadless, AuthInv, TypeOK, ReplayEnds, history
  <2>6. CodeIsFinal'
    BY <1>4 DEF CodeIsFinal, JoinInv, TypeOK, ReplayEnds, history
  <2> QED
    BY <2>1, <2>2, <2>3, <2>4, <2>5, <2>6 DEF IInv
<1>5. CASE ReplayUnauthorized
  <2>1. TypeOK'
    BY <1>5 DEF TypeOK, JoinInv, ReplayUnauthorized, Quit
  <2>2. JoinInv'
    BY <1>5 DEF JoinInv, TypeOK, ReplayUnauthorized, Quit
  <2>3. AuthInv'
    BY <1>5 DEF AuthInv, JoinInv, TypeOK, ReplayUnauthorized, Quit
  <2>4. AuthShutdownExits2'
    BY <1>5 DEF AuthShutdownExits2, AuthInv, JoinInv, ReplayUnauthorized, Quit
  <2>5. NeverHeadless'
    BY <1>5 DEF NeverHeadless, AuthInv, TypeOK, ReplayUnauthorized, Quit
  <2>6. CodeIsFinal'
    BY <1>5 DEF CodeIsFinal, JoinInv, TypeOK, ReplayUnauthorized, Quit
  <2> QED
    BY <2>1, <2>2, <2>3, <2>4, <2>5, <2>6 DEF IInv
<1>6. CASE InstallHandlers
  <2>1. TypeOK'
    BY <1>6 DEF TypeOK, JoinInv, InstallHandlers, history
  <2>2. JoinInv'
    BY <1>6 DEF JoinInv, TypeOK, InstallHandlers, history
  <2>3. AuthInv'
    BY <1>6 DEF AuthInv, JoinInv, TypeOK, InstallHandlers, history
  <2>4. AuthShutdownExits2'
    BY <1>6 DEF AuthShutdownExits2, AuthInv, JoinInv, InstallHandlers, history
  <2>5. NeverHeadless'
    BY <1>6 DEF NeverHeadless, AuthInv, TypeOK, InstallHandlers, history
  <2>6. CodeIsFinal'
    BY <1>6 DEF CodeIsFinal, JoinInv, TypeOK, InstallHandlers, history
  <2> QED
    BY <2>1, <2>2, <2>3, <2>4, <2>5, <2>6 DEF IInv
<1>7. ASSUME NEW t \in Thread, StartThread(t) PROVE IInv'
  <2>1. TypeOK'
    BY <1>7 DEF TypeOK, JoinInv, StartThread, Goto, history
  <2>2. JoinInv'
    BY <1>7 DEF JoinInv, TypeOK, StartThread, Goto, history
  <2>3. AuthInv'
    BY <1>7 DEF AuthInv, JoinInv, TypeOK, StartThread, Goto, history
  <2>4. AuthShutdownExits2'
    BY <1>7 DEF AuthShutdownExits2, AuthInv, JoinInv, StartThread, Goto, history
  <2>5. NeverHeadless'
    BY <1>7 DEF NeverHeadless, AuthInv, TypeOK, StartThread, Goto, history
  <2>6. CodeIsFinal'
    BY <1>7 DEF CodeIsFinal, JoinInv, TypeOK, StartThread, Goto, history
  <2> QED
    BY <2>1, <2>2, <2>3, <2>4, <2>5, <2>6 DEF IInv
<1>8. CASE AllStarted
  <2>1. TypeOK'
    BY <1>8 DEF TypeOK, JoinInv, AllStarted, history
  <2>2. JoinInv'
    BY <1>8 DEF JoinInv, TypeOK, AllStarted, history
  <2>3. AuthInv'
    BY <1>8 DEF AuthInv, JoinInv, TypeOK, AllStarted, history
  <2>4. AuthShutdownExits2'
    BY <1>8 DEF AuthShutdownExits2, AuthInv, JoinInv, AllStarted, history
  <2>5. NeverHeadless'
    BY <1>8 DEF NeverHeadless, AuthInv, TypeOK, AllStarted, history
  <2>6. CodeIsFinal'
    BY <1>8 DEF CodeIsFinal, JoinInv, TypeOK, AllStarted, history
  <2> QED
    BY <2>1, <2>2, <2>3, <2>4, <2>5, <2>6 DEF IInv
<1>9. CASE ShutdownSeen
  <2>1. TypeOK'
    BY <1>9 DEF TypeOK, JoinInv, ShutdownSeen, history
  <2>2. JoinInv'
    BY <1>9 DEF JoinInv, TypeOK, ShutdownSeen, history
  <2>3. AuthInv'
    BY <1>9 DEF AuthInv, JoinInv, TypeOK, ShutdownSeen, history
  <2>4. AuthShutdownExits2'
    BY <1>9 DEF AuthShutdownExits2, AuthInv, JoinInv, ShutdownSeen, history
  <2>5. NeverHeadless'
    BY <1>9 DEF NeverHeadless, AuthInv, TypeOK, ShutdownSeen, history
  <2>6. CodeIsFinal'
    BY <1>9 DEF CodeIsFinal, JoinInv, TypeOK, ShutdownSeen, history
  <2> QED
    BY <2>1, <2>2, <2>3, <2>4, <2>5, <2>6 DEF IInv
<1>10. ASSUME NEW t \in Thread, Join(t) PROVE IInv'
  <2>1. TypeOK'
    BY <1>10 DEF TypeOK, JoinInv, Join, JoinTurn, history
  <2>2. JoinInv'
    BY <1>10 DEF JoinInv, TypeOK, Join, JoinTurn, history
  <2>3. AuthInv'
    BY <1>10 DEF AuthInv, JoinInv, TypeOK, Join, JoinTurn, history
  <2>4. AuthShutdownExits2'
    BY <1>10 DEF AuthShutdownExits2, AuthInv, JoinInv, Join, JoinTurn, history
  <2>5. NeverHeadless'
    BY <1>10 DEF NeverHeadless, AuthInv, TypeOK, Join, JoinTurn, history
  <2>6. CodeIsFinal'
    BY <1>10 DEF CodeIsFinal, JoinInv, TypeOK, Join, JoinTurn, history
  <2> QED
    BY <2>1, <2>2, <2>3, <2>4, <2>5, <2>6 DEF IInv
<1>11. ASSUME NEW t \in Thread, JoinTimeout(t) PROVE IInv'
  <2>1. TypeOK'
    BY <1>11 DEF TypeOK, JoinInv, JoinTimeout, JoinTurn
  <2>2. JoinInv'
    BY <1>11 DEF JoinInv, TypeOK, JoinTimeout, JoinTurn
  <2>3. AuthInv'
    BY <1>11 DEF AuthInv, JoinInv, TypeOK, JoinTimeout, JoinTurn
  <2>4. AuthShutdownExits2'
    BY <1>11 DEF AuthShutdownExits2, AuthInv, JoinInv, JoinTimeout, JoinTurn
  <2>5. NeverHeadless'
    BY <1>11 DEF NeverHeadless, AuthInv, TypeOK, JoinTimeout, JoinTurn
  <2>6. CodeIsFinal'
    BY <1>11 DEF CodeIsFinal, JoinInv, TypeOK, JoinTimeout, JoinTurn
  <2> QED
    BY <2>1, <2>2, <2>3, <2>4, <2>5, <2>6 DEF IInv
<1>12. CASE DecideCode
  <2>1. TypeOK'
    BY <1>12 DEF TypeOK, JoinInv, DecideCode, history
  <2>2. JoinInv'
    BY <1>12 DEF JoinInv, TypeOK, DecideCode, history
  <2>3. AuthInv'
    BY <1>12 DEF AuthInv, JoinInv, TypeOK, DecideCode, history
  <2>4. AuthShutdownExits2'
    BY <1>12 DEF AuthShutdownExits2, AuthInv, JoinInv, DecideCode, history
  <2>5. NeverHeadless'
    BY <1>12 DEF NeverHeadless, AuthInv, TypeOK, DecideCode, history
  <2>6. CodeIsFinal'
    BY <1>12 DEF CodeIsFinal, JoinInv, TypeOK, DecideCode, history
  <2> QED
    BY <2>1, <2>2, <2>3, <2>4, <2>5, <2>6 DEF IInv
<1>13. CASE ProcessEnds
  <2>1. TypeOK'
    BY <1>13 DEF TypeOK, JoinInv, ProcessEnds, history
  <2>2. JoinInv'
    BY <1>13 DEF JoinInv, TypeOK, ProcessEnds, history
  <2>3. AuthInv'
    BY <1>13 DEF AuthInv, JoinInv, TypeOK, ProcessEnds, history
  <2>4. AuthShutdownExits2'
    BY <1>13 DEF AuthShutdownExits2, AuthInv, JoinInv, ProcessEnds, history
  <2>5. NeverHeadless'
    BY <1>13 DEF NeverHeadless, AuthInv, TypeOK, ProcessEnds, history
  <2>6. CodeIsFinal'
    BY <1>13 DEF CodeIsFinal, JoinInv, TypeOK, ProcessEnds, history
  <2> QED
    BY <2>1, <2>2, <2>3, <2>4, <2>5, <2>6 DEF IInv
<1>14. CASE GatePassed
  <2>1. TypeOK'
    BY <1>14 DEF TypeOK, JoinInv, GatePassed, Alive, Goto, history
  <2>2. JoinInv'
    BY <1>14 DEF JoinInv, TypeOK, GatePassed, Alive, Goto, history
  <2>3. AuthInv'
    BY <1>14 DEF AuthInv, JoinInv, TypeOK, GatePassed, Alive, Goto, history
  <2>4. AuthShutdownExits2'
    BY <1>14 DEF AuthShutdownExits2, AuthInv, JoinInv, GatePassed, Alive, Goto, history
  <2>5. NeverHeadless'
    BY <1>14 DEF NeverHeadless, AuthInv, TypeOK, GatePassed, Alive, Goto, history
  <2>6. CodeIsFinal'
    BY <1>14 DEF CodeIsFinal, JoinInv, TypeOK, GatePassed, Alive, Goto, history
  <2> QED
    BY <2>1, <2>2, <2>3, <2>4, <2>5, <2>6 DEF IInv
<1>15. CASE GateTimeout
  <2>1. TypeOK'
    BY <1>15 DEF TypeOK, JoinInv, GateTimeout, Alive, Goto, history
  <2>2. JoinInv'
    BY <1>15 DEF JoinInv, TypeOK, GateTimeout, Alive, Goto, history
  <2>3. AuthInv'
    BY <1>15 DEF AuthInv, JoinInv, TypeOK, GateTimeout, Alive, Goto, history
  <2>4. AuthShutdownExits2'
    BY <1>15 DEF AuthShutdownExits2, AuthInv, JoinInv, GateTimeout, Alive, Goto, history
  <2>5. NeverHeadless'
    BY <1>15 DEF NeverHeadless, AuthInv, TypeOK, GateTimeout, Alive, Goto, history
  <2>6. CodeIsFinal'
    BY <1>15 DEF CodeIsFinal, JoinInv, TypeOK, GateTimeout, Alive, Goto, history
  <2> QED
    BY <2>1, <2>2, <2>3, <2>4, <2>5, <2>6 DEF IInv
<1>16. ASSUME NEW t \in Thread, BeginRound(t) PROVE IInv'
  <2>1. TypeOK'
    BY <1>16 DEF TypeOK, JoinInv, BeginRound, Alive, Goto, history
  <2>2. JoinInv'
    BY <1>16 DEF JoinInv, TypeOK, BeginRound, Alive, Goto, history
  <2>3. AuthInv'
    BY <1>16 DEF AuthInv, JoinInv, TypeOK, BeginRound, Alive, Goto, history
  <2>4. AuthShutdownExits2'
    BY <1>16 DEF AuthShutdownExits2, AuthInv, JoinInv, BeginRound, Alive, Goto, history
  <2>5. NeverHeadless'
    BY <1>16 DEF NeverHeadless, AuthInv, TypeOK, BeginRound, Alive, Goto, history
  <2>6. CodeIsFinal'
    BY <1>16 DEF CodeIsFinal, JoinInv, TypeOK, BeginRound, Alive, Goto, history
  <2> QED
    BY <2>1, <2>2, <2>3, <2>4, <2>5, <2>6 DEF IInv
<1>17. ASSUME NEW t \in Thread, NextRound(t) PROVE IInv'
  <2>1. TypeOK'
    BY <1>17 DEF TypeOK, JoinInv, NextRound, Alive, Goto, history
  <2>2. JoinInv'
    BY <1>17 DEF JoinInv, TypeOK, NextRound, Alive, Goto, history
  <2>3. AuthInv'
    BY <1>17 DEF AuthInv, JoinInv, TypeOK, NextRound, Alive, Goto, history
  <2>4. AuthShutdownExits2'
    BY <1>17 DEF AuthShutdownExits2, AuthInv, JoinInv, NextRound, Alive, Goto, history
  <2>5. NeverHeadless'
    BY <1>17 DEF NeverHeadless, AuthInv, TypeOK, NextRound, Alive, Goto, history
  <2>6. CodeIsFinal'
    BY <1>17 DEF CodeIsFinal, JoinInv, TypeOK, NextRound, Alive, Goto, history
  <2> QED
    BY <2>1, <2>2, <2>3, <2>4, <2>5, <2>6 DEF IInv
<1>18. ASSUME NEW t \in Thread, Stops(t) PROVE IInv'
  <2>1. TypeOK'
    BY <1>18 DEF TypeOK, JoinInv, Stops, Alive, Goto, Released, history
  <2>2. JoinInv'
    BY <1>18 DEF JoinInv, TypeOK, Stops, Alive, Goto, Released, history
  <2>3. AuthInv'
    BY <1>18 DEF AuthInv, JoinInv, TypeOK, Stops, Alive, Goto, Released, history
  <2>4. AuthShutdownExits2'
    BY <1>18
    DEF AuthShutdownExits2, AuthInv, JoinInv, Stops, Alive, Goto, Released, history
  <2>5. NeverHeadless'
    BY <1>18 DEF NeverHeadless, AuthInv, TypeOK, Stops, Alive, Goto, Released, history
  <2>6. CodeIsFinal'
    BY <1>18 DEF CodeIsFinal, JoinInv, TypeOK, Stops, Alive, Goto, Released, history
  <2> QED
    BY <2>1, <2>2, <2>3, <2>4, <2>5, <2>6 DEF IInv
<1>19. ASSUME NEW t \in Thread, StopTheWorld(t) PROVE IInv'
  <2>a. pc' \in [Thread -> {"new", "gate", "top", "work", "wait", "unauth",
                           "signal", "ended"}]
    BY <1>19 DEF TypeOK, StopTheWorld, Goto
  <2>b. {shutdown', authError', firstDone'} \subseteq BOOLEAN
    <3>1. CASE pc[t] = "unauth"
      BY <1>19, <3>1 DEF TypeOK, StopTheWorld, SetShutdown
    <3>2. CASE pc[t] = "signal"
      BY <1>19, <3>2 DEF TypeOK, StopTheWorld, Released, SetShutdown
    <3> QED
      BY <1>19, <3>1, <3>2 DEF StopTheWorld
  <2>c. cause' \in {"none", "signal", "auth", "fault", "bootAuth"}
    BY <1>19 DEF TypeOK, StopTheWorld, SetShutdown
  <2>1. TypeOK'
    BY <1>19, <2>a, <2>b, <2>c DEF TypeOK, StopTheWorld, Alive, Goto
  <2>2. JoinInv'
    BY <1>19 DEF JoinInv, TypeOK, StopTheWorld, Alive, Goto, Released, SetShutdown
  <2>3. AuthInv'
    BY <1>19
    DEF AuthInv, JoinInv, TypeOK, StopTheWorld, Alive, Goto, Released, SetShutdown
  <2>4. AuthShutdownExits2'
    BY <1>19
    DEF AuthShutdownExits2, AuthInv, JoinInv, StopTheWorld, Alive, Goto, Released,
        SetShutdown
  <2>5. NeverHeadless'
    BY <1>19
    DEF NeverHeadless, AuthInv, TypeOK, StopTheWorld, Alive, Goto, Released, SetShutdown
  <2>6. CodeIsFinal'
    BY <1>19
    DEF CodeIsFinal, JoinInv, TypeOK, StopTheWorld, Alive, Goto, Released, SetShutdown
  <2> QED
    BY <2>1, <2>2, <2>3, <2>4, <2>5, <2>6 DEF IInv
<1>20. ASSUME NEW t \in Thread, EndRound(t) PROVE IInv'
  <2>1. TypeOK'
    BY <1>20 DEF TypeOK, JoinInv, EndRound, Alive, Goto, Released, history
  <2>2. JoinInv'
    BY <1>20 DEF JoinInv, TypeOK, EndRound, Alive, Goto, Released, history
  <2>3. AuthInv'
    BY <1>20 DEF AuthInv, JoinInv, TypeOK, EndRound, Alive, Goto, Released, history
  <2>4. AuthShutdownExits2'
    BY <1>20
    DEF AuthShutdownExits2, AuthInv, JoinInv, EndRound, Alive, Goto, Released, history
  <2>5. NeverHeadless'
    BY <1>20
    DEF NeverHeadless, AuthInv, TypeOK, EndRound, Alive, Goto, Released, history
  <2>6. CodeIsFinal'
    BY <1>20 DEF CodeIsFinal, JoinInv, TypeOK, EndRound, Alive, Goto, Released, history
  <2> QED
    BY <2>1, <2>2, <2>3, <2>4, <2>5, <2>6 DEF IInv
<1>21. ASSUME NEW t \in Thread, Observes401(t) PROVE IInv'
  <2>1. TypeOK'
    BY <1>21 DEF TypeOK, JoinInv, Observes401, Alive, Goto, history
  <2>2. JoinInv'
    BY <1>21 DEF JoinInv, TypeOK, Observes401, Alive, Goto, history
  <2>3. AuthInv'
    BY <1>21 DEF AuthInv, JoinInv, TypeOK, Observes401, Alive, Goto, history
  <2>4. AuthShutdownExits2'
    BY <1>21 DEF AuthShutdownExits2, AuthInv, JoinInv, Observes401, Alive, Goto, history
  <2>5. NeverHeadless'
    BY <1>21 DEF NeverHeadless, AuthInv, TypeOK, Observes401, Alive, Goto, history
  <2>6. CodeIsFinal'
    BY <1>21 DEF CodeIsFinal, JoinInv, TypeOK, Observes401, Alive, Goto, history
  <2> QED
    BY <2>1, <2>2, <2>3, <2>4, <2>5, <2>6 DEF IInv
<1>22. ASSUME NEW t \in Thread, Unhandled(t) PROVE IInv'
  <2>1. TypeOK'
    BY <1>22 DEF TypeOK, JoinInv, Unhandled, Alive, Goto, Released, SetShutdown
  <2>2. JoinInv'
    BY <1>22 DEF JoinInv, TypeOK, Unhandled, Alive, Goto, Released, SetShutdown
  <2>3. AuthInv'
    BY <1>22 DEF AuthInv, JoinInv, TypeOK, Unhandled, Alive, Goto, Released, SetShutdown
  <2>4. AuthShutdownExits2'
    BY <1>22
    DEF AuthShutdownExits2, AuthInv, JoinInv, Unhandled, Alive, Goto, Released,
        SetShutdown
  <2>5. NeverHeadless'
    BY <1>22
    DEF NeverHeadless, AuthInv, TypeOK, Unhandled, Alive, Goto, Released, SetShutdown
  <2>6. CodeIsFinal'
    BY <1>22
    DEF CodeIsFinal, JoinInv, TypeOK, Unhandled, Alive, Goto, Released, SetShutdown
  <2> QED
    BY <2>1, <2>2, <2>3, <2>4, <2>5, <2>6 DEF IInv
<1>23. CASE Revoke
  <2>1. TypeOK'
    BY <1>23 DEF TypeOK, JoinInv, Revoke, history
  <2>2. JoinInv'
    BY <1>23 DEF JoinInv, TypeOK, Revoke, history
  <2>3. AuthInv'
    BY <1>23 DEF AuthInv, JoinInv, TypeOK, Revoke, history
  <2>4. AuthShutdownExits2'
    BY <1>23 DEF AuthShutdownExits2, AuthInv, JoinInv, Revoke, history
  <2>5. NeverHeadless'
    BY <1>23 DEF NeverHeadless, AuthInv, TypeOK, Revoke, history
  <2>6. CodeIsFinal'
    BY <1>23 DEF CodeIsFinal, JoinInv, TypeOK, Revoke, history
  <2> QED
    BY <2>1, <2>2, <2>3, <2>4, <2>5, <2>6 DEF IInv
<1>24. CASE SignalHandled
  <2>1. TypeOK'
    BY <1>24 DEF TypeOK, JoinInv, SignalHandled, SetShutdown
  <2>2. JoinInv'
    BY <1>24 DEF JoinInv, TypeOK, SignalHandled, SetShutdown
  <2>3. AuthInv'
    BY <1>24 DEF AuthInv, JoinInv, TypeOK, SignalHandled, SetShutdown
  <2>4. AuthShutdownExits2'
    BY <1>24 DEF AuthShutdownExits2, AuthInv, JoinInv, SignalHandled, SetShutdown
  <2>5. NeverHeadless'
    BY <1>24 DEF NeverHeadless, AuthInv, TypeOK, SignalHandled, SetShutdown
  <2>6. CodeIsFinal'
    BY <1>24 DEF CodeIsFinal, JoinInv, TypeOK, SignalHandled, SetShutdown
  <2> QED
    BY <2>1, <2>2, <2>3, <2>4, <2>5, <2>6 DEF IInv
<1>25. CASE SignalKills
  <2>1. TypeOK'
    BY <1>25 DEF TypeOK, JoinInv, SignalKills, Quit
  <2>2. JoinInv'
    BY <1>25 DEF JoinInv, TypeOK, SignalKills, Quit
  <2>3. AuthInv'
    BY <1>25 DEF AuthInv, JoinInv, TypeOK, SignalKills, Quit
  <2>4. AuthShutdownExits2'
    BY <1>25 DEF AuthShutdownExits2, AuthInv, JoinInv, SignalKills, Quit
  <2>5. NeverHeadless'
    BY <1>25 DEF NeverHeadless, AuthInv, TypeOK, SignalKills, Quit
  <2>6. CodeIsFinal'
    BY <1>25 DEF CodeIsFinal, JoinInv, TypeOK, SignalKills, Quit
  <2> QED
    BY <2>1, <2>2, <2>3, <2>4, <2>5, <2>6 DEF IInv
<1>26. CASE UNCHANGED vars
  BY <1>26 DEF vars, history, IInv, TypeOK, JoinInv, AuthInv, AuthShutdownExits2,
    NeverHeadless, CodeIsFinal
<1> QED
  BY <1>1, <1>2, <1>3, <1>4, <1>5, <1>6, <1>7, <1>8, <1>9, <1>10, <1>11, <1>12, <1>13,
     <1>14, <1>15, <1>16, <1>17, <1>18, <1>19, <1>20, <1>21, <1>22, <1>23, <1>24,
      <1>25, <1>26 DEF Next, StartUp, ShutDown, OwnStep,
    RoundEnds

\* The inductive invariant of the agent's life.
THEOREM Invariance == Spec => []IInv
BY InitInvariant, StepInvariant, PTL DEF Spec

\* Type correctness.
THEOREM TypeCorrectness == Spec => []TypeOK
<1>1. IInv => TypeOK
  BY DEF IInv
<1> QED
  BY <1>1, Invariance, PTL

\* A shutdown that began with a 401 exits with code 2.
THEOREM RevocationIsTold == Spec => []AuthShutdownExits2
<1>1. IInv => AuthShutdownExits2
  BY DEF IInv
<1> QED
  BY <1>1, Invariance, PTL

\* No loop has ended without the others being told to stop.
THEOREM NobodyDiesAlone == Spec => []NeverHeadless
<1>1. IInv => NeverHeadless
  BY DEF IInv
<1> QED
  BY <1>1, Invariance, PTL

\* With every join successful, no revocation is noticed after the exit code is
\* decided.
THEOREM NothingAfterTheCode == Spec => []CodeIsFinal
<1>1. IInv => CodeIsFinal
  BY DEF IInv
<1> QED
  BY <1>1, Invariance, PTL

LEMMA CauseStep == IInv /\ CauseInv /\ CodeHasCause /\ [Next]_vars
                     => CauseInv' /\ CodeHasCause'
<1> SUFFICES ASSUME TypeOK, JoinInv, AuthInv, CauseInv, CodeHasCause, [Next]_vars
             PROVE  CauseInv' /\ CodeHasCause'
  BY DEF IInv
<1>0. None = -1 /\ Killed = 143 /\ Checker \in Thread
  BY DEF None, Killed, Thread, Loop
<1> USE <1>0
<1>1. CASE StartUp
  BY <1>1 DEF StartUp, BootSucceeds, BootFails, BootUnauthorized, ReplayEnds,
     ReplayUnauthorized, InstallHandlers, StartThread, AllStarted, Quit, Goto,
     TypeOK, JoinInv, CauseInv, CodeHasCause, history
<1>2. CASE ShutDown
  <2>1. CASE DecideCode
    BY <2>1 DEF DecideCode, TypeOK, JoinInv, AuthInv, CauseInv, CodeHasCause,
       history
  <2>2. CASE ShutdownSeen \/ ProcessEnds \/ \E t \in Thread : Join(t) \/ JoinTimeout(t)
    BY <2>2 DEF ShutdownSeen, ProcessEnds, Join, JoinTimeout, CauseInv,
       CodeHasCause, history
  <2> QED
    BY <1>2, <2>1, <2>2 DEF ShutDown
<1>3. ASSUME NEW t \in Thread, OwnStep(t) PROVE CauseInv' /\ CodeHasCause'
  <2>1. CASE StopTheWorld(t)
    BY <2>1 DEF StopTheWorld, SetShutdown, Goto, TypeOK, CauseInv, CodeHasCause
  <2>2. CASE \/ t = Checker /\ (GatePassed \/ GateTimeout)
             \/ BeginRound(t) \/ NextRound(t) \/ Stops(t)
    BY <2>2 DEF GatePassed, GateTimeout, BeginRound, NextRound, Stops, Goto,
       TypeOK, CauseInv, CodeHasCause, history
  <2> QED
    BY <1>3, <2>1, <2>2 DEF OwnStep
<1>4. ASSUME NEW t \in Thread, RoundEnds(t) PROVE CauseInv' /\ CodeHasCause'
  BY <1>4 DEF RoundEnds, EndRound, Observes401, Unhandled, SetShutdown, Goto,
     TypeOK, CauseInv, CodeHasCause, history
<1>5. CASE Revoke \/ SignalHandled \/ SignalKills
  BY <1>5 DEF Revoke, SignalHandled, SignalKills, SetShutdown, Quit, TypeOK,
     JoinInv, CauseInv, CodeHasCause, history
<1>6. CASE UNCHANGED vars
  BY <1>6 DEF vars, history, CauseInv, CodeHasCause
<1> QED
  BY <1>1, <1>2, <1>3, <1>4, <1>5, <1>6 DEF Next

\* Exit code 2 only after a revocation, exit code 0 only after a signal or an
\* unhandled exception.
THEOREM CodeIsTold == Spec => []CodeHasCause
<1>1. Init => CauseInv /\ CodeHasCause
  BY DEF Init, CauseInv, CodeHasCause, None
<1>2. IInv /\ CauseInv /\ CodeHasCause /\ [Next]_vars
         => CauseInv' /\ CodeHasCause'
  BY CauseStep
<1> QED
  BY <1>1, <1>2, Invariance, PTL DEF Spec

\* The exit code names the cause of the shutdown, and goes on to do so as long as
\* every join succeeded.
THEOREM ExitCodeIsRight == Spec => []ExitCodeRight
<1>1. AuthShutdownExits2 /\ CodeHasCause /\ CodeIsFinal => ExitCodeRight
  BY DEF ExitCodeRight
<1> QED
  BY <1>1, RevocationIsTold, CodeIsTold, NothingAfterTheCode, PTL

-----------------------------------------------------------------------------
(* The threads keep the promise of AgentThread. *)

\* A thread that moves does so alone, and its distance stays a number.
LEMMA MoveOfPc ==
    ASSUME NEW t \in Thread, NEW step, NEW from, NEW to, TypeOK, TypeOK',
           Goto(t, step), Place(t) \in from, Place(t)' = to
    PROVE  Threads!Move(t, from, to)
<1>1. \A u \in Thread \ {t} : Place(u)' = Place(u) /\ Left(u)' = Left(u)
  BY DEF Goto, TypeOK, Place, Left
<1>2. Left(t)' \in Nat
  BY DEF TypeOK, Left
<1> QED
  BY <1>1, <1>2 DEF Threads!Move

LEMMA ThreadStep == IInv /\ [Next]_vars => [Threads!TNext]_(Threads!tvars)
<1> SUFFICES ASSUME IInv, IInv', [Next]_vars
             PROVE  Threads!TNext \/ UNCHANGED Threads!tvars
  BY StepInvariant
<1>0. /\ TypeOK /\ TypeOK'
      /\ pc \in [Thread -> {"new", "gate", "top", "work", "wait", "unauth",
                            "signal", "ended"}]
  BY DEF IInv, TypeOK
<1> USE <1>0
<1>1. ASSUME UNCHANGED <<pc, shutdown>> PROVE UNCHANGED Threads!tvars
  BY <1>1 DEF Threads!tvars, Place, Left
<1>2. ASSUME NEW t \in Thread, BeginRound(t) PROVE Threads!BeginRound(t)
  <2>1. Place(t) \in {"out"} /\ Place(t)' = "round"
    BY <1>2 DEF BeginRound, Goto, Place
  <2> QED
    BY <1>2, <2>1, MoveOfPc DEF BeginRound, Threads!BeginRound
<1>3. ASSUME NEW t \in Thread,
             \/ StartThread(t) \/ NextRound(t)
             \/ t = Checker /\ (GatePassed \/ GateTimeout)
      PROVE  Threads!Wait(t)
  <2>1. /\ Place(t) \in {"out"} /\ Place(t)' = "out" /\ UNCHANGED shutdown
        /\ shutdown => Left(t)' < Left(t)
    BY <1>3 DEF StartThread, NextRound, GatePassed, GateTimeout, Goto, Place, Left
  <2>2. \E step : Goto(t, step)
    BY <1>3 DEF StartThread, NextRound, GatePassed, GateTimeout
  <2> QED
    BY <2>1, <2>2, MoveOfPc DEF Threads!Wait, Threads!Closer
<1>4. ASSUME NEW t \in Thread, Stops(t) \/ Unhandled(t) PROVE Threads!End(t)
  <2>1. /\ Place(t) \in {"out", "round"} /\ Place(t)' = "ended"
        /\ shutdown' = TRUE
    BY <1>4 DEF Stops, Unhandled, SetShutdown, Goto, Place, TypeOK
  <2> QED
    BY <1>4, <2>1, MoveOfPc DEF Stops, Unhandled, Threads!End
<1>5. ASSUME NEW t \in Thread, EndRound(t) \/ Observes401(t) PROVE Threads!Work(t)
  <2>1. /\ Place(t) \in {"round"} /\ Place(t)' \in {"round", "out"}
        /\ Left(t)' < Left(t) /\ shutdown' = shutdown
    BY <1>5 DEF EndRound, Observes401, Goto, Place, Left
  <2>2. PICK to \in {"round", "out"} : Place(t)' = to
    BY <2>1
  <2> QED
    BY <1>5, <2>1, <2>2, MoveOfPc
    DEF EndRound, Observes401, Threads!Work, Threads!Closer
<1>6. ASSUME NEW t \in Thread, StopTheWorld(t) PROVE Threads!Work(t) \/ Threads!End(t)
  <2>1. CASE Place(t)' = "ended"
    <3>1. Place(t) \in {"out", "round"} /\ shutdown' = TRUE
      BY <1>6, <2>1 DEF StopTheWorld, SetShutdown, Goto, Place
    <3> QED
      BY <1>6, <2>1, <3>1, MoveOfPc DEF StopTheWorld, Threads!End
  <2>2. CASE Place(t)' # "ended"
    <3>1. /\ Place(t) \in {"round"} /\ Place(t)' \in {"round", "out"}
          /\ Left(t)' < Left(t) /\ shutdown' \in {shutdown, TRUE}
      <4>1. CASE pc[t] = "unauth"
        BY <1>6, <4>1 DEF StopTheWorld, Goto, Place, Left
      <4>2. CASE pc[t] = "signal"
        <5>1. pc'[t] \in {"top", "ended"} /\ shutdown' = TRUE
          BY <1>6, <4>2 DEF StopTheWorld, SetShutdown, Goto
        <5> QED
          BY <2>2, <4>2, <5>1 DEF Place, Left
      <4> QED
        BY <1>6, <4>1, <4>2 DEF StopTheWorld
    <3>2. PICK to \in {"round", "out"} : Place(t)' = to
      BY <3>1
    <3> QED
      BY <1>6, <3>1, <3>2, MoveOfPc DEF StopTheWorld, Threads!Work, Threads!Closer
  <2> QED
    BY <2>1, <2>2
<1>7. ASSUME SignalHandled PROVE Threads!Signal
  BY <1>7 DEF SignalHandled, SetShutdown, Threads!Signal, Place, Left
<1>8. ASSUME \/ BootSucceeds \/ BootFails \/ BootUnauthorized \/ ReplayEnds
             \/ ReplayUnauthorized \/ InstallHandlers \/ AllStarted \/ ShutdownSeen
             \/ (\E t \in Thread : Join(t) \/ JoinTimeout(t)) \/ DecideCode
             \/ ProcessEnds \/ Revoke \/ SignalKills \/ UNCHANGED vars
      PROVE  UNCHANGED <<pc, shutdown>>
  BY <1>8 DEF BootSucceeds, BootFails, BootUnauthorized, ReplayEnds,
     ReplayUnauthorized, InstallHandlers, AllStarted, ShutdownSeen, Join,
     JoinTimeout, DecideCode, ProcessEnds, Revoke, SignalKills, vars
<1> QED
  BY <1>1, <1>2, <1>3, <1>4, <1>5, <1>6, <1>7, <1>8
  DEF Next, StartUp, ShutDown, OwnStep, RoundEnds, Threads!TNext

\* What the runner joins are threads as AgentThread promises them: they end with
\* the shutdown event set, whoever set it, and each has at most four steps left
\* then (the run() methods, on all their paths).
THEOREM RunnerCanRely == Spec => AreAgentThreads
<1>1. Init => Threads!TInit
  BY DEF Init, Threads!TInit, Place, Left
<1> QED
  BY <1>1, ThreadStep, Invariance, PTL DEF Spec, AreAgentThreads, Threads!TSpec

=============================================================================
