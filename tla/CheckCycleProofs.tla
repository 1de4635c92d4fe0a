-------------------------- MODULE CheckCycleProofs --------------------------
(***************************************************************************)
(* Proofs about CheckCycle, for any finite set of hosts and any size of    *)
(* the pool.                                                               *)
(***************************************************************************)
EXTENDS CheckCycle, FiniteSetTheorems, TLAPS

Picked == {h \in Host : task[h] = "picked"}

\* Every set of hosts is finite, and a subset has no more members.
LEMMA Smaller ==
    ASSUME NEW S \in SUBSET Host, NEW T \in SUBSET S
    PROVE  /\ IsFiniteSet(S) /\ IsFiniteSet(T)
           /\ Cardinality(S) \in Nat /\ Cardinality(T) \in Nat
           /\ Cardinality(T) <= Cardinality(S)
BY HostsFinite, FS_Subset, FS_CardinalityType

\* One more host makes a set of hosts larger by one at most.
LEMMA OneMore ==
    ASSUME NEW S \in SUBSET Host, NEW h \in Host
    PROVE  Cardinality(S \cup {h}) <= Cardinality(S) + 1
<1>1. IsFiniteSet(S) /\ Cardinality(S) \in Nat
  BY Smaller
<1>2. CASE h \in S
  <2>1. S \cup {h} = S
    BY <1>2
  <2>2. Cardinality(S \cup {h}) = Cardinality(S)
    BY <2>1
  <2> QED
    BY <1>1, <2>2
<1>3. CASE h \notin S
  <2>1. Cardinality(S \cup {h}) = Cardinality(S) + 1
    BY <1>1, <1>3, FS_AddElement
  <2> QED
    BY <1>1, <2>1
<1> QED
  BY <1>2, <1>3

\* The initial states satisfy the inductive invariant.
LEMMA InitInvariant == Init => IInv
<1> SUFFICES ASSUME Init PROVE IInv
  OBVIOUS
<1>1. task \in [Host -> TaskState] /\ \A h \in Host : task[h] = "none"
  BY DEF Init, TaskState
<1>2. TypeOK
  <2>1. /\ {known, entries, checks, monitored, lateBegun} \subseteq SUBSET Host
        /\ {shutdown, revoked, first, opened} \subseteq BOOLEAN
    BY DEF Init
  <2>2. edits \in 0 .. MaxEdits
    BY CycleBounds DEF Init
  <2>3. pc = "gate" /\ kind = "startup"
    BY DEF Init
  <2> QED
    BY <1>1, <2>1, <2>2, <2>3 DEF TypeOK
<1>3. Cardinality({}) = 0
  BY FS_EmptySet
<1>4. InHand = {} /\ lateBegun = {} /\ ~shutdown
  BY <1>1 DEF Init, InHand, Busy
<1>5. InPool = 0 /\ Cardinality(lateBegun) = 0
  BY <1>3, <1>4 DEF InPool
<1>6. DrainInv
  BY <1>1, <1>4, <1>5, CycleBounds DEF DrainInv
<1>7. DrainBounded
  BY <1>5, CycleBounds DEF DrainBounded
<1>8. FlagInv /\ StartupFirst
  BY DEF Init, FlagInv, StartupFirst
<1> QED
  BY <1>2, <1>6, <1>7, <1>8 DEF IInv

\* The bounds hold on when no task is picked up: shutdown freezes what may still
\* begin to the tasks the pool has in hand.
LEMMA DrainKept ==
    ASSUME TypeOK, TypeOK', DrainInv,
           InHand' \subseteq InHand,
           shutdown => shutdown',
           shutdown => lateBegun' \cup Picked' \subseteq lateBegun \cup Picked,
           ~shutdown => lateBegun' = {},
           \A h \in Host : task'[h] = "skipped" => shutdown'
    PROVE  DrainInv'
<1>1. /\ InHand \in SUBSET Host /\ Picked' \subseteq InHand'
      /\ lateBegun \in SUBSET Host /\ Picked \in SUBSET Host
  BY DEF InHand, Picked, Busy, TypeOK
<1>2. Cardinality(InHand') <= MaxParallel
  <2>1. /\ Cardinality(InHand') \in Nat /\ Cardinality(InHand) \in Nat
        /\ Cardinality(InHand') <= Cardinality(InHand)
    BY <1>1, Smaller
  <2>2. Cardinality(InHand) <= MaxParallel
    BY DEF DrainInv, InPool
  <2> QED
    BY <2>1, <2>2, CycleBounds
<1>3. Cardinality(lateBegun' \cup Picked') <= MaxParallel
  <2>1. CASE shutdown
    <3>1. lateBegun \cup Picked \in SUBSET Host
      BY <1>1
    <3>2. /\ Cardinality(lateBegun \cup Picked) \in Nat
          /\ Cardinality(lateBegun' \cup Picked') \in Nat
          /\ Cardinality(lateBegun' \cup Picked') <= Cardinality(lateBegun \cup Picked)
      BY <2>1, <3>1, Smaller
    <3>3. Cardinality(lateBegun \cup Picked) <= MaxParallel
      BY <2>1 DEF DrainInv, Picked
    <3> QED
      BY <3>2, <3>3, CycleBounds
  <2>2. CASE ~shutdown
    <3>1. lateBegun' \cup Picked' \subseteq InHand' /\ InHand' \in SUBSET Host
      BY <2>2, <1>1
    <3>2. /\ Cardinality(InHand') \in Nat
          /\ Cardinality(lateBegun' \cup Picked') \in Nat
          /\ Cardinality(lateBegun' \cup Picked') <= Cardinality(InHand')
      BY <3>1, Smaller
    <3> QED
      BY <3>2, <1>2, CycleBounds
  <2> QED
    BY <2>1, <2>2
<1>4. ~shutdown' => lateBegun' = {}
  BY DEF TypeOK
<1> QED
  BY <1>2, <1>3, <1>4 DEF DrainInv, InPool, Picked

\* In particular when no task changes hands.
LEMMA DrainUntouched ==
    ASSUME TypeOK, TypeOK', DrainInv,
           task' = task, lateBegun' = lateBegun, shutdown => shutdown'
    PROVE  DrainInv'
<1>1. InHand' = InHand /\ Picked' = Picked
  BY DEF InHand, Picked
<1>2. /\ ~shutdown => lateBegun = {}
      /\ \A h \in Host : task[h] = "skipped" => shutdown
  BY DEF DrainInv
<1>3. \A h \in Host : task'[h] = "skipped" => shutdown'
  BY <1>2
<1> QED
  BY <1>1, <1>2, <1>3, DrainKept

\* The two properties follow from the other parts of the invariant.
LEMMA PropertiesFollow ==
    TypeOK /\ DrainInv /\ FlagInv => IInv
<1> SUFFICES ASSUME TypeOK, DrainInv, FlagInv PROVE IInv
  OBVIOUS
<1>1. StartupFirst
  BY DEF FlagInv, StartupFirst, TypeOK
<1>2. DrainBounded
  <2>1. CASE shutdown
    <3>1. lateBegun \cup Picked \in SUBSET Host
      BY DEF TypeOK, Picked
    <3>2. /\ Cardinality(lateBegun) \in Nat
          /\ Cardinality(lateBegun \cup Picked) \in Nat
          /\ Cardinality(lateBegun) <= Cardinality(lateBegun \cup Picked)
      BY <3>1, Smaller
    <3>3. Cardinality(lateBegun \cup Picked) <= MaxParallel
      BY <2>1 DEF DrainInv, Picked
    <3> QED
      BY <3>2, <3>3, CycleBounds DEF DrainBounded
  <2>2. CASE ~shutdown
    <3>1. Cardinality(lateBegun) = 0
      BY <2>2, FS_EmptySet DEF DrainInv
    <3> QED
      BY <3>1, CycleBounds DEF DrainBounded
  <2> QED
    BY <2>1, <2>2
<1> QED
  BY <1>1, <1>2 DEF IInv

\* Every step preserves the inductive invariant.
LEMMA StepInvariant == IInv /\ [Next]_vars => IInv'
<1>a. TypeOK' /\ DrainInv' /\ FlagInv' => IInv'
  BY PropertiesFollow, PTL
<1> SUFFICES ASSUME IInv, [Next]_vars PROVE TypeOK' /\ DrainInv' /\ FlagInv'
  BY <1>a
<1> USE DEF IInv
<1>1. CASE LeaveGate
  <2>1. TypeOK'
    BY <1>1 DEF TypeOK, LeaveGate, world, cycle, history
  <2>2. DrainInv'
    BY <1>1, <2>1, DrainUntouched DEF LeaveGate, world, cycle, history
  <2>3. FlagInv'
    BY <1>1 DEF FlagInv, TypeOK, LeaveGate, world, cycle, history
  <2> QED
    BY <2>1, <2>2, <2>3
<1>2. CASE CycleRaises
  <2>1. TypeOK'
    BY <1>2 DEF TypeOK, CycleRaises, world, cycle, history
  <2>2. DrainInv'
    BY <1>2, <2>1, DrainUntouched DEF CycleRaises, world, cycle, history
  <2>3. FlagInv'
    BY <1>2 DEF FlagInv, TypeOK, CycleRaises, world, cycle, history
  <2> QED
    BY <2>1, <2>2, <2>3
<1>3. CASE ReadInterval
  <2>1. TypeOK'
    BY <1>3 DEF TypeOK, ReadInterval, world, cycle, history
  <2>2. DrainInv'
    BY <1>3, <2>1, DrainUntouched DEF ReadInterval, world, cycle, history
  <2>3. FlagInv'
    BY <1>3 DEF FlagInv, TypeOK, ReadInterval, world, cycle, history
  <2> QED
    BY <2>1, <2>2, <2>3
<1>4. CASE NextCycle
  <2>1. TypeOK'
    BY <1>4 DEF TypeOK, NextCycle, world, cycle, history
  <2>2. DrainInv'
    BY <1>4, <2>1, DrainUntouched DEF NextCycle, world, cycle, history
  <2>3. FlagInv'
    BY <1>4 DEF FlagInv, TypeOK, NextCycle, world, cycle, history
  <2> QED
    BY <2>1, <2>2, <2>3
<1>5. CASE Stop
  <2>1. TypeOK'
    BY <1>5 DEF TypeOK, Stop, world, cycle, history
  <2>2. DrainInv'
    BY <1>5, <2>1, DrainUntouched DEF Stop, world, cycle, history
  <2>3. FlagInv'
    BY <1>5 DEF FlagInv, TypeOK, Stop, world, cycle, history
  <2> QED
    BY <2>1, <2>2, <2>3
<1>6. CASE Submit
  <2>1. TypeOK'
    BY <1>6 DEF TypeOK, Submit, world, cycle, history
  <2>2. DrainInv'
    BY <1>6, <2>1, DrainUntouched DEF Submit, world, cycle, history
  <2>3. FlagInv'
    BY <1>6 DEF FlagInv, TypeOK, Submit, world, cycle, history
  <2> QED
    BY <2>1, <2>2, <2>3
<1>7. CASE Settled
  <2>1. TypeOK'
    BY <1>7 DEF TypeOK, Settled, world, cycle
  <2>2. DrainInv'
    BY <1>7, <2>1, DrainUntouched DEF Settled, world, cycle
  <2>3. FlagInv'
    BY <1>7 DEF FlagInv, TypeOK, Settled, world, cycle
  <2> QED
    BY <2>1, <2>2, <2>3
<1>8. CASE GivenUp
  <2>1. TypeOK'
    BY <1>8 DEF TypeOK, GivenUp, world, cycle, history
  <2>2. DrainInv'
    BY <1>8, <2>1, DrainUntouched DEF GivenUp, world, cycle, history
  <2>3. FlagInv'
    BY <1>8 DEF FlagInv, TypeOK, GivenUp, world, cycle, history
  <2> QED
    BY <2>1, <2>2, <2>3
<1>9. CASE SubmissionRaises
  <2>1. TypeOK'
    BY <1>9 DEF TypeOK, SubmissionRaises, world, cycle, history
  <2>2. DrainInv'
    BY <1>9, <2>1, DrainUntouched DEF SubmissionRaises, world, cycle, history
  <2>3. FlagInv'
    BY <1>9 DEF FlagInv, TypeOK, SubmissionRaises, world, cycle, history
  <2> QED
    BY <2>1, <2>2, <2>3
<1>10. CASE IntervalMissing
  <2>1. TypeOK'
    BY <1>10 DEF TypeOK, IntervalMissing, world, cycle, history
  <2>2. DrainInv'
    BY <1>10, <2>1, DrainUntouched DEF IntervalMissing, world, cycle, history
  <2>3. FlagInv'
    BY <1>10 DEF FlagInv, TypeOK, IntervalMissing, world, cycle, history
  <2> QED
    BY <2>1, <2>2, <2>3
<1>11. CASE Unauthorized
  <2>1. TypeOK'
    BY <1>11 DEF TypeOK, Unauthorized, world, cycle, history
  <2>2. DrainInv'
    BY <1>11, <2>1, DrainUntouched DEF Unauthorized, world, cycle, history
  <2>3. FlagInv'
    BY <1>11 DEF FlagInv, TypeOK, Unauthorized, world, cycle, history
  <2> QED
    BY <2>1, <2>2, <2>3
<1>12. CASE HostsChange
  <2>1. TypeOK'
    BY <1>12, CycleBounds DEF TypeOK, HostsChange, cycle, history
  <2>2. DrainInv'
    BY <1>12, <2>1, DrainUntouched DEF HostsChange, cycle, history
  <2>3. FlagInv'
    BY <1>12 DEF FlagInv, TypeOK, HostsChange, cycle, history
  <2> QED
    BY <2>1, <2>2, <2>3
<1>13. CASE SignalShutdown
  <2>1. TypeOK'
    BY <1>13 DEF TypeOK, SignalShutdown, world, cycle, history
  <2>2. DrainInv'
    BY <1>13, <2>1, DrainUntouched DEF SignalShutdown, world, cycle, history
  <2>3. FlagInv'
    BY <1>13 DEF FlagInv, TypeOK, SignalShutdown, world, cycle, history
  <2> QED
    BY <2>1, <2>2, <2>3
<1>14. CASE Revoke
  <2>1. TypeOK'
    BY <1>14 DEF TypeOK, Revoke, cycle, history
  <2>2. DrainInv'
    BY <1>14, <2>1, DrainUntouched DEF Revoke, cycle, history
  <2>3. FlagInv'
    BY <1>14 DEF FlagInv, TypeOK, Revoke, cycle, history
  <2> QED
    BY <2>1, <2>2, <2>3
<1>15. CASE BeginCycle
  <2>1. TypeOK'
    BY <1>15 DEF TypeOK, BeginCycle, world, TaskState
  <2>2. DrainInv'
    <3>1. InHand' \subseteq InHand /\ lateBegun' = {} /\ ~shutdown /\ ~shutdown'
      BY <1>15 DEF InHand, Busy, BeginCycle
    <3>2. \A h \in Host : task'[h] # "skipped"
      BY <1>15 DEF BeginCycle
    <3> QED
      BY <1>15, <2>1, <3>1, <3>2, DrainKept DEF BeginCycle
  <2>3. FlagInv'
    BY <1>15 DEF FlagInv, TypeOK, BeginCycle, world, TaskState
  <2> QED
    BY <2>1, <2>2, <2>3
<1>16. CASE PoolDone
  <2>1. TypeOK'
    BY <1>16 DEF TypeOK, PoolDone, world, history, TaskState
  <2>2. DrainInv'
    <3>1. InHand' = {} /\ Picked' = {} /\ lateBegun' = lateBegun
      BY <1>16 DEF InHand, Picked, Busy, PoolDone, history
    <3>2. \A h \in Host : task'[h] # "skipped"
      BY <1>16 DEF PoolDone
    <3> QED
      BY <1>16, <2>1, <3>1, <3>2, DrainKept DEF PoolDone, DrainInv
  <2>3. FlagInv'
    BY <1>16 DEF FlagInv, TypeOK, PoolDone, world, history, TaskState
  <2> QED
    BY <2>1, <2>2, <2>3
<1>17. ASSUME NEW h \in Host, EndCheck(h) PROVE TypeOK' /\ DrainInv' /\ FlagInv'
  <2>1. TypeOK'
    BY <1>17 DEF TypeOK, EndCheck, world, cycle, history, TaskState
  <2>2. DrainInv'
    <3>1. InHand' \subseteq InHand /\ Picked' \subseteq Picked /\ lateBegun' = lateBegun
      BY <1>17 DEF InHand, Picked, Busy, TypeOK, EndCheck, history
    <3>2. \A g \in Host : task'[g] = "skipped" => task[g] = "skipped"
      BY <1>17 DEF TypeOK, EndCheck
    <3> QED
      BY <1>17, <2>1, <3>1, <3>2, DrainKept DEF EndCheck, DrainInv
  <2>3. FlagInv'
    BY <1>17 DEF FlagInv, TypeOK, EndCheck, world, cycle, history, TaskState
  <2> QED
    BY <2>1, <2>2, <2>3
<1>18. ASSUME NEW h \in Host, CheckRaises(h) PROVE TypeOK' /\ DrainInv' /\ FlagInv'
  <2>1. TypeOK'
    BY <1>18 DEF TypeOK, CheckRaises, world, cycle, history, TaskState
  <2>2. DrainInv'
    <3>1. InHand' \subseteq InHand /\ Picked' \subseteq Picked /\ lateBegun' = lateBegun
      BY <1>18 DEF InHand, Picked, Busy, TypeOK, CheckRaises, history
    <3>2. \A g \in Host : task'[g] = "skipped" => task[g] = "skipped"
      BY <1>18 DEF TypeOK, CheckRaises
    <3> QED
      BY <1>18, <2>1, <3>1, <3>2, DrainKept DEF CheckRaises, DrainInv
  <2>3. FlagInv'
    BY <1>18 DEF FlagInv, TypeOK, CheckRaises, world, cycle, history, TaskState
  <2> QED
    BY <2>1, <2>2, <2>3
<1>19. ASSUME NEW h \in Host, BeginCheck(h) PROVE TypeOK' /\ DrainInv' /\ FlagInv'
  <2>1. TypeOK'
    BY <1>19 DEF TypeOK, BeginCheck, world, cycle, TaskState
  <2>2. DrainInv'
    <3>1. InHand' = InHand /\ Picked' = Picked \ {h} /\ h \in Picked
      BY <1>19 DEF InHand, Picked, Busy, TypeOK, BeginCheck
    <3>2. \A g \in Host : task'[g] = "skipped" => task[g] = "skipped"
      BY <1>19 DEF TypeOK, BeginCheck
    <3>3. lateBegun' = IF shutdown THEN lateBegun \cup {h} ELSE lateBegun
      BY <1>19 DEF BeginCheck
    <3> QED
      BY <1>19, <2>1, <3>1, <3>2, <3>3, DrainKept DEF BeginCheck, DrainInv
  <2>3. FlagInv'
    BY <1>19 DEF FlagInv, TypeOK, BeginCheck, world, cycle, TaskState
  <2> QED
    BY <2>1, <2>2, <2>3
<1>20. ASSUME NEW h \in Host, PickUp(h) PROVE TypeOK' /\ DrainInv' /\ FlagInv'
  <2>1. TypeOK'
    BY <1>20 DEF TypeOK, PickUp, world, cycle, history, TaskState
  <2>2. DrainInv'
    <3>1. CASE shutdown
      <4>1. InHand' = InHand /\ Picked' = Picked /\ lateBegun' = lateBegun
        BY <1>20, <3>1 DEF InHand, Picked, Busy, TypeOK, PickUp, history
      <4> QED
        BY <1>20, <2>1, <3>1, <4>1, DrainKept DEF PickUp, DrainInv
    <3>2. CASE ~shutdown
      <4>1. /\ InHand' = InHand \cup {h} /\ InHand \in SUBSET Host
            /\ ~shutdown' /\ lateBegun' = {}
        BY <1>20, <3>2 DEF InHand, Busy, TypeOK, PickUp, history, DrainInv
      <4>2. Cardinality(InHand) \in Nat /\ Cardinality(InHand') \in Nat
            /\ Cardinality(InHand') <= Cardinality(InHand) + 1
        BY <4>1, OneMore, Smaller
      <4>3. Cardinality(InHand) < MaxParallel
        BY <1>20 DEF PickUp, InPool
      <4>4. \A g \in Host : task'[g] # "skipped"
        BY <1>20, <3>2 DEF PickUp, DrainInv, TypeOK
      <4> QED
        BY <4>1, <4>2, <4>3, <4>4, CycleBounds DEF DrainInv, InPool
    <3> QED
      BY <3>1, <3>2
  <2>3. FlagInv'
    BY <1>20 DEF FlagInv, TypeOK, PickUp, world, cycle, history, TaskState
  <2> QED
    BY <2>1, <2>2, <2>3
<1>21. CASE UNCHANGED vars
  <2>1. TypeOK' /\ FlagInv'
    BY <1>21 DEF TypeOK, FlagInv, vars, world, cycle, history
  <2>2. DrainInv'
    BY <1>21, <2>1, DrainUntouched DEF vars, history
  <2> QED
    BY <2>1, <2>2
<1> QED
  BY <1>1, <1>2, <1>3, <1>4, <1>5, <1>6, <1>7, <1>8, <1>9, <1>10, <1>11, <1>12, <1>13,
     <1>14, <1>15, <1>16, <1>17, <1>18, <1>19, <1>20, <1>21 DEF Next, Thread,
      Submission, Pool

\* The inductive invariant of the check thread and its pool.
THEOREM Invariance == Spec => []IInv
BY InitInvariant, StepInvariant, PTL DEF Spec

\* Type correctness.
THEOREM TypeCorrectness == Spec => []TypeOK
<1>1. IInv => TypeOK
  BY DEF IInv
<1> QED
  BY <1>1, Invariance, PTL

\* After shutdown no more checks begin than the pool has threads.
THEOREM DrainIsBounded == Spec => []DrainBounded
<1>1. IInv => DrainBounded
  BY DEF IInv
<1> QED
  BY <1>1, Invariance, PTL

\* The reports are startup reports until one is settled, and never again.
THEOREM StartupComesFirst == Spec => []StartupFirst
<1>1. IInv => StartupFirst
  BY DEF IInv
<1> QED
  BY <1>1, Invariance, PTL

\* A report lacks a host only if its check raised or was skipped on shutdown.
THEOREM ReportIsComplete == Spec => ReportComplete
<1> DEFINE Excused ==
      pc = "pool" /\ pc' = "submit" =>
          \A h \in entries \ checks' :
              task[h] = "raised" \/ (task[h] = "skipped" /\ shutdown)
<1>1. IInv /\ [Next]_vars => [Excused]_vars
  <2> SUFFICES ASSUME IInv, Next, pc = "pool", pc' = "submit"
               PROVE  \A h \in entries \ checks' :
                         task[h] = "raised" \/ (task[h] = "skipped" /\ shutdown)
    OBVIOUS
  <2>1. PoolDone
    BY DEF Next, Thread, Submission, Pool, LeaveGate, BeginCycle, CycleRaises, Submit,
       Settled, GivenUp, SubmissionRaises, Unauthorized, ReadInterval, IntervalMissing,
       NextCycle, Stop, PickUp, BeginCheck, EndCheck, CheckRaises, HostsChange,
       SignalShutdown, Revoke
  <2> QED
    BY <2>1 DEF PoolDone, Over, IInv, DrainInv, TypeOK
<1> QED
  BY <1>1, Invariance, PTL DEF Spec, ReportComplete

-----------------------------------------------------------------------------
(* The check thread is a thread the runner can rely on. *)

\* A change of pc is a move of the promise.
LEMMA MoveOfPc ==
    ASSUME NEW from, NEW to, Place \in from, Place' = to, TypeOK'
    PROVE  Checker!Move("checker", from, to)
BY DEF Checker!Move, Left, TypeOK

LEMMA ThreadStep == IInv /\ [Next]_vars => [Checker!TNext]_(Checker!tvars)
<1> SUFFICES ASSUME IInv, IInv', [Next]_vars
             PROVE  Checker!TNext \/ UNCHANGED Checker!tvars
  BY StepInvariant
<1>0. TypeOK /\ TypeOK'
  BY DEF IInv
<1>1. ASSUME UNCHANGED <<pc, shutdown>> PROVE UNCHANGED Checker!tvars
  BY <1>1 DEF Checker!tvars, Place, Left
<1>2. ASSUME BeginCycle \/ CycleRaises PROVE Checker!BeginRound("checker")
  BY <1>0, <1>2, MoveOfPc DEF BeginCycle, CycleRaises, Place, Checker!BeginRound
<1>3. ASSUME LeaveGate \/ NextCycle PROVE Checker!Wait("checker")
  BY <1>0, <1>3, MoveOfPc DEF LeaveGate, NextCycle, Place, Left, Checker!Wait,
                              Checker!Closer
<1>4. ASSUME \/ PoolDone \/ Submit \/ Settled \/ GivenUp \/ SubmissionRaises
             \/ ReadInterval
      PROVE  Checker!Work("checker")
  <2>1. /\ Place \in {"round"} /\ Place' \in {"round", "out"}
        /\ Left' < Left /\ shutdown' = shutdown
    BY <1>4 DEF PoolDone, Submit, Settled, GivenUp, SubmissionRaises,
                ReadInterval, Place, Left
  <2>2. PICK to \in {"round", "out"} : Place' = to
    BY <2>1
  <2> QED
    BY <1>0, <2>1, <2>2, MoveOfPc DEF Checker!Work, Checker!Closer
<1>5. ASSUME Unauthorized \/ IntervalMissing \/ Stop PROVE Checker!End("checker")
  BY <1>0, <1>5, MoveOfPc DEF Unauthorized, IntervalMissing, Stop, Place,
                              Checker!End
<1>6. ASSUME SignalShutdown PROVE Checker!Signal
  BY <1>6 DEF SignalShutdown, Checker!Signal, Place, Left
<1>7. ASSUME \/ \E h \in Host : Pool(h)
             \/ HostsChange \/ Revoke \/ UNCHANGED vars
      PROVE  UNCHANGED <<pc, shutdown>>
  BY <1>7 DEF Pool, PickUp, BeginCheck, EndCheck, CheckRaises, HostsChange,
              Revoke, vars
<1> QED
  BY <1>1, <1>2, <1>3, <1>4, <1>5, <1>6, <1>7
  DEF Next, Thread, Submission, Checker!TNext

\* The check thread begins no cycle after shutdown, ends none without it, and has
\* at most five steps of its own left once it is set (CertCheckThread.run).
THEOREM RunnerCanRely == Spec => IsAgentThread
<1>1. Init => Checker!TInit
  BY DEF Init, Checker!TInit, Place, Left
<1> QED
  BY <1>1, ThreadStep, Invariance, PTL DEF Spec, IsAgentThread, Checker!TSpec

=============================================================================
