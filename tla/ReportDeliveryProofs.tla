------------------------ MODULE ReportDeliveryProofs ------------------------
(***************************************************************************)
(* Proofs about ReportDelivery, for any set of reports, any set of         *)
(* submitting threads, any clock skew and any bounds.                      *)
(***************************************************************************)
EXTENDS ReportDelivery, TLAPS

\* The attempt counters stay in their range and Bump never decreases one.
LEMMA BumpRange ==
    ASSUME NEW n \in 0 .. MaxCount
    PROVE  Bump(n) \in 0 .. MaxCount /\ Bump(n) >= n /\ Bump(n) > 0
BY BoundAssumption DEF Bump

\* The initial states satisfy the inductive invariant.
LEMMA InitInvariant == Init => IInv
<1> SUFFICES ASSUME Init PROVE IInv
  OBVIOUS
<1> USE DEF Init
<1>1. TypeOK
  <2>1. file \in [Report -> FileState] /\ pc \in [Thread -> ThreadStep]
    BY DEF FileState, ThreadStep
  <2>2. /\ attempts \in [Report -> 0 .. MaxCount]
        /\ sends \in [Report -> 0 .. MaxCount]
    BY BoundAssumption
  <2>3. /\ persistedAt \in [Report -> Time \cup {Never}]
        /\ registeredAt \in Int /\ now \in Time /\ faults \in 0 .. MaxFaults
    BY BoundAssumption DEF Time
  <2>4. \A t \in Thread :
           job[t] = NoReport <=> pc[t] \in {"idle", "next", "gone"}
    OBVIOUS
  <2> QED
    BY <2>1, <2>2, <2>3, <2>4 DEF TypeOK
<1>2. PhaseInv /\ HoldInv /\ ReportInv /\ SoleOwner
  BY ReportAssumption DEF PhaseInv, HoldInv, IsOrphan, ReportInv, SoleOwner,
                          Thread
<1>3. NoReportLost /\ PersistedAndCountedFirst
  BY DEF NoReportLost, PersistedAndCountedFirst
<1> QED
  BY <1>1, <1>2, <1>3 DEF IInv

\* Every step preserves the inductive invariant.
LEMMA StepInvariant == IInv /\ [Next]_vars => IInv'
<1> SUFFICES ASSUME IInv, [Next]_vars PROVE IInv'
  OBVIOUS
<1>0. /\ TypeOK /\ PhaseInv /\ HoldInv /\ ReportInv /\ SoleOwner
      /\ NoReportLost /\ PersistedAndCountedFirst
  BY DEF IInv
<1> USE <1>0
<1>1. ASSUME NEW t \in Thread, WriteTmp(t) PROVE IInv'
  <2>1. TypeOK'
    BY <1>1 DEF TypeOK, ThreadStep, WriteTmp, Goto, clocks, dashboard, history
  <2>2. PhaseInv'
    BY <1>1 DEF PhaseInv, Thread, TypeOK, WriteTmp, Goto
  <2>3. HoldInv'
    BY <1>1 DEF HoldInv, IsOrphan, TypeOK, WriteTmp, Goto, clocks, dashboard,
                history
  <2>4. ReportInv' /\ SoleOwner' /\ NoReportLost' /\ PersistedAndCountedFirst'
    BY <1>1 DEF ReportInv, SoleOwner, NoReportLost, PersistedAndCountedFirst,
                WriteTmp, dashboard, history
  <2> QED
    BY <2>1, <2>2, <2>3, <2>4 DEF IInv
<1>2. ASSUME NEW t \in Thread, SaveRename(t) PROVE IInv'
  <2>1. /\ job[t] \in Report
        /\ job[t] \notin todo
        /\ \A u \in Thread \ {t} : job[u] # job[t]
    BY <1>2 DEF SoleOwner, TypeOK, SaveRename
  <2>2. TypeOK'
    BY <1>2, BoundAssumption DEF TypeOK, FileState, ThreadStep, SaveRename,
                                 Rewritten, Goto, clocks, dashboard, history
  <2>3. PhaseInv'
    BY <1>2 DEF PhaseInv, SaveRename, Goto
  <2>4. HoldInv'
    BY <2>1, <1>2 DEF HoldInv, IsOrphan, TypeOK, SaveRename, Goto, clocks,
                      dashboard, history
  <2>5. ReportInv'
    BY <1>2 DEF ReportInv, HoldInv, SaveRename
  <2>6. NoReportLost'
    BY <1>2 DEF NoReportLost, SaveRename, dashboard
  <2>7. PersistedAndCountedFirst'
    BY <1>2 DEF PersistedAndCountedFirst, HoldInv, TypeOK, SaveRename,
                dashboard, history
  <2>8. SoleOwner'
    BY <1>2 DEF SoleOwner, SaveRename
  <2> QED
    BY <2>2, <2>3, <2>4, <2>5, <2>6, <2>7, <2>8 DEF IInv
<1>3. ASSUME NEW t \in Thread, CountRename(t) PROVE IInv'
  <2>1. /\ job[t] \in Report
        /\ job[t] \notin todo
        /\ \A u \in Thread \ {t} : job[u] # job[t]
    BY <1>3 DEF SoleOwner, TypeOK, CountRename
  <2>2. TypeOK'
    BY <1>3, BumpRange DEF TypeOK, ThreadStep, CountRename, Rewritten, Goto,
                           clocks, dashboard, history
  <2>3. PhaseInv'
    BY <1>3 DEF PhaseInv, CountRename, Goto
  <2>4. HoldInv'
    <3>1. \A u \in Thread \ {t} :
             /\ job'[u] = job[u] /\ pc'[u] = pc[u]
             /\ job[u] \in Report => attempts'[job[u]] = attempts[job[u]]
      BY <2>1, <1>3 DEF CountRename, Goto
    <3>2. /\ attempts[job[t]] >= sends[job[t]]
          /\ attempts'[job[t]] = Bump(attempts[job[t]])
      BY <1>3 DEF CountRename, TypeOK, PersistedAndCountedFirst
    <3>3. Bump(attempts[job[t]]) >= Bump(sends[job[t]])
      BY <2>1, <3>2 DEF Bump, TypeOK
    <3> QED
      BY <1>3, <3>3 DEF HoldInv, IsOrphan, CountRename, Goto, TypeOK, clocks,
                        dashboard, history
  <2>5. PersistedAndCountedFirst'
    BY <1>3, BumpRange DEF PersistedAndCountedFirst, TypeOK, CountRename,
                           dashboard, history
  <2>6. ReportInv' /\ SoleOwner' /\ NoReportLost'
    BY <1>3 DEF ReportInv, SoleOwner, NoReportLost, CountRename, dashboard
  <2> QED
    BY <2>2, <2>3, <2>4, <2>5, <2>6 DEF IInv
<1>4. ASSUME NEW t \in Thread, Call(t) PROVE IInv'
  <2>1. /\ job[t] \in Report
        /\ job[t] \notin todo
        /\ \A u \in Thread \ {t} : job[u] # job[t]
    BY <1>4 DEF SoleOwner, TypeOK, Call
  <2>2. TypeOK'
    BY <1>4, BumpRange DEF TypeOK, ThreadStep, Call, Goto, disk, clocks,
                           dashboard
  <2>3. PhaseInv'
    BY <1>4 DEF PhaseInv, Call, Goto
  <2>4. HoldInv'
    BY <2>1, <1>4 DEF HoldInv, IsOrphan, TypeOK, Call, Goto, disk, clocks,
                      dashboard
  <2>5. PersistedAndCountedFirst'
    BY <1>4 DEF PersistedAndCountedFirst, HoldInv, Call, disk, dashboard
  <2>6. ReportInv' /\ SoleOwner' /\ NoReportLost'
    BY <1>4 DEF ReportInv, SoleOwner, NoReportLost, Call, disk, dashboard
  <2> QED
    BY <2>2, <2>3, <2>4, <2>5, <2>6 DEF IInv
<1>5. ASSUME NEW t \in Thread, BackoffOver(t) PROVE IInv'
  <2>1. TypeOK'
    BY <1>5 DEF TypeOK, ThreadStep, BackoffOver, Goto, disk, clocks, dashboard,
                history
  <2>2. PhaseInv'
    BY <1>5 DEF PhaseInv, BackoffOver, Goto
  <2>3. HoldInv'
    BY <1>5 DEF HoldInv, IsOrphan, BackoffOver, Goto, disk, clocks, dashboard,
                history
  <2>4. ReportInv' /\ SoleOwner' /\ NoReportLost' /\ PersistedAndCountedFirst'
    BY <1>5 DEF ReportInv, SoleOwner, NoReportLost, PersistedAndCountedFirst,
                BackoffOver, disk, dashboard, history
  <2> QED
    BY <2>1, <2>2, <2>3, <2>4 DEF IInv
<1>6. ASSUME NEW t \in Thread, BackoffWoken(t) PROVE IInv'
  <2>1. TypeOK'
    BY <1>6, BumpRange, BoundAssumption, ThreadAssumption, ReportAssumption
    DEF TypeOK, Thread, FileState, ThreadStep, Time, Never, BackoffWoken, Halt,
        Goto, disk, process, clocks, dashboard, history
  <2>2. PhaseInv'
    BY <1>6, BumpRange, BoundAssumption, ThreadAssumption, ReportAssumption
    DEF PhaseInv, Thread, TypeOK, BackoffWoken, Halt, Goto, disk, process,
        clocks, dashboard, history
  <2>3. HoldInv'
    <3>1. CASE t = Main
      BY <1>6, <3>1 DEF HoldInv, BackoffWoken, Halt
    <3>2. CASE t # Main
      BY <1>6, <3>2 DEF HoldInv, IsOrphan, TypeOK, BackoffWoken, Goto, disk,
                        clocks, dashboard, history
    <3> QED
      BY <3>1, <3>2
  <2>4. ReportInv'
    BY <1>6, BumpRange, BoundAssumption, ThreadAssumption, ReportAssumption
    DEF ReportInv, HoldInv, PhaseInv, TypeOK, Never, Time, Thread, BackoffWoken,
        Halt, Goto, disk, process, clocks, dashboard, history
  <2>5. SoleOwner'
    <3>1. CASE t = Main
      BY <1>6, <3>1 DEF SoleOwner, BackoffWoken, Halt
    <3>2. CASE t # Main
      BY <1>6, <3>2 DEF SoleOwner, TypeOK, BackoffWoken
    <3> QED
      BY <3>1, <3>2
  <2>6. NoReportLost' /\ PersistedAndCountedFirst'
    BY <1>6 DEF NoReportLost, PersistedAndCountedFirst, BackoffWoken, disk,
                dashboard, history
  <2> QED
    BY <2>1, <2>2, <2>3, <2>4, <2>5, <2>6 DEF IInv
<1>7. ASSUME NEW t \in Thread, Delete(t) PROVE IInv'
  <2>1. /\ job[t] \in Report
        /\ job[t] \notin todo
        /\ \A u \in Thread \ {t} : job[u] # job[t]
    BY <1>7 DEF SoleOwner, TypeOK, Delete
  <2>2. TypeOK'
    BY <1>7 DEF TypeOK, FileState, ThreadStep, Delete, Goto, clocks, dashboard,
                history
  <2>3. PhaseInv'
    BY <1>7 DEF PhaseInv, TypeOK, Delete, Goto
  <2>4. HoldInv'
    BY <2>1, <1>7 DEF HoldInv, IsOrphan, TypeOK, Delete, Goto, clocks,
                      dashboard, history
  <2>5. ReportInv'
    BY <2>1, <1>7 DEF ReportInv, HoldInv, Delete
  <2>6. SoleOwner'
    BY <1>7 DEF SoleOwner, Delete
  <2>7. NoReportLost'
    BY <1>7 DEF NoReportLost, HoldInv, Delete, dashboard
  <2>8. PersistedAndCountedFirst'
    BY <1>7 DEF PersistedAndCountedFirst, Delete, dashboard, history
  <2> QED
    BY <2>2, <2>3, <2>4, <2>5, <2>6, <2>7, <2>8 DEF IInv
<1>8. ASSUME NEW t \in Thread, Delivered(t) PROVE IInv'
  <2>1. TypeOK'
    BY <1>8 DEF TypeOK, ThreadStep, Delivered, Answered, Goto, disk, clocks,
                history
  <2>2. PhaseInv'
    BY <1>8 DEF PhaseInv, Delivered, Answered, Goto
  <2>3. HoldInv'
    BY <1>8 DEF HoldInv, IsOrphan, Delivered, Answered, Goto, disk, clocks,
                history
  <2>4. NoReportLost'
    BY <1>8 DEF NoReportLost, Delivered, disk
  <2>5. PersistedAndCountedFirst'
    BY <1>8 DEF PersistedAndCountedFirst, HoldInv, Delivered, Answered, disk,
                history
  <2>6. ReportInv' /\ SoleOwner'
    BY <1>8 DEF ReportInv, SoleOwner, Delivered, disk
  <2> QED
    BY <2>1, <2>2, <2>3, <2>4, <2>5, <2>6 DEF IInv
<1>9. ASSUME NEW t \in Thread, Duplicate(t) PROVE IInv'
  <2>1. TypeOK'
    BY <1>9 DEF TypeOK, ThreadStep, Duplicate, Answered, Goto, disk, clocks,
                dashboard, history
  <2>2. PhaseInv'
    BY <1>9 DEF PhaseInv, Duplicate, Answered, Goto
  <2>3. HoldInv'
    BY <1>9 DEF HoldInv, IsOrphan, Duplicate, Answered, Goto, disk, clocks,
                dashboard, history
  <2>4. ReportInv' /\ SoleOwner' /\ NoReportLost' /\ PersistedAndCountedFirst'
    BY <1>9 DEF ReportInv, SoleOwner, NoReportLost, PersistedAndCountedFirst,
                Duplicate, disk, dashboard, history
  <2> QED
    BY <2>1, <2>2, <2>3, <2>4 DEF IInv
<1>10. ASSUME NEW t \in Thread, Refused(t) PROVE IInv'
  <2>1. TypeOK'
    BY <1>10 DEF TypeOK, ThreadStep, Refused, Answered, Goto, disk, clocks,
                 history
  <2>2. PhaseInv'
    BY <1>10 DEF PhaseInv, Refused, Answered, Goto
  <2>3. HoldInv'
    BY <1>10 DEF HoldInv, IsOrphan, Refused, Answered, Goto, disk, clocks,
                 history
  <2>4. NoReportLost'
    BY <1>10 DEF NoReportLost, Refused, disk
  <2>5. PersistedAndCountedFirst'
    BY <1>10 DEF PersistedAndCountedFirst, HoldInv, Refused, Answered, disk,
                 history
  <2>6. ReportInv' /\ SoleOwner'
    BY <1>10 DEF ReportInv, SoleOwner, Refused, disk
  <2> QED
    BY <2>1, <2>2, <2>3, <2>4, <2>5, <2>6 DEF IInv
<1>11. ASSUME NEW t \in Thread, Retriable(t) PROVE IInv'
  <2>1. TypeOK'
    BY <1>11 DEF TypeOK, ThreadStep, Retriable, Goto, disk, clocks, history
  <2>2. PhaseInv'
    BY <1>11 DEF PhaseInv, Retriable, Goto
  <2>3. HoldInv'
    BY <1>11 DEF HoldInv, IsOrphan, Retriable, Goto, disk, clocks, history
  <2>4. PersistedAndCountedFirst'
    BY <1>11 DEF PersistedAndCountedFirst, HoldInv, Retriable, disk, history
  <2>5. ReportInv' /\ SoleOwner' /\ NoReportLost'
    BY <1>11 DEF ReportInv, SoleOwner, NoReportLost, Retriable, disk
  <2> QED
    BY <2>1, <2>2, <2>3, <2>4, <2>5 DEF IInv
<1>12. ASSUME NEW t \in Thread, Unauthorized(t) PROVE IInv'
  <2>1. TypeOK'
    BY <1>12, BumpRange, BoundAssumption, ThreadAssumption, ReportAssumption
    DEF TypeOK, Thread, FileState, ThreadStep, Time, Never, Unauthorized, Halt,
        Goto, disk, process, clocks, dashboard, history
  <2>2. PhaseInv'
    BY <1>12 DEF PhaseInv, Thread, TypeOK, Unauthorized, Halt, Goto
  <2>3. HoldInv'
    BY <1>12 DEF HoldInv, PhaseInv, TypeOK, Thread, Unauthorized, Halt, Goto,
                 disk, dashboard, history
  <2>4. ReportInv'
    BY <1>12 DEF ReportInv, Unauthorized, Halt, disk
  <2>5. SoleOwner'
    BY <1>12 DEF SoleOwner, TypeOK, Unauthorized, Halt
  <2>6. NoReportLost' /\ PersistedAndCountedFirst'
    BY <1>12 DEF NoReportLost, PersistedAndCountedFirst, Unauthorized, disk,
                 dashboard, history
  <2> QED
    BY <2>1, <2>2, <2>3, <2>4, <2>5, <2>6 DEF IInv
<1>13. ASSUME NEW t \in Thread, Fatal(t) PROVE IInv'
  <2>1. TypeOK'
    <3>1. job[t] \in Report
      BY <1>13 DEF TypeOK, Fatal, Answered
    <3> QED
      BY <1>13, <3>1, BoundAssumption
      DEF TypeOK, ThreadStep, Fatal, Abandon, Fault, Goto, disk, clocks, history
  <2>2. PhaseInv'
    BY <1>13 DEF PhaseInv, TypeOK, Fatal, Answered, Abandon, Goto
  <2>3. HoldInv'
    BY <1>13 DEF HoldInv, PhaseInv, TypeOK, Thread, Fatal, Answered, Abandon,
                 Goto, disk, dashboard, history
  <2>4. ReportInv'
    BY <1>13 DEF ReportInv, Fatal, Abandon, disk
  <2>5. SoleOwner'
    BY <1>13 DEF SoleOwner, Fatal, Abandon
  <2>6. NoReportLost' /\ PersistedAndCountedFirst'
    <3>1. file[job[t]] = "pending"
      BY <1>13 DEF TypeOK, HoldInv, Fatal, Answered
    <3> QED
      BY <1>13, <3>1 DEF NoReportLost, PersistedAndCountedFirst, Fatal, disk,
                         history
  <2> QED
    BY <2>1, <2>2, <2>3, <2>4, <2>5, <2>6 DEF IInv
<1>14. ASSUME NEW t \in Thread, DiskFull(t) PROVE IInv'
  <2>1. TypeOK'
    BY <1>14, BoundAssumption DEF TypeOK, ThreadStep, DiskFull, Abandon, Fault,
                                  Goto, disk, clocks, dashboard, history
  <2>2. PhaseInv'
    BY <1>14 DEF PhaseInv, TypeOK, DiskFull, Abandon, Goto
  <2>3. HoldInv'
    BY <1>14 DEF HoldInv, PhaseInv, TypeOK, Thread, DiskFull, Abandon, Goto,
                 disk, dashboard, history
  <2>4. ReportInv'
    BY <1>14 DEF ReportInv, DiskFull, Abandon, disk
  <2>5. SoleOwner'
    BY <1>14 DEF SoleOwner, DiskFull, Abandon
  <2>6. NoReportLost' /\ PersistedAndCountedFirst'
    BY <1>14 DEF NoReportLost, PersistedAndCountedFirst, DiskFull, disk,
                 dashboard, history
  <2> QED
    BY <2>1, <2>2, <2>3, <2>4, <2>5, <2>6 DEF IInv
<1>15. ASSUME NEW t \in Submitter, NEW r \in Report, BeginSubmit(t, r)
       PROVE IInv'
  <2>1. \A u \in Thread : job[u] # r
    BY <1>15, ReportAssumption DEF HoldInv, ReportInv, TypeOK, ThreadStep,
                                   BeginSubmit
  <2>2. TypeOK'
    BY <2>1, <1>15 DEF TypeOK, Thread, ThreadStep, BeginSubmit, Goto, clocks,
                       dashboard, history
  <2>3. PhaseInv'
    BY <1>15, ThreadAssumption DEF PhaseInv, BeginSubmit, Goto
  <2>4. HoldInv'
    BY <2>1, <1>15, ThreadAssumption
    DEF HoldInv, IsOrphan, PhaseInv, ReportInv, TypeOK, ThreadStep, Time, Never,
        Thread, BeginSubmit, Goto, clocks, dashboard, history
  <2>5. ReportInv'
    BY <1>15 DEF ReportInv, BeginSubmit
  <2>6. SoleOwner'
    BY <2>1, <1>15 DEF SoleOwner, PhaseInv, BeginSubmit
  <2>7. NoReportLost' /\ PersistedAndCountedFirst'
    BY <1>15 DEF NoReportLost, PersistedAndCountedFirst, BeginSubmit, dashboard,
                 history
  <2> QED
    BY <2>2, <2>3, <2>4, <2>5, <2>6, <2>7 DEF IInv
<1>16. CASE Start
  <2>1. TypeOK'
    <3>1. tmp' \in SUBSET Report /\ todo' \in SUBSET Report
      BY <1>16 DEF Start, OnDisk
    <3>2. /\ pc' \in [Thread -> ThreadStep]
          /\ \A t \in Thread :
                job'[t] = NoReport <=> pc'[t] \in {"idle", "next", "gone"}
      BY <1>16 DEF Start, Goto, TypeOK, PhaseInv, ThreadStep
    <3> QED
      BY <1>16, <3>1, <3>2 DEF TypeOK, Start, clocks, dashboard, history
  <2>2. PhaseInv'
    BY <1>16, ThreadAssumption DEF PhaseInv, Start, Goto
  <2>3. HoldInv'
    BY <1>16 DEF HoldInv, PhaseInv, TypeOK, Thread, Start, Goto
  <2>4. ReportInv'
    BY <1>16 DEF ReportInv, Start, OnDisk
  <2>5. SoleOwner'
    BY <1>16 DEF SoleOwner, PhaseInv, TypeOK, Thread, Start
  <2>6. NoReportLost' /\ PersistedAndCountedFirst'
    BY <1>16 DEF NoReportLost, PersistedAndCountedFirst, Start, dashboard,
                 history
  <2> QED
    BY <2>1, <2>2, <2>3, <2>4, <2>5, <2>6 DEF IInv
<1>17. ASSUME NEW r \in Report, ReplayQuarantine(r) PROVE IInv'
  <2>1. TypeOK'
    BY <1>17 DEF TypeOK, FileState, ReplayQuarantine, ReplayTake, clocks,
                 dashboard, history
  <2>2. PhaseInv'
    BY <1>17 DEF PhaseInv, ReplayQuarantine, ReplayTake
  <2>3. HoldInv'
    BY <1>17 DEF HoldInv, PhaseInv, TypeOK, Thread, ReplayQuarantine, ReplayTake
  <2>4. ReportInv'
    BY <1>17 DEF ReportInv, ReplayQuarantine, ReplayTake
  <2>5. SoleOwner'
    BY <1>17 DEF SoleOwner, ReplayQuarantine, ReplayTake
  <2>6. NoReportLost'
    BY <1>17 DEF NoReportLost, ReplayQuarantine, dashboard
  <2>7. PersistedAndCountedFirst'
    BY <1>17, BumpRange, BoundAssumption, ThreadAssumption, ReportAssumption
    DEF PersistedAndCountedFirst, HoldInv, ReportInv, SoleOwner, TypeOK,
        ReplayQuarantine, ReplayTake, OldestListed, disk, process, clocks,
        dashboard, history
  <2> QED
    BY <2>1, <2>2, <2>3, <2>4, <2>5, <2>6, <2>7 DEF IInv
<1>18. ASSUME NEW r \in Report, ReplayOrphan(r) PROVE IInv'
  <2>1. TypeOK'
    BY <1>18, BumpRange, BoundAssumption, ThreadAssumption, ReportAssumption
    DEF TypeOK, Thread, FileState, ThreadStep, Time, Never, ReplayOrphan,
        ReplayTake, OldestListed, disk, process, clocks, dashboard, history
  <2>2. PhaseInv'
    BY <1>18, BumpRange, BoundAssumption, ThreadAssumption, ReportAssumption
    DEF PhaseInv, Thread, TypeOK, ReplayOrphan, ReplayTake, OldestListed, disk,
        process, clocks, dashboard, history
  <2>3. ReportInv'
    BY <1>18, BumpRange, BoundAssumption, ThreadAssumption, ReportAssumption
    DEF ReportInv, HoldInv, PhaseInv, TypeOK, Never, Time, Thread, ReplayOrphan,
        ReplayTake, OldestListed, disk, process, clocks, dashboard, history
  <2>4. SoleOwner'
    BY <1>18, BumpRange, BoundAssumption, ThreadAssumption, ReportAssumption
    DEF SoleOwner, PhaseInv, HoldInv, ReportInv, TypeOK, Thread, ReplayOrphan,
        ReplayTake, OldestListed, disk, process, clocks, dashboard, history
  <2>5. HoldInv' /\ NoReportLost' /\ PersistedAndCountedFirst'
    BY <1>18 DEF HoldInv, NoReportLost, PersistedAndCountedFirst, IsOrphan,
                 ReplayOrphan, ReplayTake, OldestListed, disk, process, clocks,
                 dashboard, history
  <2> QED
    BY <2>1, <2>2, <2>3, <2>4, <2>5 DEF IInv
<1>19. ASSUME NEW r \in Report, ReplaySubmit(r) PROVE IInv'
  <2>1. TypeOK'
    BY <1>19, BumpRange, BoundAssumption, ThreadAssumption, ReportAssumption
    DEF TypeOK, Thread, FileState, ThreadStep, Time, Never, ReplaySubmit,
        ReplayTake, OldestListed, Goto, disk, process, clocks, dashboard,
        history
  <2>2. PhaseInv'
    BY <1>19, BumpRange, BoundAssumption, ThreadAssumption, ReportAssumption
    DEF PhaseInv, Thread, TypeOK, ReplaySubmit, ReplayTake, OldestListed, Goto,
        disk, process, clocks, dashboard, history
  <2>3. HoldInv'
    BY <1>19, BumpRange, BoundAssumption, ThreadAssumption, ReportAssumption
    DEF HoldInv, IsOrphan, SoleOwner, PhaseInv, ReportInv, TypeOK, Thread,
        PersistedAndCountedFirst, ReplaySubmit, ReplayTake, OldestListed, Goto,
        disk, process, clocks, dashboard, history
  <2>4. ReportInv'
    BY <1>19, BumpRange, BoundAssumption, ThreadAssumption, ReportAssumption
    DEF ReportInv, HoldInv, PhaseInv, TypeOK, Never, Time, Thread, ReplaySubmit,
        ReplayTake, OldestListed, Goto, disk, process, clocks, dashboard,
        history
  <2>5. SoleOwner'
    BY <1>19, BumpRange, BoundAssumption, ThreadAssumption, ReportAssumption
    DEF SoleOwner, PhaseInv, HoldInv, ReportInv, TypeOK, Thread, ReplaySubmit,
        ReplayTake, OldestListed, Goto, disk, process, clocks, dashboard,
        history
  <2>6. NoReportLost' /\ PersistedAndCountedFirst'
    BY <1>19 DEF NoReportLost, PersistedAndCountedFirst, ReplaySubmit,
                 ReplayTake, OldestListed, Goto, disk, process, clocks,
                 dashboard, history
  <2> QED
    BY <2>1, <2>2, <2>3, <2>4, <2>5, <2>6 DEF IInv
<1>20. CASE ReplayDone
  <2>1. TypeOK'
    BY <1>20, BumpRange, BoundAssumption, ThreadAssumption, ReportAssumption
    DEF TypeOK, Thread, FileState, ThreadStep, Time, Never, ReplayDone, Goto,
        disk, process, clocks, dashboard, history
  <2>2. PhaseInv'
    BY <1>20, BumpRange, BoundAssumption, ThreadAssumption, ReportAssumption
    DEF PhaseInv, Thread, TypeOK, ReplayDone, Goto, disk, process, clocks,
        dashboard, history
  <2>3. HoldInv'
    BY <1>20, BumpRange, BoundAssumption, ThreadAssumption, ReportAssumption
    DEF HoldInv, IsOrphan, SoleOwner, PhaseInv, ReportInv, TypeOK, Thread,
        PersistedAndCountedFirst, ReplayDone, Goto, disk, process, clocks,
        dashboard, history
  <2>4. ReportInv' /\ SoleOwner' /\ NoReportLost' /\ PersistedAndCountedFirst'
    BY <1>20 DEF ReportInv, SoleOwner, NoReportLost, PersistedAndCountedFirst,
                 ReplayDone, Goto, disk, process, clocks, dashboard, history
  <2> QED
    BY <2>1, <2>2, <2>3, <2>4 DEF IInv
<1>21. CASE ReplayInterrupted
  <2>1. TypeOK'
    BY <1>21, BumpRange, BoundAssumption, ThreadAssumption, ReportAssumption
    DEF TypeOK, Thread, FileState, ThreadStep, Time, Never, ReplayInterrupted,
        Halt, Goto, disk, process, clocks, dashboard, history
  <2>2. PhaseInv'
    BY <1>21, BumpRange, BoundAssumption, ThreadAssumption, ReportAssumption
    DEF PhaseInv, Thread, TypeOK, ReplayInterrupted, Halt, Goto, disk, process,
        clocks, dashboard, history
  <2>3. HoldInv'
    BY <1>21, BumpRange, BoundAssumption, ThreadAssumption, ReportAssumption
    DEF HoldInv, IsOrphan, SoleOwner, PhaseInv, ReportInv, TypeOK, Thread,
        PersistedAndCountedFirst, ReplayInterrupted, Halt, Goto, disk, process,
        clocks, dashboard, history
  <2>4. ReportInv'
    BY <1>21, BumpRange, BoundAssumption, ThreadAssumption, ReportAssumption
    DEF ReportInv, HoldInv, PhaseInv, TypeOK, Never, Time, Thread,
        ReplayInterrupted, Halt, Goto, disk, process, clocks, dashboard, history
  <2>5. SoleOwner'
    BY <1>21, BumpRange, BoundAssumption, ThreadAssumption, ReportAssumption
    DEF SoleOwner, PhaseInv, HoldInv, ReportInv, TypeOK, Thread,
        ReplayInterrupted, Halt, Goto, disk, process, clocks, dashboard, history
  <2>6. NoReportLost' /\ PersistedAndCountedFirst'
    BY <1>21 DEF NoReportLost, PersistedAndCountedFirst, ReplayInterrupted,
                 Halt, Goto, disk, process, clocks, dashboard, history
  <2> QED
    BY <2>1, <2>2, <2>3, <2>4, <2>5, <2>6 DEF IInv
<1>22. CASE Exit
  <2>1. TypeOK'
    BY <1>22, BumpRange, BoundAssumption, ThreadAssumption, ReportAssumption
    DEF TypeOK, Thread, FileState, ThreadStep, Time, Never, Exit, Halt, Goto,
        disk, process, clocks, dashboard, history
  <2>2. PhaseInv'
    BY <1>22, BumpRange, BoundAssumption, ThreadAssumption, ReportAssumption
    DEF PhaseInv, Thread, TypeOK, Exit, Halt, Goto, disk, process, clocks,
        dashboard, history
  <2>3. HoldInv'
    BY <1>22, BumpRange, BoundAssumption, ThreadAssumption, ReportAssumption
    DEF HoldInv, IsOrphan, SoleOwner, PhaseInv, ReportInv, TypeOK, Thread,
        PersistedAndCountedFirst, Exit, Halt, Goto, disk, process, clocks,
        dashboard, history
  <2>4. ReportInv'
    BY <1>22, BumpRange, BoundAssumption, ThreadAssumption, ReportAssumption
    DEF ReportInv, HoldInv, PhaseInv, TypeOK, Never, Time, Thread, Exit, Halt,
        Goto, disk, process, clocks, dashboard, history
  <2>5. SoleOwner'
    BY <1>22, BumpRange, BoundAssumption, ThreadAssumption, ReportAssumption
    DEF SoleOwner, PhaseInv, HoldInv, ReportInv, TypeOK, Thread, Exit, Halt,
        Goto, disk, process, clocks, dashboard, history
  <2>6. NoReportLost' /\ PersistedAndCountedFirst'
    BY <1>22 DEF NoReportLost, PersistedAndCountedFirst, Exit, Halt, Goto, disk,
                 process, clocks, dashboard, history
  <2> QED
    BY <2>1, <2>2, <2>3, <2>4, <2>5, <2>6 DEF IInv
<1>23. CASE Crash
  <2>1. TypeOK'
    <3>1. /\ pc' \in [Thread -> ThreadStep]
          /\ job' \in [Thread -> Report \cup {NoReport}]
      BY <1>23 DEF Crash, Halt, ThreadStep
    <3>2. \A t \in Thread : job'[t] = NoReport /\ pc'[t] = "idle"
      BY <1>23 DEF Crash, Halt
    <3>3. faults' \in 0 .. MaxFaults
      BY <1>23, BoundAssumption DEF Crash, Fault, TypeOK
    <3> QED
      BY <1>23, <3>1, <3>2, <3>3
      DEF TypeOK, Crash, Halt, disk, clocks, dashboard, history
  <2>2. PhaseInv'
    BY <1>23, BumpRange, BoundAssumption, ThreadAssumption, ReportAssumption
    DEF PhaseInv, Thread, TypeOK, Crash, Halt, Fault, Goto, disk, process,
        clocks, dashboard, history
  <2>3. HoldInv'
    BY <1>23, BumpRange, BoundAssumption, ThreadAssumption, ReportAssumption
    DEF HoldInv, IsOrphan, SoleOwner, PhaseInv, ReportInv, TypeOK, Thread,
        PersistedAndCountedFirst, Crash, Halt, Fault, Goto, disk, process,
        clocks, dashboard, history
  <2>4. ReportInv'
    BY <1>23, BumpRange, BoundAssumption, ThreadAssumption, ReportAssumption
    DEF ReportInv, HoldInv, PhaseInv, TypeOK, Never, Time, Thread, Crash, Halt,
        Fault, Goto, disk, process, clocks, dashboard, history
  <2>5. SoleOwner'
    BY <1>23, BumpRange, BoundAssumption, ThreadAssumption, ReportAssumption
    DEF SoleOwner, PhaseInv, HoldInv, ReportInv, TypeOK, Thread, Crash, Halt,
        Fault, Goto, disk, process, clocks, dashboard, history
  <2>6. NoReportLost' /\ PersistedAndCountedFirst'
    BY <1>23 DEF NoReportLost, PersistedAndCountedFirst, Crash, Halt, Fault,
                 Goto, disk, process, clocks, dashboard, history
  <2> QED
    BY <2>1, <2>2, <2>3, <2>4, <2>5, <2>6 DEF IInv
<1>24. CASE SignalShutdown
  <2>1. TypeOK'
    BY <1>24, BumpRange, BoundAssumption, ThreadAssumption, ReportAssumption
    DEF TypeOK, Thread, FileState, ThreadStep, Time, Never, SignalShutdown,
        Fault, disk, process, clocks, dashboard, history
  <2>2. /\ PhaseInv' /\ HoldInv' /\ ReportInv' /\ SoleOwner'
        /\ NoReportLost' /\ PersistedAndCountedFirst'
    BY <1>24 DEF PhaseInv, HoldInv, ReportInv, SoleOwner, NoReportLost,
                 PersistedAndCountedFirst, IsOrphan, SignalShutdown, Fault,
                 disk, process, clocks, dashboard, history
  <2> QED
    BY <2>1, <2>2 DEF IInv
<1>25. ASSUME NEW r \in Report, Damage(r) PROVE IInv'
  <2>1. TypeOK'
    BY <1>25, BumpRange, BoundAssumption, ThreadAssumption, ReportAssumption
    DEF TypeOK, Thread, FileState, ThreadStep, Time, Never, Damage, Fault, disk,
        process, clocks, dashboard, history
  <2>2. HoldInv'
    BY <1>25, BumpRange, BoundAssumption, ThreadAssumption, ReportAssumption
    DEF HoldInv, IsOrphan, SoleOwner, PhaseInv, ReportInv, TypeOK, Thread,
        PersistedAndCountedFirst, Damage, Fault, disk, process, clocks,
        dashboard, history
  <2>3. ReportInv'
    BY <1>25, BumpRange, BoundAssumption, ThreadAssumption, ReportAssumption
    DEF ReportInv, HoldInv, PhaseInv, TypeOK, Never, Time, Thread, Damage,
        Fault, disk, process, clocks, dashboard, history
  <2>4. NoReportLost'
    BY <1>25, BumpRange, BoundAssumption, ThreadAssumption, ReportAssumption
    DEF NoReportLost, HoldInv, TypeOK, Damage, Fault, disk, process, clocks,
        dashboard, history
  <2>5. PersistedAndCountedFirst'
    BY <1>25, BumpRange, BoundAssumption, ThreadAssumption, ReportAssumption
    DEF PersistedAndCountedFirst, HoldInv, ReportInv, SoleOwner, TypeOK, Damage,
        Fault, disk, process, clocks, dashboard, history
  <2>6. PhaseInv' /\ SoleOwner'
    BY <1>25 DEF PhaseInv, SoleOwner, Damage, Fault, disk, process, clocks,
                 dashboard, history
  <2> QED
    BY <2>1, <2>2, <2>3, <2>4, <2>5, <2>6 DEF IInv
<1>26. ASSUME NEW r \in Report, LateRequest(r) PROVE IInv'
  <2>1. TypeOK'
    BY <1>26, BumpRange, BoundAssumption, ThreadAssumption, ReportAssumption
    DEF TypeOK, Thread, FileState, ThreadStep, Time, Never, LateRequest, disk,
        process, clocks, dashboard, history
  <2>2. HoldInv'
    BY <1>26, BumpRange, BoundAssumption, ThreadAssumption, ReportAssumption
    DEF HoldInv, IsOrphan, SoleOwner, PhaseInv, ReportInv, TypeOK, Thread,
        PersistedAndCountedFirst, LateRequest, disk, process, clocks, dashboard,
        history
  <2>3. NoReportLost'
    BY <1>26, BumpRange, BoundAssumption, ThreadAssumption, ReportAssumption
    DEF NoReportLost, HoldInv, TypeOK, LateRequest, disk, process, clocks,
        dashboard, history
  <2>4. PersistedAndCountedFirst'
    BY <1>26, BumpRange, BoundAssumption, ThreadAssumption, ReportAssumption
    DEF PersistedAndCountedFirst, HoldInv, ReportInv, SoleOwner, TypeOK,
        LateRequest, disk, process, clocks, dashboard, history
  <2>5. PhaseInv' /\ ReportInv' /\ SoleOwner'
    BY <1>26 DEF PhaseInv, ReportInv, SoleOwner, LateRequest, disk, process,
                 clocks, dashboard, history
  <2> QED
    BY <2>1, <2>2, <2>3, <2>4, <2>5 DEF IInv
<1>27. CASE Revoke
  <2>1. TypeOK'
    BY <1>27, BumpRange, BoundAssumption, ThreadAssumption, ReportAssumption
    DEF TypeOK, Thread, FileState, ThreadStep, Time, Never, Revoke, Fault, disk,
        process, clocks, dashboard, history
  <2>2. PersistedAndCountedFirst'
    BY <1>27, BumpRange, BoundAssumption, ThreadAssumption, ReportAssumption
    DEF PersistedAndCountedFirst, HoldInv, ReportInv, SoleOwner, TypeOK, Revoke,
        Fault, disk, process, clocks, dashboard, history
  <2>3. PhaseInv' /\ HoldInv' /\ ReportInv' /\ SoleOwner' /\ NoReportLost'
    BY <1>27 DEF PhaseInv, HoldInv, ReportInv, SoleOwner, NoReportLost,
                 IsOrphan, Revoke, Fault, disk, process, clocks, dashboard,
                 history
  <2> QED
    BY <2>1, <2>2, <2>3 DEF IInv
<1>28. CASE Reregister
  <2>1. TypeOK'
    <3>1. registeredAt' \in Int /\ foreign' \in SUBSET Report
      BY <1>28, BoundAssumption DEF Reregister, TypeOK, Time
    <3> QED
      BY <1>28, <3>1 DEF TypeOK, Reregister, disk, process
  <2>2. HoldInv'
    BY <1>28, BumpRange, BoundAssumption, ThreadAssumption, ReportAssumption
    DEF HoldInv, IsOrphan, SoleOwner, PhaseInv, ReportInv, TypeOK, Thread,
        PersistedAndCountedFirst, Reregister, disk, process, clocks, dashboard,
        history
  <2>3. /\ PhaseInv' /\ ReportInv' /\ SoleOwner'
        /\ NoReportLost' /\ PersistedAndCountedFirst'
    BY <1>28 DEF PhaseInv, ReportInv, SoleOwner, NoReportLost,
                 PersistedAndCountedFirst, Reregister, disk, process, clocks,
                 dashboard, history
  <2> QED
    BY <2>1, <2>2, <2>3 DEF IInv
<1>29. CASE Tick
  <2>1. TypeOK'
    BY <1>29, BumpRange, BoundAssumption, ThreadAssumption, ReportAssumption
    DEF TypeOK, Thread, FileState, ThreadStep, Time, Never, Tick, disk, process,
        clocks, dashboard, history
  <2>2. /\ PhaseInv' /\ HoldInv' /\ ReportInv' /\ SoleOwner'
        /\ NoReportLost' /\ PersistedAndCountedFirst'
    BY <1>29 DEF PhaseInv, HoldInv, ReportInv, SoleOwner, NoReportLost,
                 PersistedAndCountedFirst, IsOrphan, Tick, disk, process,
                 clocks, dashboard, history
  <2> QED
    BY <2>1, <2>2 DEF IInv
<1>30. CASE UNCHANGED vars
  BY <1>30 DEF IInv, TypeOK, PhaseInv, HoldInv, IsOrphan, ReportInv, SoleOwner,
     NoReportLost, PersistedAndCountedFirst, vars, disk, process, clocks,
     dashboard, history
<1> QED
  BY <1>1, <1>2, <1>3, <1>4, <1>5, <1>6, <1>7, <1>8, <1>9, <1>10, <1>11, <1>12,
     <1>13, <1>14, <1>15, <1>16, <1>17, <1>18, <1>19, <1>20, <1>21, <1>22,
     <1>23, <1>24, <1>25, <1>26, <1>27, <1>28, <1>29, <1>30
  DEF Next, Code, Answer, Verdict, Replay, Environment, Thread

\* The inductive invariant holds in every reachable state.
THEOREM Invariance == Spec => []IInv
<1>1. Init => IInv
  BY InitInvariant
<1>2. IInv /\ [Next]_vars => IInv'
  BY StepInvariant
<1> QED
  BY <1>1, <1>2, PTL DEF Spec

\* Every variable keeps its type, and a thread holds a report exactly while it
\* is inside submit_report_with_retry or the replay's retry loop.
THEOREM TypeCorrectness == Spec => []TypeOK
<1>1. IInv => TypeOK
  BY DEF IInv
<1> QED
  BY <1>1, Invariance, PTL

\* No report file is unlinked before the dashboard stored or refused it.
THEOREM NothingLost == Spec => []NoReportLost
<1>1. IInv => NoReportLost
  BY DEF IInv
<1> QED
  BY <1>1, Invariance, PTL

\* Every report is on disk, and its attempt counted there, before it is sent.
THEOREM DiskBeforeWire == Spec => []PersistedAndCountedFirst
<1>1. IInv => PersistedAndCountedFirst
  BY DEF IInv
<1> QED
  BY <1>1, Invariance, PTL

\* No file is ever in the hands of two threads or of a thread and the replay.
THEOREM OneOwner == Spec => []SoleOwner
<1>1. IInv => SoleOwner
  BY DEF IInv
<1> QED
  BY <1>1, Invariance, PTL

\* The replay never calls the dashboard for an orphan file.
THEOREM OrphansLeftAlone == Spec => OrphansNotReplayed
<1> DEFINE Quiet == \A r \in Report :
                      phase = "replay" /\ sends'[r] # sends[r] => ~IsOrphan(r)
<1>1. IInv /\ [Next]_vars => [Quiet]_vars
  <2> SUFFICES ASSUME IInv, Next, NEW r \in Report,
                      phase = "replay", sends'[r] # sends[r]
               PROVE  ~IsOrphan(r)
    OBVIOUS
  <2>1. PICK t \in Thread : Call(t)
    BY DEF Next, Code, Answer, Verdict, Replay, Environment, WriteTmp,
       SaveRename,
       CountRename, BackoffOver, BackoffWoken, Delete, Delivered, Duplicate, Refused,
       Retriable, Unauthorized, Fatal, DiskFull, BeginSubmit, Start,
       ReplayQuarantine, ReplayOrphan, ReplaySubmit, ReplayDone, ReplayInterrupted,
       Exit, Crash, SignalShutdown, Damage, LateRequest, Revoke, Reregister, Tick,
       history
  <2>2. job[t] = r
    BY <2>1 DEF Call, IInv, TypeOK
  <2>3. t = Main
    BY <2>1 DEF Call, IInv, PhaseInv, Thread
  <2> QED
    BY <2>2, <2>3, ReportAssumption DEF IInv, HoldInv
<1> QED
  BY <1>1, Invariance, PTL DEF Spec, OrphansNotReplayed

LEMMA PromiseInit == Init => Promise!PInit
BY DEF Init, Promise!PInit, OnDisk

LEMMA PromiseStep == IInv /\ [Next]_vars => [Promise!PNext]_(Promise!pvars)
<1> SUFFICES ASSUME IInv, [Next]_vars
             PROVE  Promise!PNext \/ UNCHANGED Promise!pvars
  OBVIOUS
<1>1. ASSUME NEW t \in Thread, SaveRename(t) PROVE Promise!PNext
  <2>1. job[t] \in Report /\ file[job[t]] = "unwritten"
    BY <1>1 DEF SaveRename, IInv, TypeOK, HoldInv
  <2>2. Promise!Persist(job[t])
    BY <1>1, <2>1 DEF SaveRename, IInv, TypeOK, Promise!Persist, Promise!Known,
                      OnDisk, dashboard
  <2> QED
    BY <2>1, <2>2 DEF Promise!PNext
<1>2. ASSUME NEW t \in Thread, Delivered(t) \/ Refused(t) PROVE Promise!PNext
  <2>1. job[t] \in Report /\ file[job[t]] = "pending"
    BY <1>2 DEF Delivered, Refused, Answered, IInv, TypeOK, HoldInv
  <2>2. Promise!Store(job[t]) \/ Promise!Refuse(job[t])
    BY <1>2, <2>1 DEF Delivered, Refused, Promise!Store, Promise!Refuse,
                      Promise!Known, OnDisk, disk
  <2> QED
    BY <2>1, <2>2 DEF Promise!PNext
<1>3. ASSUME NEW t \in Thread, Delete(t) PROVE Promise!PNext
  <2>1. PICK r \in Report : r = job[t]
    BY <1>3 DEF Delete, IInv, TypeOK
  <2>2. file[r] = "pending" /\ r \in accepted \cup rejected
    BY <1>3, <2>1 DEF Delete, IInv, HoldInv
  <2>3. Promise!LetGo(r)
    BY <1>3, <2>1, <2>2 DEF Delete, IInv, TypeOK, Promise!LetGo, OnDisk,
                            dashboard
  <2> QED
    BY <2>3 DEF Promise!PNext
<1>4. ASSUME NEW r \in Report, ReplayQuarantine(r) PROVE Promise!PNext
  <2>1. Promise!SetAside(r)
    BY <1>4 DEF ReplayQuarantine, IInv, TypeOK, Promise!SetAside, OnDisk,
                dashboard
  <2> QED
    BY <2>1 DEF Promise!PNext
<1>5. ASSUME NEW r \in Report, LateRequest(r)
      PROVE  Promise!PNext \/ UNCHANGED Promise!pvars
  <2>1. r \in Promise!Known
    BY <1>5 DEF LateRequest, IInv, TypeOK, PersistedAndCountedFirst, FileState,
                Promise!Known, OnDisk
  <2>2. Promise!Store(r) \/ UNCHANGED Promise!pvars
    BY <1>5, <2>1 DEF LateRequest, Promise!Store, Promise!pvars, OnDisk, disk
  <2> QED
    BY <2>2 DEF Promise!PNext
<1>6. ASSUME NEW r \in Report, Damage(r) PROVE UNCHANGED Promise!pvars
  BY <1>6 DEF Damage, IInv, TypeOK, Promise!pvars, OnDisk, dashboard
<1>7. ASSUME UNCHANGED <<file, accepted, rejected>> PROVE UNCHANGED Promise!pvars
  BY <1>7 DEF Promise!pvars, OnDisk
<1>8. ASSUME NEW t \in Thread,
             \/ WriteTmp(t) \/ CountRename(t) \/ Call(t) \/ BackoffOver(t)
             \/ BackoffWoken(t) \/ Duplicate(t) \/ Retriable(t) \/ Unauthorized(t)
             \/ Fatal(t) \/ DiskFull(t)
      PROVE UNCHANGED Promise!pvars
  BY <1>7, <1>8 DEF WriteTmp, CountRename, Call, BackoffOver, BackoffWoken,
     Duplicate, Retriable, Unauthorized, Fatal, DiskFull, disk, dashboard
<1>9. ASSUME NEW t \in Submitter, NEW r \in Report, BeginSubmit(t, r)
      PROVE UNCHANGED Promise!pvars
  BY <1>7, <1>9 DEF BeginSubmit, dashboard
<1>10. ASSUME \/ Start \/ ReplayDone \/ ReplayInterrupted \/ Exit \/ Crash
              \/ SignalShutdown \/ Revoke \/ Reregister \/ Tick
       PROVE UNCHANGED Promise!pvars
  BY <1>7, <1>10 DEF Start, ReplayDone, ReplayInterrupted, Exit, Crash,
     SignalShutdown, Revoke, Reregister, Tick, disk, dashboard
<1>11. ASSUME NEW r \in Report, ReplayOrphan(r) \/ ReplaySubmit(r)
       PROVE UNCHANGED Promise!pvars
  BY <1>7, <1>11 DEF ReplayOrphan, ReplaySubmit, disk, dashboard
<1>12. CASE UNCHANGED vars
  BY <1>7, <1>12 DEF vars, disk, dashboard
<1> QED
  BY <1>1, <1>2, <1>3, <1>4, <1>5, <1>6, <1>8, <1>9, <1>10, <1>11, <1>12
  DEF Next, Code, Answer, Verdict, Replay, Environment

\* The delivery of reports implements the at-least-once promise.
THEOREM KeepsPromise == Spec => ImplementsPromise
<1>1. Init => Promise!PInit
  BY PromiseInit
<1>2. IInv /\ [Next]_vars => [Promise!PNext]_(Promise!pvars)
  BY PromiseStep
<1> QED
  BY <1>1, <1>2, Invariance, PTL DEF Spec, ImplementsPromise, Promise!PSpec

\* Steps that touch no stamp and give no submitter a report.
Timeless ==
    /\ UNCHANGED <<persistedAt, registeredAt, now, foreign>>
    /\ \A t \in Submitter : job'[t] \in {job[t], NoReport}

LEMMA StampStep == IInv /\ StampInv /\ [Next]_vars => StampInv'
<1> SUFFICES ASSUME TypeOK, PhaseInv, StampInv, [Next]_vars PROVE StampInv'
  BY DEF IInv
<1>0. /\ Skew \in Int /\ now \in Int /\ registeredAt \in Int
      /\ \A r \in Report : persistedAt[r] \in Int
      /\ foreign \subseteq Report
      /\ NoReport \notin foreign
  BY BoundAssumption, ReportAssumption DEF TypeOK, Time, Never
<1>1. ASSUME NEW t \in Submitter, NEW r \in Report, BeginSubmit(t, r)
      PROVE  StampInv'
  <2>1. /\ \A x \in Report : persistedAt'[x] = IF x = r THEN now ELSE persistedAt[x]
        /\ persistedAt[r] = Never
        /\ UNCHANGED <<now, registeredAt, foreign>>
    BY <1>1 DEF BeginSubmit, TypeOK, clocks, history
  <2>2. \A u \in Submitter : job'[u] = IF u = t THEN r ELSE job[u]
    BY <1>1 DEF BeginSubmit, TypeOK, Thread
  <2>3. r \notin foreign
    BY <2>1 DEF StampInv
  <2> QED
    BY <1>0, <2>1, <2>2, <2>3 DEF StampInv, Never
<1>2. CASE Reregister
  <2>1. /\ registeredAt' = now + Skew
        /\ foreign' = {r \in Report : persistedAt[r] # Never}
        /\ UNCHANGED <<persistedAt, now, job>>
    BY <1>2 DEF Reregister, disk, process
  <2>2. \A t \in Submitter : job[t] = NoReport
    BY <1>2 DEF Reregister, PhaseInv, TypeOK, Thread
  <2> QED
    BY <1>0, <2>1, <2>2, ReportAssumption DEF StampInv
<1>3. CASE Tick
  <2>1. now' = now + 1 /\ UNCHANGED <<persistedAt, registeredAt, foreign, job>>
    BY <1>3 DEF Tick, disk, history, process
  <2> QED
    BY <1>0, <2>1 DEF StampInv
<1>4. CASE Timeless
  BY <1>0, <1>4 DEF StampInv, Timeless
<1>5. ASSUME NEW t \in Thread, Code(t) \/ Answer(t) \/ DiskFull(t)
      PROVE  Timeless
  <2>1. UNCHANGED <<persistedAt, registeredAt, now, foreign>>
    BY <1>5 DEF Code, Answer, Verdict, WriteTmp, SaveRename, CountRename, Call,
       BackoffOver, BackoffWoken, Delete, Delivered, Duplicate, Refused,
       Retriable, Unauthorized, Fatal, DiskFull, disk, clocks, history
  <2>2. \A u \in Submitter : job'[u] \in {job[u], NoReport}
    BY <1>5 DEF Code, Answer, Verdict, WriteTmp, SaveRename, CountRename, Call,
       BackoffOver, BackoffWoken, Delete, Delivered, Duplicate, Refused,
       Retriable, Unauthorized, Fatal, DiskFull, Abandon, Halt, Thread, TypeOK
  <2> QED
    BY <2>1, <2>2 DEF Timeless
<1>6. ASSUME \/ Start \/ Replay \/ Exit \/ Crash \/ SignalShutdown \/ Revoke
             \/ \E r \in Report : Damage(r) \/ LateRequest(r)
      PROVE  Timeless
  <2>1. UNCHANGED <<persistedAt, registeredAt, now, foreign>>
    BY <1>6 DEF Start, Replay, ReplayQuarantine, ReplayOrphan, ReplaySubmit,
       ReplayDone, ReplayInterrupted, Exit, Crash, SignalShutdown, Revoke,
       Damage, LateRequest, disk, clocks, history
  <2>2. \A u \in Submitter : job'[u] \in {job[u], NoReport}
    BY <1>6, ThreadAssumption DEF Start, Replay, ReplayQuarantine, ReplayOrphan,
       ReplaySubmit, ReplayDone, ReplayInterrupted, Exit, Crash, SignalShutdown,
       Revoke, Damage, LateRequest, Halt, process, Thread, TypeOK
  <2> QED
    BY <2>1, <2>2 DEF Timeless
<1>7. CASE UNCHANGED vars
  BY <1>4, <1>7 DEF vars, disk, clocks, history, process, Timeless
<1> QED
  BY <1>1, <1>2, <1>3, <1>4, <1>5, <1>6, <1>7 DEF Next, Environment

\* What the two stamps of a report say about each other, for any skew.
THEOREM StampsAreTold == Spec => []StampInv
<1>1. Init => StampInv
  BY BoundAssumption DEF Init, StampInv, Never, Thread
<1>2. IInv /\ StampInv /\ [Next]_vars => StampInv'
  BY StampStep
<1> QED
  BY <1>1, <1>2, Invariance, PTL DEF Spec

LEMMA StampsAreIntegers ==
    ASSUME TypeOK
    PROVE  /\ Skew \in Int /\ registeredAt \in Int
           /\ \A r \in Report : persistedAt[r] \in Int
BY BoundAssumption DEF TypeOK, Time, Never

\* A skew makes orphans of no reports but those of the first Skew seconds after
\* the registration; without one, every orphan is of an earlier registration.
THEOREM OrphansAreOld == Spec => []OrphanWindow
<1>1. IInv /\ StampInv => OrphanWindow
  BY StampsAreIntegers DEF IInv, StampInv, OrphanWindow, IsOrphan
<1> QED
  BY <1>1, Invariance, StampsAreTold, PTL

\* No report crosses from one registration to the next, except one of the last
\* seconds before it by which the dashboard's clock is behind.
THEOREM ForeignStaysHome == Spec => []ForeignWindow
<1>1. IInv /\ StampInv => ForeignWindow
  <2> SUFFICES ASSUME IInv, StampInv, NEW t \in Thread, job[t] \in foreign
               PROVE  persistedAt[job[t]] - registeredAt \in 0 .. -Skew
    BY DEF ForeignWindow
  <2>1. t = Main /\ job[t] \in Report
    BY DEF StampInv, Thread, IInv, TypeOK
  <2>2. ~IsOrphan(job[t])
    BY <2>1, ReportAssumption DEF IInv, HoldInv
  <2> QED
    BY <2>1, <2>2, StampsAreIntegers DEF IInv, StampInv, IsOrphan
<1> QED
  BY <1>1, Invariance, StampsAreTold, PTL

\* The replay tells the registrations apart as far as the two clocks agree.
THEOREM SkewIsBounded == Spec => []SkewWindow
<1>1. OrphanWindow /\ ForeignWindow => SkewWindow
  BY DEF SkewWindow
<1> QED
  BY <1>1, OrphansAreOld, ForeignStaysHome, PTL

\* During the replay nothing joins the list and no file on it is rewritten.
THEOREM ListStaysGood == Spec => ReplayKeepsOrder
<1> DEFINE Kept == /\ todo' \subseteq todo
                   /\ \A r, s \in todo' : s \in newer'[r] <=> s \in newer[r]
<1>1. IInv /\ [Next]_vars => [phase = "replay" /\ phase' = "replay" => Kept]_vars
  <2> SUFFICES ASSUME IInv, Next, phase = "replay", phase' = "replay" PROVE Kept
    OBVIOUS
  <2>1. ASSUME NEW t \in Thread, SaveRename(t) \/ CountRename(t) PROVE Kept
    <3>1. job[t] \in Report /\ job[t] \notin todo
      BY <2>1 DEF SaveRename, CountRename, IInv, TypeOK, SoleOwner
    <3>2. todo' = todo /\ newer' = Rewritten(job[t])
      BY <2>1 DEF SaveRename, CountRename
    <3>3. todo \subseteq Report
      BY DEF IInv, TypeOK
    <3> QED
      BY <3>1, <3>2, <3>3 DEF Rewritten
  <2>2. ASSUME NEW t \in Thread,
               \/ Code(t) /\ ~SaveRename(t) /\ ~CountRename(t)
               \/ Answer(t) \/ DiskFull(t)
        PROVE  Kept
    BY <2>2 DEF Code, Answer, Verdict, WriteTmp, Call, BackoffOver, BackoffWoken,
       Delete, Delivered, Duplicate, Refused, Retriable, Unauthorized, Fatal,
       DiskFull, Abandon, Halt, disk
  <2>3. ASSUME NEW r \in Report,
               ReplayQuarantine(r) \/ ReplayOrphan(r) \/ ReplaySubmit(r)
        PROVE  Kept
    BY <2>3 DEF ReplayQuarantine, ReplayOrphan, ReplaySubmit, ReplayTake, disk
  <2>4. ASSUME NEW t \in Submitter, NEW r \in Report, BeginSubmit(t, r)
        PROVE  Kept
    BY <2>4 DEF BeginSubmit
  <2>5. CASE Start \/ ReplayDone \/ ReplayInterrupted \/ Exit
    BY <2>5 DEF Start, ReplayDone, ReplayInterrupted, Exit, Halt
  <2>6. CASE Environment
    BY <2>6 DEF Environment, Crash, SignalShutdown, Revoke, Reregister, Tick,
       Damage, LateRequest, Halt, disk, process
  <2> QED
    BY <2>1, <2>2, <2>3, <2>4, <2>5, <2>6 DEF Next, Replay
<1> QED
  BY <1>1, Invariance, PTL DEF Spec, ReplayKeepsOrder

\* The steps a thread with a report in hand can take once shutdown is set.
Downward == {<<"save", "saveTmp">>, <<"saveTmp", "count">>,
             <<"count", "countTmp">>, <<"countTmp", "call">>, <<"call", "await">>,
             <<"await", "backoff">>, <<"await", "delete">>}

LEMMA StepsTowardsTheEnd ==
    /\ \A from \in ThreadStep \ {"idle", "next", "gone"} :
          \A to \in {"idle", "next", "gone"} : ToGo(to) < ToGo(from)
    /\ \A from, to \in ThreadStep :
          <<from, to>> \in Downward => ToGo(to) < ToGo(from)
<1>1. /\ ToGo("idle") = 0 /\ ToGo("next") = 0 /\ ToGo("gone") = 0
      /\ ToGo("delete") = 1 /\ ToGo("backoff") = 2 /\ ToGo("await") = 3
      /\ ToGo("call") = 4 /\ ToGo("countTmp") = 5 /\ ToGo("count") = 6
      /\ ToGo("saveTmp") = 7 /\ ToGo("save") = 8
  BY DEF ToGo
<1> QED
  BY <1>1 DEF ThreadStep, Downward

\* After shutdown a retry loop makes one more attempt at most.
THEOREM RetriesEnd == Spec => OneLastAttempt
<1> DEFINE Nearer(t) == job[t] # NoReport /\ pc'[t] # pc[t] =>
                            ToGo(pc'[t]) < ToGo(pc[t])
<1>1. IInv /\ [Next]_vars => [shutdown => \A t \in Thread : Nearer(t)]_vars
  <2> SUFFICES ASSUME IInv, Next, shutdown, NEW t \in Thread,
                      job[t] # NoReport, pc'[t] # pc[t]
               PROVE  \/ pc'[t] \in {"idle", "next", "gone"}
                      \/ pc'[t] \in ThreadStep /\ <<pc[t], pc'[t]>> \in Downward
    BY StepsTowardsTheEnd DEF IInv, TypeOK
  <2>1. /\ pc \in [Thread -> ThreadStep]
        /\ pc[t] \notin {"idle", "next", "gone"}
        /\ Main \in Thread /\ Main \notin Submitter
    BY ThreadAssumption DEF IInv, TypeOK, Thread
  <2>2. ASSUME NEW u \in Thread, Code(u) \/ Answer(u)
        PROVE  \/ pc'[t] \in {"idle", "next", "gone"}
               \/ pc'[t] \in ThreadStep /\ <<pc[t], pc'[t]>> \in Downward
    <3>1. CASE t = u
      BY <2>1, <2>2, <3>1 DEF Code, WriteTmp, SaveRename, CountRename, Call,
         BackoffOver, BackoffWoken, Delete, Answer, Verdict, Answered, Delivered,
         Duplicate, Refused, Retriable, Unauthorized, Fatal, Abandon, Halt, Goto,
         Downward, ThreadStep
    <3>2. CASE t # u
      BY <2>1, <2>2, <3>2 DEF Code, WriteTmp, SaveRename, CountRename, Call,
         BackoffOver, BackoffWoken, Delete, Answer, Verdict, Answered, Delivered,
         Duplicate, Refused, Retriable, Unauthorized, Fatal, Abandon, Halt, Goto
    <3> QED
      BY <3>1, <3>2
  <2>3. ASSUME NEW u \in Thread, DiskFull(u)
        PROVE  pc'[t] \in {"idle", "next", "gone"}
    BY <2>1, <2>3 DEF DiskFull, Abandon, Goto
  <2>4. ASSUME NEW u \in Submitter, NEW r \in Report, BeginSubmit(u, r)
        PROVE  FALSE
    BY <2>1, <2>4 DEF BeginSubmit, Goto
  <2>5. ASSUME Start \/ Replay
        PROVE  pc'[t] \in {"idle", "next", "gone"}
    BY <2>1, <2>5 DEF Start, Replay, ReplayQuarantine, ReplayOrphan,
       ReplaySubmit, ReplayTake, ReplayDone, ReplayInterrupted, Halt, Goto
  <2>6. ASSUME Exit \/ Environment
        PROVE  pc'[t] \in {"idle", "next", "gone"}
    BY <2>1, <2>6 DEF Exit, Environment, Crash, SignalShutdown, Revoke, Tick,
       Reregister, Damage, LateRequest, Halt, process
  <2> QED
    BY <2>2, <2>3, <2>4, <2>5, <2>6 DEF Next
<1> QED
  BY <1>1, Invariance, PTL DEF Spec, OneLastAttempt

=============================================================================
