-------------------------- MODULE BootstrapProofs ---------------------------
(***************************************************************************)
(* Proofs about Bootstrap, for any number of tokens and faults.            *)
(***************************************************************************)
EXTENDS Bootstrap, FiniteSetTheorems, TLAPS

\* The dashboard cannot issue more agents than there are tokens.
LEMMA FreshToken ==
    ASSUME consumed \subseteq Token, issued = Cardinality(consumed),
           NEW t \in Token \ consumed
    PROVE  /\ Cardinality(consumed \cup {t}) = issued + 1
           /\ issued + 1 \in AgentId
           /\ issued \in Nat
<1>1. IsFiniteSet(Token) /\ Cardinality(Token) = MaxTokens
  BY FS_Interval, BootstrapBounds DEF Token
<1>2. IsFiniteSet(consumed) /\ issued \in Nat
  BY <1>1, FS_Subset, FS_CardinalityType
<1>3. Cardinality(consumed \cup {t}) = issued + 1
  BY <1>2, FS_AddElement
<1>4. Cardinality(consumed \cup {t}) <= MaxTokens
  BY <1>1, FS_Subset
<1> QED
  BY <1>2, <1>3, <1>4, BootstrapBounds DEF AgentId

\* The initial states satisfy the inductive invariant.
LEMMA InitInvariant == Init => IInv
<1> SUFFICES ASSUME Init PROVE IInv
  OBVIOUS
<1>1. Cardinality({}) = 0
  BY FS_EmptySet
<1>2. TypeOK
  BY BootstrapBounds DEF Init, TypeOK, Token, AgentId, Absent, Corrupt
<1>3. IdentityKept
  BY DEF Init, IdentityKept, RegistersOnlyWithoutFile, IdentityDurable
<1> QED
  BY <1>1, <1>2, <1>3 DEF Init, IInv

\* Every step preserves the inductive invariant.
LEMMA StepInvariant == IInv /\ [Next]_vars => IInv'
<1> SUFFICES ASSUME IInv, [Next]_vars PROVE IInv'
  OBVIOUS
<1>0. TypeOK /\ issued = Cardinality(consumed) /\ IdentityKept
  BY DEF IInv
<1>a. /\ Token = AgentId /\ AgentId \subseteq Nat \ {0}
      /\ Absent = 0 /\ Corrupt = -1
  BY BootstrapBounds DEF Token, AgentId, Absent, Corrupt
<1>b. /\ issued \in Nat
      /\ \A t \in Token \ consumed :
            Cardinality(consumed \cup {t}) = issued + 1 /\ issued + 1 \in AgentId
  <2>1. issued \in Nat /\ consumed \subseteq Token
    BY <1>0 DEF TypeOK
  <2>2. \A t \in Token \ consumed :
           Cardinality(consumed \cup {t}) = issued + 1 /\ issued + 1 \in AgentId
    BY <1>0, <2>1, FreshToken
  <2> QED
    BY <2>1, <2>2
<1> USE <1>0, <1>a
<1>1. CASE Start
  <2>1. TypeOK' /\ issued' = Cardinality(consumed)'
    BY <1>1 DEF TypeOK, Start, disk, dashboard
  <2>2. IdentityKept'
    BY <1>1 DEF TypeOK, IdentityKept, RegistersOnlyWithoutFile, IdentityDurable,
      Start, disk, dashboard
  <2> QED
    BY <2>1, <2>2 DEF IInv
<1>2. CASE LoadAbsent
  <2>1. TypeOK' /\ issued' = Cardinality(consumed)'
    BY <1>2 DEF TypeOK, LoadAbsent, Goto, disk, dashboard
  <2>2. IdentityKept'
    BY <1>2 DEF TypeOK, IdentityKept, RegistersOnlyWithoutFile, IdentityDurable,
      LoadAbsent, Goto, disk, dashboard
  <2> QED
    BY <2>1, <2>2 DEF IInv
<1>3. CASE LoadCorrupt
  <2>1. TypeOK' /\ issued' = Cardinality(consumed)'
    BY <1>3 DEF TypeOK, LoadCorrupt, Leave, disk, dashboard
  <2>2. IdentityKept'
    BY <1>3 DEF TypeOK, IdentityKept, RegistersOnlyWithoutFile, IdentityDurable,
      LoadCorrupt, Leave, disk, dashboard
  <2> QED
    BY <2>1, <2>2 DEF IInv
<1>4. CASE LoadFound
  <2>1. TypeOK' /\ issued' = Cardinality(consumed)'
    BY <1>4 DEF TypeOK, LoadFound, disk, dashboard
  <2>2. IdentityKept'
    BY <1>4 DEF TypeOK, IdentityKept, RegistersOnlyWithoutFile, IdentityDurable,
      LoadFound, disk, dashboard
  <2> QED
    BY <2>1, <2>2 DEF IInv
<1>5. CASE SendRegister
  <2>1. TypeOK' /\ issued' = Cardinality(consumed)'
    BY <1>5 DEF TypeOK, SendRegister, Goto, disk, dashboard
  <2>2. IdentityKept'
    BY <1>5 DEF TypeOK, IdentityKept, RegistersOnlyWithoutFile, IdentityDurable,
      SendRegister, Goto, disk, dashboard
  <2> QED
    BY <2>1, <2>2 DEF IInv
<1>6. CASE TokenRejected
  <2>1. TypeOK' /\ issued' = Cardinality(consumed)'
    BY <1>6 DEF TypeOK, TokenRejected, Leave, disk, dashboard
  <2>2. IdentityKept'
    BY <1>6 DEF TypeOK, IdentityKept, RegistersOnlyWithoutFile, IdentityDurable,
      TokenRejected, Leave, disk, dashboard
  <2> QED
    BY <2>1, <2>2 DEF IInv
<1>7. CASE RegisterRetriable
  <2>a. late' = late \/ late' = late \cup {token}
    BY <1>7 DEF RegisterRetriable
  <2>b. faults' \in 0 .. MaxFaults
    BY <1>7, BootstrapBounds DEF TypeOK, RegisterRetriable, Answers, Fault
  <2>1. TypeOK' /\ issued' = Cardinality(consumed)'
    BY <1>7, <2>a, <2>b DEF TypeOK, RegisterRetriable, Goto, disk
  <2>2. IdentityKept'
    BY <1>7 DEF TypeOK, IdentityKept, RegistersOnlyWithoutFile, IdentityDurable,
      RegisterRetriable, Answers, Fault, Goto, disk
  <2> QED
    BY <2>1, <2>2 DEF IInv
<1>8. CASE BackoffOver
  <2>1. TypeOK' /\ issued' = Cardinality(consumed)'
    BY <1>8 DEF TypeOK, BackoffOver, Goto, disk, dashboard
  <2>2. IdentityKept'
    BY <1>8 DEF TypeOK, IdentityKept, RegistersOnlyWithoutFile, IdentityDurable,
      BackoffOver, Goto, disk, dashboard
  <2> QED
    BY <2>1, <2>2 DEF IInv
<1>9. CASE SaveRename
  <2>1. TypeOK' /\ issued' = Cardinality(consumed)'
    BY <1>9 DEF TypeOK, SaveRename, Goto, dashboard
  <2>2. IdentityKept'
    BY <1>9 DEF TypeOK, IdentityKept, RegistersOnlyWithoutFile, IdentityDurable,
      SaveRename, Goto, dashboard
  <2> QED
    BY <2>1, <2>2 DEF IInv
<1>10. CASE Fetched
  <2>1. TypeOK' /\ issued' = Cardinality(consumed)'
    BY <1>10 DEF TypeOK, Fetched, disk, dashboard
  <2>2. IdentityKept'
    BY <1>10 DEF TypeOK, IdentityKept, RegistersOnlyWithoutFile, IdentityDurable,
      Fetched, disk, dashboard
  <2> QED
    BY <2>1, <2>2 DEF IInv
<1>11. CASE FetchRetriable
  <2>1. TypeOK' /\ issued' = Cardinality(consumed)'
    BY <1>11, BootstrapBounds
    DEF TypeOK, FetchRetriable, Answers, Fault, disk, dashboard
  <2>2. IdentityKept'
    BY <1>11 DEF TypeOK, IdentityKept, RegistersOnlyWithoutFile, IdentityDurable,
      FetchRetriable, Answers, Fault, disk, dashboard
  <2> QED
    BY <2>1, <2>2 DEF IInv
<1>12. CASE FetchRejected
  <2>1. TypeOK' /\ issued' = Cardinality(consumed)'
    BY <1>12 DEF TypeOK, FetchRejected, Leave, disk, dashboard
  <2>2. IdentityKept'
    BY <1>12 DEF TypeOK, IdentityKept, RegistersOnlyWithoutFile, IdentityDurable,
      FetchRejected, Leave, disk, dashboard
  <2> QED
    BY <2>1, <2>2 DEF IInv
<1>13. CASE SaveFails
  <2>1. TypeOK' /\ issued' = Cardinality(consumed)'
    BY <1>13, BootstrapBounds DEF TypeOK, SaveFails, Fault, Leave, disk, dashboard
  <2>2. IdentityKept'
    BY <1>13 DEF TypeOK, IdentityKept, RegistersOnlyWithoutFile, IdentityDurable,
      SaveFails, Fault, Leave, disk, dashboard
  <2> QED
    BY <2>1, <2>2 DEF IInv
<1>14. CASE FetchFatal
  <2>1. TypeOK' /\ issued' = Cardinality(consumed)'
    BY <1>14, BootstrapBounds
    DEF TypeOK, FetchFatal, Answers, Fault, Leave, disk, dashboard
  <2>2. IdentityKept'
    BY <1>14 DEF TypeOK, IdentityKept, RegistersOnlyWithoutFile, IdentityDurable,
      FetchFatal, Answers, Fault, Leave, disk, dashboard
  <2> QED
    BY <2>1, <2>2 DEF IInv
<1>15. CASE Crash
  <2>a. late' = late \/ late' = late \cup {token}
    BY <1>15 DEF Crash
  <2>b. faults' \in 0 .. MaxFaults
    BY <1>15, BootstrapBounds DEF TypeOK, Crash, Fault
  <2>1. TypeOK' /\ issued' = Cardinality(consumed)'
    BY <1>15, <2>a, <2>b DEF TypeOK, Crash, Leave, disk
  <2>2. IdentityKept'
    BY <1>15 DEF TypeOK, IdentityKept, RegistersOnlyWithoutFile, IdentityDurable,
      Crash, Fault, Leave, disk
  <2> QED
    BY <2>1, <2>2 DEF IInv
<1>16. CASE Damage
  <2>1. TypeOK' /\ issued' = Cardinality(consumed)'
    BY <1>16, BootstrapBounds DEF TypeOK, Damage, Fault, process, dashboard
  <2>2. IdentityKept'
    BY <1>16 DEF TypeOK, IdentityKept, RegistersOnlyWithoutFile, IdentityDurable,
      Damage, Fault, process, dashboard
  <2> QED
    BY <2>1, <2>2 DEF IInv
<1>17. ASSUME NEW a \in AgentId, Revoke(a) PROVE IInv'
  <2>1. TypeOK' /\ issued' = Cardinality(consumed)'
    BY <1>17 DEF TypeOK, Revoke, disk, process
  <2>2. IdentityKept'
    BY <1>17 DEF TypeOK, IdentityKept, RegistersOnlyWithoutFile, IdentityDurable,
      Revoke, disk, process
  <2> QED
    BY <2>1, <2>2 DEF IInv
<1>18. CASE OperatorClears
  <2>1. TypeOK' /\ issued' = Cardinality(consumed)'
    BY <1>18 DEF TypeOK, OperatorClears, process, dashboard
  <2>2. IdentityKept'
    BY <1>18 DEF TypeOK, IdentityKept, RegistersOnlyWithoutFile, IdentityDurable,
      OperatorClears, process, dashboard
  <2> QED
    BY <2>1, <2>2 DEF IInv
<1>19. CASE OperatorNewToken
  <2>1. TypeOK' /\ issued' = Cardinality(consumed)'
    BY <1>19, BootstrapBounds DEF TypeOK, OperatorNewToken, process, dashboard, Token
  <2>2. IdentityKept'
    BY <1>19 DEF TypeOK, IdentityKept, RegistersOnlyWithoutFile, IdentityDurable,
      OperatorNewToken, process, dashboard
  <2> QED
    BY <2>1, <2>2 DEF IInv
<1>20. CASE Registered
  <2>1. /\ token \in Token \ consumed
        /\ consumed' = consumed \cup {token} /\ issued' = issued + 1
    BY <1>20 DEF Registered, Buy, TypeOK
  <2>2. issued' = Cardinality(consumed)' /\ issued' \in AgentId
    BY <1>b, <2>1
  <2>3. TypeOK'
    BY <1>20, <1>b, <2>1, <2>2 DEF TypeOK, Registered, disk, AgentId
  <2>4. IdentityKept'
    BY <1>20 DEF IdentityKept, RegistersOnlyWithoutFile, IdentityDurable,
      Registered, disk
  <2> QED
    BY <2>2, <2>3, <2>4 DEF IInv
<1>21. CASE RegisterFatal
  <2>1. \/ UNCHANGED <<consumed, issued>>
        \/ /\ token \in Token \ consumed
           /\ consumed' = consumed \cup {token} /\ issued' = issued + 1
    BY <1>21 DEF RegisterFatal, Buy, TypeOK
  <2>2. issued' = Cardinality(consumed)'
    BY <1>b, <2>1
  <2>3. issued' \in 0 .. MaxTokens /\ issued' >= issued
    BY <1>b, <2>1, BootstrapBounds DEF TypeOK, AgentId
  <2>4. consumed' \subseteq Token
    BY <2>1 DEF TypeOK
  <2>5. TypeOK'
    BY <1>21, <1>b, <2>3, <2>4, BootstrapBounds DEF TypeOK, RegisterFatal, Answers,
      Fault, Leave, disk, AgentId
  <2>6. IdentityKept'
    BY <1>21 DEF IdentityKept, RegistersOnlyWithoutFile, IdentityDurable,
      RegisterFatal, Leave, disk
  <2> QED
    BY <2>2, <2>5, <2>6 DEF IInv
<1>22. ASSUME NEW t \in Token, LateRequest(t) PROVE IInv'
  <2>1. \/ UNCHANGED <<consumed, issued>>
        \/ /\ t \in Token \ consumed
           /\ consumed' = consumed \cup {t} /\ issued' = issued + 1
    BY <1>22 DEF LateRequest
  <2>2. issued' = Cardinality(consumed)'
    BY <1>b, <2>1
  <2>3. issued' \in 0 .. MaxTokens /\ issued' >= issued
    BY <1>b, <2>1, BootstrapBounds DEF TypeOK, AgentId
  <2>4. consumed' \subseteq Token
    BY <2>1 DEF TypeOK
  <2>5. TypeOK'
    BY <1>22, <1>b, <2>3, <2>4 DEF TypeOK, LateRequest, disk, process, AgentId
  <2>6. IdentityKept'
    BY <1>22 DEF IdentityKept, RegistersOnlyWithoutFile, IdentityDurable,
      LateRequest, disk, process
  <2> QED
    BY <2>2, <2>5, <2>6 DEF IInv
<1>23. CASE UNCHANGED vars
  BY <1>23 DEF vars, disk, process, dashboard, IInv, TypeOK, IdentityKept,
    RegistersOnlyWithoutFile, IdentityDurable
<1> QED
  BY <1>1, <1>2, <1>3, <1>4, <1>5, <1>6, <1>7, <1>8, <1>9, <1>10, <1>11, <1>12, <1>13,
     <1>14, <1>15, <1>16, <1>17, <1>18, <1>19, <1>20, <1>21, <1>22, <1>23 DEF Next,
      Run, Failures, Environment

\* Type correctness, with the bound on identities: a token buys one agent.
THEOREM TypeCorrectness == Spec => []TypeOK
<1>1. IInv => TypeOK
  BY DEF IInv
<1> QED
  BY <1>1, InitInvariant, StepInvariant, PTL DEF Spec

\* The inductive invariant of the bootstrap.
THEOREM Invariance == Spec => []IInv
BY InitInvariant, StepInvariant, PTL DEF Spec

\* The agent registers only when it has no credentials file, and works under no
\* identity that a crash could make it forget.
THEOREM IdentityIsKept == Spec => []IdentityKept
<1>1. IInv => IdentityKept
  BY DEF IInv
<1> QED
  BY <1>1, Invariance, PTL

\* An identity on disk is never overwritten by a run of the agent.
THEOREM FileIsTheOperators == Spec => NeverOverwritten
<1>1. IInv /\ [Next]_vars => [creds # Absent /\ creds' # creds => pc = "down"]_vars
  <2> SUFFICES ASSUME IInv, Next, creds # Absent, creds' # creds PROVE pc = "down"
    OBVIOUS
  <2>1. ~SaveRename
    BY DEF IInv, IdentityKept, RegistersOnlyWithoutFile, SaveRename
  <2> QED
    BY <2>1 DEF Next, Start, Run, Failures, Environment, LoadAbsent, LoadCorrupt,
       LoadFound, SendRegister, Registered, TokenRejected, RegisterRetriable,
       BackoffOver, Fetched, FetchRetriable, FetchRejected, RegisterFatal, SaveFails,
       FetchFatal, Crash, Damage, LateRequest, Revoke, OperatorClears,
       OperatorNewToken, disk
<1> QED
  BY <1>1, Invariance, PTL DEF Spec, NeverOverwritten

=============================================================================
