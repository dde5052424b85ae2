----------------------- MODULE ProductionTasksPromises -----------------------
(***************************************************************************)
(* What the queue promises those who use it, proved on top of the          *)
(* invariants of ProductionTasksProofs: what a row reports, how chains     *)
(* grow, which provider calls are granted, and the capacity.               *)
(***************************************************************************)
EXTENDS ProductionTasksProofs, FiniteSetTheorems

-----------------------------------------------------------------------------
(* What a row reports *)

\* The row of the task the worker executes reports no end of an execution, and
\* the worker is about to report what the provider did.
OutcomeInv ==
  /\ OutcomeIsReal /\ TerminalPhaseAgrees
  /\ pc["worker"] \in {"claimed", "lane", "dispatch", "calling", "finalize", "finish"} =>
       status[task["worker"]] \notin {"succeeded", "failed"}
  /\ pc["worker"] \in {"finalize", "finish"} /\ outcome \in {"succeeded", "failed"} =>
       result[task["worker"]] = outcome

\* An empty table reports nothing.
LEMMA InitOutcome == Init => OutcomeInv
  BY DEF Init, OutcomeInv, OutcomeIsReal, TerminalPhaseAgrees, Terminal, FailedStatus, Thread

\* A write that reports no end of an execution leaves every report true.
LEMMA RowRewritten ==
  ASSUME OutcomeInv,
         status \in [Task -> Status], phase \in [Task -> Phase],
         NEW t \in Task, NEW x, NEW y,
         x \notin {"succeeded", "failed"}, x \in Terminal => y = x,
         status' = [status EXCEPT ![t] = x], phase' = [phase EXCEPT ![t] = y],
         UNCHANGED <<result, outcome, task>>,
         pc'["worker"] \in {pc["worker"], "idle", "recover"}
  PROVE  OutcomeInv'
<1>1. \A u \in Task : /\ u # t => status'[u] = status[u] /\ phase'[u] = phase[u]
                      /\ u = t => status'[u] = x /\ phase'[u] = y
  BY Zenon
<1>2. OutcomeIsReal'
  BY Zenon, <1>1 DEF OutcomeInv, OutcomeIsReal
<1>3. TerminalPhaseAgrees'
  BY Zenon, <1>1 DEF OutcomeInv, TerminalPhaseAgrees
<1>4. \A u : status'[u] \in {"succeeded", "failed"} => status[u] \in {"succeeded", "failed"}
  OBVIOUS
<1>5. pc'["worker"] \in {"claimed", "lane", "dispatch", "calling", "finalize", "finish"} =>
        status'[task'["worker"]] \notin {"succeeded", "failed"}
  BY <1>4 DEF OutcomeInv
<1>6. pc'["worker"] \in {"finalize", "finish"} /\ outcome' \in {"succeeded", "failed"} =>
        result'[task'["worker"]] = outcome'
  BY Zenon DEF OutcomeInv
<1> QED
  BY Zenon, <1>2, <1>3, <1>5, <1>6 DEF OutcomeInv

\* The worker reports what the provider did, and the other threads report only
\* ends that are none of an execution.
LEMMA OutcomeStep == TypeOK /\ RowsOnly /\ OutcomeInv /\ [Next]_vars => OutcomeInv'
<1> SUFFICES ASSUME TypeOK, RowsOnly, OutcomeInv, [Next]_vars PROVE OutcomeInv'
  BY Zenon
<1>s. Rows \subseteq Task
  BY Zenon, RowsAreTasks
<1>w. pc["worker"] \in {"block", "claim", "claimed", "lane", "dispatch", "calling",
                       "finalize", "finish"} => task["worker"] \in Rows
  BY Zenon DEF RowsOnly
<1>a. pc["admin"] \in {"cancel", "retry"} => task["admin"] \in Rows
  BY Zenon DEF RowsOnly
<1>o. pc["worker"] \in {"finalize", "finish"} => outcome \in {"succeeded", "failed", "cancelled"}
  BY Zenon DEF RowsOnly
<1>b. ASSUME NEW th \in Thread PROVE batch[th] \subseteq Rows
  BY Zenon, <1>b DEF RowsOnly
<1>i. pc["admin"] = "insert" => count + 1 \in Task /\ count + 1 \notin Rows
  BY InsertSlot
<1>t. /\ status \in [Task -> Status] /\ phase \in [Task -> Phase]
      /\ result \in [Task -> Terminal \cup {"none"}]
      /\ pc \in [Thread -> WorkerLabel \cup AdminLabel] /\ task \in [Thread -> Task \cup {NoTask}]
  BY Zenon DEF TypeOK
<1> USE <1>s, <1>t DEF OutcomeInv, OutcomeIsReal, TerminalPhaseAgrees, Terminal, FailedStatus,
        Thread, Goto, table, locals, history
<1>1. CASE WorkerSelect
  BY Zenon, <1>1 DEF WorkerSelect
<1>2. CASE WorkerReadDependency
  BY <1>2 DEF WorkerReadDependency, ScanOn
<1>3. CASE WorkerBlock
  BY <1>3, <1>w DEF WorkerBlock, MarkBlocked, ScanOn
<1>4. CASE WorkerClaim
  BY <1>4, <1>w DEF WorkerClaim, Claimable, ScanOn
<1>5. CASE WorkerObserve
  BY Zenon, <1>5, <1>w DEF WorkerObserve, Checkpoint
<1>6. CASE WorkerEnterLane
  BY Zenon, <1>6 DEF WorkerEnterLane
<1>7. CASE WorkerDispatch
  BY Zenon, <1>7, <1>w DEF WorkerDispatch, Checkpoint
<1>8. CASE ProviderReturns
  BY <1>8, <1>w DEF ProviderReturns, ProviderOutcomes
<1>9. CASE WorkerFinalize
  BY <1>9, <1>w DEF WorkerFinalize, Checkpoint
<1>10. CASE WorkerFinish
  BY Zenon, <1>10, <1>w, <1>o DEF WorkerFinish
<1>11. CASE RecoverTask
  BY <1>11 DEF RecoverTask, Running
<1>12. CASE RecoverDone
  BY <1>12 DEF RecoverDone
<1>13. CASE EnqueueInsert
  BY Zenon, <1>13, <1>w, <1>i DEF EnqueueInsert
<1>14. CASE CancelWrite
  <2>1. CASE readQueued
    <3>1. /\ status' = [status EXCEPT ![task["admin"]] = "cancelled"]
          /\ phase' = [phase EXCEPT ![task["admin"]] = "cancelled"]
          /\ UNCHANGED <<result, outcome, task>> /\ pc'["worker"] = pc["worker"]
      BY <1>14, <2>1 DEF CancelWrite
    <3>2. task["admin"] \in Task
      BY <1>14, <1>a DEF CancelWrite
    <3> QED
      BY Zenon, <3>1, <3>2, RowRewritten
  <2>2. CASE ~readQueued
    BY <1>14, <2>2 DEF CancelWrite
  <2> QED
    BY <2>1, <2>2
<1>15. CASE RetryWrite
  BY <1>15, <1>a DEF RetryWrite
<1>16. CASE RequeueSelect
  BY Zenon, <1>16 DEF RequeueSelect, WalkOn
<1>17. CASE RequeueUpdate
  <2>1. PICK t \in batch["admin"] :
          \/ /\ status' = [status EXCEPT ![t] = "queued"]
             /\ phase' = [phase EXCEPT ![t] = "waiting-dependency"]
          \/ UNCHANGED <<status, phase>>
    BY <1>17 DEF RequeueUpdate
  <2>2. t \in Task
    BY Zenon, <1>b, <2>1
  <2>3. UNCHANGED <<result, outcome, task>> /\ pc'["worker"] = pc["worker"]
    BY <1>17 DEF RequeueUpdate, WalkOn
  <2>4. CASE UNCHANGED <<status, phase>>
    BY <2>3, <2>4
  <2>5. CASE status' = [status EXCEPT ![t] = "queued"] /\ phase' = [phase EXCEPT ![t] = "waiting-dependency"]
    BY Zenon, <2>2, <2>3, <2>5, RowRewritten
  <2> QED
    BY Zenon, <2>1, <2>4, <2>5
<1>18. CASE WorkerClaimError
  BY <1>18 DEF WorkerClaimError
<1>19. CASE WorkerFinishError
  BY Zenon, <1>19 DEF WorkerFinishError
<1>20. CASE Crash
  BY Zenon, <1>20 DEF Crash
<1>21. ASSUME NEW th \in Thread, PropagateSelect(th) PROVE OutcomeInv'
  BY <1>21 DEF PropagateSelect, WalkOn
<1>22. ASSUME NEW th \in Thread, PropagateMark(th) PROVE OutcomeInv'
  <2>1. PICK t \in batch[th] :
          \/ /\ status' = [status EXCEPT ![t] = "blocked"]
             /\ phase' = [phase EXCEPT ![t] = "blocked"]
          \/ UNCHANGED <<status, phase>>
    BY Zenon, <1>22 DEF PropagateMark, MarkBlocked
  <2>2. t \in Task
    BY <1>b, <2>1
  <2>3. /\ UNCHANGED <<result, outcome, task>>
        /\ pc'["worker"] \in {pc["worker"], "idle", "recover"}
    BY Zenon, <1>22 DEF PropagateMark, WalkOn
  <2>4. CASE UNCHANGED <<status, phase>>
    BY Zenon, <2>3, <2>4
  <2>5. CASE status' = [status EXCEPT ![t] = "blocked"] /\ phase' = [phase EXCEPT ![t] = "blocked"]
    BY <2>2, <2>3, <2>5, RowRewritten
  <2> QED
    BY <2>1, <2>4, <2>5
<1>23. ASSUME NEW th \in Thread, PropagateError(th) PROVE OutcomeInv'
  BY Zenon, <1>23 DEF PropagateError
<1>24. ASSUME NEW t \in Rows, CancelRead(t) PROVE OutcomeInv'
  BY Zenon, <1>24 DEF CancelRead
<1>25. ASSUME NEW t \in Rows, RetryRead(t) PROVE OutcomeInv'
  BY <1>25 DEF RetryRead
<1>26. ASSUME NEW d \in DrainStates, SetDraining(d) PROVE OutcomeInv'
  BY <1>26 DEF SetDraining
<1>27. ASSUME NEW r \in Requests, EnqueueAdmit(r) PROVE OutcomeInv'
  BY Zenon, <1>27 DEF EnqueueAdmit, Serving
<1>28. CASE UNCHANGED vars
  BY <1>28 DEF vars
<1> HIDE <1>s, <1>t DEF OutcomeInv
<1> QED
  BY <1>1, <1>2, <1>3, <1>4, <1>5, <1>6, <1>7, <1>8, <1>9, <1>10, <1>11, <1>12, <1>13, <1>14,
     <1>15, <1>16, <1>17, <1>18, <1>19, <1>20, <1>21, <1>22, <1>23, <1>24, <1>25, <1>26,
     <1>27, <1>28 DEF Next, WorkerStep, AdminStep, ClientRequest, Fault, Thread

-----------------------------------------------------------------------------
(* What an enqueue reads stays true until it inserts *)

IsOpen(t) == status[t] \in {"queued", "running"}

\* A statement other than those of an enqueue inserts no row, and while an
\* enqueue is about to insert, it neither changes the planned row nor opens one.
Passive ==
  /\ UNCHANGED <<count, row>>
  /\ pc'["admin"] = "insert" =>
       /\ pc["admin"] = "insert" /\ newRow' = newRow
       /\ \A t \in Task : IsOpen(t)' => IsOpen(t)

\* The worker only closes rows, and production_task_admin_lock keeps the
\* handlers that open rows away.
LEMMA PassiveStep ==
  TypeOK /\ RowsOnly /\ [Next]_vars
    => Passive \/ EnqueueInsert \/ \E r \in Requests : EnqueueAdmit(r)
<1> SUFFICES ASSUME TypeOK, RowsOnly, [Next]_vars, ~EnqueueInsert,
                    ~\E r \in Requests : EnqueueAdmit(r)
             PROVE  Passive
  BY Zenon
<1>o. pc["worker"] \in {"finalize", "finish"} => outcome \in {"succeeded", "failed", "cancelled"}
  BY Zenon DEF RowsOnly
<1>t. /\ status \in [Task -> Status]
      /\ pc \in [Thread -> WorkerLabel \cup AdminLabel]
  BY Zenon DEF TypeOK
<1> USE <1>t DEF Passive, IsOpen, Thread, Goto, table, locals
<1>1. CASE WorkerSelect
  BY Zenon, <1>1 DEF WorkerSelect
<1>2. CASE WorkerReadDependency
  BY Zenon, <1>2 DEF WorkerReadDependency, ScanOn
<1>3. CASE WorkerBlock
  BY Zenon, <1>3 DEF WorkerBlock, MarkBlocked, ScanOn
<1>4. CASE WorkerClaim
  BY Zenon, <1>4 DEF WorkerClaim, Claimable, ScanOn
<1>5. CASE WorkerObserve
  BY Zenon, <1>5 DEF WorkerObserve
<1>6. CASE WorkerEnterLane
  BY Zenon, <1>6 DEF WorkerEnterLane
<1>7. CASE WorkerDispatch
  BY Zenon, <1>7 DEF WorkerDispatch
<1>8. CASE ProviderReturns
  BY Zenon, <1>8 DEF ProviderReturns
<1>9. CASE WorkerFinalize
  BY Zenon, <1>9 DEF WorkerFinalize
<1>10. CASE WorkerFinish
  BY <1>10, <1>o DEF WorkerFinish
<1>11. CASE RecoverTask
  BY Zenon, <1>11 DEF RecoverTask, Running
<1>12. CASE RecoverDone
  BY Zenon, <1>12 DEF RecoverDone
<1>13. CASE CancelWrite
  BY <1>13 DEF CancelWrite
<1>14. CASE RetryWrite
  BY Zenon, <1>14 DEF RetryWrite
<1>15. CASE RequeueSelect
  BY Zenon, <1>15 DEF RequeueSelect, WalkOn
<1>16. CASE RequeueUpdate
  BY Zenon, <1>16 DEF RequeueUpdate, WalkOn
<1>17. CASE WorkerClaimError
  BY Zenon, <1>17 DEF WorkerClaimError
<1>18. CASE WorkerFinishError
  BY Zenon, <1>18 DEF WorkerFinishError
<1>19. CASE Crash
  BY <1>19 DEF Crash
<1>20. ASSUME NEW th \in Thread, PropagateSelect(th) PROVE Passive
  BY Zenon, <1>20 DEF PropagateSelect, WalkOn
<1>21. ASSUME NEW th \in Thread, PropagateMark(th) PROVE Passive
  BY Zenon, <1>21 DEF PropagateMark, MarkBlocked, WalkOn
<1>22. ASSUME NEW th \in Thread, PropagateError(th) PROVE Passive
  BY Zenon, <1>22 DEF PropagateError
<1>23. ASSUME NEW t \in Rows, CancelRead(t) PROVE Passive
  BY Zenon, <1>23 DEF CancelRead
<1>24. ASSUME NEW t \in Rows, RetryRead(t) PROVE Passive
  BY Zenon, <1>24 DEF RetryRead
<1>25. ASSUME NEW d \in DrainStates, SetDraining(d) PROVE Passive
  BY <1>25 DEF SetDraining
<1>26. CASE UNCHANGED vars
  BY Zenon, <1>26 DEF vars
<1> HIDE <1>t DEF Passive
<1> QED
  BY <1>1, <1>2, <1>3, <1>4, <1>5, <1>6, <1>7, <1>8, <1>9, <1>10, <1>11, <1>12, <1>13, <1>14,
     <1>15, <1>16, <1>17, <1>18, <1>19, <1>20, <1>21, <1>22, <1>23, <1>24, <1>25, <1>26
     DEF Next, WorkerStep, AdminStep, ClientRequest, Fault, Thread

\* The latest row of the session of t.
HasLatest(t) ==
  \E u \in Rows : /\ row[u].session = row[t].session
                  /\ \A v \in Rows : row[v].session = row[t].session => v <= u

\* The row r may be inserted: its key is new, it is of its session's chain, and
\* its dependency is a row of both.
Fits(r) ==
  /\ r.key # NoKey => \A t \in Rows : ~(row[t].kind = r.kind /\ row[t].key = r.key)
  /\ \A t \in Rows : row[t].session = r.session => row[t].chain = r.chain
  /\ r.dependsOn # NoTask => r.dependsOn \in Rows /\ SameTarget(r, r.dependsOn)

EnqueueInv ==
  /\ ChainsWellFormed /\ IdempotentEnqueue
  /\ \A t \in Rows : HasLatest(t)
  /\ pc["admin"] = "insert" => Fits(newRow)

\* The empty table satisfies it.
LEMMA InitEnqueue == Init => EnqueueInv
  BY DEF Init, EnqueueInv, ChainsWellFormed, IdempotentEnqueue, Rows, Thread

\* The lookups of an enqueue establish what its insert relies on.
LEMMA AdmitFits ==
  ASSUME TypeOK, EnqueueInv, NEW r \in Requests, Admissible(r)
  PROVE  Fits(Planned(r))
<1> DEFINE S == {t \in Rows : row[t].session = r.session}
<1>p. /\ Planned(r).key = r.key /\ Planned(r).kind = r.kind /\ Planned(r).session = r.session
      /\ Planned(r).chain = ChainOf(r) /\ Planned(r).dependsOn = DependencyOf(r)
  BY Zenon, RequestAssumption DEF Planned, Request
<1>1. r.key # NoKey => \A t \in Rows : ~(row[t].kind = r.kind /\ row[t].key = r.key)
  BY DEF Admissible, KnownKey
<1>2. ASSUME NEW t \in Rows, row[t].session = r.session PROVE row[t].chain = ChainOf(r)
  <2>1. \E u \in S : IsLatest(u, S)
    BY Zenon, <1>2 DEF EnqueueInv, HasLatest, IsLatest
  <2>2. LatestOfSession(r.session) \in S
    BY <2>1 DEF LatestOfSession, Latest
  <2>3. LatestOfSession(r.session) \in Rows /\ LatestOfSession(r.session) # NoTask
    BY <2>2 DEF Rows, NoTask, TypeOK
  <2>4. row[LatestOfSession(r.session)].chain = ChainOf(r)
    BY Zenon, <2>3 DEF Admissible, KeepsChain
  <2> QED
    BY Zenon, <1>2, <2>2, <2>3, <2>4 DEF EnqueueInv, ChainsWellFormed
<1>3. DependencyOf(r) # NoTask =>
        DependencyOf(r) \in Rows /\ SameTarget(Planned(r), DependencyOf(r))
  BY DEF Admissible
<1> QED
  BY <1>p, <1>1, <1>2, <1>3 DEF Fits

\* An insert appends the row its enqueue planned, as the latest of its session.
LEMMA InsertKeeps ==
  ASSUME TypeOK, RowsOnly, EnqueueInv, EnqueueInsert
  PROVE  EnqueueInv'
<1> DEFINE n == count + 1
<1>t. /\ count \in Nat /\ n \in Nat /\ n \in Task /\ n \notin Rows
      /\ row \in [Task -> Request] /\ newRow \in Request
  <2>1. row \in [Task -> Request] /\ newRow \in Request
    BY Zenon DEF TypeOK
  <2> QED
    BY <2>1, InsertSlot DEF EnqueueInsert
<1>r. Rows' = Rows \cup {n} /\ Rows \subseteq Task /\ \A t \in Rows : t \in Nat /\ t < n
  <2>1. Rows' = Rows \cup {n}
    BY <1>t DEF EnqueueInsert, Rows
  <2>2. \A t \in Rows : t \in Nat /\ t < n
    BY <1>t DEF Rows
  <2>3. Rows \subseteq Task
    BY RowsAreTasks
  <2> QED
    BY Zenon, <2>1, <2>2, <2>3
<1>n. row'[n] = newRow /\ \A t \in Rows : row'[t] = row[t]
  BY Zenon, <1>t, <1>r DEF EnqueueInsert
<1>f. Fits(newRow)
  BY DEF EnqueueInv, EnqueueInsert
<1>1. IdempotentEnqueue'
  <2>1. ASSUME NEW t \in Rows, newRow.key # NoKey
        PROVE  ~(row[t].kind = newRow.kind /\ row[t].key = newRow.key)
    BY Zenon, <1>f, <2>1 DEF Fits
  <2> QED
    BY <1>r, <1>n, <2>1 DEF IdempotentEnqueue, EnqueueInv
<1>2. \A t, u \in Rows' : row'[t].session = row'[u].session => row'[t].chain = row'[u].chain
  <2>1. \A t \in Rows : row[t].session = newRow.session => row[t].chain = newRow.chain
    BY Zenon, <1>f DEF Fits
  <2> QED
    BY <1>r, <1>n, <2>1 DEF ChainsWellFormed, EnqueueInv
<1>3. ASSUME NEW t \in Rows', Dependency(t)' # NoTask
      PROVE  (Dependency(t) \in 1 .. t - 1)' /\ SameTarget(row[t], Dependency(t))'
  <2>1. CASE t = n
    <3>1. Dependency(t)' = newRow.dependsOn /\ newRow.dependsOn \in Rows
      BY Zenon, <1>3, <1>n, <1>f, <2>1 DEF Dependency, Fits
    <3>2. row'[t] = newRow /\ row'[newRow.dependsOn] = row[newRow.dependsOn]
      BY <1>n, <2>1, <3>1
    <3>3. newRow.dependsOn \in 1 .. t - 1
      BY <1>t, <2>1, <3>1 DEF Rows
    <3>4. SameTarget(newRow, newRow.dependsOn)
      BY Zenon, <1>3, <1>f, <3>1 DEF Fits
    <3> QED
      BY Zenon, <3>1, <3>2, <3>3, <3>4 DEF SameTarget
  <2>2. CASE t \in Rows
    <3>1. Dependency(t)' = Dependency(t) /\ row'[t] = row[t]
      BY Zenon, <1>n, <2>2 DEF Dependency
    <3>2. Dependency(t) \in 1 .. t - 1 /\ SameTarget(row[t], Dependency(t))
      BY <1>3, <2>2, <3>1 DEF EnqueueInv, ChainsWellFormed
    <3>3. Dependency(t) \in Rows
      BY <1>t, <2>2, <3>2 DEF Rows
    <3>4. row'[Dependency(t)] = row[Dependency(t)]
      BY Zenon, <1>n, <3>3
    <3> QED
      BY <3>1, <3>2, <3>4 DEF SameTarget
  <2> QED
    BY Zenon, <1>r, <2>1, <2>2
<1>4. ASSUME NEW t \in Rows' PROVE HasLatest(t)'
  <2>1. CASE row'[t].session = newRow.session
    BY <1>t, <1>r, <1>n, <2>1 DEF HasLatest
  <2>2. CASE t \in Rows /\ row'[t].session # newRow.session
    <3>1. PICK u \in Rows : /\ row[u].session = row[t].session
                           /\ \A v \in Rows : row[v].session = row[t].session => v <= u
      BY Zenon, <2>2 DEF EnqueueInv, HasLatest
    <3> QED
      BY <1>r, <1>n, <2>2, <3>1 DEF HasLatest
  <2> QED
    BY <1>r, <1>n, <2>1, <2>2
<1>5. pc'["admin"] # "insert"
  BY Zenon DEF EnqueueInsert, Goto, TypeOK, Thread
<1> QED
  BY <1>1, <1>2, <1>3, <1>4, <1>5 DEF EnqueueInv, ChainsWellFormed

\* Nothing an enqueue looked up is overtaken before its insert.
LEMMA EnqueueStep == TypeOK /\ RowsOnly /\ EnqueueInv /\ [Next]_vars => EnqueueInv'
<1> SUFFICES ASSUME TypeOK, RowsOnly, EnqueueInv, [Next]_vars PROVE EnqueueInv'
  BY Zenon
<1>k. UNCHANGED <<count, row>> =>
        /\ ChainsWellFormed' /\ IdempotentEnqueue'
        /\ (\A t \in Rows : HasLatest(t))'
        /\ \A r : Fits(r) => Fits(r)'
  <2> SUFFICES ASSUME UNCHANGED <<count, row>>
               PROVE  /\ ChainsWellFormed' /\ IdempotentEnqueue'
                      /\ (\A t \in Rows : HasLatest(t))'
                      /\ \A r : Fits(r) => Fits(r)'
    BY Zenon
  <2>1. Rows' = Rows /\ row' = row /\ \A t : Dependency(t)' = Dependency(t)
    BY Zenon DEF Rows, Dependency
  <2>2. ChainsWellFormed'
    BY <2>1 DEF EnqueueInv, ChainsWellFormed, SameTarget
  <2>3. IdempotentEnqueue'
    BY <2>1 DEF EnqueueInv, IdempotentEnqueue
  <2>4. (\A t \in Rows : HasLatest(t))'
    BY <2>1 DEF EnqueueInv, HasLatest
  <2>5. \A r : Fits(r) => Fits(r)'
    BY Zenon, <2>1 DEF Fits, SameTarget
  <2> QED
    BY Zenon, <2>2, <2>3, <2>4, <2>5
<1>1. CASE Passive
  BY Zenon, <1>1, <1>k DEF Passive, EnqueueInv
<1>2. ASSUME NEW r \in Requests, EnqueueAdmit(r) PROVE EnqueueInv'
  <2>1. UNCHANGED <<count, row>> /\ newRow' = Planned(r) /\ Fits(Planned(r))
    BY Zenon, <1>2, AdmitFits DEF EnqueueAdmit, table
  <2> QED
    BY Zenon, <2>1, <1>k DEF EnqueueInv
<1> QED
  BY Zenon, <1>1, <1>2, PassiveStep, InsertKeeps

\* A row that reports success or failure reports what the provider did, and
\* its phase agrees, whoever writes the row while its task executes.
THEOREM OutcomesAlwaysReal == Spec => []OutcomeSafety
<1>1. OutcomeInv => OutcomeSafety
  BY DEF OutcomeInv, OutcomeSafety
<1> QED
  BY <1>1, InitOutcome, OutcomeStep, TypeCorrect, PTL DEF Spec

\* No interleaving of an enqueue with the worker, with recovery or with a crash
\* forks a session into two chains or makes a task wait for a later one.
THEOREM ChainsAlwaysWellFormed == Spec => []ChainsWellFormed
<1>1. EnqueueInv => ChainsWellFormed
  BY DEF EnqueueInv
<1> QED
  BY <1>1, InitEnqueue, EnqueueStep, TypeCorrect, PTL DEF Spec

\* A repeated request inserts no second row.
THEOREM EnqueueAlwaysIdempotent == Spec => []IdempotentEnqueue
<1>1. EnqueueInv => IdempotentEnqueue
  BY Zenon DEF EnqueueInv
<1> QED
  BY <1>1, InitEnqueue, EnqueueStep, TypeCorrect, PTL DEF Spec

-----------------------------------------------------------------------------
(* The queue implements ProviderGrants *)

\* The empty queue is an initial state of ProviderGrants.
LEMMA GrantsInit == Init => Grants!Init
  BY DEF Init, Grants!Init, Rows, Task

\* A step that leaves rows, retries, calls and successes alone is no step of
\* the abstract specification.
LEMMA GrantsStutter ==
  UNCHANGED <<count, row, retries, calls, wasDone>> => UNCHANGED Grants!gvars
  BY DEF Grants!gvars, Rows, Dependency

\* Every statement is a step or a stutter of ProviderGrants.
LEMMA GrantsStep ==
  TypeOK /\ RowsOnly /\ Blank /\ BudgetInv /\ PreparedInv /\ [Next]_vars
    => [Grants!Next]_(Grants!gvars)
<1> SUFFICES ASSUME TypeOK, RowsOnly, Blank, BudgetInv, PreparedInv, [Next]_vars
             PROVE  Grants!Next \/ UNCHANGED Grants!gvars
  BY Zenon
<1>s. Rows \subseteq Task
  BY Zenon, RowsAreTasks
<1>w. pc["worker"] \in {"dispatch", "calling"} => task["worker"] \in Rows
  BY Zenon DEF RowsOnly
<1>r. count' = count => Rows' = Rows
  BY Zenon DEF Rows
<1>1. CASE EnqueueInsert
  <2>c. count \in Nat /\ count + 1 \in Task
    BY Zenon, <1>1, InsertSlot DEF EnqueueInsert
  <2>o. PICK o \in Task : o = count + 1
    BY Zenon, <2>c
  <2>d. PICK d \in Task \cup {NoTask} :
          d = IF newRow.policy = "require-success" THEN newRow.dependsOn ELSE NoTask
    BY Zenon DEF TypeOK, Request
  <2>1. o \notin Rows
    BY <2>c, <2>o DEF Rows
  <2>2. Rows' = Rows \cup {o} /\ retries[o] = 0
    <3>1. count' = o
      BY <1>1, <2>o DEF EnqueueInsert
    <3>2. Rows' = Rows \cup {o}
      BY <3>1, <2>c, <2>o DEF Rows
    <3>3. retries[o] = 0
      BY Zenon, <2>1 DEF Blank
    <3> QED
      BY Zenon, <3>2, <3>3
  <2>3. /\ UNCHANGED <<retries, calls, wasDone>>
        /\ row' = [row EXCEPT ![o] = newRow]
    BY Zenon, <1>1, <2>o DEF EnqueueInsert, history
  <2> DEFINE granted == [t \in Task |-> IF t \in Rows THEN 1 + retries[t] ELSE 0]
             needs == [t \in Task |-> IF t \in Rows /\ row[t].policy = "require-success"
                                      THEN Dependency(t) ELSE NoTask]
  <2>4. granted[o] = 0 /\ granted' = [granted EXCEPT ![o] = 1]
    <3>1. \A t \in Task : granted'[t] = IF t = o THEN 1 ELSE granted[t]
      BY <2>1, <2>2, <2>3
    <3> QED
      BY Zenon, <2>1, <3>1
  <2>5. needs' = [needs EXCEPT ![o] = d]
    BY <2>d, <2>1, <2>2, <2>3, <1>s DEF Dependency, TypeOK
  <2>6. Grants!Accept(o, d)
    BY Zenon, <2>3, <2>4, <2>5 DEF Grants!Accept
  <2> QED
    BY Zenon, <2>6 DEF Grants!Next
<1>2. CASE RetryWrite
  <2>1. task["admin"] \in Rows /\ task["admin"] \in Task
    BY Zenon, <1>2, <1>s DEF RetryWrite, RowsOnly
  <2>2. /\ UNCHANGED <<count, row, calls, wasDone>>
        /\ retries' = [retries EXCEPT ![task["admin"]] = @ + 1]
    BY Zenon, <1>2 DEF RetryWrite
  <2>3. PICK o \in Task : o = task["admin"]
    BY Zenon, <2>1
  <2> DEFINE granted == [t \in Task |-> IF t \in Rows THEN 1 + retries[t] ELSE 0]
             needs == [t \in Task |-> IF t \in Rows /\ row[t].policy = "require-success"
                                      THEN Dependency(t) ELSE NoTask]
  <2>t. retries \in [Task -> Nat]
    BY Zenon DEF TypeOK
  <2>5. granted[o] > 0 /\ granted' = [granted EXCEPT ![o] = @ + 1]
    <3>1. \A t \in Task : granted'[t] = IF t = o THEN granted[t] + 1 ELSE granted[t]
      BY <2>1, <2>2, <2>3, <2>t, <1>r
    <3> QED
      BY <2>1, <2>3, <2>t, <3>1
  <2>6. needs' = needs
    BY Zenon, <2>2, <1>r DEF Dependency
  <2>4. Grants!Regrant(o)
    BY Zenon, <2>2, <2>5, <2>6 DEF Grants!Regrant
  <2> QED
    BY Zenon, <2>4 DEF Grants!Next
<1>3. CASE WorkerDispatch
  <2> DEFINE o == task["worker"]
  <2>1. o \in Rows /\ o \in Task
    BY Zenon, <1>3, <1>w, <1>s DEF WorkerDispatch
  <2>2. /\ UNCHANGED <<count, row, retries, wasDone>>
        /\ calls' = [calls EXCEPT ![o] = @ + 1]
    BY Zenon, <1>3 DEF WorkerDispatch
  <2>3. calls[o] < 1 + retries[o]
    <3>1. calls[o] < attempts[o] /\ attempts[o] <= 1 + retries[o]
      BY Zenon, <1>3, <2>1 DEF WorkerDispatch, BudgetInv, Held
    <3>2. calls[o] \in Nat /\ attempts[o] \in Nat /\ retries[o] \in Nat
      BY Zenon, <2>1 DEF TypeOK
    <3> QED
      BY <3>1, <3>2
  <2>4. Prepared(o)
    BY <1>3 DEF WorkerDispatch, PreparedInv
  <2>5. Grants!Call(o)
    BY <2>1, <2>2, <2>3, <2>4, <1>s, <1>r DEF Grants!Call, Prepared, Dependency, TypeOK
  <2> QED
    BY <2>1, <2>5 DEF Grants!Next
<1>4. CASE ProviderReturns
  <2> DEFINE o == task["worker"]
  <2>1. o \in Rows /\ o \in Task
    BY Zenon, <1>4, <1>w, <1>s DEF ProviderReturns
  <2>2. UNCHANGED <<count, row, retries, calls>>
    BY Zenon, <1>4 DEF ProviderReturns, table
  <2>3. wasDone' = [wasDone EXCEPT ![o] = TRUE] \/ wasDone' = wasDone
    <3>1. PICK res : wasDone' = [wasDone EXCEPT ![o] = wasDone[o] \/ res = "succeeded"]
      BY Zenon, <1>4 DEF ProviderReturns
    <3>2. CASE res = "succeeded"
      BY Zenon, <3>1, <3>2
    <3>3. CASE res # "succeeded"
      BY <3>1, <3>3, <2>1 DEF TypeOK
    <3> QED
      BY <3>2, <3>3
  <2>4. calls[o] > 0
    BY <1>4 DEF ProviderReturns, BudgetInv
  <2>5. wasDone' = [wasDone EXCEPT ![o] = TRUE] => Grants!Succeed(o)
    BY Zenon, <2>1, <2>2, <2>4, <1>r DEF Grants!Succeed, Dependency
  <2> QED
    BY <2>1, <2>2, <2>3, <2>5, GrantsStutter DEF Grants!Next
<1>5. CASE UNCHANGED <<count, row, retries, calls, wasDone>>
  BY <1>5, GrantsStutter
<1>6. \/ EnqueueInsert \/ RetryWrite \/ WorkerDispatch \/ ProviderReturns
      \/ UNCHANGED <<count, row, retries, calls, wasDone>>
  BY DEF Next, WorkerStep, AdminStep, ClientRequest, Fault, vars, table, history,
     WorkerSelect, WorkerReadDependency, WorkerBlock, WorkerClaim, WorkerClaimError,
     WorkerObserve, WorkerEnterLane, WorkerFinalize, WorkerFinish, WorkerFinishError,
     PropagateSelect, PropagateMark, PropagateError, RecoverTask, RecoverDone, CancelWrite,
     RequeueSelect, RequeueUpdate, EnqueueAdmit, CancelRead, RetryRead, SetDraining, Crash
<1> QED
  BY Zenon, <1>1, <1>2, <1>3, <1>4, <1>5, <1>6

\* Every behaviour of the queue is, seen from the providers, a behaviour of
\* ProviderGrants: calls are granted by an enqueue or a retry and wait for
\* their prerequisite.
THEOREM QueueKeepsGrants == Spec => KeepsGrants
<1>1. Spec => []BudgetInv
  BY InitBudget, BudgetStep, TypeCorrect, BlankCorrect, PTL DEF Spec
<1>2. Spec => []PreparedInv
  BY InitPrepared, PreparedStep, TypeCorrect, BlankCorrect, PTL DEF Spec
<1> QED
  BY <1>1, <1>2, GrantsInit, GrantsStep, TypeCorrect, BlankCorrect, PTL
     DEF Spec, KeepsGrants, Grants!Spec

-----------------------------------------------------------------------------
(* The capacity *)

\* The room an enqueue has found is still there when it inserts.
CapacityInv == pc["admin"] = "insert" => Cardinality(Open) < Capacity

\* There is a finite number of open rows.
LEMMA OpenFinite == TypeOK => IsFiniteSet(Open) /\ Cardinality(Open) \in Nat
<1> SUFFICES ASSUME TypeOK PROVE IsFiniteSet(Open) /\ Cardinality(Open) \in Nat
  BY Zenon
<1>1. IsFiniteSet(Rows)
  BY FS_Interval DEF TypeOK, Rows
<1>2. Open \subseteq Rows
  BY Zenon DEF Open
<1> QED
  BY Zenon, <1>1, <1>2, FS_Subset, FS_CardinalityType

\* Closing rows leaves the room.
LEMMA CapacityStep == TypeOK /\ RowsOnly /\ CapacityInv /\ [Next]_vars => CapacityInv'
<1> SUFFICES ASSUME TypeOK, RowsOnly, CapacityInv, [Next]_vars, pc'["admin"] = "insert"
             PROVE  Cardinality(Open') < Capacity
  BY Zenon DEF CapacityInv
<1>c. IsFiniteSet(Open) /\ Cardinality(Open) \in Nat /\ Capacity \in Nat
  BY OpenFinite, BoundAssumption
<1>1. CASE Passive
  <2>1. pc["admin"] = "insert" /\ Rows' = Rows
    BY Zenon, <1>1 DEF Passive, Rows
  <2>2. Rows \subseteq Task
    BY RowsAreTasks
  <2>3. Open' \subseteq Open
    BY <1>1, <2>1, <2>2 DEF Passive, IsOpen, Open
  <2>4. Cardinality(Open') <= Cardinality(Open) /\ Cardinality(Open') \in Nat
    BY Zenon, <2>3, <1>c, FS_Subset, FS_CardinalityType
  <2> QED
    BY <1>c, <2>1, <2>4 DEF CapacityInv
<1>2. ASSUME NEW r \in Requests, EnqueueAdmit(r) PROVE Cardinality(Open') < Capacity
  <2>1. Open' = Open
    BY Zenon, <1>2 DEF EnqueueAdmit, table, Open, Rows
  <2>2. HasRoom
    BY Zenon, <1>2 DEF EnqueueAdmit, Admissible
  <2>3. Cardinality(Open) < Capacity
    BY <2>2 DEF HasRoom
  <2> QED
    BY <2>1, <2>3
<1>3. CASE EnqueueInsert
  BY <1>3 DEF EnqueueInsert, Goto, TypeOK, Thread
<1> QED
  BY Zenon, <1>1, <1>2, <1>3, PassiveStep

\* An insert opens one row.
LEMMA InsertFits ==
  TypeOK /\ RowsOnly /\ CapacityInv /\ [Next]_vars
    => [count' # count => Cardinality({t \in 1 .. count' : status'[t] \in {"queued", "running"}})
                            <= Capacity]_vars
<1> SUFFICES ASSUME TypeOK, RowsOnly, CapacityInv, [Next]_vars, count' # count
             PROVE  Cardinality({t \in 1 .. count' : status'[t] \in {"queued", "running"}})
                      <= Capacity
  BY Zenon
<1> DEFINE n == count + 1
<1>1. EnqueueInsert
  BY Zenon, PassiveStep DEF Passive, EnqueueAdmit, table
<1>s. Rows \subseteq Task
  BY RowsAreTasks
<1>t. /\ count \in Nat /\ n \in Task /\ n \notin Rows
      /\ status \in [Task -> Status]
  <2>1. status \in [Task -> Status]
    BY Zenon DEF TypeOK
  <2> QED
    BY Zenon, <1>1, <2>1, InsertSlot DEF EnqueueInsert
<1>2. 1 .. count' = Rows \cup {n}
  BY <1>1, <1>t DEF EnqueueInsert, Rows
<1>3. status'[n] = "queued" /\ \A t \in Rows : status'[t] = status[t]
  BY <1>1, <1>s, <1>t DEF EnqueueInsert
<1>4. {t \in 1 .. count' : status'[t] \in {"queued", "running"}} = Open \cup {n}
  BY Zenon, <1>2, <1>3 DEF Open
<1>5. n \notin Open
  BY Zenon, <1>t DEF Open
<1>6. Cardinality(Open \cup {n}) = Cardinality(Open) + 1
  BY Zenon, <1>5, OpenFinite, FS_AddElement
<1>7. Cardinality(Open) < Capacity
  BY <1>1 DEF CapacityInv, EnqueueInsert
<1> QED
  BY <1>4, <1>6, <1>7, OpenFinite, BoundAssumption

\* No insert takes the number of open rows beyond production_task_queue_capacity.
THEOREM InsertsKeepCapacity == Spec => InsertWithinCapacity
<1>1. Init => CapacityInv
  BY Zenon DEF Init, CapacityInv, Thread
<1> QED
  BY <1>1, CapacityStep, InsertFits, TypeCorrect, PTL DEF Spec, InsertWithinCapacity

=============================================================================
