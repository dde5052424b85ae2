----------------------- MODULE ProductionTasksProofs -----------------------
(***************************************************************************)
(* Proofs about ProductionTasks for any number of tasks, requests,         *)
(* retries, restarts and failed statements.  Invariants are proved one on  *)
(* top of the other: types, then which rows a thread may hold, then the    *)
(* properties proper.                                                      *)
(***************************************************************************)
EXTENDS ProductionTasks, TLAPS

-----------------------------------------------------------------------------
(* Inductive invariants *)

\* Waiting for a claim, now or once its predecessor is retried.
Pending(t) == status[t] \in {"queued", "blocked"}

\* The worker has claimed t and not called the provider yet.
Held(t) == task["worker"] = t /\ pc["worker"] \in {"claimed", "lane", "dispatch"}

\* Rows that are not inserted yet are blank.
Blank ==
  \A t \in Task : t \notin Rows =>
    /\ status[t] = "absent" /\ ~cancel[t]
    /\ attempts[t] = 0 /\ calls[t] = 0 /\ retries[t] = 0 /\ ~wasDone[t]

\* Threads work on inserted rows.
RowsOnly ==
  /\ pc["admin"] = "insert" => count < MaxTasks
  /\ pc["admin"] \in {"cancel", "retry"} => task["admin"] \in Rows
  /\ pc["worker"] \in {"block", "claim", "claimed", "lane", "dispatch", "calling",
                       "finalize", "finish"} => task["worker"] \in Rows
  /\ pc["worker"] \in {"finalize", "finish"} => outcome \in {"succeeded", "failed", "cancelled"}
  /\ scan \subseteq Rows
  /\ \A th \in Thread : frontier[th] \subseteq Rows /\ batch[th] \subseteq Rows

\* A row that is or may again become queued carries no cancel request, and a
\* cancel that did not read "queued" is about a row that is neither.
CancelInv ==
  /\ \A t \in Task : Pending(t) => ~cancel[t]
  /\ pc["admin"] = "cancel" /\ ~readQueued => ~Pending(task["admin"])

\* Every claim a pending row may still get is paid for, and so is the call of
\* a task the worker holds.
BudgetInv ==
  /\ \A t \in Task :
       /\ attempts[t] <= 1 + retries[t]
       /\ Pending(t) => attempts[t] <= retries[t]
       /\ calls[t] <= attempts[t]
       /\ Held(t) => calls[t] < attempts[t]
  /\ pc["worker"] = "calling" => calls[task["worker"]] > 0

\* The prerequisite of t, if it has one, has been done.
Prepared(t) ==
  row[t].policy = "require-success" /\ Dependency(t) # NoTask
    => Dependency(t) \in Rows /\ wasDone[Dependency(t)]

PreparedInv ==
  /\ \A t \in Task : status[t] = "succeeded" => wasDone[t]
  /\ pc["worker"] \in {"finalize", "finish"} /\ outcome = "succeeded" => wasDone[task["worker"]]
  /\ pc["worker"] \in {"claim", "claimed", "lane", "dispatch"} => Prepared(task["worker"])
  /\ \A t \in Task : calls[t] > 0 => Prepared(t)

-----------------------------------------------------------------------------
(* Types and rows *)

\* Rows are numbered 1 to MaxTasks.
LEMMA RowsAreTasks == TypeOK => Rows \subseteq Task
<1>1. TypeOK => count \in 0 .. MaxTasks
  BY Zenon DEF TypeOK
<1> QED
  BY <1>1, BoundAssumption DEF Rows, Task

\* The blank row of a slot that is not inserted yet is a well-formed row.
LEMMA NoRowType == NoRow \in Request
  BY Zenon DEF NoRow, NoTask, Request, Kind, Policy

\* The empty table and idle threads of a first start are well typed.
LEMMA InitType == Init => TypeOK
<1> SUFFICES ASSUME Init PROVE TypeOK
  BY Zenon
<1>1. 0 \in 0 .. MaxTasks /\ 0 \in 0 .. MaxCrashes /\ 0 \in 0 .. MaxDbErrors
  BY BoundAssumption
<1> QED
  BY Zenon, <1>1, NoRowType DEF Init, TypeOK, Status, Phase, Terminal, Thread, WorkerLabel, AdminLabel

\* The latest row of a set, when there is one, is in the set.
LEMMA LatestType == ASSUME NEW S PROVE Latest(S) \in S \cup {NoTask}
  BY Zenon DEF Latest

\* The row an enqueue plans from a request is well formed.
LEMMA PlannedType ==
  ASSUME TypeOK, Rows \subseteq Task, NEW r \in Requests PROVE Planned(r) \in Request
<1>1. r \in Request
  BY Zenon, RequestAssumption
<1>2. LatestOfSession(r.session) \in Task \cup {NoTask}
  BY Zenon, LatestType DEF LatestOfSession
<1>3. ChainOf(r) \in Name \cup {NoKey}
  BY Zenon, <1>1, <1>2 DEF ChainOf, TypeOK, Request
<1>4. DependencyOf(r) \in Task \cup {NoTask}
  BY Zenon, <1>1, LatestType DEF DependencyOf, Request
<1> QED
  BY Zenon, <1>1, <1>3, <1>4 DEF Planned, Request

\* The slot an enqueue is about to fill is a free one.
LEMMA InsertSlot ==
  TypeOK /\ RowsOnly /\ pc["admin"] = "insert"
    => count \in Nat /\ count + 1 \in Task /\ count + 1 \notin Rows
<1>1. TypeOK => count \in 0 .. MaxTasks
  BY Zenon DEF TypeOK
<1>2. RowsOnly /\ pc["admin"] = "insert" => count < MaxTasks
  BY DEF RowsOnly
<1> QED
  BY <1>1, <1>2, BoundAssumption DEF Task, Rows

\* Every statement keeps the types, given that threads hold existing rows.
LEMMA TypeStep == TypeOK /\ RowsOnly /\ [Next]_vars => TypeOK'
<1> SUFFICES ASSUME TypeOK, RowsOnly, [Next]_vars PROVE TypeOK'
  BY Zenon
<1>r. Rows \subseteq Task
  BY Zenon, RowsAreTasks
<1>w. pc["worker"] \in {"block", "claim", "claimed", "lane", "dispatch", "calling",
                       "finalize", "finish"} => task["worker"] \in Task
  BY Zenon, <1>r DEF RowsOnly
<1>a. pc["admin"] \in {"cancel", "retry"} => task["admin"] \in Task
  BY Zenon, <1>r DEF RowsOnly
<1>i. pc["admin"] = "insert" => count + 1 \in Task /\ count + 1 \in 0 .. MaxTasks
  BY BoundAssumption DEF RowsOnly, TypeOK, Task
<1>o. pc["worker"] = "finish" => outcome \in {"succeeded", "failed", "cancelled"}
  BY Zenon DEF RowsOnly
<1>e. dbErrors < MaxDbErrors => dbErrors + 1 \in 0 .. MaxDbErrors
  BY BoundAssumption DEF TypeOK
<1>c. crashes < MaxCrashes => crashes + 1 \in 0 .. MaxCrashes
  BY BoundAssumption DEF TypeOK
<1> USE DEF TypeOK, Thread, WorkerLabel, AdminLabel, Goto, table, locals, walks, history, faults
<1>1. CASE WorkerSelect
  BY Zenon, <1>1, <1>r DEF WorkerSelect, Claimable
<1>2. CASE WorkerReadDependency
  BY <1>2 DEF WorkerReadDependency, ScanOn
<1>3. CASE WorkerBlock
  BY <1>3, <1>w DEF WorkerBlock, MarkBlocked, ScanOn, Status, Phase, Terminal, FailedStatus
<1>4. CASE WorkerClaim
  BY <1>4, <1>w DEF WorkerClaim, ScanOn, Claimable, Status, Phase
<1>5. CASE WorkerObserve
  BY <1>5, <1>w, <1>e DEF WorkerObserve, Checkpoint, ReadCancel, Phase, Terminal, FailedStatus
<1>6. CASE WorkerEnterLane
  BY <1>6, <1>e DEF WorkerEnterLane, ReadCancel, Terminal, FailedStatus
<1>7. CASE WorkerDispatch
  BY <1>7, <1>w DEF WorkerDispatch, Checkpoint, Phase
<1>8. CASE ProviderReturns
  BY <1>8, <1>w DEF ProviderReturns, ProviderOutcomes, Terminal, FailedStatus
<1>9. CASE WorkerFinalize
  BY Zenon, <1>9, <1>w, <1>e DEF WorkerFinalize, Checkpoint, ReadCancel, Phase
<1>10. CASE WorkerFinish
  BY <1>10, <1>w, <1>o DEF WorkerFinish, Status, Phase, Terminal, FailedStatus
<1>11. CASE RecoverTask
  BY <1>11, <1>r DEF RecoverTask, Running, Status, Phase, Terminal, FailedStatus
<1>12. CASE RecoverDone
  BY Zenon, <1>12 DEF RecoverDone
<1>13. CASE EnqueueInsert
  BY Zenon, <1>13, <1>i, NoRowType DEF EnqueueInsert, Status, Phase
<1>14. CASE CancelWrite
  <2>1. CASE readQueued
    <3>1. status' \in [Task -> Status] /\ phase' \in [Task -> Phase]
      BY <1>14, <2>1, <1>a DEF CancelWrite, Status, Phase, Terminal, FailedStatus
    <3>2. cancel' \in [Task -> BOOLEAN] /\ frontier' \in [Thread -> SUBSET Task]
      BY <1>14, <2>1, <1>a DEF CancelWrite
    <3>3. /\ pc' \in [Thread -> WorkerLabel \cup AdminLabel]
          /\ pc'["worker"] \in WorkerLabel /\ pc'["admin"] \in AdminLabel
      BY <1>14, <2>1 DEF CancelWrite
    <3>4. UNCHANGED <<count, row, attempts, task, scan, outcome, newRow, batch, draining,
                      history, faults>> /\ readQueued' = FALSE
      BY Zenon, <1>14 DEF CancelWrite
    <3> QED
      BY Zenon, <3>1, <3>2, <3>3, <3>4
  <2>2. CASE ~readQueued
    <3>1. cancel' \in [Task -> BOOLEAN]
      BY Zenon, <1>14, <1>a DEF CancelWrite
    <3>2. /\ pc' \in [Thread -> WorkerLabel \cup AdminLabel]
          /\ pc'["worker"] \in WorkerLabel /\ pc'["admin"] \in AdminLabel
      BY <1>14, <2>2 DEF CancelWrite
    <3>3. UNCHANGED <<count, row, status, phase, attempts, task, scan, outcome, newRow, frontier,
                      batch, draining, history, faults>> /\ readQueued' = FALSE
      BY Zenon, <1>14, <2>2 DEF CancelWrite
    <3> QED
      BY Zenon, <3>1, <3>2, <3>3
  <2> QED
    BY Zenon, <2>1, <2>2
<1>15. CASE RetryWrite
  BY <1>15, <1>a DEF RetryWrite, Status, Phase
<1>16. CASE RequeueSelect
  BY <1>16, <1>r DEF RequeueSelect, WalkOn, Dependents
<1>17. CASE RequeueUpdate
  BY <1>17 DEF RequeueUpdate, WalkOn, Status, Phase
<1>18. CASE WorkerClaimError
  BY Zenon, <1>18, <1>e DEF WorkerClaimError
<1>19. CASE WorkerFinishError
  BY Zenon, <1>19, <1>e DEF WorkerFinishError
<1>20. CASE Crash
  BY Zenon, <1>20, <1>c, NoRowType DEF Crash, NoTask
<1>21. ASSUME NEW th \in Thread, PropagateSelect(th) PROVE TypeOK'
  <2>1. /\ UNCHANGED <<table, task, locals, draining, history, faults>>
        /\ \E label \in {pc[th], "recover", "idle"} : pc' = [pc EXCEPT ![th] = label]
    BY Zenon, <1>21 DEF PropagateSelect, WalkOn
  <2>2. PICK parent \in frontier[th] :
          /\ frontier' = [frontier EXCEPT ![th] = @ \ {parent}]
          /\ batch' = [batch EXCEPT ![th] =
               {t \in Dependents(parent) :
                  row[t].policy = "require-success" /\ status[t] = "queued"}]
    BY Zenon, <1>21 DEF PropagateSelect
  <2>3. frontier' \in [Thread -> SUBSET Task] /\ batch' \in [Thread -> SUBSET Task]
    BY <2>2, <1>r DEF Dependents
  <2>4. pc[th] \in {"walk", "recover-walk"} /\ (pc[th] = "recover-walk" \/ pc'[th] # "recover")
    BY <1>21 DEF PropagateSelect, WalkOn
  <2> QED
    BY <2>1, <2>3, <2>4
<1>22. ASSUME NEW th \in Thread, PropagateMark(th) PROVE TypeOK'
  BY <1>22 DEF PropagateMark, WalkOn, MarkBlocked, Status, Phase, Terminal, FailedStatus
<1>23. ASSUME NEW th \in Thread, PropagateError(th) PROVE TypeOK'
  BY Zenon, <1>23, <1>e DEF PropagateError
<1>24. ASSUME NEW t \in Rows, CancelRead(t) PROVE TypeOK'
  BY Zenon, <1>24, <1>r DEF CancelRead
<1>25. ASSUME NEW t \in Rows, RetryRead(t) PROVE TypeOK'
  BY Zenon, <1>25, <1>r DEF RetryRead
<1>26. ASSUME NEW d \in DrainStates, SetDraining(d) PROVE TypeOK'
  BY <1>26, BoundAssumption DEF SetDraining
<1>27. ASSUME NEW r \in Requests, EnqueueAdmit(r) PROVE TypeOK'
  BY Zenon, <1>27, <1>r, PlannedType DEF EnqueueAdmit
<1>28. CASE UNCHANGED vars
  BY <1>28 DEF vars
<1> HIDE DEF TypeOK
<1> QED
  BY <1>1, <1>2, <1>3, <1>4, <1>5, <1>6, <1>7, <1>8, <1>9, <1>10, <1>11, <1>12, <1>13, <1>14,
     <1>15, <1>16, <1>17, <1>18, <1>19, <1>20, <1>21, <1>22, <1>23, <1>24, <1>25, <1>26,
     <1>27, <1>28 DEF Next, WorkerStep, AdminStep, ClientRequest, Fault

\* At the start no thread holds a row.
LEMMA InitRows == Init => RowsOnly /\ Blank
  BY DEF Init, RowsOnly, Blank, Thread, NoTask

\* A thread only ever takes up rows that are inserted.
LEMMA RowsStep == TypeOK /\ RowsOnly /\ [Next]_vars => RowsOnly'
<1> SUFFICES ASSUME TypeOK, RowsOnly, [Next]_vars PROVE RowsOnly'
  BY Zenon
<1>r. count' = count => Rows' = Rows
  BY Zenon DEF Rows
<1>i. pc["admin"] = "insert" => Rows \subseteq 1 .. count + 1
  BY DEF Rows, TypeOK
<1>t. /\ count \in 0 .. MaxTasks /\ scan \subseteq Task
      /\ pc \in [Thread -> WorkerLabel \cup AdminLabel] /\ task \in [Thread -> Task \cup {NoTask}]
      /\ frontier \in [Thread -> SUBSET Task] /\ batch \in [Thread -> SUBSET Task]
  BY Zenon DEF TypeOK
<1> USE <1>r, <1>t DEF RowsOnly, Thread, Goto, table, locals, walks, history, faults
<1>1. CASE WorkerSelect
  BY Zenon, <1>1 DEF WorkerSelect, Claimable
<1>2. CASE WorkerReadDependency
  BY <1>2 DEF WorkerReadDependency, ScanOn
<1>3. CASE WorkerBlock
  BY Zenon, <1>3 DEF WorkerBlock, MarkBlocked, ScanOn
<1>4. CASE WorkerClaim
  BY Zenon, <1>4 DEF WorkerClaim, ScanOn
<1>5. CASE WorkerObserve
  BY Zenon, <1>5 DEF WorkerObserve
<1>6. CASE WorkerEnterLane
  BY Zenon, <1>6 DEF WorkerEnterLane
<1>7. CASE WorkerDispatch
  BY Zenon, <1>7 DEF WorkerDispatch
<1>8. CASE ProviderReturns
  BY Zenon, <1>8 DEF ProviderReturns, ProviderOutcomes
<1>9. CASE WorkerFinalize
  BY Zenon, <1>9 DEF WorkerFinalize
<1>10. CASE WorkerFinish
  BY Zenon, <1>10 DEF WorkerFinish
<1>11. CASE RecoverTask
  BY <1>11 DEF RecoverTask, Running
<1>12. CASE RecoverDone
  BY Zenon, <1>12 DEF RecoverDone
<1>13. CASE EnqueueInsert
  BY <1>13 DEF EnqueueInsert, Rows
<1>14. CASE CancelWrite
  BY <1>14 DEF CancelWrite
<1>15. CASE RetryWrite
  BY Zenon, <1>15 DEF RetryWrite
<1>16. CASE RequeueSelect
  BY <1>16 DEF RequeueSelect, WalkOn, Dependents
<1>17. CASE RequeueUpdate
  BY <1>17 DEF RequeueUpdate, WalkOn
<1>18. CASE WorkerClaimError
  BY Zenon, <1>18 DEF WorkerClaimError
<1>19. CASE WorkerFinishError
  BY Zenon, <1>19 DEF WorkerFinishError
<1>20. CASE Crash
  BY Zenon, <1>20 DEF Crash
<1>21. ASSUME NEW th \in Thread, PropagateSelect(th) PROVE RowsOnly'
  <2>1. UNCHANGED <<count, task, outcome, scan>>
    BY Zenon, <1>21 DEF PropagateSelect
  <2>2. \A th2 \in Thread : pc'[th2] \in {pc[th2], "recover", "idle"}
    BY Zenon, <1>21 DEF PropagateSelect, WalkOn
  <2>3. \A th2 \in Thread : frontier'[th2] \subseteq Rows /\ batch'[th2] \subseteq Rows
    BY <1>21 DEF PropagateSelect, Dependents
  <2> QED
    BY Zenon, <2>1, <2>2, <2>3
<1>22. ASSUME NEW th \in Thread, PropagateMark(th) PROVE RowsOnly'
  BY <1>22 DEF PropagateMark, WalkOn
<1>23. ASSUME NEW th \in Thread, PropagateError(th) PROVE RowsOnly'
  BY Zenon, <1>23 DEF PropagateError
<1>24. ASSUME NEW t \in Rows, CancelRead(t) PROVE RowsOnly'
  BY Zenon, <1>24 DEF CancelRead
<1>25. ASSUME NEW t \in Rows, RetryRead(t) PROVE RowsOnly'
  BY Zenon, <1>25 DEF RetryRead
<1>26. ASSUME NEW d \in DrainStates, SetDraining(d) PROVE RowsOnly'
  BY Zenon, <1>26 DEF SetDraining
<1>27. ASSUME NEW r \in Requests, EnqueueAdmit(r) PROVE RowsOnly'
  BY Zenon, <1>27 DEF EnqueueAdmit
<1>28. CASE UNCHANGED vars
  BY <1>28 DEF vars
<1> HIDE <1>r, <1>t DEF RowsOnly
<1> QED
  BY Zenon, <1>1, <1>2, <1>3, <1>4, <1>5, <1>6, <1>7, <1>8, <1>9, <1>10, <1>11, <1>12, <1>13, <1>14,
     <1>15, <1>16, <1>17, <1>18, <1>19, <1>20, <1>21, <1>22, <1>23, <1>24, <1>25, <1>26,
     <1>27, <1>28 DEF Next, WorkerStep, AdminStep, ClientRequest, Fault

\* No statement writes a row that is not inserted.
LEMMA BlankStep == TypeOK /\ RowsOnly /\ Blank /\ [Next]_vars => Blank'
<1> SUFFICES ASSUME TypeOK, RowsOnly, Blank, [Next]_vars PROVE Blank'
  BY Zenon
<1>r. count' = count => Rows' = Rows
  BY Zenon DEF Rows
<1>s. Rows \subseteq Task
  BY Zenon, RowsAreTasks
<1>w. pc["worker"] \in {"block", "claim", "claimed", "lane", "dispatch", "calling",
                       "finalize", "finish"} => task["worker"] \in Rows
  BY Zenon DEF RowsOnly
<1>a. pc["admin"] \in {"cancel", "retry"} => task["admin"] \in Rows
  BY Zenon DEF RowsOnly
<1>b. \A th \in Thread : batch[th] \subseteq Rows
  BY Zenon DEF RowsOnly
<1> USE <1>r, <1>s DEF TypeOK, Blank, table, history
<1>1. CASE WorkerSelect
  BY Zenon, <1>1 DEF WorkerSelect
<1>2. CASE WorkerReadDependency
  BY Zenon, <1>2 DEF WorkerReadDependency
<1>3. CASE WorkerBlock
  BY <1>3, <1>w DEF WorkerBlock, MarkBlocked
<1>4. CASE WorkerClaim
  BY <1>4, <1>w DEF WorkerClaim, Claimable
<1>5. CASE WorkerObserve
  BY Zenon, <1>5 DEF WorkerObserve
<1>6. CASE WorkerEnterLane
  BY Zenon, <1>6 DEF WorkerEnterLane
<1>7. CASE WorkerDispatch
  BY Zenon, <1>7, <1>w DEF WorkerDispatch
<1>8. CASE ProviderReturns
  BY <1>8, <1>w DEF ProviderReturns, ProviderOutcomes
<1>9. CASE WorkerFinalize
  BY Zenon, <1>9 DEF WorkerFinalize
<1>10. CASE WorkerFinish
  BY Zenon, <1>10, <1>w DEF WorkerFinish
<1>11. CASE RecoverTask
  BY Zenon, <1>11 DEF RecoverTask, Running
<1>12. CASE RecoverDone
  BY Zenon, <1>12 DEF RecoverDone
<1>13. CASE EnqueueInsert
  BY <1>13 DEF EnqueueInsert, Rows
<1>14. CASE CancelWrite
  BY <1>14, <1>a DEF CancelWrite
<1>15. CASE RetryWrite
  BY Zenon, <1>15, <1>a DEF RetryWrite
<1>16. CASE RequeueSelect
  BY Zenon, <1>16 DEF RequeueSelect
<1>17. CASE RequeueUpdate
  BY <1>17, <1>b DEF RequeueUpdate, Thread
<1>18. CASE WorkerClaimError
  BY Zenon, <1>18 DEF WorkerClaimError
<1>19. CASE WorkerFinishError
  BY Zenon, <1>19 DEF WorkerFinishError
<1>20. CASE Crash
  BY Zenon, <1>20 DEF Crash
<1>21. ASSUME NEW th \in Thread, PropagateSelect(th) PROVE Blank'
  BY Zenon, <1>21 DEF PropagateSelect
<1>22. ASSUME NEW th \in Thread, PropagateMark(th) PROVE Blank'
  BY <1>22, <1>b DEF PropagateMark, MarkBlocked
<1>23. ASSUME NEW th \in Thread, PropagateError(th) PROVE Blank'
  BY Zenon, <1>23 DEF PropagateError
<1>24. ASSUME NEW t \in Rows, CancelRead(t) PROVE Blank'
  BY Zenon, <1>24 DEF CancelRead
<1>25. ASSUME NEW t \in Rows, RetryRead(t) PROVE Blank'
  BY Zenon, <1>25 DEF RetryRead
<1>26. ASSUME NEW d \in DrainStates, SetDraining(d) PROVE Blank'
  BY Zenon, <1>26 DEF SetDraining
<1>27. ASSUME NEW r \in Requests, EnqueueAdmit(r) PROVE Blank'
  BY Zenon, <1>27 DEF EnqueueAdmit
<1>28. CASE UNCHANGED vars
  BY Zenon, <1>28 DEF vars
<1> HIDE <1>r, <1>s DEF TypeOK, Blank, table, history
<1> USE DEF Thread
<1> QED
  BY Zenon, <1>1, <1>2, <1>3, <1>4, <1>5, <1>6, <1>7, <1>8, <1>9, <1>10, <1>11, <1>12, <1>13, <1>14,
     <1>15, <1>16, <1>17, <1>18, <1>19, <1>20, <1>21, <1>22, <1>23, <1>24, <1>25, <1>26,
     <1>27, <1>28 DEF Next, WorkerStep, AdminStep, ClientRequest, Fault

-----------------------------------------------------------------------------
(* Cancel requests *)

\* An empty table has no cancel requests.
LEMMA InitCancel == Init => CancelInv
  BY Zenon DEF Init, CancelInv, Pending, Thread

\* No statement puts a cancel request on a row that waits for a claim.
LEMMA CancelStep == TypeOK /\ RowsOnly /\ Blank /\ CancelInv /\ [Next]_vars => CancelInv'
<1> SUFFICES ASSUME TypeOK, RowsOnly, Blank, CancelInv, [Next]_vars PROVE CancelInv'
  BY Zenon
<1>s. Rows \subseteq Task
  BY Zenon, RowsAreTasks
<1>w. pc["worker"] \in {"block", "claim", "claimed", "lane", "dispatch", "calling",
                       "finalize", "finish"} => task["worker"] \in Rows
  BY Zenon DEF RowsOnly
<1>a. pc["admin"] \in {"cancel", "retry"} => task["admin"] \in Rows
  BY Zenon DEF RowsOnly
<1>o. pc["worker"] \in {"finalize", "finish"} => outcome \in {"succeeded", "failed", "cancelled"}
  BY Zenon DEF RowsOnly
<1>i. pc["admin"] = "insert" => count + 1 \in Task /\ count + 1 \notin Rows
  BY Zenon, InsertSlot
<1>t. /\ status \in [Task -> Status] /\ cancel \in [Task -> BOOLEAN] /\ readQueued \in BOOLEAN
      /\ pc \in [Thread -> WorkerLabel \cup AdminLabel] /\ task \in [Thread -> Task \cup {NoTask}]
  BY Zenon DEF TypeOK
<1> USE <1>t DEF CancelInv, Pending, Thread, Goto, table, locals, history
<1>1. CASE WorkerSelect
  BY Zenon, <1>1 DEF WorkerSelect
<1>2. CASE WorkerReadDependency
  BY Zenon, <1>2 DEF WorkerReadDependency, ScanOn
<1>3. CASE WorkerBlock
  <2>1. pc'["admin"] = pc["admin"] /\ UNCHANGED <<cancel, readQueued, task>>
    BY Zenon, <1>3 DEF WorkerBlock, ScanOn
  <2>2. \A t \in Task : Pending(t)' <=> Pending(t)
    BY Zenon, <1>3 DEF WorkerBlock, MarkBlocked
  <2>3. pc["admin"] = "cancel" => task["admin"] \in Task
    BY Zenon, <1>a, <1>s
  <2> QED
    BY Zenon, <2>1, <2>2, <2>3
<1>4. CASE WorkerClaim
  <2>1. pc'["admin"] = pc["admin"] /\ UNCHANGED <<cancel, readQueued, task>>
    BY Zenon, <1>4 DEF WorkerClaim, ScanOn
  <2>2. \A t \in Task : Pending(t)' => Pending(t)
    BY <1>4 DEF WorkerClaim
  <2>3. pc["admin"] = "cancel" => task["admin"] \in Task
    BY Zenon, <1>a, <1>s
  <2> QED
    BY Zenon, <2>1, <2>2, <2>3
<1>5. CASE WorkerObserve
  BY Zenon, <1>5 DEF WorkerObserve
<1>6. CASE WorkerEnterLane
  BY Zenon, <1>6 DEF WorkerEnterLane
<1>7. CASE WorkerDispatch
  BY Zenon, <1>7 DEF WorkerDispatch
<1>8. CASE ProviderReturns
  BY Zenon, <1>8 DEF ProviderReturns, ProviderOutcomes
<1>9. CASE WorkerFinalize
  BY Zenon, <1>9 DEF WorkerFinalize
<1>10. CASE WorkerFinish
  BY <1>10, <1>w, <1>o DEF WorkerFinish
<1>11. CASE RecoverTask
  BY <1>11 DEF RecoverTask, Running
<1>12. CASE RecoverDone
  BY Zenon, <1>12 DEF RecoverDone
<1>13. CASE EnqueueInsert
  BY Zenon, <1>13, <1>i DEF EnqueueInsert, Blank
<1>14. CASE CancelWrite
  BY <1>14, <1>a DEF CancelWrite
<1>15. CASE RetryWrite
  BY Zenon, <1>15, <1>a DEF RetryWrite
<1>16. CASE RequeueSelect
  BY Zenon, <1>16 DEF RequeueSelect, WalkOn
<1>17. CASE RequeueUpdate
  BY Zenon, <1>17 DEF RequeueUpdate, WalkOn
<1>18. CASE WorkerClaimError
  BY Zenon, <1>18 DEF WorkerClaimError
<1>19. CASE WorkerFinishError
  BY Zenon, <1>19 DEF WorkerFinishError
<1>20. CASE Crash
  BY Zenon, <1>20 DEF Crash
<1>21. ASSUME NEW th \in Thread, PropagateSelect(th) PROVE CancelInv'
  BY Zenon, <1>21 DEF PropagateSelect, WalkOn
<1>22. ASSUME NEW th \in Thread, PropagateMark(th) PROVE CancelInv'
  <2>1. pc'["admin"] = "cancel" => pc["admin"] = "cancel"
    BY Zenon, <1>22 DEF PropagateMark, WalkOn
  <2>2. UNCHANGED <<cancel, readQueued, task>>
    BY Zenon, <1>22 DEF PropagateMark
  <2>3. \A t \in Task : Pending(t)' <=> Pending(t)
    BY Zenon, <1>22 DEF PropagateMark, MarkBlocked
  <2>4. pc["admin"] = "cancel" => task["admin"] \in Task
    BY Zenon, <1>a, <1>s
  <2> QED
    BY Zenon, <2>1, <2>2, <2>3, <2>4
<1>23. ASSUME NEW th \in Thread, PropagateError(th) PROVE CancelInv'
  BY Zenon, <1>23 DEF PropagateError
<1>24. ASSUME NEW t \in Rows, CancelRead(t) PROVE CancelInv'
  BY Zenon, <1>24, <1>s DEF CancelRead, Terminal, FailedStatus
<1>25. ASSUME NEW t \in Rows, RetryRead(t) PROVE CancelInv'
  BY Zenon, <1>25 DEF RetryRead
<1>26. ASSUME NEW d \in DrainStates, SetDraining(d) PROVE CancelInv'
  BY Zenon, <1>26 DEF SetDraining
<1>27. ASSUME NEW r \in Requests, EnqueueAdmit(r) PROVE CancelInv'
  BY Zenon, <1>27 DEF EnqueueAdmit, Serving
<1>28. CASE UNCHANGED vars
  BY Zenon, <1>28 DEF vars
<1> HIDE <1>t DEF CancelInv
<1> QED
  BY Zenon, <1>1, <1>2, <1>3, <1>4, <1>5, <1>6, <1>7, <1>8, <1>9, <1>10, <1>11, <1>12, <1>13, <1>14,
     <1>15, <1>16, <1>17, <1>18, <1>19, <1>20, <1>21, <1>22, <1>23, <1>24, <1>25, <1>26,
     <1>27, <1>28 DEF Next, WorkerStep, AdminStep, ClientRequest, Fault, Thread

-----------------------------------------------------------------------------
(* Budgets *)

\* An empty table has used no claims.
LEMMA InitBudget == Init => BudgetInv
  BY DEF Init, BudgetInv, Pending, Held, Thread

\* Claims and calls are paid for by the enqueue or by an accepted retry.
LEMMA BudgetStep == TypeOK /\ RowsOnly /\ Blank /\ BudgetInv /\ [Next]_vars => BudgetInv'
<1> SUFFICES ASSUME TypeOK, RowsOnly, Blank, BudgetInv, [Next]_vars PROVE BudgetInv'
  BY Zenon
<1>s. Rows \subseteq Task
  BY Zenon, RowsAreTasks
<1>w. pc["worker"] \in {"block", "claim", "claimed", "lane", "dispatch", "calling",
                       "finalize", "finish"} => task["worker"] \in Rows
  BY Zenon DEF RowsOnly
<1>a. pc["admin"] \in {"cancel", "retry"} => task["admin"] \in Rows
  BY Zenon DEF RowsOnly
<1>o. pc["worker"] \in {"finalize", "finish"} => outcome \in {"succeeded", "failed", "cancelled"}
  BY Zenon DEF RowsOnly
<1>i. pc["admin"] = "insert" => count + 1 \in Task /\ count + 1 \notin Rows
  BY Zenon, InsertSlot
<1>t. /\ status \in [Task -> Status] /\ attempts \in [Task -> Nat] /\ calls \in [Task -> Nat]
      /\ retries \in [Task -> Nat]
      /\ pc \in [Thread -> WorkerLabel \cup AdminLabel] /\ task \in [Thread -> Task \cup {NoTask}]
  BY Zenon DEF TypeOK
<1> USE <1>t DEF BudgetInv, Pending, Held, Thread, Goto, table, locals, history
<1>1. CASE WorkerSelect
  BY Zenon, <1>1 DEF WorkerSelect
<1>2. CASE WorkerReadDependency
  BY Zenon, <1>2 DEF WorkerReadDependency, ScanOn
<1>3. CASE WorkerBlock
  BY Zenon, <1>3, <1>w DEF WorkerBlock, MarkBlocked, ScanOn
<1>4. CASE WorkerClaim
  <2> DEFINE o == task["worker"]
  <2>1. o \in Task /\ UNCHANGED <<calls, retries, task>>
    BY Zenon, <1>4, <1>w, <1>s DEF WorkerClaim
  <2>2. CASE o \in Claimable
    <3>1. /\ status' = [status EXCEPT ![o] = "running"]
          /\ attempts' = [attempts EXCEPT ![o] = @ + 1]
          /\ pc'["worker"] = "claimed"
      BY Zenon, <1>4, <2>2 DEF WorkerClaim
    <3>2. attempts[o] <= retries[o] /\ calls[o] <= attempts[o]
      BY Zenon, <2>1, <2>2 DEF Claimable
    <3>3. \A t \in Task : t # o => ~Held(t)' /\ attempts'[t] = attempts[t] /\ status'[t] = status[t]
      BY Zenon, <2>1, <3>1
    <3> QED
      BY <2>1, <3>1, <3>2, <3>3
  <2>3. CASE o \notin Claimable
    <3>1. UNCHANGED <<status, attempts>> /\ pc'["worker"] \in {"idle", "scan"}
      BY Zenon, <1>4, <2>3 DEF WorkerClaim, ScanOn
    <3> QED
      BY Zenon, <2>1, <3>1
  <2> QED
    BY Zenon, <2>2, <2>3
<1>5. CASE WorkerObserve
  BY Zenon, <1>5 DEF WorkerObserve
<1>6. CASE WorkerEnterLane
  BY Zenon, <1>6 DEF WorkerEnterLane
<1>7. CASE WorkerDispatch
  <2> DEFINE o == task["worker"]
  <2>1. /\ o \in Task /\ Held(o)
        /\ UNCHANGED <<status, attempts, retries, task>> /\ pc'["worker"] = "calling"
        /\ calls' = [calls EXCEPT ![o] = @ + 1]
    BY Zenon, <1>7, <1>w, <1>s DEF WorkerDispatch
  <2>2. calls[o] < attempts[o]
    BY Zenon, <2>1
  <2>3. \A t \in Task : calls'[t] <= attempts[t]
    BY <2>1, <2>2
  <2> QED
    BY <2>1, <2>3
<1>8. CASE ProviderReturns
  BY Zenon, <1>8 DEF ProviderReturns, ProviderOutcomes
<1>9. CASE WorkerFinalize
  BY Zenon, <1>9 DEF WorkerFinalize
<1>10. CASE WorkerFinish
  BY Zenon, <1>10, <1>w, <1>o DEF WorkerFinish
<1>11. CASE RecoverTask
  BY Zenon, <1>11 DEF RecoverTask, Running
<1>12. CASE RecoverDone
  BY Zenon, <1>12 DEF RecoverDone
<1>13. CASE EnqueueInsert
  BY Zenon, <1>13, <1>i DEF EnqueueInsert, Blank
<1>14. CASE CancelWrite
  BY <1>14, <1>a DEF CancelWrite
<1>15. CASE RetryWrite
  <2>1. UNCHANGED <<attempts, calls, task>> /\ pc'["worker"] = pc["worker"]
    BY Zenon, <1>15 DEF RetryWrite
  <2>2. retries' = [retries EXCEPT ![task["admin"]] = @ + 1]
    BY Zenon, <1>15 DEF RetryWrite
  <2>3. \A t \in Task : Pending(t)' => Pending(t) \/ t = task["admin"]
    BY Zenon, <1>15 DEF RetryWrite
  <2>4. \A t \in Task : retries'[t] \in Nat /\ retries[t] <= retries'[t]
    BY <2>2
  <2>5. \A t \in Task : Pending(t)' => attempts[t] <= retries'[t]
    BY <2>2, <2>3
  <2>6. \A t \in Task : attempts'[t] <= 1 + retries'[t]
    BY <2>1, <2>4
  <2> QED
    BY Zenon, <2>1, <2>5, <2>6
<1>16. CASE RequeueSelect
  BY Zenon, <1>16 DEF RequeueSelect, WalkOn
<1>17. CASE RequeueUpdate
  BY Zenon, <1>17 DEF RequeueUpdate, WalkOn
<1>18. CASE WorkerClaimError
  BY Zenon, <1>18 DEF WorkerClaimError
<1>19. CASE WorkerFinishError
  BY Zenon, <1>19 DEF WorkerFinishError
<1>20. CASE Crash
  BY Zenon, <1>20 DEF Crash
<1>21. ASSUME NEW th \in Thread, PropagateSelect(th) PROVE BudgetInv'
  BY Zenon, <1>21 DEF PropagateSelect, WalkOn
<1>22. ASSUME NEW th \in Thread, PropagateMark(th) PROVE BudgetInv'
  BY Zenon, <1>22 DEF PropagateMark, MarkBlocked, WalkOn
<1>23. ASSUME NEW th \in Thread, PropagateError(th) PROVE BudgetInv'
  BY Zenon, <1>23 DEF PropagateError
<1>24. ASSUME NEW t \in Rows, CancelRead(t) PROVE BudgetInv'
  BY Zenon, <1>24, <1>s DEF CancelRead, Terminal, FailedStatus
<1>25. ASSUME NEW t \in Rows, RetryRead(t) PROVE BudgetInv'
  BY Zenon, <1>25 DEF RetryRead
<1>26. ASSUME NEW d \in DrainStates, SetDraining(d) PROVE BudgetInv'
  BY Zenon, <1>26 DEF SetDraining
<1>27. ASSUME NEW r \in Requests, EnqueueAdmit(r) PROVE BudgetInv'
  BY Zenon, <1>27 DEF EnqueueAdmit, Serving
<1>28. CASE UNCHANGED vars
  BY Zenon, <1>28 DEF vars
<1> HIDE <1>t DEF BudgetInv
<1> QED
  BY Zenon, <1>1, <1>2, <1>3, <1>4, <1>5, <1>6, <1>7, <1>8, <1>9, <1>10, <1>11, <1>12, <1>13, <1>14,
     <1>15, <1>16, <1>17, <1>18, <1>19, <1>20, <1>21, <1>22, <1>23, <1>24, <1>25, <1>26,
     <1>27, <1>28 DEF Next, WorkerStep, AdminStep, ClientRequest, Fault, Thread

-----------------------------------------------------------------------------
(* Prerequisites *)

\* An empty table has no unprepared calls.
LEMMA InitPrepared == Init => PreparedInv
  BY DEF Init, PreparedInv, Prepared, Thread

\* A call is made only after the dependency check saw the prerequisite done.
LEMMA PreparedStep == TypeOK /\ RowsOnly /\ Blank /\ PreparedInv /\ [Next]_vars => PreparedInv'
<1> SUFFICES ASSUME TypeOK, RowsOnly, Blank, PreparedInv, [Next]_vars PROVE PreparedInv'
  BY Zenon
<1>s. Rows \subseteq Task
  BY Zenon, RowsAreTasks
<1>w. pc["worker"] \in {"block", "claim", "claimed", "lane", "dispatch", "calling",
                       "finalize", "finish"} => task["worker"] \in Rows
  BY Zenon DEF RowsOnly
<1>a. pc["admin"] \in {"cancel", "retry"} => task["admin"] \in Rows
  BY Zenon DEF RowsOnly
<1>o. pc["worker"] \in {"finalize", "finish"} => outcome \in {"succeeded", "failed", "cancelled"}
  BY Zenon DEF RowsOnly
<1>i. pc["admin"] = "insert" => count + 1 \in Task /\ count + 1 \notin Rows
  BY Zenon, InsertSlot
<1>r. count' = count => Rows' = Rows
  BY Zenon DEF Rows
<1>b. \A t \in Task : t \notin Rows => calls[t] = 0
  BY Zenon DEF Blank
<1>c. \A t \in Task : calls[t] > 0 => t \in Rows
  BY <1>b
<1>n. pc["admin"] = "insert" /\ count' = count + 1 => Rows \subseteq Rows'
  BY DEF TypeOK, Rows
<1>t. /\ row \in [Task -> Request] /\ status \in [Task -> Status] /\ calls \in [Task -> Nat]
      /\ wasDone \in [Task -> BOOLEAN]
      /\ pc \in [Thread -> WorkerLabel \cup AdminLabel] /\ task \in [Thread -> Task \cup {NoTask}]
  BY Zenon DEF TypeOK
<1> USE <1>s, <1>r, <1>t DEF PreparedInv, Prepared, Dependency, Thread, Goto, table, locals, history
<1>1. CASE WorkerSelect
  BY Zenon, <1>1 DEF WorkerSelect
<1>2. CASE WorkerReadDependency
  <2>1. UNCHANGED <<count, row, status, calls, wasDone, outcome>>
    BY Zenon, <1>2 DEF WorkerReadDependency
  <2>2. pc'["worker"] \in {"block", "idle", "scan", "claim"}
    BY Zenon, <1>2 DEF WorkerReadDependency, ScanOn
  <2>3. pc'["worker"] = "claim" => task'["worker"] \in scan /\ DependencyReady(task'["worker"])
    BY Zenon, <1>2 DEF WorkerReadDependency, ScanOn
  <2>4. \A t \in Task : DependencyReady(t) => Prepared(t)
    BY Zenon DEF DependencyReady, BrokenDependency
  <2>5. scan \subseteq Task
    BY Zenon DEF TypeOK
  <2>6. \A t \in Task : Prepared(t)' = Prepared(t)
    BY Zenon, <2>1
  <2> QED
    BY Zenon, <2>1, <2>2, <2>3, <2>4, <2>5, <2>6
<1>3. CASE WorkerBlock
  BY Zenon, <1>3, <1>w DEF WorkerBlock, MarkBlocked, ScanOn
<1>4. CASE WorkerClaim
  BY <1>4, <1>w DEF WorkerClaim, Claimable, ScanOn
<1>5. CASE WorkerObserve
  BY Zenon, <1>5 DEF WorkerObserve
<1>6. CASE WorkerEnterLane
  BY Zenon, <1>6 DEF WorkerEnterLane
<1>7. CASE WorkerDispatch
  BY Zenon, <1>7, <1>w DEF WorkerDispatch
<1>8. CASE ProviderReturns
  <2>1. UNCHANGED <<count, row, status, task, calls>> /\ pc'["worker"] = "finalize"
    BY Zenon, <1>8 DEF ProviderReturns
  <2>2. \A t \in Task : wasDone[t] => wasDone'[t]
    BY Zenon, <1>8 DEF ProviderReturns
  <2>3. outcome' = "succeeded" => wasDone'[task["worker"]]
    BY Zenon, <1>8, <1>w DEF ProviderReturns
  <2>4. \A t \in Task : Prepared(t) => Prepared(t)'
    BY Zenon, <2>1, <2>2
  <2> QED
    BY Zenon, <2>1, <2>2, <2>3, <2>4
<1>9. CASE WorkerFinalize
  BY Zenon, <1>9 DEF WorkerFinalize
<1>10. CASE WorkerFinish
  BY Zenon, <1>10, <1>w, <1>o DEF WorkerFinish
<1>11. CASE RecoverTask
  <2>1. UNCHANGED <<count, row, task, calls, wasDone>>
    BY Zenon, <1>11 DEF RecoverTask
  <2>2. pc'["worker"] \in {"recover", "recover-walk"}
    BY Zenon, <1>11 DEF RecoverTask
  <2>3. \A t \in Task : status'[t] = "succeeded" => status[t] = "succeeded"
    BY <1>11 DEF RecoverTask
  <2> QED
    BY Zenon, <2>1, <2>2, <2>3
<1>12. CASE RecoverDone
  BY Zenon, <1>12 DEF RecoverDone
<1>13. CASE EnqueueInsert
  <2>1. Rows \subseteq Rows'
    BY Zenon, <1>13, <1>n DEF EnqueueInsert
  <2>2. \A t \in Rows : row'[t] = row[t]
    BY Zenon, <1>13, <1>i DEF EnqueueInsert
  <2>3. UNCHANGED <<wasDone, calls, task, outcome>> /\ pc'["worker"] = pc["worker"]
    BY Zenon, <1>13 DEF EnqueueInsert
  <2>4. \A t \in Rows : Prepared(t) => Prepared(t)'
    BY Zenon, <2>1, <2>2, <2>3
  <2>5. \A t \in Task : status'[t] = "succeeded" => status[t] = "succeeded"
    BY Zenon, <1>13, <1>i DEF EnqueueInsert
  <2> QED
    BY Zenon, <1>w, <2>3, <2>4, <1>c, <2>5
<1>14. CASE CancelWrite
  BY <1>14, <1>a DEF CancelWrite
<1>15. CASE RetryWrite
  BY Zenon, <1>15, <1>a DEF RetryWrite
<1>16. CASE RequeueSelect
  BY Zenon, <1>16 DEF RequeueSelect, WalkOn
<1>17. CASE RequeueUpdate
  BY Zenon, <1>17 DEF RequeueUpdate, WalkOn
<1>18. CASE WorkerClaimError
  BY Zenon, <1>18 DEF WorkerClaimError
<1>19. CASE WorkerFinishError
  BY Zenon, <1>19 DEF WorkerFinishError
<1>20. CASE Crash
  BY Zenon, <1>20 DEF Crash
<1>21. ASSUME NEW th \in Thread, PropagateSelect(th) PROVE PreparedInv'
  BY Zenon, <1>21 DEF PropagateSelect, WalkOn
<1>22. ASSUME NEW th \in Thread, PropagateMark(th) PROVE PreparedInv'
  BY Zenon, <1>22 DEF PropagateMark, MarkBlocked, WalkOn
<1>23. ASSUME NEW th \in Thread, PropagateError(th) PROVE PreparedInv'
  BY Zenon, <1>23 DEF PropagateError
<1>24. ASSUME NEW t \in Rows, CancelRead(t) PROVE PreparedInv'
  BY Zenon, <1>24 DEF CancelRead
<1>25. ASSUME NEW t \in Rows, RetryRead(t) PROVE PreparedInv'
  BY Zenon, <1>25 DEF RetryRead
<1>26. ASSUME NEW d \in DrainStates, SetDraining(d) PROVE PreparedInv'
  BY Zenon, <1>26 DEF SetDraining
<1>27. ASSUME NEW r \in Requests, EnqueueAdmit(r) PROVE PreparedInv'
  BY Zenon, <1>27 DEF EnqueueAdmit, Serving
<1>28. CASE UNCHANGED vars
  BY Zenon, <1>28 DEF vars
<1> HIDE <1>s, <1>r, <1>t DEF PreparedInv
<1> QED
  BY Zenon, <1>1, <1>2, <1>3, <1>4, <1>5, <1>6, <1>7, <1>8, <1>9, <1>10, <1>11, <1>12, <1>13, <1>14,
     <1>15, <1>16, <1>17, <1>18, <1>19, <1>20, <1>21, <1>22, <1>23, <1>24, <1>25, <1>26,
     <1>27, <1>28 DEF Next, WorkerStep, AdminStep, ClientRequest, Fault, Thread

-----------------------------------------------------------------------------
(* Invariance *)

\* All columns, program counters and histories keep their types in every
\* behaviour of the queue, for any number of tasks, retries and restarts.
THEOREM TypeCorrect == Spec => [](TypeOK /\ RowsOnly)
<1>1. Init => TypeOK /\ RowsOnly
  BY Zenon, InitType, InitRows
<1>2. TypeOK /\ RowsOnly /\ [Next]_vars => (TypeOK /\ RowsOnly)'
  BY Zenon, TypeStep, RowsStep
<1> QED
  BY <1>1, <1>2, PTL DEF Spec

\* Rows that are not inserted yet stay blank: no update of worker, handler or
\* recovery reaches them.
THEOREM BlankCorrect == Spec => []Blank
<1>1. Init => Blank
  BY Zenon, InitRows
<1>2. TypeOK /\ RowsOnly /\ Blank /\ [Next]_vars => Blank'
  BY Zenon, BlankStep
<1> QED
  BY <1>1, <1>2, TypeCorrect, PTL DEF Spec

\* No interleaving of cancel, retry, requeue, claim and restart leaves a queued
\* row that the claim query skips because of its cancel_requested.
THEOREM QueuedIsAlwaysClaimable == Spec => []QueuedIsClaimable
<1>1. CancelInv => QueuedIsClaimable
  BY Zenon DEF CancelInv, QueuedIsClaimable, Pending
<1> QED
  BY <1>1, InitCancel, CancelStep, TypeCorrect, BlankCorrect, PTL DEF Spec

\* The worker claims a task and calls its provider at most once for the enqueue
\* and once for each accepted retry, whatever crashes or fails in between.
THEOREM NeverReplaysSilently == Spec => []NoSilentReplay
<1>1. BudgetInv => NoSilentReplay
  BY Zenon DEF BudgetInv, NoSilentReplay
<1> QED
  BY <1>1, InitBudget, BudgetStep, TypeCorrect, BlankCorrect, PTL DEF Spec

\* A require-success task is only executed once its predecessor has been.
THEOREM PrerequisiteAlwaysDone == Spec => []PrerequisiteDone
<1>1. TypeOK /\ PreparedInv => PrerequisiteDone
  <2>1. TypeOK => Rows \subseteq Task
    BY Zenon, RowsAreTasks
  <2> QED
    BY Zenon, <2>1 DEF PreparedInv, Prepared, PrerequisiteDone
<1> QED
  BY <1>1, InitPrepared, PreparedStep, TypeCorrect, BlankCorrect, PTL DEF Spec

\* The promises of the queue hold together, for any number of tasks, retries,
\* restarts and failed statements.
THEOREM QueueAlwaysSafe == Spec => []QueueSafety
<1>1. TypeOK /\ QueuedIsClaimable /\ PrerequisiteDone /\ NoSilentReplay => QueueSafety
  BY Zenon DEF QueueSafety
<1> QED
  BY <1>1, TypeCorrect, QueuedIsAlwaysClaimable, PrerequisiteAlwaysDone, NeverReplaysSilently, PTL

=============================================================================
