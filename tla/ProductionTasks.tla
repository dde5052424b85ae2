-------------------------- MODULE ProductionTasks --------------------------
(***************************************************************************)
(* The durable production task queue of the inspection service: the table  *)
(* production_task (app/service/src/db/mod.rs), the single worker thread   *)
(* that claims and executes its rows, and the HTTP handlers that enqueue,  *)
(* cancel and retry them (app/service/src/production_tasks.rs).            *)
(*                                                                         *)
(* A step is one SQL statement.  The worker and the handlers run on their  *)
(* own threads and share only the table; handlers are serialised by        *)
(* production_task_admin_lock, so at most one of them is between two       *)
(* statements and pc["admin"] is where the holder of the lock is.  A read   *)
(* and the write that relies on it are two steps of one thread, with any   *)
(* steps of the other thread between them.  A statement that commutes with *)
(* every statement of the other thread (a read of columns an insert fixes, *)
(* a checkpoint followed by a read of cancel_requested) shares a step with *)
(* the next statement of its own thread.                                   *)
(***************************************************************************)
EXTENDS Naturals, FiniteSets

CONSTANTS
  MaxTasks,     \* bound: rows ever inserted
  Capacity,     \* queue_capacity()
  Name,         \* idempotency keys, sessions and chains
  Requests,     \* the enqueue requests clients submit
  MaxRetries,   \* bound: accepted explicit retries of one task
  MaxCrashes,   \* bound: service restarts
  MaxDbErrors,  \* bound: failed statements that the code swallows
  DrainStates   \* values runtime_is_draining takes: {FALSE} without a drain

Task == 1 .. MaxTasks

NoTask == 0

NoKey == "none"

Kind == {"capture-once", "algorithm-run", "steel-info", "steel-in",
         "steel-out", "trigger-event"}

Policy == {"require-success", "always-run"}

\* What a request names; an omitted chain or dependency is NoKey or NoTask.
Request == [kind : Kind, key : Name \cup {NoKey}, session : Name \cup {NoKey},
            chain : Name \cup {NoKey}, dependsOn : Task \cup {NoTask},
            policy : Policy]

ASSUME BoundAssumption ==
  /\ MaxTasks \in Nat \ {0}
  /\ Capacity \in Nat \ {0}
  /\ MaxRetries \in Nat
  /\ MaxCrashes \in Nat
  /\ MaxDbErrors \in Nat
  /\ DrainStates \subseteq BOOLEAN

ASSUME RequestAssumption == Requests \subseteq Request

VARIABLES
  count,      \* rows inserted so far; ids are 1 .. count in created_at, id order
  row,        \* the columns an insert fixes
  status,     \* column status
  phase,      \* column phase
  cancel,     \* column cancel_requested
  attempts,   \* column attempts
  pc,         \* per thread: what it does next
  task,       \* per thread: the task it works on
  scan,       \* worker: candidates of the current claim pass still to visit
  outcome,    \* worker: the terminal status it is about to persist
  readQueued, \* admin: the status a cancel read was "queued"
  newRow,     \* admin: the row an enqueue is about to insert
  frontier,   \* per thread: parents whose dependents are still to be visited
  batch,      \* per thread: dependents selected and not yet updated
  draining,   \* runtime_is_draining(state)
  calls,      \* history: provider calls made for the task
  result,     \* history: what the last provider call for the task did
  wasDone,    \* history: some provider call for the task succeeded
  retries,    \* history: accepted explicit retries
  audited,    \* history: the task has a cancel_too_late audit entry
  crashes,    \* service restarts so far
  dbErrors    \* swallowed statement failures so far

table == <<count, row, status, phase, cancel, attempts>>
locals == <<scan, outcome, readQueued, newRow>>
walks == <<frontier, batch>>
history == <<calls, result, wasDone, retries, audited>>
faults == <<crashes, dbErrors>>
vars == <<count, row, status, phase, cancel, attempts, pc, task, scan, outcome,
          readQueued, newRow, frontier, batch, draining, calls, result, wasDone,
          retries, audited, crashes, dbErrors>>

Thread == {"worker", "admin"}

NoRow == [kind |-> "trigger-event", key |-> NoKey, session |-> NoKey,
          chain |-> NoKey, dependsOn |-> NoTask, policy |-> "require-success"]

Init ==
  /\ count = 0
  /\ row = [t \in Task |-> NoRow]
  /\ status = [t \in Task |-> "absent"]
  /\ phase = [t \in Task |-> "absent"]
  /\ cancel = [t \in Task |-> FALSE]
  /\ attempts = [t \in Task |-> 0]
  /\ pc = [th \in Thread |-> "idle"]
  /\ task = [th \in Thread |-> NoTask]
  /\ scan = {}
  /\ outcome = "none"
  /\ readQueued = FALSE
  /\ newRow = NoRow
  /\ frontier = [th \in Thread |-> {}]
  /\ batch = [th \in Thread |-> {}]
  /\ draining = FALSE
  /\ calls = [t \in Task |-> 0]
  /\ result = [t \in Task |-> "none"]
  /\ wasDone = [t \in Task |-> FALSE]
  /\ retries = [t \in Task |-> 0]
  /\ audited = [t \in Task |-> FALSE]
  /\ crashes = 0
  /\ dbErrors = 0

-----------------------------------------------------------------------------
(* Statuses and dependencies *)

FailedStatus == {"failed", "cancelled", "interrupted", "blocked"}

Terminal == FailedStatus \cup {"succeeded"}

Status == Terminal \cup {"absent", "queued", "running"}

Phase == Terminal \cup {"absent", "queued", "waiting-dependency", "executing",
                        "waiting-command-lane", "dispatching", "finalizing-result"}

Rows == 1 .. count

Open == {t \in Rows : status[t] \in {"queued", "running"}}

\* Chain, session and material of a dependency must be the task's own; a
\* session stands for its material.
SameTarget(c, d) == row[d].chain = c.chain /\ row[d].session = c.session

Dependency(t) == row[t].dependsOn

BrokenDependency(t) ==
  \/ Dependency(t) = t
  \/ Dependency(t) \notin Rows
  \/ ~SameTarget(row[t], Dependency(t))

\* An always-run task waits for any terminal predecessor, a require-success
\* task for a succeeded one and is blocked by any other end of it.
DependencyReady(t) ==
  \/ Dependency(t) = NoTask
  \/ /\ ~BrokenDependency(t)
     /\ status[Dependency(t)] \in
          IF row[t].policy = "always-run" THEN Terminal ELSE {"succeeded"}

\* Fault: the claim leaves the blocking to the propagation.
DependencyBlockedIfBroken(t) == Dependency(t) # NoTask /\ BrokenDependency(t)

DependencyBlocked(t) ==
  /\ Dependency(t) # NoTask
  /\ \/ BrokenDependency(t)
     \/ /\ row[t].policy = "require-success"
        /\ status[Dependency(t)] \in FailedStatus

Dependents(parent) == {t \in Rows : row[t].dependsOn = parent}

\* The conditional update of mark_production_task_blocked.
MarkBlocked(t) ==
  IF status[t] = "queued"
  THEN /\ status' = [status EXCEPT ![t] = "blocked"]
       /\ phase' = [phase EXCEPT ![t] = "blocked"]
  ELSE UNCHANGED <<status, phase>>

\* The conditional update of update_production_task_progress.
Checkpoint(t, p) ==
  phase' = IF status[t] = "running" THEN [phase EXCEPT ![t] = p] ELSE phase

-----------------------------------------------------------------------------
(* Blocking the dependents of a failed task: the statements of              *)
(* propagate_production_task_dependency_failure, run by the worker after a  *)
(* finish, by recovery and by a cancel handler.                             *)

Goto(th, label) == pc' = [pc EXCEPT ![th] = label]

\* A walk that has nothing left to visit returns to its caller.
WalkOn(th) ==
  Goto(th, IF frontier'[th] = {} /\ batch'[th] = {}
           THEN IF pc[th] = "recover-walk" THEN "recover" ELSE "idle"
           ELSE pc[th])

PropagateSelect(th) ==
  /\ pc[th] \in {"walk", "recover-walk"}
  /\ batch[th] = {}
  /\ \E parent \in frontier[th] :
       /\ frontier' = [frontier EXCEPT ![th] = @ \ {parent}]
       /\ batch' = [batch EXCEPT ![th] =
            {t \in Dependents(parent) :
               row[t].policy = "require-success" /\ status[t] = "queued"}]
  /\ WalkOn(th)
  /\ UNCHANGED <<table, task, locals, draining, history, faults>>

PropagateMark(th) ==
  /\ pc[th] \in {"walk", "recover-walk"}
  /\ \E t \in batch[th] :
       /\ MarkBlocked(t)
       /\ batch' = [batch EXCEPT ![th] = @ \ {t}]
       /\ frontier' = [frontier EXCEPT ![th] =
                         IF status[t] = "queued" THEN @ \cup {t} ELSE @]
  /\ WalkOn(th)
  /\ UNCHANGED <<count, row, cancel, attempts, task, locals, draining, history, faults>>

\* A failing statement ends the walk, the requeue of a retry or the recovery;
\* nothing is undone and no caller repeats it.
PropagateError(th) ==
  /\ pc[th] \in {"walk", "requeue", "recover", "recover-walk"}
  /\ dbErrors < MaxDbErrors
  /\ dbErrors' = dbErrors + 1
  /\ frontier' = [frontier EXCEPT ![th] = {}]
  /\ batch' = [batch EXCEPT ![th] = {}]
  /\ Goto(th, "idle")
  /\ UNCHANGED <<table, task, locals, draining, history, crashes>>

-----------------------------------------------------------------------------
(* The worker thread: claim_next_production_task and worker_loop *)

Claimable == {t \in Rows : status[t] = "queued" /\ ~cancel[t]}

IsOldest(t, S) == t \in S /\ \A u \in S : t <= u

WorkerSelect ==
  /\ pc["worker"] = "idle"
  /\ Claimable # {}
  /\ scan' = Claimable
  /\ Goto("worker", "scan")
  /\ UNCHANGED <<table, task, outcome, readQueued, newRow, walks, draining, history,
                 faults>>

\* The claim pass goes on with the next candidate; a pass that ends without a
\* claim is followed by another, at once or after the wait for work.
ScanOn(visited) ==
  /\ scan' = scan \ {visited}
  /\ Goto("worker", IF scan' = {} THEN "idle" ELSE "scan")

WorkerReadDependency ==
  /\ pc["worker"] = "scan"
  /\ \E t \in scan :
       /\ IsOldest(t, scan)
       /\ task' = [task EXCEPT !["worker"] = t]
       /\ \/ DependencyBlocked(t) /\ Goto("worker", "block") /\ UNCHANGED scan
          \/ DependencyReady(t) /\ Goto("worker", "claim") /\ UNCHANGED scan
          \/ ~DependencyBlocked(t) /\ ~DependencyReady(t) /\ ScanOn(t)
  /\ UNCHANGED <<table, outcome, readQueued, newRow, walks, draining, history, faults>>

WorkerBlock ==
  /\ pc["worker"] = "block"
  /\ MarkBlocked(task["worker"])
  /\ ScanOn(task["worker"])
  /\ UNCHANGED <<count, row, cancel, attempts, task, outcome, readQueued, newRow, walks,
                 draining, history, faults>>

\* The claim is a conditional update; the only writer of attempts is the worker,
\* so the value it selected is still the stored one.
WorkerClaim ==
  /\ pc["worker"] = "claim"
  /\ LET t == task["worker"]
     IN  IF t \in Claimable
         THEN /\ status' = [status EXCEPT ![t] = "running"]
              /\ phase' = [phase EXCEPT ![t] = "executing"]
              /\ attempts' = [attempts EXCEPT ![t] = @ + 1]
              /\ scan' = {}
              /\ Goto("worker", "claimed")
         ELSE UNCHANGED <<status, phase, attempts>> /\ ScanOn(t)
  /\ UNCHANGED <<count, row, cancel, task, outcome, readQueued, newRow, walks, draining,
                 history, faults>>

\* A failing statement ends the claim pass; after the conditional update it is
\* the read of the claimed row, and nobody executes that row.
WorkerClaimError ==
  /\ pc["worker"] \in {"scan", "block", "claim", "claimed"}
  /\ dbErrors < MaxDbErrors
  /\ dbErrors' = dbErrors + 1
  /\ scan' = {}
  /\ Goto("worker", "idle")
  /\ UNCHANGED <<table, task, outcome, readQueued, newRow, walks, draining, history, crashes>>

\* A read of cancel_requested; a failed read counts as "not requested".
ReadCancel(t, seen) ==
  \/ seen = cancel[t] /\ UNCHANGED dbErrors
  \/ seen = FALSE /\ dbErrors < MaxDbErrors /\ dbErrors' = dbErrors + 1

\* Checkpoint 10 and the first look at cancel_requested.
WorkerObserve ==
  /\ pc["worker"] = "claimed"
  /\ Checkpoint(task["worker"], "waiting-command-lane")
  /\ \E seen \in BOOLEAN :
       /\ ReadCancel(task["worker"], seen)
       /\ outcome' = IF seen THEN "cancelled" ELSE outcome
       /\ Goto("worker", IF seen THEN "finish" ELSE "lane")
  /\ UNCHANGED <<count, row, status, cancel, attempts, task, scan, readQueued, newRow,
                 walks, draining, history, crashes>>

\* production_command_lock is held and cancel_requested read again.
WorkerEnterLane ==
  /\ pc["worker"] = "lane"
  /\ \E seen \in BOOLEAN :
       /\ ReadCancel(task["worker"], seen)
       /\ outcome' = IF seen THEN "cancelled" ELSE outcome
       /\ Goto("worker", IF seen THEN "finish" ELSE "dispatch")
  /\ UNCHANGED <<table, task, scan, readQueued, newRow, walks, draining, history, crashes>>

\* Checkpoint 25, then execute_task calls the provider.
WorkerDispatch ==
  /\ pc["worker"] = "dispatch"
  /\ Checkpoint(task["worker"], "dispatching")
  /\ calls' = [calls EXCEPT ![task["worker"]] = @ + 1]
  /\ Goto("worker", "calling")
  /\ UNCHANGED <<count, row, status, cancel, attempts, task, locals, walks, draining,
                 result, wasDone, retries, audited, faults>>

\* Only an algorithm run polls for cancellation and drain while it computes.
ProviderOutcomes(t) ==
  {"succeeded", "failed"} \cup
    IF row[t].kind = "algorithm-run" /\ (draining \/ cancel[t]) THEN {"cancelled"} ELSE {}

ProviderReturns ==
  /\ pc["worker"] = "calling"
  /\ LET t == task["worker"]
     IN  \E o \in ProviderOutcomes(t) :
           /\ outcome' = o
           /\ result' = [result EXCEPT ![t] = o]
           /\ wasDone' = [wasDone EXCEPT ![t] = @ \/ o = "succeeded"]
  /\ Goto("worker", "finalize")
  /\ UNCHANGED <<table, task, scan, readQueued, newRow, walks, draining, calls, retries,
                 audited, faults>>

\* Checkpoint 90, the last look at cancel_requested and the audit entry.
WorkerFinalize ==
  /\ pc["worker"] = "finalize"
  /\ Checkpoint(task["worker"], "finalizing-result")
  /\ \E seen \in BOOLEAN :
       /\ ReadCancel(task["worker"], seen)
       /\ audited' = [audited EXCEPT ![task["worker"]] =
                        @ \/ (seen /\ outcome # "cancelled")]
  /\ Goto("worker", "finish")
  /\ UNCHANGED <<count, row, status, cancel, attempts, task, locals, walks, draining,
                 calls, result, wasDone, retries, crashes>>

\* Fault: whatever did not fail is reported as a success.
WorkerFinishOptimistic ==
  /\ pc["worker"] = "finish"
  /\ LET s == IF outcome = "failed" THEN "failed" ELSE "succeeded"
     IN  /\ status' = [status EXCEPT ![task["worker"]] = s]
         /\ phase' = [phase EXCEPT ![task["worker"]] = s]
  /\ Goto("worker", "idle")
  /\ outcome' = "none"
  /\ UNCHANGED <<count, row, cancel, attempts, task, scan, readQueued, newRow, walks,
                 draining, history, faults>>

\* finish_production_task updates by id, whatever the stored status is.
WorkerFinish ==
  /\ pc["worker"] = "finish"
  /\ LET t == task["worker"]
     IN  /\ status' = [status EXCEPT ![t] = outcome]
         /\ phase' = [phase EXCEPT ![t] = outcome]
         /\ frontier' = [frontier EXCEPT !["worker"] =
                           IF outcome \in FailedStatus THEN {t} ELSE {}]
  /\ Goto("worker", IF outcome \in FailedStatus THEN "walk" ELSE "idle")
  /\ outcome' = "none"
  /\ UNCHANGED <<count, row, cancel, attempts, task, scan, readQueued, newRow, batch,
                 draining, history, faults>>

\* The worker goes on to the next task when the final update fails.
WorkerFinishError ==
  /\ pc["worker"] = "finish"
  /\ dbErrors < MaxDbErrors
  /\ dbErrors' = dbErrors + 1
  /\ outcome' = "none"
  /\ Goto("worker", "idle")
  /\ UNCHANGED <<table, task, scan, readQueued, newRow, walks, draining, history, crashes>>

-----------------------------------------------------------------------------
(* The handlers that hold production_task_admin_lock *)

IsLatest(t, S) == t \in S /\ \A u \in S : u <= t

Latest(S) == IF \E t \in S : IsLatest(t, S) THEN CHOOSE t \in S : IsLatest(t, S) ELSE NoTask

LatestOfSession(s) == Latest({t \in Rows : row[t].session = s})

\* The chain a request joins: its own choice, its session's chain, or a new
\* chain named after the session.
ChainOf(r) ==
  IF r.chain # NoKey THEN r.chain
  ELSE IF LatestOfSession(r.session) = NoTask THEN r.session
  ELSE row[LatestOfSession(r.session)].chain

DependencyOf(r) ==
  IF r.dependsOn # NoTask THEN r.dependsOn
  ELSE IF r.kind = "trigger-event" THEN NoTask
  ELSE Latest({t \in Rows : row[t].chain = ChainOf(r)})

Planned(r) == [r EXCEPT !.chain = ChainOf(r), !.dependsOn = DependencyOf(r)]

\* Fault: the lookup by idempotency key is skipped.
KnownKeyUnchecked(r) == FALSE

KnownKey(r) == r.key # NoKey /\ \E t \in Rows : row[t].kind = r.kind /\ row[t].key = r.key

\* Fault: a full queue accepts one more task.
HasRoomOffByOne == Cardinality(Open) <= Capacity

HasRoom == Cardinality(Open) < Capacity

\* Fault: a session may start a second chain.
KeepsChainUnchecked(r) == TRUE

KeepsChain(r) ==
  LatestOfSession(r.session) # NoTask => row[LatestOfSession(r.session)].chain = ChainOf(r)

\* A request the handler admits; every other request is answered without a
\* change of the table.
Admissible(r) ==
  /\ r.policy = "always-run" => r.kind = "trigger-event"
  /\ ~KnownKey(r)
  /\ draining => r.kind = "steel-out"
  /\ HasRoom
  /\ KeepsChain(r)
  /\ DependencyOf(r) # NoTask =>
       DependencyOf(r) \in Rows /\ SameTarget(Planned(r), DependencyOf(r))

\* Requests are served once start_worker has finished its recovery.
Serving == pc["admin"] = "idle" /\ pc["worker"] \notin {"recover", "recover-walk"}

EnqueueAdmit(r) ==
  /\ Serving
  /\ count < MaxTasks
  /\ Admissible(r)
  /\ newRow' = Planned(r)
  /\ Goto("admin", "insert")
  /\ UNCHANGED <<table, task, scan, outcome, readQueued, walks, draining, history, faults>>

EnqueueInsert ==
  /\ pc["admin"] = "insert"
  /\ count' = count + 1
  /\ row' = [row EXCEPT ![count + 1] = newRow]
  /\ status' = [status EXCEPT ![count + 1] = "queued"]
  /\ phase' = [phase EXCEPT ![count + 1] = "queued"]
  /\ newRow' = NoRow
  /\ Goto("admin", "idle")
  /\ UNCHANGED <<cancel, attempts, task, scan, outcome, readQueued, walks, draining,
                 history, faults>>

\* cancel_response: the last of its reads before the update.
CancelRead(t) ==
  /\ Serving
  /\ status[t] \notin Terminal
  /\ task' = [task EXCEPT !["admin"] = t]
  /\ readQueued' = (status[t] = "queued")
  /\ Goto("admin", "cancel")
  /\ UNCHANGED <<table, scan, outcome, newRow, walks, draining, history, faults>>

\* The update by id of request_cancel_production_task: it writes the status
\* that the read implied, whatever the stored status is by now.
CancelWrite ==
  /\ pc["admin"] = "cancel"
  /\ LET t == task["admin"]
     IN  /\ cancel' = [cancel EXCEPT ![t] = TRUE]
         /\ IF readQueued
            THEN /\ status' = [status EXCEPT ![t] = "cancelled"]
                 /\ phase' = [phase EXCEPT ![t] = "cancelled"]
                 /\ frontier' = [frontier EXCEPT !["admin"] = {t}]
                 /\ Goto("admin", "walk")
            ELSE /\ Goto("admin", "idle")
                 /\ UNCHANGED <<status, phase, frontier>>
  /\ readQueued' = FALSE
  /\ UNCHANGED <<count, row, attempts, task, scan, outcome, newRow, batch, draining,
                 history, faults>>

\* retry_response: the last of its reads before the update.
RetryRead(t) ==
  /\ Serving
  /\ status[t] \in FailedStatus
  /\ status[t] = "blocked" => DependencyReady(t)
  /\ retries[t] < MaxRetries
  /\ task' = [task EXCEPT !["admin"] = t]
  /\ Goto("admin", "retry")
  /\ UNCHANGED <<table, locals, walks, draining, history, faults>>

\* Fault: the retried row keeps its cancel_requested.
RetryWriteKeepsCancel ==
  /\ pc["admin"] = "retry"
  /\ LET t == task["admin"]
     IN  /\ status' = [status EXCEPT ![t] = "queued"]
         /\ phase' = [phase EXCEPT ![t] = "queued"]
         /\ retries' = [retries EXCEPT ![t] = @ + 1]
         /\ frontier' = [frontier EXCEPT !["admin"] = {t}]
  /\ Goto("admin", "requeue")
  /\ UNCHANGED <<count, row, cancel, attempts, task, locals, batch, draining, calls,
                 result, wasDone, audited, faults>>

\* The update by id of retry_production_task.
RetryWrite ==
  /\ pc["admin"] = "retry"
  /\ LET t == task["admin"]
     IN  /\ status' = [status EXCEPT ![t] = "queued"]
         /\ phase' = [phase EXCEPT ![t] = "queued"]
         /\ cancel' = [cancel EXCEPT ![t] = FALSE]
         /\ retries' = [retries EXCEPT ![t] = @ + 1]
         /\ frontier' = [frontier EXCEPT !["admin"] = {t}]
  /\ Goto("admin", "requeue")
  /\ UNCHANGED <<count, row, attempts, task, locals, batch, draining, calls, result,
                 wasDone, audited, faults>>

\* requeue_blocked_production_task_descendants, whatever their policy.
RequeueSelect ==
  /\ pc["admin"] = "requeue"
  /\ batch["admin"] = {}
  /\ \E parent \in frontier["admin"] :
       /\ frontier' = [frontier EXCEPT !["admin"] = @ \ {parent}]
       /\ batch' = [batch EXCEPT !["admin"] =
                      {t \in Dependents(parent) : status[t] = "blocked"}]
  /\ WalkOn("admin")
  /\ UNCHANGED <<table, task, locals, draining, history, faults>>

RequeueUpdate ==
  /\ pc["admin"] = "requeue"
  /\ \E t \in batch["admin"] :
       /\ batch' = [batch EXCEPT !["admin"] = @ \ {t}]
       /\ IF status[t] = "blocked"
          THEN /\ status' = [status EXCEPT ![t] = "queued"]
               /\ phase' = [phase EXCEPT ![t] = "waiting-dependency"]
               /\ frontier' = [frontier EXCEPT !["admin"] = @ \cup {t}]
          ELSE UNCHANGED <<status, phase, frontier>>
  /\ WalkOn("admin")
  /\ UNCHANGED <<count, row, cancel, attempts, task, locals, draining, history, faults>>

-----------------------------------------------------------------------------
(* Drain, crash and restart *)

\* A drain request or a mode transition closes admission; a transition that is
\* rolled back opens it again.
SetDraining(d) ==
  /\ draining # d
  /\ draining' = d
  /\ UNCHANGED <<table, pc, task, locals, walks, history, faults>>

\* The process dies between two statements; the table survives and the next
\* start begins with recover_incomplete_production_tasks.
Crash ==
  /\ crashes < MaxCrashes
  /\ crashes' = crashes + 1
  /\ pc' = [th \in Thread |-> IF th = "worker" THEN "recover" ELSE "idle"]
  /\ task' = [th \in Thread |-> NoTask]
  /\ scan' = {}
  /\ outcome' = "none"
  /\ readQueued' = FALSE
  /\ newRow' = NoRow
  /\ frontier' = [th \in Thread |-> {}]
  /\ batch' = [th \in Thread |-> {}]
  /\ draining' = FALSE
  /\ UNCHANGED <<table, history, dbErrors>>

Running == {t \in Rows : status[t] = "running"}

\* Fault: an interrupted task is queued again by the restart.
RecoverTaskRequeues ==
  /\ pc["worker"] = "recover"
  /\ \E t \in Running :
       /\ status' = [status EXCEPT ![t] = "queued"]
       /\ phase' = [phase EXCEPT ![t] = "queued"]
  /\ UNCHANGED <<count, row, cancel, attempts, pc, task, locals, walks, draining, history,
                 faults>>

RecoverTask ==
  /\ pc["worker"] = "recover"
  /\ \E t \in Running :
       LET s == IF cancel[t] THEN "cancelled" ELSE "interrupted"
       IN  /\ status' = [status EXCEPT ![t] = s]
           /\ phase' = [phase EXCEPT ![t] = s]
           /\ frontier' = [frontier EXCEPT !["worker"] = {t}]
  /\ Goto("worker", "recover-walk")
  /\ UNCHANGED <<count, row, cancel, attempts, task, locals, batch, draining, history,
                 faults>>

RecoverDone ==
  /\ pc["worker"] = "recover"
  /\ Running = {}
  /\ Goto("worker", "idle")
  /\ UNCHANGED <<table, task, locals, walks, draining, history, faults>>

-----------------------------------------------------------------------------

WorkerStep ==
  \/ WorkerSelect \/ WorkerReadDependency \/ WorkerBlock \/ WorkerClaim
  \/ WorkerObserve \/ WorkerEnterLane \/ WorkerDispatch \/ ProviderReturns
  \/ WorkerFinalize \/ WorkerFinish
  \/ PropagateSelect("worker") \/ PropagateMark("worker")
  \/ RecoverTask \/ RecoverDone

AdminStep ==
  \/ EnqueueInsert \/ CancelWrite \/ RetryWrite \/ RequeueSelect \/ RequeueUpdate
  \/ PropagateSelect("admin") \/ PropagateMark("admin")

ClientRequest ==
  \/ \E r \in Requests : EnqueueAdmit(r)
  \/ \E t \in Rows : CancelRead(t)
  \/ \E t \in Rows : RetryRead(t)

Fault ==
  \/ WorkerClaimError \/ WorkerFinishError \/ \E th \in Thread : PropagateError(th)
  \/ Crash

Next == WorkerStep \/ AdminStep \/ ClientRequest \/ (\E d \in DrainStates : SetDraining(d)) \/ Fault

Spec == Init /\ [][Next]_vars

\* The worker thread is always runnable and its provider calls return (the
\* capture proxy and the algorithm process have timeouts); a handler that
\* holds the lock runs to its end.
FairSpec == Spec /\ WF_vars(WorkerStep) /\ WF_vars(AdminStep)

-----------------------------------------------------------------------------
(* Properties *)

WorkerLabel == {"idle", "scan", "block", "claim", "claimed", "lane", "dispatch", "calling",
                "finalize", "finish", "walk", "recover", "recover-walk"}

AdminLabel == {"idle", "insert", "cancel", "walk", "retry", "requeue"}

\* Every variable holds a value of its column, program counter or history.
TypeOK ==
  /\ count \in 0 .. MaxTasks
  /\ row \in [Task -> Request]
  /\ status \in [Task -> Status]
  /\ phase \in [Task -> Phase]
  /\ cancel \in [Task -> BOOLEAN]
  /\ attempts \in [Task -> Nat]
  /\ pc \in [Thread -> WorkerLabel \cup AdminLabel]
  /\ pc["worker"] \in WorkerLabel
  /\ pc["admin"] \in AdminLabel
  /\ task \in [Thread -> Task \cup {NoTask}]
  /\ scan \subseteq Task
  /\ outcome \in Terminal \cup {"none"}
  /\ readQueued \in BOOLEAN
  /\ newRow \in Request
  /\ frontier \in [Thread -> SUBSET Task]
  /\ batch \in [Thread -> SUBSET Task]
  /\ draining \in BOOLEAN
  /\ calls \in [Task -> Nat]
  /\ result \in [Task -> Terminal \cup {"none"}]
  /\ wasDone \in [Task -> BOOLEAN]
  /\ retries \in [Task -> Nat]
  /\ audited \in [Task -> BOOLEAN]
  /\ crashes \in 0 .. MaxCrashes
  /\ dbErrors \in 0 .. MaxDbErrors

\* The claim query skips rows with cancel_requested set, so a queued row that
\* carries the flag would never be claimed, cancelled or blocked by the worker.
\* No interleaving of cancel, retry, requeue, claim and restart leaves one.
QueuedIsClaimable == \A t \in Task : status[t] = "queued" => ~cancel[t]

\* The provider is called for a require-success task only if a provider call
\* for its predecessor has succeeded, whatever was cancelled, retried or
\* interrupted between the dependency check and the dispatch.
PrerequisiteDone ==
  \A t \in Task :
    calls[t] > 0 /\ row[t].policy = "require-success" /\ Dependency(t) # NoTask
      => Dependency(t) \in Task /\ wasDone[Dependency(t)]

\* Every claim, and so every provider call, is paid for by the enqueue or by
\* one accepted retry: neither restart recovery nor the requeue of blocked
\* descendants nor a lost final update makes the worker repeat a side effect.
NoSilentReplay ==
  \A t \in Task : calls[t] <= attempts[t] /\ attempts[t] <= 1 + retries[t]

\* A row that reports success or failure reports what the last provider call
\* for the task did, also when other threads rewrote the row meanwhile.
OutcomeIsReal ==
  \A t \in Task : status[t] \in {"succeeded", "failed"} => result[t] = status[t]

\* The worker's checkpoints never overwrite the phase of a row that another
\* thread has ended meanwhile.
TerminalPhaseAgrees == \A t \in Task : status[t] \in Terminal => phase[t] = status[t]

\* The row tells what happened: its status is what the last provider call did,
\* and its phase agrees with its status.
OutcomeSafety == OutcomeIsReal /\ TerminalPhaseAgrees

\* What the queue promises whoever cancels, retries, crashes or loses a
\* statement meanwhile: rows keep their form, queued rows can be claimed, and
\* the provider is called neither without a grant nor before its prerequisite.
QueueSafety ==
  /\ TypeOK
  /\ QueuedIsClaimable
  /\ PrerequisiteDone
  /\ NoSilentReplay

\* A session never forks into two chains, and every dependency is an older row
\* of the same chain and session, so waiting is acyclic.
ChainsWellFormed ==
  /\ \A t, u \in Rows : row[t].session = row[u].session => row[t].chain = row[u].chain
  /\ \A t \in Rows : Dependency(t) # NoTask =>
       Dependency(t) \in 1 .. t - 1 /\ SameTarget(row[t], Dependency(t))

\* However often a client repeats a request, one row carries its key.
IdempotentEnqueue ==
  \A t, u \in Rows :
    row[t].key # NoKey /\ row[t].key = row[u].key /\ row[t].kind = row[u].kind => t = u

\* The open-task count is read before the insert and the worker moves rows in
\* between; still no insert takes the queue beyond its capacity.
InsertWithinCapacity ==
  [][count' # count => Cardinality({t \in 1 .. count' : status'[t] \in {"queued", "running"}})
                         <= Capacity]_vars

\* Every queued task ends: it is executed, blocked, cancelled or interrupted.
QueuedResolves == \A t \in Task : status[t] = "queued" ~> status[t] \in Terminal

\* The queue keeps the promise of ProviderGrants.
Grants == INSTANCE ProviderGrants WITH
  Op <- Task,
  granted <- [t \in Task |-> IF t \in Rows THEN 1 + retries[t] ELSE 0],
  needs <- [t \in Task |-> IF t \in Rows /\ row[t].policy = "require-success"
                           THEN Dependency(t) ELSE NoTask],
  made <- calls,
  done <- wasDone

\* Seen from the provider, every behaviour of the queue is one of that promise:
\* calls are granted by an enqueue or a retry, and wait for the prerequisite.
KeepsGrants == Grants!Spec

-----------------------------------------------------------------------------
(* What the documents and comments say, and the code does not always do *)

Quiet == \A th \in Thread : pc[th] = "idle"

\* "its real result remains authoritative ... instead of falsely claiming that
\* a completed camera side effect was cancelled" (worker_loop): once both
\* threads are idle, no row is cancelled whose provider call ran to its end.
CancelledWasNotExecuted ==
  Quiet => \A t \in Task : status[t] = "cancelled" => result[t] \notin {"succeeded", "failed"}

\* "Retrying the failed parent requeues its blocked descendants": once both
\* threads are idle, a blocked task has a predecessor that failed.
BlockedHasFailedPrerequisite ==
  Quiet => \A t \in Rows : status[t] = "blocked" =>
             BrokenDependency(t) \/ status[Dependency(t)] \in FailedStatus

\* "the late cancel intent stays visible and is audited": an executed task that
\* ended with cancel_requested set has its cancel_too_late audit entry.
LateCancelIsAudited ==
  Quiet => \A t \in Task :
             status[t] \in {"succeeded", "failed"} /\ cancel[t] => audited[t]

\* "The queue is bounded by STEEL_PRODUCTION_TASK_QUEUE_CAPACITY".
QueueBounded == Cardinality(Open) <= Capacity

=============================================================================
