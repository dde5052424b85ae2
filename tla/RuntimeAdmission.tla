-------------------------- MODULE RuntimeAdmission --------------------------
(***************************************************************************)
(* Admission of HTTP requests to the inspection service, the production    *)
(* command lane (production_command_lock) and the two operations that      *)
(* close admission: the drain request of the host supervisor and the       *)
(* change of acquisition mode (app/service/src/main.rs).                   *)
(*                                                                         *)
(* Every request runs handle_client on its own thread, once; the task      *)
(* worker is one more thread.  A step is one critical section of           *)
(* runtime_admission or of the worker's status, one acquisition or release *)
(* of the lane, or one statement on the task table; the check of a new     *)
(* task reads admission and the size of the queue in one step.  Of the     *)
(* table only the number of queued and of running rows is kept             *)
(* (ProductionTasks has the rows).  Request authentication and poisoned    *)
(* locks are left out.                                                     *)
(***************************************************************************)
EXTENDS Naturals, FiniteSets

CONSTANTS
  Request,   \* the HTTP requests of one life of the service
  Worker,    \* the task worker's thread
  NoOne,     \* holder of a free lane
  Capacity,  \* queue_capacity()
  Routes     \* the kinds of request that arrive

\* What handle_client and the handlers tell apart:
\*   produce     production mutation that starts work (steel-in, capture, ...)
\*   complete    production mutation that completes work (steel-out, commits)
\*   submit      enqueues a task; submit-out enqueues a steel-out task
\*   retry       requeues an ended task; cancel cancels a queued or running one
\*   transition  saves a runtime profile with another acquisition mode
\*   drain       POST /api/runtime/drain
\*   read        GET that takes the lane for a consistent snapshot
Route == {"produce", "complete", "submit", "submit-out", "retry", "cancel",
          "transition", "drain", "read"}

ASSUME AdmissionAssumption ==
  /\ IsFiniteSet(Request)
  /\ Worker # NoOne /\ Worker \notin Request /\ NoOne \notin Request
  /\ Capacity \in Nat \ {0}
  /\ Routes \subseteq Route

VARIABLES
  accepting,   \* runtime_admission.accepting
  completion,  \* runtime_admission.completion_accepting
  inFlight,    \* runtime_admission.in_flight
  lane,        \* holder of production_command_lock
  queued,      \* task rows with status queued
  running,     \* task rows with status running
  cancelled,   \* the worker's task has cancel_requested
  busy,        \* worker status: current_task_id is not empty
  worker,      \* where the worker's loop is
  route,       \* per request: what it asks for
  pc,          \* per request: what it does next
  clear,       \* transition: every value read in this pass allows the change
  expired,     \* transition: the deadline of the wait has passed
  drainAsked,  \* history: a drain has closed admission
  committed    \* history: a change of mode has been published

gate == <<accepting, completion, inFlight>>
tasks == <<queued, running, cancelled>>
loop == <<busy, worker>>
wait == <<clear, expired>>
history == <<drainAsked, committed>>
vars == <<accepting, completion, inFlight, lane, queued, running, cancelled,
          busy, worker, route, pc, clear, expired, drainAsked, committed>>

Init ==
  /\ accepting = TRUE
  /\ completion = TRUE
  /\ inFlight = 0
  /\ lane = NoOne
  /\ queued \in 0 .. 1
  /\ running = 0
  /\ cancelled = FALSE
  /\ busy = FALSE
  /\ worker = "top"
  /\ route \in [Request -> Routes]
  /\ pc = [r \in Request |-> "new"]
  /\ clear = FALSE
  /\ expired = FALSE
  /\ drainAsked = FALSE
  /\ committed = FALSE

Goto(r, label) == pc' = [pc EXCEPT ![r] = label]

At(r, label) == pc[r] = label

-----------------------------------------------------------------------------
(* handle_client: admission, the lane and their guards *)

Completion == {"complete", "submit-out", "cancel"}

LaneRoute == {"produce", "complete", "read"}

\* GET requests and the drain itself pass without being counted.
Uncounted == {"drain", "read"}

Admitted(r) == accepting \/ (completion /\ route[r] \in Completion)

Admits(r) == route[r] \in Uncounted \/ Admitted(r)

\* enter_runtime_admission tests and counts in one critical section.
Enter(r) ==
  /\ At(r, "new")
  /\ route[r] # "drain"
  /\ Admits(r)
  /\ inFlight' = IF route[r] \in Uncounted THEN inFlight ELSE inFlight + 1
  /\ Goto(r, "admitted")
  /\ UNCHANGED <<accepting, completion, lane, tasks, loop, route, wait, history>>

Reject(r) ==
  /\ At(r, "new")
  /\ route[r] # "drain"
  /\ ~Admits(r)
  /\ Goto(r, "done")
  /\ UNCHANGED <<gate, lane, tasks, loop, route, wait, history>>

\* A handler answers early: a fence, a validation or a conflict.
Refuse(r) ==
  /\ At(r, "admitted")
  /\ route[r] # "transition"
  /\ Goto(r, "leaving")
  /\ UNCHANGED <<gate, lane, tasks, loop, route, wait, history>>

TakeLane(r) ==
  /\ At(r, "admitted")
  /\ route[r] \in LaneRoute
  /\ lane = NoOne
  /\ lane' = r
  /\ Goto(r, "lane")
  /\ UNCHANGED <<gate, tasks, loop, route, wait, history>>

\* The lane's guard is dropped before the admission guard.
ReleaseLane(r) ==
  /\ pc[r] \in {"lane", "returning"}
  /\ lane' = NoOne
  /\ Goto(r, "leaving")
  /\ UNCHANGED <<gate, tasks, loop, route, wait, history>>

Leave(r) ==
  /\ At(r, "leaving")
  /\ inFlight' = IF route[r] \in Uncounted \/ inFlight = 0
                   THEN inFlight ELSE inFlight - 1
  /\ Goto(r, "done")
  /\ UNCHANGED <<accepting, completion, lane, tasks, loop, route, wait, history>>

-----------------------------------------------------------------------------
(* Handlers that change the task table *)

\* enqueue_response reads runtime_is_draining and the queue's size, ...
SubmitCheck(r) ==
  /\ At(r, "admitted")
  /\ \/ route[r] = "submit-out"
     \/ route[r] = "submit" /\ accepting
  /\ queued + running < Capacity
  /\ Goto(r, "inserting")
  /\ UNCHANGED <<gate, lane, tasks, loop, route, wait, history>>

\* ... and inserts later.
SubmitInsert(r) ==
  /\ At(r, "inserting")
  /\ queued' = queued + 1
  /\ Goto(r, "leaving")
  /\ UNCHANGED <<gate, lane, running, cancelled, loop, route, wait, history>>

\* retry_response reads neither.
Retry(r) ==
  /\ At(r, "admitted")
  /\ route[r] = "retry"
  /\ queued' = queued + 1
  /\ Goto(r, "leaving")
  /\ UNCHANGED <<gate, lane, running, cancelled, loop, route, wait, history>>

\* A queued task ends at once; a running one, the worker's or one a failed
\* statement left behind, is asked to.
Cancel(r) ==
  /\ At(r, "admitted")
  /\ route[r] = "cancel"
  /\ \/ /\ queued > 0
        /\ queued' = queued - 1
        /\ UNCHANGED cancelled
     \/ /\ running > 0
        /\ cancelled' \in {cancelled, TRUE}
        /\ UNCHANGED queued
  /\ Goto(r, "leaving")
  /\ UNCHANGED <<gate, lane, running, loop, route, wait, history>>

-----------------------------------------------------------------------------
(* The worker's loop *)

WorkerTop ==
  /\ worker = "top"
  /\ busy' = FALSE
  /\ worker' = "claim"
  /\ UNCHANGED <<gate, lane, tasks, route, pc, wait, history>>

WorkerClaim ==
  /\ worker = "claim"
  /\ IF queued > 0
       THEN /\ queued' = queued - 1
            /\ running' = running + 1
            /\ cancelled' = FALSE
            /\ worker' = "claimed"
       ELSE /\ worker' = "top"
            /\ UNCHANGED tasks
  /\ UNCHANGED <<gate, lane, busy, route, pc, wait, history>>

WorkerAnnounce ==
  /\ worker = "claimed"
  /\ busy' = TRUE
  /\ worker' = "waiting"
  /\ UNCHANGED <<gate, lane, tasks, route, pc, wait, history>>

\* The cancellation is read before the lane and again while holding it.  Here
\* and in WorkerFinish the last statement may fail and leave the row running.
WorkerDrop ==
  /\ worker = "waiting"
  /\ cancelled
  /\ running' \in {running, running - 1}
  /\ worker' = "top"
  /\ UNCHANGED <<gate, lane, queued, cancelled, busy, route, pc, wait, history>>

WorkerTakeLane ==
  /\ worker = "waiting"
  /\ lane = NoOne
  /\ lane' = Worker
  /\ worker' = "lane"
  /\ UNCHANGED <<gate, tasks, busy, route, pc, wait, history>>

WorkerReleaseLane ==
  /\ worker = "lane"
  /\ lane' = NoOne
  /\ worker' = "finalize"
  /\ UNCHANGED <<gate, tasks, busy, route, pc, wait, history>>

WorkerFinish ==
  /\ worker = "finalize"
  /\ running' \in {running, running - 1}
  /\ worker' = "top"
  /\ UNCHANGED <<gate, lane, queued, cancelled, busy, route, pc, wait, history>>

-----------------------------------------------------------------------------
(* runtime_drain_response *)

DrainClose(r) ==
  /\ At(r, "new")
  /\ route[r] = "drain"
  /\ accepting' = FALSE
  /\ drainAsked' = TRUE
  /\ Goto(r, "barrier")
  /\ UNCHANGED <<completion, inFlight, lane, tasks, loop, route, wait, committed>>

\* The lane is taken and dropped around the reading of the status.
DrainAnswer(r) ==
  /\ At(r, "barrier")
  /\ lane = NoOne
  /\ Goto(r, "done")
  /\ UNCHANGED <<gate, lane, tasks, loop, route, wait, history>>

-----------------------------------------------------------------------------
(* save_admin_runtime_profile_response for a change of mode *)

Reopen ==
  /\ accepting' = TRUE
  /\ completion' = TRUE

TransitionClose(r) ==
  /\ At(r, "admitted")
  /\ route[r] = "transition"
  /\ accepting
  /\ accepting' = FALSE
  /\ completion' = TRUE
  /\ Goto(r, "closed")
  /\ UNCHANGED <<inFlight, lane, tasks, loop, route, wait, history>>

\* Another drain or change of mode is active, or the candidate is invalid.
TransitionConflict(r) ==
  /\ At(r, "admitted")
  /\ route[r] = "transition"
  /\ Goto(r, "leaving")
  /\ UNCHANGED <<gate, lane, tasks, loop, route, wait, history>>

\* The fence is published and capture stops: the wait begins.
TransitionFence(r) ==
  /\ At(r, "closed")
  /\ expired' = FALSE
  /\ clear' = TRUE
  /\ Goto(r, "count")
  /\ UNCHANGED <<gate, lane, tasks, loop, route, history>>

\* The fence or capture fails, or the wait was given up.
TransitionRollback(r) ==
  /\ pc[r] \in {"closed", "rollback"}
  /\ Reopen
  /\ Goto(r, "leaving")
  /\ UNCHANGED <<inFlight, lane, tasks, loop, route, wait, history>>

\* Three readings, each on its own: open tasks, the worker, admission.
TransitionCount(r) ==
  /\ At(r, "count")
  /\ clear' = (queued + running = 0)
  /\ Goto(r, "status")
  /\ UNCHANGED <<gate, lane, tasks, loop, route, expired, history>>

TransitionStatus(r) ==
  /\ At(r, "status")
  /\ clear' = (clear /\ ~busy)
  /\ Goto(r, "flights")
  /\ UNCHANGED <<gate, lane, tasks, loop, route, expired, history>>

\* The transition is itself one request in flight.
TransitionFlights(r) ==
  /\ At(r, "flights")
  /\ Goto(r, IF clear /\ inFlight <= 1 THEN "try" ELSE "sleep")
  /\ UNCHANGED <<gate, lane, tasks, loop, route, wait, history>>

TransitionTryLane(r) ==
  /\ At(r, "try")
  /\ lane' = IF lane = NoOne THEN r ELSE lane
  /\ Goto(r, IF lane = NoOne THEN "recount" ELSE "sleep")
  /\ UNCHANGED <<gate, tasks, loop, route, wait, history>>

\* The same readings again, now holding the lane.
TransitionRecount(r) ==
  /\ At(r, "recount")
  /\ clear' = (queued + running = 0)
  /\ Goto(r, "restatus")
  /\ UNCHANGED <<gate, lane, tasks, loop, route, expired, history>>

TransitionRestatus(r) ==
  /\ At(r, "restatus")
  /\ clear' = (clear /\ ~busy)
  /\ Goto(r, "seal")
  /\ UNCHANGED <<gate, lane, tasks, loop, route, expired, history>>

\* Fault: requests still in flight do not keep the change of mode waiting.
TransitionSealLoose(r) ==
  /\ At(r, "seal")
  /\ IF clear
       THEN /\ completion' = FALSE
            /\ Goto(r, "committing")
            /\ UNCHANGED lane
       ELSE /\ completion' = TRUE
            /\ lane' = NoOne
            /\ Goto(r, "sleep")
  /\ UNCHANGED <<accepting, inFlight, tasks, loop, route, wait, history>>

\* One critical section closes completions and reads in_flight; when the pass
\* fails it opens them again.
TransitionSeal(r) ==
  /\ At(r, "seal")
  /\ IF clear /\ inFlight <= 1
       THEN /\ completion' = FALSE
            /\ Goto(r, "committing")
            /\ UNCHANGED lane
       ELSE /\ completion' = TRUE
            /\ lane' = NoOne
            /\ Goto(r, "sleep")
  /\ UNCHANGED <<accepting, inFlight, tasks, loop, route, wait, history>>

\* A statement on the task table fails: the wait ends, dropping the lane.
TransitionQueryFails(r) ==
  /\ pc[r] \in {"count", "recount"}
  /\ lane' = IF lane = r THEN NoOne ELSE lane
  /\ Goto(r, "rollback")
  /\ UNCHANGED <<gate, tasks, loop, route, wait, history>>

\* Fault: the wait goes on for ever.
TransitionSleepForever(r) ==
  /\ At(r, "sleep")
  /\ Goto(r, "count")
  /\ UNCHANGED <<gate, lane, tasks, loop, route, wait, history>>

TransitionSleep(r) ==
  /\ At(r, "sleep")
  /\ Goto(r, IF expired THEN "rollback" ELSE "count")
  /\ UNCHANGED <<gate, lane, tasks, loop, route, wait, history>>

Waiting == {"count", "status", "flights", "try", "recount", "restatus", "seal", "sleep"}

Deadline ==
  /\ ~expired
  /\ \E r \in Request : pc[r] \in Waiting
  /\ expired' = TRUE
  /\ UNCHANGED <<gate, lane, tasks, loop, route, pc, clear, history>>

\* The profile, its revision and the commit marker are written, or enough of
\* them for the recovery to finish the change: admission stays closed.
TransitionCommit(r) ==
  /\ At(r, "committing")
  /\ committed' = TRUE
  /\ Goto(r, "returning")
  /\ UNCHANGED <<gate, lane, tasks, loop, route, wait, drainAsked>>

\* A write fails early enough to undo the change.
TransitionUndo(r) ==
  /\ At(r, "committing")
  /\ Reopen
  /\ Goto(r, "returning")
  /\ UNCHANGED <<inFlight, lane, tasks, loop, route, wait, history>>

-----------------------------------------------------------------------------

Handle(r) ==
  \/ Enter(r) \/ Reject(r) \/ Refuse(r) \/ TakeLane(r) \/ ReleaseLane(r) \/ Leave(r)
  \/ SubmitCheck(r) \/ SubmitInsert(r) \/ Retry(r) \/ Cancel(r)
  \/ DrainClose(r) \/ DrainAnswer(r)
  \/ TransitionClose(r) \/ TransitionConflict(r) \/ TransitionFence(r)
  \/ TransitionRollback(r) \/ TransitionCount(r) \/ TransitionStatus(r)
  \/ TransitionFlights(r) \/ TransitionTryLane(r) \/ TransitionRecount(r)
  \/ TransitionRestatus(r) \/ TransitionSeal(r) \/ TransitionQueryFails(r)
  \/ TransitionSleep(r) \/ TransitionCommit(r) \/ TransitionUndo(r)

WorkerStep ==
  \/ WorkerTop \/ WorkerClaim \/ WorkerAnnounce \/ WorkerDrop
  \/ WorkerTakeLane \/ WorkerReleaseLane \/ WorkerFinish

Next == Deadline \/ WorkerStep \/ \E r \in Request : Handle(r)

Spec == Init /\ [][Next]_vars

\* A thread that can run does run, and the deadline of a wait passes.  The
\* lane is a mutex without a queue: only weak fairness is assumed of those who
\* wait for it.
Fairness ==
  /\ \A r \in Request : WF_vars(Handle(r))
  /\ WF_vars(WorkerStep)
  /\ WF_vars(Deadline)

FairSpec == Spec /\ Fairness

-----------------------------------------------------------------------------
(* Properties *)

Label == Waiting \cup
         {"new", "admitted", "inserting", "lane", "leaving", "done", "barrier",
          "closed", "rollback", "committing", "returning"}

TypeOK ==
  /\ accepting \in BOOLEAN
  /\ completion \in BOOLEAN
  /\ inFlight \in Nat
  /\ lane \in Request \cup {Worker, NoOne}
  /\ queued \in Nat
  /\ running \in Nat
  /\ cancelled \in BOOLEAN
  /\ busy \in BOOLEAN
  /\ worker \in {"top", "claim", "claimed", "waiting", "lane", "finalize"}
  /\ route \in [Request -> Route]
  /\ pc \in [Request -> Label]
  /\ clear \in BOOLEAN
  /\ expired \in BOOLEAN
  /\ drainAsked \in BOOLEAN
  /\ committed \in BOOLEAN

\* The requests that hold a RuntimeAdmissionGuard.
Inside == {r \in Request : route[r] \notin Uncounted /\ pc[r] \notin {"new", "done"}}

\* in_flight is exactly the number of mutations inside the service, whatever
\* path each of them leaves by: the host supervisor and the change of mode
\* trust the value zero (one) to mean that nothing (nothing else) is going on.
InFlightIsExact == inFlight = Cardinality(Inside)

HoldsLane(r) == pc[r] \in {"lane", "recount", "restatus", "seal", "committing", "returning"}

\* At most one of all the threads is between taking and releasing the
\* production command lane: no two provider calls overlap, and none overlaps
\* the publication of another mode.
LaneIsExclusive ==
  /\ \A r, s \in Request : HoldsLane(r) /\ HoldsLane(s) => r = s
  /\ \A r \in Request : HoldsLane(r) => worker # "lane"

\* While another acquisition mode is being published no other mutation is
\* inside the service and none can enter, completions included.
CommitIsQuiet ==
  \A r \in Request : At(r, "committing") =>
    /\ ~accepting /\ ~completion
    /\ lane = r
    /\ Inside = {r}

\* A published change of mode keeps the service closed until it is restarted:
\* no late rollback of another change, no failed pass of a wait reopens it.
CommittedStaysClosed == committed => ~accepting /\ ~completion

\* What admission promises to the supervisor, to the provider and to a change
\* of mode: an exact count, one holder of the lane, and a publication that is
\* quiet and final.
AdmissionSafety ==
  /\ TypeOK
  /\ InFlightIsExact
  /\ LaneIsExclusive
  /\ CommitIsQuiet
  /\ CommittedStaysClosed

\* Every request that got past its first step is answered, a drain behind a
\* long call and a change of mode whose work never ends included.
Answered == \A r \in Request : ~At(r, "new") ~> At(r, "done")

\* Once a drain has closed admission it stays closed to new work.
DrainHolds == drainAsked => ~accepting

\* The wait of a change of mode returns only when no task is open.
CommitSeesNoTask ==
  \A r \in Request : At(r, "committing") => queued + running = 0

=============================================================================
