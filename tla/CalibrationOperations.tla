----------------------- MODULE CalibrationOperations -----------------------
(***************************************************************************)
(* The ledger of calibration operations (calibration_operations.rs and the *)
(* calibration_operation statements of db/mod.rs).  Every HTTP thread runs *)
(* mutation_response_with_dispatch: look the id up, read the fence, try    *)
(* the lock, look up again and insert, call the capture provider, store    *)
(* the outcome, and for a recovery mark the parent as reconciled.  A       *)
(* restart turns rows that are still dispatching into rows that need       *)
(* reconciliation.                                                         *)
(***************************************************************************)
EXTENDS Naturals, FiniteSets

CONSTANTS
  CalThread,       \* HTTP threads
  OperationId,
  CalRequests,     \* the requests clients may send, with retries and conflicts
  None,            \* no id, no request, no answer, no thread
  MaxCalRestarts, MaxCalDbErrors

\* A request that passes the validation: a rollback names the apply it undoes.
CalibrationRequest ==
  {q \in [id : OperationId, kind : {"apply-all", "rollback"},
          parent : OperationId \cup {None}, apply : OperationId \cup {None}] :
     q.kind = "rollback" => q.apply # None}

ASSUME CalRequestsAssumption == CalRequests \subseteq CalibrationRequest

ASSUME CalNoneAssumption == None \notin CalThread \cup OperationId

\* What provider_terminal_status looks at in an answer of the provider.
Response ==
  [decodable : BOOLEAN, rollbackIncomplete : BOOLEAN, preflight : BOOLEAN,
   complete : BOOLEAN, http : {"ok", "unavailable", "rejected"},
   code : {"zero", "other", "absent"}]

VARIABLES
  ledger,         \* id -> the request it was inserted with, and its status
  calLock,        \* calibration_operation_lock: free, or the thread
  calPc, calReq,  \* where a thread is, and its request
  calExpected,    \* reconciliation_expected_apply_operation_id of a thread
  calls,          \* history: provider calls per id
  ambiguous,      \* history: ids whose effect on the devices is unknown
  evidence,       \* history: <<rollback, the apply its answer names, the apply
                  \* expected when it read the fence>>, None for a missing one
  calRestarts, calDbErrors

calVars == <<ledger, calLock, calPc, calReq, calExpected, calls, ambiguous,
             evidence, calRestarts, calDbErrors>>

Absent == "absent"
Inserted(id) == ledger[id].status # Absent
Unresolved == {id \in OperationId : ledger[id].status \in {"dispatching", "needs-reconciliation"}}

CalInit ==
  /\ ledger = [id \in OperationId |-> [req |-> None, status |-> Absent]]
  /\ calLock = None
  /\ calPc = [t \in CalThread |-> "idle"]
  /\ calReq = [t \in CalThread |-> None]
  /\ calExpected = [t \in CalThread |-> None]
  /\ calls = [id \in OperationId |-> 0]
  /\ ambiguous = {}
  /\ evidence = {}
  /\ calRestarts = 0
  /\ calDbErrors = 0

-----------------------------------------------------------------------------
(* The statements on the ledger: insert refuses an id it knows, the outcome  *)
(* is stored only in a row that is still dispatching.                        *)

InsertRow(q) ==
  /\ ~Inserted(q.id)
  /\ ledger' = [ledger EXCEPT ![q.id] = [req |-> q, status |-> "dispatching"]]

FinishRow(id, status) ==
  ledger' = [ledger EXCEPT ![id].status = IF @ = "dispatching" THEN status ELSE @]

ExpectedApply(id) ==
  IF ledger[id].req.kind = "apply-all" THEN id ELSE ledger[id].req.apply

ProviderTerminalStatus(kind, r) ==
  IF r = None THEN "needs-reconciliation"
  ELSE IF ~r.decodable THEN "needs-reconciliation"
  ELSE IF kind = "apply-all" /\ r.rollbackIncomplete THEN "needs-reconciliation"
  ELSE IF kind = "rollback" /\ r.preflight THEN "failed"
  ELSE IF kind = "rollback" /\ ~r.complete THEN "needs-reconciliation"
  ELSE IF r.http = "unavailable" THEN "needs-reconciliation"
  ELSE IF r.http = "rejected" THEN "failed"
  ELSE IF r.code = "absent" THEN "needs-reconciliation"
  ELSE IF r.code = "zero" THEN "succeeded"
  ELSE "failed"

Answered(t) ==
  /\ calPc' = [calPc EXCEPT ![t] = "idle"]
  /\ calReq' = [calReq EXCEPT ![t] = None]
  /\ calExpected' = [calExpected EXCEPT ![t] = None]

\* A known id is answered from its row: the stored result, or a conflict when
\* kind or body differ.  Only an unknown id goes on.
CalLookup(t) ==
  /\ calPc[t] = "idle"
  /\ \E q \in CalRequests :
       /\ ~Inserted(q.id)
       /\ calReq' = [calReq EXCEPT ![t] = q]
  /\ calPc' = [calPc EXCEPT ![t] = "fence"]
  /\ UNCHANGED <<ledger, calLock, calExpected, calls, ambiguous, evidence,
                 calRestarts, calDbErrors>>

RecoversParent(q) ==
  /\ q.kind = "rollback" /\ q.parent # None
  /\ Unresolved = {q.parent}
  /\ ledger[q.parent].status = "needs-reconciliation"
  /\ q.apply = ExpectedApply(q.parent)

FencePasses(q) == Unresolved = {} \/ RecoversParent(q)

CalFence(t) ==
  /\ calPc[t] = "fence"
  /\ IF FencePasses(calReq[t])
     THEN /\ calPc' = [calPc EXCEPT ![t] = "lock"]
          /\ calExpected' = [calExpected EXCEPT ![t] =
               IF Unresolved = {} THEN None ELSE ExpectedApply(calReq[t].parent)]
          /\ UNCHANGED calReq
     ELSE Answered(t)
  /\ UNCHANGED <<ledger, calLock, calls, ambiguous, evidence, calRestarts, calDbErrors>>

\* try_lock: a second operation is answered at once instead of waiting.
CalTryLock(t) ==
  /\ calPc[t] = "lock"
  /\ IF calLock = None
     THEN /\ calLock' = t
          /\ calPc' = [calPc EXCEPT ![t] = "insert"]
          /\ UNCHANGED <<calReq, calExpected>>
     ELSE Answered(t) /\ UNCHANGED calLock
  /\ UNCHANGED <<ledger, calls, ambiguous, evidence, calRestarts, calDbErrors>>

\* The second lookup and the insert: only the holder of the lock inserts.
CalInsert(t) ==
  /\ calPc[t] = "insert"
  /\ LET q == calReq[t] IN
     IF Inserted(q.id)
     THEN Answered(t) /\ calLock' = None /\ UNCHANGED <<ledger, calDbErrors>>
     ELSE \/ /\ InsertRow(q)
             /\ calPc' = [calPc EXCEPT ![t] = "dispatch"]
             /\ UNCHANGED <<calLock, calReq, calExpected, calDbErrors>>
          \/ /\ calDbErrors < MaxCalDbErrors
             /\ calDbErrors' = calDbErrors + 1
             /\ Answered(t)
             /\ calLock' = None
             /\ UNCHANGED ledger
  /\ UNCHANGED <<calls, ambiguous, evidence, calRestarts>>

CalDispatch(t) ==
  /\ calPc[t] = "dispatch"
  /\ calls' = [calls EXCEPT ![calReq[t].id] = @ + 1]
  /\ calPc' = [calPc EXCEPT ![t] = "called"]
  /\ UNCHANGED <<ledger, calLock, calReq, calExpected, ambiguous, evidence,
                 calRestarts, calDbErrors>>

\* The contract of the provider: an answer that leaves open what the devices
\* hold now.  A rollback that reports no attempt and no side effects is decisive.
Undecided(r) == r.http = "unavailable" \/ (r.http = "ok" /\ r.code = "absent")

Ambiguous(kind, r) ==
  \/ r = None
  \/ /\ r # None
     /\ \/ ~r.decodable
        \/ kind = "apply-all" /\ (r.rollbackIncomplete \/ Undecided(r))
        \/ kind = "rollback" /\ ~r.preflight /\ (~r.complete \/ Undecided(r))

Outcomes(kind) ==
  {<<ProviderTerminalStatus(kind, r), Ambiguous(kind, r)>> : r \in Response \cup {None}}

\* The rollback is taken at its word.
EchoMatchesAny(t, echo) == echo # None

\* The apply the answer names is the one expected when the fence was read.  Both
\* are the empty string when the fence was open and the answer names none.
EchoMatches(t, echo) == echo = calExpected[t]

\* The provider answers or times out, and the outcome is stored in a row that
\* is still dispatching.  A successful recovery whose answer names the expected
\* apply goes on to its parent.
CalFinish(t) ==
  LET q == calReq[t] IN
  /\ calPc[t] = "called"
  /\ \E o \in Outcomes(q.kind) :
       LET undone == o[1] = "succeeded" /\ q.kind = "rollback" IN
       /\ FinishRow(q.id, o[1])
       /\ ambiguous' = IF o[2] THEN ambiguous \cup {q.id} ELSE ambiguous
       /\ \E echo \in IF undone THEN OperationId \cup {None} ELSE {None} :
            /\ evidence' = IF undone THEN evidence \cup {<<q.id, echo, calExpected[t]>>}
                                     ELSE evidence
            /\ IF undone /\ q.parent # None /\ EchoMatches(t, echo)
               THEN /\ calPc' = [calPc EXCEPT ![t] = "reconcile"]
                    /\ UNCHANGED <<calReq, calExpected, calLock>>
               ELSE Answered(t) /\ calLock' = None
  /\ UNCHANGED <<calls, calRestarts, calDbErrors>>

\* The outcome cannot be stored: the row stays dispatching until a restart.
CalFinishFails(t) ==
  /\ calPc[t] = "called"
  /\ calDbErrors < MaxCalDbErrors
  /\ calDbErrors' = calDbErrors + 1
  /\ ambiguous' = ambiguous \cup {calReq[t].id}
  /\ Answered(t)
  /\ calLock' = None
  /\ UNCHANGED <<ledger, calls, evidence, calRestarts>>

ReconcileParent(t) ==
  LET p == calReq[t].parent IN
  IF ledger[p].status = "needs-reconciliation"
  THEN ledger' = [ledger EXCEPT ![p].status = "reconciled"]
  ELSE UNCHANGED ledger

CalReconcile(t) ==
  /\ calPc[t] = "reconcile"
  /\ \/ ReconcileParent(t) /\ UNCHANGED calDbErrors
     \/ /\ calDbErrors < MaxCalDbErrors
        /\ calDbErrors' = calDbErrors + 1
        /\ UNCHANGED ledger
  /\ Answered(t)
  /\ calLock' = None
  /\ UNCHANGED <<calls, ambiguous, evidence, calRestarts>>

\* The process dies and recover_dispatching_calibration_operations runs before
\* the new one serves requests.
RecoverDispatching ==
  ledger' = [id \in OperationId |->
    IF ledger[id].status = "dispatching"
    THEN [ledger[id] EXCEPT !.status = "needs-reconciliation"]
    ELSE ledger[id]]

CalRestart ==
  /\ calRestarts < MaxCalRestarts
  /\ calRestarts' = calRestarts + 1
  /\ ambiguous' = ambiguous \cup {calReq[t].id : t \in {u \in CalThread : calPc[u] = "called"}}
  /\ RecoverDispatching
  /\ calLock' = None
  /\ calPc' = [t \in CalThread |-> "idle"]
  /\ calReq' = [t \in CalThread |-> None]
  /\ calExpected' = [t \in CalThread |-> None]
  /\ UNCHANGED <<calls, evidence, calDbErrors>>

CalThreadStep(t) ==
  \/ CalFence(t) \/ CalTryLock(t) \/ CalInsert(t)
  \/ CalDispatch(t) \/ CalFinish(t) \/ CalFinishFails(t) \/ CalReconcile(t)

CalNext == (\E t \in CalThread : CalLookup(t) \/ CalThreadStep(t)) \/ CalRestart

CalSpec == CalInit /\ [][CalNext]_calVars

-----------------------------------------------------------------------------
CalTypeOK ==
  /\ ledger \in [OperationId -> [req : CalRequests \cup {None},
                   status : {Absent, "dispatching", "succeeded", "failed",
                             "needs-reconciliation", "reconciled"}]]
  /\ calLock \in CalThread \cup {None}
  /\ calPc \in [CalThread -> {"idle", "fence", "lock", "insert", "dispatch", "called", "reconcile"}]
  /\ calReq \in [CalThread -> CalRequests \cup {None}]
  /\ calExpected \in [CalThread -> OperationId \cup {None}]
  /\ calls \in [OperationId -> Nat]
  /\ ambiguous \subseteq OperationId
  /\ evidence \subseteq OperationId \X (OperationId \cup {None}) \X (OperationId \cup {None})
  /\ calRestarts \in Nat /\ calDbErrors \in Nat

\* An operation id reaches the provider at most once, however often it is sent,
\* by how many threads, and whatever restart or failing statement comes between.
DispatchAtMostOnce == \A id \in OperationId : calls[id] <= 1

\* An operation whose effect on the devices is not known keeps the fence closed
\* or was reconciled; it never counts as succeeded or failed.
AmbiguousStaysFenced ==
  \A id \in ambiguous :
    ledger[id].status \in {"dispatching", "needs-reconciliation", "reconciled"}

\* A row becomes reconciled only by a rollback that succeeded, is bound to it as
\* parent, and whose answer names the apply the row is about.  The one exception
\* is a rollback that read the fence before this row closed it, so that it
\* expects nothing, and whose answer names nothing: the comparison of the two
\* empty ids passes.  An answer that names another apply reconciles nothing.
ReconciledByEvidence ==
  \A id \in OperationId :
    ledger[id].status = "reconciled" =>
      \E r \in OperationId :
        /\ Inserted(r) /\ ledger[r].status = "succeeded"
        /\ ledger[r].req.parent = id
        /\ \E apply \in {ExpectedApply(id), None} : <<r, apply, apply>> \in evidence

\* What the ledger promises about the devices: each operation reaches them at
\* most once, an unknown effect stays fenced, and the fence opens on evidence.
CalibrationSafety ==
  /\ CalTypeOK
  /\ DispatchAtMostOnce
  /\ AmbiguousStaysFenced
  /\ ReconciledByEvidence

\* While a fence is closed by finished calls there is a request that opens it:
\* the parent-bound rollback.
ClosureExists ==
  LET open == Unresolved IN
  open # {} /\ (\A id \in open : ledger[id].status = "needs-reconciliation")
    => \E p \in open : open = {p}

=============================================================================
