-------------------------- MODULE AdmissionProofs ---------------------------
(***************************************************************************)
(* Proofs about the two places that admit work and count what they have    *)
(* admitted: the requests of the inspection service and the triggers of    *)
(* the gateway.                                                            *)
(***************************************************************************)
EXTENDS RuntimeAdmission, TriggerGateway, FiniteSetTheorems, TLAPS

-----------------------------------------------------------------------------
(***************************************************************************)
(* RuntimeAdmission, for any finite set of requests, any routes and any    *)
(* capacity of the queue.                                                  *)
(***************************************************************************)

-----------------------------------------------------------------------------
(* Inductive invariants *)

\* A worker that has claimed a task is one of the running rows.
RunningInv == worker \in {"claimed", "waiting", "lane", "finalize"} => running > 0

TypeInv == TypeOK /\ RunningInv

\* The thread that is between taking and releasing the lane is its holder.
LaneInv ==
  /\ \A r \in Request : HoldsLane(r) <=> lane = r
  /\ worker = "lane" <=> lane = Worker

\* Request r has closed admission for a change of mode.
Changing(r) == pc[r] \in Waiting \cup {"closed", "rollback", "committing"}

\* Labels of a change of mode belong to counted requests, the barrier to drains.
RouteInv ==
  \A r \in Request :
    /\ Changing(r) \/ At(r, "returning") => route[r] = "transition"
    /\ At(r, "barrier") => route[r] = "drain"

\* One change of mode at a time, behind a closed admission.
ChangeInv ==
  /\ \A r \in Request : Changing(r) => ~accepting
  /\ \A r, s \in Request : Changing(r) /\ Changing(s) => r = s

\* Publication is alone in the service, and nothing is left to reopen it.
CommitInv ==
  /\ \A r \in Request : At(r, "committing") => ~completion /\ Inside = {r}
  /\ committed =>
       /\ ~accepting /\ ~completion
       /\ \A r \in Inside : pc[r] \in {"returning", "leaving"}

-----------------------------------------------------------------------------
(* Types *)

\* The service starts with well-typed state.
LEMMA InitTypes == Init => TypeInv
<1> SUFFICES ASSUME Init PROVE TypeInv
  BY Zenon
<1>1. route \in [Request -> Route]
  <2>1. Routes \subseteq Route
    BY Zenon, AdmissionAssumption
  <2> QED
    BY Zenon, <2>1 DEF Init
<1>2. pc \in [Request -> Label]
  BY Zenon DEF Init, Label
<1>3. queued \in Nat
  BY DEF Init
<1> QED
  BY Zenon, <1>1, <1>2, <1>3 DEF Init, TypeInv, TypeOK, RunningInv

\* Every step keeps the types and never ends a task that is not running.
LEMMA TypesStep == ASSUME TypeInv, [Next]_vars PROVE TypeInv'
<1>q. /\ queued \in Nat /\ running \in Nat /\ inFlight \in Nat
      /\ queued + 1 \in Nat /\ running + 1 \in Nat /\ running + 1 > 0
      /\ queued > 0 => queued - 1 \in Nat
      /\ running > 0 => running - 1 \in Nat
      /\ inFlight # 0 => inFlight - 1 \in Nat
  BY DEF TypeInv, TypeOK
<1> USE <1>q DEF gate, tasks, loop, wait, history, TypeInv, TypeOK, RunningInv,
     Label, Waiting, At, Goto
<1>1. CASE UNCHANGED vars
  BY <1>1 DEF vars
<1>2. CASE Deadline
  BY <1>2 DEF Deadline
<1>3. CASE WorkerTop
  BY Zenon, <1>3 DEF WorkerTop
<1>4. CASE WorkerClaim
  <2>1. CASE queued > 0
    BY Zenon, <1>4, <2>1 DEF WorkerClaim
  <2>2. CASE ~(queued > 0)
    BY <1>4, <2>2 DEF WorkerClaim
  <2> QED
    BY Zenon, <1>4, <2>1, <2>2 DEF WorkerClaim
<1>5. CASE WorkerAnnounce
  BY <1>5 DEF WorkerAnnounce
<1>6. CASE WorkerDrop
  BY <1>6 DEF WorkerDrop
<1>7. CASE WorkerTakeLane
  BY <1>7 DEF WorkerTakeLane
<1>8. CASE WorkerReleaseLane
  BY <1>8 DEF WorkerReleaseLane
<1>9. CASE WorkerFinish
  BY <1>9 DEF WorkerFinish
<1>10. ASSUME NEW r \in Request, Enter(r) PROVE TypeInv'
  BY <1>10 DEF Enter
<1>11. ASSUME NEW r \in Request, Reject(r) PROVE TypeInv'
  BY <1>11 DEF Reject
<1>12. ASSUME NEW r \in Request, Refuse(r) PROVE TypeInv'
  BY <1>12 DEF Refuse
<1>13. ASSUME NEW r \in Request, TakeLane(r) PROVE TypeInv'
  BY <1>13 DEF TakeLane
<1>14. ASSUME NEW r \in Request, ReleaseLane(r) PROVE TypeInv'
  BY <1>14 DEF ReleaseLane
<1>15. ASSUME NEW r \in Request, Leave(r) PROVE TypeInv'
  BY <1>15 DEF Leave
<1>16. ASSUME NEW r \in Request, SubmitCheck(r) PROVE TypeInv'
  BY <1>16 DEF SubmitCheck
<1>17. ASSUME NEW r \in Request, SubmitInsert(r) PROVE TypeInv'
  BY <1>17 DEF SubmitInsert
<1>18. ASSUME NEW r \in Request, Retry(r) PROVE TypeInv'
  BY <1>18 DEF Retry
<1>19. ASSUME NEW r \in Request, Cancel(r) PROVE TypeInv'
  <2>1. pc' \in [Request -> Label]
    BY Zenon, <1>19 DEF Cancel
  <2>2. queued' \in Nat
    BY Zenon, <1>19 DEF Cancel
  <2>3. cancelled' \in BOOLEAN
    BY Zenon, <1>19 DEF Cancel
  <2>4. UNCHANGED <<accepting, completion, inFlight, lane, running, busy, worker, route,
                    clear, expired, drainAsked, committed>>
    BY Zenon, <1>19 DEF Cancel
  <2> QED
    BY <2>1, <2>2, <2>3, <2>4
<1>20. ASSUME NEW r \in Request, DrainClose(r) PROVE TypeInv'
  <2>1. pc' \in [Request -> Label]
    BY Zenon, <1>20 DEF DrainClose
  <2>2. accepting' \in BOOLEAN /\ drainAsked' \in BOOLEAN
    BY Zenon, <1>20 DEF DrainClose
  <2>3. UNCHANGED <<completion, inFlight, lane, queued, running, cancelled, busy, worker, route,
                    clear, expired, committed>>
    BY Zenon, <1>20 DEF DrainClose
  <2> QED
    BY <2>1, <2>2, <2>3
<1>21. ASSUME NEW r \in Request, DrainAnswer(r) PROVE TypeInv'
  BY <1>21 DEF DrainAnswer
<1>22. ASSUME NEW r \in Request, TransitionClose(r) PROVE TypeInv'
  <2>1. pc' \in [Request -> Label]
    BY Zenon, <1>22 DEF TransitionClose
  <2>2. accepting' \in BOOLEAN /\ completion' \in BOOLEAN
    BY Zenon, <1>22 DEF TransitionClose
  <2>3. UNCHANGED <<inFlight, lane, queued, running, cancelled, busy, worker, route, clear, expired,
                    drainAsked, committed>>
    BY Zenon, <1>22 DEF TransitionClose
  <2> QED
    BY <2>1, <2>2, <2>3
<1>23. ASSUME NEW r \in Request, TransitionConflict(r) PROVE TypeInv'
  BY <1>23 DEF TransitionConflict
<1>24. ASSUME NEW r \in Request, TransitionFence(r) PROVE TypeInv'
  <2>1. pc' \in [Request -> Label]
    BY Zenon, <1>24 DEF TransitionFence
  <2>2. clear' \in BOOLEAN /\ expired' \in BOOLEAN
    BY Zenon, <1>24 DEF TransitionFence
  <2>3. UNCHANGED <<accepting, completion, inFlight, lane, queued, running, cancelled, busy, worker,
                    route, drainAsked, committed>>
    BY Zenon, <1>24 DEF TransitionFence
  <2> QED
    BY <2>1, <2>2, <2>3
<1>25. ASSUME NEW r \in Request, TransitionRollback(r) PROVE TypeInv'
  BY <1>25 DEF TransitionRollback, Reopen
<1>26. ASSUME NEW r \in Request, TransitionCount(r) PROVE TypeInv'
  BY <1>26 DEF TransitionCount
<1>27. ASSUME NEW r \in Request, TransitionStatus(r) PROVE TypeInv'
  BY <1>27 DEF TransitionStatus
<1>28. ASSUME NEW r \in Request, TransitionFlights(r) PROVE TypeInv'
  BY <1>28 DEF TransitionFlights
<1>29. ASSUME NEW r \in Request, TransitionTryLane(r) PROVE TypeInv'
  <2>1. CASE lane = NoOne
    BY <1>29, <2>1 DEF TransitionTryLane
  <2>2. CASE lane # NoOne
    BY <1>29, <2>2 DEF TransitionTryLane
  <2> QED
    BY Zenon, <1>29, <2>1, <2>2 DEF TransitionTryLane
<1>30. ASSUME NEW r \in Request, TransitionRecount(r) PROVE TypeInv'
  BY <1>30 DEF TransitionRecount
<1>31. ASSUME NEW r \in Request, TransitionRestatus(r) PROVE TypeInv'
  BY <1>31 DEF TransitionRestatus
<1>32. ASSUME NEW r \in Request, TransitionSeal(r) PROVE TypeInv'
  <2>1. pc' \in [Request -> Label]
    BY Zenon, <1>32 DEF TransitionSeal
  <2>2. completion' \in BOOLEAN /\ lane' \in Request \cup {Worker, NoOne}
    BY Zenon, <1>32 DEF TransitionSeal
  <2>3. UNCHANGED <<accepting, inFlight, queued, running, cancelled, busy, worker, route, clear,
                    expired, drainAsked, committed>>
    BY Zenon, <1>32 DEF TransitionSeal
  <2> QED
    BY <2>1, <2>2, <2>3
<1>33. ASSUME NEW r \in Request, TransitionQueryFails(r) PROVE TypeInv'
  BY <1>33 DEF TransitionQueryFails
<1>34. ASSUME NEW r \in Request, TransitionSleep(r) PROVE TypeInv'
  BY <1>34 DEF TransitionSleep
<1>35. ASSUME NEW r \in Request, TransitionCommit(r) PROVE TypeInv'
  BY <1>35 DEF TransitionCommit
<1>36. ASSUME NEW r \in Request, TransitionUndo(r) PROVE TypeInv'
  BY <1>36 DEF TransitionUndo, Reopen
<1> QED
  BY Zenon, <1>1, <1>2, <1>3, <1>4, <1>5, <1>6, <1>7, <1>8, <1>9, <1>10, <1>11,
       <1>12, <1>13, <1>14, <1>15, <1>16, <1>17, <1>18, <1>19, <1>20, <1>21,
       <1>22, <1>23, <1>24, <1>25, <1>26, <1>27, <1>28, <1>29, <1>30, <1>31,
       <1>32, <1>33, <1>34, <1>35, <1>36 DEF Next, WorkerStep, Handle

\* All variables keep their types (the admission state, the lane, the table's
\* counts and every thread's place).
THEOREM AdmissionTypes == Spec => []TypeOK
<1>1. Spec => []TypeInv
  BY InitTypes, TypesStep, PTL DEF Spec
<1>2. TypeInv => TypeOK
  BY DEF TypeInv
<1> QED
  BY <1>1, <1>2, PTL

-----------------------------------------------------------------------------
(* The lane *)

\* The lane is taken when it is free and released by its holder.
LEMMA LaneStep == ASSUME TypeInv, LaneInv, [Next]_vars PROVE LaneInv'
<1> USE AdmissionAssumption DEF gate, tasks, loop, wait, history, TypeInv,
     TypeOK, LaneInv, HoldsLane, At, Goto
<1>1. CASE UNCHANGED vars
  BY Zenon, <1>1 DEF vars
<1>2. CASE Deadline
  BY Zenon, <1>2 DEF Deadline
<1>3. CASE WorkerTop
  BY Zenon, <1>3 DEF WorkerTop
<1>4. CASE WorkerClaim
  <2>1. CASE queued > 0
    BY Zenon, <1>4, <2>1 DEF WorkerClaim
  <2>2. CASE ~(queued > 0)
    BY Zenon, <1>4, <2>2 DEF WorkerClaim
  <2> QED
    BY Zenon, <1>4, <2>1, <2>2 DEF WorkerClaim
<1>5. CASE WorkerAnnounce
  BY Zenon, <1>5 DEF WorkerAnnounce
<1>6. CASE WorkerDrop
  BY Zenon, <1>6 DEF WorkerDrop
<1>7. CASE WorkerTakeLane
  BY Zenon, <1>7 DEF WorkerTakeLane
<1>8. CASE WorkerReleaseLane
  BY Zenon, <1>8 DEF WorkerReleaseLane
<1>9. CASE WorkerFinish
  BY Zenon, <1>9 DEF WorkerFinish
<1>10. ASSUME NEW r \in Request, Enter(r) PROVE LaneInv'
  BY Zenon, <1>10 DEF Enter
<1>11. ASSUME NEW r \in Request, Reject(r) PROVE LaneInv'
  BY Zenon, <1>11 DEF Reject
<1>12. ASSUME NEW r \in Request, Refuse(r) PROVE LaneInv'
  BY Zenon, <1>12 DEF Refuse
<1>13. ASSUME NEW r \in Request, TakeLane(r) PROVE LaneInv'
  BY Zenon, <1>13 DEF TakeLane
<1>14. ASSUME NEW r \in Request, ReleaseLane(r) PROVE LaneInv'
  BY Zenon, <1>14 DEF ReleaseLane
<1>15. ASSUME NEW r \in Request, Leave(r) PROVE LaneInv'
  BY Zenon, <1>15 DEF Leave
<1>16. ASSUME NEW r \in Request, SubmitCheck(r) PROVE LaneInv'
  BY Zenon, <1>16 DEF SubmitCheck
<1>17. ASSUME NEW r \in Request, SubmitInsert(r) PROVE LaneInv'
  BY Zenon, <1>17 DEF SubmitInsert
<1>18. ASSUME NEW r \in Request, Retry(r) PROVE LaneInv'
  BY Zenon, <1>18 DEF Retry
<1>19. ASSUME NEW r \in Request, Cancel(r) PROVE LaneInv'
  <2>a. /\ Goto(r, "leaving") /\ At(r, "admitted")
        /\ UNCHANGED <<gate, lane, running, loop, route, wait, history>>
    BY Zenon, <1>19 DEF Cancel
  <2>1. CASE queued > 0 /\ queued' = queued - 1 /\ UNCHANGED cancelled
    BY Zenon, <2>a, <2>1
  <2>2. CASE running > 0 /\ cancelled' \in {cancelled, TRUE} /\ UNCHANGED queued
    BY Zenon, <2>a, <2>2
  <2> QED
    BY Zenon, <1>19, <2>1, <2>2 DEF Cancel
<1>20. ASSUME NEW r \in Request, DrainClose(r) PROVE LaneInv'
  BY Zenon, <1>20 DEF DrainClose
<1>21. ASSUME NEW r \in Request, DrainAnswer(r) PROVE LaneInv'
  BY Zenon, <1>21 DEF DrainAnswer
<1>22. ASSUME NEW r \in Request, TransitionClose(r) PROVE LaneInv'
  BY Zenon, <1>22 DEF TransitionClose
<1>23. ASSUME NEW r \in Request, TransitionConflict(r) PROVE LaneInv'
  BY Zenon, <1>23 DEF TransitionConflict
<1>24. ASSUME NEW r \in Request, TransitionFence(r) PROVE LaneInv'
  BY Zenon, <1>24 DEF TransitionFence
<1>25. ASSUME NEW r \in Request, TransitionRollback(r) PROVE LaneInv'
  BY Zenon, <1>25 DEF TransitionRollback, Reopen
<1>26. ASSUME NEW r \in Request, TransitionCount(r) PROVE LaneInv'
  BY Zenon, <1>26 DEF TransitionCount
<1>27. ASSUME NEW r \in Request, TransitionStatus(r) PROVE LaneInv'
  BY Zenon, <1>27 DEF TransitionStatus
<1>28. ASSUME NEW r \in Request, TransitionFlights(r) PROVE LaneInv'
  BY Zenon, <1>28 DEF TransitionFlights
<1>29. ASSUME NEW r \in Request, TransitionTryLane(r) PROVE LaneInv'
  <2>1. CASE lane = NoOne
    BY Zenon, <1>29, <2>1 DEF TransitionTryLane
  <2>2. CASE lane # NoOne
    BY Zenon, <1>29, <2>2 DEF TransitionTryLane
  <2> QED
    BY Zenon, <1>29, <2>1, <2>2 DEF TransitionTryLane
<1>30. ASSUME NEW r \in Request, TransitionRecount(r) PROVE LaneInv'
  BY Zenon, <1>30 DEF TransitionRecount
<1>31. ASSUME NEW r \in Request, TransitionRestatus(r) PROVE LaneInv'
  BY Zenon, <1>31 DEF TransitionRestatus
<1>32. ASSUME NEW r \in Request, TransitionSeal(r) PROVE LaneInv'
  <2>1. CASE clear /\ inFlight <= 1
    BY <1>32, <2>1 DEF TransitionSeal
  <2>2. CASE ~(clear /\ inFlight <= 1)
    BY Zenon, <1>32, <2>2 DEF TransitionSeal
  <2> QED
    BY Zenon, <1>32, <2>1, <2>2 DEF TransitionSeal
<1>33. ASSUME NEW r \in Request, TransitionQueryFails(r) PROVE LaneInv'
  BY Zenon, <1>33 DEF TransitionQueryFails
<1>34. ASSUME NEW r \in Request, TransitionSleep(r) PROVE LaneInv'
  BY Zenon, <1>34 DEF TransitionSleep
<1>35. ASSUME NEW r \in Request, TransitionCommit(r) PROVE LaneInv'
  BY Zenon, <1>35 DEF TransitionCommit
<1>36. ASSUME NEW r \in Request, TransitionUndo(r) PROVE LaneInv'
  BY Zenon, <1>36 DEF TransitionUndo, Reopen
<1> QED
  BY Zenon, <1>1, <1>2, <1>3, <1>4, <1>5, <1>6, <1>7, <1>8, <1>9, <1>10, <1>11,
       <1>12, <1>13, <1>14, <1>15, <1>16, <1>17, <1>18, <1>19, <1>20, <1>21,
       <1>22, <1>23, <1>24, <1>25, <1>26, <1>27, <1>28, <1>29, <1>30, <1>31,
       <1>32, <1>33, <1>34, <1>35, <1>36 DEF Next, WorkerStep, Handle

\* No two threads are on the production command lane at once, for any number
\* of requests: provider calls and the publication of a mode never overlap.
THEOREM LaneAlwaysExclusive == Spec => []LaneIsExclusive
<1>1. Init => LaneInv
  BY Zenon, AdmissionAssumption DEF Init, LaneInv, HoldsLane
<1>2. LaneInv => LaneIsExclusive
  BY Zenon, AdmissionAssumption DEF LaneInv, LaneIsExclusive
<1>3. Spec => []TypeInv
  BY InitTypes, TypesStep, PTL DEF Spec
<1> QED
  BY <1>1, <1>2, <1>3, LaneStep, PTL DEF Spec

-----------------------------------------------------------------------------
(* Counting the requests inside *)

\* Inside is finite, as the set of requests is.
LEMMA InsideFinite == IsFiniteSet(Inside)
<1>1. Inside \in SUBSET Request
  BY Zenon DEF Inside
<1> QED
  BY Zenon, <1>1, AdmissionAssumption, FS_Subset

\* A set of at most one element that has r in it is {r}.
LEMMA OnlyOne ==
  ASSUME NEW S, IsFiniteSet(S), NEW r \in S, Cardinality(S) <= 1 PROVE S = {r}
<1>1. {r} \in SUBSET S /\ Cardinality({r}) = 1
  BY Zenon, FS_Singleton
<1>2. Cardinality({r}) <= Cardinality(S) /\ (Cardinality(S) = Cardinality({r}) => S = {r})
  BY Zenon, <1>1, FS_Subset
<1>3. Cardinality(S) \in Nat
  BY FS_CardinalityType
<1> QED
  BY <1>1, <1>2, <1>3

\* A request keeps to the labels of its route.
LEMMA RouteStep == ASSUME TypeInv, RouteInv, [Next]_vars PROVE RouteInv'
<1> USE DEF gate, tasks, loop, wait, history, TypeInv, TypeOK, RouteInv,
     Changing, Waiting, At, Goto
<1>1. CASE UNCHANGED vars
  BY Zenon, <1>1 DEF vars
<1>2. CASE Deadline
  BY Zenon, <1>2 DEF Deadline
<1>3. CASE WorkerTop
  BY Zenon, <1>3 DEF WorkerTop
<1>4. CASE WorkerClaim
  <2>1. CASE queued > 0
    BY Zenon, <1>4, <2>1 DEF WorkerClaim
  <2>2. CASE ~(queued > 0)
    BY Zenon, <1>4, <2>2 DEF WorkerClaim
  <2> QED
    BY Zenon, <1>4, <2>1, <2>2 DEF WorkerClaim
<1>5. CASE WorkerAnnounce
  BY Zenon, <1>5 DEF WorkerAnnounce
<1>6. CASE WorkerDrop
  BY Zenon, <1>6 DEF WorkerDrop
<1>7. CASE WorkerTakeLane
  BY Zenon, <1>7 DEF WorkerTakeLane
<1>8. CASE WorkerReleaseLane
  BY Zenon, <1>8 DEF WorkerReleaseLane
<1>9. CASE WorkerFinish
  BY Zenon, <1>9 DEF WorkerFinish
<1>10. ASSUME NEW r \in Request, Enter(r) PROVE RouteInv'
  BY Zenon, <1>10 DEF Enter
<1>11. ASSUME NEW r \in Request, Reject(r) PROVE RouteInv'
  BY Zenon, <1>11 DEF Reject
<1>12. ASSUME NEW r \in Request, Refuse(r) PROVE RouteInv'
  BY Zenon, <1>12 DEF Refuse
<1>13. ASSUME NEW r \in Request, TakeLane(r) PROVE RouteInv'
  BY Zenon, <1>13 DEF TakeLane
<1>14. ASSUME NEW r \in Request, ReleaseLane(r) PROVE RouteInv'
  BY Zenon, <1>14 DEF ReleaseLane
<1>15. ASSUME NEW r \in Request, Leave(r) PROVE RouteInv'
  BY Zenon, <1>15 DEF Leave
<1>16. ASSUME NEW r \in Request, SubmitCheck(r) PROVE RouteInv'
  BY Zenon, <1>16 DEF SubmitCheck
<1>17. ASSUME NEW r \in Request, SubmitInsert(r) PROVE RouteInv'
  BY Zenon, <1>17 DEF SubmitInsert
<1>18. ASSUME NEW r \in Request, Retry(r) PROVE RouteInv'
  BY Zenon, <1>18 DEF Retry
<1>19. ASSUME NEW r \in Request, Cancel(r) PROVE RouteInv'
  <2>a. /\ Goto(r, "leaving") /\ At(r, "admitted")
        /\ UNCHANGED <<gate, lane, running, loop, route, wait, history>>
    BY Zenon, <1>19 DEF Cancel
  <2>1. CASE queued > 0 /\ queued' = queued - 1 /\ UNCHANGED cancelled
    BY Zenon, <2>a, <2>1
  <2>2. CASE running > 0 /\ cancelled' \in {cancelled, TRUE} /\ UNCHANGED queued
    BY Zenon, <2>a, <2>2
  <2> QED
    BY Zenon, <1>19, <2>1, <2>2 DEF Cancel
<1>20. ASSUME NEW r \in Request, DrainClose(r) PROVE RouteInv'
  BY Zenon, <1>20 DEF DrainClose
<1>21. ASSUME NEW r \in Request, DrainAnswer(r) PROVE RouteInv'
  BY Zenon, <1>21 DEF DrainAnswer
<1>22. ASSUME NEW r \in Request, TransitionClose(r) PROVE RouteInv'
  BY Zenon, <1>22 DEF TransitionClose
<1>23. ASSUME NEW r \in Request, TransitionConflict(r) PROVE RouteInv'
  BY Zenon, <1>23 DEF TransitionConflict
<1>24. ASSUME NEW r \in Request, TransitionFence(r) PROVE RouteInv'
  BY Zenon, <1>24 DEF TransitionFence
<1>25. ASSUME NEW r \in Request, TransitionRollback(r) PROVE RouteInv'
  BY Zenon, <1>25 DEF TransitionRollback, Reopen
<1>26. ASSUME NEW r \in Request, TransitionCount(r) PROVE RouteInv'
  BY Zenon, <1>26 DEF TransitionCount
<1>27. ASSUME NEW r \in Request, TransitionStatus(r) PROVE RouteInv'
  BY Zenon, <1>27 DEF TransitionStatus
<1>28. ASSUME NEW r \in Request, TransitionFlights(r) PROVE RouteInv'
  BY Zenon, <1>28 DEF TransitionFlights
<1>29. ASSUME NEW r \in Request, TransitionTryLane(r) PROVE RouteInv'
  <2>1. CASE lane = NoOne
    BY Zenon, <1>29, <2>1 DEF TransitionTryLane
  <2>2. CASE lane # NoOne
    BY Zenon, <1>29, <2>2 DEF TransitionTryLane
  <2> QED
    BY Zenon, <1>29, <2>1, <2>2 DEF TransitionTryLane
<1>30. ASSUME NEW r \in Request, TransitionRecount(r) PROVE RouteInv'
  BY Zenon, <1>30 DEF TransitionRecount
<1>31. ASSUME NEW r \in Request, TransitionRestatus(r) PROVE RouteInv'
  BY Zenon, <1>31 DEF TransitionRestatus
<1>32. ASSUME NEW r \in Request, TransitionSeal(r) PROVE RouteInv'
  <2>1. CASE clear /\ inFlight <= 1
    BY Zenon, <1>32, <2>1 DEF TransitionSeal
  <2>2. CASE ~(clear /\ inFlight <= 1)
    BY Zenon, <1>32, <2>2 DEF TransitionSeal
  <2> QED
    BY Zenon, <1>32, <2>1, <2>2 DEF TransitionSeal
<1>33. ASSUME NEW r \in Request, TransitionQueryFails(r) PROVE RouteInv'
  BY Zenon, <1>33 DEF TransitionQueryFails
<1>34. ASSUME NEW r \in Request, TransitionSleep(r) PROVE RouteInv'
  BY Zenon, <1>34 DEF TransitionSleep
<1>35. ASSUME NEW r \in Request, TransitionCommit(r) PROVE RouteInv'
  BY Zenon, <1>35 DEF TransitionCommit
<1>36. ASSUME NEW r \in Request, TransitionUndo(r) PROVE RouteInv'
  BY <1>36 DEF TransitionUndo, Reopen
<1> QED
  BY Zenon, <1>1, <1>2, <1>3, <1>4, <1>5, <1>6, <1>7, <1>8, <1>9, <1>10, <1>11,
       <1>12, <1>13, <1>14, <1>15, <1>16, <1>17, <1>18, <1>19, <1>20, <1>21,
       <1>22, <1>23, <1>24, <1>25, <1>26, <1>27, <1>28, <1>29, <1>30, <1>31,
       <1>32, <1>33, <1>34, <1>35, <1>36 DEF Next, WorkerStep, Handle

\* Entering adds one to in_flight and to Inside, leaving takes it from both.
LEMMA CountStep == ASSUME TypeInv, RouteInv, InFlightIsExact, [Next]_vars PROVE InFlightIsExact'
<1>1. CASE UNCHANGED vars
  BY Zenon, <1>1 DEF vars, InFlightIsExact, Inside
<1>2. CASE Deadline
  BY Zenon, <1>2 DEF Deadline, gate, tasks, loop, wait, history, InFlightIsExact,
       Inside
<1>3. CASE WorkerTop
  BY Zenon, <1>3 DEF WorkerTop, gate, tasks, loop, wait, history, InFlightIsExact,
       Inside
<1>4. CASE WorkerClaim
  <2>1. CASE queued > 0
    BY Zenon, <1>4, <2>1 DEF WorkerClaim, gate, tasks, loop, wait, history,
         InFlightIsExact, Inside
  <2>2. CASE ~(queued > 0)
    BY Zenon, <1>4, <2>2 DEF WorkerClaim, gate, tasks, loop, wait, history,
         InFlightIsExact, Inside
  <2> QED
    BY Zenon, <1>4, <2>1, <2>2 DEF WorkerClaim
<1>5. CASE WorkerAnnounce
  BY Zenon, <1>5 DEF WorkerAnnounce, gate, tasks, loop, wait, history,
       InFlightIsExact, Inside
<1>6. CASE WorkerDrop
  BY Zenon, <1>6 DEF WorkerDrop, gate, tasks, loop, wait, history, InFlightIsExact,
       Inside
<1>7. CASE WorkerTakeLane
  BY Zenon, <1>7 DEF WorkerTakeLane, gate, tasks, loop, wait, history,
       InFlightIsExact, Inside
<1>8. CASE WorkerReleaseLane
  BY Zenon, <1>8 DEF WorkerReleaseLane, gate, tasks, loop, wait, history,
       InFlightIsExact, Inside
<1>9. CASE WorkerFinish
  BY <1>9 DEF WorkerFinish, gate, tasks, loop, wait, history, InFlightIsExact,
       Inside
<1>10. ASSUME NEW r \in Request, Enter(r) PROVE InFlightIsExact'
  <2>1. CASE route[r] \in Uncounted
    <3>1. Inside' = Inside
      BY <1>10, <2>1 DEF Enter, Goto, Inside, TypeInv, TypeOK
    <3> QED
      BY Zenon, <1>10, <2>1, <3>1 DEF Enter, InFlightIsExact
  <2>2. CASE route[r] \notin Uncounted
    <3>1. Inside' = Inside \cup {r} /\ r \notin Inside
      BY Zenon, <1>10, <2>2 DEF Enter, At, Goto, Inside, TypeInv, TypeOK
    <3>2. Cardinality(Inside \cup {r}) = Cardinality(Inside) + 1
      BY Zenon, <3>1, InsideFinite, FS_AddElement
    <3> QED
      BY Zenon, <1>10, <2>2, <3>1, <3>2 DEF Enter, InFlightIsExact
  <2> QED
    BY Zenon, <2>1, <2>2
<1>11. ASSUME NEW r \in Request, Reject(r) PROVE InFlightIsExact'
  <2>1. Inside' = Inside
    BY Zenon, <1>11 DEF Reject, At, Goto, Inside, TypeInv, TypeOK, RouteInv,
         Uncounted, Waiting
  <2> QED
    BY Zenon, <1>11, <2>1 DEF Reject, gate, InFlightIsExact
<1>12. ASSUME NEW r \in Request, Refuse(r) PROVE InFlightIsExact'
  <2>1. Inside' = Inside
    BY Zenon, <1>12 DEF Refuse, At, Goto, Inside, TypeInv, TypeOK, RouteInv,
         Uncounted, Waiting
  <2> QED
    BY Zenon, <1>12, <2>1 DEF Refuse, gate, InFlightIsExact
<1>13. ASSUME NEW r \in Request, TakeLane(r) PROVE InFlightIsExact'
  <2>1. Inside' = Inside
    BY Zenon, <1>13 DEF TakeLane, At, Goto, Inside, TypeInv, TypeOK, RouteInv,
         Uncounted, Waiting
  <2> QED
    BY Zenon, <1>13, <2>1 DEF TakeLane, gate, InFlightIsExact
<1>14. ASSUME NEW r \in Request, ReleaseLane(r) PROVE InFlightIsExact'
  <2>1. Inside' = Inside
    BY Zenon, <1>14 DEF ReleaseLane, At, Goto, Inside, TypeInv, TypeOK, RouteInv,
         Uncounted, Waiting
  <2> QED
    BY Zenon, <1>14, <2>1 DEF ReleaseLane, gate, InFlightIsExact
<1>15. ASSUME NEW r \in Request, Leave(r) PROVE InFlightIsExact'
  <2>1. CASE route[r] \in Uncounted
    <3>1. Inside' = Inside
      BY Zenon, <1>15, <2>1 DEF Leave, Goto, Inside, TypeInv, TypeOK
    <3> QED
      BY Zenon, <1>15, <2>1, <3>1 DEF Leave, InFlightIsExact
  <2>2. CASE route[r] \notin Uncounted
    <3>1. Inside' = Inside \ {r} /\ r \in Inside
      BY Zenon, <1>15, <2>2 DEF Leave, At, Goto, Inside, TypeInv, TypeOK
    <3>2. Cardinality(Inside \ {r}) = Cardinality(Inside) - 1
      BY Zenon, <3>1, InsideFinite, FS_RemoveElement
    <3>3. inFlight # 0
      BY Zenon, <3>1, InsideFinite, FS_EmptySet DEF InFlightIsExact
    <3> QED
      BY Zenon, <1>15, <2>2, <3>1, <3>2, <3>3 DEF Leave, InFlightIsExact
  <2> QED
    BY Zenon, <2>1, <2>2
<1>16. ASSUME NEW r \in Request, SubmitCheck(r) PROVE InFlightIsExact'
  <2>1. Inside' = Inside
    BY Zenon, <1>16 DEF SubmitCheck, At, Goto, Inside, TypeInv, TypeOK, RouteInv,
         Uncounted, Waiting
  <2> QED
    BY Zenon, <1>16, <2>1 DEF SubmitCheck, gate, InFlightIsExact
<1>17. ASSUME NEW r \in Request, SubmitInsert(r) PROVE InFlightIsExact'
  <2>1. Inside' = Inside
    BY Zenon, <1>17 DEF SubmitInsert, At, Goto, Inside, TypeInv, TypeOK, RouteInv,
         Uncounted, Waiting
  <2> QED
    BY Zenon, <1>17, <2>1 DEF SubmitInsert, gate, InFlightIsExact
<1>18. ASSUME NEW r \in Request, Retry(r) PROVE InFlightIsExact'
  <2>1. Inside' = Inside
    BY Zenon, <1>18 DEF Retry, At, Goto, Inside, TypeInv, TypeOK, RouteInv,
         Uncounted, Waiting
  <2> QED
    BY Zenon, <1>18, <2>1 DEF Retry, gate, InFlightIsExact
<1>19. ASSUME NEW r \in Request, Cancel(r) PROVE InFlightIsExact'
  <2>1. Inside' = Inside
    BY Zenon, <1>19 DEF Cancel, At, Goto, Inside, TypeInv, TypeOK, RouteInv,
         Uncounted, Waiting
  <2> QED
    BY Zenon, <1>19, <2>1 DEF Cancel, gate, InFlightIsExact
<1>20. ASSUME NEW r \in Request, DrainClose(r) PROVE InFlightIsExact'
  <2>1. Inside' = Inside
    BY Zenon, <1>20 DEF DrainClose, At, Goto, Inside, TypeInv, TypeOK, RouteInv,
         Uncounted, Waiting
  <2> QED
    BY Zenon, <1>20, <2>1 DEF DrainClose, gate, InFlightIsExact
<1>21. ASSUME NEW r \in Request, DrainAnswer(r) PROVE InFlightIsExact'
  <2>1. Inside' = Inside
    BY Zenon, <1>21 DEF DrainAnswer, At, Goto, Inside, TypeInv, TypeOK, RouteInv,
         Uncounted, Waiting
  <2> QED
    BY Zenon, <1>21, <2>1 DEF DrainAnswer, gate, InFlightIsExact
<1>22. ASSUME NEW r \in Request, TransitionClose(r) PROVE InFlightIsExact'
  <2>1. Inside' = Inside
    BY Zenon, <1>22 DEF TransitionClose, At, Goto, Inside, TypeInv, TypeOK,
         RouteInv, Uncounted, Waiting
  <2> QED
    BY Zenon, <1>22, <2>1 DEF TransitionClose, gate, InFlightIsExact
<1>23. ASSUME NEW r \in Request, TransitionConflict(r) PROVE InFlightIsExact'
  <2>1. Inside' = Inside
    BY Zenon, <1>23 DEF TransitionConflict, At, Goto, Inside, TypeInv, TypeOK,
         RouteInv, Uncounted, Waiting
  <2> QED
    BY Zenon, <1>23, <2>1 DEF TransitionConflict, gate, InFlightIsExact
<1>24. ASSUME NEW r \in Request, TransitionFence(r) PROVE InFlightIsExact'
  <2>1. Inside' = Inside
    BY Zenon, <1>24 DEF TransitionFence, At, Goto, Inside, TypeInv, TypeOK,
         RouteInv, Uncounted, Waiting
  <2> QED
    BY Zenon, <1>24, <2>1 DEF TransitionFence, gate, InFlightIsExact
<1>25. ASSUME NEW r \in Request, TransitionRollback(r) PROVE InFlightIsExact'
  <2>1. Inside' = Inside
    BY Zenon, <1>25 DEF TransitionRollback, At, Goto, Reopen, Inside, TypeInv,
         TypeOK, RouteInv, Uncounted, Waiting
  <2> QED
    BY Zenon, <1>25, <2>1 DEF TransitionRollback, gate, InFlightIsExact
<1>26. ASSUME NEW r \in Request, TransitionCount(r) PROVE InFlightIsExact'
  <2>1. Inside' = Inside
    BY Zenon, <1>26 DEF TransitionCount, At, Goto, Inside, TypeInv, TypeOK,
         RouteInv, Uncounted, Waiting
  <2> QED
    BY Zenon, <1>26, <2>1 DEF TransitionCount, gate, InFlightIsExact
<1>27. ASSUME NEW r \in Request, TransitionStatus(r) PROVE InFlightIsExact'
  <2>1. Inside' = Inside
    BY Zenon, <1>27 DEF TransitionStatus, At, Goto, Inside, TypeInv, TypeOK,
         RouteInv, Uncounted, Waiting
  <2> QED
    BY Zenon, <1>27, <2>1 DEF TransitionStatus, gate, InFlightIsExact
<1>28. ASSUME NEW r \in Request, TransitionFlights(r) PROVE InFlightIsExact'
  <2>1. Inside' = Inside
    BY Zenon, <1>28 DEF TransitionFlights, At, Goto, Inside, TypeInv, TypeOK,
         RouteInv, Uncounted, Waiting
  <2> QED
    BY Zenon, <1>28, <2>1 DEF TransitionFlights, gate, InFlightIsExact
<1>29. ASSUME NEW r \in Request, TransitionTryLane(r) PROVE InFlightIsExact'
  <2>1. Inside' = Inside
    BY Zenon, <1>29 DEF TransitionTryLane, At, Goto, Inside, TypeInv, TypeOK,
         RouteInv, Uncounted, Waiting
  <2> QED
    BY Zenon, <1>29, <2>1 DEF TransitionTryLane, gate, InFlightIsExact
<1>30. ASSUME NEW r \in Request, TransitionRecount(r) PROVE InFlightIsExact'
  <2>1. Inside' = Inside
    BY Zenon, <1>30 DEF TransitionRecount, At, Goto, Inside, TypeInv, TypeOK,
         RouteInv, Uncounted, Waiting
  <2> QED
    BY Zenon, <1>30, <2>1 DEF TransitionRecount, gate, InFlightIsExact
<1>31. ASSUME NEW r \in Request, TransitionRestatus(r) PROVE InFlightIsExact'
  <2>1. Inside' = Inside
    BY Zenon, <1>31 DEF TransitionRestatus, At, Goto, Inside, TypeInv, TypeOK,
         RouteInv, Uncounted, Waiting
  <2> QED
    BY Zenon, <1>31, <2>1 DEF TransitionRestatus, gate, InFlightIsExact
<1>32. ASSUME NEW r \in Request, TransitionSeal(r) PROVE InFlightIsExact'
  <2>1. Inside' = Inside
    BY Zenon, <1>32 DEF TransitionSeal, At, Goto, Inside, TypeInv, TypeOK,
         RouteInv, Uncounted, Waiting
  <2> QED
    BY Zenon, <1>32, <2>1 DEF TransitionSeal, gate, InFlightIsExact
<1>33. ASSUME NEW r \in Request, TransitionQueryFails(r) PROVE InFlightIsExact'
  <2>1. Inside' = Inside
    BY Zenon, <1>33 DEF TransitionQueryFails, At, Goto, Inside, TypeInv, TypeOK,
         RouteInv, Uncounted, Waiting
  <2> QED
    BY Zenon, <1>33, <2>1 DEF TransitionQueryFails, gate, InFlightIsExact
<1>34. ASSUME NEW r \in Request, TransitionSleep(r) PROVE InFlightIsExact'
  <2>1. Inside' = Inside
    BY Zenon, <1>34 DEF TransitionSleep, At, Goto, Inside, TypeInv, TypeOK,
         RouteInv, Uncounted, Waiting
  <2> QED
    BY Zenon, <1>34, <2>1 DEF TransitionSleep, gate, InFlightIsExact
<1>35. ASSUME NEW r \in Request, TransitionCommit(r) PROVE InFlightIsExact'
  <2>1. Inside' = Inside
    BY Zenon, <1>35 DEF TransitionCommit, At, Goto, Inside, TypeInv, TypeOK,
         RouteInv, Uncounted, Waiting
  <2> QED
    BY Zenon, <1>35, <2>1 DEF TransitionCommit, gate, InFlightIsExact
<1>36. ASSUME NEW r \in Request, TransitionUndo(r) PROVE InFlightIsExact'
  <2>1. Inside' = Inside
    BY Zenon, <1>36 DEF TransitionUndo, At, Goto, Reopen, Inside, TypeInv, TypeOK,
         RouteInv, Uncounted, Waiting
  <2> QED
    BY Zenon, <1>36, <2>1 DEF TransitionUndo, gate, InFlightIsExact
<1> QED
  BY Zenon, <1>1, <1>2, <1>3, <1>4, <1>5, <1>6, <1>7, <1>8, <1>9, <1>10, <1>11,
       <1>12, <1>13, <1>14, <1>15, <1>16, <1>17, <1>18, <1>19, <1>20, <1>21,
       <1>22, <1>23, <1>24, <1>25, <1>26, <1>27, <1>28, <1>29, <1>30, <1>31,
       <1>32, <1>33, <1>34, <1>35, <1>36 DEF Next, WorkerStep, Handle

\* The service starts empty.
LEMMA InitCount == Init => RouteInv /\ InFlightIsExact
<1> SUFFICES ASSUME Init PROVE RouteInv /\ InFlightIsExact
  BY Zenon
<1>1. Inside = {}
  BY Zenon DEF Init, Inside
<1>2. RouteInv
  BY Zenon DEF Init, RouteInv, Changing, Waiting, At
<1> QED
  BY Zenon, <1>1, <1>2, FS_EmptySet DEF Init, InFlightIsExact

\* in_flight is the number of mutations inside the service, for any requests in
\* any interleaving: its value zero is a proof that nothing is in progress.
THEOREM InFlightAlwaysExact == Spec => []InFlightIsExact
<1>1. Spec => []TypeInv
  BY InitTypes, TypesStep, PTL DEF Spec
<1>2. Spec => []RouteInv
  BY <1>1, InitCount, RouteStep, PTL DEF Spec
<1> QED
  BY <1>1, <1>2, InitCount, CountStep, PTL DEF Spec

-----------------------------------------------------------------------------
(* The change of mode *)

\* Only an open admission can be closed for a change of mode, and only the
\* change that closed it reopens it.
LEMMA ChangeStep == ASSUME TypeInv, ChangeInv, [Next]_vars PROVE ChangeInv'
<1> USE DEF gate, tasks, loop, wait, history, TypeInv, TypeOK, ChangeInv,
     Changing, Waiting, At, Goto
<1>1. CASE UNCHANGED vars
  BY Zenon, <1>1 DEF vars
<1>2. CASE Deadline
  BY Zenon, <1>2 DEF Deadline
<1>3. CASE WorkerTop
  BY Zenon, <1>3 DEF WorkerTop
<1>4. CASE WorkerClaim
  <2>1. CASE queued > 0
    BY Zenon, <1>4, <2>1 DEF WorkerClaim
  <2>2. CASE ~(queued > 0)
    BY Zenon, <1>4, <2>2 DEF WorkerClaim
  <2> QED
    BY Zenon, <1>4, <2>1, <2>2 DEF WorkerClaim
<1>5. CASE WorkerAnnounce
  BY Zenon, <1>5 DEF WorkerAnnounce
<1>6. CASE WorkerDrop
  BY Zenon, <1>6 DEF WorkerDrop
<1>7. CASE WorkerTakeLane
  BY Zenon, <1>7 DEF WorkerTakeLane
<1>8. CASE WorkerReleaseLane
  BY Zenon, <1>8 DEF WorkerReleaseLane
<1>9. CASE WorkerFinish
  BY Zenon, <1>9 DEF WorkerFinish
<1>10. ASSUME NEW r \in Request, Enter(r) PROVE ChangeInv'
  BY Zenon, <1>10 DEF Enter
<1>11. ASSUME NEW r \in Request, Reject(r) PROVE ChangeInv'
  BY Zenon, <1>11 DEF Reject
<1>12. ASSUME NEW r \in Request, Refuse(r) PROVE ChangeInv'
  BY Zenon, <1>12 DEF Refuse
<1>13. ASSUME NEW r \in Request, TakeLane(r) PROVE ChangeInv'
  BY Zenon, <1>13 DEF TakeLane
<1>14. ASSUME NEW r \in Request, ReleaseLane(r) PROVE ChangeInv'
  BY Zenon, <1>14 DEF ReleaseLane
<1>15. ASSUME NEW r \in Request, Leave(r) PROVE ChangeInv'
  BY Zenon, <1>15 DEF Leave
<1>16. ASSUME NEW r \in Request, SubmitCheck(r) PROVE ChangeInv'
  BY <1>16 DEF SubmitCheck
<1>17. ASSUME NEW r \in Request, SubmitInsert(r) PROVE ChangeInv'
  BY <1>17 DEF SubmitInsert
<1>18. ASSUME NEW r \in Request, Retry(r) PROVE ChangeInv'
  BY <1>18 DEF Retry
<1>19. ASSUME NEW r \in Request, Cancel(r) PROVE ChangeInv'
  <2>a. /\ Goto(r, "leaving") /\ At(r, "admitted")
        /\ UNCHANGED <<gate, lane, running, loop, route, wait, history>>
    BY Zenon, <1>19 DEF Cancel
  <2>1. CASE queued > 0 /\ queued' = queued - 1 /\ UNCHANGED cancelled
    BY Zenon, <2>a, <2>1
  <2>2. CASE running > 0 /\ cancelled' \in {cancelled, TRUE} /\ UNCHANGED queued
    BY Zenon, <2>a, <2>2
  <2> QED
    BY Zenon, <1>19, <2>1, <2>2 DEF Cancel
<1>20. ASSUME NEW r \in Request, DrainClose(r) PROVE ChangeInv'
  BY Zenon, <1>20 DEF DrainClose
<1>21. ASSUME NEW r \in Request, DrainAnswer(r) PROVE ChangeInv'
  BY Zenon, <1>21 DEF DrainAnswer
<1>22. ASSUME NEW r \in Request, TransitionClose(r) PROVE ChangeInv'
  BY <1>22 DEF TransitionClose
<1>23. ASSUME NEW r \in Request, TransitionConflict(r) PROVE ChangeInv'
  BY <1>23 DEF TransitionConflict
<1>24. ASSUME NEW r \in Request, TransitionFence(r) PROVE ChangeInv'
  BY <1>24 DEF TransitionFence
<1>25. ASSUME NEW r \in Request, TransitionRollback(r) PROVE ChangeInv'
  BY <1>25 DEF TransitionRollback, Reopen
<1>26. ASSUME NEW r \in Request, TransitionCount(r) PROVE ChangeInv'
  BY <1>26 DEF TransitionCount
<1>27. ASSUME NEW r \in Request, TransitionStatus(r) PROVE ChangeInv'
  BY <1>27 DEF TransitionStatus
<1>28. ASSUME NEW r \in Request, TransitionFlights(r) PROVE ChangeInv'
  BY <1>28 DEF TransitionFlights
<1>29. ASSUME NEW r \in Request, TransitionTryLane(r) PROVE ChangeInv'
  <2>1. CASE lane = NoOne
    BY <1>29, <2>1 DEF TransitionTryLane
  <2>2. CASE lane # NoOne
    BY <1>29, <2>2 DEF TransitionTryLane
  <2> QED
    BY Zenon, <1>29, <2>1, <2>2 DEF TransitionTryLane
<1>30. ASSUME NEW r \in Request, TransitionRecount(r) PROVE ChangeInv'
  BY <1>30 DEF TransitionRecount
<1>31. ASSUME NEW r \in Request, TransitionRestatus(r) PROVE ChangeInv'
  BY <1>31 DEF TransitionRestatus
<1>32. ASSUME NEW r \in Request, TransitionSeal(r) PROVE ChangeInv'
  <2>1. CASE clear /\ inFlight <= 1
    BY Zenon, <1>32, <2>1 DEF TransitionSeal
  <2>2. CASE ~(clear /\ inFlight <= 1)
    BY <1>32, <2>2 DEF TransitionSeal
  <2> QED
    BY Zenon, <1>32, <2>1, <2>2 DEF TransitionSeal
<1>33. ASSUME NEW r \in Request, TransitionQueryFails(r) PROVE ChangeInv'
  BY <1>33 DEF TransitionQueryFails
<1>34. ASSUME NEW r \in Request, TransitionSleep(r) PROVE ChangeInv'
  BY <1>34 DEF TransitionSleep
<1>35. ASSUME NEW r \in Request, TransitionCommit(r) PROVE ChangeInv'
  BY Zenon, <1>35 DEF TransitionCommit
<1>36. ASSUME NEW r \in Request, TransitionUndo(r) PROVE ChangeInv'
  BY Zenon, <1>36 DEF TransitionUndo, Reopen
<1> QED
  BY Zenon, <1>1, <1>2, <1>3, <1>4, <1>5, <1>6, <1>7, <1>8, <1>9, <1>10, <1>11,
       <1>12, <1>13, <1>14, <1>15, <1>16, <1>17, <1>18, <1>19, <1>20, <1>21,
       <1>22, <1>23, <1>24, <1>25, <1>26, <1>27, <1>28, <1>29, <1>30, <1>31,
       <1>32, <1>33, <1>34, <1>35, <1>36 DEF Next, WorkerStep, Handle

\* With one request in flight and completions closed, publication is alone
\* and stays so.
LEMMA CommitStep == ASSUME TypeInv, RouteInv, InFlightIsExact, ChangeInv, CommitInv, [Next]_vars PROVE CommitInv'
<1>1. CASE UNCHANGED vars
  BY Zenon, <1>1 DEF vars, CommitInv, Inside, At
<1>2. CASE Deadline
  BY Zenon, <1>2 DEF Deadline, gate, tasks, loop, wait, history, CommitInv, Inside, At
<1>3. CASE WorkerTop
  BY Zenon, <1>3 DEF WorkerTop, gate, tasks, loop, wait, history, CommitInv, Inside, At
<1>4. CASE WorkerClaim
  <2>1. CASE queued > 0
    BY Zenon, <1>4, <2>1 DEF WorkerClaim, gate, tasks, loop, wait, history,
         CommitInv, Inside, At
  <2>2. CASE ~(queued > 0)
    BY Zenon, <1>4, <2>2 DEF WorkerClaim, gate, tasks, loop, wait, history,
         CommitInv, Inside, At
  <2> QED
    BY Zenon, <1>4, <2>1, <2>2 DEF WorkerClaim
<1>5. CASE WorkerAnnounce
  BY Zenon, <1>5 DEF WorkerAnnounce, gate, tasks, loop, wait, history, CommitInv,
       Inside, At
<1>6. CASE WorkerDrop
  BY Zenon, <1>6 DEF WorkerDrop, gate, tasks, loop, wait, history, CommitInv, Inside,
       At
<1>7. CASE WorkerTakeLane
  BY Zenon, <1>7 DEF WorkerTakeLane, gate, tasks, loop, wait, history, CommitInv,
       Inside, At
<1>8. CASE WorkerReleaseLane
  BY Zenon, <1>8 DEF WorkerReleaseLane, gate, tasks, loop, wait, history, CommitInv,
       Inside, At
<1>9. CASE WorkerFinish
  BY Zenon, <1>9 DEF WorkerFinish, gate, tasks, loop, wait, history, CommitInv,
       Inside, At
<1>10. ASSUME NEW r \in Request, Enter(r) PROVE CommitInv'
  <2>1. CASE committed \/ \E s \in Request : At(s, "committing")
    <3>1. ~accepting /\ ~completion
      BY Zenon, <2>1 DEF CommitInv, ChangeInv, Changing, At
    <3>2. route[r] \in Uncounted
      BY Zenon, <1>10, <3>1 DEF Enter, Admits, Admitted
    <3>3. Inside' = Inside /\ r \notin Inside
      BY Zenon, <1>10, <3>2 DEF Enter, Goto, Inside, TypeInv, TypeOK
    <3>4. \A s \in Inside : s \in Request
      BY Zenon DEF Inside
    <3> QED
      BY Zenon, <1>10, <3>3, <3>4 DEF Enter, At, Goto, history, CommitInv,
           TypeInv, TypeOK
  <2>2. CASE ~committed /\ ~\E s \in Request : At(s, "committing")
    BY Zenon, <1>10, <2>2 DEF Enter, At, Goto, history, CommitInv, TypeInv, TypeOK
  <2> QED
    BY Zenon, <2>1, <2>2
<1>11. ASSUME NEW r \in Request, Reject(r) PROVE CommitInv'
  <2>1. Inside' = Inside
    BY Zenon, <1>11 DEF Reject, At, Goto, Inside, TypeInv, TypeOK, RouteInv,
         Uncounted, Waiting
  <2>2. pc[r] \notin {"new", "done"} /\ route[r] \notin Uncounted => r \in Inside
    BY Zenon, <1>11 DEF Inside
  <2>3. \A s \in Inside : s \in Request /\ route[s] \notin Uncounted
    BY Zenon DEF Inside
  <2> QED
    BY Zenon, <1>11, <2>1, <2>2, <2>3 DEF Reject, At, Goto, gate, tasks, loop,
         wait, history, TypeInv, TypeOK, CommitInv, ChangeInv, Changing,
         RouteInv, Waiting, Uncounted
<1>12. ASSUME NEW r \in Request, Refuse(r) PROVE CommitInv'
  <2>1. Inside' = Inside
    BY Zenon, <1>12 DEF Refuse, At, Goto, Inside, TypeInv, TypeOK, RouteInv,
         Uncounted, Waiting
  <2>2. pc[r] \notin {"new", "done"} /\ route[r] \notin Uncounted => r \in Inside
    BY Zenon, <1>12 DEF Inside
  <2>3. \A s \in Inside : s \in Request /\ route[s] \notin Uncounted
    BY Zenon DEF Inside
  <2> QED
    BY Zenon, <1>12, <2>1, <2>2, <2>3 DEF Refuse, At, Goto, gate, tasks, loop,
         wait, history, TypeInv, TypeOK, CommitInv, ChangeInv, Changing,
         RouteInv, Waiting, Uncounted
<1>13. ASSUME NEW r \in Request, TakeLane(r) PROVE CommitInv'
  <2>1. Inside' = Inside
    BY Zenon, <1>13 DEF TakeLane, At, Goto, Inside, TypeInv, TypeOK, RouteInv,
         Uncounted, Waiting
  <2>2. pc[r] \notin {"new", "done"} /\ route[r] \notin Uncounted => r \in Inside
    BY Zenon, <1>13 DEF Inside
  <2>3. \A s \in Inside : s \in Request /\ route[s] \notin Uncounted
    BY Zenon DEF Inside
  <2> QED
    BY Zenon, <1>13, <2>1, <2>2, <2>3 DEF TakeLane, At, Goto, gate, tasks, loop,
         wait, history, TypeInv, TypeOK, CommitInv, ChangeInv, Changing,
         RouteInv, Waiting, Uncounted
<1>14. ASSUME NEW r \in Request, ReleaseLane(r) PROVE CommitInv'
  <2>1. Inside' = Inside
    BY Zenon, <1>14 DEF ReleaseLane, At, Goto, Inside, TypeInv, TypeOK, RouteInv,
         Uncounted, Waiting
  <2>2. pc[r] \notin {"new", "done"} /\ route[r] \notin Uncounted => r \in Inside
    BY Zenon, <1>14 DEF Inside
  <2>3. \A s \in Inside : s \in Request /\ route[s] \notin Uncounted
    BY Zenon DEF Inside
  <2> QED
    BY Zenon, <1>14, <2>1, <2>2, <2>3 DEF ReleaseLane, At, Goto, gate, tasks, loop,
         wait, history, TypeInv, TypeOK, CommitInv, ChangeInv, Changing,
         RouteInv, Waiting, Uncounted
<1>15. ASSUME NEW r \in Request, Leave(r) PROVE CommitInv'
  <2>1. Inside' = Inside \ {r}
    BY Zenon, <1>15 DEF Leave, At, Goto, Inside, TypeInv, TypeOK
  <2>2. \A s \in Request : At(s, "committing") => s # r
    BY Zenon, <1>15 DEF Leave, At
  <2>3. \A s \in Inside : s \in Request
    BY Zenon DEF Inside
  <2> QED
    BY Zenon, <1>15, <2>1, <2>2, <2>3 DEF Leave, At, Goto, history, CommitInv,
         TypeInv, TypeOK
<1>16. ASSUME NEW r \in Request, SubmitCheck(r) PROVE CommitInv'
  <2>1. Inside' = Inside
    BY <1>16 DEF SubmitCheck, At, Goto, Inside, TypeInv, TypeOK, RouteInv,
         Uncounted, Waiting
  <2>2. pc[r] \notin {"new", "done"} /\ route[r] \notin Uncounted => r \in Inside
    BY Zenon, <1>16 DEF Inside
  <2>3. \A s \in Inside : s \in Request /\ route[s] \notin Uncounted
    BY Zenon DEF Inside
  <2> QED
    BY Zenon, <1>16, <2>1, <2>2, <2>3 DEF SubmitCheck, At, Goto, gate, tasks, loop,
         wait, history, TypeInv, TypeOK, CommitInv, ChangeInv, Changing,
         RouteInv, Waiting, Uncounted
<1>17. ASSUME NEW r \in Request, SubmitInsert(r) PROVE CommitInv'
  <2>1. Inside' = Inside
    BY Zenon, <1>17 DEF SubmitInsert, At, Goto, Inside, TypeInv, TypeOK, RouteInv,
         Uncounted, Waiting
  <2>2. pc[r] \notin {"new", "done"} /\ route[r] \notin Uncounted => r \in Inside
    BY Zenon, <1>17 DEF Inside
  <2>3. \A s \in Inside : s \in Request /\ route[s] \notin Uncounted
    BY Zenon DEF Inside
  <2> QED
    BY <1>17, <2>1, <2>2, <2>3 DEF SubmitInsert, At, Goto, gate, tasks,
         loop, wait, history, TypeInv, TypeOK, CommitInv, ChangeInv,
         Changing, RouteInv, Waiting, Uncounted
<1>18. ASSUME NEW r \in Request, Retry(r) PROVE CommitInv'
  <2>1. Inside' = Inside
    BY Zenon, <1>18 DEF Retry, At, Goto, Inside, TypeInv, TypeOK, RouteInv,
         Uncounted, Waiting
  <2>2. pc[r] \notin {"new", "done"} /\ route[r] \notin Uncounted => r \in Inside
    BY Zenon, <1>18 DEF Inside
  <2>3. \A s \in Inside : s \in Request /\ route[s] \notin Uncounted
    BY Zenon DEF Inside
  <2> QED
    BY <1>18, <2>1, <2>2, <2>3 DEF Retry, At, Goto, gate, tasks, loop, wait,
         history, TypeInv, TypeOK, CommitInv, ChangeInv, Changing, RouteInv,
         Waiting, Uncounted
<1>19. ASSUME NEW r \in Request, Cancel(r) PROVE CommitInv'
  <2>1. Inside' = Inside
    BY <1>19 DEF Cancel, At, Goto, Inside, TypeInv, TypeOK, RouteInv,
         Uncounted, Waiting
  <2>2. pc[r] \notin {"new", "done"} /\ route[r] \notin Uncounted => r \in Inside
    BY Zenon, <1>19 DEF Inside
  <2>3. \A s \in Inside : s \in Request /\ route[s] \notin Uncounted
    BY Zenon DEF Inside
  <2> QED
    BY Zenon, <1>19, <2>1, <2>2, <2>3 DEF Cancel, At, Goto, gate, tasks, loop,
         wait, history, TypeInv, TypeOK, CommitInv, ChangeInv, Changing,
         RouteInv, Waiting, Uncounted
<1>20. ASSUME NEW r \in Request, DrainClose(r) PROVE CommitInv'
  <2>1. Inside' = Inside
    BY Zenon, <1>20 DEF DrainClose, At, Goto, Inside, TypeInv, TypeOK, RouteInv,
         Uncounted, Waiting
  <2>2. pc[r] \notin {"new", "done"} /\ route[r] \notin Uncounted => r \in Inside
    BY Zenon, <1>20 DEF Inside
  <2>3. \A s \in Inside : s \in Request /\ route[s] \notin Uncounted
    BY Zenon DEF Inside
  <2> QED
    BY Zenon, <1>20, <2>1, <2>2, <2>3 DEF DrainClose, At, Goto, gate, tasks, loop,
         wait, history, TypeInv, TypeOK, CommitInv, ChangeInv, Changing,
         RouteInv, Waiting, Uncounted
<1>21. ASSUME NEW r \in Request, DrainAnswer(r) PROVE CommitInv'
  <2>1. Inside' = Inside
    BY Zenon, <1>21 DEF DrainAnswer, At, Goto, Inside, TypeInv, TypeOK, RouteInv,
         Uncounted, Waiting
  <2>2. pc[r] \notin {"new", "done"} /\ route[r] \notin Uncounted => r \in Inside
    BY Zenon, <1>21 DEF Inside
  <2>3. \A s \in Inside : s \in Request /\ route[s] \notin Uncounted
    BY Zenon DEF Inside
  <2> QED
    BY <1>21, <2>1, <2>2, <2>3 DEF DrainAnswer, At, Goto, gate, tasks, loop,
         wait, history, TypeInv, TypeOK, CommitInv, ChangeInv, Changing,
         RouteInv, Waiting, Uncounted
<1>22. ASSUME NEW r \in Request, TransitionClose(r) PROVE CommitInv'
  <2>1. Inside' = Inside
    BY Zenon, <1>22 DEF TransitionClose, At, Goto, Inside, TypeInv, TypeOK,
         RouteInv, Uncounted, Waiting
  <2>2. pc[r] \notin {"new", "done"} /\ route[r] \notin Uncounted => r \in Inside
    BY Zenon, <1>22 DEF Inside
  <2>3. \A s \in Inside : s \in Request /\ route[s] \notin Uncounted
    BY Zenon DEF Inside
  <2> QED
    BY Zenon, <1>22, <2>1, <2>2, <2>3 DEF TransitionClose, At, Goto, gate, tasks,
         loop, wait, history, TypeInv, TypeOK, CommitInv, ChangeInv,
         Changing, RouteInv, Waiting, Uncounted
<1>23. ASSUME NEW r \in Request, TransitionConflict(r) PROVE CommitInv'
  <2>1. Inside' = Inside
    BY Zenon, <1>23 DEF TransitionConflict, At, Goto, Inside, TypeInv, TypeOK,
         RouteInv, Uncounted, Waiting
  <2>2. pc[r] \notin {"new", "done"} /\ route[r] \notin Uncounted => r \in Inside
    BY Zenon, <1>23 DEF Inside
  <2>3. \A s \in Inside : s \in Request /\ route[s] \notin Uncounted
    BY Zenon DEF Inside
  <2> QED
    BY Zenon, <1>23, <2>1, <2>2, <2>3 DEF TransitionConflict, At, Goto, gate,
         tasks, loop, wait, history, TypeInv, TypeOK, CommitInv, ChangeInv,
         Changing, RouteInv, Waiting, Uncounted
<1>24. ASSUME NEW r \in Request, TransitionFence(r) PROVE CommitInv'
  <2>1. Inside' = Inside
    BY Zenon, <1>24 DEF TransitionFence, At, Goto, Inside, TypeInv, TypeOK,
         RouteInv, Uncounted, Waiting
  <2>2. pc[r] \notin {"new", "done"} /\ route[r] \notin Uncounted => r \in Inside
    BY Zenon, <1>24 DEF Inside
  <2>3. \A s \in Inside : s \in Request /\ route[s] \notin Uncounted
    BY Zenon DEF Inside
  <2> QED
    BY <1>24, <2>1, <2>2, <2>3 DEF TransitionFence, At, Goto, gate, tasks,
         loop, wait, history, TypeInv, TypeOK, CommitInv, ChangeInv,
         Changing, RouteInv, Waiting, Uncounted
<1>25. ASSUME NEW r \in Request, TransitionRollback(r) PROVE CommitInv'
  <2>1. Inside' = Inside
    BY Zenon, <1>25 DEF TransitionRollback, At, Goto, Reopen, Inside, TypeInv,
         TypeOK, RouteInv, Uncounted, Waiting
  <2>2. pc[r] \notin {"new", "done"} /\ route[r] \notin Uncounted => r \in Inside
    BY Zenon, <1>25 DEF Inside
  <2>3. \A s \in Inside : s \in Request /\ route[s] \notin Uncounted
    BY Zenon DEF Inside
  <2> QED
    BY <1>25, <2>1, <2>2, <2>3 DEF TransitionRollback, At, Goto, Reopen,
         gate, tasks, loop, wait, history, TypeInv, TypeOK, CommitInv,
         ChangeInv, Changing, RouteInv, Waiting, Uncounted
<1>26. ASSUME NEW r \in Request, TransitionCount(r) PROVE CommitInv'
  <2>1. Inside' = Inside
    BY Zenon, <1>26 DEF TransitionCount, At, Goto, Inside, TypeInv, TypeOK,
         RouteInv, Uncounted, Waiting
  <2>2. pc[r] \notin {"new", "done"} /\ route[r] \notin Uncounted => r \in Inside
    BY Zenon, <1>26 DEF Inside
  <2>3. \A s \in Inside : s \in Request /\ route[s] \notin Uncounted
    BY Zenon DEF Inside
  <2> QED
    BY Zenon, <1>26, <2>1, <2>2, <2>3 DEF TransitionCount, At, Goto, gate, tasks,
         loop, wait, history, TypeInv, TypeOK, CommitInv, ChangeInv,
         Changing, RouteInv, Waiting, Uncounted
<1>27. ASSUME NEW r \in Request, TransitionStatus(r) PROVE CommitInv'
  <2>1. Inside' = Inside
    BY Zenon, <1>27 DEF TransitionStatus, At, Goto, Inside, TypeInv, TypeOK,
         RouteInv, Uncounted, Waiting
  <2>2. pc[r] \notin {"new", "done"} /\ route[r] \notin Uncounted => r \in Inside
    BY Zenon, <1>27 DEF Inside
  <2>3. \A s \in Inside : s \in Request /\ route[s] \notin Uncounted
    BY Zenon DEF Inside
  <2> QED
    BY Zenon, <1>27, <2>1, <2>2, <2>3 DEF TransitionStatus, At, Goto, gate, tasks,
         loop, wait, history, TypeInv, TypeOK, CommitInv, ChangeInv,
         Changing, RouteInv, Waiting, Uncounted
<1>28. ASSUME NEW r \in Request, TransitionFlights(r) PROVE CommitInv'
  <2>1. Inside' = Inside
    BY Zenon, <1>28 DEF TransitionFlights, At, Goto, Inside, TypeInv, TypeOK,
         RouteInv, Uncounted, Waiting
  <2>2. pc[r] \notin {"new", "done"} /\ route[r] \notin Uncounted => r \in Inside
    BY Zenon, <1>28 DEF Inside
  <2>3. \A s \in Inside : s \in Request /\ route[s] \notin Uncounted
    BY Zenon DEF Inside
  <2> QED
    BY <1>28, <2>1, <2>2, <2>3 DEF TransitionFlights, At, Goto, gate, tasks,
         loop, wait, history, TypeInv, TypeOK, CommitInv, ChangeInv,
         Changing, RouteInv, Waiting, Uncounted
<1>29. ASSUME NEW r \in Request, TransitionTryLane(r) PROVE CommitInv'
  <2>1. Inside' = Inside
    BY Zenon, <1>29 DEF TransitionTryLane, At, Goto, Inside, TypeInv, TypeOK,
         RouteInv, Uncounted, Waiting
  <2>2. pc[r] \notin {"new", "done"} /\ route[r] \notin Uncounted => r \in Inside
    BY Zenon, <1>29 DEF Inside
  <2>3. \A s \in Inside : s \in Request /\ route[s] \notin Uncounted
    BY Zenon DEF Inside
  <2> QED
    BY Zenon, <1>29, <2>1, <2>2, <2>3 DEF TransitionTryLane, At, Goto, gate, tasks,
         loop, wait, history, TypeInv, TypeOK, CommitInv, ChangeInv,
         Changing, RouteInv, Waiting, Uncounted
<1>30. ASSUME NEW r \in Request, TransitionRecount(r) PROVE CommitInv'
  <2>1. Inside' = Inside
    BY Zenon, <1>30 DEF TransitionRecount, At, Goto, Inside, TypeInv, TypeOK,
         RouteInv, Uncounted, Waiting
  <2>2. pc[r] \notin {"new", "done"} /\ route[r] \notin Uncounted => r \in Inside
    BY Zenon, <1>30 DEF Inside
  <2>3. \A s \in Inside : s \in Request /\ route[s] \notin Uncounted
    BY Zenon DEF Inside
  <2> QED
    BY Zenon, <1>30, <2>1, <2>2, <2>3 DEF TransitionRecount, At, Goto, gate, tasks,
         loop, wait, history, TypeInv, TypeOK, CommitInv, ChangeInv,
         Changing, RouteInv, Waiting, Uncounted
<1>31. ASSUME NEW r \in Request, TransitionRestatus(r) PROVE CommitInv'
  <2>1. Inside' = Inside
    BY Zenon, <1>31 DEF TransitionRestatus, At, Goto, Inside, TypeInv, TypeOK,
         RouteInv, Uncounted, Waiting
  <2>2. pc[r] \notin {"new", "done"} /\ route[r] \notin Uncounted => r \in Inside
    BY Zenon, <1>31 DEF Inside
  <2>3. \A s \in Inside : s \in Request /\ route[s] \notin Uncounted
    BY Zenon DEF Inside
  <2> QED
    BY Zenon, <1>31, <2>1, <2>2, <2>3 DEF TransitionRestatus, At, Goto, gate,
         tasks, loop, wait, history, TypeInv, TypeOK, CommitInv, ChangeInv,
         Changing, RouteInv, Waiting, Uncounted
<1>32. ASSUME NEW r \in Request, TransitionSeal(r) PROVE CommitInv'
  <2>1. Inside' = Inside
    BY Zenon, <1>32 DEF TransitionSeal, At, Goto, Inside, TypeInv, TypeOK
  <2>2. r \in Inside /\ Changing(r)
    BY Zenon, <1>32 DEF TransitionSeal, At, Inside, RouteInv, Changing, Waiting,
         Uncounted
  <2>3. ~committed /\ ~committed'
    BY Zenon, <1>32, <2>2 DEF TransitionSeal, At, CommitInv, history
  <2>4. \A s \in Request : ~At(s, "committing")
    BY <1>32, <2>2 DEF TransitionSeal, At, ChangeInv, Changing
  <2>5. CASE clear /\ inFlight <= 1
    <3>1. Inside = {r}
      BY Zenon, <2>2, <2>5, InsideFinite, OnlyOne DEF InFlightIsExact
    <3> QED
      BY Zenon, <1>32, <2>1, <2>3, <2>4, <2>5, <3>1 DEF TransitionSeal, At, Goto,
           CommitInv, TypeInv, TypeOK
  <2>6. CASE ~(clear /\ inFlight <= 1)
    BY <1>32, <2>3, <2>4, <2>6 DEF TransitionSeal, At, Goto, CommitInv,
         TypeInv, TypeOK
  <2> QED
    BY Zenon, <2>5, <2>6
<1>33. ASSUME NEW r \in Request, TransitionQueryFails(r) PROVE CommitInv'
  <2>1. Inside' = Inside
    BY Zenon, <1>33 DEF TransitionQueryFails, At, Goto, Inside, TypeInv, TypeOK,
         RouteInv, Uncounted, Waiting
  <2>2. pc[r] \notin {"new", "done"} /\ route[r] \notin Uncounted => r \in Inside
    BY Zenon, <1>33 DEF Inside
  <2>3. \A s \in Inside : s \in Request /\ route[s] \notin Uncounted
    BY Zenon DEF Inside
  <2> QED
    BY <1>33, <2>1, <2>2, <2>3 DEF TransitionQueryFails, At, Goto, gate,
         tasks, loop, wait, history, TypeInv, TypeOK, CommitInv, ChangeInv,
         Changing, RouteInv, Waiting, Uncounted
<1>34. ASSUME NEW r \in Request, TransitionSleep(r) PROVE CommitInv'
  <2>1. Inside' = Inside
    BY Zenon, <1>34 DEF TransitionSleep, At, Goto, Inside, TypeInv, TypeOK,
         RouteInv, Uncounted, Waiting
  <2>2. pc[r] \notin {"new", "done"} /\ route[r] \notin Uncounted => r \in Inside
    BY Zenon, <1>34 DEF Inside
  <2>3. \A s \in Inside : s \in Request /\ route[s] \notin Uncounted
    BY Zenon DEF Inside
  <2> QED
    BY <1>34, <2>1, <2>2, <2>3 DEF TransitionSleep, At, Goto, gate, tasks,
         loop, wait, history, TypeInv, TypeOK, CommitInv, ChangeInv,
         Changing, RouteInv, Waiting, Uncounted
<1>35. ASSUME NEW r \in Request, TransitionCommit(r) PROVE CommitInv'
  <2>1. Inside' = Inside
    BY <1>35 DEF TransitionCommit, At, Goto, Inside, TypeInv, TypeOK,
         RouteInv, Uncounted, Waiting
  <2>2. pc[r] \notin {"new", "done"} /\ route[r] \notin Uncounted => r \in Inside
    BY Zenon, <1>35 DEF Inside
  <2>3. \A s \in Inside : s \in Request /\ route[s] \notin Uncounted
    BY Zenon DEF Inside
  <2> QED
    BY Zenon, <1>35, <2>1, <2>2, <2>3 DEF TransitionCommit, At, Goto, gate, tasks,
         loop, wait, history, TypeInv, TypeOK, CommitInv, ChangeInv,
         Changing, RouteInv, Waiting, Uncounted
<1>36. ASSUME NEW r \in Request, TransitionUndo(r) PROVE CommitInv'
  <2>1. Inside' = Inside
    BY Zenon, <1>36 DEF TransitionUndo, At, Goto, Reopen, Inside, TypeInv, TypeOK,
         RouteInv, Uncounted, Waiting
  <2>2. pc[r] \notin {"new", "done"} /\ route[r] \notin Uncounted => r \in Inside
    BY Zenon, <1>36 DEF Inside
  <2>3. \A s \in Inside : s \in Request /\ route[s] \notin Uncounted
    BY Zenon DEF Inside
  <2> QED
    BY Zenon, <1>36, <2>1, <2>2, <2>3 DEF TransitionUndo, At, Goto, Reopen, gate,
         tasks, loop, wait, history, TypeInv, TypeOK, CommitInv, ChangeInv,
         Changing, RouteInv, Waiting, Uncounted
<1> QED
  BY Zenon, <1>1, <1>2, <1>3, <1>4, <1>5, <1>6, <1>7, <1>8, <1>9, <1>10, <1>11,
       <1>12, <1>13, <1>14, <1>15, <1>16, <1>17, <1>18, <1>19, <1>20, <1>21,
       <1>22, <1>23, <1>24, <1>25, <1>26, <1>27, <1>28, <1>29, <1>30, <1>31,
       <1>32, <1>33, <1>34, <1>35, <1>36 DEF Next, WorkerStep, Handle

\* A service that has not handled a request is in no change of mode.
LEMMA InitCommit == Init => ChangeInv /\ CommitInv
  BY Zenon DEF Init, ChangeInv, CommitInv, Changing, Waiting, At

\* The invariants of a change of mode hold together.
LEMMA ChangeSafe == Spec => [](LaneInv /\ ChangeInv /\ CommitInv)
<1>1. Spec => []TypeInv
  BY InitTypes, TypesStep, PTL DEF Spec
<1>2. Spec => []RouteInv
  BY <1>1, InitCount, RouteStep, PTL DEF Spec
<1>3. Spec => []InFlightIsExact
  BY Zenon, InFlightAlwaysExact
<1>4. Spec => []ChangeInv
  BY <1>1, InitCommit, ChangeStep, PTL DEF Spec
<1>5. Spec => []CommitInv
  BY <1>1, <1>2, <1>3, <1>4, InitCommit, CommitStep, PTL DEF Spec
<1>6. Init => LaneInv
  BY Zenon, AdmissionAssumption DEF Init, LaneInv, HoldsLane
<1>7. Spec => []LaneInv
  BY <1>1, <1>6, LaneStep, PTL DEF Spec
<1> QED
  BY <1>4, <1>5, <1>7, PTL

\* Whatever requests are under way, another acquisition mode is published by a
\* request that is alone in a closed service and holds the command lane.
THEOREM CommitAlwaysQuiet == Spec => []CommitIsQuiet
<1>1. LaneInv /\ ChangeInv /\ CommitInv => CommitIsQuiet
  BY Zenon DEF LaneInv, HoldsLane, ChangeInv, Changing, CommitInv, CommitIsQuiet, At
<1> QED
  BY <1>1, ChangeSafe, PTL

\* No rollback and no failed wait reopens the service after a published change.
THEOREM CommittedAlwaysClosed == Spec => []CommittedStaysClosed
<1>1. CommitInv => CommittedStaysClosed
  BY Zenon DEF CommitInv, CommittedStaysClosed
<1> QED
  BY <1>1, ChangeSafe, PTL

\* The promises of admission hold together, for any number of requests.
THEOREM AdmissionAlwaysSafe == Spec => []AdmissionSafety
<1>1. TypeOK /\ InFlightIsExact /\ LaneIsExclusive /\ CommitIsQuiet /\ CommittedStaysClosed
        => AdmissionSafety
  BY Zenon DEF AdmissionSafety
<1> QED
  BY <1>1, AdmissionTypes, InFlightAlwaysExact, LaneAlwaysExclusive, CommitAlwaysQuiet,
     CommittedAlwaysClosed, PTL

-----------------------------------------------------------------------------
(***************************************************************************)
(* TriggerGateway, for any number of connections, messages, deliveries and *)
(* seconds.                                                                *)
(***************************************************************************)

-----------------------------------------------------------------------------
(* The inductive invariant *)

GwState == [pc : {"idle", "operator", "auth", "admit", "forward"},
            msg : TriggerMessage \cup {GwIdle.msg}, mode : {"api", "manual"}, now : Nat,
            by : {"signature", "operator"}]

TriggerTypes ==
  /\ gwMode \in {"api", "manual"}
  /\ gwAccepting \in BOOLEAN
  /\ gwInFlight \in Nat
  /\ nonces \in [Nonce -> Nat \cup {Unseen}]
  /\ gwClock \in Nat
  /\ stamps \in [TriggerMessage -> Nat \cup {Unseen}]
  /\ gw \in [TriggerThread -> GwState]
  /\ forwarded \in [TriggerMessage -> Nat]
  /\ gwLatest \in Nat

\* A thread at work has a signed message of its own transport, and the manual
\* controls are on the way of the operator's check.
Serving ==
  \A t \in TriggerThread : gw[t].pc # "idle" =>
    /\ gw[t].msg \in TriggerMessage /\ Serves(t, gw[t].msg)
    /\ stamps[gw[t].msg] # Unseen
    /\ gw[t].pc = "auth" => gw[t].by = "signature"
    /\ gw[t].pc = "operator" => gw[t].by = "operator"
    /\ ManualPath(gw[t].msg) => gw[t].by = "operator"

\* The nonce of the message has been used up: it is in the table, stored not
\* before the message was signed, or it was purged by a time at which the
\* message is out of the window.
Spent(m) ==
  \/ gwLatest - stamps[m] > AuthWindow
  \/ nonces[m.nonce] # Unseen /\ nonces[m.nonce] >= stamps[m]

\* A thread is past the check of a signature.
Passed(t) == gw[t].pc \in {"admit", "forward"} /\ gw[t].by = "signature"

\* A message that is past its authentication is spent ...
PassedIsSpent ==
  AuthRequired =>
    \A t \in TriggerThread : Passed(t) /\ gw[t].msg \notin outOfOrder => Spent(gw[t].msg)

ForwardedIsSpent ==
  AuthRequired =>
    \A m \in TriggerMessage \ outOfOrder : forwarded[m] > 0 => stamps[m] # Unseen /\ Spent(m)

\* ... in the hands of one thread, and was not forwarded before.
PassedOnce ==
  AuthRequired =>
    \A t \in TriggerThread : Passed(t) /\ gw[t].msg \notin outOfOrder =>
      /\ forwarded[gw[t].msg] = 0
      /\ \A u \in TriggerThread : Passed(u) /\ gw[u].msg = gw[t].msg => u = t

TriggerInv ==
  /\ TriggerTypes /\ Serving
  /\ PassedIsSpent /\ ForwardedIsSpent /\ PassedOnce
  /\ TriggerInFlightExact /\ DrainAdmitsCompletionsOnly /\ ForwardedOnce /\ ManualOnlyInManual

-----------------------------------------------------------------------------
(* Facts *)

Forwarding == {t \in TriggerThread : gw[t].pc = "forward"}

\* The threads of the gateway are finitely many, so those that forward can be
\* counted.
LEMMA ForwardingFinite == IsFiniteSet(Forwarding)
<1>1. IsFiniteSet({HttpLoop} \cup {UdpLoop})
  BY Zenon, FS_Singleton, FS_Union
<1>2. IsFiniteSet(TriggerThread)
  <2>1. TriggerThread = ({HttpLoop} \cup {UdpLoop}) \cup TcpConnection
    BY Zenon DEF TriggerThread
  <2> QED
    BY Zenon, <1>1, <2>1, TriggerAssumption, FS_Union
<1> QED
  BY Zenon, <1>2, FS_Subset DEF Forwarding

\* The idle state of a thread is a state of a thread.
LEMMA IdleState == GwIdle \in GwState /\ GwIdle.pc = "idle"
  BY Zenon DEF GwIdle, GwState

\* A manual control is served by the HTTP loop alone (handle_client).
LEMMA ManualIsHttp ==
  ASSUME NEW t, NEW m \in TriggerMessage, ManualPath(m), Serves(t, m)
  PROVE  t = HttpLoop
  BY Zenon, TriggerAssumption DEF ManualPath, Serves

\* What is left of the table of nonces after a purge is such a table.
LEMMA RetainedType ==
  ASSUME TriggerTypes, NEW now \in Nat
  PROVE  /\ Retained(now) \in [Nonce -> Nat \cup {Unseen}]
         /\ \A n \in Nonce : Retained(now)[n] = IF nonces[n] # Unseen /\ nonces[n] >= now - AuthWindow
                                               THEN nonces[n] ELSE Unseen
  BY Zenon DEF TriggerTypes, Retained

\* What a check of a signature does to the table: nothing, or a purge by its
\* time, and the nonce of a message stored with that time.
Purged(now) ==
  /\ gwLatest' \in Nat /\ gwLatest' >= gwLatest
  /\ \/ nonces' = nonces
     \/ nonces' = Retained(now) /\ gwLatest' >= now

\* A message once spent stays spent while the table of nonces only drops what
\* has left the window at the time of the purge.
LEMMA SpentStays ==
  ASSUME TriggerTypes, TriggerTypes', NEW m \in TriggerMessage, stamps[m] # Unseen,
         stamps'[m] = stamps[m], Spent(m), NEW now \in Nat, gwLatest' >= gwLatest,
         \/ nonces'[m.nonce] = nonces[m.nonce]
         \/ nonces'[m.nonce] = Retained(now)[m.nonce] /\ gwLatest' >= now
         \/ nonces'[m.nonce] = now /\ gwLatest' >= now /\ Retained(now)[m.nonce] = Unseen
  PROVE  Spent(m)'
<1>t. /\ m.nonce \in Nonce
      /\ AuthWindow \in Nat /\ gwLatest \in Nat /\ gwLatest' \in Nat
      /\ stamps[m] \in Nat
  BY Zenon, TriggerAssumption DEF TriggerTypes, Nonce
<1>n. nonces[m.nonce] \in Nat \cup {Unseen} /\ nonces'[m.nonce] \in Nat \cup {Unseen}
  BY Zenon, <1>t DEF TriggerTypes
<1>r. Retained(now)[m.nonce] = IF nonces[m.nonce] # Unseen /\ nonces[m.nonce] >= now - AuthWindow
                               THEN nonces[m.nonce] ELSE Unseen
  BY Zenon, <1>t, RetainedType
<1> QED
  BY <1>t, <1>n, <1>r DEF Spent, Unseen

-----------------------------------------------------------------------------
(* The steps *)

\* A gateway that has just started satisfies the invariant.
LEMMA TriggerInitInv == TriggerInit => TriggerInv
<1> SUFFICES ASSUME TriggerInit PROVE TriggerInv
  BY Zenon
<1>1. \A t \in TriggerThread : gw[t].pc = "idle"
  BY Zenon, IdleState DEF TriggerInit
<1>2. TriggerTypes
  BY Zenon, IdleState DEF TriggerInit, TriggerTypes
<1>3. TriggerInFlightExact
  <2>1. {t \in TriggerThread : gw[t].pc = "forward"} = {}
    BY Zenon, <1>1
  <2> QED
    BY Zenon, <2>1, FS_EmptySet DEF TriggerInFlightExact, TriggerInit
<1>5. Serving /\ PassedIsSpent /\ PassedOnce /\ ManualOnlyInManual
  BY Zenon, <1>1 DEF Serving, PassedIsSpent, PassedOnce, ManualOnlyInManual, Passed
<1>6. ForwardedIsSpent /\ ForwardedOnce /\ DrainAdmitsCompletionsOnly
  BY DEF TriggerInit, ForwardedIsSpent, ForwardedOnce, DrainAdmitsCompletionsOnly
<1> QED
  BY Zenon, <1>2, <1>3, <1>5, <1>6 DEF TriggerInv

\* A thread that comes back to idle, or was idle and takes a message in, and
\* forwards in neither state, disturbs nothing but itself.
LEMMA ThreadKeeps ==
  ASSUME TriggerInv, NEW t \in TriggerThread, NEW s \in GwState,
         gw' = [gw EXCEPT ![t] = s], gw[t].pc # "forward",
         s.pc \in {"idle", "operator", "auth"},
         s.pc # "idle" => /\ s.msg \in TriggerMessage /\ Serves(t, s.msg)
                          /\ stamps[s.msg] # Unseen
                          /\ ManualPath(s.msg) => s.mode = gwMode /\ s.by = "operator"
                          /\ s.pc = "auth" => s.by = "signature"
                          /\ s.pc = "operator" => s.by = "operator",
         NEW now \in Nat, Purged(now),
         UNCHANGED <<gwMode, gwAccepting, gwInFlight, gwClock, stamps, forwarded, lateEntry, outOfOrder>>
  PROVE  TriggerInv'
<1>t. /\ TriggerTypes /\ gw \in [TriggerThread -> GwState]
      /\ gw'[t] = s
      /\ \A u \in TriggerThread : u # t => gw'[u] = gw[u]
  BY Zenon DEF TriggerInv, TriggerTypes
<1>1. TriggerTypes'
  <2>1. Retained(now) \in [Nonce -> Nat \cup {Unseen}]
    BY Zenon, <1>t, RetainedType
  <2> QED
    BY Zenon, <1>t, <2>1 DEF TriggerTypes, Purged
<1>2. Serving'
  BY Zenon, <1>t DEF TriggerInv, Serving
<1>s. ASSUME NEW m \in TriggerMessage, stamps[m] # Unseen, Spent(m) PROVE Spent(m)'
  <2>1. gwLatest' >= gwLatest
    BY <1>t DEF TriggerTypes, Purged
  <2>2. \/ nonces'[m.nonce] = nonces[m.nonce]
        \/ nonces'[m.nonce] = Retained(now)[m.nonce] /\ gwLatest' >= now
    <3>1. CASE nonces' = nonces
      BY <3>1
    <3>2. CASE nonces' = Retained(now) /\ gwLatest' >= now
      BY Zenon, <3>2
    <3> QED
      BY Zenon, <3>1, <3>2 DEF Purged
  <2>3. stamps'[m] = stamps[m]
    BY Zenon
  <2> QED
    BY Zenon, <1>t, <1>1, <1>s, <2>1, <2>2, <2>3, SpentStays
<1>4. PassedIsSpent'
  <2> SUFFICES ASSUME AuthRequired, NEW u \in TriggerThread, Passed(u)', gw'[u].msg \notin outOfOrder'
               PROVE  Spent(gw[u].msg)'
    BY Zenon DEF PassedIsSpent
  <2>1. u # t /\ gw'[u] = gw[u] /\ gw[u].pc # "idle" /\ Passed(u)
    BY Zenon, <1>t DEF Passed
  <2>2. gw[u].msg \in TriggerMessage /\ stamps[gw[u].msg] # Unseen
    BY Zenon, <2>1 DEF TriggerInv, Serving
  <2>a. gw[u].msg \notin outOfOrder
    BY SMT, <2>1
  <2>b. PassedIsSpent
    BY Zenon DEF TriggerInv
  <2>3. Spent(gw[u].msg)
    BY Zenon, <2>1, <2>a, <2>b DEF PassedIsSpent
  <2>4. PICK m \in TriggerMessage : m = gw[u].msg
    BY Zenon, <2>2
  <2>5. Spent(m)'
    BY Zenon, <1>s, <2>2, <2>3, <2>4
  <2> QED
    BY Zenon, <2>1, <2>4, <2>5
<1>5. ForwardedIsSpent'
  BY Zenon, <1>s DEF TriggerInv, ForwardedIsSpent
<1>6. PassedOnce'
  BY <1>t DEF TriggerInv, PassedOnce, Passed
<1>7. TriggerInFlightExact'
  <2>1. {u \in TriggerThread : gw'[u].pc = "forward"} = {u \in TriggerThread : gw[u].pc = "forward"}
    BY Zenon, <1>t
  <2> QED
    BY Zenon, <2>1 DEF TriggerInv, TriggerInFlightExact
<1>8. DrainAdmitsCompletionsOnly' /\ ForwardedOnce'
  BY Zenon DEF TriggerInv, DrainAdmitsCompletionsOnly, ForwardedOnce
<1>9. ManualOnlyInManual'
  BY Zenon, <1>t DEF TriggerInv, ManualOnlyInManual
<1> QED
  BY Zenon, <1>1, <1>2, <1>4, <1>5, <1>6, <1>7, <1>8, <1>9 DEF TriggerInv

\* A message arrives at a thread that serves its transport.
LEMMA DeliverKeeps ==
  ASSUME TriggerInv, NEW t \in TriggerThread, NEW m \in TriggerMessage,
         NEW by \in {"signature", "operator"}, Deliver(t, m, by)
  PROVE  TriggerInv'
<1> DEFINE mode == IF m.transport = "http" THEN gwMode ELSE "api"
           now == IF by = "operator" THEN 0 ELSE gwClock
           s == [pc |-> IF by = "operator" THEN "operator" ELSE "auth", msg |-> m, mode |-> mode,
                 now |-> now, by |-> by]
<1>g. gwMode \in {"api", "manual"} /\ gwClock \in Nat /\ gwLatest \in Nat
  BY Zenon DEF TriggerInv, TriggerTypes
<1>h. mode \in {"api", "manual"} /\ now \in Nat
  BY <1>g
<1>m. ManualPath(m) => mode = gwMode /\ by = "operator"
  BY Zenon, TriggerAssumption DEF Deliver, ManualPath
<1> HIDE DEF mode, now
<1>1. /\ s \in GwState /\ s.pc \in {"idle", "operator", "auth"} /\ s.msg = m /\ s.mode = mode /\ s.by = by
      /\ (s.pc = "auth" => s.by = "signature") /\ (s.pc = "operator" => s.by = "operator")
  BY Zenon, <1>h DEF GwState
<1>2. PICK c \in GwState : c = s
  BY Zenon, <1>1
<1>3. gw' = [gw EXCEPT ![t] = c] /\ gw[t].pc # "forward" /\ Serves(t, m) /\ stamps[m] # Unseen
  BY Zenon, <1>2 DEF Deliver, mode, now
<1>4. UNCHANGED <<gwMode, gwAccepting, gwInFlight, nonces, gwClock, stamps, forwarded, lateEntry, gwLatest,
                  outOfOrder>>
  BY Zenon DEF Deliver, gwHistory
<1>5. Purged(0)
  BY <1>4, <1>g DEF Purged
<1> QED
  BY Zenon, <1>1, <1>2, <1>3, <1>4, <1>5, <1>m, ThreadKeeps

\* A thread that gives up its message is idle again.
LEMMA DoneKeeps ==
  ASSUME TriggerInv, NEW t \in TriggerThread, GwDone(t), gw[t].pc # "forward",
         NEW now \in Nat, Purged(now),
         UNCHANGED <<gwMode, gwAccepting, gwInFlight, gwClock, stamps, forwarded, lateEntry, outOfOrder>>
  PROVE  TriggerInv'
  BY Zenon, ThreadKeeps, IdleState DEF GwDone

\* A thread that goes on to admit_trigger: nobody else is past the
\* authentication with its message, which is spent from here on.
LEMMA PassKeeps ==
  ASSUME TriggerInv, TriggerTypes', NEW t \in TriggerThread,
         gw[t].pc \in {"auth", "operator"}, gw' = [gw EXCEPT ![t].pc = "admit"],
         outOfOrder \subseteq outOfOrder',
         AuthRequired /\ gw[t].by = "signature" /\ gw[t].msg \notin outOfOrder' =>
           /\ Spent(gw[t].msg)'
           /\ forwarded[gw[t].msg] = 0
           /\ \A u \in TriggerThread : Passed(u) => gw[u].msg # gw[t].msg,
         ManualPath(gw[t].msg) => gw[t].mode = gwMode,
         \A m \in TriggerMessage : AuthRequired /\ stamps[m] # Unseen /\ Spent(m) => Spent(m)',
         UNCHANGED <<gwMode, gwAccepting, gwInFlight, gwClock, stamps, forwarded, lateEntry>>
  PROVE  TriggerInv'
<1>t. /\ gw'[t].pc = "admit" /\ gw'[t].msg = gw[t].msg /\ gw'[t].mode = gw[t].mode /\ gw'[t].by = gw[t].by
      /\ \A u \in TriggerThread : u # t => gw'[u] = gw[u]
  BY DEF TriggerInv, TriggerTypes, GwState
<1>2. Serving'
  <2>1. Serving
    BY Zenon DEF TriggerInv
  <2>2. gw[t].pc # "idle"
    BY Zenon
  <2>3. /\ gw[t].msg \in TriggerMessage /\ Serves(t, gw[t].msg) /\ stamps[gw[t].msg] # Unseen
        /\ ManualPath(gw[t].msg) => gw[t].by = "operator"
    BY Zenon, <2>1, <2>2 DEF Serving
  <2>4. ASSUME NEW u \in TriggerThread, u # t, gw'[u].pc # "idle"
        PROVE  /\ gw[u].msg \in TriggerMessage /\ Serves(u, gw[u].msg) /\ stamps[gw[u].msg] # Unseen
               /\ gw[u].pc = "auth" => gw[u].by = "signature"
               /\ gw[u].pc = "operator" => gw[u].by = "operator"
               /\ ManualPath(gw[u].msg) => gw[u].by = "operator"
    BY Zenon, <1>t, <2>1, <2>4 DEF Serving
  <2> SUFFICES ASSUME NEW u \in TriggerThread, gw'[u].pc # "idle"
               PROVE  /\ gw'[u].msg \in TriggerMessage /\ Serves(u, gw'[u].msg)
                      /\ stamps'[gw'[u].msg] # Unseen
                      /\ gw'[u].pc = "auth" => gw'[u].by = "signature"
                      /\ gw'[u].pc = "operator" => gw'[u].by = "operator"
                      /\ ManualPath(gw'[u].msg) => gw'[u].by = "operator"
    BY Zenon DEF Serving, Serves, ManualPath
  <2>5. CASE u = t
    BY Zenon, <1>t, <2>3, <2>5
  <2>6. CASE u # t
    BY Zenon, <1>t, <2>4, <2>6
  <2> QED
    BY Zenon, <2>5, <2>6
<1>4. PassedIsSpent'
  <2> SUFFICES ASSUME AuthRequired, NEW u \in TriggerThread, Passed(u)', gw'[u].msg \notin outOfOrder'
               PROVE  Spent(gw[u].msg)'
    BY Zenon DEF PassedIsSpent
  <2>1. CASE u = t
    BY Zenon, <1>t, <2>1 DEF Passed
  <2>2. CASE u # t
    <3>1. gw'[u] = gw[u] /\ gw[u].pc # "idle" /\ Passed(u)
      BY Zenon, <1>t, <2>2 DEF Passed
    <3>2. gw[u].msg \in TriggerMessage /\ stamps[gw[u].msg] # Unseen
      BY Zenon, <3>1 DEF TriggerInv, Serving
    <3>3. Spent(gw[u].msg)
      BY Zenon, <3>1 DEF TriggerInv, PassedIsSpent
    <3>4. PICK m \in TriggerMessage : m = gw[u].msg
      BY Zenon, <3>2
    <3>5. Spent(m)'
      BY Zenon, <3>2, <3>3, <3>4
    <3> QED
      BY Zenon, <3>1, <3>4, <3>5
  <2> QED
    BY Zenon, <2>1, <2>2
<1>5. ForwardedIsSpent'
  BY Zenon DEF TriggerInv, ForwardedIsSpent
<1>6. PassedOnce'
  <2> SUFFICES ASSUME AuthRequired, NEW u \in TriggerThread, Passed(u)', gw'[u].msg \notin outOfOrder'
               PROVE  /\ forwarded'[gw'[u].msg] = 0
                      /\ \A v \in TriggerThread : Passed(v)' /\ gw'[v].msg = gw'[u].msg => v = u
    BY Zenon DEF PassedOnce
  <2>1. \A v \in TriggerThread : v # t => (Passed(v)' <=> Passed(v)) /\ gw'[v].msg = gw[v].msg
    BY Zenon, <1>t DEF Passed
  <2>2. gw[t].by = "signature" <=> Passed(t)'
    BY Zenon, <1>t DEF Passed
  <2>3. CASE u = t
    BY Zenon, <1>t, <2>1, <2>2, <2>3
  <2>4. CASE u # t
    <3>1. PassedOnce /\ gw'[u].msg = gw[u].msg /\ Passed(u) /\ gw[u].msg \notin outOfOrder
      BY Zenon, <2>1, <2>4 DEF TriggerInv
    <3>2. /\ forwarded[gw[u].msg] = 0
          /\ \A v \in TriggerThread : Passed(v) /\ gw[v].msg = gw[u].msg => v = u
      BY Zenon, <3>1 DEF PassedOnce
    <3>3. ASSUME Passed(t)', gw'[t].msg = gw'[u].msg PROVE FALSE
      BY Zenon, <1>t, <2>2, <3>1, <3>3
    <3> QED
      BY Zenon, <2>1, <3>1, <3>2, <3>3
  <2> QED
    BY Zenon, <2>3, <2>4
<1>7. TriggerInFlightExact'
  <2>1. {u \in TriggerThread : gw'[u].pc = "forward"} = {u \in TriggerThread : gw[u].pc = "forward"}
    BY Zenon, <1>t
  <2> QED
    BY Zenon, <2>1 DEF TriggerInv, TriggerInFlightExact
<1>8. DrainAdmitsCompletionsOnly' /\ ForwardedOnce'
  BY Zenon DEF TriggerInv, DrainAdmitsCompletionsOnly, ForwardedOnce
<1>9. ManualOnlyInManual'
  BY Zenon, <1>t DEF TriggerInv, ManualOnlyInManual
<1> QED
  BY Zenon, <1>2, <1>4, <1>5, <1>6, <1>7, <1>8, <1>9 DEF TriggerInv

\* authenticate_message lets a message in only while its nonce is unknown,
\* and so not twice within the window; after the window it lets nothing in.
LEMMA AuthenticateKeeps ==
  ASSUME TriggerInv, NEW t \in TriggerThread, NEW genuine \in BOOLEAN, Authenticate(t, genuine)
  PROVE  TriggerInv'
<1> DEFINE now == gw[t].now
<1>a. /\ gw[t].pc = "auth"
      /\ UNCHANGED <<gwMode, gwAccepting, gwInFlight, gwClock, stamps, forwarded, lateEntry>>
  BY Zenon DEF Authenticate
<1>t. /\ TriggerTypes /\ gw \in [TriggerThread -> GwState] /\ gwLatest \in Nat
      /\ gw[t].msg \in TriggerMessage /\ stamps[gw[t].msg] # Unseen /\ ~ManualPath(gw[t].msg)
  BY Zenon, <1>a DEF TriggerInv, TriggerTypes, Serving
<1>w. now \in Nat /\ AuthWindow \in Nat
  BY Zenon, <1>t, TriggerAssumption DEF GwState
<1>g. [gw EXCEPT ![t].pc = "admit"] \in [TriggerThread -> GwState]
  BY Zenon, <1>t DEF GwState
<1>1. CASE ~AuthRequired
  <2>1. gw' = [gw EXCEPT ![t].pc = "admit"] /\ UNCHANGED <<nonces, gwLatest, outOfOrder>>
    BY Zenon, <1>1 DEF Authenticate, gwHistory
  <2>2. TriggerTypes'
    BY Zenon, <1>a, <1>g, <1>t, <2>1 DEF TriggerTypes
  <2> QED
    BY Zenon, <1>1, <1>a, <1>t, <2>1, <2>2, PassKeeps
<1>2. CASE AuthRequired /\ gw' # [gw EXCEPT ![t].pc = "admit"]
  <2>1. /\ GwDone(t) /\ outOfOrder' = outOfOrder
        /\ nonces' = nonces \/ nonces' = Retained(now)
        /\ nonces' # nonces => genuine /\ InWindow(stamps[gw[t].msg], now)
        /\ gwLatest' = IF (genuine /\ InWindow(stamps[gw[t].msg], now)) /\ now > gwLatest THEN now ELSE gwLatest
    BY Zenon, <1>2 DEF Authenticate
  <2>2. Purged(now)
    <3>1. gwLatest' \in Nat /\ gwLatest' >= gwLatest
      BY <1>t, <1>w, <2>1
    <3>2. nonces' # nonces => gwLatest' >= now
      BY <1>t, <1>w, <2>1
    <3> QED
      BY Zenon, <2>1, <3>1, <3>2 DEF Purged
  <2> QED
    BY Zenon, <1>a, <1>w, <2>1, <2>2, DoneKeeps
<1>3. CASE AuthRequired /\ gw' = [gw EXCEPT ![t].pc = "admit"]
  <2>i. GwIdle # [gw[t] EXCEPT !.pc = "admit"]
    BY Zenon, <1>t, IdleState DEF GwState
  <2>j. ~GwDone(t)
    BY Zenon, <1>3, <1>t, <2>i, IdleState DEF GwDone, GwState
  <2>2. PICK q \in TriggerMessage : q = gw[t].msg
    BY Zenon, <1>t
  <2>1. /\ InWindow(stamps[q], now) /\ Retained(now)[q.nonce] = Unseen
        /\ nonces' = [Retained(now) EXCEPT ![q.nonce] = now]
        /\ gwLatest' = IF now > gwLatest THEN now ELSE gwLatest
        /\ outOfOrder' = IF now < gwLatest \/ now < stamps[q] THEN outOfOrder \cup {q} ELSE outOfOrder
    BY Zenon, <1>3, <2>2, <2>j DEF Authenticate
  <2> HIDE DEF now
  <2>n. /\ q.nonce \in Nonce /\ stamps[q] \in Nat
        /\ Retained(now) \in [Nonce -> Nat \cup {Unseen}]
        /\ Retained(now)[q.nonce] = IF nonces[q.nonce] # Unseen /\ nonces[q.nonce] >= now - AuthWindow
                                    THEN nonces[q.nonce] ELSE Unseen
        /\ nonces[q.nonce] \in Nat \cup {Unseen}
    <3>1. q.nonce \in Nonce
      BY Zenon DEF Nonce
    <3> QED
      BY Zenon, <1>t, <1>w, <2>2, <3>1, RetainedType DEF TriggerTypes
  <2>l. gwLatest' \in Nat /\ gwLatest' >= gwLatest /\ gwLatest' >= now
    BY <1>t, <1>w, <2>1
  <2>3. TriggerTypes'
    BY Zenon, <1>3, <1>a, <1>g, <1>t, <1>w, <2>1, <2>l, <2>n DEF TriggerTypes
  <2>o. outOfOrder \subseteq outOfOrder' /\ (q \notin outOfOrder' => ~(now < gwLatest) /\ ~(now < stamps[q]))
    BY Zenon, <2>1
  <2>4. q \notin outOfOrder' => Spent(q)'
    <3>1. nonces'[q.nonce] = now /\ stamps'[q] = stamps[q]
      BY Zenon, <1>a, <2>1, <2>n
    <3> QED
      BY <1>w, <2>n, <2>o, <3>1 DEF Spent, Unseen
  <2>5. q \notin outOfOrder' => ~Spent(q)
    <3>1. now - stamps[q] <= AuthWindow
      BY Zenon, <2>1 DEF InWindow
    <3> QED
      BY <1>t, <1>w, <2>1, <2>n, <2>o, <3>1 DEF Spent, Unseen
  <2>6. q \notin outOfOrder' => /\ forwarded[q] = 0
                               /\ \A u \in TriggerThread : Passed(u) => gw[u].msg # q
    <3>1. forwarded[q] \in Nat
      BY Zenon, <1>t DEF TriggerTypes
    <3>2. q \notin outOfOrder' => ~(forwarded[q] > 0)
      BY Zenon, <1>3, <1>t, <2>2, <2>5, <2>o DEF TriggerInv, ForwardedIsSpent
    <3>3. q \notin outOfOrder' => \A u \in TriggerThread : Passed(u) => gw[u].msg # q
      BY Zenon, <1>3, <1>t, <2>2, <2>5, <2>o DEF TriggerInv, PassedIsSpent
    <3>4. forwarded[q] = 0 \/ forwarded[q] > 0
      BY <3>1
    <3> QED
      BY Zenon, <3>2, <3>3, <3>4
  <2>7. ASSUME NEW m \in TriggerMessage, stamps[m] # Unseen, Spent(m) PROVE Spent(m)'
    <3>1. m.nonce \in Nonce
      BY Zenon DEF Nonce
    <3>3. \/ nonces'[m.nonce] = Retained(now)[m.nonce]
          \/ nonces'[m.nonce] = now /\ Retained(now)[m.nonce] = Unseen
      BY Zenon, <2>1, <2>n, <3>1
    <3>4. stamps'[m] = stamps[m]
      BY Zenon, <1>a
    <3> QED
      BY Zenon, <1>t, <1>w, <2>3, <2>7, <2>l, <3>3, <3>4, SpentStays
  <2>8. q \notin outOfOrder' => Spent(gw[t].msg)'
    <3>1. gw'[t].msg = q
      BY Zenon, <1>3, <1>t, <2>2 DEF GwState
    <3> QED
      BY Zenon, <2>4, <3>1
  <2> QED
    BY Zenon, <1>a, <1>3, <1>t, <2>2, <2>3, <2>6, <2>7, <2>8, <2>o, PassKeeps
<1> QED
  BY Zenon, <1>1, <1>2, <1>3

\* An operator's request passes; the mode a manual control has read is the mode.
LEMMA OperatorCheckKeeps ==
  ASSUME TriggerInv, NEW t \in TriggerThread, NEW authorized \in BOOLEAN, OperatorCheck(t, authorized)
  PROVE  TriggerInv'
<1>a. /\ gw[t].pc = "operator"
      /\ UNCHANGED <<gwMode, gwAccepting, gwInFlight, nonces, gwClock, stamps, forwarded, lateEntry, gwLatest,
                     outOfOrder>>
  BY Zenon DEF OperatorCheck, gwHistory
<1>t. TriggerTypes /\ gw \in [TriggerThread -> GwState] /\ gw[t].by = "operator" /\ gwLatest \in Nat
  BY Zenon, <1>a DEF TriggerInv, TriggerTypes, Serving
<1>1. CASE GwDone(t)
  <2>1. Purged(0)
    BY <1>a, <1>t DEF Purged
  <2> QED
    BY Zenon, <1>a, <1>1, <2>1, DoneKeeps
<1>2. CASE gw' = [gw EXCEPT ![t].pc = "admit"]
  <2>1. [gw EXCEPT ![t].pc = "admit"] \in [TriggerThread -> GwState]
    BY Zenon, <1>t DEF GwState
  <2>2. TriggerTypes'
    BY Zenon, <1>a, <1>2, <1>t, <2>1 DEF TriggerTypes
  <2>3. ManualPath(gw[t].msg) => gw[t].mode = gwMode
    BY Zenon, <1>a DEF TriggerInv, ManualOnlyInManual
  <2>4. \A m \in TriggerMessage : Spent(m) => Spent(m)'
    BY Zenon, <1>a DEF Spent
  <2> QED
    BY Zenon, <1>a, <1>2, <1>t, <2>2, <2>3, <2>4, PassKeeps
<1> QED
  BY Zenon, <1>1, <1>2 DEF OperatorCheck

\* What a step keeps that leaves nonces and stamps alone.
LEMMA SpentKept ==
  ASSUME UNCHANGED <<nonces, gwLatest, stamps>>, NEW m
  PROVE  Spent(m)' <=> Spent(m)
  BY Zenon DEF Spent

\* admit_trigger counts a trigger in flight or turns it away.
LEMMA AdmitKeeps ==
  ASSUME TriggerInv, NEW t \in TriggerThread, AdmitTrigger(t)
  PROVE  TriggerInv'
<1>a. /\ gw[t].pc = "admit"
      /\ UNCHANGED <<gwMode, gwAccepting, nonces, gwClock, stamps, forwarded, gwLatest, outOfOrder>>
  BY Zenon DEF AdmitTrigger, gwHistory
<1>t. /\ TriggerTypes /\ gw \in [TriggerThread -> GwState] /\ gwInFlight \in Nat
      /\ gw[t].msg \in TriggerMessage /\ gwLatest \in Nat
  BY Zenon, <1>a DEF TriggerInv, TriggerTypes, Serving
<1>1. CASE ~(gwAccepting \/ CompletionTarget(gw[t].msg))
  <2>1. GwDone(t) /\ UNCHANGED <<gwInFlight, lateEntry>>
    BY Zenon, <1>1 DEF AdmitTrigger
  <2>2. Purged(0)
    BY <1>a, <1>t DEF Purged
  <2> QED
    BY Zenon, <1>a, <2>1, <2>2, DoneKeeps
<1>2. CASE gwAccepting \/ CompletionTarget(gw[t].msg)
  <2>1. /\ gwInFlight' = gwInFlight + 1
        /\ gw' = [gw EXCEPT ![t].pc = "forward"]
        /\ lateEntry' = IF gwAccepting THEN lateEntry ELSE lateEntry \cup {gw[t].msg}
    BY Zenon, <1>2 DEF AdmitTrigger
  <2>t. /\ gw' \in [TriggerThread -> GwState]
        /\ gw'[t].pc = "forward" /\ gw'[t].msg = gw[t].msg
        /\ gw'[t].mode = gw[t].mode /\ gw'[t].by = gw[t].by
        /\ \A u \in TriggerThread : u # t => gw'[u] = gw[u]
    <3>1. gw[t] \in GwState
      BY Zenon, <1>t
    <3>2. gw' = [gw EXCEPT ![t] = [gw[t] EXCEPT !.pc = "forward"]]
      BY Zenon, <1>t, <2>1
    <3>3. PICK s : s = [gw[t] EXCEPT !.pc = "forward"]
      BY Zenon
    <3>4. s \in GwState /\ s.pc = "forward" /\ s.msg = gw[t].msg /\ s.mode = gw[t].mode /\ s.by = gw[t].by
      BY Zenon, <3>1, <3>3 DEF GwState
    <3> QED
      BY Zenon, <1>t, <3>2, <3>3, <3>4
  <2>m. \A u \in TriggerThread : gw'[u].msg = gw[u].msg
    BY Zenon, <2>t
  <2>p. \A u \in TriggerThread : Passed(u)' <=> Passed(u)
    BY Zenon, <1>a, <2>t DEF Passed
  <2>2. TriggerTypes'
    BY <1>a, <1>t, <2>1, <2>t DEF TriggerTypes
  <2>3. Serving'
    BY Zenon, <1>a, <2>t DEF TriggerInv, Serving
  <2>5. PassedIsSpent'
    <3> SUFFICES ASSUME AuthRequired, NEW u \in TriggerThread, Passed(u)', gw'[u].msg \notin outOfOrder'
                 PROVE  Spent(gw[u].msg)'
      BY Zenon DEF PassedIsSpent
    <3>1. Spent(gw[u].msg)
      BY Zenon, <1>a, <2>m, <2>p DEF TriggerInv, PassedIsSpent
    <3> QED
      BY Zenon, <1>a, <2>m, <3>1 DEF Spent
  <2>6. ForwardedIsSpent'
    BY Zenon, <1>a, SpentKept DEF TriggerInv, ForwardedIsSpent
  <2>7. PassedOnce'
    BY Zenon, <1>a, <2>m, <2>p DEF TriggerInv, PassedOnce
  <2>8. TriggerInFlightExact'
    <3>1. Forwarding' = Forwarding \cup {t} /\ t \notin Forwarding
      BY Zenon, <1>a, <2>t DEF Forwarding
    <3>2. Cardinality(Forwarding \cup {t}) = Cardinality(Forwarding) + 1
      BY Zenon, <3>1, ForwardingFinite, FS_AddElement
    <3> QED
      BY Zenon, <2>1, <3>1, <3>2 DEF TriggerInv, TriggerInFlightExact, Forwarding
  <2>9. DrainAdmitsCompletionsOnly' /\ ForwardedOnce'
    BY Zenon, <1>a, <1>2, <2>1 DEF TriggerInv, DrainAdmitsCompletionsOnly, ForwardedOnce
  <2>10. ManualOnlyInManual'
    BY Zenon, <1>a, <2>t DEF TriggerInv, ManualOnlyInManual
  <2> QED
    BY Zenon, <2>2, <2>3, <2>5, <2>6, <2>7, <2>8, <2>9, <2>10 DEF TriggerInv
<1> QED
  BY Zenon, <1>1, <1>2

\* The trigger reaches the production API, or not, and is no longer in flight.
LEMMA ForwardKeeps ==
  ASSUME TriggerInv, NEW t \in TriggerThread, Forward(t)
  PROVE  TriggerInv'
<1>a. /\ gw[t].pc = "forward" /\ gw' = [gw EXCEPT ![t] = GwIdle]
      /\ gwInFlight' = IF gwInFlight > 0 THEN gwInFlight - 1 ELSE 0
      /\ UNCHANGED <<gwMode, gwAccepting, nonces, gwClock, stamps, lateEntry, gwLatest, outOfOrder>>
  BY Zenon DEF Forward, GwDone, gwHistory
<1>t. /\ TriggerTypes /\ gw \in [TriggerThread -> GwState] /\ gwInFlight \in Nat
      /\ gw[t].msg \in TriggerMessage /\ stamps[gw[t].msg] # Unseen
      /\ forwarded \in [TriggerMessage -> Nat]
  BY Zenon, <1>a DEF TriggerInv, TriggerTypes, Serving
<1>b. /\ gw'[t].pc = "idle" /\ gw' \in [TriggerThread -> GwState]
      /\ \A u \in TriggerThread : u # t => gw'[u] = gw[u]
  BY Zenon, <1>a, <1>t, IdleState
<1>f. /\ forwarded' \in [TriggerMessage -> Nat]
      /\ \A m \in TriggerMessage : m # gw[t].msg => forwarded'[m] = forwarded[m]
      /\ forwarded'[gw[t].msg] <= forwarded[gw[t].msg] + 1
      /\ gw[t].by # "signature" => forwarded' = forwarded
  <2>1. PICK reached \in BOOLEAN :
          forwarded' = [forwarded EXCEPT ![gw[t].msg] =
                          IF reached /\ gw[t].by = "signature" /\ @ < 2 THEN @ + 1 ELSE @]
    BY Zenon DEF Forward
  <2>2. PICK n : n = IF reached /\ gw[t].by = "signature" /\ forwarded[gw[t].msg] < 2
                     THEN forwarded[gw[t].msg] + 1 ELSE forwarded[gw[t].msg]
    BY Zenon
  <2>3. /\ n \in Nat /\ n <= forwarded[gw[t].msg] + 1
        /\ gw[t].by # "signature" => n = forwarded[gw[t].msg]
    BY <1>t, <2>2
  <2>4. forwarded' = [forwarded EXCEPT ![gw[t].msg] = n]
    BY Zenon, <1>t, <2>1, <2>2
  <2> QED
    BY Zenon, <1>t, <2>3, <2>4
<1>1. TriggerTypes'
  BY <1>a, <1>b, <1>f, <1>t DEF TriggerTypes
<1>2. Serving'
  BY Zenon, <1>a, <1>b DEF TriggerInv, Serving
<1>4. PassedIsSpent'
  <2> SUFFICES ASSUME AuthRequired, NEW u \in TriggerThread, Passed(u)', gw'[u].msg \notin outOfOrder'
               PROVE  Spent(gw[u].msg)'
    BY Zenon DEF PassedIsSpent
  <2>1. gw'[u] = gw[u] /\ Passed(u)
    BY Zenon, <1>b DEF Passed
  <2>0. gw[u].msg \notin outOfOrder
    BY SMT, <1>a, <2>1
  <2>a. PassedIsSpent /\ gw[u].msg \notin outOfOrder
    BY Zenon, <2>0 DEF TriggerInv
  <2>2. Spent(gw[u].msg)
    BY Zenon, <2>1, <2>a DEF PassedIsSpent
  <2> QED
    BY Zenon, <1>a, <2>1, <2>2 DEF Spent
<1>o. AuthRequired /\ gw[t].by = "signature" /\ gw[t].msg \notin outOfOrder =>
        Spent(gw[t].msg) /\ forwarded[gw[t].msg] = 0
  BY Zenon, <1>a DEF TriggerInv, PassedIsSpent, PassedOnce, Passed
<1>5. ForwardedIsSpent'
  <2> SUFFICES ASSUME AuthRequired, NEW m \in TriggerMessage, m \notin outOfOrder, forwarded'[m] > 0
               PROVE  stamps'[m] # Unseen /\ Spent(m)'
    BY Zenon, <1>a DEF ForwardedIsSpent
  <2>1. stamps[m] # Unseen /\ Spent(m)
    BY Zenon, <1>f, <1>o, <1>t DEF TriggerInv, ForwardedIsSpent
  <2> QED
    BY Zenon, <1>a, <2>1, SpentKept
<1>6. PassedOnce'
  <2> SUFFICES ASSUME AuthRequired, NEW u \in TriggerThread, Passed(u)', gw'[u].msg \notin outOfOrder'
               PROVE  /\ forwarded'[gw'[u].msg] = 0
                      /\ \A v \in TriggerThread : Passed(v)' /\ gw'[v].msg = gw'[u].msg => v = u
    BY Zenon DEF PassedOnce
  <2>1. u # t /\ gw'[u] = gw[u] /\ Passed(u)
    BY Zenon, <1>b DEF Passed
  <2>2. /\ forwarded[gw[u].msg] = 0
        /\ \A v \in TriggerThread : Passed(v) /\ gw[v].msg = gw[u].msg => v = u
    <3>0. gw[u].msg \notin outOfOrder
      BY SMT, <1>a, <2>1
    <3>1. PassedOnce /\ gw[u].msg \notin outOfOrder
      BY Zenon, <3>0 DEF TriggerInv
    <3> QED
      BY Zenon, <2>1, <3>1 DEF PassedOnce
  <2>3. /\ gw[u].msg \in TriggerMessage
        /\ gw[t].by = "signature" => gw[u].msg # gw[t].msg
    BY Zenon, <1>a, <2>1, <2>2 DEF Passed, TriggerInv, Serving
  <2>4. forwarded'[gw[u].msg] = forwarded[gw[u].msg]
    BY Zenon, <1>f, <2>3
  <2> QED
    BY Zenon, <1>b, <2>1, <2>2, <2>4 DEF Passed
<1>7. TriggerInFlightExact'
  <2>1. Forwarding' = Forwarding \ {t} /\ t \in Forwarding
    BY Zenon, <1>a, <1>b DEF Forwarding
  <2>2. Cardinality(Forwarding \ {t}) = Cardinality(Forwarding) - 1
    BY Zenon, <2>1, ForwardingFinite, FS_RemoveElement
  <2>3. gwInFlight = Cardinality(Forwarding) /\ gwInFlight' = Cardinality(Forwarding \ {t})
    <3>1. gwInFlight = Cardinality(Forwarding)
      BY Zenon DEF TriggerInv, TriggerInFlightExact, Forwarding
    <3>2. Cardinality(Forwarding) # 0
      BY Zenon, <2>1, ForwardingFinite, FS_EmptySet
    <3> QED
      BY <1>a, <1>t, <2>2, <3>1, <3>2
  <2> QED
    BY Zenon, <2>1, <2>3 DEF TriggerInFlightExact, Forwarding
<1>8. DrainAdmitsCompletionsOnly'
  BY Zenon, <1>a DEF TriggerInv, DrainAdmitsCompletionsOnly
<1>9. ForwardedOnce'
  <2> SUFFICES ASSUME AuthRequired, NEW m \in TriggerMessage, m \notin outOfOrder
               PROVE  forwarded'[m] <= 1
    BY Zenon, <1>a DEF ForwardedOnce
  <2> QED
    BY <1>f, <1>o, <1>t DEF TriggerInv, ForwardedOnce
<1>10. ManualOnlyInManual'
  BY Zenon, <1>a, <1>b DEF TriggerInv, ManualOnlyInManual
<1> QED
  BY Zenon, <1>1, <1>2, <1>4, <1>5, <1>6, <1>7, <1>8, <1>9, <1>10 DEF TriggerInv

\* POST /api/trigger/mode is served by the HTTP loop, so no manual control is
\* on its way then.
LEMMA SetModeKeeps ==
  ASSUME TriggerInv, NEW mode \in {"api", "manual"}, SetCurrentMode(mode)
  PROVE  TriggerInv'
<1>a. /\ gw[HttpLoop].pc = "idle" /\ gwMode' = mode
      /\ UNCHANGED <<gwAccepting, gwInFlight, nonces, gwClock, stamps, gw, forwarded, lateEntry, gwLatest,
                     outOfOrder>>
  BY Zenon DEF SetCurrentMode, gwHistory
<1>1. ManualOnlyInManual'
  <2> SUFFICES ASSUME NEW t \in TriggerThread, gw[t].pc \in {"operator", "admit", "forward"},
                      ManualPath(gw[t].msg)
               PROVE  FALSE
    BY Zenon, <1>a DEF ManualOnlyInManual
  <2> QED
    BY Zenon, <1>a, ManualIsHttp DEF TriggerInv, Serving
<1>2. TriggerTypes' /\ Serving' /\ DrainAdmitsCompletionsOnly' /\ ForwardedOnce'
  BY Zenon, <1>a DEF TriggerInv, TriggerTypes, Serving, DrainAdmitsCompletionsOnly,
     ForwardedOnce
<1>3. PassedIsSpent' /\ ForwardedIsSpent' /\ PassedOnce'
  BY Zenon, <1>a DEF TriggerInv, PassedIsSpent, ForwardedIsSpent, PassedOnce, Passed, Spent
<1>4. TriggerInFlightExact'
  BY Zenon, <1>a DEF TriggerInv, TriggerInFlightExact
<1> QED
  BY Zenon, <1>1, <1>2, <1>3, <1>4 DEF TriggerInv

\* POST /api/trigger/drain closes the admission and touches nothing else.
LEMMA DrainKeeps ==
  ASSUME TriggerInv, EnterDrain
  PROVE  TriggerInv'
<1>a. /\ gwAccepting' = FALSE
      /\ UNCHANGED <<gwMode, gwInFlight, nonces, gwClock, stamps, gw, forwarded, lateEntry, gwLatest, outOfOrder>>
  BY Zenon DEF EnterDrain, gwHistory
<1>1. /\ TriggerTypes' /\ Serving' /\ DrainAdmitsCompletionsOnly' /\ ForwardedOnce'
      /\ ManualOnlyInManual'
  BY Zenon, <1>a DEF TriggerInv, TriggerTypes, Serving, DrainAdmitsCompletionsOnly,
     ForwardedOnce, ManualOnlyInManual
<1>2. PassedIsSpent' /\ ForwardedIsSpent' /\ PassedOnce'
  BY Zenon, <1>a DEF TriggerInv, PassedIsSpent, ForwardedIsSpent, PassedOnce, Passed, Spent
<1>3. TriggerInFlightExact'
  BY Zenon, <1>a DEF TriggerInv, TriggerInFlightExact
<1> QED
  BY Zenon, <1>1, <1>2, <1>3 DEF TriggerInv

\* A second passes; what was checked was checked by a time read earlier.
LEMMA TickKeeps ==
  ASSUME TriggerInv, GwTick
  PROVE  TriggerInv'
<1>a. /\ gwClock' = gwClock + 1
      /\ UNCHANGED <<gwMode, gwAccepting, gwInFlight, nonces, stamps, gw, forwarded, lateEntry, gwLatest,
                     outOfOrder>>
  BY Zenon DEF GwTick, gwHistory
<1>1. TriggerTypes'
  BY <1>a DEF TriggerInv, TriggerTypes
<1>2. /\ Serving' /\ DrainAdmitsCompletionsOnly' /\ ForwardedOnce' /\ ManualOnlyInManual'
  BY Zenon, <1>a DEF TriggerInv, Serving, DrainAdmitsCompletionsOnly, ForwardedOnce, ManualOnlyInManual
<1>3. PassedIsSpent' /\ ForwardedIsSpent' /\ PassedOnce'
  BY Zenon, <1>a DEF TriggerInv, PassedIsSpent, ForwardedIsSpent, PassedOnce, Passed, Spent
<1>4. TriggerInFlightExact'
  BY Zenon, <1>a DEF TriggerInv, TriggerInFlightExact
<1> QED
  BY Zenon, <1>1, <1>2, <1>3, <1>4 DEF TriggerInv

\* A sender signs a message that nobody has seen yet.
LEMMA SignsKeeps ==
  ASSUME TriggerInv, NEW m \in TriggerMessage, NEW ahead \in 0 .. SenderAhead, SenderSigns(m, ahead)
  PROVE  TriggerInv'
<1>a. /\ stamps[m] = Unseen /\ stamps' = [stamps EXCEPT ![m] = gwClock + ahead]
      /\ UNCHANGED <<gwMode, gwAccepting, gwInFlight, nonces, gwClock, gw, forwarded, lateEntry, gwLatest,
                     outOfOrder>>
  BY Zenon DEF SenderSigns, gwHistory
<1>t. /\ TriggerTypes /\ gwClock \in Nat /\ SenderAhead \in Nat /\ ahead \in Nat
      /\ stamps \in [TriggerMessage -> Nat \cup {Unseen}]
  BY TriggerAssumption DEF TriggerInv, TriggerTypes
<1>b. /\ stamps' \in [TriggerMessage -> Nat \cup {Unseen}]
      /\ \A q \in TriggerMessage : stamps[q] # Unseen => stamps'[q] = stamps[q]
  BY <1>a, <1>t
<1>1. TriggerTypes'
  BY Zenon, <1>a, <1>b, <1>t DEF TriggerTypes
<1>2. Serving'
  BY Zenon, <1>a, <1>b DEF TriggerInv, Serving
<1>s. \A q \in TriggerMessage : stamps[q] # Unseen /\ Spent(q) => stamps'[q] # Unseen /\ Spent(q)'
  BY Zenon, <1>a, <1>b DEF Spent
<1>4. PassedIsSpent' /\ PassedOnce'
  <2>1. \A t \in TriggerThread :
          Passed(t) => gw[t].msg \in TriggerMessage /\ stamps[gw[t].msg] # Unseen
    BY Zenon DEF TriggerInv, Serving, Passed
  <2>2. \A t \in TriggerThread : gw'[t] = gw[t] /\ (Passed(t)' <=> Passed(t))
    BY Zenon, <1>a DEF Passed
  <2>3. ASSUME NEW t \in TriggerThread, Passed(t), Spent(gw[t].msg) PROVE Spent(gw[t].msg)'
    <3>1. PICK q \in TriggerMessage : q = gw[t].msg
      BY Zenon, <2>1, <2>3
    <3>2. Spent(q)' /\ gw'[t].msg = q
      BY Zenon, <1>s, <2>1, <2>2, <2>3, <3>1
    <3> QED
      BY Zenon, <3>2
  <2>4. PassedIsSpent'
    BY Zenon, <1>a, <2>2, <2>3 DEF TriggerInv, PassedIsSpent
  <2>5. PassedOnce'
    BY Zenon, <1>a, <2>2 DEF TriggerInv, PassedOnce
  <2> QED
    BY Zenon, <2>4, <2>5
<1>5. ForwardedIsSpent'
  BY Zenon, <1>a, <1>s DEF TriggerInv, ForwardedIsSpent
<1>6. /\ TriggerInFlightExact' /\ DrainAdmitsCompletionsOnly' /\ ForwardedOnce' /\ ManualOnlyInManual'
  BY Zenon, <1>a DEF TriggerInv, TriggerInFlightExact, DrainAdmitsCompletionsOnly, ForwardedOnce,
     ManualOnlyInManual
<1> QED
  BY Zenon, <1>1, <1>2, <1>4, <1>5, <1>6 DEF TriggerInv

\* A step that changes nothing keeps the invariant.
LEMMA TriggerStutter ==
  ASSUME TriggerInv, UNCHANGED triggerVars
  PROVE  TriggerInv'
<1>a. UNCHANGED <<gwMode, gwAccepting, gwInFlight, nonces, gwClock, stamps, gw, forwarded, lateEntry, gwLatest,
                  outOfOrder>>
  BY Zenon DEF triggerVars
<1>1. /\ TriggerTypes' /\ Serving' /\ DrainAdmitsCompletionsOnly' /\ ForwardedOnce'
      /\ ManualOnlyInManual'
  BY Zenon, <1>a DEF TriggerInv, TriggerTypes, Serving, DrainAdmitsCompletionsOnly,
     ForwardedOnce, ManualOnlyInManual
<1>2. PassedIsSpent' /\ ForwardedIsSpent' /\ PassedOnce'
  BY Zenon, <1>a DEF TriggerInv, PassedIsSpent, ForwardedIsSpent, PassedOnce, Passed, Spent
<1>3. TriggerInFlightExact'
  BY Zenon, <1>a DEF TriggerInv, TriggerInFlightExact
<1> QED
  BY Zenon, <1>1, <1>2, <1>3 DEF TriggerInv

-----------------------------------------------------------------------------
(* The theorem *)

\* In every reachable state of the gateway, however many connections deliver
\* however often: a signed trigger reaches the production API at most once, as
\* long as no check of it was overtaken by a purge of the nonces and its stamp
\* was not ahead of the time it was checked by; the drain lets completions in and nothing else, in_flight is exact, and a
\* manual control goes out under the mode it was checked against.
THEOREM TriggerAlwaysSafe == TriggerSpec => []TriggerSafety
<1>1. TriggerInv /\ [TriggerNext]_triggerVars => TriggerInv'
  BY Zenon, DeliverKeeps, AuthenticateKeeps, OperatorCheckKeeps, AdmitKeeps, ForwardKeeps, SetModeKeeps,
     DrainKeeps, TickKeeps, SignsKeeps, TriggerStutter DEF TriggerNext
<1>2. TriggerInv => TriggerSafety
  BY Zenon DEF TriggerInv, TriggerSafety
<1> QED
  BY <1>1, <1>2, TriggerInitInv, PTL DEF TriggerSpec

=============================================================================
