----------------------------- MODULE MCLiveness -----------------------------
(* The components that promise something in the end: the alarm monitors, the *)
(* cleanup of records and the image service.  Every behaviour is one of the  *)
(* component named by "subject", under the fairness of that component.       *)
EXTENDS AlarmLifecycle, RecordCleanup, ImageRenditions

CONSTANTS Subjects

VARIABLE subject

livenessVars == <<subject, alVars, rcVars, imVars>>

OneMonitor == {{}, {"health"}, {"camera"}}
StorageTypes == <<"storage-capacity-warning", "storage-critical">>
RenditionSizes == [p \in {"xl", "small"} |-> IF p = "xl" THEN 2 ELSE 1]

LivenessInit ==
  /\ subject \in Subjects
  /\ AlInit
  /\ running = {} <=> subject # "alarms"
  /\ RcInit
  /\ subject # "cleanup" => \A f \in CacheFile : rcDisk[f] = "absent"
  /\ ImInit

LivenessNext ==
  /\ UNCHANGED subject
  /\ \/ /\ subject = "alarms" /\ AlNext
        /\ UNCHANGED <<rcVars, imVars>>
     \/ /\ subject = "cleanup" /\ RcNext
        /\ UNCHANGED <<alVars, imVars>>
     \/ /\ subject = "images" /\ ImNext
        /\ UNCHANGED <<alVars, rcVars>>

\* A component that is not the subject has no monitor running, no request and
\* no cleanup, so its fairness asks for nothing.
LivenessFairness == AlFairness /\ RcFairness /\ ImFairness

LivenessSpec == LivenessInit /\ [][LivenessNext]_livenessVars /\ LivenessFairness

=============================================================================
