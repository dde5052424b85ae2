--------------------------- MODULE ProviderGrants ---------------------------
(***************************************************************************)
(* What the production task queue promises the devices and algorithms      *)
(* behind it: an operation is carried out only as often as clients asked   *)
(* for it, and only after the operation it needs has been done once.       *)
(***************************************************************************)
EXTENDS Naturals

CONSTANTS Op, NoTask

VARIABLES
  granted,  \* how often clients asked for the operation
  needs,    \* the operation it needs, or NoTask
  made,     \* how often it was carried out
  done      \* whether it ever succeeded

gvars == <<granted, needs, made, done>>

Init ==
  /\ granted = [o \in Op |-> 0]
  /\ needs = [o \in Op |-> NoTask]
  /\ made = [o \in Op |-> 0]
  /\ done = [o \in Op |-> FALSE]

\* A first request fixes what the operation needs.
Accept(o, d) ==
  /\ granted[o] = 0
  /\ granted' = [granted EXCEPT ![o] = 1]
  /\ needs' = [needs EXCEPT ![o] = d]
  /\ UNCHANGED <<made, done>>

Regrant(o) ==
  /\ granted[o] > 0
  /\ granted' = [granted EXCEPT ![o] = @ + 1]
  /\ UNCHANGED <<needs, made, done>>

Call(o) ==
  /\ made[o] < granted[o]
  /\ needs[o] # NoTask => done[needs[o]]
  /\ made' = [made EXCEPT ![o] = @ + 1]
  /\ UNCHANGED <<granted, needs, done>>

Succeed(o) ==
  /\ made[o] > 0
  /\ done' = [done EXCEPT ![o] = TRUE]
  /\ UNCHANGED <<granted, needs, made>>

Next ==
  \E o \in Op :
    \/ \E d \in Op \cup {NoTask} : Accept(o, d)
    \/ Regrant(o)
    \/ Call(o)
    \/ Succeed(o)

Spec == Init /\ [][Next]_gvars

=============================================================================
