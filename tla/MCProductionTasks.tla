------------------------- MODULE MCProductionTasks -------------------------
(* Small instances of ProductionTasks for TLC. *)
EXTENDS ProductionTasks

Ask(kind, key, session, chain, dependsOn, policy) ==
  [kind |-> kind, key |-> key, session |-> session, chain |-> chain,
   dependsOn |-> dependsOn, policy |-> policy]

\* One material whose tasks each follow the latest task of the chain.
CaptureChain == {Ask("capture-once", NoKey, "s1", NoKey, NoTask, "require-success")}

\* The same with the only kind that can be cancelled while it runs.
AlgorithmChain == {Ask("algorithm-run", NoKey, "s1", NoKey, NoTask, "require-success")}

\* A computation that can be cancelled while it runs, a second one behind it or
\* the cleanup that follows however the first ended.
CleanupChain ==
  {Ask("algorithm-run", NoKey, "s1", NoKey, NoTask, "require-success"),
   Ask("trigger-event", NoKey, "s1", NoKey, 1, "always-run")}

\* Two materials; repeated keys, an explicit predecessor, a cleanup that runs
\* whatever happened, a session that asks for a foreign or a second chain, and
\* the one kind a draining service still accepts.
MixedRequests ==
  {Ask("capture-once", "k1", "s1", NoKey, NoTask, "require-success"),
   Ask("steel-out", NoKey, "s1", NoKey, 1, "require-success"),
   Ask("trigger-event", "k1", "s1", NoKey, 1, "always-run"),
   Ask("trigger-event", NoKey, "s2", "s1", NoTask, "require-success"),
   Ask("capture-once", NoKey, "s2", NoKey, NoTask, "always-run"),
   Ask("capture-once", NoKey, "s2", "s2", NoTask, "require-success"),
   Ask("steel-in", NoKey, "s1", "s2", NoTask, "require-success")}

=============================================================================
