--------------------------- MODULE MCAgentRuntime ---------------------------
(* Instances of AgentRuntime for TLC. *)
EXTENDS AgentRuntime, TLC

CONSTANTS k1, k2, q1, q2

\* Calls and prompts are interchangeable: a call takes the first that is idle,
\* and the first prompt is posted first.
FirstFirst ==
    /\ Idle(k1) /\ Idle(k2) => Idle(k2)'
    /\ client[q1].at = "new" => client[q2]'.at = "new"
=============================================================================
