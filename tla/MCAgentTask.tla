---------------------------- MODULE MCAgentTask ----------------------------
(* Instances of AgentTask for TLC. *)
EXTENDS AgentTask, TLC

\* Requests, tasks and sessions are interchangeable (not under liveness).
Symmetry ==
  Permutations(Chats) \cup Permutations(Tasks) \cup Permutations(Sessions)
    \cup Permutations(Stops)
=============================================================================
