-------------------------- MODULE MCAgentLifecycle --------------------------
(* Small instances of AgentLifecycle.                                      *)
EXTENDS AgentLifecycle

CONSTANTS p, q

OneAsked == {<<p, NoAgent>>}
TreeAsked == {<<p, NoAgent>>, <<q, p>>, <<q, NoAgent>>}
Nested == {{p, q}}
=============================================================================
