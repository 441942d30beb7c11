----------------------------- MODULE MCAgentLink -----------------------------
(* Two intervals, and an offline limit above and at the floor of Effective.  *)
EXTENDS AgentLink

MCRules == { [interval |-> 1, offline |-> 5],
             [interval |-> 1, offline |-> 7],
             [interval |-> 3, offline |-> 5] }
=============================================================================
