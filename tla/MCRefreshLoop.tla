--------------------------- MODULE MCRefreshLoop ----------------------------
(* A small instance of RefreshLoop: two tags and two ports.  The policy    *)
(* grants nothing, everything, or what only an Agent can use.              *)
EXTENDS RefreshLoop

Nothing == [agentTags |-> {}, centralTags |-> {}, port |-> 0]
Whole == [agentTags |-> {"a"}, centralTags |-> {}, port |-> 2]
ForAgents == [agentTags |-> {}, centralTags |-> {"a"}, port |-> 2]
NoPort == [agentTags |-> {"a"}, centralTags |-> {}, port |-> 0]

MCTags == {"a", "b"}
MCPorts == {1, 2}
MCPolicies == {NoPort, Whole}
MCMorePolicies == {NoPort, Whole, ForAgents}
MCConfigs == {[tags |-> {"b"}, port |-> 1], [tags |-> {"a"}, port |-> 1]}
MCOneConfig == {[tags |-> {"b"}, port |-> 1]}
=============================================================================
