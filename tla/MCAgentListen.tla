-------------------------- MODULE MCAgentListen --------------------------
(* Small instances of AgentListen. *)
EXTENDS AgentListen, TLC

CONSTANTS p1, p2, tag1, ip1, ip2

\* One file that leaves everything to the policy, one that switches it off.
OnOff == {[listen |-> p1, nodeAttrs |-> TRUE], [listen |-> p1, nodeAttrs |-> FALSE]}

\* A port for Central's use alone; a tag without a port, which is invalid;
\* both.
Policies == {[agentTag |-> TRUE, centralTags |-> {}, port |-> p2],
             [agentTag |-> FALSE, centralTags |-> {tag1}, port |-> NoPort],
             [agentTag |-> FALSE, centralTags |-> {tag1}, port |-> p2]}

\* Until tailscaled answers the Agent knows none.  A v6 address that comes
\* and goes beside a v4 one leaves the preferred address as it is.
Assigned == {[v4 |-> ip1, v6 |-> NoIP], [v4 |-> ip1, v6 |-> ip2]}
=============================================================================
