--------------------------- MODULE MCCentralPeers ---------------------------
(* One node with an address and a name, and an address nobody has. *)
EXTENDS CentralPeers

CONSTANTS n1, ip, name

MCKnown == [n \in {n1} |-> {ip, name}]
Port1(list) == [agentPort |-> 1, peers |-> list]
At(a, p) == [address |-> a, port |-> p]

MCDefault == Port1(<<>>)
MCFirstFiles == {Missing}
MCEdits == {Corrupt, Missing, [agentPort |-> 2, peers |-> <<At(name, 0), At(ip, 2)>>]}
=============================================================================
