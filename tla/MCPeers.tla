------------------------------ MODULE MCPeers ------------------------------
(* Instances of Peers for TLC. *)
EXTENDS Peers, TLC

CONSTANTS ip1, host1

\* A host name, and the address it resolves to
AliasRemoteIP == [ip \in {ip1, host1} |-> ip1]

============================================================================
