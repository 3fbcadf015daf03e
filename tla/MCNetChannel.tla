---------------------------- MODULE MCNetChannel ----------------------------
(* The server sends enough chunks to wrap the sequence, the client answers. *)
EXTENDS NetChannel

CONSTANTS server, client, ServerSends, ClientSends

MCPeers == {server, client}
MCTotal == [p \in MCPeers |-> IF p = server THEN ServerSends ELSE ClientSends]
=============================================================================
