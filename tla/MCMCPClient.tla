---------------------------- MODULE MCMCPClient ----------------------------
(* MCPClient for TLC: the calls are model values. *)
EXTENDS MCPClient

=============================================================================
