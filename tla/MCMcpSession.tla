---------------------------- MODULE MCMcpSession ----------------------------
(* Two chats that may both find no tools, a server that starts late and    *)
(* goes down once, two attempts instead of twenty.                         *)
EXTENDS McpSession
=============================================================================
