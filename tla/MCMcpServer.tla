---------------------------- MODULE MCMcpServer ----------------------------
(* The MCP server on small instances. *)
EXTENDS McpServer, TLC

TwoSessions == 1..2
OneSession == {1}
LongAndShort == {0, 2}
Short == {0}
\* No action or property tells one agent, or one client, from another.
PartySymmetry == Permutations(Agents) \union Permutations(Clients)
=============================================================================
