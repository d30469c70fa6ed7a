------------------------------ MODULE MCRelay ------------------------------
(* A small instance of Relay for TLC. *)
EXTENDS Relay, TLC

\* No action or property tells one agent from another.
AgentSymmetry == Permutations(Agents)

\* Bound: messages that go stale are looked at beside one archive at most, two archives
\* where none does.
StaleBesideOneArchive == Len(archives) < 2 \/ stale = {}
=============================================================================
