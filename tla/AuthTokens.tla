----------------------------- MODULE AuthTokens -----------------------------
(***************************************************************************)
(* The bearer tokens of the MCP server (src/concordia/auth.py).            *)
(*                                                                         *)
(* Session tokens, one for each role of a session, expire; they are kept   *)
(* in memory and written to a file after some of the changes.  A write may *)
(* fail, silently, and so may reading the file again: a restart leaves     *)
(* nothing but the file, or not even that, and then the next write         *)
(* replaces what nobody has read.                                          *)
(*                                                                         *)
(* A session identifier is fresh and its tokens are issued once, so a      *)
(* token is identified by the session and the role it was issued for, and  *)
(* presenting any other is refused without effect.  Agent tokens are never *)
(* written; one is identified by the client it was handed to last.         *)
(*                                                                         *)
(* The steps are composed by McpServer.                                    *)
(***************************************************************************)
EXTENDS Integers, FiniteSets

CONSTANTS
  Agents,      \* agent identifiers
  Clients,     \* who calls the server
  Nobody,      \* no client
  Sids,        \* session identifiers, in the order they are used: 1..n
  TokenTTL,    \* SESSION_TOKEN_TTL_SECONDS
  MaxTime,     \* bound: the clock
  FileFails    \* bound: whether the file system may fail

ASSUME AuthAssumption ==
  /\ Sids \subseteq Nat
  /\ TokenTTL \in Nat \ {0}
  /\ MaxTime \in Nat
  /\ FileFails \in BOOLEAN
  /\ Nobody \notin Clients

VARIABLES
  now,      \* the clock
  expires,  \* _session_tokens with _session_expiry: when a key's token expires, None
  disk,     \* sessions.json, the same
  saved,    \* history: no write has failed since the start, or a later one succeeded
  loaded,   \* history: the start has read the file, or it was written since
  owner,    \* _agent_tokens: the client that was handed the agent's token
  born      \* history: when the session with that identifier was opened

tokenVars == <<expires, disk, saved, loaded>>

Roles == {"initiator", "responder"}
Keys == Sids \X Roles
None == -1
Times == 0..MaxTime
Expiries == {None} \union {t + TokenTTL : t \in Times}

\* _is_expired of a token that is there.
Elapsed(e) == e # None /\ now >= e

Alive(e) == e # None /\ now < e

\* The tokens without those in ks that have expired.
Dropped(ks) == [k \in Keys |-> IF k \in ks /\ Elapsed(expires[k]) THEN None ELSE expires[k]]

\* _persist_session_tokens: written whole or, when the file system fails, not at all.
Persist(tokens, read) ==
  \/ disk' = tokens /\ saved' = TRUE /\ loaded' = TRUE
  \/ FileFails /\ disk' = disk /\ saved' = FALSE /\ loaded' = read

\* Fault: the file is written before the tokens are there.
IssueTooLate(sid) ==
  /\ expires' = [k \in Keys |-> IF k[1] = sid THEN now + TokenTTL ELSE expires[k]]
  /\ Persist(expires, loaded)

\* register_session_tokens
Issue(sid) ==
  /\ expires' = [k \in Keys |-> IF k[1] = sid THEN now + TokenTTL ELSE expires[k]]
  /\ Persist(expires', loaded)

\* validate_session_token: the token of k is accepted, or dropped if it has expired.
Accepts(k) == Alive(expires[k])

Validated(k) == Accepts(k) /\ UNCHANGED tokenVars

Outdated(k) ==
  /\ Elapsed(expires[k])
  /\ expires' = Dropped({k})
  /\ Persist(expires', loaded)

\* get_any_session_role looks at the initiator's token first and stops at the one
\* presented; what it drops it does not write.
Visited(k) == IF k[2] = "initiator" /\ Accepts(k) THEN {k} ELSE {k[1]} \X Roles

LookUp(k) == expires' = Dropped(Visited(k)) /\ UNCHANGED <<disk, saved, loaded>>

\* Fault: loading gives every token a new term.
LoadedRenewed == [k \in Keys |-> IF Alive(disk[k]) THEN now + TokenTTL ELSE None]

\* _load_session_tokens: what of the file has not expired.
Loaded == [k \in Keys |-> IF Alive(disk[k]) THEN disk[k] ELSE None]

\* A new AuthTokenStore that reads its file, and writes it again if it held an expired
\* token.
Load ==
  /\ expires' = Loaded
  /\ IF Loaded # disk THEN Persist(expires', TRUE)
     ELSE disk' = disk /\ saved' = TRUE /\ loaded' = TRUE

\* A new AuthTokenStore that fails to read its file: it starts without a token, silently,
\* and leaves the file to its next write.
FailToLoad ==
  /\ FileFails
  /\ expires' = [k \in Keys |-> None]
  /\ disk' = disk /\ saved' = TRUE /\ loaded' = FALSE

Reload ==
  /\ Load \/ FailToLoad
  /\ owner' = [a \in Agents |-> Nobody]

\* register_agent_token and revoke_agent_token
Hand(a, c) == owner' = [owner EXCEPT ![a] = c]
Revoke(a) == Hand(a, Nobody)

Tick == now < MaxTime /\ now' = now + 1

AuthInit ==
  /\ now = 0
  /\ expires = [k \in Keys |-> None]
  /\ disk = [k \in Keys |-> None]
  /\ saved = TRUE
  /\ loaded = TRUE
  /\ owner = [a \in Agents |-> Nobody]
  /\ born = [s \in Sids |-> None]

AuthTypeOK ==
  /\ now \in Times
  /\ expires \in [Keys -> Expiries]
  /\ disk \in [Keys -> Expiries]
  /\ saved \in BOOLEAN
  /\ loaded \in BOOLEAN
  /\ owner \in [Agents -> Clients \union {Nobody}]
  /\ born \in [Sids -> Times \union {None}]

\* A token expires at the time it was issued for, however often it is dropped, written,
\* lost in a failed write and loaded again: no restart lengthens or revives it.
TokensKeepTheirTerm ==
  \A k \in Keys : \A e \in {expires[k], disk[k]} :
    e # None => born[k[1]] # None /\ e = born[k[1]] + TokenTTL

\* Memory and file hold the same live tokens, but for a failed write, which the file
\* misses, and for a failed read, which leaves tokens to the file.
FileAgrees ==
  \A k \in Keys :
    /\ loaded /\ Alive(disk[k]) => expires[k] = disk[k]
    /\ saved /\ Alive(expires[k]) => disk[k] = expires[k]

\* A live token leaves the memory only by a restart that cannot read the file or that
\* follows a failed write, and leaves the file, where the next restart could find it, only
\* when that is written after it could not be read: nothing else a call, a restart or the
\* clock does loses one (AuthTokenStore.__init__, _persist_session_tokens).
LostByFailureOnly ==
  [][\A k \in Keys :
       /\ Alive(expires[k]) /\ expires'[k] # expires[k] => ~saved \/ ~loaded'
       /\ Alive(disk[k]) /\ disk'[k] # disk[k] => ~loaded]_tokenVars
=============================================================================
