---------------------------- MODULE ChainSession ----------------------------
(***************************************************************************)
(* The state machine of a bilateral promise chain                          *)
(* (src/concordia/cmpc/chain_session.py).  Each holder has an object of    *)
(* its own, made from another's dictionary; the list of commitments is     *)
(* handed over in that dictionary and so stays shared.  The host appends   *)
(* commitments and sets the ids of the activation proof and of the unwind  *)
(* record as attributes, in any order, and supplies the time.              *)
(***************************************************************************)
EXTENDS Integers, Sequences

CONSTANTS
  Holders,         \* objects that stand for the one session
  First,           \* the holder whose object is created, not copied
  Participants,    \* how many participants the session has
  Deadline,        \* activation_deadline
  None,            \* no hash, no stamp
  MaxCommitments,  \* bound
  MaxTime          \* bound

ASSUME ChainSessionAssumption ==
  /\ First \in Holders
  /\ {Participants, Deadline, MaxCommitments, MaxTime} \subseteq Nat
  /\ None \notin Nat

VARIABLES
  chain,        \* holder -> its ChainSession object
  commitments,  \* how many commitments the shared list has
  now,          \* the time supplied to transition_to
  altered       \* history: the holders one of whose transition records was altered

vars == <<chain, commitments, now, altered>>

States == {"PROPOSED", "OPEN", "ACTIVATED", "DISSOLVED", "EXPIRED"}

\* The hash of a session's first record, and of the record after it: no session has more.
FirstHash == States \X States \X Nat \X {None}
NextHash == States \X States \X Nat \X FirstHash

Record == [from : States, to : States, at : Nat, prev : FirstHash \union {None},
           hash : FirstHash \union NextHash]

Object == [state : States, proof : BOOLEAN, unwind : BOOLEAN, transitions : Seq(Record),
           activated : Nat \union {None}, dissolved : Nat \union {None}]

ASSUME NoneAssumption == None \notin Object

\* LEGAL_TRANSITIONS.
Legal(from) ==
  CASE from = "PROPOSED" -> {"OPEN"}
    [] from = "OPEN"     -> {"ACTIVATED", "DISSOLVED", "EXPIRED"}
    [] OTHER             -> {}

\* The hash covers every field but itself, the hash before it included.
ComputeHash(r) == <<r.from, r.to, r.at, r.prev>>

\* Fault: a record is taken for what its hash says.
VerifyLinks(ts) ==
  \A i \in DOMAIN ts : ts[i].prev = IF i = 1 THEN None ELSE ts[i - 1].hash

VerifyTranscript(ts) ==
  \A i \in DOMAIN ts :
    /\ ts[i].prev = IF i = 1 THEN None ELSE ts[i - 1].hash
    /\ ts[i].hash = ComputeHash(ts[i])

\* Fault: the session may be activated at any time.
AllowedLate(c, to, time) ==
  CASE to = "OPEN"      -> commitments = Participants
    [] to = "ACTIVATED" -> c.proof
    [] to = "DISSOLVED" -> c.unwind
    [] to = "EXPIRED"   -> time >= Deadline /\ ~c.proof

\* Fault: nothing is unwound after the deadline.
AllowedUnwindInTime(c, to, time) ==
  CASE to = "OPEN"      -> commitments = Participants
    [] to = "ACTIVATED" -> c.proof /\ time < Deadline
    [] to = "DISSOLVED" -> c.unwind /\ time < Deadline
    [] to = "EXPIRED"   -> time >= Deadline /\ ~c.proof

\* _validate_transition_preconditions.
Allowed(c, to, time) ==
  CASE to = "OPEN"      -> commitments = Participants
    [] to = "ACTIVATED" -> c.proof /\ time < Deadline
    [] to = "DISSOLVED" -> c.unwind
    [] to = "EXPIRED"   -> time >= Deadline /\ ~c.proof

\* Fault: the record is not added when the session ends.
MovedUnrecorded(c, to, time) ==
  [c EXCEPT !.state = to,
            !.activated = IF to = "ACTIVATED" THEN time ELSE @,
            !.dissolved = IF to \in {"DISSOLVED", "EXPIRED"} THEN time ELSE @]

\* The record that a transition adds.
Added(c, to, time) ==
  LET prev == IF c.transitions = <<>> THEN None ELSE c.transitions[Len(c.transitions)].hash
      record == [from |-> c.state, to |-> to, at |-> time, prev |-> prev]
  IN [from |-> c.state, to |-> to, at |-> time, prev |-> prev, hash |-> ComputeHash(record)]

Moved(c, to, time) ==
  [state       |-> to,
   proof       |-> c.proof,
   unwind      |-> c.unwind,
   transitions |-> Append(c.transitions, Added(c, to, time)),
   activated   |-> IF to = "ACTIVATED" THEN time ELSE c.activated,
   dissolved   |-> IF to \in {"DISSOLVED", "EXPIRED"} THEN time ELSE c.dissolved]

-----------------------------------------------------------------------------
Proposed ==
  [state |-> "PROPOSED", proof |-> FALSE, unwind |-> FALSE, transitions |-> <<>>,
   activated |-> None, dissolved |-> None]

Held == {h \in Holders : chain[h] # None}

Init ==
  /\ chain = [h \in Holders |-> IF h = First THEN Proposed ELSE None]
  /\ commitments = 0
  /\ now = 0
  /\ altered = {}

\* transition_to, expire_due_to_timeout included.
TransitionTo(h, to) ==
  /\ to \in Legal(chain[h].state)
  /\ Allowed(chain[h], to, now)
  /\ chain' = [chain EXCEPT ![h] = Moved(@, to, now)]
  /\ UNCHANGED <<commitments, now, altered>>

Commit ==
  /\ commitments < MaxCommitments
  /\ commitments' = commitments + 1
  /\ UNCHANGED <<chain, now, altered>>

SetProof(h) ==
  /\ chain' = [chain EXCEPT ![h].proof = TRUE]
  /\ UNCHANGED <<commitments, now, altered>>

SetUnwind(h) ==
  /\ chain' = [chain EXCEPT ![h].unwind = TRUE]
  /\ UNCHANGED <<commitments, now, altered>>

\* ChainSession.from_dict(other.to_dict()): the transition records are made anew.
HandOver(h, k) ==
  /\ chain[k] = None
  /\ chain' = [chain EXCEPT ![k] = chain[h]]
  /\ altered' = IF h \in altered THEN altered \union {k} ELSE altered
  /\ UNCHANGED <<commitments, now>>

\* A record is altered where it is kept, its hash left as it was.
Alter(h, i, time) ==
  /\ chain[h].transitions[i].at # time
  /\ h \notin altered
  /\ chain' = [chain EXCEPT ![h].transitions[i].at = time]
  /\ altered' = altered \union {h}
  /\ UNCHANGED <<commitments, now>>

Tick ==
  /\ now < MaxTime
  /\ now' = now + 1
  /\ UNCHANGED <<chain, commitments, altered>>

Next ==
  \/ Commit
  \/ Tick
  \/ \E h \in Held :
       \/ \E to \in States : TransitionTo(h, to)
       \/ SetProof(h)
       \/ SetUnwind(h)
       \/ \E k \in Holders : HandOver(h, k)
       \/ \E i \in DOMAIN chain[h].transitions, time \in 0..MaxTime : Alter(h, i, time)

Spec == Init /\ [][Next]_vars

\* Time goes on, and every holder asks again and again for whatever end it may have: the
\* code has no timer of its own, expire_due_to_timeout is the host's to call.
FairSpec ==
  /\ Spec
  /\ WF_vars(Tick)
  /\ \A h \in Holders : WF_vars(h \in Held /\ \E to \in States : TransitionTo(h, to))

-----------------------------------------------------------------------------
(* Properties *)

\* Every variable has the type its attribute has in chain_session.py.
TypeOK ==
  /\ chain \in [Holders -> Object \union {None}]
  /\ commitments \in 0..MaxCommitments
  /\ now \in 0..MaxTime
  /\ altered \subseteq Held

\* The transcript of an object verifies and leads from PROPOSED to the state it is in.
Tells(c) ==
  LET ts == c.transitions
  IN /\ VerifyTranscript(ts)
     /\ c.state = IF ts = <<>> THEN "PROPOSED" ELSE ts[Len(ts)].to
     /\ \A i \in DOMAIN ts :
          ts[i].from = IF i = 1 THEN "PROPOSED" ELSE ts[i - 1].to

\* An object whose records nobody altered has a transcript that tells its state, whatever
\* was set, copied and refused meanwhile (chain_session.py, transition_to, from_dict).
TranscriptTellsState == \A h \in Held \ altered : Tells(chain[h])

\* An altered record is noticed ever after, in copies too, and no transition made on top
\* of it hides it.
AlterationShows == \A h \in altered : ~VerifyTranscript(chain[h].transitions)

\* The holders may come to different ends, but no one's session expires while another's
\* can still be activated: every activation is before every expiry.
ExpiryFollowsActivation ==
  \A h, k \in Held :
    chain[h].state = "ACTIVATED" /\ chain[k].state = "EXPIRED"
      => chain[h].activated < chain[k].dissolved

\* An object that has been activated, dissolved or has expired keeps its state and its
\* stamps; one that holds an activation proof never expires.
EndsForGood ==
  [][\A h \in Held :
       /\ Legal(chain[h].state) = {} =>
            /\ chain'[h].state = chain[h].state
            /\ chain'[h].activated = chain[h].activated
            /\ chain'[h].dissolved = chain[h].dissolved
       /\ chain[h].proof /\ chain[h].state # "EXPIRED" => chain'[h].state # "EXPIRED"]_vars

Open(h) == h \in Held /\ chain[h].state = "OPEN"

\* The only open session that a persistent holder can be left with is one whose activation
\* proof was set but not used in time and that has no unwind record: it can be neither
\* activated nor expire.  Every other comes to an end.
OpenEnds ==
  \A h \in Holders : Open(h) ~> ~Open(h) \/ (chain[h].proof /\ ~chain[h].unwind)
=============================================================================
