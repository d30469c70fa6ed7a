------------------------------- MODULE Relay -------------------------------
(***************************************************************************)
(* The store-and-forward relay (src/concordia/relay.py): sessions that a   *)
(* second agent joins, messages kept in a session's transcript and in the  *)
(* recipient's mailbox until it polls, timeouts that are noticed only when *)
(* somebody looks, and archives.                                           *)
(*                                                                         *)
(* Each method of NegotiationRelay runs to its end undisturbed, so it is   *)
(* one action.  Of the clock only this is kept: at some moment a session's *)
(* or a message's time to live has elapsed (`overdue', `stale').           *)
(***************************************************************************)
EXTENDS Integers, Sequences, FiniteSets

CONSTANTS
  Agents,
  Nobody,         \* the responder of a session nobody is named for yet
  SessionIds,     \* bound: the relay sessions that can be created, 1..n
  Kinds,          \* the message types agents send
  MaxSessions,    \* MAX_SESSIONS
  MaxActive,      \* MAX_ACTIVE_RELAY_SESSIONS_PER_INITIATOR
  MaxMailbox,     \* MAX_MAILBOX_SIZE
  MaxTranscript,  \* MAX_TRANSCRIPT_SIZE
  MaxArchives,    \* MAX_ARCHIVES
  MaxMessages,    \* bound: messages ever sent
  Limits,         \* bound: the limits agents poll with
  AutoAttest      \* bound: the values of auto_attest in use

TerminalKinds == {"accept", "reject", "withdraw", "commit"}

ASSUME RelayAssumption ==
  /\ Nobody \notin Agents
  /\ SessionIds \subseteq Nat
  /\ {MaxSessions, MaxActive, MaxMailbox, MaxTranscript, MaxArchives, MaxMessages}
       \subseteq Nat
  /\ Limits \subseteq Nat
  /\ AutoAttest \subseteq BOOLEAN

VARIABLES
  sess,      \* relay session id -> RelaySession
  messages,  \* every RelayedMessage: the transcripts, interleaved as they grew
  mailbox,   \* agent -> the messages awaiting it, oldest first
  archives,  \* the archives, oldest first
  overdue,   \* sessions past their time to live
  stale,     \* messages past their time to live
  inbox,     \* history: agent -> the messages it was given, in that order
  refused    \* history: messages kept though their sender was told None

vars == <<sess, messages, mailbox, archives, overdue, stale, inbox, refused>>

(***************************************************************************)
(* Sessions and participants                                               *)
(***************************************************************************)

Open == {"pending", "active"}
Ended == {"concluded", "timed_out", "archived"}

Absent == [state |-> "absent", initiator |-> Nobody, responder |-> Nobody,
           confirmed |-> FALSE, autoAttest |-> FALSE, reason |-> "none",
           skipped |-> FALSE, sent |-> [a \in Agents |-> 0],
           got |-> [a \in Agents |-> 0]]

Created == {s \in SessionIds : sess[s].state # "absent"}

\* _get_participant finds a, and the participant is confirmed.
Confirmed(s, a) ==
  \/ sess[s].initiator = a
  \/ sess[s].responder = a /\ sess[s].confirmed

\* Fault: a named responder is written to before it has joined.
CounterpartyNamed(s, a) ==
  IF sess[s].initiator = a THEN sess[s].responder ELSE sess[s].initiator

\* _get_counterparty
Counterparty(s, a) ==
  IF sess[s].initiator = a
  THEN IF sess[s].confirmed THEN sess[s].responder ELSE Nobody
  ELSE sess[s].initiator

Transcript(s) == {i \in DOMAIN messages : messages[i].session = s}

\* The session r after its end is recorded: _conclude_session, _timeout_session.
EndedAs(r, state, reason) ==
  [r EXCEPT !.state = state, !.reason = reason,
            !.skipped = @ \/ (r.autoAttest /\ r.responder # Nobody /\ ~r.confirmed)]

\* Fault: the timeout marks nothing.
TimedOutUnmarked(r) == [r EXCEPT !.state = "timed_out", !.reason = "session_timeout"]

TimedOut(r) == EndedAs(r, "timed_out", "session_timeout")

Expirable(s) == s \in overdue /\ sess[s].state \in Open

\* The sessions after every overdue one has been noticed.
Swept == [s \in SessionIds |-> IF Expirable(s) THEN TimedOut(sess[s]) ELSE sess[s]]

Notice(s) == sess' = [sess EXCEPT ![s] = TimedOut(@)]

Active(i) ==
  {s \in SessionIds : sess[s].initiator = i /\ sess[s].state \in Open /\ s \notin overdue}

(***************************************************************************)
(* Init                                                                    *)
(***************************************************************************)

Init ==
  /\ sess = [s \in SessionIds |-> Absent]
  /\ messages = <<>>
  /\ mailbox = [a \in Agents |-> <<>>]
  /\ archives = <<>>
  /\ overdue = {}
  /\ stale = {}
  /\ inbox = [a \in Agents |-> <<>>]
  /\ refused = {}

(***************************************************************************)
(* create_session, join_session, get_session                               *)
(***************************************************************************)

\* Fault: the limit on active sessions is off by one.
CreatePlusOne(s, i, r, auto) ==
  /\ r # i
  /\ s \notin Created /\ \A t \in SessionIds : t < s => t \in Created
  /\ IF Cardinality(Created) < MaxSessions /\ Cardinality(Active(i)) <= MaxActive
     THEN sess' = [Swept EXCEPT ![s] =
                     [Absent EXCEPT !.state = "pending", !.initiator = i,
                                    !.responder = r, !.autoAttest = auto]]
     ELSE sess' = Swept
  /\ UNCHANGED <<messages, mailbox, archives, overdue, stale, inbox, refused>>

\* The overdue sessions are swept before the limits are looked at, and stay swept when
\* a limit refuses the new one.
Create(s, i, r, auto) ==
  /\ r # i
  /\ s \notin Created /\ \A t \in SessionIds : t < s => t \in Created
  /\ IF Cardinality(Created) < MaxSessions /\ Cardinality(Active(i)) < MaxActive
     THEN sess' = [Swept EXCEPT ![s] =
                     [Absent EXCEPT !.state = "pending", !.initiator = i,
                                    !.responder = r, !.autoAttest = auto]]
     ELSE sess' = Swept
  /\ UNCHANGED <<messages, mailbox, archives, overdue, stale, inbox, refused>>

\* Faults: the timeout is not looked at; anybody takes a reserved place.
JoinLate(s, a) ==
  /\ sess[s].state = "pending"
  /\ sess[s].responder \in {Nobody, a}
  /\ sess' = [sess EXCEPT ![s].state = "active", ![s].responder = a, ![s].confirmed = TRUE]
  /\ UNCHANGED <<messages, mailbox, archives, overdue, stale, inbox, refused>>

JoinAnyone(s, a) ==
  /\ ~Expirable(s)
  /\ sess[s].state = "pending"
  /\ sess' = [sess EXCEPT ![s].state = "active", ![s].responder = a, ![s].confirmed = TRUE]
  /\ UNCHANGED <<messages, mailbox, archives, overdue, stale, inbox, refused>>

Join(s, a) ==
  /\ \/ /\ Expirable(s)
        /\ Notice(s)
     \/ /\ ~Expirable(s)
        /\ sess[s].state = "pending"
        /\ sess[s].responder \in {Nobody, a}
        /\ sess' = [sess EXCEPT ![s].state = "active", ![s].responder = a,
                                ![s].confirmed = TRUE]
  /\ UNCHANGED <<messages, mailbox, archives, overdue, stale, inbox, refused>>

\* Whoever reads an overdue session ends it.
GetSession(s) ==
  /\ Expirable(s)
  /\ Notice(s)
  /\ UNCHANGED <<messages, mailbox, archives, overdue, stale, inbox, refused>>

(***************************************************************************)
(* send_message, receive_messages                                          *)
(***************************************************************************)

\* Fault: an accept concludes nothing.
ConcludesButAccept(k) == k \in TerminalKinds \ {"accept"}

Concludes(k) == k \in TerminalKinds

\* The message is in the transcript, and counted, before the mailbox is seen to be
\* full; then the sender is told None and a terminal message concludes nothing.
Route(s, a, k) ==
  LET to  == Counterparty(s, a)
      m   == [session |-> s, from |-> a, to |-> to, kind |-> k, status |-> "queued"]
      id  == Len(messages) + 1
      r   == [sess[s] EXCEPT !.sent[a] = @ + 1]
  IN
  /\ to # Nobody
  /\ messages' = Append(messages, m)
  /\ IF Len(mailbox[to]) < MaxMailbox
     THEN /\ mailbox' = [mailbox EXCEPT ![to] = Append(@, id)]
          /\ refused' = refused
          /\ sess' = [sess EXCEPT ![s] = IF Concludes(k)
                                         THEN EndedAs(r, "concluded", k) ELSE r]
     ELSE /\ mailbox' = mailbox
          /\ refused' = refused \union {id}
          /\ sess' = [sess EXCEPT ![s] = r]

Send(s, a, k) ==
  /\ Confirmed(s, a)
  /\ sess[s].state \in Open
  /\ \/ /\ s \in overdue
        /\ Notice(s)
        /\ UNCHANGED <<messages, mailbox, refused>>
     \/ /\ s \notin overdue
        /\ Cardinality(Transcript(s)) < MaxTranscript
        /\ Len(messages) < MaxMessages
        /\ Route(s, a, k)
  /\ UNCHANGED <<archives, overdue, stale, inbox>>

Elements(q) == {q[i] : i \in DOMAIN q}

\* The entries of a queue that are among ids, in its order: the k-th has k of them up to it.
Among(q, ids) ==
  LET kept == {i \in DOMAIN q : q[i] \in ids}
  IN [k \in 1..Cardinality(kept) |-> q[CHOOSE i \in kept : Cardinality({j \in kept : j <= i}) = k]]

Fresh(a) == Among(mailbox[a], DOMAIN messages \ stale)

\* What one poll of agent a takes, for the sessions ss, for n messages at most.
Given(a, ss, n) ==
  LET wanted == Among(Fresh(a), {i \in DOMAIN messages : messages[i].session \in ss})
  IN SubSeq(wanted, 1, IF Len(wanted) < n THEN Len(wanted) ELSE n)

\* Faults: what is given is kept too; what the filter passes over is lost.
RemainingAll(a, given) == Fresh(a)
RemainingSame(a, given) ==
  Among(Fresh(a), {i \in DOMAIN messages \ Elements(given) :
                     \E j \in Elements(given) : messages[i].session = messages[j].session})

\* And what it leaves, in the order it was.
Remaining(a, given) == Among(Fresh(a), DOMAIN messages \ Elements(given))

\* Fault: a poll over several sessions counts for each of them.
DeliveredInAny(s, given) == Len(given)

DeliveredIn(s, given) == Cardinality({i \in Elements(given) : messages[i].session = s})

\* Stale messages are dropped from the whole mailbox, whatever the filter and the limit.
Receive(a, ss, n) ==
  LET given == Given(a, ss, n)
      gone  == Elements(mailbox[a]) \ Elements(Fresh(a))
  IN
  /\ mailbox[a] # <<>>
  /\ mailbox' = [mailbox EXCEPT ![a] = Remaining(a, given)]
  /\ messages' = [i \in DOMAIN messages |->
                    [messages[i] EXCEPT !.status =
                       IF i \in Elements(given) THEN "delivered"
                       ELSE IF i \in gone THEN "expired" ELSE @]]
  /\ sess' = [s \in SessionIds |->
                [sess[s] EXCEPT !.got[a] = @ + DeliveredIn(s, given)]]
  /\ inbox' = [inbox EXCEPT ![a] = @ \o given]
  /\ UNCHANGED <<archives, overdue, stale, refused>>

(***************************************************************************)
(* conclude_session, archive_session                                       *)
(***************************************************************************)

\* A session that has timed out is concluded once more.
Conclude(s, a) ==
  /\ Confirmed(s, a)
  /\ sess[s].state \in Open \union {"timed_out"}
  /\ sess' = [sess EXCEPT ![s] = EndedAs(@, "concluded", "manual")]
  /\ UNCHANGED <<messages, mailbox, archives, overdue, stale, inbox, refused>>

\* The copy that is filed: of each message the status it has now, and the counters the
\* participants have now.
Snapshot(s) ==
  [session |-> s, parties |-> {sess[s].initiator, sess[s].responder} \ {Nobody},
   confirmed |-> sess[s].confirmed, reason |-> sess[s].reason,
   messages |-> [i \in Transcript(s) |-> messages[i].status],
   sent |-> sess[s].sent, got |-> sess[s].got]

\* Fault: the session is not frozen.
ArchiveUnfrozen(s) ==
  /\ sess[s].state \in {"concluded", "timed_out"}
  /\ Len(archives) < MaxArchives
  /\ archives' = Append(archives, Snapshot(s))
  /\ UNCHANGED <<sess, messages, mailbox, overdue, stale, inbox, refused>>

\* Mailboxes are left as they are: what the session still has there is delivered later.
Archive(s) ==
  /\ sess[s].state \in {"concluded", "timed_out"}
  /\ Len(archives) < MaxArchives
  /\ archives' = Append(archives, Snapshot(s))
  /\ sess' = [sess EXCEPT ![s].state = "archived"]
  /\ UNCHANGED <<messages, mailbox, overdue, stale, inbox, refused>>

(***************************************************************************)
(* The clock                                                               *)
(***************************************************************************)

\* No method looks at the clock of a session that has ended, so only open ones need it.
Elapse(s) ==
  /\ s \notin overdue
  /\ sess[s].state \in Open
  /\ overdue' = overdue \union {s}
  /\ UNCHANGED <<sess, messages, mailbox, archives, stale, inbox, refused>>

ElapseMessage(i) ==
  /\ i \notin stale
  /\ stale' = stale \union {i}
  /\ UNCHANGED <<sess, messages, mailbox, archives, overdue, inbox, refused>>

Next ==
  \/ \E s \in SessionIds, i \in Agents, r \in Agents \union {Nobody}, auto \in AutoAttest :
        Create(s, i, r, auto)
  \/ \E s \in SessionIds : GetSession(s) \/ Archive(s) \/ Elapse(s)
  \/ \E s \in SessionIds, a \in Agents :
        \/ Join(s, a)
        \/ Conclude(s, a)
        \/ \E k \in Kinds : Send(s, a, k)
  \/ \E a \in Agents, n \in Limits : \E ss \in {SessionIds} \union {{s} : s \in SessionIds} :
        Receive(a, ss, n)
  \/ \E i \in UNION {Elements(mailbox[a]) : a \in Agents} : ElapseMessage(i)

Spec == Init /\ [][Next]_vars

(***************************************************************************)
(* Properties                                                              *)
(***************************************************************************)

Record == [state : Open \union Ended \union {"absent"}, initiator : Agents \union {Nobody},
           responder : Agents \union {Nobody}, confirmed : BOOLEAN, autoAttest : BOOLEAN,
           reason : TerminalKinds \union {"none", "manual", "session_timeout"},
           skipped : BOOLEAN, sent : [Agents -> Nat], got : [Agents -> Nat]]

Statuses == {"queued", "delivered", "expired"}

Message == [session : SessionIds, from : Agents, to : Agents, kind : Kinds, status : Statuses]

\* Every variable has the type its attribute has in relay.py.
TypeOK ==
  /\ sess \in [SessionIds -> Record]
  /\ messages \in Seq(Message)
  /\ mailbox \in [Agents -> Seq(Nat)]
  /\ \A n \in DOMAIN archives :
       /\ archives[n].session \in SessionIds /\ archives[n].parties \in SUBSET Agents
       /\ \A i \in DOMAIN archives[n].messages : archives[n].messages[i] \in Statuses
       /\ archives[n].sent \in [Agents -> Nat] /\ archives[n].got \in [Agents -> Nat]
  /\ overdue \in SUBSET SessionIds
  /\ stale \in SUBSET Nat
  /\ inbox \in [Agents -> Seq(Nat)]
  /\ refused \in SUBSET Nat

\* A responder that was only named has no part in the session: nothing is routed from or
\* to it, and the session is not active, until it has joined.  (create_session: "a
\* reservation until that exact responder joins".)
ReservationsArePowerless ==
  /\ \A s \in SessionIds : sess[s].state = "active" => sess[s].confirmed
  /\ \A s \in SessionIds : ~sess[s].confirmed => Transcript(s) = {}
  /\ \A i \in DOMAIN messages :
       LET m == messages[i] IN
       {m.from, m.to} = {sess[m.session].initiator, sess[m.session].responder}

\* Who takes part is settled for good by the first naming or joining, also when several
\* agents race to join.
PartiesAreSettled ==
  [][\A s \in SessionIds :
       /\ sess[s].initiator # Nobody => sess'[s].initiator = sess[s].initiator
       /\ sess[s].responder # Nobody => sess'[s].responder = sess[s].responder
       /\ sess[s].confirmed => sess'[s].confirmed]_vars

\* An ended session stays ended, and one whose time has elapsed takes no join and no
\* message even when nobody has noticed yet (join_session: a session "could be
\* resurrected into ACTIVE by a join that races ahead of any get_session() call").
NoResurrection ==
  [][\A s \in SessionIds :
       /\ sess[s].state \in Ended => sess'[s].state \in Ended
       /\ s \in overdue /\ sess[s].state = "pending" => sess'[s].state # "active"
       /\ s \in overdue \/ sess[s].state \in Ended => Transcript(s)' = Transcript(s)]_vars

\* Transcript, mailbox and delivery agree on every message: it is either waiting where
\* its recipient polls, or was given to it, or went stale, or its sender was told None.
Accounted ==
  \A i \in DOMAIN messages :
    LET m == messages[i] IN
    /\ m.status = "queued" <=> i \in refused \union Elements(mailbox[m.to])
    /\ m.status = "delivered" <=> i \in Elements(inbox[m.to])
    /\ m.status = "expired" => i \in stale
    /\ \A a \in Agents \ {m.to} : i \notin Elements(mailbox[a]) \union Elements(inbox[a])

\* An agent is given the messages of a session in the order they were sent and each
\* once, however it filters, limits and repeats its polls.
InOrder ==
  \A a \in Agents : \A i, j \in DOMAIN inbox[a] :
    i < j /\ messages[inbox[a][i]].session = messages[inbox[a][j]].session
      => inbox[a][i] < inbox[a][j]

\* The participants' counters tell what the transcript tells, over joins and polls that
\* mix sessions.
CountersTell ==
  \A s \in SessionIds, a \in Agents :
    /\ sess[s].sent[a] = Cardinality({i \in Transcript(s) : messages[i].from = a})
    /\ sess[s].got[a] = Cardinality({i \in Transcript(s) : /\ messages[i].to = a
                                                           /\ messages[i].status = "delivered"})

\* A terminal message that was mailed is the last word: it ended its session and nothing
\* follows it; and a session concluded for a message kind has that message last.
LastWord ==
  /\ \A i \in DOMAIN messages \ refused :
       LET s == messages[i].session IN
       messages[i].kind \in TerminalKinds =>
         /\ sess[s].state \in Ended
         /\ sess[s].reason = messages[i].kind
         /\ \A j \in Transcript(s) : j <= i
  /\ \A s \in SessionIds : sess[s].reason \in TerminalKinds =>
       \E i \in Transcript(s) \ refused : messages[i].kind = sess[s].reason

\* What archive r says of deliveries: its counters tell what its copy of the transcript
\* tells, and a message it does not show as queued stays as it shows it.
DeliveriesAsFiled(r) ==
  /\ \A i \in DOMAIN r.messages : r.messages[i] \in {"queued", messages[i].status}
  /\ \A a \in Agents :
       /\ r.sent[a] = Cardinality({i \in DOMAIN r.messages : messages[i].from = a})
       /\ r.got[a] = Cardinality({i \in DOMAIN r.messages : /\ messages[i].to = a
                                                            /\ r.messages[i] = "delivered"})

\* An archive holds, for good, the whole transcript, the parties, the reason and the counts
\* of what was sent of its session, and a session is archived once.  Of deliveries it tells
\* the state at its making, consistently: polls after it deliver what it shows as queued
\* (archive_session copies statuses and counters and leaves the mailboxes).
ArchivesFaithful ==
  /\ \A n \in DOMAIN archives :
       LET r == archives[n] IN
       /\ sess[r.session].state = "archived"
       /\ DOMAIN r.messages = Transcript(r.session)
       /\ r.reason = sess[r.session].reason
       /\ r.parties = {sess[r.session].initiator, sess[r.session].responder} \ {Nobody}
       /\ r.confirmed = sess[r.session].confirmed
       /\ r.sent = sess[r.session].sent
       /\ DeliveriesAsFiled(r)
  /\ \A n, k \in DOMAIN archives : archives[n].session = archives[k].session => n = k
  /\ \A s \in SessionIds : sess[s].state = "archived" =>
       \E n \in DOMAIN archives : archives[n].session = s

\* Every way to end a session marks the attestation as skipped exactly when it would
\* name a responder that never joined (_record_auto_attest_skip_if_unconfirmed).
SkipsMarked ==
  \A s \in SessionIds :
    sess[s].skipped <=> /\ sess[s].state \in Ended
                       /\ sess[s].autoAttest
                       /\ sess[s].responder # Nobody
                       /\ ~sess[s].confirmed

\* No limit is passed, whatever is swept, refused or archived in between.
WithinLimits ==
  /\ Cardinality(Created) <= MaxSessions
  /\ Len(archives) <= MaxArchives
  /\ \A a \in Agents : Len(mailbox[a]) <= MaxMailbox /\ Cardinality(Active(a)) <= MaxActive
  /\ \A s \in SessionIds : Cardinality(Transcript(s)) <= MaxTranscript

(***************************************************************************)
(* What the comments say and the code does not do                          *)
(***************************************************************************)

\* send_message: "The message is stored in the transcript and placed in the recipient's
\* mailbox for retrieval."
KeptIsMailed ==
  \A i \in DOMAIN messages :
    messages[i].status = "queued" => i \in Elements(mailbox[messages[i].to])

\* create_session: "Prevent self-sessions".
NoSelfSession ==
  \A s \in Created : sess[s].initiator # sess[s].responder
=============================================================================
