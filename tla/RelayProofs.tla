----------------------------- MODULE RelayProofs -----------------------------
(***************************************************************************)
(* What TLAPS proves of Relay, for every set of agents, sessions and kinds *)
(* and for every limit.  Whatever a method does, to each session it does   *)
(* one of six things, and it adds at most one archive: what is said of     *)
(* sessions and archives follows from that.  What is said of messages      *)
(* follows from where each of them is and from how mailboxes and inboxes   *)
(* lie (Delivery), and what archives say of deliveries from the counters,  *)
(* which agree with the transcript (Tally).                                *)
(***************************************************************************)
EXTENDS Relay, TLAPS, FiniteSetTheorems, SequenceTheorems

(***************************************************************************)
(* Types, as far as they are needed                                        *)
(***************************************************************************)

Someone == Agents \union {Nobody}
Reasons == TerminalKinds \union {"none", "manual", "session_timeout"}

\* A session's record, whatever its counters and flags.
WellFormed(r) ==
  /\ DOMAIN r = {"state", "initiator", "responder", "confirmed", "autoAttest", "reason",
                 "skipped", "sent", "got"}
  /\ r.state \in Open \union Ended \union {"absent"}
  /\ r.initiator \in Someone
  /\ r.responder \in Someone
  /\ r.reason \in Reasons

Typed ==
  /\ DOMAIN sess = SessionIds
  /\ \A s \in SessionIds : WellFormed(sess[s])
  /\ messages \in Seq(Message)
  /\ archives \in Seq(Elements(archives))
  /\ \A n \in DOMAIN archives : archives[n].session \in SessionIds

(***************************************************************************)
(* What may become of one session                                          *)
(***************************************************************************)

\* What an archive tells of a session stays, and so does its state.
Keeps(r, q) ==
  /\ q.state = r.state
  /\ q.initiator = r.initiator
  /\ q.responder = r.responder
  /\ q.reason = r.reason

Ends(r, q) ==
  /\ r.state \in Open \union {"timed_out"}
  /\ q.state \in {"timed_out", "concluded"}

Becomes(s) ==
  \/ Keeps(sess[s], sess'[s])
  \/ sess[s].state = "absent" /\ sess'[s].state = "pending"
  \/ sess[s].state = "pending" /\ s \notin overdue /\ sess'[s].state = "active"
  \/ Ends(sess[s], sess'[s])

\* A step of the relay that archives nothing.
Goes ==
  /\ \A s \in SessionIds : Becomes(s)
  /\ \A s \in SessionIds : Transcript(s)' # Transcript(s) =>
       sess[s].state \in Open /\ s \notin overdue
  /\ archives' = archives

LEMMA EndedIs ==
  ASSUME NEW r, WellFormed(r), NEW state \in Ended, NEW reason \in Reasons
  PROVE  /\ WellFormed(EndedAs(r, state, reason))
         /\ EndedAs(r, state, reason).state = state
  BY DEF EndedAs, WellFormed

LEMMA TimedOutIs ==
  ASSUME NEW r, WellFormed(r)
  PROVE  WellFormed(TimedOut(r)) /\ TimedOut(r).state = "timed_out"
  BY EndedIs DEF TimedOut, Ended, Reasons

LEMMA AbsentIs == WellFormed(Absent)
  BY DEF Absent, WellFormed, Someone, Reasons

\* A new session's record.
LEMMA PendingIs ==
  ASSUME NEW i \in Someone, NEW r \in Someone, NEW auto
  PROVE  LET q == [Absent EXCEPT !.state = "pending", !.initiator = i,
                                 !.responder = r, !.autoAttest = auto]
         IN WellFormed(q) /\ q.state = "pending"
  BY AbsentIs DEF WellFormed, Open

(***************************************************************************)
(* What each method does                                                   *)
(***************************************************************************)

\* The sessions after a sweep: each kept or timed out.
LEMMA SweptIs ==
  ASSUME Typed
  PROVE  /\ DOMAIN Swept = SessionIds
         /\ \A s \in SessionIds :
              WellFormed(Swept[s]) /\ (Keeps(sess[s], Swept[s]) \/ Ends(sess[s], Swept[s]))
  BY TimedOutIs DEF Typed, Swept, Expirable, Keeps, Ends, WellFormed

LEMMA CreateGoes ==
  ASSUME Typed, NEW s \in SessionIds, NEW i \in Agents, NEW r \in Someone,
         NEW auto \in AutoAttest, Create(s, i, r, auto)
  PROVE  Typed' /\ Goes
<1> DEFINE q == [Absent EXCEPT !.state = "pending", !.initiator = i,
                               !.responder = r, !.autoAttest = auto]
<1>1. UNCHANGED <<messages, archives>> /\ sess[s].state = "absent"
  BY DEF Create, Created
<1>2. WellFormed(q) /\ q.state = "pending"
  BY PendingIs DEF Someone
<1> HIDE DEF q
<1>3. sess' = Swept \/ sess' = [Swept EXCEPT ![s] = q]
  BY DEF Create, q
<1>4. DOMAIN sess' = SessionIds /\ \A t \in SessionIds : WellFormed(sess'[t]) /\ Becomes(t)
  BY <1>1, <1>2, <1>3, SweptIs DEF Becomes
<1>5. \A t \in SessionIds : Transcript(t)' = Transcript(t)
  BY <1>1 DEF Transcript
<1> QED
  BY <1>1, <1>4, <1>5 DEF Typed, Goes

\* Only one session changes, and only its record.
LEMMA OneGoes ==
  ASSUME Typed, NEW s \in SessionIds, NEW q, sess' = [sess EXCEPT ![s] = q],
         WellFormed(q),
         \/ Keeps(sess[s], q)
         \/ sess[s].state = "pending" /\ s \notin overdue /\ q.state = "active"
         \/ Ends(sess[s], q)
  PROVE  /\ DOMAIN sess' = SessionIds
         /\ \A t \in SessionIds : WellFormed(sess'[t]) /\ Becomes(t)
  BY DEF Typed, Becomes, Keeps

\* Whoever notices that a session is overdue ends it.
LEMMA NoticeGoes ==
  ASSUME Typed, NEW s \in SessionIds, sess[s].state \in Open, Notice(s),
         UNCHANGED <<messages, archives>>
  PROVE  Typed' /\ Goes
<1>1. Ends(sess[s], TimedOut(sess[s])) /\ WellFormed(TimedOut(sess[s]))
  BY TimedOutIs DEF Typed, Ends
<1>2. DOMAIN sess' = SessionIds /\ \A t \in SessionIds : WellFormed(sess'[t]) /\ Becomes(t)
  BY <1>1, OneGoes DEF Notice
<1>3. \A t \in SessionIds : Transcript(t)' = Transcript(t)
  BY DEF Transcript
<1> QED
  BY <1>2, <1>3 DEF Typed, Goes

LEMMA JoinGoes ==
  ASSUME Typed, NEW s \in SessionIds, NEW a \in Agents, Join(s, a)
  PROVE  Typed' /\ Goes
<1>1. UNCHANGED <<messages, archives>>
  BY DEF Join
<1>2. CASE Expirable(s) /\ Notice(s)
  BY <1>1, <1>2, NoticeGoes DEF Expirable
<1>3. CASE /\ ~Expirable(s) /\ sess[s].state = "pending"
           /\ sess' = [sess EXCEPT ![s].state = "active", ![s].responder = a,
                                   ![s].confirmed = TRUE]
  <2> DEFINE q == [sess[s] EXCEPT !.state = "active", !.responder = a, !.confirmed = TRUE]
  <2>1. WellFormed(q) /\ q.state = "active"
    BY DEF Typed, WellFormed, Open, Someone
  <2>2. s \notin overdue
    BY <1>3 DEF Expirable, Open
  <2>3. sess' = [sess EXCEPT ![s] = q]
    BY <1>3 DEF Typed, WellFormed
  <2> HIDE DEF q
  <2>4. DOMAIN sess' = SessionIds /\ \A t \in SessionIds : WellFormed(sess'[t]) /\ Becomes(t)
    BY <1>3, <2>1, <2>2, <2>3, OneGoes
  <2>5. \A t \in SessionIds : Transcript(t)' = Transcript(t)
    BY <1>1 DEF Transcript
  <2> QED
    BY <1>1, <2>4, <2>5 DEF Typed, Goes
<1> QED
  BY <1>2, <1>3 DEF Join

\* A message enters the transcript of an open session that is not overdue.
LEMMA RouteGoes ==
  ASSUME Typed, NEW s \in SessionIds, NEW a \in Agents, NEW k \in Kinds, Route(s, a, k),
         sess[s].state \in Open, s \notin overdue, archives' = archives
  PROVE  Typed' /\ Goes
<1> DEFINE to == Counterparty(s, a)
           m == [session |-> s, from |-> a, to |-> to, kind |-> k, status |-> "queued"]
           r == [sess[s] EXCEPT !.sent[a] = @ + 1]
           e == EndedAs(r, "concluded", k)
<1>1. to \in Agents
  BY DEF Typed, WellFormed, Route, Counterparty, Someone
<1>2. m \in Message
  BY <1>1 DEF Message, Statuses
<1>3. messages' = Append(messages, m)
  BY DEF Route
<1>4. messages' \in Seq(Message)
  BY <1>2, <1>3, AppendProperties DEF Typed
<1>5. WellFormed(r) /\ Keeps(sess[s], r)
  BY DEF Typed, WellFormed, Keeps
<1>6. k \in TerminalKinds => WellFormed(e) /\ Ends(sess[s], e)
  BY <1>5, EndedIs DEF Ended, Reasons, Ends
<1>7. \/ sess' = [sess EXCEPT ![s] = r]
      \/ k \in TerminalKinds /\ sess' = [sess EXCEPT ![s] = e]
  BY DEF Route, Concludes
<1> HIDE DEF r, e
<1>8. DOMAIN sess' = SessionIds /\ \A t \in SessionIds : WellFormed(sess'[t]) /\ Becomes(t)
  BY <1>5, <1>6, <1>7, OneGoes
<1>9. \A t \in SessionIds : t # s => Transcript(t)' = Transcript(t)
  <2> SUFFICES ASSUME NEW t \in SessionIds, t # s
               PROVE  \A i : i \in Transcript(t)' <=> i \in Transcript(t)
    OBVIOUS
  <2>1. /\ DOMAIN messages = 1..Len(messages) /\ Len(messages) \in Nat
        /\ DOMAIN messages' = 1..(Len(messages) + 1)
        /\ \A i \in DOMAIN messages : messages'[i] = messages[i]
        /\ messages'[Len(messages) + 1] = m
    BY <1>2, <1>3, <1>4, AppendProperties DEF Typed
  <2>2. m.session = s
    OBVIOUS
  <2> HIDE DEF m
  <2> QED
    BY <2>1, <2>2 DEF Transcript
<1> QED
  BY <1>4, <1>8, <1>9 DEF Typed, Goes

LEMMA SendGoes ==
  ASSUME Typed, NEW s \in SessionIds, NEW a \in Agents, NEW k \in Kinds, Send(s, a, k)
  PROVE  Typed' /\ Goes
<1>1. archives' = archives /\ sess[s].state \in Open
  BY DEF Send
<1>2. CASE Notice(s) /\ UNCHANGED messages
  BY <1>1, <1>2, NoticeGoes
<1>3. CASE s \notin overdue /\ Route(s, a, k)
  BY <1>1, <1>3, RouteGoes
<1> QED
  BY <1>2, <1>3 DEF Send

\* A poll marks messages and counts them, and moves none.
LEMMA ReceiveGoes ==
  ASSUME Typed, NEW a \in Agents, NEW ss, NEW n \in Limits, Receive(a, ss, n)
  PROVE  Typed' /\ Goes
<1> DEFINE given == Given(a, ss, n)
           gone == Elements(mailbox[a]) \ Elements(Fresh(a))
           mark(i) == IF i \in Elements(given) THEN "delivered"
                      ELSE IF i \in gone THEN "expired" ELSE messages[i].status
           q(s) == [sess[s] EXCEPT !.got[a] = @ + DeliveredIn(s, given)]
<1>1. messages' = [i \in DOMAIN messages |-> [messages[i] EXCEPT !.status = mark(i)]]
  BY DEF Receive
<1>2. sess' = [s \in SessionIds |-> q(s)]
  BY DEF Receive
<1>3. \A s \in SessionIds : WellFormed(q(s)) /\ Keeps(sess[s], q(s))
  BY DEF Typed, WellFormed, Keeps
<1>4. \A i \in DOMAIN messages : mark(i) \in Statuses
  <2>1. \A i \in DOMAIN messages : messages[i] \in Message
    BY ElementOfSeq DEF Typed
  <2> HIDE DEF given, gone
  <2> QED
    BY <2>1 DEF Message, Statuses
<1> HIDE DEF mark, q
<1>5. \A i \in DOMAIN messages :
        /\ [messages[i] EXCEPT !.status = mark(i)] \in Message
        /\ [messages[i] EXCEPT !.status = mark(i)].session = messages[i].session
  <2>1. \A i \in DOMAIN messages : messages[i] \in Message
    BY ElementOfSeq DEF Typed
  <2> QED
    BY <1>4, <2>1 DEF Message
<1>6. messages' \in Seq(Message) /\ DOMAIN messages' = DOMAIN messages
  <2>1. PICK l \in Nat : DOMAIN messages = 1..l
    BY DEF Typed
  <2>2. messages' \in [1..l -> Message]
    BY <1>1, <1>5, <2>1
  <2> QED
    BY <2>1, <2>2, SeqDef
<1>7. \A s \in SessionIds : Transcript(s)' = Transcript(s)
  BY <1>1, <1>5, <1>6 DEF Transcript
<1>8. archives' = archives
  BY DEF Receive
<1>9. DOMAIN sess' = SessionIds /\ \A s \in SessionIds : WellFormed(sess'[s]) /\ Becomes(s)
  BY <1>2, <1>3 DEF Becomes
<1> QED
  BY <1>6, <1>7, <1>8, <1>9 DEF Typed, Goes

LEMMA ConcludeGoes ==
  ASSUME Typed, NEW s \in SessionIds, NEW a \in Agents, Conclude(s, a)
  PROVE  Typed' /\ Goes
<1> DEFINE e == EndedAs(sess[s], "concluded", "manual")
<1>1. UNCHANGED <<messages, archives>> /\ sess' = [sess EXCEPT ![s] = e]
  BY DEF Conclude
<1>2. WellFormed(e) /\ Ends(sess[s], e)
  BY EndedIs DEF Conclude, Typed, Ended, Reasons, Ends
<1> HIDE DEF e
<1>3. DOMAIN sess' = SessionIds /\ \A t \in SessionIds : WellFormed(sess'[t]) /\ Becomes(t)
  BY <1>1, <1>2, OneGoes
<1>4. \A t \in SessionIds : Transcript(t)' = Transcript(t)
  BY <1>1 DEF Transcript
<1> QED
  BY <1>1, <1>3, <1>4 DEF Typed, Goes

\* q is p with e at its end.
Appended(p, e, q) ==
  /\ Len(q) = Len(p) + 1
  /\ DOMAIN q = 1..(Len(p) + 1)
  /\ \A i \in 1..Len(p) : q[i] = p[i]
  /\ q[Len(p) + 1] = e

LEMMA AppendedIs ==
  ASSUME NEW p, p \in Seq(Elements(p)), NEW e
  PROVE  /\ Appended(p, e, Append(p, e))
         /\ Append(p, e) \in Seq(Elements(Append(p, e)))
<1>1. PICK S, q : S = Elements(p) \union {e} /\ q = Append(p, e)
  OBVIOUS
<1>2. DOMAIN p = 1..Len(p) /\ Len(p) \in Nat /\ \A i \in 1..Len(p) : p[i] \in S
  BY <1>1 DEF Elements
<1>3. p \in Seq(S)
  BY <1>2, SeqDef
<1>4. q \in Seq(S) /\ Appended(p, e, q)
  BY <1>1, <1>3, AppendProperties DEF Appended
<1>5. q \in [1..Len(q) -> Elements(q)] /\ Len(q) \in Nat
  BY <1>4 DEF Elements
<1>6. q \in Seq(Elements(q))
  BY <1>5, SeqDef
<1> QED
  BY <1>1, <1>4, <1>6

\* The one step that archives: of one session the state changes and nothing else.
Files(s) ==
  /\ sess[s].state \in {"concluded", "timed_out"}
  /\ sess'[s].state = "archived"
  /\ Keeps([sess[s] EXCEPT !.state = "archived"], sess'[s])
  /\ \A t \in SessionIds \ {s} : sess'[t] = sess[t]
  /\ messages' = messages
  /\ Appended(archives, Snapshot(s), archives')

LEMMA ArchiveFiles ==
  ASSUME Typed, NEW s \in SessionIds, Archive(s)
  PROVE  Typed' /\ Files(s)
<1> DEFINE q == [sess[s] EXCEPT !.state = "archived"]
<1>1. WellFormed(sess[s])
  BY DEF Typed
<1>2. WellFormed(q) /\ q.state = "archived"
  BY <1>1 DEF WellFormed, Ended
<1>3. sess' = [sess EXCEPT ![s] = q] /\ messages' = messages
  BY <1>1 DEF Archive, Typed, WellFormed
<1>4. Snapshot(s).session = s
  BY DEF Snapshot
<1>5. PICK e : e = Snapshot(s)
  OBVIOUS
<1>6. archives' = Append(archives, e)
  BY <1>5 DEF Archive
<1>7. Appended(archives, e, archives') /\ archives' \in Seq(Elements(archives)')
  BY <1>6, AppendedIs DEF Typed
<1>8. \A n \in DOMAIN archives' : archives'[n].session \in SessionIds
  <2>1. DOMAIN archives = 1..Len(archives) /\ Len(archives) \in Nat
    BY DEF Typed
  <2> QED
    BY <1>4, <1>5, <1>7, <2>1 DEF Appended, Typed
<1>9. /\ DOMAIN sess' = SessionIds /\ sess'[s] = q
      /\ \A t \in SessionIds \ {s} : sess'[t] = sess[t]
  BY <1>3 DEF Typed
<1>10. Typed'
  BY <1>2, <1>3, <1>7, <1>8, <1>9 DEF Typed
<1>11. Keeps(q, sess'[s])
  BY <1>9 DEF Keeps
<1> QED
  BY <1>2, <1>3, <1>5, <1>7, <1>9, <1>10, <1>11 DEF Files, Archive

\* What is left: time passes, or nothing does.
LEMMA RestGoes ==
  ASSUME Typed, UNCHANGED <<sess, messages, archives>>
  PROVE  Typed' /\ Goes
  BY DEF Typed, Goes, Becomes, Keeps, Transcript

LEMMA Steps ==
  ASSUME Typed, [Next]_vars
  PROVE  Typed' /\ (Goes \/ \E s \in SessionIds : Archive(s))
<1>1. CASE \E s \in SessionIds, i \in Agents, r \in Agents \union {Nobody},
              auto \in AutoAttest : Create(s, i, r, auto)
  BY <1>1, CreateGoes DEF Someone
<1>2. ASSUME NEW s \in SessionIds, GetSession(s) \/ Elapse(s)
      PROVE  Typed' /\ Goes
  BY <1>2, NoticeGoes, RestGoes DEF GetSession, Elapse, Expirable
<1>3. ASSUME NEW s \in SessionIds, Archive(s)
      PROVE  Typed' /\ Archive(s)
  BY <1>3, ArchiveFiles
<1>4. ASSUME NEW s \in SessionIds, NEW a \in Agents,
             Join(s, a) \/ Conclude(s, a) \/ \E k \in Kinds : Send(s, a, k)
      PROVE  Typed' /\ Goes
  BY <1>4, JoinGoes, ConcludeGoes, SendGoes
<1>5. ASSUME NEW a \in Agents, NEW n \in Limits, NEW ss, Receive(a, ss, n)
      PROVE  Typed' /\ Goes
  BY <1>5, ReceiveGoes
<1>6. ASSUME NEW i, ElapseMessage(i) PROVE Typed' /\ Goes
  BY <1>6, RestGoes DEF ElapseMessage
<1>7. CASE UNCHANGED vars
  BY <1>7, RestGoes DEF vars
<1> QED
  BY <1>1, <1>2, <1>3, <1>4, <1>5, <1>6, <1>7 DEF Next

THEOREM RelayTyped == Spec => []Typed
<1>1. Init => Typed
  BY AbsentIs DEF Init, Typed
<1>2. Typed /\ [Next]_vars => Typed'
  BY Steps
<1> QED
  BY <1>1, <1>2, PTL DEF Spec

(***************************************************************************)
(* The properties                                                          *)
(***************************************************************************)

\* No session comes back from its end, and none whose time has elapsed is joined or
\* written to, noticed or not (join_session and send_message look before they act).
THEOREM NothingResurrected == Spec => NoResurrection
<1>1. ASSUME Typed, [Next]_vars, NEW s \in SessionIds
      PROVE  /\ sess[s].state \in Ended => sess'[s].state \in Ended
             /\ s \in overdue /\ sess[s].state = "pending" => sess'[s].state # "active"
             /\ s \in overdue \/ sess[s].state \in Ended => Transcript(s)' = Transcript(s)
  <2>1. CASE Goes
    <3>1. Becomes(s) /\ (Transcript(s)' # Transcript(s) =>
                           sess[s].state \in Open /\ s \notin overdue)
      BY <2>1 DEF Goes
    <3> QED
      BY <3>1 DEF Becomes, Keeps, Ends, Open, Ended
  <2>2. ASSUME NEW t \in SessionIds, Archive(t)
        PROVE  /\ Transcript(s)' = Transcript(s)
               /\ \/ sess'[s] = sess[s]
                  \/ sess[s].state \in Ended /\ sess'[s].state = "archived"
    <3> Files(t)
      BY <1>1, <2>2, ArchiveFiles
    <3>1. Transcript(s)' = Transcript(s)
      BY DEF Files, Transcript
    <3>2. sess[t].state \in Ended /\ sess'[t].state = "archived"
      BY DEF Files, Ended
    <3>3. s # t => sess'[s] = sess[s]
      BY DEF Files
    <3> QED
      BY <3>1, <3>2, <3>3
  <2> QED
    BY <1>1, <2>1, <2>2, Steps DEF Ended, Open
<1>2. Typed /\ [Next]_vars => [\A s \in SessionIds :
       /\ sess[s].state \in Ended => sess'[s].state \in Ended
       /\ s \in overdue /\ sess[s].state = "pending" => sess'[s].state # "active"
       /\ s \in overdue \/ sess[s].state \in Ended => Transcript(s)' = Transcript(s)]_vars
  BY <1>1
<1> QED
  BY <1>2, RelayTyped, PTL DEF Spec, NoResurrection

(***************************************************************************)
(* Mailboxes: queues and what a poll leaves of them                        *)
(***************************************************************************)

\* A queue whose entries ascend, as the numbers of the messages in a mailbox do.
Increasing(q) == \A i, j \in DOMAIN q : i < j => q[i] < q[j]

\* Those of a set of numbers that are not above i.
UpTo(S, i) == {j \in S : j <= i}

\* Counting the elements of a finite set of numbers from below is one-to-one.
LEMMA Counting ==
  ASSUME NEW n \in Nat, NEW S \in SUBSET (1..n)
  PROVE  /\ IsFiniteSet(S) /\ Cardinality(S) \in Nat
         /\ \A i \in S : Cardinality(UpTo(S, i)) \in 1..Cardinality(S)
         /\ \A i, j \in S : i < j => Cardinality(UpTo(S, i)) < Cardinality(UpTo(S, j))
         /\ \A k \in 1..Cardinality(S) : \E i \in S : Cardinality(UpTo(S, i)) = k
<1>1. IsFiniteSet(1..n)
  BY FS_Interval
<1>2. IsFiniteSet(S)
  BY <1>1, FS_Subset
<1>3. PICK m \in Nat : m = Cardinality(S)
  BY <1>2, FS_CardinalityType
<1> DEFINE c(i) == Cardinality(UpTo(S, i))
<1>4. \A i \in S : UpTo(S, i) \in SUBSET S /\ i \in UpTo(S, i)
  BY DEF UpTo
<1>5. \A i \in S : IsFiniteSet(UpTo(S, i)) /\ c(i) \in Nat /\ c(i) <= m
  BY <1>2, <1>3, <1>4, FS_Subset, FS_CardinalityType
<1>6. \A i \in S : c(i) \in 1..m
  <2>1. \A i \in S : c(i) # 0
    BY <1>4, <1>5, FS_EmptySet
  <2> HIDE DEF c
  <2> QED
    BY <1>5, <2>1
<1>7. ASSUME NEW i \in S, NEW j \in S, i < j PROVE c(i) < c(j)
  <2>1. UpTo(S, i) \in SUBSET UpTo(S, j) /\ UpTo(S, i) # UpTo(S, j)
    <3>1. \A x \in S : x \in Int
      OBVIOUS
    <3>2. \A x \in S : x <= i => x <= j
      BY <1>7, <3>1
    <3>3. UpTo(S, i) \in SUBSET UpTo(S, j)
      BY <3>2 DEF UpTo
    <3>4. j <= j /\ ~(j <= i)
      BY <1>7, <3>1
    <3>5. j \in UpTo(S, j) /\ j \notin UpTo(S, i)
      BY <3>4 DEF UpTo
    <3> QED
      BY <3>3, <3>5
  <2>2. c(i) <= c(j) /\ c(j) # c(i)
    <3>1. IsFiniteSet(UpTo(S, j))
      BY <1>5
    <3>2. PICK T, U : T = UpTo(S, i) /\ U = UpTo(S, j)
      OBVIOUS
    <3>3. Cardinality(T) <= Cardinality(U) /\ (Cardinality(U) = Cardinality(T) => U = T)
      BY <2>1, <3>1, <3>2, FS_Subset
    <3> QED
      BY <2>1, <3>2, <3>3
  <2>3. c(i) \in Nat /\ c(j) \in Nat
    BY <1>5
  <2> HIDE DEF c
  <2> QED
    BY <2>2, <2>3
<1>8. ASSUME NEW k \in 1..m PROVE \E i \in S : c(i) = k
  <2>1. PICK f : f = [i \in S |-> c(i)]
    OBVIOUS
  <2> HIDE DEF c
  <2>2. f \in [S -> 1..m] /\ \A i \in S : f[i] = c(i)
    BY <1>6, <2>1
  <2>3. \A i, j \in S : f[i] = f[j] => i = j
    <3>1. SUFFICES ASSUME NEW i \in S, NEW j \in S, f[i] = f[j], i # j PROVE FALSE
      OBVIOUS
    <3>2. i < j \/ j < i
      BY <3>1
    <3>3. c(i) < c(j) \/ c(j) < c(i)
      BY <1>7, <3>2
    <3> QED
      BY <1>6, <2>2, <3>1, <3>3
  <2>4. f \in Injection(S, 1..m)
    BY <2>2, <2>3 DEF Injection, IsInjective
  <2>5. IsFiniteSet(1..m) /\ Cardinality(1..m) = m
    <3>1. IsFiniteSet(1..m)
      BY FS_Interval
    <3>2. Cardinality(1..m) = IF 1 > m THEN 0 ELSE m - 1 + 1
      BY FS_Interval
    <3> QED
      BY <3>1, <3>2
  <2>6. f \in Surjection(S, 1..m)
    <3>1. Cardinality(S) = Cardinality(1..m)
      BY <1>3, <2>5
    <3> QED
      BY <2>4, <2>5, <3>1, FS_Injection
  <2>7. PICK i \in S : f[i] = k
    BY <2>6 DEF Surjection
  <2> QED
    BY <2>2, <2>7
<1> HIDE DEF c
<1>9. /\ \A i \in S : c(i) \in 1..Cardinality(S)
      /\ \A i, j \in S : i < j => c(i) < c(j)
      /\ \A k \in 1..Cardinality(S) : \E i \in S : c(i) = k
  BY <1>3, <1>6, <1>7, <1>8
<1> QED
  BY <1>2, <1>3, <1>9 DEF c

\* What is left of a queue: the entries that are among the given ones, in their order.
LEMMA AmongIs ==
  ASSUME NEW q \in Seq(Nat), NEW ids
  PROVE  /\ Among(q, ids) \in Seq(Nat)
         /\ Elements(Among(q, ids)) = Elements(q) \intersect ids
         /\ Increasing(q) => Increasing(Among(q, ids))
<1>1. PICK n \in Nat : n = Len(q) /\ DOMAIN q = 1..n
  OBVIOUS
<1> DEFINE kept == {i \in DOMAIN q : q[i] \in ids}
           at(k) == CHOOSE i \in kept : Cardinality(UpTo(kept, i)) = k
<1>2. kept \in SUBSET (1..n)
  BY <1>1
<1>3. Among(q, ids) = [k \in 1..Cardinality(kept) |-> q[at(k)]]
  BY Zenon DEF Among, UpTo
<1>4. \A i \in kept : i \in 1..n /\ q[i] \in ids /\ q[i] \in Nat
  BY <1>1
<1>5. \A i \in 1..n : q[i] \in ids => i \in kept
  BY <1>1
<1> HIDE DEF kept
<1>6. PICK m \in Nat : m = Cardinality(kept)
  BY <1>2, Counting
<1>7. \A k \in 1..m : at(k) \in kept /\ Cardinality(UpTo(kept, at(k))) = k
  BY <1>2, <1>6, Counting
<1>8. \A i \in kept : \E k \in 1..m : at(k) = i
  <2>1. SUFFICES ASSUME NEW i \in kept PROVE \E k \in 1..m : at(k) = i
    OBVIOUS
  <2>2. PICK k \in 1..m : k = Cardinality(UpTo(kept, i))
    BY <1>2, <1>6, Counting
  <2>3. at(k) \in kept /\ Cardinality(UpTo(kept, at(k))) = k
    BY <1>7
  <2>4. PICK j : j = at(k)
    OBVIOUS
  <2>5. j = i
    <3>1. \A x, y \in kept : x < y => Cardinality(UpTo(kept, x)) < Cardinality(UpTo(kept, y))
      BY <1>2, Counting
    <3>2. ~(j < i) /\ ~(i < j)
      BY <2>2, <2>3, <2>4, <3>1
    <3>3. i \in Nat /\ j \in Nat
      BY <1>4, <2>3, <2>4
    <3> QED
      BY <3>2, <3>3
  <2> QED
    BY <2>4, <2>5
<1>9. \A k, l \in 1..m : k < l => at(k) < at(l)
  <2>1. SUFFICES ASSUME NEW k \in 1..m, NEW l \in 1..m, k < l PROVE at(k) < at(l)
    OBVIOUS
  <2>2. PICK i, j : i = at(k) /\ j = at(l)
    OBVIOUS
  <2>3. i \in kept /\ j \in kept /\ Cardinality(UpTo(kept, i)) = k /\ Cardinality(UpTo(kept, j)) = l
    BY <1>7, <2>2
  <2>4. \A x, y \in kept : x < y => Cardinality(UpTo(kept, x)) < Cardinality(UpTo(kept, y))
    BY <1>2, Counting
  <2>5. ~(j < i) /\ i # j
    BY <2>1, <2>3, <2>4
  <2>6. i \in Nat /\ j \in Nat
    BY <1>4, <2>3
  <2> QED
    BY <2>2, <2>5, <2>6
<1> HIDE DEF at
<1>10. PICK r : r = [k \in 1..m |-> q[at(k)]]
  OBVIOUS
<1>11. r = Among(q, ids)
  BY <1>3, <1>6, <1>10, Zenon
<1>12. DOMAIN r = 1..m /\ \A k \in 1..m : r[k] = q[at(k)] /\ r[k] \in Nat
  BY <1>4, <1>7, <1>10
<1>13. r \in Seq(Nat)
  BY <1>10, <1>12
<1>14. Elements(r) = Elements(q) \intersect ids
  <2>1. Elements(r) = {q[at(k)] : k \in 1..m} /\ Elements(q) = {q[i] : i \in 1..n}
    BY <1>1, <1>12 DEF Elements
  <2>2. \A k \in 1..m : at(k) \in 1..n /\ q[at(k)] \in ids
    BY <1>4, <1>7
  <2>3. \A i \in 1..n : q[i] \in ids => \E k \in 1..m : at(k) = i
    BY <1>5, <1>8
  <2> QED
    BY <2>1, <2>2, <2>3
<1>15. ASSUME Increasing(q) PROVE Increasing(r)
  <2>1. SUFFICES ASSUME NEW k \in 1..m, NEW l \in 1..m, k < l PROVE r[k] < r[l]
    BY <1>12 DEF Increasing
  <2>2. at(k) \in DOMAIN q /\ at(l) \in DOMAIN q /\ at(k) < at(l)
    BY <1>1, <1>4, <1>7, <1>9, <2>1
  <2>3. q[at(k)] < q[at(l)]
    BY <1>15, <2>2 DEF Increasing
  <2> QED
    BY <1>12, <2>3
<1> QED
  BY <1>11, <1>13, <1>14, <1>15

(***************************************************************************)
(* Where each message is, and in which order                               *)
(***************************************************************************)

\* The session a message belongs to.
SessionOf == [i \in DOMAIN messages |-> messages[i].session]

\* Numbers that ascend among those of equal value.
InOrderBy(q, of) == \A i, j \in DOMAIN q : i < j /\ of[q[i]] = of[q[j]] => q[i] < q[j]

\* What an agent awaits and was given, and how the two lie: what it awaits of a session came
\* after all it was given of it.
Kept(a) ==
  /\ Increasing(mailbox[a])
  /\ InOrderBy(inbox[a], SessionOf)
  /\ \A i \in Elements(mailbox[a]) : i \in DOMAIN messages /\ messages[i].to = a /\ i \notin refused
  /\ \A i \in Elements(inbox[a]) : i \in DOMAIN messages /\ messages[i].to = a
  /\ \A i \in Elements(inbox[a]), j \in Elements(mailbox[a]) :
       SessionOf[i] = SessionOf[j] => i < j

\* Where a message is, by its status.
Placed(i) ==
  /\ messages[i].status = "queued" <=> i \in refused \union Elements(mailbox[messages[i].to])
  /\ messages[i].status = "delivered" <=> i \in Elements(inbox[messages[i].to])
  /\ messages[i].status = "expired" => i \in stale

Delivery ==
  /\ mailbox \in [Agents -> Seq(Nat)]
  /\ inbox \in [Agents -> Seq(Nat)]
  /\ refused \in SUBSET DOMAIN messages
  /\ \A a \in Agents : Kept(a)
  /\ \A i \in DOMAIN messages : Placed(i)

\* A first part of an increasing queue lies below the rest of it.
LEMMA PrefixIs ==
  ASSUME NEW q \in Seq(Nat), Increasing(q), NEW k \in 0..Len(q)
  PROVE  /\ SubSeq(q, 1, k) \in Seq(Nat)
         /\ Increasing(SubSeq(q, 1, k))
         /\ Elements(SubSeq(q, 1, k)) \subseteq Elements(q)
         /\ \A i \in Elements(SubSeq(q, 1, k)), j \in Elements(q) :
              j \notin Elements(SubSeq(q, 1, k)) => i < j
<1>1. PICK p : p = SubSeq(q, 1, k)
  OBVIOUS
<1>2. DOMAIN q = 1..Len(q) /\ Len(q) \in Nat /\ \A i \in 1..Len(q) : q[i] \in Nat
  OBVIOUS
<1>3. p \in Seq(Nat) /\ DOMAIN p = 1..k /\ \A i \in 1..k : p[i] = q[i]
  BY <1>1, <1>2
<1>4. \A i \in 1..k : i \in DOMAIN q
  BY <1>2
<1>5. Increasing(p)
  BY <1>3, <1>4 DEF Increasing
<1>6. Elements(p) \subseteq Elements(q)
  BY <1>3, <1>4 DEF Elements
<1>7. ASSUME NEW i \in Elements(p), NEW j \in Elements(q), j \notin Elements(p) PROVE i < j
  <2>1. PICK x \in 1..k : i = q[x]
    BY <1>3, <1>7 DEF Elements
  <2>2. PICK y \in DOMAIN q : j = q[y]
    BY <1>7 DEF Elements
  <2>3. y \notin 1..k
    BY <1>3, <1>7, <2>2 DEF Elements
  <2>4. x < y
    BY <1>2, <2>3
  <2> QED
    BY <1>4, <2>1, <2>2, <2>4 DEF Increasing
<1> QED
  BY <1>1, <1>3, <1>5, <1>6, <1>7

\* What is given after what was given, and of each session above it, keeps the order.
LEMMA JoinedInOrder ==
  ASSUME NEW p \in Seq(Nat), NEW g \in Seq(Nat), NEW of, InOrderBy(p, of), Increasing(g),
         \A i \in Elements(p), j \in Elements(g) : of[i] = of[j] => i < j
  PROVE  /\ p \o g \in Seq(Nat)
         /\ Elements(p \o g) = Elements(p) \union Elements(g)
         /\ InOrderBy(p \o g, of)
<1>1. PICK m, n : m = Len(p) /\ n = Len(g)
  OBVIOUS
<1>2. /\ m \in Nat /\ n \in Nat /\ DOMAIN p = 1..m /\ DOMAIN g = 1..n
      /\ \A i \in 1..m : p[i] \in Nat
      /\ \A i \in 1..n : g[i] \in Nat
  BY <1>1
<1>3. PICK r : r = p \o g
  OBVIOUS
<1>4. /\ r \in Seq(Nat) /\ Len(r) = m + n
      /\ \A i \in 1..(m + n) : r[i] = IF i <= m THEN p[i] ELSE g[i - m]
  BY <1>1, <1>3, ConcatProperties, ZenonT(30)
<1>5. DOMAIN r = 1..(m + n)
  BY <1>4
<1>6. \A i \in 1..(m + n) : \/ i \in 1..m /\ r[i] = p[i]
                            \/ i - m \in 1..n /\ ~(i <= m) /\ r[i] = g[i - m]
  BY <1>2, <1>4
<1>7. Elements(r) = Elements(p) \union Elements(g)
  <2>1. \A i \in 1..m : i \in 1..(m + n) /\ r[i] = p[i]
    BY <1>2, <1>4
  <2>2. \A i \in 1..n : i + m \in 1..(m + n) /\ r[i + m] = g[i]
    BY <1>2, <1>4
  <2>3. \A x : x \in Elements(p) => x \in Elements(r)
    BY <1>2, <1>5, <2>1 DEF Elements
  <2>4. \A x : x \in Elements(g) => x \in Elements(r)
    BY <1>2, <1>5, <2>2 DEF Elements
  <2>5. \A x : x \in Elements(r) => x \in Elements(p) \/ x \in Elements(g)
    <3>1. \A i \in 1..(m + n) : \/ \E x \in 1..m : r[i] = p[x]
                               \/ \E x \in 1..n : r[i] = g[x]
      BY <1>6
    <3>2. SUFFICES ASSUME NEW i \in 1..(m + n) PROVE r[i] \in Elements(p) \/ r[i] \in Elements(g)
      BY <1>5 DEF Elements
    <3>3. (\E x \in DOMAIN p : r[i] = p[x]) \/ (\E x \in DOMAIN g : r[i] = g[x])
      BY <1>2, <3>1
    <3> QED
      BY <3>3 DEF Elements
  <2> QED
    BY <2>3, <2>4, <2>5
<1>8. ASSUME NEW i \in 1..(m + n), NEW j \in 1..(m + n), i < j, of[r[i]] = of[r[j]]
      PROVE  r[i] < r[j]
  <2>1. CASE i \in 1..m /\ r[i] = p[i] /\ j \in 1..m /\ r[j] = p[j]
    BY <1>2, <1>8, <2>1 DEF InOrderBy
  <2>2. CASE i \in 1..m /\ r[i] = p[i] /\ j - m \in 1..n /\ r[j] = g[j - m]
    <3>1. p[i] \in Elements(p) /\ g[j - m] \in Elements(g)
      BY <1>2, <2>2 DEF Elements
    <3>2. of[p[i]] = of[g[j - m]]
      BY <1>8, <2>2, Zenon
    <3>3. p[i] < g[j - m]
      BY <3>1, <3>2, Zenon
    <3> QED
      BY <2>2, <3>3, Zenon
  <2>3. CASE i - m \in 1..n /\ r[i] = g[i - m] /\ j - m \in 1..n /\ r[j] = g[j - m]
    <3>1. i - m < j - m
      BY <1>2, <1>8
    <3> QED
      BY <1>2, <2>3, <3>1 DEF Increasing
  <2>4. ~(i - m \in 1..n /\ ~(i <= m) /\ j \in 1..m)
    BY <1>2, <1>8
  <2> QED
    BY <1>6, <2>1, <2>2, <2>3, <2>4
<1> QED
  BY <1>3, <1>4, <1>5, <1>7, <1>8 DEF InOrderBy

\* What a poll takes and what it leaves.
LEMMA PollIs ==
  ASSUME Typed, Delivery, NEW a \in Agents, NEW ss, NEW n \in Nat
  PROVE  /\ Given(a, ss, n) \in Seq(Nat)
         /\ Increasing(Given(a, ss, n))
         /\ Elements(Fresh(a)) = Elements(mailbox[a]) \ stale
         /\ Elements(Given(a, ss, n)) \subseteq Elements(Fresh(a))
         /\ \A i \in Elements(Given(a, ss, n)), j \in Elements(Fresh(a)) :
              j \notin Elements(Given(a, ss, n)) /\ SessionOf[i] = SessionOf[j] => i < j
         /\ Remaining(a, Given(a, ss, n)) \in Seq(Nat)
         /\ Increasing(Remaining(a, Given(a, ss, n)))
         /\ Elements(Remaining(a, Given(a, ss, n)))
              = Elements(Fresh(a)) \ Elements(Given(a, ss, n))
<1> DEFINE here == {i \in DOMAIN messages : messages[i].session \in ss}
<1>1. PICK f : f = Fresh(a)
  OBVIOUS
<1>2. mailbox[a] \in Seq(Nat) /\ Increasing(mailbox[a])
      /\ \A i \in Elements(mailbox[a]) : i \in DOMAIN messages
  BY DEF Delivery, Kept
<1>3. f \in Seq(Nat) /\ Increasing(f) /\ Elements(f) = Elements(mailbox[a]) \ stale
  <2>1. /\ f \in Seq(Nat) /\ Increasing(f)
        /\ Elements(f) = Elements(mailbox[a]) \intersect (DOMAIN messages \ stale)
    BY <1>1, <1>2, AmongIs, Zenon DEF Fresh
  <2> QED
    BY <1>2, <2>1
<1>4. PICK w : w = Among(f, here)
  OBVIOUS
<1>5. w \in Seq(Nat) /\ Increasing(w) /\ Elements(w) = Elements(f) \intersect here
  BY <1>3, <1>4, AmongIs, Zenon
<1>6. PICK k : k = IF Len(w) < n THEN Len(w) ELSE n
  OBVIOUS
<1>7. k \in 0..Len(w)
  BY <1>5, <1>6
<1>8. PICK g : g = SubSeq(w, 1, k)
  OBVIOUS
<1>9. g = Given(a, ss, n)
  BY <1>1, <1>4, <1>6, <1>8, Zenon DEF Given
<1>10. /\ g \in Seq(Nat) /\ Increasing(g) /\ Elements(g) \subseteq Elements(w)
       /\ \A i \in Elements(g), j \in Elements(w) : j \notin Elements(g) => i < j
  BY <1>5, <1>7, <1>8, PrefixIs, Zenon
<1>11. \A i \in Elements(g), j \in Elements(f) :
         j \notin Elements(g) /\ SessionOf[i] = SessionOf[j] => i < j
  <2>1. \A i \in Elements(f) : i \in DOMAIN messages
    BY <1>2, <1>3
  <2>2. SUFFICES ASSUME NEW i \in Elements(g), NEW j \in Elements(f), j \notin Elements(g),
                        SessionOf[i] = SessionOf[j]
                 PROVE  i < j
    OBVIOUS
  <2>3. i \in DOMAIN messages /\ messages[i].session \in ss /\ j \in DOMAIN messages
    BY <1>5, <1>10, <2>1, <2>2
  <2>4. messages[j].session = messages[i].session
    BY <2>2, <2>3 DEF SessionOf
  <2>5. j \in Elements(w)
    BY <1>5, <2>2, <2>3, <2>4
  <2> QED
    BY <1>10, <2>2, <2>5
<1>12. PICK r : r = Remaining(a, g)
  OBVIOUS
<1>13. r \in Seq(Nat) /\ Increasing(r) /\ Elements(r) = Elements(f) \ Elements(g)
  <2>1. /\ r \in Seq(Nat) /\ Increasing(r)
        /\ Elements(r) = Elements(f) \intersect (DOMAIN messages \ Elements(g))
    BY <1>1, <1>3, <1>12, AmongIs, Zenon DEF Remaining
  <2>2. \A i \in Elements(f) : i \in DOMAIN messages
    BY <1>2, <1>3
  <2> QED
    BY <2>1, <2>2
<1>14. r = Remaining(a, Given(a, ss, n))
  BY <1>9, <1>12, Zenon
<1>15. Elements(g) \subseteq Elements(f)
  BY <1>5, <1>10
<1> HIDE DEF here
<1> QED
  BY <1>1, <1>3, <1>9, <1>10, <1>11, <1>13, <1>14, <1>15, Zenon

\* Nothing but time touches the messages.
LEMMA DeliveryKept ==
  ASSUME Delivery, UNCHANGED <<messages, mailbox, inbox, refused>>, stale \subseteq stale'
  PROVE  Delivery'
<1>1. ASSUME NEW a \in Agents PROVE Kept(a)'
  <2>1. SessionOf' = SessionOf /\ inbox'[a] = inbox[a] /\ mailbox'[a] = mailbox[a]
    BY DEF SessionOf
  <2>2. Kept(a)
    BY DEF Delivery
  <2> QED
    BY <2>1, <2>2, Zenon DEF Kept
<1>2. ASSUME NEW i \in DOMAIN messages PROVE Placed(i)'
  BY <1>2 DEF Delivery, Placed
<1> QED
  BY <1>1, <1>2 DEF Delivery

\* A message is appended: mailed to its recipient, or kept and refused.
LEMMA DeliveryRoute ==
  ASSUME Typed, Delivery, NEW s \in SessionIds, NEW a \in Agents, NEW k \in Kinds,
         Route(s, a, k), UNCHANGED <<stale, inbox>>
  PROVE  Delivery'
<1> DEFINE to == Counterparty(s, a)
           m == [session |-> s, from |-> a, to |-> to, kind |-> k, status |-> "queued"]
<1>1. to \in Agents
  BY DEF Typed, WellFormed, Route, Counterparty, Someone
<1>2. m \in Message
  BY <1>1 DEF Message, Statuses
<1>3. PICK id : id = Len(messages) + 1
  OBVIOUS
<1>4. messages' = Append(messages, m)
  BY DEF Route
<1>5. \/ /\ mailbox' = [mailbox EXCEPT ![to] = Append(@, id)]
         /\ refused' = refused
      \/ /\ mailbox' = mailbox
         /\ refused' = refused \union {id}
  BY <1>3 DEF Route
<1>6. PICK l \in Nat : l = Len(messages)
  BY DEF Typed
<1>7. /\ DOMAIN messages = 1..l /\ id = l + 1 /\ id \in Nat /\ id \notin DOMAIN messages
      /\ DOMAIN messages' = DOMAIN messages \union {id}
      /\ \A i \in DOMAIN messages : messages'[i] = messages[i]
      /\ messages'[id] = m
  <2>1. /\ Len(messages') = l + 1
        /\ \A i \in 1..l : messages'[i] = messages[i]
        /\ messages'[l + 1] = m
    BY <1>2, <1>4, <1>6, AppendProperties DEF Typed
  <2>2. messages' \in Seq(Message)
    BY <1>2, <1>4, AppendProperties DEF Typed
  <2> HIDE DEF m
  <2>3. DOMAIN messages = 1..l /\ DOMAIN messages' = 1..(l + 1)
    BY <1>6, <2>1, <2>2 DEF Typed
  <2> QED
    BY <1>3, <1>6, <2>1, <2>3
<1>8. m.to = to /\ m.status = "queued"
  OBVIOUS
<1> HIDE DEF m, to
<1>9. \A b \in Agents : mailbox[b] \in Seq(Nat) /\ inbox[b] \in Seq(Nat) /\ Kept(b)
  BY DEF Delivery
<1>10. \A b \in Agents :
         /\ \A i \in Elements(mailbox[b]) : i \in DOMAIN messages
         /\ \A i \in Elements(inbox[b]) : i \in DOMAIN messages
  BY <1>9 DEF Kept
<1>11. \A i \in DOMAIN messages : SessionOf'[i] = SessionOf[i]
  BY <1>7 DEF SessionOf
<1>12. ASSUME NEW b \in Agents
       PROVE  /\ mailbox'[b] \in Seq(Nat) /\ Increasing(mailbox'[b])
              /\ \/ /\ Elements(mailbox'[b]) = Elements(mailbox[b])
                    /\ id \in refused' \/ b # to
                 \/ /\ b = to /\ refused' = refused
                    /\ Elements(mailbox'[b]) = Elements(mailbox[b]) \union {id}
  <2>1. CASE mailbox'[b] = mailbox[b] /\ (id \in refused' \/ b # to)
    <3>1. mailbox[b] \in Seq(Nat) /\ Increasing(mailbox[b])
      BY <1>9 DEF Kept
    <3> QED
      BY <2>1, <3>1, Zenon
  <2>2. CASE b = to /\ refused' = refused /\ mailbox'[b] = Append(mailbox[b], id)
    <3>1. PICK n \in Nat : n = Len(mailbox[b]) /\ DOMAIN mailbox[b] = 1..n
      <4>1. mailbox[b] \in Seq(Nat)
        BY <1>9
      <4> QED
        BY <4>1
    <3>2. PICK q : q = mailbox'[b]
      OBVIOUS
    <3>3. /\ q \in Seq(Nat) /\ DOMAIN q = 1..(n + 1)
          /\ \A i \in 1..n : q[i] = mailbox[b][i]
          /\ q[n + 1] = id
      BY <1>7, <1>9, <2>2, <3>1, <3>2, AppendProperties
    <3>4. \A i \in 1..(n + 1) : i \in 1..n \/ i = n + 1
      OBVIOUS
    <3>5. Elements(q) = Elements(mailbox[b]) \union {id}
      BY <3>1, <3>3, <3>4, SMTT(30) DEF Elements
    <3>6. \A i \in 1..n : q[i] < id
      <4>1. \A i \in 1..n : mailbox[b][i] \in DOMAIN messages
        BY <1>10, <3>1 DEF Elements
      <4> QED
        BY <1>7, <3>3, <4>1
    <3>7. \A i, j \in 1..n : i < j => q[i] < q[j]
      BY <1>9, <3>1, <3>3 DEF Kept, Increasing
    <3>8. Increasing(q)
      <4>1. SUFFICES ASSUME NEW i \in 1..(n + 1), NEW j \in 1..(n + 1), i < j
                     PROVE  q[i] < q[j]
        BY <3>3 DEF Increasing
      <4>2. i \in 1..n
        BY <4>1
      <4> QED
        BY <3>3, <3>4, <3>6, <3>7, <4>1, <4>2
    <3> QED
      BY <2>2, <3>2, <3>3, <3>5, <3>8
  <2> QED
    BY <1>5, <2>1, <2>2 DEF Delivery
<1>13. ASSUME NEW b \in Agents PROVE Kept(b)'
  <2>1. InOrderBy(inbox'[b], SessionOf')
    <3>1. \A i \in DOMAIN inbox[b] : inbox[b][i] \in DOMAIN messages
      BY <1>10 DEF Elements
    <3> QED
      BY <1>9, <1>11, <3>1 DEF Kept, InOrderBy
  <2>2. \A i \in Elements(mailbox'[b]) :
          i \in DOMAIN messages' /\ messages'[i].to = b /\ i \notin refused'
    <3>1. \A i \in Elements(mailbox[b]) :
            i \in DOMAIN messages /\ messages[i].to = b /\ i \notin refused
      BY <1>9 DEF Kept
    <3>2. \A i \in refused' : i \in refused \/ i = id
      BY <1>5
    <3>3. refused \subseteq DOMAIN messages
      BY DEF Delivery
    <3>4. SUFFICES ASSUME NEW i \in Elements(mailbox'[b])
                   PROVE  i \in DOMAIN messages' /\ messages'[i].to = b /\ i \notin refused'
      OBVIOUS
    <3>5. CASE i \in Elements(mailbox[b])
      BY <1>7, <3>1, <3>2, <3>5
    <3>6. CASE i = id /\ b = to /\ refused' = refused
      BY <1>7, <1>8, <3>3, <3>6
    <3>7. \/ Elements(mailbox'[b]) = Elements(mailbox[b])
          \/ /\ b = to /\ refused' = refused
             /\ Elements(mailbox'[b]) = Elements(mailbox[b]) \union {id}
      BY <1>12, Zenon
    <3>8. i \in Elements(mailbox[b]) \/ (i = id /\ b = to /\ refused' = refused)
      BY <3>4, <3>7
    <3> QED
      BY <3>5, <3>6, <3>8
  <2>3. \A i \in Elements(inbox'[b]) : i \in DOMAIN messages' /\ messages'[i].to = b
    BY <1>7, <1>9 DEF Kept
  <2>4. \A i \in Elements(inbox'[b]), j \in Elements(mailbox'[b]) :
          SessionOf'[i] = SessionOf'[j] => i < j
    <3>1. \A i \in Elements(inbox[b]), j \in Elements(mailbox[b]) :
            SessionOf[i] = SessionOf[j] => i < j
      BY <1>9 DEF Kept
    <3>2. \A i \in Elements(inbox[b]) : i < id
      BY <1>7, <1>10
    <3> QED
      BY <1>10, <1>11, <1>12, <3>1, <3>2, SMTT(30)
  <2> QED
    BY <1>12, <2>1, <2>2, <2>3, <2>4 DEF Kept
<1>14. ASSUME NEW i \in DOMAIN messages' PROVE Placed(i)'
  <2>1. CASE i \in DOMAIN messages
    <3>1. messages'[i] = messages[i] /\ i # id /\ Placed(i)
      BY <1>7, <2>1 DEF Delivery
    <3>2. messages[i].to \in Agents
      <4>1. messages[i] \in Message
        BY <2>1, ElementOfSeq DEF Typed
      <4> QED
        BY <4>1 DEF Message
    <3>3. i \in refused' <=> i \in refused
      BY <1>5, <3>1
    <3>4. i \in Elements(mailbox'[messages[i].to]) <=> i \in Elements(mailbox[messages[i].to])
      BY <1>12, <3>1, <3>2
    <3> QED
      BY <3>1, <3>3, <3>4 DEF Placed
  <2>2. CASE i = id
    <3>1. id \in refused' \union Elements(mailbox'[to])
      BY <1>1, <1>12
    <3>2. id \notin Elements(inbox[to])
      BY <1>1, <1>7, <1>10
    <3>3. messages'[i] = m
      BY <1>7, <2>2
    <3> QED
      BY <1>8, <2>2, <3>1, <3>2, <3>3 DEF Placed
  <2> QED
    BY <1>7, <2>1, <2>2
<1>15. mailbox' \in [Agents -> Seq(Nat)] /\ refused' \in SUBSET DOMAIN messages'
  <2>1. DOMAIN mailbox' = Agents /\ mailbox' = [b \in Agents |-> mailbox'[b]]
    BY <1>5 DEF Delivery
  <2>2. \A b \in Agents : mailbox'[b] \in Seq(Nat)
    BY <1>12
  <2>3. refused' \in SUBSET DOMAIN messages'
    BY <1>5, <1>7 DEF Delivery
  <2> QED
    BY <2>1, <2>2, <2>3
<1> QED
  BY <1>13, <1>14, <1>15 DEF Delivery

\* A poll: what it takes is marked and appended to what the agent was given, what has gone
\* stale is dropped, and the rest stays.
LEMMA DeliveryReceive ==
  ASSUME Typed, Delivery, NEW a \in Agents, NEW ss, NEW n \in Nat, Receive(a, ss, n)
  PROVE  Delivery'
<1>1. PICK g, f, r : g = Given(a, ss, n) /\ f = Fresh(a) /\ r = Remaining(a, g)
  OBVIOUS
<1>2. /\ g \in Seq(Nat) /\ Increasing(g)
      /\ Elements(f) = Elements(mailbox[a]) \ stale
      /\ Elements(g) \subseteq Elements(f)
      /\ \A i \in Elements(g), j \in Elements(f) :
           j \notin Elements(g) /\ SessionOf[i] = SessionOf[j] => i < j
      /\ r \in Seq(Nat) /\ Increasing(r)
      /\ Elements(r) = Elements(f) \ Elements(g)
  BY <1>1, PollIs, Zenon
<1>3. PICK gone : gone = Elements(mailbox[a]) \ Elements(f)
  OBVIOUS
<1>4. PICK mark : mark = [i \in DOMAIN messages |->
                            IF i \in Elements(g) THEN "delivered"
                            ELSE IF i \in gone THEN "expired" ELSE messages[i].status]
  OBVIOUS
<1>5. \A i \in DOMAIN messages :
        mark[i] = IF i \in Elements(g) THEN "delivered"
                  ELSE IF i \in gone THEN "expired" ELSE messages[i].status
  BY <1>4
<1>6. messages' = [i \in DOMAIN messages |->
                     [messages[i] EXCEPT !.status =
                        IF i \in Elements(g) THEN "delivered"
                        ELSE IF i \in gone THEN "expired" ELSE @]]
  BY <1>1, <1>3, Zenon DEF Receive
<1>7. /\ mailbox' = [mailbox EXCEPT ![a] = r]
      /\ inbox' = [inbox EXCEPT ![a] = inbox[a] \o g]
      /\ refused' = refused /\ stale' = stale
  BY <1>1, Zenon DEF Receive
<1>8. \A i \in DOMAIN messages : messages[i] \in Message
  BY ElementOfSeq DEF Typed
<1>9. /\ DOMAIN messages' = DOMAIN messages
      /\ \A i \in DOMAIN messages : /\ messages'[i].session = messages[i].session
                                    /\ messages'[i].to = messages[i].to
                                    /\ messages[i].to \in Agents
                                    /\ messages'[i].status = mark[i]
  BY <1>5, <1>6, <1>8 DEF Message
<1>10. SessionOf' = SessionOf
  BY <1>9 DEF SessionOf
<1>11. \A b \in Agents : mailbox[b] \in Seq(Nat) /\ inbox[b] \in Seq(Nat) /\ Kept(b)
  BY DEF Delivery
<1>12. \A i \in Elements(mailbox[a]) :
         i \in DOMAIN messages /\ messages[i].to = a /\ i \notin refused
  BY <1>11 DEF Kept
<1>13. Elements(g) \subseteq Elements(mailbox[a]) /\ Elements(r) \subseteq Elements(mailbox[a])
  BY <1>2
<1>14. /\ inbox[a] \o g \in Seq(Nat)
       /\ Elements(inbox[a] \o g) = Elements(inbox[a]) \union Elements(g)
       /\ InOrderBy(inbox[a] \o g, SessionOf)
  <2>1. /\ InOrderBy(inbox[a], SessionOf)
        /\ \A i \in Elements(inbox[a]), j \in Elements(mailbox[a]) :
             SessionOf[i] = SessionOf[j] => i < j
    BY <1>11 DEF Kept
  <2>2. \A i \in Elements(inbox[a]), j \in Elements(g) : SessionOf[i] = SessionOf[j] => i < j
    BY <1>13, <2>1
  <2>3. inbox[a] \in Seq(Nat)
    BY <1>11
  <2> QED
    BY <1>2, <2>1, <2>2, <2>3, JoinedInOrder
<1>15. /\ mailbox'[a] = r /\ inbox'[a] = inbox[a] \o g
       /\ \A b \in Agents : b # a => mailbox'[b] = mailbox[b] /\ inbox'[b] = inbox[b]
  BY <1>7 DEF Delivery
<1>16. mailbox' \in [Agents -> Seq(Nat)] /\ inbox' \in [Agents -> Seq(Nat)]
  <2>1. \A b \in Agents : mailbox'[b] \in Seq(Nat) /\ inbox'[b] \in Seq(Nat)
    BY <1>2, <1>11, <1>14, <1>15, Zenon
  <2>2. /\ mailbox' = [b \in Agents |-> mailbox'[b]]
        /\ inbox' = [b \in Agents |-> inbox'[b]]
    BY <1>7 DEF Delivery
  <2> QED
    BY <2>1, <2>2
<1>17. ASSUME NEW b \in Agents, b # a PROVE Kept(b)'
  <2>1. mailbox'[b] = mailbox[b] /\ inbox'[b] = inbox[b] /\ Kept(b)
    BY <1>11, <1>15, <1>17
  <2>2. Increasing(mailbox'[b]) /\ InOrderBy(inbox'[b], SessionOf')
    BY <1>10, <2>1, Zenon DEF Kept
  <2>3. /\ \A i \in Elements(mailbox'[b]) :
             i \in DOMAIN messages' /\ messages'[i].to = b /\ i \notin refused'
        /\ \A i \in Elements(inbox'[b]) : i \in DOMAIN messages' /\ messages'[i].to = b
    BY <1>7, <1>9, <2>1 DEF Kept
  <2>4. \A i \in Elements(inbox'[b]), j \in Elements(mailbox'[b]) :
          SessionOf'[i] = SessionOf'[j] => i < j
    BY <1>10, <2>1, Zenon DEF Kept
  <2> QED
    BY <2>2, <2>3, <2>4 DEF Kept
<1>18. Kept(a)'
  <2>1. Increasing(mailbox'[a]) /\ InOrderBy(inbox'[a], SessionOf')
    BY <1>2, <1>10, <1>14, <1>15, Zenon
  <2>2. \A i \in Elements(mailbox'[a]) :
          i \in DOMAIN messages' /\ messages'[i].to = a /\ i \notin refused'
    BY <1>7, <1>9, <1>12, <1>13, <1>15
  <2>3. Elements(inbox'[a]) = Elements(inbox[a]) \union Elements(g)
    BY <1>14, <1>15, Zenon
  <2>4. \A i \in Elements(inbox'[a]) : i \in DOMAIN messages' /\ messages'[i].to = a
    <3>1. \A i \in Elements(inbox[a]) : i \in DOMAIN messages /\ messages[i].to = a
      BY <1>11 DEF Kept
    <3> QED
      BY <1>9, <1>12, <1>13, <2>3, <3>1
  <2>5. \A i \in Elements(inbox[a]), j \in Elements(r) : SessionOf[i] = SessionOf[j] => i < j
    BY <1>11, <1>13 DEF Kept
  <2>6. \A i \in Elements(g), j \in Elements(r) : SessionOf[i] = SessionOf[j] => i < j
    BY <1>2
  <2>7. \A i \in Elements(inbox'[a]), j \in Elements(mailbox'[a]) :
          SessionOf'[i] = SessionOf'[j] => i < j
    <3>1. SUFFICES ASSUME NEW i \in Elements(inbox[a]) \union Elements(g), NEW j \in Elements(r),
                          SessionOf[i] = SessionOf[j]
                   PROVE  i < j
      BY <1>10, <1>15, <2>3, Zenon
    <3> QED
      BY <2>5, <2>6, <3>1
  <2> QED
    BY <2>1, <2>2, <2>4, <2>7 DEF Kept
<1>19. ASSUME NEW i \in DOMAIN messages PROVE Placed(i)'
  <2>1. PICK b \in Agents : b = messages[i].to
    BY <1>9
  <2>2. Placed(i) /\ messages'[i].to = b /\ messages'[i].status = mark[i]
    BY <1>9, <2>1 DEF Delivery
  <2>3. /\ messages[i].status = "queued" <=> i \in refused \union Elements(mailbox[b])
        /\ messages[i].status = "delivered" <=> i \in Elements(inbox[b])
        /\ messages[i].status = "expired" => i \in stale
    BY <2>1, <2>2 DEF Placed
  <2>4. b # a => i \notin Elements(mailbox[a])
    BY <1>12, <2>1
  <2>5. SUFFICES
          /\ mark[i] = "queued" <=> i \in refused \union Elements(mailbox'[b])
          /\ mark[i] = "delivered" <=> i \in Elements(inbox'[b])
          /\ mark[i] = "expired" => i \in stale
    BY <1>7, <2>2 DEF Placed
  <2>6. CASE i \notin Elements(mailbox[a])
    <3>1. mark[i] = messages[i].status
      BY <1>3, <1>5, <1>13, <2>6
    <3>2. b # a => mailbox'[b] = mailbox[b] /\ inbox'[b] = inbox[b]
      BY <1>15
    <3>3. b = a => /\ i \in Elements(mailbox'[b]) <=> i \in Elements(mailbox[b])
                   /\ i \in Elements(inbox'[b]) <=> i \in Elements(inbox[b])
      BY <1>13, <1>14, <1>15, <2>6
    <3> QED
      BY <2>3, <3>1, <3>2, <3>3
  <2>7. CASE i \in Elements(mailbox[a])
    <3>1. b = a /\ i \notin refused /\ messages[i].status = "queued" /\ i \notin Elements(inbox[a])
      BY <1>12, <2>3, <2>4, <2>7
    <3>2. /\ i \in Elements(mailbox'[b]) <=> i \in Elements(f) /\ i \notin Elements(g)
          /\ i \in Elements(inbox'[b]) <=> i \in Elements(g)
      BY <1>2, <1>14, <1>15, <3>1
    <3>3. CASE i \in Elements(g)
      <4>1. mark[i] = "delivered"
        BY <1>5, <3>3
      <4> QED
        BY <3>1, <3>2, <3>3, <4>1
    <3>4. CASE i \notin Elements(g) /\ i \in gone
      <4>1. mark[i] = "expired" /\ i \in stale /\ i \notin Elements(f)
        BY <1>2, <1>3, <1>5, <3>4
      <4> QED
        BY <3>1, <3>2, <3>4, <4>1
    <3>5. CASE i \in Elements(f) /\ i \notin Elements(g)
      <4>1. mark[i] = "queued"
        BY <1>3, <1>5, <3>1, <3>5
      <4> QED
        BY <3>1, <3>2, <3>5, <4>1
    <3> QED
      BY <1>3, <2>7, <3>3, <3>4, <3>5
  <2> QED
    BY <2>6, <2>7
<1> QED
  BY <1>7, <1>9, <1>16, <1>17, <1>18, <1>19 DEF Delivery

\* Every step keeps it: only sending and polling move messages.
LEMMA DeliveryHolds == Spec => []Delivery
<1>1. Init => Delivery
  <2>1. SUFFICES ASSUME Init PROVE Delivery
    OBVIOUS
  <2>2. /\ \A a \in Agents : mailbox[a] = <<>> /\ inbox[a] = <<>>
        /\ mailbox \in [Agents -> Seq(Nat)] /\ inbox \in [Agents -> Seq(Nat)]
        /\ DOMAIN messages = {} /\ refused = {}
    BY <2>1 DEF Init
  <2>3. ASSUME NEW a \in Agents PROVE Kept(a)
    <3>1. DOMAIN mailbox[a] = {} /\ DOMAIN inbox[a] = {}
      BY <2>2
    <3>2. Elements(mailbox[a]) = {} /\ Elements(inbox[a]) = {}
      BY <3>1 DEF Elements
    <3> QED
      BY <3>1, <3>2 DEF Kept, Increasing, InOrderBy
  <2> QED
    BY <2>2, <2>3 DEF Delivery
<1>2. Typed /\ Delivery /\ [Next]_vars => Delivery'
  <2>1. SUFFICES ASSUME Typed, Delivery, [Next]_vars PROVE Delivery'
    OBVIOUS
  <2>2. ASSUME NEW s \in SessionIds, NEW i \in Agents, NEW r \in Agents \union {Nobody},
               NEW auto \in AutoAttest, Create(s, i, r, auto)
        PROVE  Delivery'
    BY <2>1, <2>2, DeliveryKept DEF Create
  <2>3. ASSUME NEW s \in SessionIds, GetSession(s) \/ Archive(s) \/ Elapse(s)
        PROVE  Delivery'
    <3>1. UNCHANGED <<messages, mailbox, inbox, refused, stale>>
      BY <2>3 DEF GetSession, Archive, Elapse
    <3> QED
      BY <2>1, <3>1, DeliveryKept
  <2>4. ASSUME NEW s \in SessionIds, NEW a \in Agents, Join(s, a) \/ Conclude(s, a)
        PROVE  Delivery'
    BY <2>1, <2>4, DeliveryKept DEF Join, Conclude
  <2>5. ASSUME NEW s \in SessionIds, NEW a \in Agents, NEW k \in Kinds, Send(s, a, k)
        PROVE  Delivery'
    <3>1. /\ UNCHANGED <<stale, inbox>>
          /\ UNCHANGED <<messages, mailbox, refused>> \/ Route(s, a, k)
      BY <2>5 DEF Send
    <3>2. CASE UNCHANGED <<messages, mailbox, refused>>
      BY <2>1, <3>1, <3>2, DeliveryKept
    <3>3. CASE Route(s, a, k)
      BY <2>1, <3>1, <3>3, DeliveryRoute
    <3> QED
      BY <3>1, <3>2, <3>3
  <2>6. ASSUME NEW a \in Agents, NEW n \in Limits, NEW ss, Receive(a, ss, n)
        PROVE  Delivery'
    <3>1. n \in Nat
      BY <2>6, RelayAssumption
    <3> QED
      BY <2>1, <2>6, <3>1, DeliveryReceive
  <2>7. ASSUME NEW i, ElapseMessage(i) PROVE Delivery'
    BY <2>1, <2>7, DeliveryKept DEF ElapseMessage
  <2>8. CASE UNCHANGED vars
    BY <2>1, <2>8, DeliveryKept DEF vars
  <2> QED
    BY <2>1, <2>2, <2>3, <2>4, <2>5, <2>6, <2>7, <2>8 DEF Next
<1> QED
  BY <1>1, <1>2, RelayTyped, PTL DEF Spec

\* No message is lost, duplicated or misdelivered: the transcript, the mailboxes and what
\* was given to the agents agree on each (send_message, receive_messages).
THEOREM EveryMessageAccounted == Spec => []Accounted
<1>1. Delivery => Accounted
  <2>1. SUFFICES ASSUME Delivery, NEW i \in DOMAIN messages
                 PROVE  /\ messages[i].status = "queued" <=>
                             i \in refused \union Elements(mailbox[messages[i].to])
                        /\ messages[i].status = "delivered" <=>
                             i \in Elements(inbox[messages[i].to])
                        /\ messages[i].status = "expired" => i \in stale
                        /\ \A a \in Agents \ {messages[i].to} :
                             i \notin Elements(mailbox[a]) \union Elements(inbox[a])
    BY DEF Accounted
  <2>2. Placed(i) /\ \A a \in Agents : Kept(a)
    BY <2>1 DEF Delivery
  <2> QED
    BY <2>2 DEF Placed, Kept
<1> QED
  BY <1>1, DeliveryHolds, PTL

\* Within a session no poll gives an agent a message after a later one, or one twice,
\* however polls filter and limit (receive_messages).
THEOREM PollsInOrder == Spec => []InOrder
<1>1. Delivery => InOrder
  <2>1. SUFFICES ASSUME Delivery, NEW a \in Agents,
                        NEW i \in DOMAIN inbox[a], NEW j \in DOMAIN inbox[a], i < j,
                        messages[inbox[a][i]].session = messages[inbox[a][j]].session
                 PROVE  inbox[a][i] < inbox[a][j]
    BY DEF InOrder
  <2>2. /\ InOrderBy(inbox[a], SessionOf)
        /\ \A k \in Elements(inbox[a]) : k \in DOMAIN messages
    BY <2>1 DEF Delivery, Kept
  <2>3. inbox[a][i] \in DOMAIN messages /\ inbox[a][j] \in DOMAIN messages
    BY <2>2 DEF Elements
  <2>4. SessionOf[inbox[a][i]] = SessionOf[inbox[a][j]]
    BY <2>1, <2>3 DEF SessionOf
  <2> QED
    BY <2>1, <2>2, <2>4 DEF InOrderBy
<1> QED
  BY <1>1, DeliveryHolds, PTL

(***************************************************************************)
(* Counters                                                                *)
(***************************************************************************)

SentIn(s, a) == {i \in Transcript(s) : messages[i].from = a}
GotIn(s, a) == {i \in Transcript(s) : messages[i].to = a /\ messages[i].status = "delivered"}

\* The participants' counters tell what the transcript tells.
Tally ==
  \A s \in SessionIds :
    /\ sess[s].state = "absent" => Transcript(s) = {}
    /\ sess[s].sent \in [Agents -> Nat] /\ sess[s].got \in [Agents -> Nat]
    /\ \A a \in Agents : /\ sess[s].sent[a] = Cardinality(SentIn(s, a))
                         /\ sess[s].got[a] = Cardinality(GotIn(s, a))

\* Of an archived session nothing changes but what was delivered.
Frozen(s) == sess'[s].sent = sess[s].sent /\ sess'[s].confirmed = sess[s].confirmed

\* A message stays what it is, and what became of it stays too.
Stays(i) ==
  /\ i \in DOMAIN messages'
  /\ messages'[i].from = messages[i].from
  /\ messages'[i].to = messages[i].to
  /\ messages'[i].status = messages[i].status \/ messages[i].status = "queued"

Counted ==
  /\ Tally'
  /\ \A s \in SessionIds : sess[s].state = "archived" => Frozen(s)
  /\ \A i \in DOMAIN messages : Stays(i)

\* A session is changed, and not its counters.
Touched(s) ==
  /\ sess'[s].state # "absent"
  /\ sess[s].state # "archived"
  /\ sess'[s].sent = sess[s].sent
  /\ sess'[s].got = sess[s].got

LEMMA CountedKept ==
  ASSUME Tally, messages' = messages,
         \A s \in SessionIds : sess'[s] = sess[s] \/ Touched(s)
  PROVE  Counted
<1>1. /\ \A s \in SessionIds, a \in Agents :
           SentIn(s, a)' = SentIn(s, a) /\ GotIn(s, a)' = GotIn(s, a)
      /\ \A s \in SessionIds : Transcript(s)' = Transcript(s)
  BY DEF SentIn, GotIn, Transcript
<1>2. ASSUME NEW s \in SessionIds
      PROVE  /\ sess'[s].state = "absent" => Transcript(s)' = {}
             /\ sess'[s].sent \in [Agents -> Nat] /\ sess'[s].got \in [Agents -> Nat]
             /\ \A a \in Agents : /\ sess'[s].sent[a] = Cardinality(SentIn(s, a)')
                                  /\ sess'[s].got[a] = Cardinality(GotIn(s, a)')
  BY <1>1 DEF Tally, Touched
<1>3. Tally'
  BY <1>2 DEF Tally
<1> QED
  BY <1>3 DEF Counted, Frozen, Stays, Touched

LEMMA EndedKeepsCounts ==
  ASSUME NEW r, WellFormed(r), NEW state, NEW reason
  PROVE  /\ EndedAs(r, state, reason).sent = r.sent
         /\ EndedAs(r, state, reason).got = r.got
         /\ EndedAs(r, state, reason).state = state
  BY DEF EndedAs, WellFormed

LEMMA TouchedByEnd ==
  ASSUME Typed, NEW s \in SessionIds, sess[s].state \in Open \union {"timed_out"},
         NEW state \in Ended, NEW reason, sess'[s] = EndedAs(sess[s], state, reason)
  PROVE  Touched(s)
<1>1. WellFormed(sess[s])
  BY DEF Typed
<1> QED
  BY <1>1, EndedKeepsCounts DEF Touched, Open, Ended

LEMMA NoticeTouches ==
  ASSUME Typed, NEW s \in SessionIds, sess[s].state \in Open, Notice(s)
  PROVE  \A t \in SessionIds : sess'[t] = sess[t] \/ Touched(t)
<1>1. sess'[s] = EndedAs(sess[s], "timed_out", "session_timeout")
  BY DEF Typed, Notice, TimedOut
<1>2. \A t \in SessionIds : t # s => sess'[t] = sess[t]
  BY DEF Typed, Notice
<1> QED
  BY <1>1, <1>2, TouchedByEnd DEF Ended

\* What the methods that neither send nor deliver do to the sessions.
LEMMA CreateTouches ==
  ASSUME Typed, Tally, NEW s \in SessionIds, NEW i \in Agents, NEW r \in Someone,
         NEW auto \in AutoAttest, Create(s, i, r, auto)
  PROVE  \A t \in SessionIds : sess'[t] = sess[t] \/ Touched(t)
<1> DEFINE q == [Absent EXCEPT !.state = "pending", !.initiator = i,
                               !.responder = r, !.autoAttest = auto]
<1>1. q.sent = Absent.sent /\ q.got = Absent.got /\ q.state = "pending"
  BY DEF Absent
<1>2. /\ sess[s].state = "absent"
      /\ sess[s].sent = Absent.sent /\ sess[s].got = Absent.got
  <2>1. sess[s].state = "absent" /\ Transcript(s) = {}
    BY DEF Create, Created, Tally
  <2>2. \A a \in Agents : sess[s].sent[a] = 0 /\ sess[s].got[a] = 0
    BY <2>1, FS_EmptySet DEF Tally, SentIn, GotIn
  <2>3. sess[s].sent \in [Agents -> Nat] /\ sess[s].got \in [Agents -> Nat]
    BY DEF Tally
  <2> QED
    BY <2>1, <2>2, <2>3 DEF Absent
<1> HIDE DEF q
<1>3. sess' = Swept \/ sess' = [Swept EXCEPT ![s] = q]
  BY DEF Create, q
<1>4. \A t \in SessionIds : Swept[t] = sess[t] \/
        (sess[t].state \in Open /\ Swept[t] = EndedAs(sess[t], "timed_out", "session_timeout"))
  BY DEF Swept, Expirable, TimedOut
<1>5. DOMAIN Swept = SessionIds
  BY DEF Swept
<1>6. ASSUME NEW t \in SessionIds, sess'[t] = Swept[t]
      PROVE  sess'[t] = sess[t] \/ Touched(t)
  BY <1>4, <1>6, TouchedByEnd DEF Ended
<1>7. sess'[s] = q => Touched(s)
  BY <1>1, <1>2 DEF Touched
<1> QED
  BY <1>3, <1>5, <1>6, <1>7

LEMMA UnownedTouches ==
  ASSUME Typed, NEW s \in SessionIds, GetSession(s) \/ Archive(s) \/ Elapse(s)
  PROVE  \A t \in SessionIds : sess'[t] = sess[t] \/ Touched(t)
<1>1. WellFormed(sess[s])
  BY DEF Typed
<1>2. CASE GetSession(s)
  BY <1>2, NoticeTouches DEF GetSession, Expirable
<1>3. CASE Archive(s)
  BY <1>1, <1>3 DEF Archive, Typed, Touched, WellFormed
<1>4. CASE Elapse(s)
  BY <1>4 DEF Elapse
<1> QED
  BY <1>2, <1>3, <1>4

LEMMA OwnedTouches ==
  ASSUME Typed, NEW s \in SessionIds, NEW a \in Agents, Join(s, a) \/ Conclude(s, a)
  PROVE  \A t \in SessionIds : sess'[t] = sess[t] \/ Touched(t)
<1>1. WellFormed(sess[s])
  BY DEF Typed
<1>2. CASE sess[s].state \in Open /\ Notice(s)
  BY <1>2, NoticeTouches
<1>3. CASE /\ sess[s].state = "pending"
           /\ sess' = [sess EXCEPT ![s].state = "active", ![s].responder = a,
                                   ![s].confirmed = TRUE]
  BY <1>1, <1>3 DEF Typed, Touched, WellFormed
<1>4. CASE Conclude(s, a)
  <2>1. sess'[s] = EndedAs(sess[s], "concluded", "manual")
    BY <1>4 DEF Conclude, Typed
  <2>2. \A t \in SessionIds : t # s => sess'[t] = sess[t]
    BY <1>4 DEF Conclude, Typed
  <2> QED
    BY <1>4, <2>1, <2>2, TouchedByEnd DEF Conclude, Ended
<1> QED
  BY <1>2, <1>3, <1>4 DEF Join, Expirable

\* A transcript is a finite set of messages.
LEMMA Finite ==
  ASSUME Typed, NEW s, NEW S \in SUBSET Transcript(s)
  PROVE  IsFiniteSet(S) /\ Cardinality(S) \in Nat
<1>1. PICK n \in Nat : DOMAIN messages = 1..n
  BY DEF Typed
<1>2. S \subseteq 1..n /\ IsFiniteSet(1..n)
  BY <1>1, FS_Interval DEF Transcript
<1>3. IsFiniteSet(S)
  BY <1>2, FS_Subset
<1> QED
  BY <1>3, FS_CardinalityType

\* Sending counts one message for its sender, mailed or not.
LEMMA CountedRoute ==
  ASSUME Typed, Tally, NEW s \in SessionIds, NEW a \in Agents, NEW k \in Kinds,
         Route(s, a, k), sess[s].state \in Open
  PROVE  Counted
<1>1. PICK id, m, r : /\ id = Len(messages) + 1
                      /\ m = [session |-> s, from |-> a, to |-> Counterparty(s, a),
                              kind |-> k, status |-> "queued"]
                      /\ r = [sess[s] EXCEPT !.sent[a] = @ + 1]
  OBVIOUS
<1>2. m.session = s /\ m.from = a /\ m.status = "queued"
  BY <1>1
<1>3. messages' = Append(messages, m)
  BY <1>1 DEF Route
<1>4. Counterparty(s, a) \in Agents
  BY DEF Typed, WellFormed, Route, Counterparty, Someone
<1>5. m \in Message
  BY <1>1, <1>4 DEF Message, Statuses
<1>6. /\ DOMAIN messages = 1..(id - 1) /\ id \in Nat \ {0} /\ DOMAIN messages' = 1..id
      /\ \A i \in DOMAIN messages : messages'[i] = messages[i]
      /\ messages'[id] = m
  BY <1>1, <1>3, <1>5, AppendProperties DEF Typed
<1>7. /\ WellFormed(sess[s]) /\ sess[s].sent \in [Agents -> Nat]
  BY DEF Typed, Tally
<1>8. WellFormed(r) /\ r.sent = [sess[s].sent EXCEPT ![a] = @ + 1] /\ r.got = sess[s].got
      /\ r.state = sess[s].state
  BY <1>1, <1>7 DEF WellFormed
<1>9. /\ sess'[s] = r \/ sess'[s] = EndedAs(r, "concluded", k)
      /\ \A t \in SessionIds : t # s => sess'[t] = sess[t]
  BY <1>1 DEF Route, Typed
<1>10. /\ sess'[s].sent = [sess[s].sent EXCEPT ![a] = @ + 1] /\ sess'[s].got = sess[s].got
       /\ sess'[s].state # "absent"
  BY <1>8, <1>9, EndedKeepsCounts DEF Open
<1>11. \A t \in SessionIds, b \in Agents : GotIn(t, b)' = GotIn(t, b)
  BY <1>2, <1>6 DEF GotIn, Transcript
<1>12. /\ \A t \in SessionIds, b \in Agents : t # s \/ b # a => SentIn(t, b)' = SentIn(t, b)
       /\ \A t \in SessionIds : t # s => Transcript(t)' = Transcript(t)
  BY <1>2, <1>6 DEF SentIn, Transcript
<1>13. SentIn(s, a)' = SentIn(s, a) \union {id} /\ id \notin SentIn(s, a)
  BY <1>2, <1>6 DEF SentIn, Transcript
<1>14. PICK c : c = Cardinality(SentIn(s, a)) /\ c \in Nat /\ IsFiniteSet(SentIn(s, a))
  BY Finite DEF SentIn
<1>15. Cardinality(SentIn(s, a)') = c + 1
  BY <1>13, <1>14, FS_AddElement
<1>16. ASSUME NEW t \in SessionIds
       PROVE  /\ sess'[t].state = "absent" => Transcript(t)' = {}
              /\ sess'[t].sent \in [Agents -> Nat] /\ sess'[t].got \in [Agents -> Nat]
              /\ \A b \in Agents : /\ sess'[t].sent[b] = Cardinality(SentIn(t, b)')
                                   /\ sess'[t].got[b] = Cardinality(GotIn(t, b)')
  <2>1. CASE t # s
    BY <1>9, <1>11, <1>12, <2>1 DEF Tally
  <2>2. CASE t = s
    <3>1. sess'[s].sent \in [Agents -> Nat] /\ sess'[s].sent[a] = sess[s].sent[a] + 1
          /\ \A b \in Agents : b # a => sess'[s].sent[b] = sess[s].sent[b]
      BY <1>7, <1>10
    <3>2. sess'[s].sent[a] = Cardinality(SentIn(s, a)')
      BY <1>14, <1>15, <3>1 DEF Tally
    <3>3. \A b \in Agents : b # a => sess'[s].sent[b] = Cardinality(SentIn(s, b)')
      BY <1>12, <3>1 DEF Tally
    <3>4. /\ sess'[s].got \in [Agents -> Nat]
          /\ \A b \in Agents : sess'[s].got[b] = Cardinality(GotIn(s, b)')
      BY <1>10, <1>11 DEF Tally
    <3> QED
      BY <1>10, <2>2, <3>1, <3>2, <3>3, <3>4
  <2> QED
    BY <2>1, <2>2
<1>17. Tally'
  BY <1>16 DEF Tally
<1>18. \A t \in SessionIds : sess[t].state = "archived" => Frozen(t)
  BY <1>9 DEF Frozen, Open
<1>19. \A i \in DOMAIN messages : Stays(i)
  BY <1>6 DEF Stays
<1> QED
  BY <1>17, <1>18, <1>19 DEF Counted

\* A poll counts what it delivers, session by session, and delivers nothing twice.
LEMMA CountedReceive ==
  ASSUME Typed, Delivery, Tally, NEW a \in Agents, NEW ss, NEW n \in Nat, Receive(a, ss, n)
  PROVE  Counted
<1>1. PICK g, gone : g = Elements(Given(a, ss, n))
                     /\ gone = Elements(mailbox[a]) \ Elements(Fresh(a))
  OBVIOUS
<1>2. g \subseteq Elements(mailbox[a]) /\ gone \subseteq Elements(mailbox[a])
  BY <1>1, PollIs
<1>3. /\ \A i \in Elements(mailbox[a]) : i \in DOMAIN messages /\ messages[i].to = a
      /\ mailbox[a] \in Seq(Nat)
  BY DEF Delivery, Kept
<1>4. \A i \in Elements(mailbox[a]) : messages[i].status = "queued"
  BY <1>3 DEF Delivery, Placed
<1>5. messages' = [i \in DOMAIN messages |->
                     [messages[i] EXCEPT !.status =
                        IF i \in g THEN "delivered" ELSE IF i \in gone THEN "expired" ELSE @]]
  BY <1>1, Zenon DEF Receive
<1>6. \A i \in DOMAIN messages : messages[i] \in Message
  BY ElementOfSeq DEF Typed
<1>7. /\ DOMAIN messages' = DOMAIN messages
      /\ \A i \in DOMAIN messages :
           /\ messages'[i].session = messages[i].session
           /\ messages'[i].from = messages[i].from
           /\ messages'[i].to = messages[i].to
           /\ messages'[i].status = IF i \in g THEN "delivered"
                                    ELSE IF i \in gone THEN "expired" ELSE messages[i].status
  BY <1>5, <1>6 DEF Message
<1>8. \A i \in DOMAIN messages : Stays(i)
  BY <1>2, <1>4, <1>7 DEF Stays
<1> DEFINE In(s) == {i \in g : messages[i].session = s}
<1>9. sess' = [s \in SessionIds |-> [sess[s] EXCEPT !.got[a] = @ + Cardinality(In(s))]]
  BY <1>1 DEF Receive, DeliveredIn
<1>10. ASSUME NEW s \in SessionIds
       PROVE  /\ sess'[s].state = sess[s].state
              /\ sess'[s].sent = sess[s].sent
              /\ sess'[s].confirmed = sess[s].confirmed
              /\ sess'[s].got = [sess[s].got EXCEPT ![a] = @ + Cardinality(In(s))]
  <2>1. WellFormed(sess[s])
    BY DEF Typed
  <2> QED
    BY <1>9, <2>1 DEF WellFormed
<1>11. \A s \in SessionIds, b \in Agents : SentIn(s, b)' = SentIn(s, b)
  BY <1>7 DEF SentIn, Transcript
<1>12. \A s \in SessionIds, b \in Agents : b # a => GotIn(s, b)' = GotIn(s, b)
  <2>1. \A i \in DOMAIN messages : messages[i].to # a => messages'[i].status = messages[i].status
    BY <1>2, <1>3, <1>7
  <2> QED
    BY <1>7, <2>1 DEF GotIn, Transcript
<1>13. ASSUME NEW s \in SessionIds
       PROVE  /\ In(s) \subseteq Transcript(s)
              /\ GotIn(s, a)' = GotIn(s, a) \union In(s)
              /\ GotIn(s, a) \intersect In(s) = {}
  <2>1. \A i \in g : i \in DOMAIN messages /\ messages[i].to = a /\ messages[i].status = "queued"
    BY <1>2, <1>3, <1>4
  <2>2. \A i \in DOMAIN messages :
          messages'[i].status = "delivered" <=> messages[i].status = "delivered" \/ i \in g
    BY <1>2, <1>4, <1>7
  <2> QED
    BY <1>7, <2>1, <2>2 DEF GotIn, Transcript
<1>14. ASSUME NEW s \in SessionIds
       PROVE  /\ sess'[s].got \in [Agents -> Nat]
              /\ sess'[s].got[a] = Cardinality(GotIn(s, a)')
              /\ \A b \in Agents : b # a => sess'[s].got[b] = sess[s].got[b]
  <2>1. GotIn(s, a) \subseteq Transcript(s)
    BY DEF GotIn
  <2> HIDE DEF In
  <2>2. PICK c, d : /\ c = Cardinality(GotIn(s, a)) /\ c \in Nat /\ IsFiniteSet(GotIn(s, a))
                    /\ d = Cardinality(In(s)) /\ d \in Nat /\ IsFiniteSet(In(s))
    BY <1>13, <2>1, Finite
  <2>3. Cardinality(GotIn(s, a)') = c + d
    <3>1. PICK S, T : S = GotIn(s, a) /\ T = In(s)
      OBVIOUS
    <3>2. IsFiniteSet(S) /\ IsFiniteSet(T) /\ S \intersect T = {}
      BY <1>13, <2>2, <3>1
    <3>3. Cardinality(S \union T) = Cardinality(S) + Cardinality(T) - Cardinality(S \intersect T)
      BY <3>2, FS_Union
    <3>4. Cardinality(S \intersect T) = 0
      BY <3>2, FS_EmptySet
    <3>5. Cardinality(S) = c /\ Cardinality(T) = d
      BY <2>2, <3>1
    <3>6. Cardinality(S \union T) = c + d
      BY <2>2, <3>3, <3>4, <3>5
    <3> QED
      BY <1>13, <3>1, <3>6
  <2>4. sess[s].got \in [Agents -> Nat] /\ sess[s].got[a] = c
    BY <2>2 DEF Tally
  <2>5. sess'[s].got = [sess[s].got EXCEPT ![a] = @ + d]
    BY <1>10, <2>2
  <2> QED
    BY <2>2, <2>3, <2>4, <2>5
<1> HIDE DEF In
<1>15. ASSUME NEW s \in SessionIds
       PROVE  /\ sess'[s].state = "absent" => Transcript(s)' = {}
              /\ sess'[s].sent \in [Agents -> Nat] /\ sess'[s].got \in [Agents -> Nat]
              /\ \A b \in Agents : /\ sess'[s].sent[b] = Cardinality(SentIn(s, b)')
                                   /\ sess'[s].got[b] = Cardinality(GotIn(s, b)')
  <2>1. Transcript(s)' = Transcript(s)
    BY <1>7 DEF Transcript
  <2>2. ASSUME NEW b \in Agents PROVE sess'[s].got[b] = Cardinality(GotIn(s, b)')
    <3>1. b # a => sess'[s].got[b] = sess[s].got[b] /\ GotIn(s, b)' = GotIn(s, b)
      BY <1>12, <1>14
    <3>2. sess[s].got[b] = Cardinality(GotIn(s, b))
      BY DEF Tally
    <3>3. b = a => sess'[s].got[b] = Cardinality(GotIn(s, a)')
      BY <1>14
    <3>4. CASE b # a
      BY <3>1, <3>2, <3>4
    <3>5. CASE b = a
      <4>1. GotIn(s, b)' = GotIn(s, a)'
        BY <3>5 DEF GotIn
      <4> QED
        BY <3>3, <3>5, <4>1
    <3> QED
      BY <3>4, <3>5
  <2>3. ASSUME NEW b \in Agents PROVE sess'[s].sent[b] = Cardinality(SentIn(s, b)')
    <3>1. sess'[s].sent[b] = sess[s].sent[b] /\ SentIn(s, b)' = SentIn(s, b)
      BY <1>10, <1>11
    <3>2. sess[s].sent[b] = Cardinality(SentIn(s, b))
      BY DEF Tally
    <3> QED
      BY <3>1, <3>2
  <2> QED
    BY <1>10, <1>14, <2>1, <2>2, <2>3 DEF Tally
<1>16. Tally'
  BY <1>15 DEF Tally
<1>17. \A s \in SessionIds : sess[s].state = "archived" => Frozen(s)
  BY <1>10 DEF Frozen
<1> QED
  BY <1>8, <1>16, <1>17 DEF Counted

LEMMA CountedSteps ==
  ASSUME Typed, Delivery, Tally, [Next]_vars
  PROVE  Counted
<1>1. ASSUME NEW s \in SessionIds, NEW i \in Agents, NEW r \in Agents \union {Nobody},
             NEW auto \in AutoAttest, Create(s, i, r, auto)
      PROVE  Counted
  <2>1. messages' = messages
    BY <1>1 DEF Create
  <2> QED
    BY <1>1, <2>1, CreateTouches, CountedKept DEF Someone
<1>2. ASSUME NEW s \in SessionIds, GetSession(s) \/ Archive(s) \/ Elapse(s)
      PROVE  Counted
  <2>1. messages' = messages
    BY <1>2 DEF GetSession, Archive, Elapse
  <2>2. \A t \in SessionIds : sess'[t] = sess[t] \/ Touched(t)
    BY <1>2, UnownedTouches
  <2> QED
    BY <2>1, <2>2, CountedKept
<1>3. ASSUME NEW s \in SessionIds, NEW a \in Agents, Join(s, a) \/ Conclude(s, a)
      PROVE  Counted
  <2>1. messages' = messages
    BY <1>3 DEF Join, Conclude
  <2> QED
    BY <1>3, <2>1, OwnedTouches, CountedKept
<1>4. ASSUME NEW s \in SessionIds, NEW a \in Agents, NEW k \in Kinds, Send(s, a, k)
      PROVE  Counted
  <2>1. sess[s].state \in Open
    BY <1>4 DEF Send
  <2>2. CASE Notice(s) /\ messages' = messages
    BY <2>1, <2>2, NoticeTouches, CountedKept
  <2>3. CASE Route(s, a, k)
    BY <2>1, <2>3, CountedRoute
  <2> QED
    BY <1>4, <2>2, <2>3 DEF Send
<1>5. ASSUME NEW a \in Agents, NEW n \in Limits, NEW ss, Receive(a, ss, n)
      PROVE  Counted
  <2>1. n \in Nat
    BY RelayAssumption
  <2> QED
    BY <1>5, <2>1, CountedReceive
<1>6. CASE UNCHANGED <<sess, messages>>
  BY <1>6, CountedKept
<1>7. ASSUME NEW i, ElapseMessage(i) PROVE Counted
  BY <1>6, <1>7 DEF ElapseMessage
<1> QED
  BY <1>1, <1>2, <1>3, <1>4, <1>5, <1>6, <1>7 DEF Next, vars

(***************************************************************************)
(* Archives                                                                *)
(***************************************************************************)

\* Archive r tells of its session what there is to tell.
Truth(r) ==
  /\ sess[r.session].state = "archived"
  /\ DOMAIN r.messages = Transcript(r.session)
  /\ r.reason = sess[r.session].reason
  /\ r.parties = {sess[r.session].initiator, sess[r.session].responder} \ {Nobody}
  /\ r.confirmed = sess[r.session].confirmed
  /\ r.sent = sess[r.session].sent
  /\ DeliveriesAsFiled(r)

Once == \A n, k \in DOMAIN archives : archives[n].session = archives[k].session => n = k

\* The property, archive by archive.
Faithful ==
  /\ \A r \in Elements(archives) : Truth(r)
  /\ Once
  /\ \A s \in SessionIds : sess[s].state = "archived" =>
       \E r \in Elements(archives) : r.session = s

LEMMA FaithfulSuffices == Faithful => ArchivesFaithful
  BY DEF Faithful, Truth, Once, Elements, ArchivesFaithful

\* What an archive says of deliveries stays so while messages stay what they are.
LEMMA FiledStays ==
  ASSUME NEW r, DeliveriesAsFiled(r), DOMAIN r.messages \subseteq DOMAIN messages,
         \A i \in DOMAIN messages : Stays(i)
  PROVE  DeliveriesAsFiled(r)'
<1>1. \A i \in DOMAIN r.messages : r.messages[i] \in {"queued", messages'[i].status}
  BY DEF DeliveriesAsFiled, Stays
<1>2. ASSUME NEW a \in Agents
      PROVE  /\ {i \in DOMAIN r.messages : messages'[i].from = a}
                  = {i \in DOMAIN r.messages : messages[i].from = a}
             /\ {i \in DOMAIN r.messages : messages'[i].to = a /\ r.messages[i] = "delivered"}
                  = {i \in DOMAIN r.messages : messages[i].to = a /\ r.messages[i] = "delivered"}
  BY DEF Stays
<1>3. \A a \in Agents :
       /\ r.sent[a] = Cardinality({i \in DOMAIN r.messages : messages'[i].from = a})
       /\ r.got[a] = Cardinality({i \in DOMAIN r.messages : /\ messages'[i].to = a
                                                            /\ r.messages[i] = "delivered"})
  BY <1>2 DEF DeliveriesAsFiled
<1> QED
  BY <1>1, <1>3 DEF DeliveriesAsFiled

\* What the archives tell of a session stays true through steps that archive nothing:
\* of an archived session such a step changes deliveries at most.
LEMMA FaithfulGoes ==
  ASSUME Typed, Goes, Counted, Faithful
  PROVE  Faithful'
<1>1. \A s \in SessionIds : sess[s].state = "archived" =>
        Keeps(sess[s], sess'[s]) /\ Transcript(s)' = Transcript(s) /\ Frozen(s)
  BY DEF Goes, Becomes, Ends, Open, Counted
<1>2. \A s \in SessionIds : sess'[s].state = "archived" => sess[s].state = "archived"
  BY DEF Goes, Becomes, Keeps, Ends
<1>3. Elements(archives)' = Elements(archives) /\ (Once => Once')
  BY DEF Goes, Elements, Once
<1>4. ASSUME NEW r \in Elements(archives) PROVE Truth(r)'
  <2>1. r.session \in SessionIds /\ Truth(r)
    BY DEF Typed, Elements, Faithful
  <2>2. DOMAIN r.messages \subseteq DOMAIN messages
    BY <2>1 DEF Truth, Transcript
  <2>3. DeliveriesAsFiled(r)'
    BY <2>1, <2>2, FiledStays DEF Truth, Counted
  <2> QED
    BY <1>1, <2>1, <2>3 DEF Truth, Keeps, Frozen
<1>5. ASSUME NEW s \in SessionIds, sess'[s].state = "archived"
      PROVE  \E r \in Elements(archives) : r.session = s
  BY <1>2, <1>5 DEF Faithful
<1> QED
  BY <1>3, <1>4, <1>5 DEF Faithful

\* The copy that is filed is the state of its session.
LEMMA SnapshotIs ==
  ASSUME Typed, Tally, NEW s \in SessionIds, NEW r, r = Snapshot(s)
  PROVE  /\ r.session = s /\ DOMAIN r.messages = Transcript(s)
         /\ r.reason = sess[s].reason
         /\ r.parties = {sess[s].initiator, sess[s].responder} \ {Nobody}
         /\ r.confirmed = sess[s].confirmed /\ r.sent = sess[s].sent
         /\ DeliveriesAsFiled(r)
<1>1. /\ r.session = s /\ DOMAIN r.messages = Transcript(s)
      /\ r.reason = sess[s].reason
      /\ r.parties = {sess[s].initiator, sess[s].responder} \ {Nobody}
      /\ r.confirmed = sess[s].confirmed /\ r.sent = sess[s].sent /\ r.got = sess[s].got
      /\ \A i \in Transcript(s) : r.messages[i] = messages[i].status
  BY DEF Snapshot
<1>2. ASSUME NEW a \in Agents
      PROVE  /\ {i \in DOMAIN r.messages : messages[i].from = a} = SentIn(s, a)
             /\ {i \in DOMAIN r.messages : messages[i].to = a /\ r.messages[i] = "delivered"}
                  = GotIn(s, a)
  BY <1>1 DEF SentIn, GotIn
<1>3. \A a \in Agents :
       /\ r.sent[a] = Cardinality({i \in DOMAIN r.messages : messages[i].from = a})
       /\ r.got[a] = Cardinality({i \in DOMAIN r.messages : /\ messages[i].to = a
                                                            /\ r.messages[i] = "delivered"})
  BY <1>1, <1>2 DEF Tally
<1> QED
  BY <1>1, <1>3 DEF DeliveriesAsFiled

\* A session that is archived was not, so no archive was of it before.
LEMMA FaithfulFiles ==
  ASSUME Typed, Tally, Counted, NEW s \in SessionIds, Archive(s), Faithful
  PROVE  Faithful'
<1>1. Files(s) /\ WellFormed(sess[s])
  BY ArchiveFiles DEF Typed
<1>2. PICK record, n : record = Snapshot(s) /\ n = Len(archives) + 1
  OBVIOUS
<1>3. /\ DOMAIN archives = 1..Len(archives) /\ Len(archives) \in Nat
      /\ DOMAIN archives' = 1..n
      /\ \A k \in DOMAIN archives : archives'[k] = archives[k]
      /\ archives'[n] = record
  BY <1>1, <1>2 DEF Typed, Files, Appended
<1>4. Elements(archives)' = Elements(archives) \union {record}
  BY <1>2, <1>3 DEF Elements
<1>5. \A r \in Elements(archives) : Truth(r) /\ r.session \in SessionIds \ {s}
  BY <1>1 DEF Typed, Elements, Files, Faithful, Truth
<1>6. /\ record.session = s /\ DOMAIN record.messages = Transcript(s)
      /\ record.reason = sess[s].reason
      /\ record.parties = {sess[s].initiator, sess[s].responder} \ {Nobody}
      /\ record.confirmed = sess[s].confirmed /\ record.sent = sess[s].sent
      /\ DeliveriesAsFiled(record)
  BY <1>2, SnapshotIs
<1>7. /\ sess'[s].state = "archived" /\ sess'[s].initiator = sess[s].initiator
      /\ sess'[s].responder = sess[s].responder /\ sess'[s].reason = sess[s].reason
      /\ sess'[s].confirmed = sess[s].confirmed /\ sess'[s].sent = sess[s].sent
      /\ \A t \in SessionIds : t # s => sess'[t] = sess[t]
      /\ \A t \in SessionIds : Transcript(t)' = Transcript(t)
  BY <1>1 DEF Archive, Typed, WellFormed, Transcript
<1>8. \A r : DeliveriesAsFiled(r) => DeliveriesAsFiled(r)'
  BY <1>1 DEF Files, DeliveriesAsFiled
<1>9. ASSUME NEW r \in Elements(archives) PROVE Truth(r)'
  BY <1>5, <1>7, <1>8 DEF Truth
<1>10. Truth(record)'
  <2>1. ASSUME NEW r, r = record PROVE Truth(r)'
    BY <1>6, <1>7, <1>8, <2>1 DEF Truth
  <2> QED
    BY <2>1
<1>11. Once'
  <2>1. \A k \in DOMAIN archives : archives[k].session # s
    BY <1>5 DEF Elements
  <2> QED
    BY <1>2, <1>3, <1>6, <2>1 DEF Once, Faithful
<1>12. ASSUME NEW t \in SessionIds, sess'[t].state = "archived"
       PROVE  \E r \in Elements(archives)' : r.session = t
  BY <1>4, <1>6, <1>7, <1>12 DEF Faithful
<1> QED
  BY <1>4, <1>9, <1>10, <1>11, <1>12 DEF Faithful

\* An archive holds the whole transcript, the parties and the counts of its session for
\* good, and a session has one archive; what it says of deliveries is what they were when
\* it was made, of which the delivered ones and the expired ones stay so (archive_session
\* copies a session that only a poll can still touch).
THEOREM ArchivesStayFaithful == Spec => []ArchivesFaithful
<1>1. Init => Tally /\ Faithful
  <2>1. SUFFICES ASSUME Init PROVE Tally /\ Faithful
    OBVIOUS
  <2>2. \A s \in SessionIds : sess[s] = Absent /\ Transcript(s) = {}
    BY <2>1 DEF Init, Transcript
  <2>3. \A s \in SessionIds, a \in Agents : SentIn(s, a) = {} /\ GotIn(s, a) = {}
    BY <2>2 DEF SentIn, GotIn
  <2>4. \A s \in SessionIds, a \in Agents :
          Cardinality(SentIn(s, a)) = 0 /\ Cardinality(GotIn(s, a)) = 0
    BY <2>3, FS_EmptySet
  <2>5. Tally
    BY <2>2, <2>4 DEF Tally, Absent
  <2>6. Faithful
    BY <2>1 DEF Init, Faithful, Once, Elements, Absent
  <2> QED
    BY <2>5, <2>6
<1>2. Typed /\ Delivery /\ [Next]_vars /\ Tally /\ Faithful => Tally' /\ Faithful'
  <2>1. SUFFICES ASSUME Typed, Delivery, [Next]_vars, Tally, Faithful
                 PROVE  Tally' /\ Faithful'
    OBVIOUS
  <2>2. Counted
    BY <2>1, CountedSteps
  <2>3. Goes \/ \E s \in SessionIds : Archive(s)
    BY <2>1, Steps
  <2> QED
    BY <2>1, <2>2, <2>3, FaithfulGoes, FaithfulFiles DEF Counted
<1> QED
  BY <1>1, <1>2, RelayTyped, DeliveryHolds, FaithfulSuffices, PTL DEF Spec
=============================================================================
