---------------------------- MODULE WantRegistry ----------------------------
(***************************************************************************)
(* The registry of Wants and Haves (src/concordia/want_registry.py) as its *)
(* tools use it (src/concordia/mcp_server.py, tool_post_want and on).      *)
(*                                                                         *)
(* An entry is posted, compared with what the other side has listed, and   *)
(* removed when its owner withdraws it or when a call that looks notices   *)
(* that its time to live has elapsed (`lapsed').  Matches are kept.        *)
(***************************************************************************)
EXTENDS WantMatching, FiniteSets

CONSTANTS
  Agents,
  Contents,    \* side -> what is posted there
  Lives,       \* bound: whether an entry may be posted with a time to live already past
  MaxListed,   \* MAX_WANTS, MAX_HAVES
  MaxActive,   \* MAX_ACTIVE_WANTS_PER_AGENT, MAX_ACTIVE_HAVES_PER_AGENT
  MaxMatches,  \* MAX_MATCHES
  MaxEntries   \* bound: entries ever posted

Sides == {"want", "have"}
Other(s) == IF s = "want" THEN "have" ELSE "want"

ASSUME WantRegistryAssumption ==
  /\ {MaxListed, MaxActive, MaxMatches, MaxEntries} \subseteq Nat
  /\ Lives \subseteq BOOLEAN
  \* In no pair of contents one key clashes while another raises: which of the two is
  \* met first is up to the order of a Python set.
  /\ \A w \in Contents.want, h \in Contents.have :
       ~({Clash, Raise} \subseteq Outcomes(w.terms, h.terms))

VARIABLES
  entry,    \* every entry ever posted, oldest first
  listed,   \* _wants and _haves: the entries in the registry
  index,    \* _agent_wants and _agent_haves: side -> agent -> entries
  matches,  \* _matches: pairs <<want, have>>
  lapsed,   \* the entries past their time to live
  told,     \* history: the pairs returned to whoever posted the later one
  raised    \* history: the entries whose posting ended in an exception

vars == <<entry, listed, index, matches, lapsed, told, raised>>

Posted == DOMAIN entry
On(s) == {i \in Posted : entry[i].side = s}
Owned(s, a) == {i \in On(s) : entry[i].agent = a}
Live == listed \ lapsed

\* The entries removed from both the registry and the index of their owner.
Drop(gone) ==
  /\ listed' = listed \ gone
  /\ index' = [s \in Sides |-> [a \in Agents |-> index[s][a] \ gone]]

Overdue(s) == listed \intersect On(s) \intersect lapsed

Init ==
  /\ entry = <<>>
  /\ listed = {}
  /\ index = [s \in Sides |-> [a \in Agents |-> {}]]
  /\ matches = {}
  /\ lapsed = {}
  /\ told = {}
  /\ raised = {}

-----------------------------------------------------------------------------
(* post_want, post_have *)

Pair(s, new, old) == IF s = "want" THEN <<new, old>> ELSE <<old, new>>

\* Want and have of a pair, as contents, when i is posted by agent a as e.
FitsWith(e, o) == IF e.side = "want" THEN Fits(e.content, entry[o].content)
                  ELSE Fits(entry[o].content, e.content)
RaisesWith(e, o) == IF e.side = "want" THEN ComparingRaises(e.content, entry[o].content)
                    ELSE ComparingRaises(entry[o].content, e.content)

\* Faults: elapsed entries are compared too; haves are compared with nothing.
CandidatesStale(e, dead) ==
  {o \in listed : entry[o].side = Other(e.side) /\ entry[o].agent # e.agent}
CandidatesWants(e, dead) ==
  {o \in Live : /\ e.side = "want" /\ ~dead
                /\ entry[o].side = Other(e.side) /\ entry[o].agent # e.agent}

\* The entries of the other side that compute_match looks into.  Those of the other
\* side that have elapsed are skipped, not removed.
Candidates(e, dead) ==
  IF dead THEN {}
  ELSE {o \in Live : entry[o].side = Other(e.side) /\ entry[o].agent # e.agent}

\* They are compared oldest first, until one comparison raises.
Compared(e, dead) ==
  {o \in Candidates(e, dead) :
     \A p \in Candidates(e, dead) : RaisesWith(e, p) => o < p}

Found(e, dead) == {o \in Compared(e, dead) : FitsWith(e, o)}

\* Fault: what is found is stored although there is no room.
KeptAll(found) == found

\* Those of the found that still find room, oldest first.
Kept(found) ==
  {o \in found : Cardinality({p \in found : p < o}) + Cardinality(matches) < MaxMatches}

\* The caps, after the elapsed entries of this side have been removed.
Room(s, a) ==
  LET kept == On(s) \intersect Live IN
  /\ Cardinality(kept) < MaxListed
  /\ Cardinality(index[s][a] \intersect kept) < MaxActive

\* The new entry is listed before it is compared, and stays listed when that raises.
Post(s, a, c, dead) ==
  LET e   == [side |-> s, agent |-> a, content |-> c]
      new == Len(entry) + 1
      found == Found(e, dead)
      through == Compared(e, dead) = Candidates(e, dead)
  IN
  /\ new <= MaxEntries
  /\ Room(s, a)
  /\ entry' = Append(entry, e)
  /\ listed' = (listed \ Overdue(s)) \union {new}
  /\ index' = [t \in Sides |-> [b \in Agents |->
                 (index[t][b] \ Overdue(s)) \union (IF <<t, b>> = <<s, a>> THEN {new} ELSE {})]]
  /\ lapsed' = IF dead THEN lapsed \union {new} ELSE lapsed
  /\ matches' = matches \union {Pair(s, new, o) : o \in Kept(found)}
  /\ told' = IF through THEN told \union {Pair(s, new, o) : o \in found} ELSE told
  /\ raised' = IF through THEN raised ELSE raised \union {new}

\* A posting that is refused has swept all the same.
PostRefused(s, a) ==
  /\ ~Room(s, a)
  /\ Drop(Overdue(s))
  /\ UNCHANGED <<entry, matches, lapsed, told, raised>>

-----------------------------------------------------------------------------
(* The other calls *)

\* get_want, get_have: an elapsed entry is removed by whoever asks for it.
Get(i) ==
  /\ i \in listed \intersect lapsed
  /\ Drop({i})
  /\ UNCHANGED <<entry, matches, lapsed, told, raised>>

\* Fault: the entry stays in the index.
WithdrawIndexed(i, a) ==
  /\ i \in listed
  /\ i \in lapsed \/ entry[i].agent = a
  /\ listed' = listed \ {i}
  /\ UNCHANGED <<entry, index, matches, lapsed, told, raised>>

\* tool_withdraw_want, tool_withdraw_have: the entry is asked for first, so one that has
\* elapsed goes whoever withdraws it.
Withdraw(i, a) ==
  /\ i \in listed
  /\ i \in lapsed \/ entry[i].agent = a
  /\ Drop({i})
  /\ UNCHANGED <<entry, matches, lapsed, told, raised>>

\* list_wants, search_wants, and the same for haves.
Browse(s) ==
  /\ Drop(Overdue(s))
  /\ UNCHANGED <<entry, matches, lapsed, told, raised>>

Stats ==
  /\ Drop(listed \intersect lapsed)
  /\ UNCHANGED <<entry, matches, lapsed, told, raised>>

Lapse(i) ==
  /\ i \in Live
  /\ lapsed' = lapsed \union {i}
  /\ UNCHANGED <<entry, listed, index, matches, told, raised>>

Next ==
  \/ \E s \in Sides, a \in Agents :
       \/ \E c \in Contents[s], dead \in Lives : Post(s, a, c, dead)
       \/ PostRefused(s, a)
  \/ \E s \in Sides : Browse(s)
  \/ \E i \in listed : Get(i) \/ Lapse(i) \/ \E a \in Agents : Withdraw(i, a)
  \/ Stats

Spec == Init /\ [][Next]_vars

-----------------------------------------------------------------------------
(* Properties *)

Entry == [side : Sides, agent : Agents, content : Contents.want \union Contents.have]

\* Every variable has the type its attribute has in want_registry.py.
TypeOK ==
  /\ entry \in Seq(Entry)
  /\ listed \in SUBSET Posted
  /\ index \in [Sides -> [Agents -> SUBSET Posted]]
  /\ {matches, told} \subseteq SUBSET (Posted \X Posted)
  /\ {lapsed, raised} \subseteq SUBSET Posted

\* Any two entries that fit and are both on offer were brought together when the later
\* one came, whichever side that was and whatever elapsed, was swept, refused or
\* withdrawn in between (SPEC 7.3: the registry continuously evaluates overlap; posting
\* is the only moment the code compares).  A posting that raised is excepted.
PairsFound ==
  \A w \in Live \intersect On("want"), h \in Live \intersect On("have") :
    /\ entry[w].agent # entry[h].agent
    /\ Fits(entry[w].content, entry[h].content)
    /\ {w, h} \intersect raised = {}
    => <<w, h>> \in told

\* A match names a want and a have of two agents whose deal space is not empty, and it
\* was told to the later poster, or only the exception kept it from being; what was told
\* and is not kept found the store of matches full.
MatchesAccounted ==
  /\ \A m \in told \union matches :
       /\ m[1] \in On("want") /\ m[2] \in On("have")
       /\ entry[m[1]].agent # entry[m[2]].agent
       /\ Fits(entry[m[1]].content, entry[m[2]].content)
  /\ \A m \in matches \ told : {m[1], m[2]} \intersect raised # {}
  /\ told \subseteq matches \/ Cardinality(matches) = MaxMatches
  /\ Cardinality(matches) <= MaxMatches

\* The index by owner, from which quotas are counted, holds exactly the listed entries,
\* and so no agent ever has more entries on offer than its share.
IndexAgrees ==
  /\ \A s \in Sides, a \in Agents :
       /\ index[s][a] = listed \intersect Owned(s, a)
       /\ Cardinality(Live \intersect Owned(s, a)) <= MaxActive
  /\ \A s \in Sides : Cardinality(listed \intersect On(s)) <= MaxListed

\* An entry that has been removed or has elapsed comes into no new match and never
\* comes back, though its old matches stay.
GoneForGood ==
  [][/\ listed' \intersect Posted \subseteq listed
     /\ \A m \in matches' \ matches : \A i \in {m[1], m[2]} :
          i \in Posted => i \in Live]_vars

-----------------------------------------------------------------------------
(* What the documentation says and the code does not do *)

\* compute_term_overlap: "other numeric: overlap if ranges intersect".
MatchedRangesMeet ==
  \A m \in told :
    LET w == entry[m[1]].content.terms
        h == entry[m[2]].content.terms
    IN \A k \in ScoredKeys(w, h) : RangesMeet(w[k], h[k])
=============================================================================
