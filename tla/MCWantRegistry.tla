--------------------------- MODULE MCWantRegistry ---------------------------
(* A small instance of WantRegistry for TLC. *)
EXTENDS WantRegistry, TLC

AgentSymmetry == Permutations(Agents)

CDistance == [here |-> [here |-> 0, far |-> 30], far |-> [here |-> 30, far |-> 0]]

Camera == <<"electronics", "cameras">>
Mirrorless == <<"electronics", "cameras", "mirrorless">>

Content(category, terms, place, within) ==
  [category |-> category, terms |-> terms, place |-> place, within |-> within]

\* A price; a number where a grade is expected; a range.
WNear    == Content(Camera, [price |-> [max |-> Num(10)]], "here", 20)
WAtLeast == Content(Camera, [count |-> [min |-> Num(5)]], Nowhere, Anywhere)
WRange   == Content(Camera, [count |-> [min |-> Num(5), max |-> Num(10)]], Nowhere, Anywhere)

\* Fitting; too far away, and with a number for a grade; a range.
HCheap == Content(Mirrorless, [price |-> [min |-> Num(8)],
                               condition |-> [value |-> Word("fair")]], "here", Anywhere)
HCount == Content(Camera, [count |-> [value |-> Num(7)]], "far", Anywhere)
HRange == Content(Camera, [count |-> [min |-> Num(1), max |-> Num(3)]], Nowhere, Anywhere)

CContents == [want |-> {WNear, WAtLeast}, have |-> {HCheap, HCount}]
CRanges   == [want |-> {WNear, WRange}, have |-> {HCheap, HRange}]
=============================================================================
