---------------------------- MODULE WantMatching ----------------------------
(***************************************************************************)
(* When a Want and a Have match (compute_match, src/concordia/             *)
(* want_registry.py): categories, terms, places.  Scores are per cent.     *)
(*                                                                         *)
(* A content is [category, terms, place, within].  A category is the       *)
(* sequence of its dotted segments.  Terms map keys to terms; a term is a  *)
(* record of the fields it has, each a number or a word; "fuzzy" is the    *)
(* field match: "fuzzy", and a term that is no object is the record of     *)
(* the one field "bare".                                                   *)
(***************************************************************************)
EXTENDS Integers, SequencesExt

CONSTANTS
  Nowhere,    \* no location, or one without coordinates
  Anywhere,   \* no within_km
  Distance    \* _haversine_km, rounded: [place -> [place -> Nat]]

Num(n) == [num |-> n]
Word(w) == [word |-> w]
IsNumber(v) == "num" \in DOMAIN v

HasNumber(term, field) == field \in DOMAIN term /\ IsNumber(term[field])

Grades == <<"poor", "fair", "good", "like_new", "new">>

\* _condition_rank: 0 for the worst, -1 for a word that is no grade.
Rank(v) ==
  IF \E i \in DOMAIN Grades : Grades[i] = v.word
  THEN (CHOOSE i \in DOMAIN Grades : Grades[i] = v.word) - 1
  ELSE -1

CategoriesCompatible(w, h) == IsPrefix(w, h) \/ IsPrefix(h, w)

-----------------------------------------------------------------------------
(* One term that both sides have *)

Clash == -1   \* compute_term_overlap returns no overlap
Raise == -2   \* _condition_rank is given a number

Priced(wt, ht) == HasNumber(wt, "max") /\ HasNumber(ht, "min")
Graded(wt, ht) == "min" \in DOMAIN wt /\ ("value" \in DOMAIN ht \/ "enum" \in DOMAIN wt)
Fuzzy(wt, ht)  == "fuzzy" \in DOMAIN wt \union DOMAIN ht
Valued(wt, ht) == "value" \in DOMAIN wt \intersect DOMAIN ht

\* Prices are not negative, so the spread is no more than the top.
PriceScore(top, bottom) ==
  IF top < bottom THEN Clash
  ELSE 100 - (50 * (top - bottom)) \div (IF top > 1 THEN top ELSE 1)

\* The grade had, relative to the least wanted: 0 for "poor", though it may be all that
\* is wanted.
GradeScore(wt, ht) ==
  LET had == IF "value" \in DOMAIN ht THEN ht.value ELSE Word("")
  IN IF IsNumber(wt.min) \/ IsNumber(had) THEN Raise
     ELSE IF Rank(wt.min) < 0 \/ Rank(had) < 0 THEN 50
     ELSE IF Rank(had) < Rank(wt.min) THEN Clash
     ELSE IF Rank(had) = 0 THEN 0 ELSE 100

TermScore(wt, ht) ==
  CASE Priced(wt, ht) -> PriceScore(wt.max.num, ht.min.num)
    [] ~Priced(wt, ht) /\ Graded(wt, ht) -> GradeScore(wt, ht)
    [] ~Priced(wt, ht) /\ ~Graded(wt, ht) /\ Fuzzy(wt, ht) -> 70
    [] ~Priced(wt, ht) /\ ~Graded(wt, ht) /\ ~Fuzzy(wt, ht) /\ Valued(wt, ht) ->
         IF wt.value = ht.value THEN 100 ELSE 30
    [] OTHER -> 50

-----------------------------------------------------------------------------
(* The terms together *)

SharedKeys(w, h) == DOMAIN w \intersect DOMAIN h

\* The keys that count: a shared key counts only when both terms are objects.
ScoredKeys(w, h) == {k \in SharedKeys(w, h) : "bare" \notin DOMAIN w[k] \union DOMAIN h[k]}

Outcomes(w, h) == {TermScore(w[k], h[k]) : k \in ScoredKeys(w, h)}

\* compute_term_overlap, for terms of which none clashes and none raises.
TermsScore(w, h) ==
  LET scored    == ScoredKeys(w, h)
      unmatched == (DOMAIN w \union DOMAIN h) \ SharedKeys(w, h)
      n         == Cardinality(scored) + Cardinality(unmatched)
      sum       == FoldSet(LAMBDA k, acc : acc + TermScore(w[k], h[k]),
                           40 * Cardinality(unmatched), scored)
  IN sum \div (IF n > 0 THEN n ELSE 1)

TermsFit(w, h) ==
  /\ {Clash, Raise} \intersect Outcomes(w, h) = {}
  /\ TermsScore(w, h) # 0

PlacesCompatible(w, h) ==
  \/ Nowhere \in {w.place, h.place}
  \/ w.within = Anywhere
  \/ Distance[w.place][h.place] <= w.within

\* The steps of compute_match that look at the contents only.
Fits(w, h) ==
  /\ CategoriesCompatible(w.category, h.category)
  /\ TermsFit(w.terms, h.terms)
  /\ PlacesCompatible(w, h)

\* Comparing the two ends in an exception, which no tool catches.
ComparingRaises(w, h) ==
  /\ CategoriesCompatible(w.category, h.category)
  /\ Raise \in Outcomes(w.terms, h.terms)

-----------------------------------------------------------------------------
(* What the documentation says: SPEC.md 7.3, compute_term_overlap *)

\* Lower and upper bound of the numbers a term admits.
Least(term) == IF HasNumber(term, "min") THEN term.min.num ELSE 0
RangesMeet(s, t) ==
  /\ HasNumber(s, "max") => Least(t) <= s.max.num
  /\ HasNumber(t, "max") => Least(s) <= t.max.num
  /\ HasNumber(s, "max") /\ HasNumber(s, "min") => s.min.num <= s.max.num
=============================================================================
