----------------------------- MODULE FactSelection ---------------------------
(***************************************************************************)
(* The facts a prompt may quote: their filter, their score and their total *)
(* order (packages/core/src/projects/selection.ts), which the writer takes *)
(* as they are (writer-memory.ts), and the pack that a budget of tokens    *)
(* cuts (packages/ai/src/memory-pack.ts).  Pure operators on facts whose   *)
(* age is counted in half-lives of the recency.                            *)
(***************************************************************************)
EXTENDS Integers, Sequences, FiniteSets

LOCAL INSTANCE SequencesExt

CONSTANTS
    Limit,    \* the facts of a context: 8
    Budget,   \* MEMORY_BUDGET.facts
    MinFacts, \* MIN_FACTS_IN_PACK
    MaxAge    \* bound: half-lives

SelectionAssumption ==
    /\ Limit \in Nat /\ Budget \in Nat /\ MinFacts \in Nat /\ MaxAge \in Nat

------------------------------------------------------------------------------
\* The more it is used, the better: a mutant of Score.
Score_Used(f) == f.importance * 2 ^ (MaxAge - f.age) * f.used

\* scoreFact, up to a factor: its numerator, which used + 1 divides.
Score(f) == f.importance * 2 ^ (MaxAge - f.age)

Higher(f, g) == Score(f) * (g.used + 1) > Score(g) * (f.used + 1)

Equal(f, g) == Score(f) * (g.used + 1) = Score(g) * (f.used + 1)

\* Two facts of one score, one importance and one date have no order: a
\* mutant of Before.
Before_Partial(f, g) ==
    \/ Higher(f, g)
    \/ Equal(f, g) /\ f.importance > g.importance
    \/ Equal(f, g) /\ f.importance = g.importance /\ f.age < g.age

\* compareSelected: score, importance, date, identifier.
Before(f, g) ==
    \/ Higher(f, g)
    \/ Equal(f, g) /\ f.importance > g.importance
    \/ Equal(f, g) /\ f.importance = g.importance /\ f.age < g.age
    \/ Equal(f, g) /\ f.importance = g.importance /\ f.age = g.age /\ f.id < g.id

\* applyFilters, with the options of a context: what is active and confirmed.
Eligible(facts) == {f \in facts : f.status = "verified"}

\* selectProjectFacts.
Selected(facts) ==
    LET ranked == SetToSortSeq(Eligible(facts), Before)
    IN IF Len(ranked) <= Limit THEN ranked ELSE SubSeq(ranked, 1, Limit)

\* The budget decides alone: a mutant of Fits.
Fits_Always(pack, f) == pack.used + f.cost <= Budget

\* Within the budget, or among the facts that are always kept.
Fits(pack, f) == pack.used + f.cost <= Budget \/ Len(pack.kept) < MinFacts

\* buildMemoryPack: a fact that does not fit is dropped, and the next one tried.
Pack(facts) ==
    FoldLeft(LAMBDA pack, f :
               IF Fits(pack, f)
               THEN [pack EXCEPT !.kept = Append(@, f), !.used = @ + f.cost]
               ELSE [pack EXCEPT !.dropped = Append(@, f)],
             [kept |-> <<>>, dropped |-> <<>>, used |-> 0], facts)

------------------------------------------------------------------------------
\* "Ordre total et stable": whatever the order the rows come in, two facts are
\* ordered, one way, and no three of them turn in a circle.
RankingIsTotal(facts) ==
    \A f, g, h \in facts :
        /\ ~Before(f, f)
        /\ f # g => Before(f, g) \/ Before(g, f)
        /\ Before(f, g) /\ Before(g, h) => Before(f, h)

Dominates(f, g) ==
    /\ f.importance >= g.importance /\ f.age <= g.age /\ f.used <= g.used
    /\ f.importance > g.importance \/ f.age < g.age \/ f.used < g.used

\* "Importance x recence / usages": a fact is never left out for one that is
\* less important, older and more used; and none is left out below the limit.
BestAreSelected(facts) ==
    LET chosen == {Selected(facts)[n] : n \in DOMAIN Selected(facts)}
        out == Eligible(facts) \ chosen
    IN /\ \A f \in out : \A g \in chosen : ~Dominates(f, g)
       /\ out # {} => Cardinality(chosen) = Limit

\* "Jamais moins de 3 faits": the pack loses a fact only when it has kept that
\* many, and passes its budget only when it has not kept more.
PackKeepsItsFloor(facts) ==
    LET pack == Pack(Selected(facts))
    IN /\ pack.dropped # <<>> => Len(pack.kept) >= MinFacts
       /\ pack.used > Budget => Len(pack.kept) <= MinFacts
       /\ Len(pack.kept) + Len(pack.dropped) = Len(Selected(facts))
==============================================================================
