----------------------------- MODULE TokenCounts -----------------------------
(***************************************************************************)
(* How the tokens of an observation are counted: its normalization, the    *)
(* split of a row into a classified part and an unclassified remainder,    *)
(* and the sums over rows that everything that is displayed is built from. *)
(*                                                                         *)
(* An observation has the tokens of each category, the categories that its *)
(* source counts apart from input and output, and perhaps a total.  Labels *)
(* that are only collected (derivations, precisions, scopes) are left out. *)
(***************************************************************************)
EXTENDS Integers, FiniteSetsExt

\* null: a total that is not told, an amount that is not known.
Unknown == -1
None == "none"

Categories == {"input", "output", "reasoning", "cacheRead", "cacheWrite"}
Unattributed == {None, "all-models", "unknown", "unknown-model"}

AtLeastZero(n) == IF n < 0 THEN 0 ELSE n
-----------------------------------------------------------------------------
(* normalizeTokenObservation.                                               *)

Categorized(o) ==
    LET counted == {"input", "output"} \cup o.separate
    IN  SumFunction([c \in counted |-> o.tokens[c]])

\* An observation that fails one of these makes the whole snapshot fail.
IsAcceptable(o) ==
    /\ \A c \in Categories : o.tokens[c] >= 0
    /\ o.oneHour # Unknown => o.fiveMinute + o.oneHour = o.tokens["cacheWrite"]
    /\ o.reported = Unknown \/ o.remainder = Unknown
    /\ o.reported # Unknown => o.reported >= Categorized(o)
    /\ o.remainder # Unknown => o.remainder >= 0 /\ Categorized(o) = 0

Recorded(o) ==
    IF o.reported # Unknown THEN o.reported
    ELSE IF o.remainder # Unknown THEN o.remainder ELSE Categorized(o)

IsAttributed(o) == o.attributed /\ o.model \notin Unattributed

Unclassified(o) ==
    IF IsAttributed(o) THEN AtLeastZero(Recorded(o) - Categorized(o)) ELSE Recorded(o)

\* The row of usage_observations that an observation is stored as.
Normalized(o) ==
    [ provider |-> o.provider, id |-> o.id, domain |-> o.domain, at |-> o.at,
      model |-> o.model, attributed |-> IsAttributed(o), additive |-> o.additive,
      tokens |-> o.tokens, separate |-> o.separate, reported |-> o.reported,
      total |-> Recorded(o), unclassified |-> Unclassified(o) ]

\* What a price is derived from: a row that differs here loses its price.
PricingInputs(row) ==
    [ domain |-> row.domain, model |-> row.model, at |-> row.at, total |-> row.total,
      tokens |-> row.tokens, unclassified |-> row.unclassified,
      separate |-> row.separate, attributed |-> row.attributed ]
-----------------------------------------------------------------------------
(* Rows and sums.                                                           *)

\* Faulty variant: the classified part of a row is the row.
ClassifiedWhole(row) == row

ClassifiedPart(row) ==
    [row EXCEPT !.total = AtLeastZero(row.total - row.unclassified), !.unclassified = 0]

\* The remainder of an attributed row keeps no category.
UnclassifiedPart(row) ==
    [row EXCEPT !.total = row.unclassified,
                !.tokens = [c \in Categories |-> 0],
                !.attributed = FALSE]

RowTotal(rows) == SumFunction([r \in rows |-> r.total])
CategoryTotal(rows, c) == SumFunction([r \in rows |-> r.tokens[c]])

\* addTokenEvidence over rows, and addAggregatedTokenEvidence over their sums.
Evidence(rows) ==
    [ recorded     |-> RowTotal(rows),
      count        |-> Cardinality(rows),
      reported     |-> SumFunction([r \in {s \in rows : s.reported # Unknown} |-> r.reported]),
      unclassified |-> SumFunction([r \in rows |-> r.unclassified]) ]

ClassifiedTokens(evidence) == AtLeastZero(evidence.recorded - evidence.unclassified)

\* nonOverlappingComposition: a category that input or output contains is not
\* added a second time.
Composition(rows) ==
    [c \in Categories |->
        CategoryTotal({r \in rows : c \in {"input", "output"} \cup r.separate}, c)]

CompositionTotal(rows) == SumFunction(Composition(rows))
=============================================================================
