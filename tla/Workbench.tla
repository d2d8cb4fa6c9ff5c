------------------------------ MODULE Workbench ------------------------------
(***************************************************************************)
(* The read model over the ledger: the history of each billing domain in   *)
(* the selected window, the headline of all providers, the token and money *)
(* workbench with its trend and model ranking, and the export.  Nothing    *)
(* here changes state: each definition is a query.                         *)
(*                                                                         *)
(* A history cost is the sum over the cost records `of` of one purpose and *)
(* currency; a metric is the sum over history costs of one purpose.        *)
(***************************************************************************)
EXTENDS Ledger

CONSTANTS
    Window,             \* the length of the selected window, in units
    IntervalCount,      \* 24, 7 or 30
    ComparisonCurrency,
    RateTerm            \* how long an exchange rate is good for, in units (7 days)

ASSUME WorkbenchAssumption ==
    /\ Window \in Nat \ {0} /\ IntervalCount \in Nat \ {0}
    /\ Window % IntervalCount = 0
    /\ RateTerm \in Nat

Intervals == 0..(IntervalCount - 1)
-----------------------------------------------------------------------------
(* The history of a billing domain.                                         *)

WindowStart == now - Window

InWindow(records) == {r \in records : WindowStart <= r.at /\ r.at < now}

\* historyIntervalIndex
IntervalOf(at) ==
    LET index == (at - WindowStart) \div (Window \div IntervalCount)
    IN  Max({0, Min({IntervalCount - 1, index})})

InInterval(records, i) == {r \in records : IntervalOf(r.at) = i}

UsageRows(d) == {r \in InWindow(Additive) : Domain(r) = d}
CostRows(d) == {c \in InWindow(costs) : Domain(c) = d}

\* The costs that the days and intervals of a history show.
TimedCosts(d) == {c \in CostRows(d) : c.kind # "subscription"}

NoRate == [at |-> Unknown, rate |-> 0]

\* The latest rate from before the end of the window.
RateFrom(base) ==
    LET known == {r \in rates : r.base = base /\ r.quote = ComparisonCurrency /\ r.at < now}
    IN  IF known = {} THEN NoRate
        ELSE CHOOSE r \in known : \A s \in known : r.at >= s.at

\* Faulty variant: a rate never expires.
RateIsUsableAlways(rate) == rate # NoRate

RateIsUsable(rate) == rate # NoRate /\ now - rate.at <= RateTerm

Converted(amount, currency) ==
    LET rate == RateFrom(currency)
    IN  IF amount = Unknown THEN Unknown
        ELSE IF currency = ComparisonCurrency THEN amount
        ELSE IF RateIsUsable(rate) THEN amount * rate.rate ELSE Unknown

SumOfAmounts(group) ==
    IF \E c \in group : c.amount = Unknown THEN Unknown
    ELSE SumFunction([c \in group |-> c.amount])

\* A group of summarizeHistoryCosts: one purpose, one currency.
HistoryCost(group) ==
    LET one    == CHOOSE c \in group : TRUE
        amount == SumOfAmounts(group)
    IN  [ of        |-> Keys(group),
          kind      |-> one.kind,
          currency  |-> one.currency,
          amount    |-> amount,
          converted |-> Converted(amount, one.currency),
          records   |-> Cardinality(group),
          known     |-> Cardinality({c \in group : c.amount # Unknown}),
          priced    |-> IF one.kind = "retail-equivalent"
                        THEN SumFunction([c \in group |-> c.priced]) ELSE 0 ]

SummarizeHistoryCosts(records) ==
    {HistoryCost({d \in records : d.kind = c.kind /\ d.currency = c.currency}) : c \in records}

\* The known models of a history, each with the rows it has a classified part in.
RowsOfModel(d, m) ==
    {r \in UsageRows(d) : r.attributed /\ r.model = m /\ ClassifiedPart(r).total > 0}

Models(d) == {r.model : r \in {r \in UsageRows(d) : RowsOfModel(d, r.model) # {}}}

ClassifiedTotal(rows) == SumFunction([r \in rows |-> ClassifiedPart(r).total])
ModelTotal(d, m) == ClassifiedTotal(RowsOfModel(d, m))

UnclassifiedRows(d) ==
    {r \in UsageRows(d) : ~r.attributed}
        \cup {UnclassifiedPart(r) : r \in {r \in UsageRows(d) :
                                              r.attributed /\ r.unclassified # 0}}

\* The records that tell what a model has cost.
PriceEvidence(d, m) ==
    LET ids == {r.id : r \in RowsOfModel(d, m)}
    IN  {c \in CostRows(d) :
            /\ c.kind \in {"retail-equivalent", "reported-estimate"}
            /\ IF c.usage # NoUsage THEN c.usage \in ids ELSE c.model = m}

Each(records) == {HistoryCost({c}) : c \in records}
-----------------------------------------------------------------------------
(* Headlines.                                                               *)

DomainsOf(provider) == {d \in domains : d[1] = provider}
Providers == {d[1] : d \in domains}

\* selectSummaryBillingDomainId: the first domain in the order of their ids.
SummaryDomain(provider) ==
    LET build == <<provider, "grok-build-subscription">>
    IN  IF provider = "grok" /\ build \in domains THEN build
        ELSE CHOOSE d \in DomainsOf(provider) : TRUE

\* Faulty variant: every billing domain is in the headline.
EveryDomainInHeadline(d) == TRUE

\* billingDomainIncludedInHeadline
InHeadline(d) ==
    \/ d[1] = "dsh"
    \/ d[1] = "grok" /\ d[2] # "xai-api"
    \/ d = SummaryDomain(d[1])

Headline == {d \in domains : InHeadline(d)}

\* buildWorkbenchMetric
Metric(history, purpose) ==
    LET relevant  == {h \in history : h.kind = purpose}
        converted == {h \in relevant : h.converted # Unknown}
        records   == SumFunction([h \in relevant |-> h.records])
        known     == SumFunction([h \in relevant |-> h.known])
        done      == SumFunction([h \in converted |-> h.known])
        status    == IF records # 0 /\ known = records /\ done = records THEN "available"
                     ELSE IF records # 0 /\ done > 0 THEN "partial" ELSE "unavailable"
    IN  [ status  |-> status,
          amount  |-> IF status = "available"
                      THEN SumFunction([h \in converted |-> h.converted]) ELSE Unknown,
          records |-> records,
          priced  |-> SumFunction([h \in relevant |-> h.priced]) ]

CostsOf(ds) == UNION {SummarizeHistoryCosts(CostRows(d)) : d \in ds}
RowsOf(ds) == UNION {UsageRows(d) : d \in ds}

\* The two headline totals, of the workbench and of the global summary.
WorkbenchTokens == SumFunction([d \in Headline |-> Evidence(UsageRows(d)).recorded])

WorkbenchMetric(purpose) == Metric(CostsOf(Headline), purpose)

GlobalSummary ==
    LET counted == {d \in Headline : UsageRows(d) # {}}
        retail  == {h \in CostsOf(Headline) : /\ h.kind = "retail-equivalent"
                                              /\ h.currency = "USD" /\ h.amount # Unknown}
    IN  [ recorded |-> Evidence(RowsOf(counted)).recorded,
          retail   |-> IF retail = {} THEN Unknown ELSE SumFunction([h \in retail |-> h.amount]),
          priced   |-> SumFunction([h \in retail |-> h.priced]),
          contributions |-> {<<d, Evidence(UsageRows(d)).recorded, d \in Headline>> :
                                d \in {d \in domains : UsageRows(d) # {}}} ]

\* A provider's own total: all rows that were ever stored, of its summary domain,
\* or of its domains where they add up.
ProviderTotal(provider) ==
    LET together == CASE provider = "dsh"  -> DomainsOf(provider)
                      [] provider = "grok" -> DomainsOf(provider) \ {<<"grok", "xai-api">>}
                      [] OTHER             -> {SummaryDomain(provider)}
        counted == IF Cardinality(DomainsOf(provider)) > 1 THEN together
                   ELSE {SummaryDomain(provider)}
    IN  RowTotal({r \in Additive : Domain(r) \in counted})
-----------------------------------------------------------------------------
(* The workbench.                                                           *)

\* An available share is a quotient of two available metrics.
Share(part, whole) ==
    IF part.status = "available" /\ whole.status = "available" /\ whole.amount # 0
    THEN <<part.amount, whole.amount>> ELSE None

ProviderSummary ==
    LET retail(d) == Metric(SummarizeHistoryCosts(CostRows(d)), "retail-equivalent")
        shown == {d \in domains : UsageRows(d) # {} \/ retail(d).records > 0}
    IN  {[ domain      |-> d,
           inHeadline  |-> InHeadline(d),
           recorded    |-> Evidence(UsageRows(d)).recorded,
           retail      |-> retail(d),
           retailShare |-> IF InHeadline(d)
                           THEN Share(retail(d), WorkbenchMetric("retail-equivalent"))
                           ELSE None ] : d \in shown}

TokenBreakdown ==
    LET sums         == {<<d, Evidence(UsageRows(d))>> : d \in Headline}
        classified   == SumFunction([s \in sums |-> ClassifiedTokens(s[2])])
        unclassified == SumFunction([s \in sums |-> s[2].unclassified])
    IN  [ classified   |-> classified,
          unclassified |-> unclassified,
          status       |-> IF RowsOf(Headline) # {} /\ unclassified = 0 THEN "available"
                           ELSE IF RowsOf(Headline) # {} /\ classified > 0 THEN "partial"
                           ELSE "unavailable" ]

IntervalCosts(ds, i) ==
    UNION {SummarizeHistoryCosts(InInterval(TimedCosts(d), i)) : d \in ds}

DayBreakdown(i) ==
    [ recorded |-> Evidence(InInterval(RowsOf(Headline), i)).recorded,
      gap      |-> InInterval(RowsOf(Headline), i) = {},
      retail   |-> Metric(IntervalCosts(Headline, i), "retail-equivalent") ]

\* A segment of the trend: what one model of one domain, or what none of its
\* models, has used and cost in an interval.
Segment(d, m, rows, recorded, history) ==
    [ domain   |-> d, model |-> m, inHeadline |-> InHeadline(d),
      count    |-> Cardinality(rows),
      recorded |-> recorded,
      retail   |-> Metric(history, "retail-equivalent"),
      reported |-> Metric(history, "reported-estimate") ]

IsShown(s) == s.count > 0 \/ s.retail.records > 0 \/ s.reported.records > 0

ModelSegments(d, i) ==
    LET rows(m)    == InInterval(RowsOfModel(d, m), i)
        history(m) == Each(InInterval(PriceEvidence(d, m), i))
        segments   == {Segment(d, m, rows(m), RowTotal(rows(m)), history(m)) : m \in Models(d)}
    IN  {s \in segments : IsShown(s)}

\* The rest: unclassified tokens, and the costs of a domain without any model.
RestSegment(d, i) ==
    LET rows     == InInterval(UnclassifiedRows(d), i)
        leftover == IF ModelSegments(d, i) = {} THEN IntervalCosts({d}, i) ELSE {}
    IN  Segment(d, None, rows, RowTotal(rows), leftover)

Segments(i) ==
    UNION {ModelSegments(d, i) \cup {s \in {RestSegment(d, i)} : IsShown(s)} : d \in domains}

\* An entry of the ranking: a model of a domain of a provider.  The intervals of its
\* trend have its classified tokens (tokenTotals), and the recorded tokens of the rows
\* that these are of, which are whole rows, with what is left of them.
RankingEntry(d, m) ==
    LET evidence == Each(PriceEvidence(d, m))
    IN  [ id          |-> <<d, m>>,
          inHeadline  |-> InHeadline(d),
          total       |-> ModelTotal(d, m),
          retail      |-> Metric(evidence, "retail-equivalent"),
          reported    |-> Metric(evidence, "reported-estimate"),
          composition |-> CompositionTotal(RowsOfModel(d, m)),
          trend       |-> [i \in Intervals |->
                              ClassifiedTotal(InInterval(RowsOfModel(d, m), i))],
          trendRecorded |-> [i \in Intervals |-> RowTotal(InInterval(RowsOfModel(d, m), i))] ]

Ranking == UNION {{RankingEntry(d, m) : m \in Models(d)} : d \in domains}

RankingUnclassified ==
    {[ domain |-> d, inHeadline |-> InHeadline(d), total |-> RowTotal(UnclassifiedRows(d)) ] :
        d \in {d \in domains : UnclassifiedRows(d) # {}}}
-----------------------------------------------------------------------------
(* The export.                                                              *)

\* Faulty variant: what is left of an observation is exported once more.
ExportedObservationsTwice(d) ==
    {<<"model", r>> : r \in UNION {RowsOfModel(d, m) : m \in Models(d)}}
        \cup {<<"unclassified", r>> : r \in UnclassifiedRows(d)}

\* token-observation rows: an observation of a model is told whole, so that its
\* remainder is not told again.
ExportedObservations(d) ==
    LET ofModels == UNION {RowsOfModel(d, m) : m \in Models(d)}
    IN  {<<"model", r>> : r \in ofModels}
            \cup {<<"unclassified", r>> : r \in Without(UnclassifiedRows(d), Keys(ofModels))}

ExportedCosts(d) == CostRows(d)
ExportedTotal(d) == Evidence(UsageRows(d)).recorded
-----------------------------------------------------------------------------
(* Properties.                                                              *)

\* What the rows of a model have left beside what it is ranked by.
LeftBeside(e) == SumFunction([r \in RowsOfModel(e.id[1], e.id[2]) |-> r.unclassified])

\* The recorded tokens of the headline are reached on each way to them (CONTEXT.md,
\* invariants 10 and 29): known models and unclassified rows reconcile to the workbench
\* total, and so do its intervals, its classification and the global summary.  A model
\* is ranked by its classified tokens, which its composition and the classified tokens
\* of its trend add up to.  The recorded tokens of its trend, which are what the page
\* draws, do not: they exceed it by what its rows have left, which is disclosed beside
\* the ranking once more.
RecordedTokensReconcile ==
    LET ranked == {e \in Ranking : e.inHeadline}
        rest   == {u \in RankingUnclassified : u.inHeadline}
    IN  /\ WorkbenchTokens = SumFunction([e \in ranked |-> e.total])
                                + SumFunction([u \in rest |-> u.total])
        /\ WorkbenchTokens = SumFunction([i \in Intervals |-> DayBreakdown(i).recorded])
        /\ WorkbenchTokens = TokenBreakdown.classified + TokenBreakdown.unclassified
        /\ WorkbenchTokens = GlobalSummary.recorded
        /\ \A e \in Ranking : /\ e.total = SumFunction(e.trend)
                              /\ e.total = e.composition
                              /\ SumFunction(e.trendRecorded) = e.total + LeftBeside(e)

\* The domains that the total of a provider is of.
DomainsOfTotal(p) ==
    CASE p = "dsh"  -> DomainsOf(p)
      [] p = "grok" -> IF DomainsOf(p) = {<<"grok", "xai-api">>} THEN DomainsOf(p)
                       ELSE DomainsOf(p) \ {<<"grok", "xai-api">>}
      [] OTHER      -> {SummaryDomain(p)}

\* Which domains a total is of, and each of its rows in it once.  For any provider but
\* dsh and Grok it is the one summary domain.  dsh is all of its domains and Grok all but
\* the xAI API (getProviderOverview, billingDomainIncludedInHeadline), so that a custom
\* endpoint of Grok Build is added to the subscription: the documents have one domain
\* there, too (CONTEXT.md, lines 76-79 and invariant 31; ADR 008).  The total of a provider and the
\* headline are about the same domains, and what is in no headline is told beside it.
TotalsAreOfTheirDomains ==
    /\ \A p \in Providers :
          /\ {d \in Headline : d[1] = p} = DomainsOfTotal(p)
          /\ ProviderTotal(p) = RowTotal({r \in Additive : Domain(r) \in DomainsOfTotal(p)})
    /\ WorkbenchTokens = RowTotal({r \in InWindow(Additive) : Domain(r) \in DomainsOfTotal(r.provider)})
    /\ WorkbenchTokens
         + SumFunction([s \in {s \in ProviderSummary : ~s.inHeadline} |-> s.recorded])
         = RowTotal(InWindow(Additive))

\* An amount is shown when every record that contributes to it has a known amount
\* and a valid conversion, and is then the sum of all of them (CONTEXT.md,
\* invariants 4, 21 and 25); the intervals of the window reconcile to it.
AmountsAreComplete ==
    \A purpose \in Purposes \ {"subscription"} :
        LET records == {c \in InWindow(costs) : c.kind = purpose /\ Domain(c) \in Headline}
            valid(c) == /\ c.amount # Unknown
                        /\ c.currency # ComparisonCurrency =>
                              \E r \in rates : /\ r.base = c.currency /\ r.at < now
                                               /\ r.quote = ComparisonCurrency
                                               /\ now - r.at <= RateTerm
            metric == WorkbenchMetric(purpose)
            shown == {i \in Intervals : DayBreakdown(i).retail.records > 0}
        IN  /\ metric.status = "available" <=> records # {} /\ \A c \in records : valid(c)
            /\ metric.status = "available" =>
                  metric.amount = SumFunction([c \in records |-> Converted(c.amount, c.currency)])
            /\ metric.status = "available" /\ purpose = "retail-equivalent" =>
                  metric.amount = SumFunction([i \in shown |-> DayBreakdown(i).retail.amount])

\* The export tells each observation and each cost of the window once, so that the
\* observations of a domain add up to its total (ADR 009).  Only an observation of a
\* model that has used no token is not told.
ExportTellsEachOnce ==
    \A d \in domains :
        /\ {Key(x[2]) : x \in ExportedObservations(d)}
              = Keys({r \in UsageRows(d) : r.attributed => r.total > 0})
        /\ \A x, y \in ExportedObservations(d) : Key(x[2]) = Key(y[2]) => x = y
        /\ SumFunction([x \in ExportedObservations(d) |-> x[2].total]) = ExportedTotal(d)
        /\ Keys(ExportedCosts(d)) = UNION {h.of : h \in SummarizeHistoryCosts(CostRows(d))}

\* What the documents promise and the code does not do.

\* Each observation contributes exactly one recorded token total (CONTEXT.md,
\* invariant 9): the segments of an interval add up to what was used in it.
TrendCountsOnce ==
    \A i \in Intervals :
        SumFunction([s \in {s \in Segments(i) : s.inHeadline} |-> s.recorded])
            = DayBreakdown(i).recorded
=============================================================================
