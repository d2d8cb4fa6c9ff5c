------------------------------- MODULE Ledger -------------------------------
(***************************************************************************)
(* What the repository keeps of usage and costs, as everything that is     *)
(* displayed reads it: usage_observations, daily_usage_aggregates,         *)
(* cost_records and exchange_rate_snapshots, and the writers that change   *)
(* them.  Each write is one transaction of one thread.                     *)
(*                                                                         *)
(* Time is counted in units of which DayLength make a day of UTC.          *)
(*                                                                         *)
(* Bounds: time ends at MaxTime; no more than MaxRows rows and MaxCosts    *)
(* costs are kept.                                                         *)
(***************************************************************************)
EXTENDS TokenCounts

CONSTANTS
    Observations,  \* what connectors may tell: see TokenCounts
    CostRecords,   \* what connectors may tell, and the derivation: see CostFields
    RateSnapshots, \* [id, base, quote, rate, at]
    DayLength,
    Term,          \* how long rows are kept, in units
    MaxTime, MaxRows, MaxCosts

Purposes == {"actual", "subscription", "reported-estimate", "retail-equivalent"}

CostFields == { "provider", "id", "domain", "at", "kind", "amount", "currency", "model",
                "usage", "priced" }

\* What the transcripts of a day of Codex leave of its official total.
IsRemainderOf(r, row) ==
    /\ row.provider = "codex" /\ r.provider = "codex" /\ r.domain = row.domain
    /\ row.id[1] = "codex:daily:"
    /\ r.id = <<"codex-transcript:account-remainder:", row.id[2]>>

\* The parts of a day of Codex are of one time (its start).  An amount that is known is
\* no less than zero: what lies below stands for null.
ASSUME LedgerAssumption ==
    /\ DayLength \in Nat \ {0}
    /\ {Term, MaxTime, MaxRows, MaxCosts} \subseteq Nat
    /\ \A o \in Observations :
          /\ o.tokens \in [Categories -> Int] /\ o.separate \subseteq Categories
          /\ o.attributed \in BOOLEAN
          /\ {o.at, o.reported, o.remainder} \subseteq Int
    /\ \A o, p \in Observations : IsRemainderOf(p, o) => p.at = o.at
    /\ \A c \in CostRecords :
          /\ DOMAIN c = CostFields
          /\ c.kind \in Purposes
          /\ c.amount \in Nat \cup {Unknown} /\ {c.at, c.priced} \subseteq Int
    /\ \A r \in RateSnapshots : r.rate \in Nat \ {0} /\ r.at \in Int

VARIABLES
    now,
    usage,         \* usage_observations
    aggregates,    \* daily_usage_aggregates: [provider, domain, day, model, total]
    costs,         \* cost_records
    rates,         \* exchange_rate_snapshots
    domains        \* billing_domains: <<provider, domain>> that have been told

vars == <<now, usage, aggregates, costs, rates, domains>>

Domain(r) == <<r.provider, r.domain>>
Key(r) == <<r.provider, r.id>>
Keys(rows) == {Key(r) : r \in rows}
Without(rows, keys) == {r \in rows : Key(r) \notin keys}

Rows == {Normalized(o) : o \in Observations}

\* A fixed subscription belongs to nothing that was used.
NoUsage == <<>>

Persisted(cost) ==
    IF cost.kind = "subscription"
    THEN [cost EXCEPT !.model = None, !.usage = NoUsage, !.priced = 0]
    ELSE cost

TypeOK ==
    /\ now \in 0..MaxTime
    /\ usage \subseteq Rows
    /\ \A r, s \in usage : Key(r) = Key(s) => r = s
    /\ \A a \in aggregates : a.total >= 0
    /\ costs \subseteq {Persisted(c) : c \in CostRecords}
    /\ \A c, d \in costs : Key(c) = Key(d) => c = d
    /\ rates \subseteq RateSnapshots
    /\ \A r \in usage \cup costs : Domain(r) \in domains

Init ==
    /\ now = 0
    /\ usage = {}
    /\ aggregates = {}
    /\ costs = {}
    /\ rates = {}
    /\ domains = {}
-----------------------------------------------------------------------------
(* Writers.                                                                 *)

TimePasses ==
    /\ now < MaxTime
    /\ now' = now + 1
    /\ UNCHANGED <<usage, aggregates, costs, rates, domains>>

\* The stored rows whose price no longer follows from what a snapshot tells.
Repriced(told) ==
    {Key(r) : r \in {r \in usage : \E n \in told :
                        Key(n) = Key(r) /\ PricingInputs(n) # PricingInputs(r)}}

\* What saveSnapshot leaves of the costs: those of rows whose price no longer follows
\* go, then a cost that is told replaces the one with its id, unless that one was
\* derived: only the derivation changes a derived cost.
CostsAfter(told, toldCosts) ==
    LET repriced == Repriced(told)
        kept  == {c \in costs : ~(/\ c.kind = "retail-equivalent"
                                  /\ <<c.provider, c.usage>> \in repriced)}
        fixed == Keys({c \in kept : c.kind = "retail-equivalent"})
        new   == Without({Persisted(c) : c \in toldCosts}, fixed)
    IN  Without(kept, Keys(new)) \cup new

\* grokBuildBillingDomains: beside a custom endpoint the subscription is told.
DomainsToldWith(r) ==
    {Domain(r)} \cup {d \in {<<"grok", "grok-build-subscription">>} :
                         r.provider = "grok" /\ r.domain # "xai-api"}

\* saveSnapshot, for a snapshot of one observation or one cost.  The sources that
\* are reconciled as a whole are in CodexDays and Retention.
SaveSnapshot(observations, toldCosts) ==
    LET told == {Normalized(o) : o \in observations}
    IN  /\ \A o \in observations : IsAcceptable(o) /\ o.at <= now
        /\ \A c \in toldCosts : c.at <= now
        /\ usage' = Without(usage, Keys(told)) \cup told
        /\ costs' = CostsAfter(told, toldCosts)
        /\ domains' = domains \cup UNION {DomainsToldWith(r) : r \in told \cup toldCosts}
        /\ Cardinality(usage') <= MaxRows
        /\ Cardinality(costs') <= MaxCosts
        /\ UNCHANGED <<now, aggregates, rates>>

\* saveDerivedCosts, for a row that is stored.
SaveDerivedCost(cost) ==
    /\ cost.kind = "retail-equivalent"
    /\ \E r \in usage :
          /\ <<cost.provider, cost.usage>> = Key(r)
          /\ cost.domain = r.domain /\ cost.model = r.model /\ cost.at = r.at
          /\ r.attributed
          /\ cost.priced = r.total - r.unclassified
    /\ costs' = Without(costs, {Key(cost)}) \cup {cost}
    /\ Cardinality(costs') <= MaxCosts
    /\ UNCHANGED <<now, usage, aggregates, rates, domains>>

SaveExchangeRateSnapshot(rate) ==
    /\ rate.at <= now
    /\ rates' = {r \in rates : r.id # rate.id} \cup {rate}
    /\ UNCHANGED <<now, usage, aggregates, costs, domains>>

\* additiveUsagePredicate: cumulative telemetry of old releases is no usage, and
\* the official total of a Codex day steps aside for its reconciled remainder.
IsAdditive(row) ==
    /\ row.additive
    /\ ~\E r \in usage : IsRemainderOf(r, row)

Additive == {r \in usage : IsAdditive(r)}

DayOf(at) == at \div DayLength

Old == {r \in usage : r.at < now - Term}

\* The row of daily_usage_aggregates that a row is added to.
AggregateKey(a) == <<a.provider, a.domain, a.day, a.model>>
AggregateOf(r) == <<r.provider, r.domain, DayOf(r.at), r.model>>

\* Faulty variant: the sums are over all of the old rows.
SummedOfOld(key) == {r \in Old : AggregateOf(r) = key}

SummedOf(key) == {r \in Old \cap Additive : AggregateOf(r) = key}

\* compactUsageHistory: additive rows older than the term move into one row per
\* day, domain and model, which replaces the one that was there; all of the old
\* rows go.  Their costs stay.
CompactUsageHistory ==
    LET sum(k) == [provider |-> k[1], domain |-> k[2], day |-> k[3], model |-> k[4],
                   total |-> RowTotal(SummedOf(k))]
        summed == {k \in {AggregateOf(r) : r \in Old} : SummedOf(k) # {}}
    IN  /\ Old # {}
        /\ usage' = usage \ Old
        /\ aggregates' = {a \in aggregates : AggregateKey(a) \notin summed}
                              \cup {sum(k) : k \in summed}
        /\ UNCHANGED <<now, costs, rates, domains>>

\* clearUsageData: what refers to a provider goes with it.
ClearUsageData ==
    /\ usage' = {}
    /\ aggregates' = {}
    /\ costs' = {}
    /\ rates' = {}
    /\ domains' = {}
    /\ UNCHANGED now

Next ==
    \/ TimePasses
    \/ \E o \in Observations : SaveSnapshot({o}, {})
    \/ \E c \in CostRecords : c.kind # "retail-equivalent" /\ SaveSnapshot({}, {c})
    \/ \E c \in CostRecords : SaveDerivedCost(c)
    \/ \E r \in RateSnapshots : SaveExchangeRateSnapshot(r)
    \/ CompactUsageHistory
    \/ ClearUsageData

Spec == Init /\ [][Next]_vars
=============================================================================
