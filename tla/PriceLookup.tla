------------------------------ MODULE PriceLookup ------------------------------
(****************************************************************************)
(* What one observation would have cost: which entry of the catalog prices  *)
(* it, by which rates, and when no price is told.  The catalog is the       *)
(* official one with the rates that a person has set before it.             *)
(*                                                                          *)
(* One model stands for each form that official entries have: one price     *)
(* with two write rates (Claude), two tiers of the prompt (Codex), two      *)
(* tiers of the day (DeepSeek, by the log of dsh), and the copy that the    *)
(* history of OpenCode is priced by.  Rates are small integers, times the   *)
(* ordinals of dates, and rounding is left out.                             *)
(*                                                                          *)
(* A rate is set for a model of a provider, in one billing domain or in all *)
(* (null; the "*" that the API accepts beside it is left out).              *)
(*                                                                          *)
(* Bounds: MaxRateChanges changes of the table, one observation priced      *)
(* between two of them, PromptLimit (272000) tokens between the two tiers.  *)
(****************************************************************************)
EXTENDS Sequences, TokenCounts

CONSTANTS RateIds, MaxRateChanges, PromptLimit

ASSUME LookupAssumption == {MaxRateChanges, PromptLimit} \subseteq Nat

VARIABLES
    rates,         \* custom_model_rates: its rows
    decision,      \* of the observation that was priced last
    rateChanges,
    \* History.
    asked          \* the rate that a person wants for a model in a domain, or NoRate

lookupVars == <<rates, decision, rateChanges, asked>>

Always == [kind |-> "fixed", above |-> Unknown, upTo |-> Unknown, inside |-> FALSE]
PromptUpTo(n) == [Always EXCEPT !.kind = "prompt-tokens", !.upTo = n]
PromptAbove(n) == [Always EXCEPT !.kind = "prompt-tokens", !.above = n]
Peak(inside) == [Always EXCEPT !.kind = "utc-schedule", !.inside = inside]

\* The rates of the categories, in the order input, output, reasoning, read, write.
PerMillion(i, o, r, cr, cw) ==
    [c \in Categories |-> CASE c = "input" -> i [] c = "output" -> o [] c = "reasoning" -> r
                            [] c = "cacheRead" -> cr [] OTHER -> cw]

NoTiers == [fiveMinute |-> Unknown, oneHour |-> Unknown]
-----------------------------------------------------------------------------
(* The official catalog.                                                    *)

ClaudeEntry(model, from, input, output, cacheRead) ==
    [ id |-> "claude", provider |-> "claude-code", domain |-> "subscription",
      models |-> {model}, from |-> from, until |-> Unknown, custom |-> FALSE,
      rule |-> Always, rates |-> PerMillion(input, output, Unknown, cacheRead, Unknown),
      writes |-> [fiveMinute |-> (input * 5) \div 4, oneHour |-> input * 2] ]

\* The longer prompts of a period cost more.
CodexEntry(models, p, long) ==
    LET input  == IF long THEN p.input * 2 ELSE p.input
        output == IF long THEN (p.output * 3) \div 2 ELSE p.output
    IN  [ id |-> IF long THEN "codex-long" ELSE "codex", provider |-> "codex",
          domain |-> "subscription", models |-> models, from |-> p.from, until |-> p.until,
          custom |-> FALSE, writes |-> NoTiers,
          rule |-> IF long THEN PromptAbove(PromptLimit) ELSE PromptUpTo(PromptLimit),
          rates |-> PerMillion(input, output, output, input \div 10, (input * 5) \div 4) ]

CodexPeriods ==
    { [from |-> 1, until |-> 2, input |-> 80, output |-> 100],
      [from |-> 2, until |-> Unknown, input |-> 40, output |-> 60] }

\* Each of the two sides of the schedule, at twice the price inside of it.
DshEntry(model, inside, input, output, cacheRead) ==
    LET factor == IF inside THEN 2 ELSE 1
    IN  [ id |-> IF inside THEN "dsh-peak" ELSE "dsh", provider |-> "dsh",
          domain |-> "deepseek-official", models |-> {model}, from |-> 1, until |-> Unknown,
          custom |-> FALSE, writes |-> NoTiers, rule |-> Peak(inside),
          rates |-> PerMillion(input * factor, output * factor, output * factor,
                               cacheRead * factor, Unknown) ]

DirectCatalog ==
    {CodexEntry({"gpt", "gpt-alias"}, p, long) : p \in CodexPeriods, long \in BOOLEAN}
    \cup {ClaudeEntry("opus", 1, 40, 100, 4)}
    \cup {DshEntry("deepseek", inside, 10, 20, 1) : inside \in BOOLEAN}

\* The models of the history of OpenCode are official ones by a longer name.
LocalName(model) ==
    CASE model = "opus" -> "anthropic/opus"
      [] model = "gpt"  -> "openai/gpt"
      [] OTHER          -> "openai/gpt-alias"

LocalEntry(e) ==
    [e EXCEPT !.id = "opencode-local-" \o @, !.provider = "opencode",
              !.domain = "local-history", !.models = {LocalName(m) : m \in @}]

LocalHistoryEntries(entries) ==
    {LocalEntry(e) : e \in {e \in entries : e.provider \in {"claude-code", "codex"}}}

OfficialCatalog == DirectCatalog \cup LocalHistoryEntries(DirectCatalog)
-----------------------------------------------------------------------------
(* The rates that a person has set.                                         *)

\* A person sets rates for a model of dsh, for one route or for all of them.
RateKeys ==
    {[provider |-> "dsh", domain |-> d, model |-> "deepseek"] : d \in {None, "proxy"}}
NoRate == 0

CustomEntry(row) ==
    [ id |-> row.id, provider |-> row.key.provider,
      domain |-> IF row.key.domain = None THEN "*" ELSE row.key.domain,
      models |-> {row.key.model}, from |-> 0, until |-> Unknown, custom |-> TRUE,
      rule |-> Always, writes |-> NoTiers,
      rates |-> PerMillion(row.rate, row.rate + 1, row.rate + 1, 1, Unknown) ]

\* mergeCatalogWithCustomRates.
MergedCatalog == OfficialCatalog \cup {CustomEntry(row) : row \in rates}

\* Faulty variant: the row of the same model is kept beside the edited one.
StoredRateBeside(id, key, rate) ==
    LET byId  == {row \in rates : row.id = id}
        byKey == {row \in rates : row.key = key}
        at    == IF byKey # {} THEN (CHOOSE row \in byKey : TRUE).id ELSE id
    IN  (rates \ (byId \cup byKey)) \cup (byId \ {row \in byId : row.id = at})
            \cup {[id |-> at, key |-> key, rate |-> rate]}

\* saveCustomModelRate: a row is found by its id, else by what it is for, and no
\* other row for that is left.
StoredRate(id, key, rate) ==
    LET byId  == {row \in rates : row.id = id}
        byKey == {row \in rates : row.key = key}
        at    == IF byId = {} /\ byKey # {} THEN (CHOOSE row \in byKey : TRUE).id ELSE id
    IN  (rates \ (byId \cup byKey)) \cup {[id |-> at, key |-> key, rate |-> rate]}

NoDecision == [status |-> "none", reason |-> None]

\* setCustomModelRate of a new id, of a row that is edited, or of one that another
\* page has deleted since.
SetRate(id, key) ==
    /\ rateChanges < MaxRateChanges
    /\ rateChanges' = rateChanges + 1
    /\ rates' = StoredRate(id, key, rateChanges + 1)
    /\ asked' = [k \in RateKeys |->
                    IF k = key THEN rateChanges + 1
                    ELSE IF \E row \in rates : row.id = id /\ row.key = k THEN NoRate
                    ELSE asked[k]]
    /\ decision' = NoDecision

DeleteRate(id) ==
    /\ rateChanges < MaxRateChanges
    /\ \E row \in rates :
          /\ row.id = id
          /\ rates' = rates \ {row}
          /\ asked' = [asked EXCEPT ![row.key] = NoRate]
    /\ rateChanges' = rateChanges + 1
    /\ decision' = NoDecision
-----------------------------------------------------------------------------
(* The entry of an observation.                                             *)

Candidates(o) ==
    {e \in MergedCatalog : /\ e.provider = o.provider
                           /\ o.model \in e.models
                           /\ e.domain \in {o.domain, "*"}}

\* A rate for the domain, else one for every domain, else the official entries.
Selected(o) ==
    LET exact == {e \in Candidates(o) : e.custom /\ e.domain = o.domain}
        wide  == {e \in Candidates(o) : e.custom /\ e.domain = "*"}
    IN  IF exact # {} THEN exact
        ELSE IF wide # {} THEN wide
        ELSE {e \in Candidates(o) : ~e.custom /\ e.domain = o.domain}

InForce(e, at) == at >= e.from /\ (e.until = Unknown \/ at < e.until)

PeakRanges == {<<1, 4>>, <<6, 10>>}

InPeak(o) ==
    /\ o.weekday \in 1..5
    /\ \E range \in PeakRanges : o.hour >= range[1] /\ o.hour < range[2]

Prompt(o) == o.tokens["input"] + o.tokens["cacheRead"]

\* What the rule of an entry needs to be decided, beside the tokens.
TierIsTold(rule, o) ==
    CASE rule.kind = "fixed"         -> TRUE
      [] rule.kind = "prompt-tokens" -> o.precision = "event" /\ o.temporality = "delta"
      [] OTHER                       -> o.precision = "event"

IsOfTier(rule, o) ==
    CASE rule.kind = "fixed"         -> TRUE
      [] rule.kind = "prompt-tokens" -> /\ rule.above # Unknown => Prompt(o) > rule.above
                                        /\ rule.upTo # Unknown => Prompt(o) <= rule.upTo
      [] OTHER                       -> rule.inside = InPeak(o)
-----------------------------------------------------------------------------
(* The price.                                                               *)

Item(category, tokens, rate) == [category |-> category, tokens |-> tokens, rate |-> rate]

\* The tokens of a category that are not contained in another one.
Billable(o, c) == IF c \in {"input", "output"} \cup o.separate THEN o.tokens[c] ELSE 0

WritesByTier(o, e) ==
    Billable(o, "cacheWrite") > 0 /\ o.oneHour # Unknown /\ e.writes # NoTiers

\* No rate and no tiers: the provider does not bill the writes.
WritesAreFree(o, e) ==
    /\ Billable(o, "cacheWrite") > 0
    /\ ~WritesByTier(o, e)
    /\ e.rates["cacheWrite"] = Unknown
    /\ e.writes = NoTiers

AtARate(o, e) ==
    {c \in Categories : Billable(o, c) > 0
                        /\ (c = "cacheWrite" => ~WritesByTier(o, e) /\ ~WritesAreFree(o, e))}

LineItems(o, e) ==
    {Item(c, o.tokens[c], e.rates[c]) : c \in AtARate(o, e)}
    \cup (IF WritesByTier(o, e)
          THEN {item \in { Item("5m", o.fiveMinute, e.writes.fiveMinute),
                           Item("1h", o.oneHour, e.writes.oneHour) } : item.tokens > 0}
          ELSE {})
    \cup (IF WritesAreFree(o, e) THEN {Item("cacheWrite", o.tokens["cacheWrite"], 0)} ELSE {})

ItemTokens(items) == SumFunction([i \in items |-> i.tokens])
Amount(items) == SumFunction([i \in items |-> i.tokens * i.rate])

Unavailable(o, reason) == [status |-> "unavailable", of |-> o, reason |-> reason]

\* priceObservation behind the choice of the entry.
PricedBy(o, e) ==
    LET items == LineItems(o, e)
    IN  IF \E c \in AtARate(o, e) : e.rates[c] = Unknown
        THEN Unavailable(o, IF o.tokens["cacheWrite"] > 0 /\ ~WritesAreFree(o, e)
                            THEN "pricing-tier-ambiguous" ELSE "token-kinds-incomplete")
        ELSE IF ItemTokens(items) # Recorded(o)
        THEN Unavailable(o, "token-kinds-incomplete")
        ELSE [ status |-> "priced", of |-> o, reason |-> None, entry |-> e, items |-> items,
               amount |-> Amount(items) ]

PriceOf(o) ==
    LET selected == Selected(o)
        inForce  == {e \in selected : InForce(e, o.at)}
        active   == {e \in inForce : IsOfTier(e.rule, o)}
    IN  IF ~IsAttributed(o) THEN Unavailable(o, "model-unclassified")
        ELSE IF selected = {} THEN Unavailable(o, "model-unrecognized")
        ELSE IF inForce = {} THEN Unavailable(o, "price-not-effective")
        ELSE IF (\E e \in inForce : ~TierIsTold(e.rule, o)) \/ Cardinality(active) # 1
             THEN Unavailable(o, "pricing-tier-ambiguous")
        ELSE IF Unclassified(o) > 0 THEN Unavailable(o, "token-kinds-incomplete")
        ELSE PricedBy(o, CHOOSE e \in active : TRUE)

\* deriveRetailEquivalentCosts of one observation.
Derive(o) ==
    /\ decision = NoDecision
    /\ decision' = PriceOf(o)
    /\ UNCHANGED <<rates, rateChanges, asked>>
-----------------------------------------------------------------------------
(* Usage, in the forms that the sources tell it.                            *)

Form(i, o, r, cr, cw, separate, five, reported) ==
    [ tokens |-> PerMillion(i, o, r, cr, cw), separate |-> separate, reported |-> reported,
      fiveMinute |-> five, oneHour |-> IF five = Unknown THEN Unknown ELSE cw - five,
      remainder |-> Unknown ]

Cache == {"cacheRead", "cacheWrite"}

\* At the limit of the prompt and above it; thinking apart and contained; writes
\* of unknown, of mixed and of short life; a total that says more; reads contained.
TokenForms ==
    { Form(PromptLimit, 1, 0, 0, 0, Cache, Unknown, Unknown),
      Form(PromptLimit, 1, 0, 1, 0, Cache, Unknown, Unknown),
      Form(1, 1, 1, 0, 0, Cache \cup {"reasoning"}, Unknown, Unknown),
      Form(1, 2, 1, 0, 0, Cache, Unknown, Unknown),
      Form(1, 1, 0, 0, 2, Cache, Unknown, Unknown),
      Form(1, 1, 0, 0, 2, Cache, 1, Unknown),
      Form(1, 1, 0, 0, 2, Cache, 2, Unknown),
      Form(1, 1, 0, 0, 0, Cache, Unknown, 3),
      Form(2, 1, 0, 1, 0, {}, Unknown, Unknown) }

Told(provider, domain, model, at, weekday, hour, precision, temporality, form) ==
    [ provider |-> provider, domain |-> domain, model |-> model, attributed |-> TRUE,
      at |-> at, weekday |-> weekday, hour |-> hour, precision |-> precision,
      temporality |-> temporality, tokens |-> form.tokens, separate |-> form.separate,
      reported |-> form.reported, fiveMinute |-> form.fiveMinute, oneHour |-> form.oneHour,
      remainder |-> form.remainder ]

PricedUsage ==
    { Told(s[1], s[2], s[3], at, 5, 3, e[1], e[2], form) :
        s \in { <<"codex", "subscription", "gpt-alias">>, <<"claude-code", "subscription", "opus">>,
                <<"opencode", "local-history", "openai/gpt">> },
        at \in 0..2, form \in TokenForms,
        e \in {<<"event", "delta">>, <<"event", "cumulative">>, <<"day", "delta">>} }
    \cup
    { Told("dsh", s[1], s[2], 1, time[1], time[2], precision, "delta", form) :
        s \in {<<"deepseek-official", "deepseek">>, <<"proxy", "deepseek">>, <<"proxy", "unknown">>},
        time \in {<<5, 3>>, <<5, 4>>, <<6, 3>>}, form \in TokenForms,
        precision \in {"event", "day"} }

LookupInit ==
    /\ rates = {}
    /\ decision = NoDecision
    /\ rateChanges = 0
    /\ asked = [k \in RateKeys |-> NoRate]

LookupNext ==
    \/ \E id \in RateIds, key \in RateKeys : SetRate(id, key)
    \/ \E id \in RateIds : DeleteRate(id)
    \/ \E o \in PricedUsage : Derive(o)

LookupSpec == LookupInit /\ [][LookupNext]_lookupVars

LookupTypeOK ==
    /\ rates \subseteq [id : RateIds, key : RateKeys, rate : 1..MaxRateChanges]
    /\ decision.status \in {"none", "priced", "unavailable"}
    /\ rateChanges \in 0..MaxRateChanges
    /\ asked \in [RateKeys -> 0..MaxRateChanges]
-----------------------------------------------------------------------------
(* Properties.                                                              *)

Wanted(o) ==
    LET own == {k \in RateKeys : /\ k.provider = o.provider /\ k.model = o.model
                                 /\ k.domain = o.domain /\ asked[k] # NoRate}
        any == {k \in RateKeys : /\ k.provider = o.provider /\ k.model = o.model
                                 /\ k.domain = None /\ asked[k] # NoRate}
    IN  IF own # {} THEN asked[CHOOSE k \in own : TRUE]
        ELSE IF any # {} THEN asked[CHOOSE k \in any : TRUE]
        ELSE NoRate

\* Usage costs what the person asked for last, whatever rates were set, moved to
\* another domain, set again after they were deleted, or deleted before: usage with
\* a rate always has a price, and without one only an official entry gives it.  A
\* price covers every recorded token once, and usage of a known time is refused as
\* ambiguous only for cache writes of unknown life
\* (retail-pricing.ts:1015, 1035, 1119; sqlite-usage-repository.ts:1474).
UsageHasItsOnePrice ==
    decision.status # "none" =>
        LET o == decision.of
        IN  /\ Wanted(o) # NoRate /\ IsAttributed(o) /\ Unclassified(o) = 0 =>
                  /\ decision.status = "priced"
                  /\ decision.entry.custom /\ decision.entry.rates["input"] = Wanted(o)
            /\ decision.status = "priced" =>
                  /\ decision.entry.custom <=> Wanted(o) # NoRate
                  /\ ItemTokens(decision.items) = Recorded(o)
                  /\ \A c \in Categories \ {"cacheWrite"} :
                        ItemTokens({i \in decision.items : i.category = c})
                            = Billable(o, c)
            /\ decision.reason = "pricing-tier-ambiguous" =>
                  \/ o.precision # "event" \/ o.temporality # "delta"
                  \/ o.tokens["cacheWrite"] > 0 /\ o.oneHour = Unknown
=============================================================================
