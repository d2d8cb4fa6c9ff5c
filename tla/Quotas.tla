------------------------------- MODULE Quotas -------------------------------
(***************************************************************************)
(* The quota windows that the providers' clients report, as the repository *)
(* keeps them, and what is concluded from them: forecasts from samples of  *)
(* the last hours, the window that is most constrained, the agent that is  *)
(* recommended, and the timeline of windows that are to come.              *)
(*                                                                         *)
(* Each window belongs to one billing domain.  Every window here is reset  *)
(* at the multiples of Period; what it has used is known in percent.       *)
(*                                                                         *)
(* Bounds: time ends at LastTime; at most MaxAnswers snapshots are saved or  *)
(* times that data is cleared.                                             *)
(***************************************************************************)
EXTENDS Integers, Sequences, FiniteSets, FiniteSetsExt

CONSTANTS
    Windows, Domains,
    DomainOf,        \* the billing domain of a window
    Percents,        \* what a client may report, beyond 0 and 100 too
    Period,
    FreshFor,        \* 15 minutes
    Lookback,        \* 24 hours
    MaxGap,          \* 2 hours: the longest pause between two samples
    MinSpan,         \* half an hour: the least that a forecast rests on
    MinSamples,      \* 3
    LastTime, MaxAnswers

NotKnown == -1

ASSUME QuotasAssumption ==
    /\ DomainOf \in [Windows -> Domains]
    /\ Percents \subseteq Int
    /\ Period \in Nat \ {0}
    /\ {FreshFor, Lookback, MaxGap, MinSpan, MinSamples, LastTime, MaxAnswers} \subseteq Nat
    /\ MinSpan > 0 /\ FreshFor <= MaxGap

VARIABLES
    clock,
    windows,    \* quota_buckets: [id, used, resets, at]
    samples,    \* quota_observations: [id, used, resets, at]
    success,    \* last_success_at of each billing domain
    degraded,   \* the domains that a degraded diagnostic is about
    answers,    \* how often data was saved or cleared
    told        \* history: the ids that the last answer about a domain told

quotaVars == <<clock, windows, samples, success, degraded, answers, told>>

ClampPercent(p) == Max({0, Min({100, p})})
Used == {NotKnown} \cup {ClampPercent(p) : p \in Percents}
Times == 0..LastTime
NextReset == ((clock \div Period) + 1) * Period

Samples == [id : Windows, used : Used, resets : Nat, at : Times]

QuotasTypeOK ==
    /\ clock \in Times
    /\ windows \subseteq Samples /\ samples \subseteq Samples
    /\ \A s \in samples : s.used # NotKnown
    /\ success \in [Domains -> Times \cup {NotKnown}]
    /\ degraded \subseteq Domains
    /\ answers \in 0..MaxAnswers
    /\ told \in [Domains -> SUBSET Windows]

QuotasInit ==
    /\ clock = 0
    /\ windows = {}
    /\ samples = {}
    /\ success = [d \in Domains |-> NotKnown]
    /\ degraded = {}
    /\ answers = 0
    /\ told = [d \in Domains |-> {}]
-----------------------------------------------------------------------------
(* Writers.                                                                 *)

ClockTicks ==
    /\ clock < LastTime
    /\ clock' = clock + 1
    /\ UNCHANGED <<windows, samples, success, degraded, answers, told>>

\* Faulty variant: a window that an answer does not tell any more stays.
StaysForGood(w, d, ids) == w.id \notin ids

\* A window that an answer about its domain does not touch.
Stays(w, d, ids) == DomainOf[w.id] # d

\* saveSnapshot with quotas of domain d: used is a function of the windows that
\* are told.  The domain is complete, so that they replace the ones it had.
SaveQuotas(d, used) ==
    LET ids == DOMAIN used
        new == {[id |-> w, used |-> used[w], resets |-> NextReset, at |-> clock] : w \in ids}
    IN  /\ answers < MaxAnswers
        /\ windows' = {w \in windows : Stays(w, d, ids)} \cup new
        /\ samples' = {s \in samples : ~(s.id \in ids /\ s.at = clock /\ used[s.id] # NotKnown)}
                          \cup {w \in new : w.used # NotKnown}
        /\ success' = [success EXCEPT ![d] = clock]
        /\ degraded' = degraded \ {d}
        /\ answers' = answers + 1
        /\ told' = [told EXCEPT ![d] = ids]
        /\ UNCHANGED clock

\* saveSnapshot with warnings and without quotas: the domain has been reached, its
\* windows stay what they were, and the diagnostic tells what is missing.
SaveWithoutQuotas(d) ==
    /\ answers < MaxAnswers
    /\ success' = [success EXCEPT ![d] = clock]
    /\ degraded' = degraded \cup {d}
    /\ answers' = answers + 1
    /\ UNCHANGED <<clock, windows, samples, told>>

\* recordFailure and the diagnostic of a connector that did not answer.
RecordFailure(d) ==
    /\ d \notin degraded
    /\ degraded' = degraded \cup {d}
    /\ UNCHANGED <<clock, windows, samples, success, answers, told>>

\* clearUsageData: the windows go with their providers.
ClearQuotas ==
    /\ answers < MaxAnswers
    /\ windows' = {}
    /\ samples' = {}
    /\ success' = [d \in Domains |-> NotKnown]
    /\ degraded' = {}
    /\ answers' = answers + 1
    /\ told' = [d \in Domains |-> {}]
    /\ UNCHANGED clock

UsedByWindow(d) ==
    UNION {[W -> {ClampPercent(p) : p \in Percents} \cup {NotKnown}] :
              W \in SUBSET {w \in Windows : DomainOf[w] = d}}
-----------------------------------------------------------------------------
(* Forecasts.                                                               *)

Recent(w) == {s \in samples : s.id = w /\ clock - Lookback <= s.at /\ s.at <= clock}

Latest(ss) == CHOOSE s \in ss : \A t \in ss : s.at >= t.at
Earliest(ss) == CHOOSE s \in ss : \A t \in ss : s.at <= t.at

\* The sample before s.
Before(s, ss) == Latest({t \in ss : t.at < s.at})

\* Faulty variant: the samples from before a fall are used as well.
StretchOfAll(ss) == ss

\* The samples since usage has last fallen, which is the only sign of a reset that is
\* looked at: the resets that the samples tell are not compared.
Stretch(ss) ==
    LET falls == {s \in ss : {t \in ss : t.at < s.at} # {} /\ s.used < Before(s, ss).used}
    IN  IF falls = {} THEN ss ELSE {s \in ss : s.at >= Latest(falls).at}

IsContinuous(ss) ==
    \A s \in ss : s = Earliest(ss) \/ s.at - Before(s, ss).at <= MaxGap

IsCurrent(w) == Recent(w) # {} /\ clock - Latest(Recent(w)).at <= FreshFor

\* The used percent per unit of time, as a quotient.
Burned(w) == Latest(Stretch(Recent(w))).used - Earliest(Stretch(Recent(w))).used
Span(w) == Latest(Stretch(Recent(w))).at - Earliest(Stretch(Recent(w))).at

IsForecast(w) ==
    /\ IsCurrent(w)
    /\ Cardinality(Stretch(Recent(w))) >= MinSamples
    /\ IsContinuous(Stretch(Recent(w)))
    /\ Span(w) >= MinSpan
    /\ Burned(w) > 0
    /\ Latest(Recent(w)).resets > clock

\* Predicted: clock + what remains / (burned / span); it lasts when that is not
\* before the reset.
LastsUntilReset(w) ==
    LET last == Latest(Recent(w))
    IN  (100 - last.used) * Span(w) >= (last.resets - clock) * Burned(w)

\* coverageByDomain
Coverage(d) ==
    LET of     == {w \in Windows : DomainOf[w] = d /\ Recent(w) # {}}
        paused == {w \in of : /\ IsCurrent(w)
                              /\ Cardinality(Stretch(Recent(w))) >= MinSamples
                              /\ ~IsContinuous(Stretch(Recent(w)))}
    IN  IF \E w \in of : IsForecast(w) THEN "complete"
        ELSE IF paused # {} THEN "discontinuous"
        ELSE IF \E w \in of : ~IsCurrent(w) THEN "stale" ELSE "insufficient"
-----------------------------------------------------------------------------
(* buildRiskSummary.                                                        *)

KnownWindows(d) == {w \in windows : DomainOf[w.id] = d /\ w.used # NotKnown}
Remaining(w) == Max({0, 100 - w.used})

Forecasts(d) == {w \in Windows : DomainOf[w] = d /\ IsForecast(w)}
Fails(d) == \E w \in Forecasts(d) : ~LastsUntilReset(w)
Lasts(d) == Forecasts(d) # {} /\ \A w \in Forecasts(d) : LastsUntilReset(w)

IsFresh(d) == success[d] # NotKnown /\ clock - success[d] <= FreshFor

Candidates == {d \in Domains : IsFresh(d) /\ d \notin degraded /\ KnownWindows(d) # {}}

Capacity(d) == Min({Remaining(w) : w \in KnownWindows(d)})

Score(d) ==
    Capacity(d) + (IF Lasts(d) THEN 20 ELSE 0) - (IF Fails(d) THEN 100 ELSE 0)
        - (IF Coverage(d) = "discontinuous" THEN 40 ELSE 0)

Recommended == {d \in Candidates : \A e \in Candidates : Score(d) >= Score(e)}
-----------------------------------------------------------------------------
(* The timeline: quota windows before and after the one that was observed.  *)

\* projectLane: the ends of the windows of a lane that reach into a range.
Ends(w, first, last) ==
    {e \in (first - Period)..(last + Period) :
        (e - w.resets) % Period = 0 /\ e > first /\ e - Period < last}

\* Faulty variant: the usage that was observed is shown on every window.
ObservedAlways(w, end) == TRUE

\* Usage is shown on the window it was observed in, and only while that lasts.
Observed(w, end) == end = w.resets /\ end > clock /\ end - Period <= clock

Projected(w, first, last) ==
    {[ from |-> Max({e - Period, first}), to |-> Min({e, last}),
       state |-> IF e <= clock THEN "elapsed"
                 ELSE IF e - Period <= clock THEN "current" ELSE "upcoming",
       used |-> IF Observed(w, e) THEN w.used ELSE NotKnown ] : e \in Ends(w, first, last)}
-----------------------------------------------------------------------------
(* Properties.                                                              *)

\* A window is shown exactly as long as the last answer about its domain told it:
\* one that is no longer reported is retired, and an answer without quotas, a
\* failure and an answer about another domain leave the last ones in place
\* (tests/integration/quota-bucket-lifecycle.test.ts).
WindowsAreOfTheLastAnswer ==
    \A d \in Domains : {w.id : w \in {w \in windows : DomainOf[w.id] = d}} = told[d]

\* A reset between two samples shows as a fall of usage.
ResetsShow(ss) ==
    \A s \in ss \ {Earliest(ss)} : s.resets # Before(s, ss).resets => s.used < Before(s, ss).used

\* A forecast rests on one rise: no sample of it is older than a fall of usage, no more
\* than MaxGap passed without a sample, and its samples are of one window where every
\* reset shows as a fall.  Where usage is higher after a reset than before it, samples
\* of two windows are taken for one (getQuotaForecasts does not compare resets_at).
ForecastsRestOnOneRise ==
    \A w \in Windows : IsForecast(w) =>
        LET basis == Stretch(Recent(w))
        IN  /\ \A s, t \in basis : s.at <= t.at => s.used <= t.used
            /\ \A t \in Earliest(basis).at..(clock - MaxGap - 1) :
                  \E s \in basis : t < s.at /\ s.at <= t + MaxGap
            /\ ResetsShow(Recent(w)) => \A s, t \in basis : s.resets = t.resets

\* The windows of a lane follow one another without a gap or an overlap, and usage
\* is shown on the current one alone and never after it was reset.
TimelineIsSeamless ==
    \A w \in windows :
        LET shown == Projected(w, clock - 1, clock + Period + 1)
        IN  /\ \A t \in (clock - 1)..(clock + Period) :
                  Cardinality({p \in shown : p.from <= t /\ t < p.to}) = 1
            /\ \A p \in shown : p.used # NotKnown => p.state = "current"
            /\ (\E p \in shown : p.used # NotKnown) => clock < w.resets
=============================================================================
