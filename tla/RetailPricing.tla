----------------------------- MODULE RetailPricing -----------------------------
(***************************************************************************)
(* What usage would have cost at list price: the derived rows of           *)
(* cost_records, the rates a person has set over the official catalog, and *)
(* the backfills that bring the rows up to date with the catalog.          *)
(*                                                                         *)
(* One catalog entry at most prices an observation: the person's rate if   *)
(* it covers it, else the official entry.  A price is the entry and its    *)
(* amount: a revision of the rate, or Official.                            *)
(*                                                                         *)
(* Backfills: the one of a processing run, inside the write queue, and one *)
(* for each call that changes a rate, outside of it.  All are callbacks of *)
(* one thread that interleave at their awaits (the worker that deletes,    *)
(* the yield after a page).  While a worker writes, every other write can  *)
(* find the database busy and throw.  The start of the daemon starts a     *)
(* run; a person may start others, and nobody else does: the scheduler     *)
(* only collects.                                                          *)
(*                                                                         *)
(* Bounds: MaxRevision changes of the rate, MaxRebuilds rebuilds by hand,  *)
(* MaxRestarts restarts of the daemon.                                     *)
(***************************************************************************)
EXTENDS Integers, FiniteSets

CONSTANTS
    LastObservation,      \* observations are numbered in the order of the pages
    PageSize,             \* 250
    RateCovers,           \* the observations of the model that the rate is for
    OfficialCovers,       \* release of the catalog |-> the observations it prices
    Edits,                \* calls that change the rate
    MaxRevision,
    MaxRebuilds,
    MaxRestarts

Observations == 1..LastObservation
Releases == {1, 2}

ASSUME ObservationsAssumption == LastObservation \in Nat
ASSUME PageAssumption == PageSize \in Nat \ {0}
ASSUME BoundsAssumption ==
    /\ MaxRevision \in Nat
    /\ MaxRebuilds \in Nat
    /\ MaxRestarts \in Nat

\* A later release of the catalog only adds entries.
ASSUME ReleaseAssumption ==
    /\ OfficialCovers \in [Releases -> SUBSET Observations]
    /\ OfficialCovers[1] \subseteq OfficialCovers[2]

ASSUME EditsAssumption == "run" \notin Edits

VARIABLES
    release,       \* of the official catalog
    rate,          \* custom_model_rates: its revision, or 0
    stored,        \* usage_observations
    compacted,     \* the ones compactUsageHistory has moved to the aggregates
    costs,         \* the derived rows of cost_records
    marker,        \* retail-pricing-catalog-version
    backfill,      \* for the run and each edit: where its backfill is
    cursor,        \* and the last observation of its last page
    due,           \* an incremental run is to come to its pricing module
    revisions, rebuilds, restarts,
    \* History.
    owed,          \* the rate was changed since costs were last deleted
    failed,        \* a backfill has failed, and no run has been started since
    overlapped     \* a backfill was started while another one was in flight

system == <<release, rate, stored, compacted, costs, marker, backfill, cursor, due>>
bounds == <<revisions, rebuilds, restarts>>
pricingVars == <<system, bounds, owed, failed, overlapped>>

Backfills == Edits \cup {"run"}
Official == 0
Prices == 0..MaxRevision
Versions == [release : Releases, rate : 0..MaxRevision]

\* What the marker is before the first backfill, and while prices are rebuilt.
Unfinished == [release |-> 0, rate |-> 0]

Phases == {"idle", "deleting", "paging"}

PricingTypeOK ==
    /\ release \in Releases
    /\ rate \in 0..MaxRevision
    /\ stored \subseteq Observations
    /\ compacted \subseteq Observations
    /\ costs \subseteq [of : Observations, price : Prices]
    /\ marker \in Versions \cup {Unfinished}
    /\ backfill \in [Backfills -> Phases]
    /\ cursor \in [Backfills -> 0..LastObservation]
    /\ due \in BOOLEAN
    /\ revisions \in 0..MaxRevision
    /\ rebuilds \in 0..MaxRebuilds
    /\ restarts \in 0..MaxRestarts
    /\ owed \in BOOLEAN
    /\ failed \in BOOLEAN
    /\ overlapped \in BOOLEAN

PricingInit ==
    /\ release = 1
    /\ rate = 0
    /\ stored = {}
    /\ compacted = {}
    /\ costs = {}
    /\ marker \in {Unfinished, [release |-> release, rate |-> rate]}
    /\ backfill = [b \in Backfills |-> "idle"]
    /\ cursor = [b \in Backfills |-> 0]
    /\ due = TRUE
    /\ revisions = 0
    /\ rebuilds = 0
    /\ restarts = 0
    /\ owed = FALSE
    /\ failed = FALSE
    /\ overlapped = FALSE
-----------------------------------------------------------------------------
(* Prices.                                                                  *)

\* mergeCatalogWithCustomRates: the version tells the release and the rates.
Version == [release |-> release, rate |-> rate]

Priceable(o) == (rate # 0 /\ o \in RateCovers) \/ o \in OfficialCovers[release]

Price(o) == IF rate # 0 /\ o \in RateCovers THEN rate ELSE Official

Derived(observations) ==
    {[of |-> o, price |-> Price(o)] : o \in {o \in observations : Priceable(o)}}

Unpriced == {o \in stored : \A c \in costs : c.of # o}

\* The next observations behind a cursor that lack a price.
BackfillPage(from) ==
    LET rest == {o \in Unpriced : o > from}
    IN  {o \in rest : Cardinality({p \in rest : p < o}) < PageSize}

PageEnd(page) == CHOOSE o \in page : \A p \in page : p <= o
-----------------------------------------------------------------------------
(* The backfill.                                                            *)

Idle == \A b \in Backfills : backfill[b] = "idle"
WorkerWrites == \E b \in Backfills : backfill[b] = "deleting"

\* Nobody else is inside the write queue while a run's backfill is.
QueueIsFree == backfill["run"] = "idle"

\* Faulty variant: the marker stays what it was until the end.
BeginRebuildUnmarked(b) ==
    /\ UNCHANGED marker
    /\ backfill' = [backfill EXCEPT ![b] = "deleting"]
    /\ cursor' = [cursor EXCEPT ![b] = 0]
    /\ overlapped' = (overlapped \/ ~Idle)

\* backfillRetailCosts('hard-rebuild') up to the await of the worker.
BeginRebuild(b) ==
    /\ marker' = Unfinished
    /\ backfill' = [backfill EXCEPT ![b] = "deleting"]
    /\ cursor' = [cursor EXCEPT ![b] = 0]
    /\ overlapped' = (overlapped \/ ~Idle)

\* Faulty variant: only costs of the official catalog are deleted.
WorkerCommitsOfficial(b) ==
    /\ backfill[b] = "deleting"
    /\ backfill' = [backfill EXCEPT ![b] = "paging"]
    /\ costs' = {c \in costs : c.of \notin stored \/ c.price # Official}
    /\ owed' = FALSE
    /\ UNCHANGED <<release, rate, stored, compacted, marker, cursor, due, bounds, failed, overlapped>>

\* The worker has deleted the derived costs of the observations that there are.
WorkerCommits(b) ==
    /\ backfill[b] = "deleting"
    /\ backfill' = [backfill EXCEPT ![b] = "paging"]
    /\ costs' = {c \in costs : c.of \notin stored}
    /\ owed' = FALSE
    /\ UNCHANGED <<release, rate, stored, compacted, marker, cursor, due, bounds, failed, overlapped>>

\* It has failed, or has given up waiting for the database: the backfill ends.
WorkerFails(b) ==
    /\ backfill[b] = "deleting"
    /\ backfill' = [backfill EXCEPT ![b] = "idle"]
    /\ failed' = ~due
    /\ UNCHANGED <<release, rate, stored, compacted, costs, marker, cursor, due, bounds, owed, overlapped>>

\* Faulty variant: a run prices nothing unless prices are being rebuilt.
PageIsDueIfRebuilding(b) ==
    \/ backfill[b] = "paging"
    \/ b = "run" /\ due /\ QueueIsFree /\ marker = Unfinished

\* The loop of a backfill goes on, or an incremental run comes to its pricing
\* module and begins one: with no await before its first page, and unless the
\* marker is the current version.
PageIsDue(b) ==
    \/ backfill[b] = "paging"
    \/ b = "run" /\ due /\ QueueIsFree /\ marker # Version

NextPage(b) == BackfillPage(IF backfill[b] = "paging" THEN cursor[b] ELSE 0)

\* A full page is followed by another one after a yield; after any other the
\* marker is set to the version of the catalog that is current by now.
SavePage(b) ==
    LET page == NextPage(b)
        full == Cardinality(page) = PageSize
    IN  /\ PageIsDue(b)
        /\ costs' = costs \cup Derived(page)
        /\ backfill' = [backfill EXCEPT ![b] = IF full THEN "paging" ELSE "idle"]
        /\ cursor' = [cursor EXCEPT ![b] = IF full THEN PageEnd(page) ELSE 0]
        /\ marker' = IF full THEN marker ELSE Version
        /\ due' = (due /\ backfill[b] # "idle")
        /\ overlapped' = (overlapped \/ (backfill[b] = "idle" /\ ~Idle))
        /\ UNCHANGED <<release, rate, stored, compacted, bounds, owed, failed>>

\* The write of some costs or of the marker finds the database busy with a worker
\* that deletes costs, or with one that compacts: the backfill ends.  The costs
\* of a page are saved in a transaction for each provider.
SavePageFails(b) ==
    /\ WorkerWrites \/ (b # "run" /\ QueueIsFree)
    /\ PageIsDue(b)
    /\ backfill' = [backfill EXCEPT ![b] = "idle"]
    /\ due' = (due /\ backfill[b] # "idle")
    /\ failed' = ~due'
    /\ \E saved \in SUBSET NextPage(b) : costs' = costs \cup Derived(saved)
    /\ overlapped' = (overlapped \/ (backfill[b] = "idle" /\ ~Idle))
    /\ UNCHANGED <<release, rate, stored, compacted, marker, cursor, bounds, owed>>
-----------------------------------------------------------------------------
(* Who starts one, and who else writes.                                     *)

\* A person starts an incremental run: one run at a time (see Processing).
StartRun ==
    /\ ~due /\ QueueIsFree
    /\ due' = TRUE
    /\ failed' = FALSE
    /\ UNCHANGED <<release, rate, stored, compacted, costs, marker, backfill, cursor,
                   bounds, owed, overlapped>>

\* Its pricing module has nothing to do.
PriceNothing ==
    /\ due /\ QueueIsFree
    /\ marker = Version
    /\ due' = FALSE
    /\ UNCHANGED <<release, rate, stored, compacted, costs, marker, backfill, cursor,
                   bounds, owed, failed, overlapped>>

\* The pricing module of a hard rebuild that a person has started.
RebuildPrices ==
    /\ ~due /\ QueueIsFree
    /\ rebuilds < MaxRebuilds
    /\ rebuilds' = rebuilds + 1
    /\ BeginRebuild("run")
    /\ failed' = FALSE
    /\ UNCHANGED <<release, rate, stored, compacted, costs, due, revisions, restarts, owed>>

\* setCustomModelRate and deleteCustomModelRate: the write of the rate takes its
\* turn in the queue, what follows it does not.
ChangeRate ==
    /\ QueueIsFree
    /\ revisions < MaxRevision
    /\ revisions' = revisions + 1
    /\ rate' \in {0, revisions + 1} \ {rate}
    /\ owed' = TRUE

EditRate(e) ==
    /\ backfill[e] = "idle"
    /\ ChangeRate
    /\ BeginRebuild(e)
    /\ UNCHANGED <<release, stored, compacted, costs, due, rebuilds, restarts, failed>>

\* The write of the marker finds the database busy: the rate is changed, and no
\* backfill follows.
EditRateFails(e) ==
    /\ WorkerWrites
    /\ backfill[e] = "idle"
    /\ ChangeRate
    /\ failed' = ~due
    /\ UNCHANGED <<release, stored, compacted, costs, marker, backfill, cursor, due,
                   rebuilds, restarts, overlapped>>

\* A refresh stores an observation that is new or corrected (saveSnapshot of
\* withRetailCosts): its derived cost is replaced by the current one.  What has
\* been compacted is not told again (see Retention).
SaveObservation(o) ==
    /\ QueueIsFree
    /\ o \notin compacted
    /\ stored' = stored \cup {o}
    /\ costs' = {c \in costs : c.of # o} \cup Derived({o})
    /\ UNCHANGED <<release, rate, compacted, marker, backfill, cursor, due, bounds, owed, failed,
                   overlapped>>

\* compactUsageHistory deletes an observation that is old; its cost stays.
Compact(o) ==
    /\ QueueIsFree
    /\ stored' = stored \ {o}
    /\ compacted' = compacted \cup {o}
    /\ UNCHANGED <<release, rate, costs, marker, backfill, cursor, due, bounds, owed, failed,
                   overlapped>>

\* The daemon ends and starts again, perhaps with a new release of the catalog,
\* and starts an incremental run.
Restarts ==
    /\ restarts < MaxRestarts
    /\ restarts' = restarts + 1
    /\ release' \in {r \in Releases : r >= release}
    /\ backfill' = [b \in Backfills |-> "idle"]
    /\ due' = TRUE
    /\ failed' = FALSE
    /\ UNCHANGED <<stored, compacted, cursor, rebuilds, overlapped>>

Restart ==
    /\ Restarts
    /\ UNCHANGED <<rate, costs, marker, revisions, owed>>

\* It ends after some costs of a page have been saved, and before the marker.
EndInSavePage(b) ==
    /\ PageIsDue(b)
    /\ \E saved \in SUBSET NextPage(b) : costs' = costs \cup Derived(saved)
    /\ Restarts
    /\ UNCHANGED <<rate, marker, revisions, owed>>

\* It ends after a rate has been changed, and before the marker.
EndInEditRate ==
    /\ ChangeRate
    /\ Restarts
    /\ UNCHANGED <<costs, marker>>

PricingNext ==
    \/ StartRun
    \/ PriceNothing
    \/ RebuildPrices
    \/ \E b \in Backfills :
          \/ WorkerCommits(b)
          \/ WorkerFails(b)
          \/ SavePage(b)
          \/ SavePageFails(b)
          \/ EndInSavePage(b)
    \/ \E e \in Edits : EditRate(e) \/ EditRateFails(e)
    \/ \E o \in Observations : SaveObservation(o)
    \/ \E o \in stored : Compact(o)
    \/ Restart
    \/ EndInEditRate

PricingSpec == PricingInit /\ [][PricingNext]_pricingVars

\* A run that was started comes to its pricing module, workers answer and callbacks
\* are called.  That anybody starts a run, or another one after a failure, is not
\* assumed.
PricingFairness ==
    /\ WF_pricingVars(PriceNothing)
    /\ \A b \in Backfills :
          /\ WF_pricingVars(WorkerCommits(b) \/ WorkerFails(b))
          /\ WF_pricingVars(SavePage(b))

PricingFairSpec == PricingSpec /\ PricingFairness
-----------------------------------------------------------------------------
(* Properties.                                                              *)

\* An observation has one derived cost at most, although a cost is identified by
\* its observation and its entry, and several backfills may price it.
OneCostEach == \A c, d \in costs : c.of = d.of => c = d

\* Unless the rate has been changed since costs were last deleted, every cost of
\* a stored observation is the one the catalog gives now: a backfill that was
\* started before a rate was changed prices with the changed one.
CostsAreCurrent == ~owed => \A c \in costs : c.of \in stored => c \in Derived(stored)

NothingIsUnpriced == \A o \in Unpriced : ~Priceable(o)

\* The marker names the current version only if all that the catalog can price
\* has a price, whatever failed or ended in between (no two backfills at a time).
FinishedMeansPriced == ~overlapped /\ marker = Version => NothingIsUnpriced

\* A rebuild leaves the costs alone that can no longer be derived.
CompactedCostsStay == [][\A c \in costs : c.of \in compacted => c \in costs']_pricingVars

\* In the end the marker names the current version, whichever backfill the daemon
\* left when it ended and whichever catalog it came back with, unless a backfill or
\* the write of a marker has failed and no run has been started since: only the
\* start of the daemon or a person starts one.
PricingSettles == <>[](marker = Version \/ failed)

\* What the documents promise and the code does not do.

\* Historical observations that lack a price become priced without a rebuild by
\* hand (custom-model-rates.md): when no backfill is in flight, the marker tells
\* an incremental run what there is to be done.
UnpricedUsageIsNoticed == Idle /\ marker = Version => NothingIsUnpriced
=============================================================================
