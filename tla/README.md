# agent-usage: verification project

TLA+ models of the agent-usage daemon, the configurations that check them with
TLC, and proofs that TLAPS checks. Paths are relative to the root of the
repository; line numbers are those of the commit that the project was written
for. `PROJECT.json` lists the components, the runs, which lines each definition
models (`map`), and the hazards the properties are for.

    tlc -config Processing_behaviour.cfg MCProcessing  # a run
    tlapm ProcessingProofs.tla                         # a proof

## 1. The system

agent-usage is a daemon on a Mac and a dashboard in a browser. The daemon asks a
dozen *connectors* (Codex, Claude Code, Grok Build, Cursor, opencode, Antigravity,
xAI, dsh) what was used and what is left, normalises the answers, stores them in
SQLite and serves them. One Node process does all of it: what interleaves is
turns of its event loop, two worker threads with database connections of their
own, child processes of the connectors, and daemons that start and stop.

### Inventory

| Component | State it keeps | Operations | Hard behaviour |
|---|---|---|---|
| **Processing** (`core/usage-application.ts` 167-247) | the run in flight, its mode, the state of its four modules, two queue slots | `startBackgroundProcessing`, `startHardRebuild`, the modules discovery, usage, pricing, retention | calls that share a run, continuations of promises, modules that fail |
| **Refresh** (249-446, 805-812) | `#refreshPromise`, its mode, `#databaseWriteQueue`; runtime states, diagnostics | `refresh`, `#performRefresh`, `#recordConnectorOutcome` | joining, timeouts, partial failure, backoff, rejections that nobody handles |
| **Connector setup** (838-957, 760-785) | `connector_settings`, the keychain | `discoverConnectors`, `configureConnector`, `clearData` | records read before an await and written after it; restarts between two stores |
| **Retail prices** (112-160, 481-529, 822-838; `core/retail-pricing.ts`) | `#priceCatalog`, custom rates, derived costs, the version marker | backfill in pages, hard rebuild, set and delete of a custom rate | two backfills at once, a catalog that changes between pages, a crash in a rebuild |
| **Notifications** (531-611) | `notification_state` | levels, resets, forecasts, failures | a delivery that fails, a sample that goes backwards |
| **Monitoring settings, telemetry** (443-461, 787-803) | settings, OTLP rows | update, ingest with consent | read, await, write |
| **Repository writes** (`server/sqlite-usage-repository.ts` 528-1107) | observations, quotas, costs, reconciliations, quality flags | `saveSnapshot`, `saveDerivedCosts`, `recordFailure` | one transaction whose steps depend on each other |
| **Retention** (228-250, 1666-1720, 1769-1798) | raw rows, daily aggregates | `compactUsageHistory`, `clearUsageData` | the boundary between the two, histories that are read again |
| **Repository reads, migrations** (1110-4484) | none; the schema | overview, workbench, ranking, wall, forecasts, export; `migrate` | queries with cutoffs of their own that must agree |
| **Codex connector** (`connectors/codex`) | none | local history merged with the account's daily totals | reconciliation of two sources that lag |
| **Transcript client** (`server/local-transcript-usage-client.ts`) | the cache of parsed files, in memory and on disk | `readUsage` | files that grow, move and vanish; reads that overlap |
| **Clients** (`connectors/codex`, `grok-build`, `claude-code`, `cursor`) | a child process, requests that wait, what it has written | read the account, read the screen | answers, refusals, redraws, exits and timeouts in any order |
| **Other connectors** (`connectors/*`, `server/antigravity-*.ts`) | a cache of databases (Antigravity) | `collect` | accounts and histories that fail in part |
| **Scheduler** (`server/collection-scheduler.ts`) | a timer, `#stopped` | `start`, `stop`, `tick` | stop during an await |
| **Daemon** (`server/runtime.ts`, `cli.ts`, `server/daemon-state.ts`) | the state file, the port, the token | ensure, listen, stop | two commands at once, a stale state file, a daemon too busy to answer |
| **HTTP server** (`server/local-server.ts`) | launch tokens, sessions | routes | single use, expiry |
| **Dashboard** (`routes/+page.svelte`, `lib/*`) | drafts, dialogs, requests in flight, recovery signature, cards, the visible part of the trend | load, select, save, recover, zoom | answers out of order, repeated recovery, focus, lists that overtake each other |
| **Decoders and pure parts** (`zstd-frames`, `otlp-protobuf`, `core/*`, `lib/*`) | none | functions | boundaries |

### How they interact

* The scheduler's timer, the dashboard's requests and the commands all end up in
  `startBackgroundProcessing`, `startHardRebuild` or `refresh`. A processing run
  calls discovery, then `refresh`, then the price backfill, then retention.
* `refresh`, the price backfill of a run, retention, telemetry and the write of a
  custom rate share one promise chain, `#databaseWriteQueue`. Discovery, connector
  configuration, clearing data, monitoring settings and the backfill after a
  changed custom rate do not go through it.
* A refresh reads which connectors are connected (connector setup) and resting
  (backoff), asks the connectors, and stores each answer in a transaction.
* Connectors read transcripts, client databases and accounts that other programs
  change at any time. What has been stored from them is reconciled with each new
  reading and compacted after 90 days.
* All of it ends at any moment when the daemon does; the database, the keychain and
  the files stay.

### What makes each part correct

* *Processing*: nobody shares a run that does less than they asked for; modules
  take turns and one that fails does not stop the next; whoever calls is answered.
* *Refresh*: one at a time, and alone in the write queue; a rebuild is answered by a
  rebuild; one connector that fails hides no other; failures are counted.
* *Connector setup*: a connector is used only with the consent of the person, and
  what they decide last counts; secrets can always be deleted again.
* *Retention*: what has been counted stays counted, and once.
* *Codex*: no token is counted by both sources; usage only drops with its history.
* *Retail prices*: every priced observation has one cost, of the current catalog, and
  an interrupted rebuild is taken up again.
* *Notifications*: a level is told before it is remembered, and not told again.
* *Clients*: a read ends, with what the client showed last.
* *Transcripts, connectors*: an answer that is called complete tells all there was when it
  began, since what is stored of other usage is retired by it.
* *Read model*: one number for the same usage wherever it is displayed; a forecast rests on
  one rise; an amount is shown only when all of it is known.
* *Daemon*: one daemon, that can be found.
* *Dashboard*: what is shown is of what is selected; what is busy ends; one automatic
  refresh for one diagnosis; every agent has one card.

## 2. Plan

| | Module | Models | State |
|---|---|---|---|
| 1 | `Processing`, `CallService` | runs, modules, queue slots; what callers are promised | checked, proved; refinement proved |
| 2 | `Collection` | refreshes, write queue, outcomes | checked, proved |
| 3 | `Retention` | rows, aggregates, sources read again | checked, proved |
| 4 | `CodexDays` | history and account totals | checked, proved |
| 5 | `ConnectorSetup` | records, keychain, discovery | checked, proved |
| 6 | `RetailPricing` | catalog, pages, rebuilds, custom rates, restarts | checked, proved |
| 7 | `TokenCounts`, `Ledger`, `Workbench`, `UsageWall` | normalization, the stored rows, the read model over them | checked, proved |
| 8 | `Quotas`, `Notices`, `NoticeLog` | windows, forecasts, timeline; notices and their abstract specification | checked, proved; refinement proved |
| 9 | `Daemon` | state file, commands, scheduler, monitoring settings | checked, proved |
| 10 | `Transcripts`, `ConnectorAnswers` | files and their cache; accounts and histories in part | checked, proved |
| 11 | `StdioClients`, `ScreenClients` | child processes, timers, output | checked; screens proved |
| 12 | `PriceLookup` | the table of rates and the price of an observation | checked, proved |
| 13 | `Dashboard`, `Recovery`, `Dialogs`, `SettingsForms`, `TrendChart` | the page | checked, proved |
| 14 | `AgentCards` | the cards of the agents | checked, proved |

What is left: launch tokens and sessions of the HTTP server; the consent of telemetry; what
leaving the page does to requests in flight.

Abstract specifications: `NoticeLog`, which `Notices` implements, and `CallService`, which
`Processing` implements (both checked and proved). Another worth stating: a *serial executor*
that `Collection`'s write queue implements.


## 3. The modules

Each module states its atomicity and its bounds at its head. An operator whose
comment begins *Faulty variant* is a plausible bug: `PROJECT.json` lists, for each
property, the definition that it replaces and the run in which TLC then finds the
property violated. No specification uses one. An `MC` module gives the configurations their
sets, and combines modules that share no state into one specification that explores one of
them at a time (`part`).

### Processing, CallService — who shares which run

`UsageApplication.#startProcessing`, `#runProcessing`, `#runModule`. `background`,
`hardRebuild` and `userInitiated` are the fields of those names; `modules` is
`#processingStatus.modules`. A queue slot (`queuedUser`, `queuedHard`) is a promise
`#backgroundPromise.then(start, start).finally(clear)`: it first waits for the run in
flight (`"prior"`), then adopts what its continuation returns (`"run"`), and in one
case that is its own promise (`"self"`). `Call` is a call of `startBackgroundProcessing`
or `startHardRebuild`; `ContinueUser` and `ContinueHard` are the continuations, which run
as microtasks in the order they were chained, before any other call; `FinishModule` and
`EndRun` settle a module, successfully or not. The order of the two reactions and the
`finally` of the run (its promise is cleared before they run) is what the ECMAScript job
queue does.

`CallService` is the same from outside: what runs, what each caller waits for, and who is
lost; no slots, no promises, no microtasks. `CallsAreCoalesced` is the refinement, by the
mapping `Running`, `Waiting`, `Lost`. It is stronger than that nobody shares a run that does
too little: a run that ends answers *all* whom it serves, also those who queued for the run
before it; a run that no caller waits for never begins; and when a call can begin a run, nobody
but the lost is waiting. What it has to allow for rebuilds is the result below.

*Result.* `HardRebuildEnds` is violated: a rebuild and a person's request are both
queued behind a scheduled run, the request's continuation starts an incremental run
first, and the rebuild's continuation calls `#startProcessing`, which returns
`#queuedHardRebuildPromise`, the very promise the continuation is to settle. A promise
that adopts itself rejects with a `TypeError` when it is the promise of that `then`;
here there is a `finally` in between, so it waits for itself and is never cleared, and
neither are later rebuilds that join it. The theorem `LostOnlyWhenOvertaken` shows that
this is the only way to lose one; every other call settles (`CallsSettle`).

### Collection — one refresh at a time

`refresh`, `#performRefresh`, `#recordConnectorOutcome`, `#queueDatabaseWrite`, and what
`configureConnector`, discovery and `clearData` do to what they read. `queue` is the
promise chain of writers, the head being the one that runs; other writers are `"write"`
jobs. `AskConnectors` is the part of `#performRefresh` between its first read and the
`Promise.all` of the collectors; `Collected` is what `withTimeout` makes of a collector;
`Persist(stop, diagnosed)` is the loop over the results, which is synchronous, broken off
at the result `stop` if its write throws; `FinishRefresh(rejected)` awaits the notifications,
whose delivery fails nothing, while what is read and saved about them may reject the refresh.
`IntervalPasses` is the clock reaching `nextAllowedAt`.

*Results.* `PeopleGetFreshData` is violated: a person who joins a scheduled refresh, or has
just connected a connector during one, gets connectors skipped. A refresh that rejects while
the scheduler waits for it ends the daemon (`alive` in `SettleRefresh`), since its timer
callback has no `catch`, although `CONTEXT.md` says that the failure of one connector
cannot make others unavailable. That one failing connector hides no other
is stated as what does hold: a result is dropped only behind one that could not be recorded
(theorem `OnlyFailedRecordsDrop`).

### Retention — counted once, and not lost

A row is a source and an instant; `raw` is `usage_observations` and `aggregate` the set of
rows whose tokens the sums of `daily_usage_aggregates` contain. `SaveSnapshot` is a reading
of the transcript client (90 days back) or of an opencode database (from the midnight
within which 90 days ago lies), complete or not, and the reconciliation that follows a
complete one. `CompactUsageHistory` is `RETENTION_AGGREGATE_SQL` with its
`ON CONFLICT ... DO UPDATE SET sum = excluded.sum`, and the delete.

*Results.* A day that is compacted twice keeps the second part only: the run
`history_repeat` violates `CompactionsLoseNothing`. What holds is `RowsAreCountedOnce`, for
every source but the databases that are read from a midnight on, whose rows come back after
they were compacted; and `RowsLeaveIntoTheirAggregate`, whose exception is the reconciliation
of a complete reading: it deletes rows that have aged out of the lookback even if retention
has not compacted them yet.

### CodexDays — two sources for one day

`CodexConnector.collect` awaits the account, then the local history; `ReadAccount` and
`SaveSnapshot` are the two halves. A row is one token. `daily` and `remainder` are the
synthetic observations `codex:daily:<day>` and
`codex-transcript:account-remainder:<day>`, stored so that one total and its rows are never
both counted.

*Result.* `OverlapsAreReconciled` holds as long as the transcripts have not vanished
altogether (`vanished`, a history variable). Once they have, a snapshot without rows is added
instead of reconciled, and a day's total stands beside rows that are still stored.

### ConnectorSetup — consent and secrets

`record` is `connector_settings` (state, installed, has a secret reference), `keychain`
the secrets stored. A discovery reads all records (`Discover`) and then inspects in any
order (`Inspected`, `InspectionFails`), writing back what it read. `configureConnector` is
`ConnectManaged`, `KeychainSets`, `SaveConnected` for a connector whose secret the product
keeps, `ConnectOfficial` and `Skip`, which do not await anything, and `Retry`,
`RetryInspected`. `clearData` is `ClearData`, `KeychainDeletes`, `SaveCleared` for each
secret. `Restart` forgets what waits. The history variable `overlapped` says whether anything
was ever called while something else waited.

*Results.* What holds whatever overlaps: no stale record invents a consent
(theorem `ConsentIsGiven`), and a connected managed connector refers to its secret
(theorem `ConnectedIsReferenced`). What holds one operation at a time only: the last decision
counts (`ConsentIsTheLastDecision`), references outlive secrets (`ReferencesOutliveSecrets`).
`application_revoked` violates the first without that condition: a discovery that read the records
before a person skipped a connector connects it again. A restart between `KeychainSets` and
`SaveConnected` leaves a secret that nothing refers to; no property claims otherwise.

### RetailPricing — costs, rates and backfills

An observation is a number, in the order in which pages read them; a cost is an observation
and a price, a price being the entry of the catalog and its amount: `Official`, or a revision
of the rate that the person has set for the models in `RateCovers`. `marker` is the
application state `retail-pricing-catalog-version`; `Version` is the version of the merged
catalog and `Unfinished` stands for `rebuilding:<time>` and for no value. `backfill[b]` says
where `#backfillRetailCosts` is, once for the processing run (`"run"`) and once for each call
that changes the rate: in the await of the worker that deletes (`"deleting"`), or in the yield
behind a full page (`"paging"`). `SavePage` is one turn of the loop, and the marker after the
last one; what an incremental run does before its first page needs no state, as nothing is
awaited. `RebuildPrices` and `EditRate` are what `hard-rebuild` and a changed rate do up to
their first await. `WorkerFails`, `SavePageFails` and `EditRateFails` are the transaction of
the worker that fails, and a write of the main connection that finds the database busy with
it. `StartRun` is the start of a processing run, by the daemon that starts or by a person; the
scheduler only refreshes and starts none. `SaveObservation` is `#withRetailCosts` with `saveSnapshot`, `Compact` takes an old
observation away from its cost. `Restart`, `EndInSavePage` and `EndInEditRate` end the daemon
between two turns and between two statements of one, and start it again, perhaps with a later
release of the official catalog. History: `owed` (the rate has been changed since costs were
last deleted), `overlapped` (a backfill was started while another was in flight) and `failed` (a
backfill or the write of a marker has failed, and no run was started since).

*Results.* However backfills overlap, each observation has one cost (theorem `OneCost`), and a
backfill that began before the rate was changed prices with the new one (`CostsAreCurrent`),
because the catalog is a field that is read for every page. The condition `~owed` is needed:
a daemon that ends after the rate was written and before `rebuilding:` was, or a worker that
fails, leaves costs of the old rate, and no incremental run replaces a cost that is there.
As long as backfills do not overlap, the marker never claims what is not done
(`FinishedMeansPriced`). When they do, it may: `processing_unpriced` violates
`UnpricedUsageIsNoticed`. A rate is changed while the pages of another backfill are read; the
older one ends first and writes the current version into the marker; the newer one has
deleted costs, or has a worker that is to, and when it then fails or the daemon ends, later
incremental runs find the marker current and leave the usage unpriced. `PricingSettles` says
that the marker becomes current in the end, and has `failed` for its exception: a
backfill that failed is taken up by the next run, and only a daemon that starts or a person
starts one. A compaction between
the deletion of the costs and the page of an observation also loses a cost;
the theorem `CompactedStay` is about the costs that are still there when their observation goes.

### PriceLookup — which entry, which rates

`rates` is `custom_model_rates`; `SetRate` is `setCustomModelRate` with
`saveCustomModelRate`, which looks for a row with the same id and one with the same provider,
domain and model (a PUT of a rate that was deleted creates it again), and `DeleteRate` the
deletion. `Derive` is `deriveRetailEquivalentCosts` for one observation: the candidates of the merged
catalog in their order of preference, the rules of prompt length and time of day, the tiers and
the line items. `asked` is what a person has asked for last for each key.

*Result.* `UsageHasItsOnePrice`: the price is that of what was asked for last and covers each
token once. The catalog is fixed here and the table of rates in `RetailPricing` is one rate;
that a backfill asks for the price of each observation is there.

### TokenCounts, Ledger, Workbench, UsageWall — one number for the same usage

`TokenCounts` has the normalization of an observation (what its source counts apart, its total
and what no category explains) and the sums over rows. `Ledger` has the tables and their
writers, one transaction each: `SaveSnapshot` with the reconciliation of the totals of Codex,
`SaveDerivedCost`, `SaveExchangeRateSnapshot`, `CompactUsageHistory`, `ClearUsageData`.
`Workbench` is queries only, each a definition: the history of a domain, the headline, the
token and money workbench, the intervals of the trend, the ranking, the summaries, the export.
`UsageWall` adds the aggregates of days that have been compacted.

*Results.* `RecordedTokensReconcile`, `TotalsAreOfTheirDomains`, `AmountsAreComplete` and
`ExportTellsEachOnce` compare what different queries say about the same rows;
`CompactionKeepsTheWall` what they say before and after a compaction. `TrendCountsOnce` is
violated (`application_trend`): the segment of a known model has the recorded total of its
observations, and the segment without a model their remainder once more. Two of the properties
say where the code falls short of the documents, as they say what it does. The trend of a ranked
model has two series (`RankingEntry`): its classified tokens, which add up to what it is ranked
by, and its recorded tokens, which the page draws, and which exceed it by what its rows have left
(`LeftBeside`). And a total is of one summary domain for every provider but two:
that of dsh is of all its domains, and that of Grok of all but the xAI API, so that a custom
endpoint of Grok Build is added to the subscription (`DomainsOfTotal`; `CONTEXT.md` 76-79, its
invariant 31 and ADR 008 have one domain there as well).

### Quotas, Notices, NoticeLog — windows and notices

`SaveQuotas` and the other writers of `Quotas` are what `saveSnapshot` does to
`quota_buckets` and `quota_observations`; the rest are the forecast, the status of a window, the
recommendation, and the projection of a window onto the timeline. A forecast is cut at a fall of
usage and at a gap, and `getQuotaForecasts` does not look at `resets_at`: `ForecastsRestOnOneRise`
says what that gives, and that the samples are of one window as long as every reset shows as a
fall; a reset with more usage behind it than before it does not show. `Notices` is
`#sendNotificationTransitions` with what a refresh does before and behind it, one step per
write or awaited delivery. `NoticeLog` is what they promise, about any subjects and levels, and
`Log == INSTANCE NoticeLog WITH known <- levels` the refinement: `LevelsAreAnnounced`. It says
that nothing is remembered that was not told first, so that a crash repeats a notice and never
swallows one, and that a level is told once; a delivery that fails counts as told, as it does in
the code. Notices of resets and forecasts are steps too, and not part of that promise: a reset
that is told but not remembered is told again.

### Daemon — commands, daemons, the file between them

A daemon is a process that starts, listens, writes `daemon.json`, serves, closes and removes it;
a command reads the file, asks the daemon for its health, starts a daemon if it finds none, and
then asks it to change settings. `FindBusy` is a health request that runs into its timeout of a
daemon that is there. `Tick`, `TickEnds` and `TickFails` are the scheduler, of which `TickFails` ends
the daemon. `SetLaunchAgent` and `SaveSettings` are the two halves of `updateMonitoringSettings`.

*Results.* "Starts one background daemon and reuses it" does not hold: two commands that find
none start two, and so does one that finds the daemon too busy; the one that leaves removes the
file that names the other. `ServingIsNamed` holds as long as no daemon was started while another
was still there, and `StartAtLoginIsTrue` as long as changes do not overlap.

### Transcripts — what a complete answer is worth

A file is how much of it has been appended and where it is; the records of a line depend on the
lines before it (the session, the model, a fork). A read lists the roots, and opens and reads
file after file, with the agent's actions between any two steps; another read goes on beside it
with the same cache, as the one that was timed out does. `CompleteAnswersTellTheFiles`: an
answer that is called complete has every record that was in the files when it began, each once
and as its file tells it. The properties of `Retention` and `CodexDays` rest on it. A file that
is archived between the two listings is listed twice and told once. The one exception is the
domain of a record of Grok while another read is still reading the configuration (`early`).

### ConnectorAnswers — what connectors make of what they get

`connector` is which one; `Collects` and `CollectsDatabases` are its `collect`, and the
snapshot that it makes is stored at once. `FailsToReadDatabases` is a history of Antigravity that cannot
be read at all. `SnapshotsTellTheirSources` says what the snapshot has
to do with its sources: it warns exactly when its account or its history did not tell all, names
the domain of each usage, has all tokens of an invoice under some model, and has for each window
of Antigravity nothing beside what the server told, and nothing that passes for the server's when
it told nothing. Which sources a connector warns of is part of it (`SourcesHaveTold`): the catch
for the server of Antigravity swallows its failure
(`antigravity-connector.ts` 84), and databases that are passed over are no failure
(`antigravity-sqlite-usage-client.ts` 171). `application_quota` violates `QuotasAreStated`: without
the server, percentages of assumed limits take its place, which `CONTEXT.md` 224 rules
out. `UsageLeavesOnlyWithItsSource` says what may happen to usage stored before.
Its exceptions are of Antigravity, whose databases are passed over without making the answer
incomplete, although its connector says that it retries "without removing stored history"
(`antigravity-connector.ts` 210), and whose rows in the write-ahead log do not change what its
cache is keyed by.

### StdioClients, ScreenClients — child processes

`JsonLinePeer` of Codex and Grok: requests that wait, lines that arrive, the exit of the child,
timeouts, and the log that Grok falls back to. The screens of Claude Code and Cursor: a driver
that types and copies frames, and a read that parses what it has received. What a child has
written may be delivered after its exit. `ClientReadsEnd` under fairness; `CompleteScreensAreTold`:
what is drawn while values are fetched is not taken for the usage.

### Dashboard, Recovery — requests of the page

`requests` is what was asked and not answered. Answers arrive in any order, are lost, or are
superseded by a newer request of their kind where the code has a request sequence. The polls of
the processing status, the reaction to a run that has ended, refreshes, rebuilds, clearing and
selections are the page's; `RunAdvances` is the daemon's. `Recovery` is the signature of what
calls for an automatic refresh. `SelectionIsShown`, `RefreshIsShown` and `BusyEnds` are about
what a person sees when answers cross; `RecoveryIsOnce` bounds automatic refreshes by the
changes of the evidence.

An answer is told at some time after its request, and `Versions` are those of the evidence that
an overview or a report may have: any since then. A report of diagnostics has no request sequence
(`loadDiagnostics`), so that an older one may arrive last and take the page back (`FallsBack`);
what the page then sees again is paid for by `setbacks` in `RecoveryIsOnce`. A status has
no sequence either. `RefreshIsShown` is about refreshes and rebuilds that a person asked for, and its
exceptions are what the code does not follow: an answer that was lost, a status that overtook
another (`deaf`), and a run at whose end the page loads nothing (`missed`), because a module
failed or because the first status after a rebuild was asked for says that it is over already
(`hardRebuild`, `+page.svelte` 653-670). A module that fails may have stored something before, and
so outdates what is shown as one that succeeds does. `BusyEnds` holds for the button of a rebuild
with one exception: it is released by a status and by nothing else, so that a status or a command
that was lost or overtaken (`deaf`) may leave it disabled with nobody to ask again.

### Dialogs, SettingsForms, AgentCards, TrendChart — the parts of the page

`Dialogs` is the settings panel and the details of a model, which open from each other and from
a link, and the keyboard focus between them (`FocusIsInFront`). The link is followed at the end of
`onMount`, whatever was opened while the page loaded (`FollowLink`), so that settings can open
behind details. `PressTab` is the focus trap, and `ControlVanishes` what removes or disables the
control that has the keyboard; `astray` remembers both. `SettingsForms` sends changes of
rates and connectors and loads lists, also without a change (`OpenRates`, `DiscoveryIsOver`). The
lists have no request sequence and arrive in any order; `current` remembers whether one
was told after the one that is shown, and `ListsAreShown` is about the lists of which none was. `AgentCards` makes the cards of
answers that come one by one, some of them about agents that a later index no longer names
(`requested`; `CardsAreComplete`). Sorting is by the rank of a place, so that what it does to any
sequence can be proved. `TrendChart` is the visible part of the
trend, zoomed and dragged while its buckets change (`ZoomAndDragKeepThePlace`).

## 4. The runs

A run that passes has parts: modules that share no state and are explored one at a time.

| Run | Parts | Shows |
|---|---|---|
| `processing` | `Processing` (3 callers), `RetailPricing`, `PriceLookup`, `StdioClients`, `ScreenClients`, under their fairness | calls are coalesced as `CallService` promises, and settle; current costs, what the marker claims, and pricing settles; one price for usage; reads of clients end, with what was shown |
| `processing_lost_rebuild` | same | *violation* of `HardRebuildEnds` |
| `processing_unpriced` | same, without fairness | *violation* of `UnpricedUsageIsNoticed` |
| `collection` | `Collection`: 2 connectors, the scheduler and 1 caller, under its fairness | records agree, no failure is forgotten, rebuilds are rebuilds, calls of `refresh` settle |
| `collection_person` | same | *violation* of `PeopleGetFreshData` |
| `history` | `Retention`, `CodexDays`, `Transcripts` | counted once, leaves into its aggregate; reconciled, drops only with the history; complete answers tell the files |
| `history_repeat` | telemetry | *violation* of `CompactionsLoseNothing` |
| `application` | `Ledger` with `Workbench` and `UsageWall`; `Quotas` with `Notices`; `ConnectorSetup`; `ConnectorAnswers`; `Daemon` | one number for the same usage, totals of their domains, amounts complete, each exported once, compaction keeps the wall; windows of the last answer, forecasts of one rise, a timeline without gaps, levels announced; the last decision counts, references outlive secrets; snapshots tell their sources, usage leaves only with its source; the daemon that serves is named, start at login is true |
| `application_trend` | same | *violation* of `TrendCountsOnce` |
| `application_revoked` | same | *violation* of `OnlyConsentedIsConnected` |
| `application_quota` | same | *violation* of `QuotasAreStated` |
| `dashboard` | `Dashboard` with `Recovery`, `Dialogs`, `SettingsForms`, `AgentCards`, `TrendChart` | the selection and what was asked for are shown, one recovery, busy ends; focus; lists; cards; zoom and drag |

### Bounds, and why they are enough

* *Processing*: a caller has one call outstanding. There are two slots and one run, so
  three callers can occupy all three at once; a fourth can only share one of them.
* *RetailPricing*: two observations in pages of one are a full page with one behind it, and a
  full last page that an empty one follows. One observation is priced by the rate, both by the
  later release. Two edits and the run give three backfills at once; two revisions are a rate
  that is set, set again or deleted; one rebuild or one restart can meet both edits, and both of
  them one edit, at every await (`ChangesAreBounded`).
* *PriceLookup*: two ids let a rate be saved under a key that another row holds; three changes
  are set, moved or deleted, and set again; `PromptLimit` 2 puts prompts below, at and above it.
* *StdioClients*, *ScreenClients*: one line that answers nothing comes before or after any
  answer; three frames are a first drawing, a redraw and a last one of two meters.
* *Collection*: two connectors give an order of results with one in front of and one behind a
  failure; one other job can be in front of and behind the refresh; the caller's calls are of
  every kind, one after the other. Whether the last attempt failed is all that is told of
  failures; that the count of any number of them is never too small is proved.
* *Retention*: a term of two instants with two instants a day puts the cutoff both at
  and within a day; time to three lets a day be compacted in two parts.
* *CodexDays*: three days are one that is open, one that is closed and one that both
  sources tell late; totals up to 2 are below, at and above the rows of a day.
* *Transcripts*: two files, of each agent that has a format of its own, are one that is read
  before and one after a change; two reads overlap or follow each other; two changes are a move
  and back, or an append and a removal. A read that is later than both is like the second.
* *ConnectorSetup*: the records of connectors do not influence each other except through
  `clearData`'s loop and the one reading of a discovery; two connectors have both. A call and a
  discovery overlap; nothing more is called once they have (`OverlapIsBounded`), as the properties
  have nothing to say of what comes after.
* *ConnectorAnswers*: accounts that tell what is left out, zero, full and too much, and that fail
  in every way the code tells apart; two changes of a history; two rows in each of two databases
  and two steps of time are one row cached, one added, and one out of the short window.
* *Daemon*: three daemons and three commands: two that start one at the same time and a third
  that replaces them; one fault in all, wherever it comes.
* *Ledger*: two rows and two costs are two of one domain, or of domains that must stay apart; the
  two rows have one cost between them, as no rule relates two costs to two rows at once;
  a day of two units, a term of one and a window of two that starts within a day; time to 4.
* *Quotas*, *Notices*: two windows of two domains; percents below, between and beyond the two thresholds
  and a fall of more than 20 between the highest and the lowest; periods of two units with three
  answers are a window that is reset, left out, and told again, and a reset with more usage behind
  it than before it; one failure is told at once,
  and the client of one of the two domains always answers.
* *Dashboard*: budgets name what happens: two selections; a selection with a refresh, a rebuild
  or a clearing; one of these with a lost answer, with a status that overtakes another, or with
  an automatic refresh; a change of the evidence with a loss and two automatic refreshes; a
  change with a report that overtakes another and more automatic refreshes than the bound of
  `RecoveryIsOnce` allows then; a selection with a loss and an automatic refresh. Modules
  fail where nothing is lost, the evidence stays and the page refreshes for a person
  (`FailuresAreBounded`); two polls overlap in each of them.
* *Dialogs*: two models, so that details open while the ranking loses one of them; three targets
  are one that leads to the form, one within a tab and none.
* *SettingsForms*: two rates and a connector, two changes or loads that follow none, one loss: two
  loads of a list are in flight at once, with the one of the start three. *AgentCards*: agents with no,
  one and two domains, named by one answer or by several; an index that has more agents than the
  page knows, and an empty one. *TrendChart*: no buckets, a few, and
  more than the least that can be zoomed to; a plot with a middle and both edges.

### Fairness

* *Processing*: weak fairness of the two continuations (microtasks run) and of `Settle`:
  a probe, a collector and a database worker each answer, fail or are timed out. Nobody
  has to call.
* *Collection*: weak fairness of `Progress` (the queue goes on, a synchronous loop ends)
  and of each connector's `Collected`, which `withTimeout` guarantees. Calls, the
  clock, clearing and restarts are not fair.
* *RetailPricing*: weak fairness of each backfill's worker (it commits or fails) and of each
  `SavePage`: a yield ends, and a run that was started comes to its pricing module. Nobody has to
  start one (`StartRun`): the daemon does when it starts, and a person may. Failures are not
  excluded, and not fair; what failed is excused until a run is started (`failed`).
* *StdioClients*, *ScreenClients*: weak fairness of the read's own turns (it starts the child, an
  event that has come is delivered, the fallback goes on) and of its timers. The child need not
  do anything.
* The other modules state safety only.

## 5. What is proved

For every value of the constants that satisfies the named assumptions of the module.

| Module | Theorems | Inductive invariant |
|---|---|---|
| `ProcessingProofs` | `CallsCoalesce`: `Spec => Service!Spec`; `TypeCorrect`, `AdequateRuns`, `ModulesInTurn`, `QueuesAreServed`, `SettledByTheirRun`, `LostOnlyWhenOvertaken` | the properties themselves, and what each continuation in `reactions` and `microtasks` says of its slot, which of the two comes first, and that neither occurs twice; for the refinement `QueueInv`: a slot is taken exactly while somebody waits for it, a continuation still to run has its slot for itself, nobody queues behind a run that serves them |
| `CollectionProofs` | `TypeCorrect`, `RefreshesTakeTurns`, `WaitersAreServed`, `HealthAgrees`, `BackoffCountsEveryFailure`, `RebuildsAreRebuilds`, `OnlyFailedRecordsDrop` | `StoredInv` (the records agree, counts cover the history), `FlightInv` (the job of the refresh in the queue, the phase), `AttemptInv` (what was read before asking is not below what is stored: only clearing lowers it) |
| `HistoryProofs` (`Retention`) | `RowsTypeCorrect`, `CountedOnce`, `LeavesIntoAggregate` | what an aggregate of a transcript or telemetry row contains is older than the cutoff |
| `HistoryProofs` (`CodexDays`) | `DaysTypeCorrect`, `OnlyClosedDays`, `ReconciledNotAdded`, `DropsOnlyWithHistory` | totals in memory and stored are of closed days; a remainder and the stored rows of its day never exceed the total; until the history vanishes, a day with a total and no remainder has no stored rows |
| `HistoryProofs` (`Transcripts`) | `TranscriptsTypeCorrect`, `CompleteAnswersTrue` | `TranscriptsInv`: see below |
| `SettingsProofs` (`ConnectorSetup`) | `TypeCorrect`, `ConsentIsGiven`, `ConnectedIsReferenced`, `LastDecisionCounts`, `SecretsAreReferenced` | every record *remembered* by a waiting call or discovery is as rightful as the stored one; until something overlaps, what is remembered is what is stored |
| `SettingsProofs` (`ConnectorAnswers`) | `UsageLeavesRightly`, `SnapshotsTell` | `AskedInv`: the last refresh asked an account of the connector, and a read that calls itself complete has told, all of it supported; `AnswersInv`: whatever is stored is something the connector in question tells, from a request that is held or a conversation whose rows exist; no more is in a file than there are rows |
| `RetailPricingProofs` | `TypeCorrect`, `OneCost`, `Current`, `FinishedPriced`, `CompactedStay` | `CostsInv` (costs have usage, what is compacted is stored no more) and `MarkerInv`: without an overlap, what lies behind a backfill's cursor and is still unpriced has no entry, and what a marker's release and rate price has a price |
| `RetailPricingProofs` (`PriceLookup`) | `LookupTypeCorrect`, `UsageHasOnePrice` | `LookupInv`: a row of the table is the only one of its id and of what it is for; the rate that is wanted is the one that the table has; no decision outlives the table it was made by |
| `ReadModelProofs` (`Notices`) | `Implements`: `NoticesSpec => Log!Spec` | what waits to be remembered after a notice has been told at that level, and the rest of the agenda is about subjects at levels |
| `ReadModelProofs` (`Quotas`) | `WindowsRetire`, `ForecastsOnOneRise`, `TimelineSeamless` | `QuotasInv`: windows are well formed and those of the last answers, no sample is of a time to come and no two of a window are of one instant; the other two follow in every such state |
| `SettingsProofs` (`Daemon`) | `DaemonTypeCorrect`, `OneDaemonAtATime`, `ServingNamed`, `StartAtLoginTrue` | the properties, and for the last that there is one change at a time until changes overlap, and that the launch agent follows the change that is made and otherwise what is stored |
| `ReadModelProofs` (`Workbench`, `UsageWall`) | `LedgerTypeCorrect`, `TokensAreReconciled`, `TotalsAreOfDomains`, `AmountsAreShownWhole`, `ExportIsComplete`, `WallIsKept` | `LedgerInv`: see below |
| `DashboardProofs` (`Dialogs`, `SettingsForms`, `TrendChart`) | `DialogsHaveTheFocus`, `ListsShown`, `PlaceIsKept` | a dialog that is alone has the focus, unless a control or a dialog took it along, and settings that are closed have it no more; until a call fails, every item has a call to come that tells it, or the last list that was told, on its way or shown, agrees with what is stored; the numbers of the chart are within the range |
| `DashboardProofs` (`AgentCards`) | `CardsComplete` | `CardsInv`: the overview has each provider once, as an answer gave it, and the index names agents as an answer did |
| `DashboardProofs` (`Dashboard`) | `SelectionShown`, `BusyHasAnEnd`, `RecoveryOnce`, `RefreshShown` | see below |
Each follows the same argument: the initial state satisfies the invariant, each action
preserves it (one step per action, one lemma where an operator is used by several), the
property follows, and `PTL` combines the three. The strengthening is needed because a
property of what is stored is only preserved if what waits to be stored has it too.
`Implements` shows in the same way that each action of `Notices` is an action of `NoticeLog` or
leaves what it speaks of unchanged, and `CallsCoalesce` that each action of `Processing` is one of
`CallService` or nothing to the callers. There the end of a run is the hard case (`EndAnswers`):
that everybody whom the run serves shares it or a slot that follows it needs `QueueInv`, which
the runs' invariants do not imply.
In `RetailPricingProofs` the lemmas `FullPage` and `LastPage` say what a page of the
cursor contains, from the facts that a set of observations has a least and a greatest one.
`UsageHasOnePrice` is then about one decision: a rate that is wanted is the only selected entry
(`SelectionIs`); of the official entries of a provider exactly one is active for usage of a known
time, as the tiers of a period exclude each other (`OneOfficialEntry`); and the items of a price
are one for each category that is billed, so that by an entry without tiers they add up to the
tokens of the observation (`ItemsAddUp`, with `Sums`).
The assumptions are those in the modules; TLC evaluates them in every run.

`Sums` has the lemmas about sums that the theorems about the read model and about prices rest on. The library
defines the sum of a function by a fold, which is a recursion over a set that only `CHOOSE`
orders. `SumExists` shows that the function that the fold recurs by exists for every finite
set, by taking a set without one that is as small as possible (`LeastNatural`); everything else
follows by the same kind of argument (`SetInduction`): sums of unions, of images, of groups, of
tables by rows or by columns, of multiples.

The theorems about the read model are about queries, so that the invariant is about what is
stored: `LedgerInv` says that what is kept is finite, that each row is the normalization of an
observation that was acceptable (so that its total and its remainder fit its categories), that
costs are as told, one of each id, and that the subscription of Grok is known wherever another
domain of it is, but for the xAI API. Each property then is a lemma of the form
`LedgerInv => P`, by regrouping sums: of rows by domain, model and interval
(`RecordedTokensReconcile`), of costs by currency and domain, where a group can be shown exactly
if each of its costs can (`AmountsAreComplete`), of exported observations by their keys
(`ExportTellsEachOnce`), of old rows by the daily sum that they go into
(`CompactionKeepsTheWall`). Two things came out of these proofs that TLC could not have shown
with its instance. The parts of a day of Codex must be told for one time, else a compaction
between them would count a day twice (they are: `codex-connector.ts` gives both the start of the
day). And an observation that a model has used no token in is not exported, which the property
now says.

`CompleteAnswersTrue` is about what a read remembers while the files change under it.
`TranscriptsInv` says of what is cached, in memory or stored, that it is what some prefix of the
file tells, by some state of the configuration, and that the prefix has at least the lines that
its size and time stood for (`IsOfFile`): the file may have grown between the listing and the
reading of it, never the other way, which is why an unchanged size and time is enough to tell the
entry again. Of a read it says that what it has listed is no shorter than when it began; that
every file with a line within the lookback is listed unless there was a gap, at one of the two
places, as files only move from the first to the second (`HasListed`, by `WantedIsFound`: the
last line of a file is its latest); and that the files before the next one are told (`HasTold`).
Underneath are lemmas about the operators: parsing a prefix tells the first records of the whole
(`RecordPrefixes`, for the state that each format carries from line to line), the configuration
changes domains and nothing else (`SameKeys`, `RemappedIs`), and telling a file keeps the keys
distinct and drops no recent one (`TellsIs`). TLC checked the invariant before it was proved.

`SnapshotsTell` is about one refresh: each connector's `collect` is followed from the answers of
its sources to the snapshot, for each of the connectors (`AskedTells` and the lemmas before it).
That an invoice loses no token is an argument about sums (`InvoiceIsTold`): its lines are
partitioned by model, and those of a model by the kind of token.

`CardsComplete` rests on what sorting and filtering do to any sequence (`SortedIs`, `ChosenIs`,
`FirstsIs`): the rank of a place takes each value from one to their number once, so that what is
sorted is a permutation, in the order of the keys and, of equal keys, of the places. Two sorts,
one after the other, then keep groups together with the shortest window first (`GroupsStay`), and
put cards in an order that only their identities decide (`StandingIs`, by `NamesDiffer`), which is
why nothing that is told about an agent moves its card. A card has each domain that is told of it
or connected once (`WithTargetsIs`, `CardIs`), and as a domain has one connector, what can be set
up from its tabs is what is connected (`ConnectorIs`).

The four theorems about the data of the page rest on three invariants.

* `DataInv` (`SelectionShown`, and with `LateInv` `BusyHasAnEnd`): of each kind of request at most one is the
  newest; a panel that shows something else than the selection, or is busy, has the newest one
  of its kind on its way or remembers that it was lost.
* `OnceInv` (`RecoveryOnce`) is an argument with a potential. What the page may still answer,
  because the overview or the diagnostics are some versions of the evidence behind the last, or
  have not been evaluated, is counted as credit (`Due`); fired refreshes plus credit never exceed the
  bound. Each action keeps the sum or pays with a change, a loss, or, for a report that takes the
  page back, as many setbacks as it is older. An overview that is taken is never older than the one
  shown (`IsOrdered`), as it has a request sequence.
* `LateInv` (`RefreshShown`, `BusyHasAnEnd`): as long as no status or command was lost and no
  status overtaken, the page is faithful. The timer is armed only for a run that it has seen and
  that was not over; the runs that were asked for, refreshes and rebuilds, are followed, by a timer
  or by a status on its way; an overview that is behind is expected, unless the page has missed the
  end of the run: a load is on its way that will find what was stored, or a status that will
  lead to one; and whatever status says that a rebuild goes on leaves somebody behind it who asks
  again (`AreReleased`), so that its button is released (`IsReleasing`). The order of the statuses
  that a run tells is a rank, so that "seen before" is arithmetic. TLC checked this invariant
  before it was proved.

`Implements` and the theorems about `Quotas` need that a non-empty set of numbers has a least
and a greatest element. `LeastNatural` proves it from the well-foundedness of the naturals
(`WellFoundedInduction`), and what a `CHOOSE` of an extremum returns follows. The same holds for
the pages of `RetailPricing`.

The assumptions on constants say what the code takes for granted: names of two kinds differ
(`DaemonAssumption`, `DialogsAssumption`, `FormsAssumption`, `DashboardAssumption`), an amount
that is known is no less than zero and a rate is positive (`LedgerAssumption`), a fresh
sample is younger than a gap and a forecast spans some time (`QuotasAssumption`), the plot has a
width, counted in halves (`ChartAssumption`), a request has one domain (`AnswersAssumption`), the
limits of Antigravity are numbers of tokens and answers are of the form that their schemas let
through (`LimitsAssumption`, `SchemasAssumption`), what
the server names, it names once, and agents that have no place of their own among the cards have
names that can be told apart (`CardsAssumption`), and
the lines of a transcript follow on one another in time (`TranscriptsAssumption`): an agent that
set its clock back while it wrote could have lines passed over, as the time of a file is that of
its last line.

Some of the theorems state invariants that no run lists: they were checked with TLC before they
were proved, and are named for the property in the proof module (`ModulesInTurn` states
`ModulesTakeTurns`, and so on).

Proving found one thing that model checking had not: TLA+'s `CASE` may take any arm whose guard
holds, and TLC the first. Wherever the code is a chain of `if`s whose guards overlap, the modules
now say `IF` ... `ELSE IF`.

Model-checked only:

* Everything under fairness (`CallsSettle`, `RefreshSettles`, `PricingSettles`,
  `ClientReadsEnd`): the prover supports neither `ENABLED` nor liveness.

The modules that theorems are about declare no `RECURSIVE` operator.

## 6. What is not modelled

* The text, layout and wording of everything, redaction, themes, and the drawing of charts;
  the breakdowns and shares that only charts show; what leaving the page does.
* SQL beyond what a statement does to the rows a property is about; a transaction is one
  step, and so is a statement outside of one when no await follows it. Data-quality flags, the
  records of processing runs and the diagnostic report.
* The formats of answers, telemetry and transcripts, except for what they mean; entries of a
  cache that do not validate; the age filter of Antigravity's conversations and a conversation
  in two of its roots; invoice records of xAI beyond their lines.
* Rounding, of amounts and of the positions of the pointer; the domain `"*"` of a rate that the
  API accepts beside "all domains".
* The HTTP server's launch tokens, sessions and validation; the consent of telemetry.
* Migrations, decoders (`zstd-frames`, `otlp-protobuf`), packaging and scripts.
* Two daemons on one database: `Daemon` has both, no module has their writes at the same time.
