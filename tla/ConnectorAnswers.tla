--------------------------- MODULE ConnectorAnswers --------------------------
(****************************************************************************)
(* What a connector makes of the sources it reads: its account, which may   *)
(* fail in part or in whole, and the local history of its agent, which may  *)
(* be told in part; and what becomes of the usage that was stored before.   *)
(* Codex reconciles its two sources and is in CodexDays; how a history is   *)
(* read from transcripts is in Transcripts, and that of Antigravity, whose  *)
(* databases are cached by the time of their files, is here.                *)
(****************************************************************************)
EXTENDS Integers, Sequences, FiniteSets, FiniteSetsExt

CONSTANTS
    Accounts,       \* of each connector: what its account may answer, failures included
    Requests,       \* [n, domain]: what agents can tell of in a local history
    Conversations,  \* databases of Antigravity
    SprintLimit,    \* rows that fill the short window and the week of Antigravity
    WeekLimit,
    MaxTurns,        \* bound: rows of a database
    MaxNow,         \* bound: passing of time
    MaxChanges      \* bound: what happens to the local history of an agent

\* The connectors that there are; and the id of a request tells its domain.
AnswersAssumption ==
    /\ DOMAIN Accounts \subseteq {"claude-code", "grok", "cursor", "dsh", "opencode-go", "xai-api",
                                  "antigravity"}
    /\ \A r, s \in Requests : r.n = s.n => r.domain = s.domain
    /\ MaxTurns \in Nat
ASSUME AnswersAssumption

\* The limits of Antigravity are tokens, and its databases can be counted.
LimitsAssumption ==
    /\ SprintLimit \in Nat \ {0} /\ WeekLimit \in Nat \ {0}
    /\ IsFiniteSet(Conversations)
ASSUME LimitsAssumption

IsSequence(s) == s \in Seq({s[i] : i \in DOMAIN s})

\* What the schemas of the answers let through: an invoice has lines of so many units each; and
\* a port of Antigravity tells what remains of a bucket, or that it does not say.
SchemasAssumption ==
    /\ "xai-api" \in DOMAIN Accounts =>
          \A account \in Accounts["xai-api"] :
              /\ account.key.state \in {"told", "missing", "failed"}
              /\ account.invoices.state = "told" =>
                    \A invoice \in account.invoices.list :
                        /\ IsSequence(invoice.lines)
                        /\ \A i \in DOMAIN invoice.lines : invoice.lines[i].units \in Int
    /\ "antigravity" \in DOMAIN Accounts =>
          \A account \in Accounts["antigravity"] :
              /\ IsSequence(account.ports)
              /\ \A i \in DOMAIN account.ports : account.ports[i].state = "told" =>
                    \A bucket \in account.ports[i].groups : bucket.remaining \in Int
ASSUME SchemasAssumption

VARIABLES
    connector,      \* which one is looked at
    held,           \* the requests in the history of the agent
    stored,         \* usage that is stored for it
    last,           \* what its sources answered to this refresh
    changed,        \* number of changes of the local history
    rows,           \* the times of the rows of each database of Antigravity
    inFile,         \* how many of them have left the log of the database for its file
    summarised,     \* databases that the summaries list
    fileCache,      \* #fileCache: [stamp, rows]
    cacheFile,      \* what is stored of it
    instant

databaseVars  == <<rows, inFile, summarised, fileCache, cacheFile, instant>>
connectorVars == <<connector, held, stored, last, changed, databaseVars>>

Unstated == -1
IsTold(answer) == answer.state = "told"

\* A ?? B
OrElse(a, b) == IF a # Unstated THEN a ELSE b

Bounded(percent) == Max({0, Min({100, percent})})
Clamped(percent) == IF percent = Unstated THEN Unstated ELSE Bounded(percent)
Percent(used, limit) ==
    IF Unstated \in {used, limit} \/ limit <= 0 THEN Unstated ELSE Bounded((100 * used) \div limit)

Usage(prefix, requests) == {[prefix |-> prefix, n |-> r.n, domain |-> r.domain] : r \in requests}

Blank == [rejected |-> FALSE, domains |-> {}, quotas |-> {}, complete |-> FALSE, usage |-> {},
          authoritative |-> {}, retired |-> {}, balances |-> {}, costs |-> {}, warnings |-> <<>>]

-----------------------------------------------------------------------------
(* Histories.                                                              *)

Unread == [state |-> "failed", usage |-> {}, complete |-> FALSE, unsupported |-> FALSE]

\* A client tells all of a history or says that it does not; some connectors have none.
Histories(of) ==
    IF connector \in {"cursor", "xai-api"} THEN {Unread} ELSE
    {Unread, [state |-> "told", usage |-> of, complete |-> TRUE, unsupported |-> FALSE]} \cup
    [state : {"told"}, usage : SUBSET of, complete : {FALSE}, unsupported : BOOLEAN]

\* Faulty variant: an answer that is incomplete replaces what is stored.
ReplacesInAnyCase(read) == read.usage # {}

Replaces(read) == read.usage # {} /\ read.complete

Reconciled(snapshot, read, authoritative, retired) ==
    IF Replaces(read) THEN [snapshot EXCEPT !.authoritative = {authoritative}, !.retired = retired]
    ELSE snapshot

Incomplete(read) == IF read.complete THEN <<>> ELSE <<"local-transcript-scan-incomplete">>

DomainsIn(primary, read) == {primary} \cup {r.domain : r \in read.usage}

-----------------------------------------------------------------------------
(* Claude, Grok, Cursor, dsh and OpenCode Go.                              *)

Buckets(account) ==
    {[id |-> w.id, used |-> Clamped(w.used), resets |-> w.resets] : w \in account.windows}

CollectClaude(account, read) ==
    Reconciled([Blank EXCEPT
        !.rejected = ~IsTold(read),
        !.domains  = {"subscription"},
        !.quotas   = IF IsTold(account) THEN Buckets(account) ELSE {},
        !.usage    = Usage("claude-transcript",
                           {[n |-> r.n, domain |-> "subscription"] : r \in read.usage}),
        !.warnings = (IF IsTold(account) THEN <<>> ELSE <<"claude-quota">>) \o Incomplete(read)],
        read, "claude-transcript", {"claude-otel"})

GrokPeriod(account) ==
    CASE account.period = "weekly" -> "weekly"
      [] account.period \in {"monthly", "none"} -> "monthly"
      [] OTHER -> "usage"

GrokDuration(account) ==
    IF Unstated \notin {account.from, account.to} /\ account.to > account.from
    THEN account.to - account.from
    ELSE CASE GrokPeriod(account) = "weekly"  -> 7
           [] GrokPeriod(account) = "monthly" -> 30
           [] OTHER                           -> Unstated

GrokQuota(account) ==
    LET used == Clamped(OrElse(account.credit, Percent(account.used, account.limit)))
    IN  IF ~account.configured \/ used = Unstated THEN {}
        ELSE {[id |-> GrokPeriod(account), used |-> used, resets |-> account.to,
               lasts |-> GrokDuration(account)]}

CollectGrok(account, read) ==
    LET quotas == IF IsTold(account) THEN GrokQuota(account) ELSE {}
    IN  Reconciled([Blank EXCEPT
            !.rejected = ~IsTold(read),
            !.domains  = DomainsIn("grok-build-subscription", read),
            !.quotas   = quotas,
            !.usage    = Usage("grok-transcript", read.usage),
            !.warnings = (IF quotas = {} THEN <<"grok-quota">> ELSE <<>>) \o Incomplete(read)],
            read, "grok-transcript", {"grok-otel", "grok-headless"})

\* An account of Cursor without windows is complete; one that could not be read is not.
CollectCursor(account) ==
    LET included == [id |-> "included", used |-> Clamped(account.included)]
        onDemand == [id |-> "on-demand",
                     used |-> IF account.onDemand = "fixed" THEN account.spent ELSE Unstated]
    IN  IF ~IsTold(account)
        THEN [Blank EXCEPT !.domains = {"cursor-subscription"}, !.warnings = <<"cursor-quota">>]
        ELSE [Blank EXCEPT
                !.domains  = {"cursor-subscription"},
                !.complete = TRUE,
                !.quotas   = IF account.unmetered THEN {}
                             ELSE {included} \cup
                                  (IF account.onDemand = "none" THEN {} ELSE {onDemand})]

CollectDsh(read) ==
    Reconciled([Blank EXCEPT
        !.domains  = DomainsIn("deepseek-official", read),
        !.usage    = Usage("dsh-transcript", read.usage),
        !.warnings = IF ~IsTold(read) THEN <<"dsh-session-log-read-failed">>
                     ELSE IF read.unsupported THEN <<"dsh-session-format-unsupported">>
                     ELSE IF ~read.complete THEN <<"dsh-session-log-scan-incomplete">> ELSE <<>>],
        read, "dsh-transcript", {})

GoFailure(status) ==
    CASE status = "no-key" -> "opencode-go-key-unavailable"
      [] status = "401" -> "go-authentication-failed"
      [] status = "403" -> "go-subscription-required"
      [] status \in {"404", "405"} -> "go-usage-endpoint-unsupported"
      [] status = "429" -> "go-usage-endpoint-rate-limited"
      [] status = "schema" -> "go-usage-schema-changed"
      [] OTHER -> "go-usage-endpoint-unavailable"

\* The usage of OpenCode is told by another connector: what is stored for this one goes once
\* the history of the agent has been read.
CollectGo(account, read) ==
    [Blank EXCEPT
        !.domains  = {"go-subscription"},
        !.quotas   = IF IsTold(account) THEN Buckets(account) ELSE {},
        !.authoritative = IF IsTold(read) THEN {"opencode-request"} ELSE {},
        !.retired  = IF IsTold(read) THEN {"opencode-session"} ELSE {},
        !.warnings = (IF IsTold(account) THEN <<>> ELSE <<GoFailure(account.status)>>) \o
                     (IF IsTold(read) THEN <<>> ELSE <<"opencode-local-history">>)]

-----------------------------------------------------------------------------
(* The xAI API: a key that names its team, and five endpoints that answer  *)
(* for themselves.                                                         *)

Endpoints == {"usage", "balance", "limits", "preview", "invoices"}

EndpointFailure(status) ==
    CASE status = "429" -> "xai-api-rate-limited"
      [] status \in {"401", "403"} -> "xai-api-permission-denied"
      [] status = "422" -> "xai-api-schema-changed"
      [] OTHER -> "xai-api-endpoint-unavailable"

\* A key of another scope names no team.
TeamId(key) == IF key.team # "none" THEN key.team
               ELSE IF key.scope = "SCOPE_TEAM" THEN key.scopeId ELSE "none"

Value(answer, field) == IF IsTold(answer) THEN answer[field] ELSE Unstated

SpendingLimit(account) ==
    OrElse(Value(account.limits, "effective"), Value(account.preview, "limit"))
CurrentInvoice(account) ==
    OrElse(Value(account.preview, "beforeVat"), Value(account.preview, "total"))

\* The unit of a line is the words in its name.
TokenKind(unit) ==
    IF "token" \notin unit THEN "none"
    ELSE IF "cache" \in unit THEN "cacheRead"
    ELSE IF "reason" \in unit THEN "reasoning"
    ELSE IF unit \cap {"prompt", "input"} # {} THEN "input"
    ELSE IF unit \cap {"completion", "output"} # {} THEN "output" ELSE "none"

TokenKinds == {"input", "output", "reasoning", "cacheRead"}

\* Lines of a model are added up, whichever interface was used.
InvoiceTokens(invoice) ==
    LET lines == {i \in DOMAIN invoice.lines : TokenKind(invoice.lines[i].unit) # "none"}
        of(model) == {i \in lines : invoice.lines[i].model = model}
        units(is) == SumFunction([i \in is |-> invoice.lines[i].units])
    IN  {[invoice |-> invoice.id, model |-> model,
          tokens |-> [kind \in TokenKinds |->
              units({i \in of(model) : TokenKind(invoice.lines[i].unit) = kind})]] :
         model \in {invoice.lines[i].model : i \in lines}}

AccountTokens(account) ==
    IF IsTold(account.invoices) THEN UNION {InvoiceTokens(i) : i \in account.invoices.list} ELSE {}

\* The first label of a series stands for its model.
SeriesModel(series) ==
    IF series.labels # <<>> THEN series.labels[1]
    ELSE IF series.group # <<>> THEN series.group[1] ELSE "Unlabeled usage"

UsageCosts(account) ==
    IF ~IsTold(account.usage) THEN {}
    ELSE {[id |-> <<SeriesModel(p), p.at>>, amount |-> p.amount] :
             p \in {q \in account.usage.points : q.amount # Unstated}}

Balances(account) ==
    {b \in {[id |-> "prepaid-balance", cents |-> Value(account.balance, "cents")],
            [id |-> "spending-limit", cents |-> SpendingLimit(account)],
            [id |-> "current-invoice", cents |-> CurrentInvoice(account)]} :
        b.cents # Unstated}

XaiQuotas(account) ==
    IF SpendingLimit(account) = Unstated THEN {}
    ELSE {[id |-> "monthly-spending-limit",
           used |-> Percent(CurrentInvoice(account), SpendingLimit(account))]}

\* The warning about an endpoint, in a sequence of at most one.
Failure(answer) == IF IsTold(answer) THEN <<>> ELSE <<EndpointFailure(answer.status)>>

XaiWarnings(account) ==
    Failure(account.usage) \o Failure(account.balance) \o Failure(account.limits) \o
    Failure(account.preview) \o Failure(account.invoices) \o
    (IF IsTold(account.usage) /\ account.usage.limitReached
     THEN <<"xai-api-history-partial">> ELSE <<>>)

CollectXai(account) ==
    LET nothing(code) == [Blank EXCEPT !.domains = {"xai-api"}, !.warnings = <<code>>]
    IN  IF account.key.state = "missing" THEN nothing("xai-management-key-missing")
        ELSE IF account.key.state = "failed" THEN nothing("xai-api-connector-failed")
        ELSE IF TeamId(account.key) = "none" THEN nothing("xai-management-team-scope-required")
        ELSE [Blank EXCEPT
                !.domains  = {"xai-api"},
                !.quotas   = XaiQuotas(account),
                !.usage    = {[prefix |-> "xai-invoice", n |-> <<t.invoice, t.model>>,
                               domain |-> "xai-api"] : t \in AccountTokens(account)},
                !.balances = Balances(account),
                !.costs    = UsageCosts(account),
                !.warnings = XaiWarnings(account)]

\* normalizeTokenObservation refuses a number of tokens that is negative.
IsStorable(account) ==
    connector = "xai-api" /\ account.key.state = "told" /\ TeamId(account.key) # "none" =>
        \A t \in AccountTokens(account) : \A kind \in TokenKinds : t.tokens[kind] >= 0

-----------------------------------------------------------------------------
(* Antigravity: its databases, and a server that may run on some port.     *)

\* The databases that are looked at: all, unless the summaries list any.
Listed(hidden) ==
    {c \in Conversations : rows[c] # <<>> /\ c \notin hidden} \cap
    (IF summarised = {} THEN Conversations ELSE summarised)

IsUnchanged(cache, c) == c \in DOMAIN cache /\ cache[c].stamp = inFile[c]

\* What is told of a database: what is cached of it, unless its file was written.
RowsTold(cache, c, unreadable) ==
    IF IsUnchanged(cache, c) THEN 1 .. cache[c].rows
    ELSE IF c \in unreadable THEN {} ELSE DOMAIN rows[c]

DatabaseHistory(cache, listed, unreadable) ==
    [state |-> "told", unsupported |-> FALSE,
     usage |-> {[n |-> x, domain |-> "code-assist-subscription"] :
                   x \in {y \in listed \X (1 .. MaxTurns) :
                            y[2] \in RowsTold(cache, y[1], unreadable)}},
     complete |-> \A c \in listed \cap unreadable : IsUnchanged(cache, c)]

NextCache(cache, listed, unreadable) ==
    [c \in listed \cap (DOMAIN cache \cup (Conversations \ unreadable)) |->
        IF IsUnchanged(cache, c) \/ c \in unreadable THEN cache[c]
        ELSE [stamp |-> inFile[c], rows |-> Len(rows[c])]]

\* A bucket that is neither of five hours nor of a week is left out.
ServerBuckets(groups) ==
    {[group |-> b.group, window |-> b.window, from |-> "server", resets |-> Unstated,
      used |-> IF b.remaining = Unstated THEN Unstated ELSE Bounded(100 - b.remaining)] :
        b \in {x \in groups : x.window \in {"5 hour", "Week"}}}

\* The first port that answers with groups is believed.
ServerQuota(ports) ==
    LET answering == {i \in DOMAIN ports : ports[i].state = "told" /\ ports[i].groups # {}}
    IN  IF answering = {} THEN {} ELSE ServerBuckets(ports[Min(answering)].groups)

\* Buckets of one and of two instants.
LocalBucket(window, length, limit, read) ==
    LET times == {t \in {rows[r.n[1]][r.n[2]] : r \in read.usage} : t >= instant - length}
        tokens == Cardinality({r \in read.usage : rows[r.n[1]][r.n[2]] >= instant - length})
    IN  [group |-> "gemini", window |-> window, from |-> "local", used |-> Percent(tokens, limit),
         resets |-> (IF times = {} THEN instant ELSE Min(times)) + length]

\* Faulty variant: what is derived from the history goes beside what the server told.
WithLocal(server, derived) == server \cup derived

\* What is derived from the history fills in for windows the server did not tell.
WithFallback(server, derived) ==
    LET has(window) == \E b \in server : b.group = "gemini" /\ b.window = window
    IN  server \cup {b \in derived : ~has(b.window)}

CollectAntigravity(account, read) ==
    Reconciled([Blank EXCEPT
        !.domains  = DomainsIn("code-assist-subscription", read),
        !.quotas   = WithFallback(ServerQuota(account.ports),
                                  {LocalBucket("5 hour", 1, SprintLimit, read),
                                   LocalBucket("Week", 2, WeekLimit, read)}),
        !.usage    = Usage("antigravity", read.usage),
        !.warnings = IF ~IsTold(read) THEN <<"antigravity-sqlite-read-failed">>
                     ELSE IF read.complete THEN <<>> ELSE <<"antigravity-session-scan-incomplete">>],
        read, "antigravity", {})

-----------------------------------------------------------------------------
(* A connector is asked again and again.                                   *)

NoAnswer == [asked |-> FALSE]

ConnectorsInit ==
    /\ connector \in DOMAIN Accounts
    /\ held = {} /\ stored = {} /\ last = NoAnswer /\ changed = 0
    /\ rows = [c \in Conversations |-> <<>>]
    /\ inFile = [c \in Conversations |-> 0]
    /\ summarised = {} /\ fileCache = <<>> /\ cacheFile = <<>> /\ instant = 0

Snapshot(answers) ==
    CASE connector = "claude-code" -> CollectClaude(answers.account, answers.read)
      [] connector = "grok"        -> CollectGrok(answers.account, answers.read)
      [] connector = "cursor"      -> CollectCursor(answers.account)
      [] connector = "dsh"         -> CollectDsh(answers.read)
      [] connector = "opencode-go" -> CollectGo(answers.account, answers.read)
      [] connector = "xai-api"     -> CollectXai(answers.account)
      [] OTHER                     -> CollectAntigravity(answers.account, answers.read)

IsStored(answers) == ~Snapshot(answers).rejected /\ IsStorable(answers.account)

\* What a snapshot retires or no longer tells of goes, and what it tells comes.
SaveUsage(snapshot) ==
    stored' = {u \in stored : /\ u.prefix \notin snapshot.retired \cup snapshot.authoritative
                              /\ \A v \in snapshot.usage : <<v.prefix, v.n>> # <<u.prefix, u.n>>}
              \cup snapshot.usage

Answered(answers) ==
    /\ last' = answers
    /\ IF IsStored(answers) THEN SaveUsage(Snapshot(answers)) ELSE UNCHANGED stored

Collects ==
    /\ connector # "antigravity" /\ ~last.asked
    /\ \E account \in Accounts[connector], read \in Histories(held) :
          Answered([asked |-> TRUE, account |-> account, read |-> read])
    /\ UNCHANGED <<connector, held, changed, databaseVars>>

\* A database that cannot be looked at is passed over, and one that cannot be opened is a gap.
\* A hard rebuild starts from no cache.
CollectsDatabases ==
    /\ connector = "antigravity" /\ ~last.asked
    /\ \E account \in Accounts[connector], hidden, unreadable \in SUBSET Conversations,
          cache \in {fileCache, <<>>} :
          /\ hidden \cap unreadable = {} /\ Cardinality(hidden \cup unreadable) <= 1
          /\ Answered([asked |-> TRUE, account |-> account, hidden |-> hidden,
                       read |-> DatabaseHistory(cache, Listed(hidden), unreadable)])
          /\ fileCache' = NextCache(cache, Listed(hidden), unreadable)
    /\ cacheFile' \in {cacheFile, fileCache'}
    /\ UNCHANGED <<connector, held, changed, rows, inFile, summarised, instant>>

\* The history of Antigravity cannot be read at all.
FailsToReadDatabases ==
    /\ connector = "antigravity" /\ ~last.asked
    /\ \E account \in Accounts[connector] :
          Answered([asked |-> TRUE, account |-> account, hidden |-> {}, read |-> Unread])
    /\ UNCHANGED <<connector, held, changed, databaseVars>>

WaitsForNextRefresh ==
    /\ last.asked
    /\ last' = NoAnswer
    /\ UNCHANGED <<connector, held, stored, changed, databaseVars>>

Happened == changed < MaxChanges /\ changed' = changed + 1
agentVars == <<connector, stored, last>>

\* The agent works, or its history is tidied up.
HistoryChanges ==
    /\ Happened
    /\ connector \in {"claude-code", "grok", "dsh"}
    /\ \E r \in Requests : held' = IF r \in held THEN held \ {r} ELSE held \cup {r}
    /\ UNCHANGED <<connector, stored, last, databaseVars>>

\* Telemetry of the agent is stored beside what its connector tells, and older versions left
\* usage of another kind.
OtherUsage == [ c \in DOMAIN Accounts |->
    CASE c = "claude-code" -> "claude-otel" [] c = "grok" -> "grok-otel"
      [] c = "opencode-go" -> "opencode-request" [] OTHER -> "none"]

IngestsTelemetry ==
    /\ Happened
    /\ OtherUsage[connector] # "none"
    /\ \E r \in Requests : stored' = stored \cup Usage(OtherUsage[connector], {r})
    /\ UNCHANGED <<connector, held, last, databaseVars>>

\* A row is written to the log of its database, and then to its file.
Generates(c) ==
    /\ Happened
    /\ connector = "antigravity" /\ Len(rows[c]) < MaxTurns
    /\ rows' = [rows EXCEPT ![c] = Append(@, instant)]
    /\ inFile' \in {inFile, [inFile EXCEPT ![c] = Len(rows[c]) + 1]}
    /\ summarised' \in {summarised, summarised \cup {c}}
    /\ UNCHANGED <<agentVars, held, fileCache, cacheFile, instant>>

Checkpoints(c) ==
    /\ inFile[c] < Len(rows[c])
    /\ inFile' = [inFile EXCEPT ![c] = Len(rows[c])]
    /\ UNCHANGED <<agentVars, held, changed, rows, summarised, fileCache, cacheFile, instant>>

TimeGoesOn ==
    /\ connector = "antigravity" /\ instant < MaxNow
    /\ instant' = instant + 1
    /\ UNCHANGED <<agentVars, held, changed, rows, inFile, summarised, fileCache, cacheFile>>

RestartClient ==
    /\ fileCache' = cacheFile
    /\ UNCHANGED <<agentVars, held, changed, rows, inFile, summarised, cacheFile, instant>>

ConnectorsNext ==
    \/ Collects \/ CollectsDatabases \/ FailsToReadDatabases \/ WaitsForNextRefresh
    \/ HistoryChanges \/ IngestsTelemetry
    \/ \E c \in Conversations : Generates(c) \/ Checkpoints(c)
    \/ TimeGoesOn \/ RestartClient

ConnectorsSpec == ConnectorsInit /\ [][ConnectorsNext]_connectorVars

-----------------------------------------------------------------------------
(* Properties.                                                             *)

\* Usage that is stored leaves only as its source allows: a request that the agent has no more
\* by an answer that is complete, what another source told of by the answer that takes its
\* place, and never by a source that failed, told a part or told nothing. A conversation of
\* Antigravity also leaves when its database was passed over, and a row when it was read from a
\* log and is cached no more, although the answer is called complete.
UsageLeavesOnlyWithItsSource ==
    [][\A u \in stored \ stored' :
          CASE connector = "opencode-go" -> IsTold(last'.read)
            [] connector = "antigravity" ->
                  /\ last'.read.complete
                  /\ \/ u.n[1] \in last'.hidden
                     \/ summarised # {} /\ u.n[1] \notin summarised
                     \/ u.n[2] > inFile[u.n[1]]
            [] OTHER ->
                  /\ last'.read.complete /\ last'.read.usage # {}
                  /\ u.prefix = OtherUsage[connector] \/ \A r \in held : r.n # u.n]_connectorVars

\* The sources have told all, those that their connector warns of.
SourcesHaveTold ==
    /\ CASE connector \in {"dsh", "antigravity"} -> TRUE
         [] connector = "grok" -> IsTold(last.account) /\ GrokQuota(last.account) # {}
         [] connector = "xai-api" ->
               /\ IsTold(last.account.key) /\ TeamId(last.account.key) # "none"
               /\ \A e \in Endpoints : IsTold(last.account[e])
               /\ ~last.account.usage.limitReached
         [] OTHER -> IsTold(last.account)
    /\ CASE connector \in {"cursor", "xai-api"} -> TRUE
         [] connector = "opencode-go" -> IsTold(last.read)
         [] OTHER -> last.read.complete

\* Of each window of Antigravity: what the server told and nothing else; and if it told nothing,
\* nothing that passes for told by it.
WindowsAreTold(quotas, server) ==
    \A window \in {"5 hour", "Week"} :
        LET of(buckets) == {b \in buckets : b.group = "gemini" /\ b.window = window}
        IN  IF of(server) # {} THEN of(quotas) = of(server)
            ELSE \A b \in of(quotas) : b.from = "local"

\* All tokens of an invoice are under some model.
TokensAreTold(invoice) ==
    SumFunction([t \in InvoiceTokens(invoice) |-> SumFunction(t.tokens)])
    = SumFunction([i \in DOMAIN invoice.lines |->
                      IF TokenKind(invoice.lines[i].unit) = "none" THEN 0
                      ELSE invoice.lines[i].units])

\* A snapshot warns exactly when its account or its history did not tell all, and tells what
\* the others told: each usage within a domain that it names, all tokens of an invoice under
\* some model, and for each window of Antigravity nothing beside what the server told. Of
\* Antigravity it is only the history that counts: no snapshot warns that its server was
\* silent (the catch at antigravity-connector.ts:84) or that a database was passed over
\* (antigravity-sqlite-usage-client.ts:171), dsh has no account, and Cursor and the xAI API
\* have no history.
SnapshotsTellTheirSources ==
    last.asked =>
        LET s == Snapshot(last)
        IN  /\ (s.warnings = <<>>) <=> (SourcesHaveTold /\ ~s.rejected)
            /\ \A u \in s.usage : u.domain \in s.domains
            /\ connector = "xai-api" /\ last.account.key.state = "told" =>
                  \A i \in (IF IsTold(last.account.invoices) THEN last.account.invoices.list
                            ELSE {}) : TokensAreTold(i)
            /\ connector = "antigravity" =>
                  /\ WindowsAreTold(s.quotas, ServerQuota(last.account.ports))
                  /\ \A b \in s.quotas : b.used \in 0 .. 100 \cup {Unstated}

\* What the documents promise and the code does not do.

\* A percentage of a quota is never derived against a capacity that was assumed: without its
\* server, the quota of Antigravity is unavailable (CONTEXT.md).
QuotasAreStated ==
    last.asked /\ connector = "antigravity" =>
        \A b \in Snapshot(last).quotas : b.from = "server"
=============================================================================
