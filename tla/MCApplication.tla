---------------------------- MODULE MCApplication ----------------------------
(****************************************************************************)
(* What the application stores and tells, and how it is set up: what the    *)
(* read model makes of usage and costs, and of quotas; the connectors that  *)
(* a person consents to, what each of them makes of the answers it gets,    *)
(* and the daemon with the settings of its monitoring.  They share no       *)
(* state, and so they are explored one at a time.                           *)
(*                                                                          *)
(* One connector of each kind: xAI API is the only managed one.  A call and *)
(* a discovery overlap.  Three daemons, one command that may start one, and *)
(* two that change settings.  Accounts answer what is left out, zero, full  *)
(* and too much, and fail in every way that is told apart.                  *)
(****************************************************************************)
EXTENDS UsageWall, Notices, ConnectorSetup, ConnectorAnswers, Daemon

VARIABLE part

allVars == <<part, vars, allNoticeVars, setupVars, connectorVars, daemonVars>>

\* Bound: rows and costs are three together.
UsageIsBounded == Cardinality(usage) + Cardinality(costs) <= 3

\* Bound: one of the two windows tells less than Percents, and its client answers.
WeekIsBounded ==
    /\ failures["codex"] = 0
    /\ \A w \in windows : w.id = "week" => w.used \in {81, NotKnown}

\* Bound: nothing more is called once a call has overlapped with something.
Begins ==
    \/ \E d \in Discoveries : discovery[d].left = {} /\ discovery'[d].left # {}
    \/ \E k \in Calls : Idle(k) /\ ~Idle(k)'
    \/ UNCHANGED <<discovery, call>>
OverlapIsBounded == overlapped => ~Begins

MCInit ==
    /\ part \in {"usage", "quotas", "connectors", "answers", "daemon"}
    /\ Init /\ NoticesInit /\ SetupInit /\ ConnectorsInit /\ DaemonInit
    /\ part # "answers" => connector = "dsh"

Aside(part1, part2, part3, part4) == UNCHANGED <<part, part1, part2, part3, part4>>

MCNext ==
    \/ /\ part = "usage" /\ Next /\ UsageIsBounded'
       /\ Aside(allNoticeVars, setupVars, connectorVars, daemonVars)
    \/ /\ part = "quotas" /\ NoticesNext /\ WeekIsBounded'
       /\ Aside(vars, setupVars, connectorVars, daemonVars)
    \/ /\ part = "connectors" /\ SetupNext /\ OverlapIsBounded
       /\ Aside(vars, allNoticeVars, connectorVars, daemonVars)
    \/ /\ part = "answers" /\ ConnectorsNext
       /\ Aside(vars, allNoticeVars, setupVars, daemonVars)
    \/ /\ part = "daemon" /\ DaemonNext
       /\ Aside(vars, allNoticeVars, setupVars, connectorVars)

MCSpec == MCInit /\ [][MCNext]_allVars
-----------------------------------------------------------------------------
(* Quotas and notices.                                                      *)

MCDomainOf == [w \in Windows |-> IF w = "five-hours" THEN "claude" ELSE "codex"]
MCOrder == <<"five-hours">>
-----------------------------------------------------------------------------
(* Usage and costs.                                                         *)

Tokens(input, output, cacheRead) ==
    [c \in Categories |-> CASE c = "input" -> input [] c = "output" -> output
                            [] c = "cacheRead" -> cacheRead [] OTHER -> 0]

Row(provider, id, domain, at, model, tokens, separate) ==
    [ provider |-> provider, id |-> id, domain |-> domain, at |-> at, model |-> model,
      attributed |-> model # None, additive |-> TRUE, tokens |-> tokens,
      separate |-> separate, fiveMinute |-> 0, oneHour |-> Unknown,
      reported |-> Unknown, remainder |-> Unknown ]

Transcript == Row("codex", <<"codex-transcript:", "1">>, "chatgpt", 1, "gpt",
                       Tokens(3, 1, 1), {})

\* A transcript that leaves a remainder, that is of a turn without tokens, or that is
\* read again later; the official total of its day and what the transcripts do not
\* account for; three domains of Grok, one that reports cache reads apart; telemetry
\* that is not added.
MCObservations ==
    { [Transcript EXCEPT !.reported = 6],
      [Transcript EXCEPT !.tokens = Tokens(0, 0, 0)],
      [Transcript EXCEPT !.tokens = Tokens(4, 1, 2), !.reported = 5],
      [Row("codex", <<"codex:daily:", "d0">>, "chatgpt", 1, None, Tokens(0, 0, 0), {})
          EXCEPT !.remainder = 9],
      [Row("codex", <<"codex-transcript:account-remainder:", "d0">>, "chatgpt", 1,
                None, Tokens(0, 0, 0), {}) EXCEPT !.remainder = 3],
      [Row("grok", <<"grok-otel:", "1">>, "grok-build-subscription", 0, "grok",
                Tokens(2, 0, 2), {"cacheRead"}) EXCEPT !.additive = FALSE],
      Row("grok", <<"grok-otel:", "2">>, "custom", 2, "grok",
               Tokens(2, 0, 2), {"cacheRead"}),
      Row("grok", <<"xai:", "1">>, "xai-api", 2, "grok", Tokens(5, 5, 0), {}) }

Cost(provider, id, domain, at, kind, amount, currency, model, of, priced) ==
    [ provider |-> provider, id |-> id, domain |-> domain, at |-> at, kind |-> kind,
      amount |-> amount, currency |-> currency, model |-> model, usage |-> of,
      priced |-> priced ]

MCCostRecords ==
    { Cost("codex", "retail:1", "chatgpt", 1, "retail-equivalent", 7, "USD", "gpt",
           <<"codex-transcript:", "1">>, 4),
      Cost("codex", "plan", "chatgpt", 0, "subscription", 20, "USD", "gpt", NoUsage, 0),
      Cost("grok", "told", "grok-build-subscription", 2, "reported-estimate", 2, "USD", None,
           NoUsage, 0),
      Cost("grok", "spent:1", "xai-api", 2, "actual", Unknown, "USD", "grok", NoUsage, 0),
      Cost("dsh", "spent:2", "dsh", 1, "actual", 3, "CNY", None, NoUsage, 0),
      Cost("dsh", "spent:3", "dsh", 2, "actual", Unknown, "CNY", None, NoUsage, 0) }

MCRateSnapshots ==
    { [id |-> "r0", base |-> "CNY", quote |-> "USD", rate |-> 2, at |-> 0],
      [id |-> "r1", base |-> "CNY", quote |-> "USD", rate |-> 3, at |-> 1] }
-----------------------------------------------------------------------------
(* Connectors and daemons.                                                  *)

AllConnectors     == {"official", "managed"}
ManagedConnectors == {"managed"}
OneDiscovery      == {"d1"}
OneCall           == {"k1"}

MCKindOf == [c \in Commands |-> c]

-----------------------------------------------------------------------------
(* Accounts and histories.                                                  *)

FailedAccount == [state |-> "failed"]
FailsAs(status) == [state |-> "failed", status |-> status]
Told(fields)  == [f \in {"state"} \cup DOMAIN fields |-> IF f = "state" THEN "told" ELSE fields[f]]

GoFailures == {FailsAs(s) : s \in {"no-key", "401", "403", "404", "429", "schema", "network"}}
TwoWindows == Told([windows |-> {[id |-> "rolling", used |-> 120, resets |-> 1],
                                 [id |-> "weekly", used |-> Unstated, resets |-> 7]}])

GrokAccounts ==
    {FailedAccount} \cup
    [state : {"told"}, configured : BOOLEAN, credit : {Unstated, 140}, used : {Unstated, 30},
     limit : {Unstated, 0, 60}, period : {"none", "weekly", "other"},
     from : {Unstated, 0}, to : {7}]

CursorAccounts ==
    {FailedAccount} \cup
    [state : {"told"}, unmetered : BOOLEAN, included : {Unstated, 140}, spent : {20},
     onDemand : {"none", "fixed", "unlimited", "disabled"}]

ManagementKey(team, scope, scopeId) == Told([team |-> team, scope |-> scope, scopeId |-> scopeId])
Point(labels, group, at, amount) ==
    [labels |-> labels, group |-> group, at |-> at, amount |-> amount]
InvoiceLine(model, unit, units) == [model |-> model, unit |-> unit, units |-> units]
Invoices(lines) == Told([list |-> {[id |-> "i1", lines |-> lines]}])

XaiAccounts ==
  [ key : {[state |-> "missing"], FailedAccount, ManagementKey("none", "SCOPE_ORGANIZATION", "o1"),
           ManagementKey("none", "SCOPE_TEAM", "t1"), ManagementKey("t1", "none", "none")},
    usage : {FailsAs("429"), Told([limitReached |-> FALSE, points |-> {}]),
             Told([limitReached |-> TRUE, points |->
                     {Point(<<"grok-4">>, <<>>, 0, 5), Point(<<>>, <<"grok-4">>, 1, Unstated),
                      Point(<<>>, <<>>, 1, 2)}])},
    balance : {FailsAs("403"), Told([cents |-> Unstated]), Told([cents |-> 7])},
    limits : {FailsAs("500"), Told([effective |-> Unstated]), Told([effective |-> 50])},
    preview : {FailsAs("422"), Told([limit |-> 0, beforeVat |-> Unstated, total |-> Unstated]),
               Told([limit |-> 80, beforeVat |-> Unstated, total |-> 60])},
    invoices : {FailsAs("network"), Told([list |-> {}]),
                Invoices(<<InvoiceLine("grok-4", {"token", "prompt"}, 3),
                           InvoiceLine("grok-4", {"token", "cache", "prompt"}, 2),
                           InvoiceLine("grok-4", {"token", "completion"}, 1),
                           InvoiceLine("grok-4", {"token", "reason"}, 1),
                           InvoiceLine("grok-3", {"token", "prompt"}, 1),
                           InvoiceLine("grok-4", {"request"}, 9)>>),
                Invoices(<<InvoiceLine("grok-4", {"token", "prompt"}, -1)>>)} ]

Bucket(group, window, remaining) ==
    [group |-> group, window |-> window, remaining |-> remaining]
Port(groups) == Told([groups |-> groups])
Antigravities ==
      [ports : {<<>>,
              <<FailedAccount, Port({Bucket("gemini", "Month", 30)}),
                Port({Bucket("gemini", "Week", 30)})>>,
              <<Port({}), Port({Bucket("gemini", "5 hour", 30), Bucket("claude", "Week", 10),
                                Bucket("claude", "5 hour", Unstated)})>>}]

SomeAccounts ==
    [c \in {"claude-code", "grok", "cursor", "dsh", "opencode-go", "xai-api", "antigravity"} |->
        CASE c = "claude-code" -> {FailedAccount, TwoWindows}
          [] c = "grok"        -> GrokAccounts
          [] c = "cursor"      -> CursorAccounts
          [] c = "dsh"         -> {FailedAccount}
          [] c = "opencode-go" -> GoFailures \cup {TwoWindows}
          [] c = "xai-api"     -> XaiAccounts
          [] OTHER             -> Antigravities]

TwoRequests == {[n |-> 1, domain |-> "custom"], [n |-> 2, domain |-> "primary"]}
=============================================================================
