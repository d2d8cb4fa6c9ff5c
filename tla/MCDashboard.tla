---------------------------- MODULE MCDashboard ----------------------------
(***************************************************************************)
(* The page: its data, its dialogs, its settings, its cards and its chart  *)
(* share no state, and so they are explored one at a time.                 *)
(***************************************************************************)
EXTENDS Dashboard, Dialogs, SettingsForms, AgentCards, TrendChart

VARIABLE part

allVars == <<part, dataVars, dialogVars, formVars, cardVars, chartVars>>

\* A stale provider with one domain, which its diagnostics call stale too, or which is
\* rate-limited, and then nothing it says calls for a refresh, or timed out.
MCProvider(freshness, category) ==
    [id |-> "codex", summary |-> "plan", freshness |-> freshness, category |-> category,
     domains |-> {[id |-> "plan", freshness |-> Inherited, category |-> Inherited]}]

MCReport(category) ==
    {[id |-> "connector", provider |-> "codex", domain |-> "plan", category |-> category]}

Stale == [providers |-> {MCProvider("stale", "healthy")}, report |-> MCReport("stale")]
Limited == [providers |-> {MCProvider("stale", "rate-limited")},
            report |-> MCReport("rate-limited")]
TimedOut == [providers |-> {MCProvider("stale", "timeout")}, report |-> MCReport("timeout")]
MCEvidence == {Stale, Limited, TimedOut}

\* Where reports overtake each other both evidences call for a refresh.
MCEvidenceOf(budget) ==
    {Stale, IF budget.overtakings * budget.changes > 0 THEN TimedOut ELSE Limited}

Budget(selects, commands, losses, changes, overtakings, fired) ==
    [selects |-> selects, commands |-> commands, losses |-> losses, changes |-> changes,
     overtakings |-> overtakings, fired |-> fired]
MCBudgets == {Budget(2, 0, 0, 0, 0, 0), Budget(1, 1, 0, 0, 0, 0), Budget(0, 1, 1, 0, 0, 0),
              Budget(0, 1, 0, 0, 1, 0), Budget(0, 0, 1, 1, 0, 2), Budget(1, 0, 1, 0, 0, 1),
              Budget(0, 1, 0, 0, 0, 1), Budget(0, 0, 0, 1, 1, 6)}

MCData ==
    /\ DataInit
    /\ server.evidence = <<IF history.budget.fired = 0 THEN Limited ELSE Stale>>
    /\ LET budget == history.budget
       IN  budget.selects + budget.commands + budget.fired > 1 => IsOver(server.run)

\* Bound: a module fails only where nothing is lost, the evidence stays and the page
\* refreshes for a person.
FailuresAreBounded ==
    LET budget == history.budget
    IN  budget.losses + budget.changes + budget.fired > 0 => server.run.failed = {}

\* What a part that is not explored begins in is of no interest.
AsideData == history.budget = Budget(2, 0, 0, 0, 0, 0)
             /\ IsOver(server.run)
AsideCards ==
    /\ overview = <<>> /\ connections = <<>> /\ index = <<>>
    /\ requested = {} /\ selectedDomains = <<>>
AsideForms == \A r \in Rates : stored[r] = NoItem

MCInit ==
    /\ part \in {"data", "dialogs", "forms", "cards", "chart"}
    /\ MCData /\ DialogsInit /\ FormsInit /\ ChartInit
    /\ IF part = "cards" THEN CardsInit ELSE AsideCards
    /\ part # "data" => AsideData
    /\ part # "forms" => AsideForms
    /\ part # "chart" => total = 0

Aside(part1, part2, part3, part4) == UNCHANGED <<part, part1, part2, part3, part4>>

MCNext ==
    \/ /\ part = "data" /\ DataNext /\ Aside(dialogVars, formVars, cardVars, chartVars)
       /\ server'.evidence[Latest'] \in MCEvidenceOf(history.budget) /\ FailuresAreBounded'
    \/ part = "dialogs" /\ DialogsNext /\ Aside(dataVars, formVars, cardVars, chartVars)
    \/ part = "forms" /\ FormsNext /\ Aside(dataVars, dialogVars, cardVars, chartVars)
    \/ part = "cards" /\ CardsNext /\ Aside(dataVars, dialogVars, formVars, chartVars)
    \/ part = "chart" /\ ChartNext /\ Aside(dataVars, dialogVars, formVars, cardVars)

Spec == MCInit /\ [][MCNext]_allVars
-----------------------------------------------------------------------------
(* The answers about the agents.                                           *)

MCBucket(id, label) == [id |-> id, label |-> label]
MCDomain(id, quotas) == [id |-> id, fresh |-> TRUE, quotas |-> quotas]
MCAgent(id, name, domains) ==
    [id |-> id, name |-> name, fresh |-> TRUE, quotas |-> <<>>, domains |-> domains]

\* The labels of two model groups, and of none, in the orders clients report them.
MCQuotas == {<<MCBucket(1, <<"week", "All">>), MCBucket(2, <<"5 hours", "GPT">>),
               MCBucket(3, <<"GPT", "week">>), MCBucket(4, <<"5 hours", "All">>)>>,
             <<MCBucket(1, <<"GPT">>), MCBucket(2, <<"month">>), MCBucket(3, <<"GPT", "5 hours">>),
               MCBucket(4, <<"week">>)>>}

MCProviders ==
    {MCAgent("codex", "Codex", <<MCDomain("plan", <<>>)>>),
     MCAgent("codex", "Codex", <<MCDomain("api", <<>>), MCDomain("plan", <<>>)>>),
     MCAgent("grok", "Grok", <<MCDomain("xai", <<>>), MCDomain("grok-build-subscription", <<>>)>>),
     MCAgent("zed", "Zed", <<>>)}
    \cup {MCAgent("antigravity", "Antigravity", <<MCDomain("plan", q)>>) : q \in MCQuotas}

MCConnector(provider, name, domain) ==
    [target |-> [id |-> provider, name |-> name, domain |-> domain]]
MCConnections ==
    {<<MCConnector("codex", "Codex", "plan"), MCConnector("opencode", "opencode", "api"),
       MCConnector("grok", "Grok", "xai"), MCConnector("amp", "Amp", "plan"),
       MCConnector("codex", "Codex", "api")>>}

MCIndexes == {<<[id |-> "zed", name |-> "Zed"], [id |-> "dsh", name |-> "dsh"],
                [id |-> "codex", name |-> "Codex"], [id |-> "amp", name |-> "Amp"]>>,
              <<>>}

Names == <<"Amp", "Antigravity", "Claude", "Codex", "Cursor", "Go", "Grok", "Zed">>
MCNameRank == [name \in {Names[i] : i \in DOMAIN Names} |->
                  CHOOSE i \in DOMAIN Names : Names[i] = name]
=============================================================================
