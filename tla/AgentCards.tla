----------------------------- MODULE AgentCards -----------------------------
(***************************************************************************)
(* The cards of the agents: which card the page makes of an overview, of   *)
(* the connectors and of the index of agents, which arrive one by one, the *)
(* billing domain each card shows, the order of its quota windows and the  *)
(* lanes it hands to the quota timeline.                                   *)
(***************************************************************************)
EXTENDS Integers, Sequences, FiniteSets

CONSTANTS
    Providers,      \* the answers of the server about one provider
    ProviderIds,    \* the agents there are
    Connections,    \* the sequences of connectors the server may list
    Indexes,        \* the sequences of [id, name] the index may hold
    NameRank        \* where a display name stands in the alphabet

VARIABLES
    overview,           \* the providers of the overview shown
    connections,        \* the connectors shown
    index,              \* the index of agents shown
    requested,          \* the agents that were asked for
    selectedDomains     \* by provider, the billing domain a person chose, or NotChosen

cardVars == <<overview, connections, index, requested, selectedDomains>>

NotChosen == "not chosen"

NoWindow == 4

\* A label is a sequence of segments; a segment that names no window names a model group.
WindowOf(segment) ==
    CASE segment = "5 hours" -> 1 [] segment = "week" -> 2 [] segment = "month" -> 3
      [] OTHER -> NoWindow

-----------------------------------------------------------------------------
(* Sequences as the page sorts and searches them.                          *)

\* s, with its elements worked out once.
Listed(s) == <<>> \o s

\* What s has at some places, by the key of each place. Array.sort keeps the order of what
\* compares equal.
SortedAt(s, at, key) ==
    LET rank(i) == Cardinality({j \in at : key[j] < key[i] \/ (key[j] = key[i] /\ j <= i)})
    IN  Listed([k \in 1 .. Cardinality(at) |-> s[CHOOSE i \in at : rank(i) = k]])

SortedBy(s, key) == SortedAt(s, DOMAIN s, key)

\* Array.filter: what s has at some places.
Chosen(s, at) == SortedAt(s, at, [i \in at |-> i])

\* The elements of s, each where it comes first.
Firsts(s) == Chosen(s, {i \in DOMAIN s : \A j \in 1 .. i - 1 : s[j] # s[i]})

Elements(s) == {s[i] : i \in DOMAIN s}
Ids(s) == Listed([i \in DOMAIN s |-> s[i].id])
HasId(s, id) == \E i \in DOMAIN s : s[i].id = id
FindId(s, id) == s[CHOOSE i \in DOMAIN s : s[i].id = id /\ \A j \in 1 .. i - 1 : s[j].id # id]

-----------------------------------------------------------------------------
(* The quota windows of a domain.                                          *)

\* The first window the label as a whole names.
quotaWindowPriority(label) ==
    IF label = <<>> THEN NoWindow
    ELSE LET windows == {WindowOf(label[i]) : i \in DOMAIN label}
         IN  CHOOSE w \in windows : \A other \in windows : w <= other

quotaModelGroup(label) == Chosen(label, {i \in DOMAIN label : WindowOf(label[i]) = NoWindow})

displayQuotaBuckets(buckets) ==
    LET byWindow == SortedBy(buckets, [i \in DOMAIN buckets |->
                                          quotaWindowPriority(buckets[i].label)])
        groups == Listed([i \in DOMAIN byWindow |-> quotaModelGroup(byWindow[i].label)])
        groupOrder == Firsts(groups)
        place(group) == CHOOSE g \in DOMAIN groupOrder : groupOrder[g] = group
    IN  SortedBy(byWindow, [i \in DOMAIN byWindow |-> place(groups[i])])

-----------------------------------------------------------------------------
(* The cards.                                                              *)

emptyBillingDomain(id) ==
    [id |-> id, fresh |-> FALSE, quotas |-> <<>>]

emptyProvider(id, name) ==
    [id |-> id, name |-> name, fresh |-> FALSE, quotas |-> <<>>, domains |-> <<>>]

NoCard == {"opencode", "dsh"}

\* The card of Grok shows its subscription only.
OnACard(provider, domain) ==
    /\ provider \notin NoCard
    /\ provider = "grok" => domain = "grok-build-subscription"

usageCardBillingDomains(provider) ==
    Chosen(provider.domains, {i \in DOMAIN provider.domains :
                                 OnACard(provider.id, provider.domains[i].id)})

\* Faulty variant: a connector's domain is added whether the card has it or not.
WithEveryTarget(domains, targets) ==
    domains \o [i \in DOMAIN targets |-> emptyBillingDomain(targets[i])]

\* The domains of the overview, and those that only connectors have, each once.
WithTargets(domains, targets) ==
    LET new == Firsts(Chosen(targets, {i \in DOMAIN targets : ~HasId(domains, targets[i])}))
    IN  domains \o [i \in DOMAIN new |-> emptyBillingDomain(new[i])]

AgentPriority(id) ==
    CASE id = "codex" -> 1 [] id = "claude-code" -> 2 [] id = "opencode-go" -> 3
      [] id = "grok" -> 4 [] id = "antigravity" -> 5 [] id = "cursor" -> 6 [] OTHER -> 7

\* By priority, and those of one priority by name.
InPlace(cards) ==
    LET byName == SortedBy(cards, [i \in DOMAIN cards |-> NameRank[cards[i].name]])
    IN  SortedBy(byName, [i \in DOMAIN byName |-> AgentPriority(byName[i].id)])

\* What connectors are set up for, as far as it is on a card.
TargetsOnCards(connectors) ==
    Chosen(Listed([i \in DOMAIN connectors |-> connectors[i].target]),
           {i \in DOMAIN connectors : OnACard(connectors[i].target.id,
                                              connectors[i].target.domain)})

VisibleIds(s) == Ids(Chosen(s, {i \in DOMAIN s : s[i].id \notin NoCard}))

\* A card goes by the name the overview gives it, or else the index, or else its first
\* connector.
BaseOf(id, providers, targets, indexed) ==
    IF HasId(providers, id) THEN FindId(providers, id)
    ELSE emptyProvider(id, FindId(indexed \o targets, id).name)

CardOf(id, providers, targets, indexed) ==
    LET base == BaseOf(id, providers, targets, indexed)
        own == Chosen(targets, {i \in DOMAIN targets : targets[i].id = id})
    IN  [base EXCEPT !.domains = WithTargets(usageCardBillingDomains(base),
                                             Listed([i \in DOMAIN own |-> own[i].domain]))]

\* An agent has a card if the overview, a connector or the index knows it.
displayProviders(providers, connectors, indexed) ==
    LET targets == TargetsOnCards(connectors)
        shown == Firsts(VisibleIds(providers) \o Ids(targets) \o VisibleIds(indexed))
    IN  InPlace(Listed([i \in DOMAIN shown |->
                           CardOf(shown[i], providers, targets, indexed)]))

Cards == displayProviders(overview, connections, index)

\* The domain a card shows: the chosen one while the card has it, or its first one, or one
\* made of what the provider says as a whole.
activeBillingDomain(provider, selected) ==
    IF HasId(provider.domains, selected) THEN FindId(provider.domains, selected)
    ELSE IF provider.domains # <<>> THEN Head(provider.domains)
    ELSE [id |-> "combined", fresh |-> provider.fresh, quotas |-> provider.quotas]

ActiveOf(card) == activeBillingDomain(card, selectedDomains[card.id])

\* The connector of the domain a card shows, in a sequence of at most one.
connectorForDomain(provider, domain) ==
    LET those == Chosen(connections, {i \in DOMAIN connections :
                            /\ connections[i].target.id = provider
                            /\ connections[i].target.domain = domain})
    IN  IF those = <<>> THEN those ELSE <<Head(those)>>

\* The lanes of a card: each domain that has windows.
LanesOf(card) ==
    LET domains == IF card.domains # <<>> THEN card.domains
                   ELSE <<activeBillingDomain(card, NotChosen)>>
        lanes == Listed([i \in DOMAIN domains |->
                            [provider |-> card.id, domain |-> domains[i].id,
                             buckets |-> displayQuotaBuckets(domains[i].quotas)]])
    IN  Chosen(lanes, {i \in DOMAIN lanes : lanes[i].buckets # <<>>})

\* The quota timeline has the lanes of all cards, those of each after those of the one before.
quotaTimelineProviders ==
    LET cards == Cards
    IN  [i \in DOMAIN cards |-> LanesOf(cards[i])]

-----------------------------------------------------------------------------
(* The answers arrive one by one, each provider's on its own.              *)

\* The page knows these agents before the first answer.
DefaultIndex == <<[id |-> "codex", name |-> "Codex"], [id |-> "claude-code", name |-> "Claude"],
                  [id |-> "opencode-go", name |-> "Go"], [id |-> "grok", name |-> "Grok"],
                  [id |-> "antigravity", name |-> "Antigravity"],
                  [id |-> "cursor", name |-> "Cursor"]>>

\* Whoever an answer names, under the name it has there.
Named == Elements(DefaultIndex) \cup (UNION {Elements(i) : i \in Indexes})
         \cup (UNION {{c[i].target : i \in DOMAIN c} : c \in Connections}) \cup Providers

IsSequence(s) == s \in Seq(Elements(s))
HasLabels(buckets) ==
    IsSequence(buckets) /\ \A i \in DOMAIN buckets : IsSequence(buckets[i].label)

\* The server names each domain of a provider, the target of each connector and each agent of
\* the index once.
AnswersAreSets ==
    /\ \A p \in Providers :
          /\ DOMAIN p = {"id", "name", "fresh", "quotas", "domains"}
          /\ IsSequence(p.domains) /\ HasLabels(p.quotas)
          /\ \A i \in DOMAIN p.domains : HasLabels(p.domains[i].quotas)
          /\ \A i, j \in DOMAIN p.domains : p.domains[i].id = p.domains[j].id => i = j
    /\ \A c \in Connections :
          /\ IsSequence(c)
          /\ \A i, j \in DOMAIN c : c[i].target.id = c[j].target.id
                                    /\ c[i].target.domain = c[j].target.domain => i = j
    /\ \A i \in Indexes :
          IsSequence(i) /\ \A m, n \in DOMAIN i : i[m].id = i[n].id => m = n

\* Names are in the alphabet; and an agent that has no place of its own among the cards has one
\* name wherever it is named, and no other agent has it.
NamesDiffer ==
    LET others == {a \in Named : a.id \notin NoCard /\ AgentPriority(a.id) = 7}
    IN  /\ \A a \in Named : a.id \notin NoCard => NameRank[a.name] \in Nat
        /\ \A a, b \in others : NameRank[a.name] = NameRank[b.name] <=> a.id = b.id

CardsAssumption == AnswersAreSets /\ NamesDiffer
ASSUME CardsAssumption

CardsInit ==
    /\ overview = <<>> /\ connections = <<>> /\ index = DefaultIndex
    /\ requested = Elements(Ids(DefaultIndex))
    /\ selectedDomains = [p \in ProviderIds |-> NotChosen]

\* The agents known before stay first, under the names the index gives them.
IndexArrives ==
    \E answer \in Indexes :
        LET named(known) == IF HasId(answer, known.id) THEN FindId(answer, known.id) ELSE known
            more == Chosen(answer, {i \in DOMAIN answer : /\ answer[i].id \notin NoCard
                                                          /\ ~HasId(DefaultIndex, answer[i].id)})
        IN  /\ index' = [i \in DOMAIN DefaultIndex |-> named(DefaultIndex[i])] \o more
            /\ requested' = requested \cup Elements(Ids(more))
            /\ UNCHANGED <<overview, connections, selectedDomains>>

ConnectorsArrive ==
    /\ connections' \in Connections
    /\ UNCHANGED <<overview, index, requested, selectedDomains>>

\* Only agents that some index named are asked for. An object keeps the place of a key that is
\* set again.
AgentProviderArrives ==
    \E provider \in Providers :
        /\ provider.id \in requested
        /\ overview' = IF HasId(overview, provider.id)
                       THEN [i \in DOMAIN overview |-> IF overview[i].id = provider.id
                                                       THEN provider ELSE overview[i]]
                       ELSE Append(overview, provider)
        /\ UNCHANGED <<connections, index, requested, selectedDomains>>

\* The tabs are there when a card has more than one domain.
selectBillingDomain ==
    \E card \in Elements(Cards) :
        /\ Len(card.domains) > 1
        /\ \E domain \in Elements(card.domains) :
              selectedDomains' = [selectedDomains EXCEPT ![card.id] = domain.id]
        /\ UNCHANGED <<overview, connections, index, requested>>

CardsNext == IndexArrives \/ ConnectorsArrive \/ AgentProviderArrives \/ selectBillingDomain

CardsSpec == CardsInit /\ [][CardsNext]_cardVars

-----------------------------------------------------------------------------
(* Properties.                                                             *)

Visible(s) == {s[i].id : i \in DOMAIN s} \ NoCard
OnCards == {i \in DOMAIN connections : OnACard(connections[i].target.id,
                                              connections[i].target.domain)}

\* The windows of one model group stand together on a card and in the timeline, the
\* shortest one first, whichever way round their labels are written (+page.svelte:1295,
\* +page.svelte:1313).
GroupsStayTogether(rows) ==
    LET group(i) == quotaModelGroup(rows[i].label)
        window(i) == {WindowOf(rows[i].label[s]) : s \in DOMAIN rows[i].label} \ {NoWindow}
    IN  \A i, j \in DOMAIN rows : i < j /\ group(i) = group(j) =>
            /\ \A k \in i .. j : group(k) = group(i)
            /\ window(i) = {} => window(j) = {}
            /\ \A n \in window(j) : \E m \in window(i) : m <= n

\* The pairs of agents that stand one before the other.
StandingOf(cards) ==
    UNION {{<<cards[i].id, cards[j].id>> : j \in {k \in DOMAIN cards : i < k}} :
           i \in DOMAIN cards}

IdsAreDistinct(s) == Cardinality({s[i].id : i \in DOMAIN s}) = Len(s)

\* The domains that a card should have: those of its connectors and of the overview.
DomainsFor(id) ==
    {connections[i].target.domain : i \in {j \in OnCards : connections[j].target.id = id}}
    \cup UNION {{overview[i].domains[d].id : d \in {e \in DOMAIN overview[i].domains :
                    OnACard(id, overview[i].domains[e].id)}} :
                i \in {j \in DOMAIN overview : overview[j].id = id}}

Offered(card) == UNION {Elements(connectorForDomain(card.id, domain.id)) :
                        domain \in Elements(card.domains)}

\* Each domain of a card has a tab, and the connector of each can be set up from it.
CardIsComplete(card) ==
    /\ IdsAreDistinct(card.domains)
    /\ {domain.id : domain \in Elements(card.domains)} = DomainsFor(card.id)
    /\ card.domains # <<>> => ActiveOf(card) \in Elements(card.domains)
    /\ Offered(card) = {connections[i] : i \in {j \in OnCards :
                                            connections[j].target.id = card.id}}

\* Whatever answers first, every agent that any answer names has one card, and every
\* domain of it that belongs on a card one tab, from which its connector can be set up:
\* the page lists both by their identity, and a second one of the same identity would end
\* the rendering (+page.svelte:1670). And the cards do not change places while the answers
\* about the agents come in, one at a time and in any order: those that the page drew before
\* any of them stand to each other as they did (+page.svelte:310). The windows on a card keep
\* their groups together.
CardsAreComplete ==
    LET cards == Cards
        drawn == displayProviders(<<>>, connections, index)
        standing == StandingOf(cards)
        stood == StandingOf(drawn)
    IN  /\ \A lanes \in Elements(quotaTimelineProviders) : \A lane \in Elements(lanes) :
              GroupsStayTogether(lane.buckets)
        /\ IdsAreDistinct(cards)
        /\ Visible(cards) = Visible(overview) \cup Visible(index)
                            \cup {connections[i].target.id : i \in OnCards}
        /\ Visible(drawn) \subseteq Visible(cards)
        /\ \A a, b \in Visible(drawn) : <<a, b>> \in standing <=> <<a, b>> \in stood
        /\ \A card \in Elements(cards) : CardIsComplete(card)

=============================================================================
