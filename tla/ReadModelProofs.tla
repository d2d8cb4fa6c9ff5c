--------------------------- MODULE ReadModelProofs ---------------------------
(***************************************************************************)
(* Proofs about what the repository displays.                              *)
(*                                                                         *)
(* Usage and money (Workbench, UsageWall): what the ledger keeps is always *)
(* such that each total is one number wherever it is displayed.  The       *)
(* inductive invariant LedgerInv is about what is stored; each property of *)
(* the queries follows from it by the lemmas about sums (Sums).            *)
(*                                                                         *)
(* Quotas and notifications: what is stored of quotas, predicted from it   *)
(* and shown of it is what it should be whatever the clients answer, and   *)
(* Notices implements NoticeLog: each step that changes what is remembered *)
(* or what was told is a step of the log.                                  *)
(***************************************************************************)
EXTENDS UsageWall, Notices, Sums

-----------------------------------------------------------------------------
(* Rows.                                                                    *)

Accepted == {o \in Observations : IsAcceptable(o)}

\* What is known of a row that is stored, whatever it was told as.
IsRow(r) ==
    /\ r.tokens \in [Categories -> Nat] /\ r.separate \subseteq Categories
    /\ r.at \in Int /\ r.reported \in Int /\ r.attributed \in BOOLEAN
    /\ r.total \in Nat /\ r.unclassified \in Nat /\ r.unclassified <= r.total
    /\ IF r.attributed THEN r.total - r.unclassified = Categorized(r)
                       ELSE r.unclassified = r.total

LEMMA CategoriesAreFinite ==
    IsFiniteSet(Categories) /\ \A S \in SUBSET Categories : IsFiniteSet(S)
<1>1. IsFiniteSet({"input"} \cup {"output"}) /\ IsFiniteSet({"cacheRead"} \cup {"cacheWrite"})
  BY FS_Singleton, FS_Union
<1>2. IsFiniteSet({"reasoning"} \cup ({"cacheRead"} \cup {"cacheWrite"}))
  BY <1>1, FS_Singleton, FS_Union
<1>3. IsFiniteSet(({"input"} \cup {"output"})
                     \cup ({"reasoning"} \cup ({"cacheRead"} \cup {"cacheWrite"})))
  BY <1>1, <1>2, FS_Union
<1>4. Categories = ({"input"} \cup {"output"})
                      \cup ({"reasoning"} \cup ({"cacheRead"} \cup {"cacheWrite"}))
  BY DEF Categories
<1>5. IsFiniteSet(Categories)
  BY <1>3, <1>4
<1> QED
  BY <1>5, FS_Subset

\* The tokens of the categories of an observation are some number.
LEMMA CategorizedIs ==
    ASSUME NEW o, o.tokens \in [Categories -> Nat], o.separate \subseteq Categories
    PROVE  Categorized(o) \in Nat
<1> DEFINE counted == {"input", "output"} \cup o.separate
           tokens == [c \in counted |-> o.tokens[c]]
<1>1. counted \in SUBSET Categories
  BY DEF Categories
<1>2. IsFiniteSet(counted) /\ DOMAIN tokens = counted /\ \A c \in counted : tokens[c] \in Nat
  BY <1>1, CategoriesAreFinite
<1>3. Categorized(o) = Sum(tokens, counted)
  BY <1>2, SumOfFunction DEF Categorized
<1> HIDE DEF tokens, counted
<1> QED
  BY <1>2, <1>3, SumNat

LEMMA RowIs ==
    ASSUME NEW o \in Accepted
    PROVE  IsRow(Normalized(o)) /\ Normalized(o) \in Rows
<1> USE LedgerAssumption
<1> DEFINE row == Normalized(o)
<1>1. o \in Observations /\ IsAcceptable(o) /\ row \in Rows
  BY DEF Accepted, Rows
<1>2. o.tokens \in [Categories -> Nat] /\ o.separate \subseteq Categories
  BY <1>1 DEF IsAcceptable
<1>3. Categorized(o) \in Nat
  BY <1>2, CategorizedIs
<1>4. Categorized(row) = Categorized(o)
  BY DEF Normalized, Categorized
<1>5. /\ o.reported = Unknown \/ (o.reported \in Int /\ o.reported >= Categorized(o))
      /\ o.remainder = Unknown \/ (o.remainder \in Nat /\ Categorized(o) = 0)
  BY <1>1 DEF IsAcceptable
<1>6. Recorded(o) \in Nat /\ Recorded(o) >= Categorized(o)
  BY <1>3, <1>5 DEF Recorded
<1>7. IsAttributed(o) \in BOOLEAN
  BY DEF IsAttributed
<1>8. /\ Unclassified(o) \in Nat /\ Unclassified(o) <= Recorded(o)
      /\ IF IsAttributed(o) THEN Recorded(o) - Unclassified(o) = Categorized(o)
                            ELSE Unclassified(o) = Recorded(o)
  BY <1>3, <1>6, <1>7 DEF Unclassified, AtLeastZero
<1>9. /\ row.tokens = o.tokens /\ row.separate = o.separate /\ row.at = o.at
      /\ row.reported = o.reported /\ row.attributed = IsAttributed(o)
      /\ row.total = Recorded(o) /\ row.unclassified = Unclassified(o)
  BY DEF Normalized
<1>10. row.at \in Int /\ row.reported \in Int
  BY <1>1, <1>9
<1> HIDE DEF row
<1> QED
  BY <1>1, <1>2, <1>4, <1>6, <1>7, <1>8, <1>9, <1>10 DEF IsRow, row

LEMMA PersistedIs ==
    ASSUME NEW c \in CostRecords
    PROVE  /\ Persisted(c).provider = c.provider /\ Persisted(c).domain = c.domain
           /\ Persisted(c).id = c.id /\ Persisted(c).kind = c.kind
           /\ c.kind # "subscription" => Persisted(c) = c
<1>1. CASE c.kind = "subscription"
  <2>1. DOMAIN c = CostFields
    BY LedgerAssumption
  <2> QED
    BY <1>1, <2>1 DEF Persisted, CostFields
<1>2. CASE c.kind # "subscription"
  BY <1>2 DEF Persisted
<1> QED
  BY <1>1, <1>2

-----------------------------------------------------------------------------
(* The ledger.                                                              *)

\* What is added up is finite, each row in it was acceptable, and an old day is summed
\* in one row.
KeptRowsAreRows ==
    /\ usage \subseteq {Normalized(o) : o \in Accepted}
    /\ \A a \in aggregates : a.total \in Nat /\ a.day \in Int
    /\ \A a, b \in aggregates : AggregateKey(a) = AggregateKey(b) => a = b

KeptIsFinite ==
    /\ IsFiniteSet(usage) /\ IsFiniteSet(costs) /\ IsFiniteSet(aggregates)
    /\ IsFiniteSet(rates) /\ IsFiniteSet(domains)

GrokBuild == <<"grok", "grok-build-subscription">>
XaiApi == <<"grok", "xai-api">>

\* Where a domain of Grok is known, its subscription is, but for the xAI API.
DomainsAreTold ==
    /\ \A d \in domains : d = <<d[1], d[2]>>
    /\ \A d \in domains : d[1] = "grok" /\ d # XaiApi => GrokBuild \in domains

LedgerInv ==
    /\ TypeOK
    /\ KeptRowsAreRows
    /\ KeptIsFinite
    /\ DomainsAreTold

LEMMA KeptRow ==
    ASSUME KeptRowsAreRows, NEW r \in usage
    PROVE  IsRow(r) /\ r \in Rows
  BY RowIs DEF KeptRowsAreRows

LEMMA InitLedger == Init => LedgerInv
  BY FS_EmptySet, LedgerAssumption
  DEF Init, LedgerInv, TypeOK, KeptRowsAreRows, KeptIsFinite, DomainsAreTold

\* The tokens of stored rows are some number.
LEMMA RowTotalIs ==
    ASSUME NEW S, IsFiniteSet(S), NEW w, \A r \in S : w[r] = r.total
    PROVE  RowTotal(S) = Sum(w, S)
<1> DEFINE totals == [r \in S |-> r.total]
<1>1. RowTotal(S) = Sum(totals, S)
  BY SumOfFunction DEF RowTotal
<1>2. Agree(totals, w, S)
  BY DEF Agree
<1> HIDE DEF totals
<1> QED
  BY <1>1, <1>2, SumCongruent

LEMMA RowTotalNat ==
    ASSUME NEW S, IsFiniteSet(S), \A r \in S : r.total \in Nat
    PROVE  RowTotal(S) \in Nat
<1> DEFINE totals == [r \in S |-> r.total]
<1>1. RowTotal(S) = Sum(totals, S) /\ \A r \in S : totals[r] \in Nat
  BY RowTotalIs
<1> HIDE DEF totals
<1> QED
  BY <1>1, SumNat

LEMMA SnapshotKeeps ==
    ASSUME LedgerInv, NEW given, NEW givenCosts,
           given = {} \/ \E o \in Observations : given = {o},
           givenCosts = {} \/ \E c \in CostRecords : givenCosts = {c},
           SaveSnapshot(given, givenCosts)
    PROVE  LedgerInv'
<1> DEFINE rows == {Normalized(o) : o \in given}
           kept  == {c \in costs : ~(/\ c.kind = "retail-equivalent"
                                     /\ <<c.provider, c.usage>> \in Repriced(rows))}
           fixed == Keys({c \in kept : c.kind = "retail-equivalent"})
           new   == Without({Persisted(c) : c \in givenCosts}, fixed)
<1>1. /\ \A o \in given : IsAcceptable(o)
      /\ usage' = Without(usage, Keys(rows)) \cup rows
      /\ costs' = Without(kept, Keys(new)) \cup new
      /\ domains' = domains \cup UNION {DomainsToldWith(r) : r \in rows \cup givenCosts}
      /\ UNCHANGED <<now, aggregates, rates>>
  BY DEF SaveSnapshot, CostsAfter
<1>2. rows \subseteq {Normalized(o) : o \in Accepted} /\ rows \subseteq Rows
  BY <1>1 DEF Accepted, Rows
<1>3. /\ IsFiniteSet(rows) /\ \A r, s \in rows : r = s
      /\ IsFiniteSet(givenCosts) /\ IsFiniteSet({Persisted(c) : c \in givenCosts})
      /\ \A c, d \in new : c = d
  <2>1. rows = {} \/ \E r : rows = {r}
    OBVIOUS
  <2>2. \/ givenCosts = {} /\ {Persisted(c) : c \in givenCosts} = {}
        \/ \E c : givenCosts = {c} /\ {Persisted(d) : d \in givenCosts} = {Persisted(c)}
    OBVIOUS
  <2>3. \A c, d \in {Persisted(e) : e \in givenCosts} : c = d
    OBVIOUS
  <2>4. \A c, d \in new : c = d
    BY <2>3 DEF Without
  <2>a. IsFiniteSet({}) /\ \A x : IsFiniteSet({x})
    BY FS_EmptySet, FS_Singleton
  <2>b. PICK persisted : persisted = {Persisted(c) : c \in givenCosts}
    OBVIOUS
  <2>c. (givenCosts = {} \/ \E c : givenCosts = {c}) /\ (persisted = {} \/ \E c : persisted = {c})
    BY <2>2, <2>b
  <2>5. IsFiniteSet(persisted) /\ IsFiniteSet(givenCosts)
    BY <2>a, <2>c
  <2>6. IsFiniteSet(rows)
    BY <2>1, <2>a
  <2>7. \A r, s \in rows : r = s
    BY <2>1
  <2> QED
    BY <2>4, <2>5, <2>6, <2>7, <2>b
<1>4. new \subseteq {Persisted(c) : c \in CostRecords}
  BY DEF Without
<1>5. /\ usage' \subseteq Rows /\ usage' \subseteq {Normalized(o) : o \in Accepted}
      /\ \A r, s \in usage' : Key(r) = Key(s) => r = s
  BY <1>1, <1>2, <1>3 DEF LedgerInv, TypeOK, KeptRowsAreRows, Without, Keys
<1>6. /\ costs' \subseteq {Persisted(c) : c \in CostRecords}
      /\ \A c, d \in costs' : Key(c) = Key(d) => c = d
  BY <1>1, <1>3, <1>4 DEF LedgerInv, TypeOK, Without, Keys
<1>7. IsFiniteSet(usage') /\ IsFiniteSet(costs')
  <2>1. Without(usage, Keys(rows)) \subseteq usage /\ Without(kept, Keys(new)) \subseteq costs
    BY DEF Without
  <2>2. new \subseteq {Persisted(c) : c \in givenCosts}
    BY DEF Without
  <2> HIDE DEF rows, kept, new
  <2>3. IsFiniteSet(Without(usage, Keys(rows))) /\ IsFiniteSet(Without(kept, Keys(new)))
    BY <2>1, FS_Subset DEF LedgerInv, KeptIsFinite
  <2>4. IsFiniteSet(new)
    BY <1>3, <2>2, FS_Subset
  <2> QED
    BY <1>1, <1>3, <2>3, <2>4, FS_Union
<1>8. IsFiniteSet(domains')
  <2> DEFINE all == rows \cup givenCosts
             more == UNION {DomainsToldWith(r) : r \in all}
  <2>1. IsFiniteSet(all)
    BY <1>3, FS_Union
  <2>2. IsFiniteSet({Domain(r) : r \in all})
    <3> DEFINE g == [r \in all |-> Domain(r)]
    <3>1. {Domain(r) : r \in all} = {g[r] : r \in all}
      OBVIOUS
    <3> HIDE DEF all, g
    <3> QED
      BY <2>1, <3>1, ImageIsFinite
  <2>3. more \subseteq {Domain(r) : r \in all} \cup {GrokBuild}
    BY DEF DomainsToldWith, GrokBuild
  <2> HIDE DEF all
  <2>4. IsFiniteSet({Domain(r) : r \in all} \cup {GrokBuild})
    BY <2>2, FS_AddElement
  <2>5. IsFiniteSet(more)
    BY <2>3, <2>4, FS_Subset
  <2> QED
    BY <1>1, <2>5, FS_Union DEF all, LedgerInv, KeptIsFinite
<1>9. DomainsAreTold'
  <2> DEFINE all == rows \cup givenCosts
  <2>1. ASSUME NEW d \in domains'
        PROVE  d = <<d[1], d[2]>> /\ (d[1] = "grok" /\ d # XaiApi => GrokBuild \in domains')
    <3>1. CASE d \in domains
      BY <1>1, <3>1 DEF LedgerInv, DomainsAreTold
    <3>2. CASE d \notin domains
      <4>1. PICK r \in all : d \in DomainsToldWith(r)
        BY <1>1, <3>2
      <4>2. DomainsToldWith(r) \subseteq domains'
        BY <1>1
      <4> QED
        BY <4>1, <4>2 DEF DomainsToldWith, Domain, GrokBuild, XaiApi
    <3> QED
      BY <3>1, <3>2
  <2> QED
    BY <2>1 DEF DomainsAreTold
<1>10. \A r \in usage' \cup costs' : Domain(r) \in domains'
  <2>1. \A c \in new : \E d \in givenCosts : Domain(c) = Domain(d)
    BY PersistedIs DEF Without, Domain
  <2>2. \A r \in rows \cup givenCosts : Domain(r) \in domains'
    BY <1>1 DEF DomainsToldWith
  <2>3. \A r \in usage \cup costs : Domain(r) \in domains'
    BY <1>1 DEF LedgerInv, TypeOK
  <2> HIDE DEF rows, new
  <2> QED
    BY <1>1, <2>1, <2>2, <2>3 DEF Without
<1> HIDE DEF rows, new
<1>11. TypeOK'
  BY <1>1, <1>5, <1>6, <1>10 DEF LedgerInv, TypeOK
<1>12. KeptRowsAreRows' /\ KeptIsFinite'
  BY <1>1, <1>5, <1>7, <1>8 DEF LedgerInv, KeptRowsAreRows, KeptIsFinite, AggregateKey
<1> QED
  BY <1>9, <1>11, <1>12 DEF LedgerInv

\* The sums of the days that compaction replaces, and what they are of.
CompactedTo(k) ==
    [provider |-> k[1], domain |-> k[2], day |-> k[3], model |-> k[4],
     total |-> RowTotal(SummedOf(k))]

Summed == {k \in {AggregateOf(r) : r \in Old} : SummedOf(k) # {}}

LEMMA CompactionIs ==
    ASSUME CompactUsageHistory
    PROVE  /\ usage' = usage \ Old
           /\ aggregates' = {a \in aggregates : AggregateKey(a) \notin Summed}
                                \cup {CompactedTo(k) : k \in Summed}
           /\ UNCHANGED <<now, costs, rates, domains>>
  BY DEF CompactUsageHistory, Summed, CompactedTo

LEMMA CompactedToIs ==
    ASSUME LedgerInv, NEW k \in Summed
    PROVE  /\ AggregateKey(CompactedTo(k)) = k
           /\ CompactedTo(k).total \in Nat /\ CompactedTo(k).day \in Int
           /\ CompactedTo(k).total = RowTotal(SummedOf(k))
<1>1. PICK r \in Old : k = AggregateOf(r)
  BY DEF Summed
<1>2. r \in usage /\ r.at \in Int
  BY <1>1, KeptRow DEF Old, LedgerInv, IsRow
<1>3. k = <<k[1], k[2], k[3], k[4]>> /\ k[3] = DayOf(r.at)
  BY <1>1 DEF AggregateOf
<1>4. DayOf(r.at) \in Int
  BY <1>2, LedgerAssumption DEF DayOf
<1>5. IsFiniteSet(SummedOf(k)) /\ \A s \in SummedOf(k) : s.total \in Nat
  <2>1. SummedOf(k) \subseteq usage
    BY DEF SummedOf, Old
  <2> QED
    BY <2>1, KeptRow, FS_Subset DEF LedgerInv, KeptIsFinite, IsRow
<1>6. RowTotal(SummedOf(k)) \in Nat
  BY <1>5, RowTotalNat
<1> QED
  BY <1>3, <1>4, <1>6 DEF CompactedTo, AggregateKey

LEMMA CompactionKeeps ==
    ASSUME LedgerInv, CompactUsageHistory
    PROVE  LedgerInv'
<1>1. usage' \subseteq usage /\ UNCHANGED <<now, costs, rates, domains>>
  BY CompactionIs
<1>2. /\ \A a \in aggregates' : a.total \in Nat /\ a.day \in Int
      /\ \A a, b \in aggregates' : AggregateKey(a) = AggregateKey(b) => a = b
  BY CompactionIs, CompactedToIs DEF LedgerInv, KeptRowsAreRows
<1>3. IsFiniteSet(aggregates')
  <2> DEFINE key == [r \in Old |-> AggregateOf(r)]
             sum == [k \in Summed |-> CompactedTo(k)]
  <2>1. IsFiniteSet(Old)
    BY FS_Subset DEF Old, LedgerInv, KeptIsFinite
  <2>2. Summed \subseteq {key[r] : r \in Old}
    BY DEF Summed
  <2>3. {CompactedTo(k) : k \in Summed} = {sum[k] : k \in Summed}
    OBVIOUS
  <2> HIDE DEF key, sum
  <2>4. IsFiniteSet(Summed)
    <3>1. IsFiniteSet({key[r] : r \in Old})
      BY <2>1, ImageIsFinite
    <3> QED
      BY <2>2, <3>1, FS_Subset
  <2>5. IsFiniteSet({CompactedTo(k) : k \in Summed})
    BY <2>3, <2>4, ImageIsFinite
  <2>6. IsFiniteSet({a \in aggregates : AggregateKey(a) \notin Summed})
    BY FS_Subset DEF LedgerInv, KeptIsFinite
  <2> QED
    BY <2>5, <2>6, CompactionIs, FS_Union
<1>4. KeptIsFinite'
  BY <1>1, <1>3, FS_Subset DEF LedgerInv, KeptIsFinite
<1>5. KeptRowsAreRows'
  BY <1>1, <1>2 DEF LedgerInv, KeptRowsAreRows, AggregateKey
<1>6. TypeOK'
  BY <1>1, <1>2 DEF LedgerInv, TypeOK
<1> QED
  BY <1>1, <1>4, <1>5, <1>6 DEF LedgerInv, DomainsAreTold

LEMMA DerivedCostKeeps ==
    ASSUME LedgerInv, NEW cost \in CostRecords, SaveDerivedCost(cost)
    PROVE  LedgerInv'
<1>1. /\ cost.kind = "retail-equivalent"
      /\ costs' = Without(costs, {Key(cost)}) \cup {cost}
      /\ UNCHANGED <<now, usage, aggregates, rates, domains>>
  BY DEF SaveDerivedCost
<1>2. Persisted(cost) = cost
  BY <1>1 DEF Persisted
<1>3. Domain(cost) \in domains
  <2>1. PICK r \in usage : <<cost.provider, cost.usage>> = Key(r) /\ cost.domain = r.domain
    BY DEF SaveDerivedCost
  <2>2. Domain(cost) = Domain(r)
    BY <2>1 DEF Key, Domain
  <2> QED
    BY <2>2 DEF LedgerInv, TypeOK
<1>4. Without(costs, {Key(cost)}) \subseteq costs
  BY DEF Without
<1>5. TypeOK'
  <2>1. costs' \subseteq {Persisted(c) : c \in CostRecords}
    BY <1>1, <1>2, <1>4 DEF LedgerInv, TypeOK
  <2>2. \A c, d \in costs' : Key(c) = Key(d) => c = d
    BY <1>1 DEF LedgerInv, TypeOK, Without
  <2> QED
    BY <1>1, <1>3, <1>4, <2>1, <2>2 DEF LedgerInv, TypeOK
<1>6. IsFiniteSet(costs')
  <2>1. IsFiniteSet(Without(costs, {Key(cost)}))
    BY <1>4, FS_Subset DEF LedgerInv, KeptIsFinite
  <2> QED
    BY <1>1, <2>1, FS_AddElement
<1> QED
  BY <1>1, <1>5, <1>6 DEF LedgerInv, KeptRowsAreRows, KeptIsFinite, DomainsAreTold, AggregateKey

LEMMA NextLedger == LedgerInv /\ [Next]_vars => LedgerInv'
<1> SUFFICES ASSUME LedgerInv, [Next]_vars PROVE LedgerInv'
  OBVIOUS
<1>1. CASE TimePasses
  BY <1>1, LedgerAssumption
  DEF TimePasses, LedgerInv, TypeOK, KeptRowsAreRows, KeptIsFinite, DomainsAreTold, AggregateKey
<1>2. CASE \E o \in Observations : SaveSnapshot({o}, {})
  BY <1>2, SnapshotKeeps
<1>3. CASE \E c \in CostRecords : c.kind # "retail-equivalent" /\ SaveSnapshot({}, {c})
  BY <1>3, SnapshotKeeps
<1>4. CASE \E c \in CostRecords : SaveDerivedCost(c)
  BY <1>4, DerivedCostKeeps
<1>5. ASSUME NEW rate \in RateSnapshots, SaveExchangeRateSnapshot(rate)
      PROVE  LedgerInv'
  <2>1. /\ rates' = {r \in rates : r.id # rate.id} \cup {rate}
        /\ UNCHANGED <<now, usage, aggregates, costs, domains>>
    BY <1>5 DEF SaveExchangeRateSnapshot
  <2>2. IsFiniteSet(rates')
    <3>1. IsFiniteSet({r \in rates : r.id # rate.id})
      BY FS_Subset DEF LedgerInv, KeptIsFinite
    <3> QED
      BY <2>1, <3>1, FS_AddElement
  <2>3. rates' \subseteq RateSnapshots
    BY <2>1 DEF LedgerInv, TypeOK
  <2> QED
    BY <2>1, <2>2, <2>3
    DEF LedgerInv, TypeOK, KeptRowsAreRows, KeptIsFinite, DomainsAreTold, AggregateKey
<1>6. CASE CompactUsageHistory
  BY <1>6, CompactionKeeps
<1>7. CASE ClearUsageData
  BY <1>7, FS_EmptySet
  DEF ClearUsageData, LedgerInv, TypeOK, KeptRowsAreRows, KeptIsFinite, DomainsAreTold
<1>8. CASE UNCHANGED vars
  BY <1>8
  DEF vars, LedgerInv, TypeOK, KeptRowsAreRows, KeptIsFinite, DomainsAreTold, AggregateKey
<1> QED
  BY <1>1, <1>2, <1>3, <1>4, <1>5, <1>6, <1>7, <1>8 DEF Next

\* What is kept of usage and costs is what was told of it: rows that were acceptable and
\* costs as they are stored, one of each id, in domains that are known.
THEOREM LedgerTypeCorrect == Spec => []LedgerInv
<1> QED
  BY InitLedger, NextLedger, PTL DEF Spec
-----------------------------------------------------------------------------
(* Histories.                                                               *)

TokensOf == [r \in usage |-> r.total]
RecordedIn == [d \in domains |-> Evidence(UsageRows(d)).recorded]

LEMMA RowsAre ==
    ASSUME LedgerInv, NEW S \in SUBSET usage
    PROVE  /\ IsFiniteSet(S)
           /\ RowTotal(S) = Sum(TokensOf, S) /\ RowTotal(S) \in Nat
           /\ Evidence(S).recorded = RowTotal(S)
           /\ IsOfInts(TokensOf, S)
<1>1. IsFiniteSet(S)
  BY FS_Subset DEF LedgerInv, KeptIsFinite
<1>2. \A r \in S : TokensOf[r] = r.total /\ r.total \in Nat
  BY KeptRow DEF LedgerInv, TokensOf, IsRow
<1>3. RowTotal(S) = Sum(TokensOf, S) /\ RowTotal(S) \in Nat
  BY <1>1, <1>2, RowTotalIs, RowTotalNat
<1> QED
  BY <1>1, <1>2, <1>3 DEF Evidence, IsOfInts

LEMMA UsageRowsAre ==
    ASSUME LedgerInv
    PROVE  /\ InWindow(Additive) \subseteq usage
           /\ \A d : UsageRows(d) \subseteq InWindow(Additive)
           /\ \A d : UsageRows(d) \subseteq usage
           /\ \A d, e : d # e => UsageRows(d) \cap UsageRows(e) = {}
           /\ UNION {UsageRows(d) : d \in domains} = InWindow(Additive)
  BY DEF InWindow, Additive, UsageRows, LedgerInv, TypeOK

\* The totals of domains are the total of their rows.
LEMMA HistoriesAddUp ==
    ASSUME LedgerInv, NEW D \in SUBSET domains
    PROVE  /\ IsFiniteSet(D) /\ RowsOf(D) \subseteq usage
           /\ Sum(RecordedIn, D) = RowTotal(RowsOf(D))
           /\ IsOfInts(RecordedIn, D)
<1>1. IsFiniteSet(D)
  BY FS_Subset DEF LedgerInv, KeptIsFinite
<1>2. RowsOf(D) \subseteq usage
  BY UsageRowsAre DEF RowsOf
<1>3. \A d \in D : /\ UsageRows(d) \in SUBSET usage
                   /\ RecordedIn[d] = RowTotal(UsageRows(d))
  BY UsageRowsAre, RowsAre DEF RecordedIn
<1>4. \A d \in D : /\ IsFiniteSet(UsageRows(d)) /\ IsOfInts(TokensOf, UsageRows(d))
                   /\ RecordedIn[d] = Sum(TokensOf, UsageRows(d)) /\ RecordedIn[d] \in Nat
  BY <1>3, RowsAre
<1> DEFINE F == [d \in D |-> UsageRows(d)]
<1>5. AreApart(F, D) /\ \A d \in D : F[d] = UsageRows(d)
  BY UsageRowsAre DEF AreApart
<1>6. UNION {F[d] : d \in D} = RowsOf(D)
  BY DEF RowsOf
<1> HIDE DEF F
<1>7. Sum(TokensOf, UNION {F[d] : d \in D}) = Sum(RecordedIn, D)
  <2>1. \A d \in D : /\ IsFiniteSet(F[d]) /\ IsOfInts(TokensOf, F[d])
                     /\ RecordedIn[d] = Sum(TokensOf, F[d])
    BY <1>4, <1>5
  <2> QED
    BY <1>1, <1>5, <2>1, SumOfGroups
<1>8. Sum(TokensOf, RowsOf(D)) = RowTotal(RowsOf(D))
  BY <1>2, RowsAre
<1>9. IsOfInts(RecordedIn, D)
  BY <1>4 DEF IsOfInts
<1> QED
  BY <1>1, <1>2, <1>6, <1>7, <1>8, <1>9

LEMMA HeadlineIs ==
    ASSUME LedgerInv
    PROVE  /\ Headline \in SUBSET domains
           /\ WorkbenchTokens = Sum(RecordedIn, Headline)
           /\ WorkbenchTokens = RowTotal(RowsOf(Headline))
           /\ WorkbenchTokens \in Nat
<1>1. Headline \in SUBSET domains
  BY DEF Headline
<1> DEFINE recorded == [d \in Headline |-> Evidence(UsageRows(d)).recorded]
<1>2. WorkbenchTokens = Sum(recorded, Headline)
  BY SumOfFunction DEF WorkbenchTokens
<1>3. Agree(recorded, RecordedIn, Headline)
  BY <1>1 DEF Agree, RecordedIn
<1> HIDE DEF recorded
<1>4. /\ IsFiniteSet(Headline) /\ RowsOf(Headline) \in SUBSET usage
      /\ Sum(RecordedIn, Headline) = RowTotal(RowsOf(Headline))
  BY <1>1, HistoriesAddUp
<1>5. WorkbenchTokens = Sum(RecordedIn, Headline)
  BY <1>2, <1>3, <1>4, SumCongruent
<1> QED
  BY <1>1, <1>4, <1>5, RowsAre

-----------------------------------------------------------------------------
(* Domains that stay apart.                                                 *)

LEMMA DomainsOfAre ==
    ASSUME LedgerInv, NEW p \in Providers
    PROVE  /\ DomainsOf(p) \in SUBSET domains /\ IsFiniteSet(DomainsOf(p))
           /\ SummaryDomain(p) \in DomainsOf(p)
           /\ Cardinality(DomainsOf(p)) > 1 \/ DomainsOf(p) = {SummaryDomain(p)}
           /\ p = "grok" /\ GrokBuild \in domains => SummaryDomain(p) = GrokBuild
<1>1. DomainsOf(p) \in SUBSET domains /\ DomainsOf(p) # {}
  BY DEF DomainsOf, Providers
<1>2. IsFiniteSet(DomainsOf(p))
  BY <1>1, FS_Subset DEF LedgerInv, KeptIsFinite
<1>3. SummaryDomain(p) \in DomainsOf(p)
  BY <1>1 DEF SummaryDomain, DomainsOf
<1>4. Cardinality(DomainsOf(p)) > 1 \/ DomainsOf(p) = {SummaryDomain(p)}
  <2>1. Cardinality(DomainsOf(p)) \in Nat /\ Cardinality(DomainsOf(p)) # 0
    BY <1>1, <1>2, FS_CardinalityType, FS_EmptySet
  <2>2. CASE Cardinality(DomainsOf(p)) = 1
    BY <1>2, <1>3, <2>2, FS_Singleton
  <2> QED
    BY <2>1, <2>2
<1>5. p = "grok" /\ GrokBuild \in domains => SummaryDomain(p) = GrokBuild
  BY DEF SummaryDomain, GrokBuild
<1> QED
  BY <1>1, <1>2, <1>3, <1>4, <1>5

\* The total of a provider is that of its domains of the headline.
LEMMA ProviderTotalIs ==
    ASSUME LedgerInv, NEW p \in Providers
    PROVE  ProviderTotal(p)
             = RowTotal({r \in Additive : Domain(r) \in Headline /\ r.provider = p})
<1> DEFINE together == CASE p = "dsh"  -> DomainsOf(p)
                         [] p = "grok" -> DomainsOf(p) \ {XaiApi}
                         [] OTHER      -> {SummaryDomain(p)}
           counted == IF Cardinality(DomainsOf(p)) > 1 THEN together ELSE {SummaryDomain(p)}
<1>1. ProviderTotal(p) = RowTotal({r \in Additive : Domain(r) \in counted})
  BY DEF ProviderTotal, XaiApi
<1>2. ASSUME NEW d \in DomainsOf(p)
      PROVE  d \in counted <=> InHeadline(d)
  <2>0. d \in domains /\ d[1] = p /\ d = <<p, d[2]>>
    BY DEF DomainsOf, LedgerInv, DomainsAreTold
  <2>1. CASE p = "dsh"
    <3>1. together = DomainsOf(p)
      BY <2>1
    <3> HIDE DEF together
    <3> QED
      BY <2>0, <2>1, <3>1, DomainsOfAre DEF InHeadline
  <2>2. CASE p = "grok"
    <3>1. together = DomainsOf(p) \ {XaiApi}
      BY <2>2
    <3>2. d = XaiApi <=> d[2] = "xai-api"
      BY <2>0, <2>2 DEF XaiApi
    <3> HIDE DEF together
    <3>3. CASE Cardinality(DomainsOf(p)) > 1
      <4>1. DomainsOf(p) # {XaiApi}
        BY <3>3, FS_Singleton
      <4>2. GrokBuild \in domains
        BY <2>0, <2>2, <4>1 DEF DomainsOf, LedgerInv, DomainsAreTold
      <4>3. SummaryDomain(p) = GrokBuild /\ GrokBuild # XaiApi
        BY <2>2, <4>2, DomainsOfAre DEF GrokBuild, XaiApi
      <4> QED
        BY <2>0, <2>2, <3>1, <3>2, <3>3, <4>3 DEF InHeadline
    <3>4. CASE ~(Cardinality(DomainsOf(p)) > 1)
      BY <2>0, <3>4, DomainsOfAre DEF InHeadline
    <3> QED
      BY <3>3, <3>4
  <2>3. CASE p # "dsh" /\ p # "grok"
    <3>1. together = {SummaryDomain(p)}
      BY <2>3
    <3> HIDE DEF together
    <3> QED
      BY <2>0, <2>3, <3>1 DEF InHeadline
  <2> QED
    BY <2>1, <2>2, <2>3
<1>3. counted \subseteq DomainsOf(p)
  BY DomainsOfAre
<1> HIDE DEF counted
<1>4. ASSUME NEW r \in Additive
      PROVE  Domain(r) \in counted <=> Domain(r) \in Headline /\ r.provider = p
  <2>1. Domain(r) \in domains /\ Domain(r)[1] = r.provider
    BY DEF Additive, Domain, LedgerInv, TypeOK
  <2>2. Domain(r) \in DomainsOf(p) <=> r.provider = p
    BY <2>1 DEF DomainsOf
  <2> QED
    BY <1>2, <1>3, <2>1, <2>2 DEF Headline
<1>5. {r \in Additive : Domain(r) \in counted}
        = {r \in Additive : Domain(r) \in Headline /\ r.provider = p}
  BY <1>4
<1> QED
  BY <1>1, <1>5

\* What is not in the headline is told beside it.
LEMMA RestIsTold ==
    ASSUME LedgerInv
    PROVE  WorkbenchTokens
             + SumFunction([s \in {s \in ProviderSummary : ~s.inHeadline} |-> s.recorded])
             = RowTotal(InWindow(Additive))
<1> DEFINE retail(d) == Metric(SummarizeHistoryCosts(CostRows(d)), "retail-equivalent")
           entry(d) == [ domain      |-> d,
                         inHeadline  |-> InHeadline(d),
                         recorded    |-> Evidence(UsageRows(d)).recorded,
                         retail      |-> retail(d),
                         retailShare |-> IF InHeadline(d)
                             THEN Share(retail(d), WorkbenchMetric("retail-equivalent"))
                             ELSE None ]
           shown == {d \in domains : UsageRows(d) # {} \/ retail(d).records > 0}
           others == domains \ Headline
           beside == {d \in others : d \in shown}
           entries == {s \in ProviderSummary : ~s.inHeadline}
           g == [d \in beside |-> entry(d)]
           w == [s \in entries |-> s.recorded]
<1>1. ProviderSummary = {entry(d) : d \in shown}
  BY DEF ProviderSummary
<1>2. \A d : /\ entry(d).domain = d /\ entry(d).inHeadline = InHeadline(d)
             /\ entry(d).recorded = Evidence(UsageRows(d)).recorded
  OBVIOUS
<1> HIDE DEF entry, shown
<1>3. entries = {g[d] : d \in beside}
  <2>1. \A d \in shown : d \in others <=> ~InHeadline(d)
    BY DEF Headline, shown
  <2>2. \A d \in beside : g[d] = entry(d) /\ d \in shown
    OBVIOUS
  <2> QED
    BY <1>1, <1>2, <2>1, <2>2
<1>4. AreDistinct(g, beside)
  BY <1>2 DEF AreDistinct
<1>5. SumFunction(w) = Sum(w, entries)
  BY SumOfFunction
<1>6. beside \in SUBSET others /\ others \in SUBSET domains /\ Headline \in SUBSET domains
  BY DEF Headline
<1>7. \A d \in beside : RecordedIn[d] = w[g[d]] /\ RecordedIn[d] \in Int
  <2>1. \A d \in beside : g[d] \in entries /\ g[d].recorded = RecordedIn[d]
    BY <1>2, <1>3, <1>6 DEF RecordedIn
  <2>2. \A d \in others : RecordedIn[d] \in Int
    BY <1>6, HistoriesAddUp DEF IsOfInts
  <2> QED
    BY <1>6, <2>1, <2>2
<1>8. \A d \in others \ beside : RecordedIn[d] = 0
  <2>1. \A d \in others \ beside : UsageRows(d) = {}
    BY DEF shown
  <2>2. RowTotal({}) = 0
    BY FS_EmptySet, RowsAre, SumOfNone
  <2>3. Evidence({}).recorded = 0
    BY <2>2 DEF Evidence
  <2> QED
    BY <1>6, <2>1, <2>3 DEF RecordedIn
<1> HIDE DEF g, w, entries, beside
<1>9. IsFiniteSet(beside)
  BY <1>6, HistoriesAddUp, FS_Subset
<1>10. Sum(w, entries) = Sum(RecordedIn, beside)
  BY <1>3, <1>4, <1>7, <1>9, SumOfImage
<1>11. /\ IsFiniteSet(others) /\ IsOfInts(RecordedIn, others)
       /\ IsFiniteSet(Headline) /\ IsOfInts(RecordedIn, Headline)
  BY <1>6, HistoriesAddUp
<1>12. Sum(RecordedIn, others) = Sum(RecordedIn, beside)
  BY <1>6, <1>8, <1>11, SumOfSome
<1>13. Headline \cap others = {} /\ Headline \cup others = domains
  BY <1>6
<1> HIDE DEF others
<1>14. Sum(RecordedIn, domains) = Sum(RecordedIn, Headline) + Sum(RecordedIn, others)
  BY <1>11, <1>13, SumOfUnion
<1>15. Sum(RecordedIn, domains) = RowTotal(InWindow(Additive))
  BY HistoriesAddUp, UsageRowsAre DEF RowsOf
<1>16. SumFunction(w) = Sum(RecordedIn, others)
  BY <1>5, <1>10, <1>12
<1>17. WorkbenchTokens + SumFunction(w) = RowTotal(InWindow(Additive))
  BY <1>14, <1>15, <1>16, HeadlineIs
<1> QED
  BY <1>17 DEF w, entries

\* The domains of the headline that are a provider's.
LEMMA HeadlineOf ==
    ASSUME LedgerInv, NEW p \in Providers
    PROVE  {d \in Headline : d[1] = p} = DomainsOfTotal(p)
<1>1. {d \in Headline : d[1] = p} = {d \in DomainsOf(p) : InHeadline(d)}
  BY DEF Headline, DomainsOf
<1>2. \A d \in DomainsOf(p) : d \in domains /\ d[1] = p /\ d = <<p, d[2]>>
  BY DEF DomainsOf, LedgerInv, DomainsAreTold
<1>3. SummaryDomain(p) \in DomainsOf(p)
  BY DomainsOfAre
<1>4. CASE p = "dsh"
  <2>1. DomainsOfTotal(p) = DomainsOf(p)
    BY <1>4 DEF DomainsOfTotal
  <2> QED
    BY <1>1, <1>2, <1>4, <2>1 DEF InHeadline
<1>5. CASE p = "grok"
  <2>1. DomainsOfTotal(p) = IF DomainsOf(p) = {XaiApi} THEN DomainsOf(p)
                            ELSE DomainsOf(p) \ {XaiApi}
    BY <1>5 DEF DomainsOfTotal, XaiApi
  <2>2. \A d \in DomainsOf(p) : d = XaiApi <=> d[2] = "xai-api"
    BY <1>2, <1>5 DEF XaiApi
  <2>3. CASE DomainsOf(p) = {XaiApi}
    <3>1. SummaryDomain(p) = XaiApi
      BY <1>3, <2>3
    <3>2. InHeadline(XaiApi)
      BY <1>5, <3>1 DEF InHeadline, XaiApi
    <3> QED
      BY <1>1, <2>1, <2>3, <3>2
  <2>4. CASE DomainsOf(p) # {XaiApi}
    <3>1. GrokBuild \in domains
      BY <1>2, <1>3, <1>5, <2>4 DEF LedgerInv, DomainsAreTold
    <3>2. SummaryDomain(p) # XaiApi
      BY <1>5, <3>1, DomainsOfAre DEF GrokBuild, XaiApi
    <3>3. \A d \in DomainsOf(p) : InHeadline(d) <=> d # XaiApi
      BY <1>2, <1>5, <2>2, <3>2 DEF InHeadline
    <3> QED
      BY <1>1, <2>1, <2>4, <3>3
  <2> QED
    BY <2>3, <2>4
<1>6. CASE p # "dsh" /\ p # "grok"
  <2>1. DomainsOfTotal(p) = {SummaryDomain(p)}
    BY <1>6 DEF DomainsOfTotal
  <2> QED
    BY <1>1, <1>2, <1>3, <1>6, <2>1 DEF InHeadline
<1> QED
  BY <1>4, <1>5, <1>6

LEMMA TotalsAre == LedgerInv => TotalsAreOfTheirDomains
<1> SUFFICES ASSUME LedgerInv PROVE TotalsAreOfTheirDomains
  OBVIOUS
<1>1. ASSUME NEW r \in Additive
      PROVE  /\ r.provider \in Providers /\ Domain(r) \in domains /\ Domain(r)[1] = r.provider
             /\ Domain(r) \in Headline <=> Domain(r) \in DomainsOfTotal(r.provider)
  <2>1. Domain(r) \in domains /\ Domain(r)[1] = r.provider
    BY DEF Additive, Domain, LedgerInv, TypeOK
  <2>2. r.provider \in Providers
    BY <2>1 DEF Providers
  <2> QED
    BY <2>1, <2>2, HeadlineOf
<1>2. ASSUME NEW p \in Providers
      PROVE  ProviderTotal(p) = RowTotal({r \in Additive : Domain(r) \in DomainsOfTotal(p)})
  <2>1. \A r \in Additive :
           Domain(r) \in Headline /\ r.provider = p <=> Domain(r) \in DomainsOfTotal(p)
    BY <1>1, HeadlineOf
  <2>2. {r \in Additive : Domain(r) \in Headline /\ r.provider = p}
          = {r \in Additive : Domain(r) \in DomainsOfTotal(p)}
    BY <2>1
  <2> QED
    BY <2>2, ProviderTotalIs
<1>3. WorkbenchTokens
        = RowTotal({r \in InWindow(Additive) : Domain(r) \in DomainsOfTotal(r.provider)})
  <2>1. InWindow(Additive) \subseteq Additive
    BY DEF InWindow
  <2>2. RowsOf(Headline) = {r \in InWindow(Additive) : Domain(r) \in Headline}
    BY DEF RowsOf, UsageRows
  <2>3. RowsOf(Headline)
          = {r \in InWindow(Additive) : Domain(r) \in DomainsOfTotal(r.provider)}
    BY <1>1, <2>1, <2>2
  <2> QED
    BY <2>3, HeadlineIs
<1> QED
  BY <1>2, <1>3, HeadlineOf, RestIsTold DEF TotalsAreOfTheirDomains
-----------------------------------------------------------------------------
(* Recorded tokens.                                                         *)

\* The tokens of a row that models have used, and the others.
ClassifiedOf == [r \in usage |-> ClassifiedPart(r).total]
UnclassifiedOf == [r \in usage |-> r.unclassified]

LEMMA PartsAre ==
    ASSUME LedgerInv, NEW r \in usage
    PROVE  /\ ClassifiedPart(r).total = r.total - r.unclassified
           /\ ClassifiedOf[r] = r.total - r.unclassified /\ ClassifiedOf[r] \in Nat
           /\ UnclassifiedOf[r] = r.unclassified /\ UnclassifiedOf[r] \in Nat
           /\ TokensOf[r] = ClassifiedOf[r] + UnclassifiedOf[r]
           /\ UnclassifiedPart(r).total = r.unclassified
           /\ UnclassifiedPart(r).attributed = FALSE
           /\ Key(UnclassifiedPart(r)) = Key(r)
           /\ Domain(UnclassifiedPart(r)) = Domain(r)
<1>1. IsRow(r) /\ r \in Rows
  BY KeptRow DEF LedgerInv
<1>2. PICK o : r = Normalized(o)
  BY <1>1 DEF Rows
<1>3. /\ ClassifiedPart(r).total = AtLeastZero(r.total - r.unclassified)
      /\ UnclassifiedPart(r).total = r.unclassified
      /\ UnclassifiedPart(r).attributed = FALSE
      /\ UnclassifiedPart(r).provider = r.provider /\ UnclassifiedPart(r).id = r.id
      /\ UnclassifiedPart(r).domain = r.domain
  BY <1>2 DEF Normalized, ClassifiedPart, UnclassifiedPart
<1>4. AtLeastZero(r.total - r.unclassified) = r.total - r.unclassified
  BY <1>1 DEF AtLeastZero, IsRow
<1>5. TokensOf[r] = r.total /\ UnclassifiedOf[r] = r.unclassified
  BY DEF TokensOf, UnclassifiedOf
<1>6. ClassifiedOf[r] = ClassifiedPart(r).total
  BY DEF ClassifiedOf
<1> QED
  BY <1>1, <1>3, <1>4, <1>5, <1>6 DEF IsRow, Key, Domain

\* The sum of the classified parts of rows.
LEMMA ClassifiedTotalIs ==
    ASSUME LedgerInv, NEW S \in SUBSET usage
    PROVE  /\ ClassifiedTotal(S) = Sum(ClassifiedOf, S)
           /\ IsFiniteSet(S) /\ IsOfInts(ClassifiedOf, S) /\ IsOfInts(UnclassifiedOf, S)
           /\ Evidence(S).unclassified = Sum(UnclassifiedOf, S)
           /\ RowTotal(S) = Sum(ClassifiedOf, S) + Sum(UnclassifiedOf, S)
           /\ Sum(ClassifiedOf, S) \in Nat /\ Sum(UnclassifiedOf, S) \in Nat
<1> DEFINE classified == [r \in S |-> ClassifiedPart(r).total]
           unclassified == [r \in S |-> r.unclassified]
<1>1. ClassifiedTotal(S) = Sum(classified, S)
  BY SumOfFunction DEF ClassifiedTotal
<1>2. Evidence(S).unclassified = Sum(unclassified, S)
  BY SumOfFunction DEF Evidence
<1>3. Agree(classified, ClassifiedOf, S) /\ Agree(unclassified, UnclassifiedOf, S)
  BY DEF Agree, ClassifiedOf, UnclassifiedOf
<1> HIDE DEF classified, unclassified
<1>4. IsFiniteSet(S) /\ RowTotal(S) = Sum(TokensOf, S)
  BY RowsAre
<1>5. \A r \in S : /\ ClassifiedOf[r] \in Nat /\ UnclassifiedOf[r] \in Nat
                   /\ TokensOf[r] = ClassifiedOf[r] + UnclassifiedOf[r]
  BY PartsAre
<1>6. IsOfInts(ClassifiedOf, S) /\ IsOfInts(UnclassifiedOf, S)
  BY <1>5 DEF IsOfInts
<1>7. Sum(TokensOf, S) = Sum(ClassifiedOf, S) + Sum(UnclassifiedOf, S)
  BY <1>4, <1>5, <1>6, SumOfSums
<1>8. Sum(ClassifiedOf, S) \in Nat /\ Sum(UnclassifiedOf, S) \in Nat
  BY <1>4, <1>5, SumNat
<1> QED
  BY <1>1, <1>2, <1>3, <1>4, <1>6, <1>7, <1>8, SumCongruent

\* The rows of models, and what they amount to.
AttributedRows(d) == {r \in UsageRows(d) : r.attributed}

LEMMA ModelsAddUp ==
    ASSUME LedgerInv, NEW d
    PROVE  /\ \A m : RowsOfModel(d, m) \in SUBSET UsageRows(d)
           /\ IsFiniteSet(Models(d))
           /\ \A m \in Models(d) : ModelTotal(d, m) \in Int
           /\ Sum([m \in Models(d) |-> ModelTotal(d, m)], Models(d))
                = Sum(ClassifiedOf, AttributedRows(d))
<1> DEFINE F == [m \in Models(d) |-> RowsOfModel(d, m)]
           v == [m \in Models(d) |-> ModelTotal(d, m)]
           used == {r \in AttributedRows(d) : ClassifiedPart(r).total > 0}
<1>1. \A m : RowsOfModel(d, m) \in SUBSET UsageRows(d)
  BY DEF RowsOfModel
<1>2. UsageRows(d) \in SUBSET usage
  BY UsageRowsAre
<1>3. IsFiniteSet(Models(d))
  <2> DEFINE g == [r \in UsageRows(d) |-> r.model]
  <2>1. Models(d) \subseteq {g[r] : r \in UsageRows(d)}
    BY DEF Models
  <2> HIDE DEF g
  <2>2. IsFiniteSet({g[r] : r \in UsageRows(d)})
    BY <1>2, RowsAre, ImageIsFinite
  <2> QED
    BY <2>1, <2>2, FS_Subset
<1>4. AreApart(F, Models(d))
  BY DEF AreApart, RowsOfModel
<1>5. UNION {F[m] : m \in Models(d)} = used
  <2>1. ASSUME NEW r \in used
        PROVE  r.model \in Models(d) /\ r \in F[r.model]
    <3>1. r \in RowsOfModel(d, r.model) /\ r \in UsageRows(d)
      BY DEF RowsOfModel, AttributedRows
    <3>2. r.model \in Models(d)
      BY <3>1 DEF Models
    <3> QED
      BY <3>1, <3>2
  <2>2. \A m \in Models(d) : F[m] \subseteq used
    BY DEF RowsOfModel, AttributedRows
  <2> HIDE DEF F, used
  <2> QED
    BY <2>1, <2>2
<1>6. \A m \in Models(d) : /\ F[m] \in SUBSET usage /\ v[m] = ModelTotal(d, m)
                           /\ ModelTotal(d, m) = ClassifiedTotal(F[m])
  BY <1>1, <1>2 DEF ModelTotal
<1> HIDE DEF F, v
<1>7. \A m \in Models(d) : /\ IsFiniteSet(F[m]) /\ IsOfInts(ClassifiedOf, F[m])
                           /\ v[m] = Sum(ClassifiedOf, F[m]) /\ v[m] \in Int
  BY <1>6, ClassifiedTotalIs
<1>8. Sum(ClassifiedOf, UNION {F[m] : m \in Models(d)}) = Sum(v, Models(d))
  BY <1>3, <1>4, <1>7, SumOfGroups
<1>9. Sum(ClassifiedOf, AttributedRows(d)) = Sum(ClassifiedOf, used)
  <2>1. AttributedRows(d) \in SUBSET usage /\ used \in SUBSET AttributedRows(d)
    BY <1>2 DEF AttributedRows
  <2>2. ASSUME NEW r \in AttributedRows(d) \ used
        PROVE  ClassifiedOf[r] = 0
    <3>1. r \in usage /\ ~(ClassifiedPart(r).total > 0)
      BY <2>1
    <3>2. ClassifiedOf[r] = ClassifiedPart(r).total /\ ClassifiedOf[r] \in Nat
      BY <3>1, PartsAre
    <3> QED
      BY <3>1, <3>2
  <2> HIDE DEF used
  <2> QED
    BY <2>1, <2>2, ClassifiedTotalIs, SumOfSome
<1> QED
  BY <1>1, <1>3, <1>5, <1>6, <1>7, <1>8, <1>9 DEF v

\* What is unclassified is the rows without a model and what is left of the others.
LEMMA RestAddsUp ==
    ASSUME LedgerInv, NEW d
    PROVE  /\ RowTotal(UnclassifiedRows(d)) \in Int
           /\ RowTotal(UnclassifiedRows(d))
                = RowTotal(UsageRows(d)) - Sum(ClassifiedOf, AttributedRows(d))
<1> DEFINE plain == {r \in UsageRows(d) : ~r.attributed}
           left  == {r \in AttributedRows(d) : r.unclassified # 0}
           g     == [r \in left |-> UnclassifiedPart(r)]
           all   == UnclassifiedRows(d)
           w     == [r \in all |-> r.total]
<1>1. /\ UsageRows(d) \in SUBSET usage /\ AttributedRows(d) \in SUBSET usage
      /\ plain \in SUBSET usage /\ left \in SUBSET AttributedRows(d)
      /\ \A r \in left : r \in usage /\ r.attributed /\ r.unclassified # 0
  BY UsageRowsAre DEF AttributedRows
<1>2. UnclassifiedRows(d) = plain \cup {g[r] : r \in left}
  BY DEF UnclassifiedRows, AttributedRows
<1>3. \A r \in left : g[r] = UnclassifiedPart(r)
  OBVIOUS
<1>4. \A r \in left : /\ g[r].total = r.unclassified /\ Key(g[r]) = Key(r) /\ ~g[r].attributed
  BY <1>1, <1>3, PartsAre
<1>5. AreDistinct(g, left)
  BY <1>1, <1>4 DEF AreDistinct, LedgerInv, TypeOK
<1>6. plain \cap {g[r] : r \in left} = {}
  <2>1. ASSUME NEW r \in left, g[r] \in plain PROVE FALSE
    <3>1. Key(g[r]) = Key(r) /\ g[r] \in usage /\ r \in usage
      BY <1>1, <1>4, <2>1
    <3>2. g[r] = r
      BY <3>1 DEF LedgerInv, TypeOK
    <3> QED
      BY <1>1, <1>4, <3>2
  <2> QED
    BY <2>1
<1>7. UsageRows(d) = plain \cup AttributedRows(d) /\ plain \cap AttributedRows(d) = {}
  BY DEF AttributedRows
<1>8. \A r \in plain : ClassifiedOf[r] = 0 /\ r \in usage /\ w[r] = r.total /\ r.total \in Int
  <2>1. \A r \in plain : r \in usage /\ ~r.attributed /\ r \in all
    BY <1>1, <1>2
  <2>2. \A r \in plain : IsRow(r)
    BY <2>1, KeptRow DEF LedgerInv
  <2>3. \A r \in plain : r.total - r.unclassified = 0 /\ r.total \in Int
    BY <2>1, <2>2 DEF IsRow
  <2> QED
    BY <2>1, <2>3, PartsAre
<1>9. \A r \in left : UnclassifiedOf[r] = w[g[r]] /\ UnclassifiedOf[r] \in Int
  <2>1. \A r \in left : g[r] \in all
    BY <1>2
  <2>2. \A r \in left : w[g[r]] = g[r].total
    BY <2>1
  <2>3. \A r \in left : UnclassifiedOf[r] = r.unclassified /\ UnclassifiedOf[r] \in Nat
    BY <1>1, PartsAre
  <2> HIDE DEF w, g, left
  <2> QED
    BY <1>4, <2>2, <2>3
<1>10. RowTotal(all) = Sum(w, all)
  BY SumOfFunction DEF RowTotal
<1> DEFINE parts == {g[r] : r \in left}
<1>11. IsFiniteSet(plain) /\ IsFiniteSet(left) /\ IsFiniteSet(parts)
  <2>1. IsFiniteSet(plain) /\ IsFiniteSet(left)
    BY <1>1, RowsAre, FS_Subset
  <2> HIDE DEF g, left
  <2> QED
    BY <2>1, ImageIsFinite
<1> HIDE DEF g, left, w, plain, all
<1>12. Sum(w, parts) = Sum(UnclassifiedOf, left)
  BY <1>5, <1>9, <1>11, SumOfImage
<1>13. IsOfInts(w, plain) /\ IsOfInts(w, parts)
  BY <1>8, <1>9 DEF IsOfInts
<1>14. Sum(w, all) = Sum(w, plain) + Sum(w, parts)
  <2>1. plain \cup parts = all /\ plain \cap parts = {}
    BY <1>2, <1>6 DEF all
  <2> HIDE DEF parts
  <2> QED
    BY <1>11, <1>13, <2>1, SumOfUnion
<1>15. Sum(w, plain) = RowTotal(plain)
  BY <1>8, <1>11, RowTotalIs
<1>16. Sum(UnclassifiedOf, left) = Sum(UnclassifiedOf, AttributedRows(d))
  <2>1. \A r \in AttributedRows(d) \ left : UnclassifiedOf[r] = 0
    BY <1>1, PartsAre DEF left
  <2> QED
    BY <1>1, <2>1, ClassifiedTotalIs, SumOfSome
<1>17. RowTotal(UsageRows(d)) = RowTotal(plain) + RowTotal(AttributedRows(d))
  <2>1. /\ RowTotal(UsageRows(d)) = Sum(TokensOf, UsageRows(d))
        /\ RowTotal(plain) = Sum(TokensOf, plain)
        /\ RowTotal(AttributedRows(d)) = Sum(TokensOf, AttributedRows(d))
        /\ IsOfInts(TokensOf, plain) /\ IsOfInts(TokensOf, AttributedRows(d))
        /\ IsFiniteSet(plain) /\ IsFiniteSet(AttributedRows(d))
    BY <1>1, RowsAre
  <2> QED
    BY <1>7, <2>1, SumOfUnion
<1>18. RowTotal(AttributedRows(d))
         = Sum(ClassifiedOf, AttributedRows(d)) + Sum(UnclassifiedOf, AttributedRows(d))
  BY <1>1, ClassifiedTotalIs
<1>19. /\ RowTotal(plain) \in Int /\ Sum(ClassifiedOf, AttributedRows(d)) \in Int
       /\ Sum(UnclassifiedOf, AttributedRows(d)) \in Int
  BY <1>1, RowsAre, ClassifiedTotalIs
<1>20. RowTotal(all) = RowTotal(plain) + Sum(UnclassifiedOf, AttributedRows(d))
  BY <1>10, <1>12, <1>14, <1>15, <1>16
<1> QED
  BY <1>17, <1>18, <1>19, <1>20 DEF all

\* Each time is in an interval.
LEMMA IntervalIs ==
    ASSUME LedgerInv, NEW at \in Int
    PROVE  IntervalOf(at) \in Intervals
<1> DEFINE length == Window \div IntervalCount
           index == (at - WindowStart) \div length
           upper == Min({IntervalCount - 1, index})
<1>1. Window \in Nat \ {0} /\ IntervalCount \in Nat \ {0} /\ Window % IntervalCount = 0
  BY WorkbenchAssumption
<1>2. length \in Int /\ Window = IntervalCount * length
  BY <1>1
<1>3. length > 0
  <2>1. ASSUME length <= 0 PROVE FALSE
    <3>1. PICK l \in Int, c \in Nat : l = length /\ c = IntervalCount /\ l <= 0
      BY <1>1, <1>2, <2>1
    <3>2. c * l <= 0
      BY <3>1
    <3> QED
      BY <1>1, <1>2, <3>1, <3>2
  <2> QED
    BY <1>2, <2>1
<1>4. index \in Int
  <2>1. now \in Int /\ WindowStart \in Int
    BY <1>1, LedgerAssumption DEF LedgerInv, TypeOK, WindowStart
  <2>2. PICK a \in Int, l \in Int : a = at - WindowStart /\ l = length /\ l > 0
    BY <1>2, <1>3, <2>1
  <2>3. a \div l \in Int
    BY <2>2
  <2> QED
    BY <2>2, <2>3
<1> HIDE DEF index, length
<1>5. upper \in Int /\ upper <= IntervalCount - 1
  <2>1. PICK m \in {IntervalCount - 1, index} : \A y \in {IntervalCount - 1, index} : m <= y
    BY <1>1, <1>4
  <2>2. upper \in {IntervalCount - 1, index} /\ \A y \in {IntervalCount - 1, index} : upper <= y
    BY <2>1 DEF Min
  <2> QED
    BY <1>1, <1>4, <2>2
<1> HIDE DEF upper
<1>6. Max({0, upper}) \in {0, upper} /\ \A y \in {0, upper} : Max({0, upper}) >= y
  <2>1. PICK m \in {0, upper} : \A y \in {0, upper} : m >= y
    BY <1>5
  <2> QED
    BY <2>1 DEF Max
<1>7. IntervalOf(at) = Max({0, upper})
  BY DEF IntervalOf, upper, index, length
<1>8. Max({0, upper}) \in 0..(IntervalCount - 1)
  BY <1>1, <1>5, <1>6
<1> QED
  BY <1>7, <1>8 DEF Intervals

\* The intervals of what is added up add up to it.
LEMMA IntervalsAddUp ==
    ASSUME LedgerInv, NEW S, IsFiniteSet(S), \A r \in S : r.at \in Int,
           NEW w, IsOfInts(w, S),
           NEW v, \A i \in Intervals : v[i] = Sum(w, InInterval(S, i))
    PROVE  Sum(v, Intervals) = Sum(w, S)
<1> DEFINE F == [i \in Intervals |-> InInterval(S, i)]
<1>1. IsFiniteSet(Intervals)
  BY FS_Interval, WorkbenchAssumption DEF Intervals
<1>2. AreApart(F, Intervals) /\ \A i \in Intervals : F[i] \subseteq S /\ v[i] = Sum(w, F[i])
  BY DEF AreApart, InInterval
<1>3. UNION {F[i] : i \in Intervals} = S
  <2>1. ASSUME NEW r \in S PROVE r \in F[IntervalOf(r.at)] /\ IntervalOf(r.at) \in Intervals
    BY IntervalIs DEF InInterval
  <2> QED
    BY <1>2, <2>1
<1> HIDE DEF F
<1>4. \A i \in Intervals : IsFiniteSet(F[i]) /\ IsOfInts(w, F[i])
  BY <1>2, FS_Subset DEF IsOfInts
<1> QED
  BY <1>1, <1>2, <1>3, <1>4, SumOfGroups

\* The composition of the rows of a model is what they amount to: a category that is
\* counted with another one is not added.
LEMMA CompositionIs ==
    ASSUME LedgerInv, NEW S \in SUBSET usage, \A r \in S : r.attributed
    PROVE  CompositionTotal(S) = ClassifiedTotal(S)
<1> DEFINE Counted(r) == {"input", "output"} \cup r.separate
           counts(r) == [c \in Categories |-> IF c \in Counted(r) THEN r.tokens[c] ELSE 0]
           m == [r \in S |-> counts(r)]
           k == [c \in Categories |-> [r \in S |-> m[r][c]]]
           v == Composition(S)
<1>1. IsFiniteSet(S)
  BY RowsAre
<1>2. ASSUME NEW r \in S
      PROVE  /\ IsOfInts(m[r], Categories)
             /\ ClassifiedOf[r] = Sum(m[r], Categories)
  <2>1. IsRow(r) /\ r \in usage
    BY KeptRow DEF LedgerInv
  <2>2. ClassifiedOf[r] = Categorized(r)
    BY <2>1, PartsAre DEF IsRow
  <2>3. Counted(r) \in SUBSET Categories
    BY <2>1 DEF IsRow, Categories
  <2> DEFINE tokens == [c \in Counted(r) |-> r.tokens[c]]
             row == counts(r)
  <2>4. Categorized(r) = Sum(tokens, Counted(r))
    BY SumOfFunction DEF Categorized
  <2>5. Agree(tokens, row, Counted(r))
    BY <2>3 DEF Agree
  <2>6. IsOfInts(row, Categories) /\ \A c \in Categories \ Counted(r) : row[c] = 0
    BY <2>1, <2>3 DEF IsRow, IsOfInts
  <2>7. m[r] = row
    OBVIOUS
  <2> HIDE DEF tokens, row, m, Counted
  <2>8. Sum(row, Categories) = Sum(row, Counted(r))
    BY <2>3, <2>6, CategoriesAreFinite, SumOfSome
  <2>9. Sum(tokens, Counted(r)) = Sum(row, Counted(r))
    BY <2>3, <2>5, CategoriesAreFinite, SumCongruent
  <2> QED
    BY <2>2, <2>4, <2>6, <2>7, <2>8, <2>9
<1>3. ASSUME NEW c \in Categories
      PROVE  v[c] = Sum(k[c], S)
  <2> DEFINE some == {r \in S : c \in Counted(r)}
             tokens == [r \in some |-> r.tokens[c]]
             column == [r \in S |-> m[r][c]]
  <2>1. v[c] = Sum(tokens, some)
    BY SumOfFunction DEF Composition, CategoryTotal
  <2>2. Agree(tokens, column, some) /\ \A r \in S \ some : column[r] = 0
    BY DEF Agree
  <2>3. IsOfInts(column, S)
    BY <1>2 DEF IsOfInts
  <2>4. some \in SUBSET S
    OBVIOUS
  <2> HIDE DEF tokens, column, some, m, v
  <2>5. Sum(column, S) = Sum(column, some)
    BY <1>1, <2>2, <2>3, <2>4, SumOfSome
  <2>6. Sum(tokens, some) = Sum(column, some)
    BY <1>1, <2>2, <2>4, FS_Subset, SumCongruent
  <2>7. k[c] = column
    BY DEF k, column
  <2> QED
    BY <2>1, <2>5, <2>6, <2>7
<1>4. CompositionTotal(S) = Sum(v, Categories)
  BY SumOfFunction DEF CompositionTotal, Composition
<1> HIDE DEF m, k, v
<1>5. Sum(ClassifiedOf, S) = Sum(v, Categories)
  <2>1. \A r \in S : IsOfInts(m[r], Categories)
    BY <1>2
  <2>2. \A r \in S : ClassifiedOf[r] = Sum(m[r], Categories)
    BY <1>2
  <2>3. \A c \in Categories : \A r \in S : k[c][r] = m[r][c]
    BY DEF k
  <2>4. \A c \in Categories : v[c] = Sum(k[c], S)
    BY <1>3
  <2>5. IsFiniteSet(Categories)
    BY CategoriesAreFinite
  <2>6. /\ IsTable(m, S, Categories) /\ SumsRows(ClassifiedOf, m, S, Categories)
        /\ HasColumns(m, k, S, Categories) /\ SumsRows(v, k, Categories, S)
    BY <2>1, <2>2, <2>3, <2>4 DEF IsTable, SumsRows, HasColumns
  <2> QED
    BY <1>1, <2>6, <2>5, SumOfTable
<1> QED
  BY <1>4, <1>5, ClassifiedTotalIs

\* Each entry of the ranking is of a model of a domain, and its trend and composition
\* are of what it amounts to.
LEMMA EntryOf ==
    ASSUME NEW d, NEW m
    PROVE  /\ RankingEntry(d, m).id = <<d, m>>
           /\ RankingEntry(d, m).inHeadline = InHeadline(d)
           /\ RankingEntry(d, m).total = ModelTotal(d, m)
  BY DEF RankingEntry

LEMMA EntryIs ==
    ASSUME NEW d, NEW m
    PROVE  /\ RankingEntry(d, m).total = ModelTotal(d, m)
           /\ RankingEntry(d, m).composition = CompositionTotal(RowsOfModel(d, m))
           /\ RankingEntry(d, m).trend
                = [i \in Intervals |-> ClassifiedTotal(InInterval(RowsOfModel(d, m), i))]
           /\ RankingEntry(d, m).trendRecorded
                = [i \in Intervals |-> RowTotal(InInterval(RowsOfModel(d, m), i))]
           /\ LeftBeside(RankingEntry(d, m))
                = SumFunction([r \in RowsOfModel(d, m) |-> r.unclassified])
  BY DEF RankingEntry, LeftBeside

LEMMA EntriesAgree ==
    ASSUME LedgerInv, NEW e \in Ranking
    PROVE  /\ e.total = SumFunction(e.trend) /\ e.total = e.composition
           /\ SumFunction(e.trendRecorded) = e.total + LeftBeside(e)
<1>1. PICK d \in domains : \E m \in Models(d) : e = RankingEntry(d, m)
  BY DEF Ranking
<1>2. PICK m \in Models(d) : e = RankingEntry(d, m)
  BY <1>1
<1> DEFINE rows == RowsOfModel(d, m)
<1>3. /\ e.total = ClassifiedTotal(rows) /\ e.composition = CompositionTotal(rows)
      /\ e.trend = [i \in Intervals |-> ClassifiedTotal(InInterval(rows, i))]
      /\ e.trendRecorded = [i \in Intervals |-> RowTotal(InInterval(rows, i))]
      /\ LeftBeside(e) = SumFunction([r \in rows |-> r.unclassified])
  BY <1>2, EntryIs DEF ModelTotal
<1>4. rows \in SUBSET usage /\ \A r \in rows : r.attributed
  BY ModelsAddUp, UsageRowsAre DEF RowsOfModel
<1>5. \A r \in rows : r.at \in Int
  BY <1>4, KeptRow DEF LedgerInv, IsRow
<1> HIDE DEF rows
<1>6. \A i \in Intervals : e.trend[i] = Sum(ClassifiedOf, InInterval(rows, i))
  <2>1. \A i : InInterval(rows, i) \in SUBSET usage
    BY <1>4 DEF InInterval
  <2> QED
    BY <1>3, <2>1, ClassifiedTotalIs
<1>7. DOMAIN e.trend = Intervals
  BY <1>3
<1>8. PICK trend : trend = e.trend
  OBVIOUS
<1>9. SumFunction(trend) = Sum(trend, Intervals)
  BY <1>7, <1>8, SumOfFunction
<1>10. IsFiniteSet(rows) /\ IsOfInts(ClassifiedOf, rows)
       /\ ClassifiedTotal(rows) = Sum(ClassifiedOf, rows)
  BY <1>4, ClassifiedTotalIs
<1>11. \A i \in Intervals : trend[i] = Sum(ClassifiedOf, InInterval(rows, i))
  BY <1>6, <1>8
<1>12. Sum(trend, Intervals) = Sum(ClassifiedOf, rows)
  BY <1>5, <1>10, <1>11, IntervalsAddUp
<1>13. SumFunction(e.trendRecorded) = e.total + LeftBeside(e)
  <2>1. PICK recorded : recorded = e.trendRecorded
    OBVIOUS
  <2>2. \A i : InInterval(rows, i) \in SUBSET usage
    BY <1>4 DEF InInterval
  <2>3. \A i \in Intervals : recorded[i] = Sum(TokensOf, InInterval(rows, i))
    BY <1>3, <2>1, <2>2, RowsAre
  <2>4. SumFunction(recorded) = Sum(recorded, Intervals)
    BY <1>3, <2>1, SumOfFunction
  <2>5. Sum(recorded, Intervals) = Sum(TokensOf, rows)
    BY <1>4, <1>5, <2>3, RowsAre, IntervalsAddUp
  <2> DEFINE left == [r \in rows |-> r.unclassified]
  <2>6. LeftBeside(e) = Sum(left, rows)
    BY <1>3, SumOfFunction
  <2>7. Agree(left, UnclassifiedOf, rows)
    BY <1>4 DEF Agree, UnclassifiedOf
  <2> HIDE DEF left
  <2>8. LeftBeside(e) = Sum(UnclassifiedOf, rows)
    BY <1>10, <2>6, <2>7, SumCongruent
  <2>9. Sum(TokensOf, rows) = Sum(ClassifiedOf, rows) + Sum(UnclassifiedOf, rows)
    <3>1. \A r \in rows : /\ ClassifiedOf[r] \in Int /\ UnclassifiedOf[r] \in Int
                          /\ TokensOf[r] = ClassifiedOf[r] + UnclassifiedOf[r]
      <4>1. \A r \in rows : r \in usage
        BY <1>4
      <4>2. \A r \in usage : /\ ClassifiedOf[r] \in Nat /\ UnclassifiedOf[r] \in Nat
                             /\ TokensOf[r] = ClassifiedOf[r] + UnclassifiedOf[r]
        BY PartsAre
      <4> QED
        BY <4>1, <4>2
    <3>2. PICK all, u, v, w : all = rows /\ u = TokensOf /\ v = ClassifiedOf /\ w = UnclassifiedOf
      OBVIOUS
    <3>3. /\ IsFiniteSet(all) /\ IsOfInts(v, all) /\ IsOfInts(w, all)
          /\ \A x \in all : u[x] = v[x] + w[x]
      BY <1>10, <3>1, <3>2 DEF IsOfInts
    <3>4. Sum(u, all) = Sum(v, all) + Sum(w, all)
      BY ONLY <3>3, SumOfSums
    <3> QED
      BY <3>2, <3>4
  <2> QED
    BY <1>3, <1>10, <2>1, <2>4, <2>5, <2>8, <2>9
<1> QED
  BY <1>3, <1>4, <1>8, <1>9, <1>10, <1>12, <1>13, CompositionIs

ClassifiedIn == [d \in domains |-> Sum(ClassifiedOf, AttributedRows(d))]
RestIn == [d \in domains |-> RowTotal(UnclassifiedRows(d))]

LEMMA RankedAddUp ==
    ASSUME LedgerInv
    PROVE  LET ranked == {e \in Ranking : e.inHeadline}
           IN  SumFunction([e \in ranked |-> e.total]) = Sum(ClassifiedIn, Headline)
<1> DEFINE ranked == {e \in Ranking : e.inHeadline}
           w == [e \in ranked |-> e.total]
           F == [d \in Headline |-> {RankingEntry(d, m) : m \in Models(d)}]
<1>1. Headline \in SUBSET domains /\ \A d \in domains : d \in Headline <=> InHeadline(d)
  BY DEF Headline
<1>2. UNION {F[d] : d \in Headline} = ranked
  <2>1. ASSUME NEW e \in ranked PROVE \E d \in Headline : e \in F[d]
    <3>0. e \in Ranking /\ e.inHeadline
      OBVIOUS
    <3> HIDE DEF ranked, F
    <3>1. PICK d \in domains : \E m \in Models(d) : e = RankingEntry(d, m)
      BY <3>0 DEF Ranking
    <3>2. d \in Headline
      BY <1>1, <3>0, <3>1, EntryOf
    <3> QED
      BY <3>1, <3>2 DEF F
  <2>2. ASSUME NEW d \in Headline, NEW e \in F[d] PROVE e \in ranked
    <3>1. PICK m \in Models(d) : e = RankingEntry(d, m)
      OBVIOUS
    <3>2. e \in Ranking
      BY <1>1, <3>1 DEF Ranking
    <3> QED
      BY <1>1, <3>1, <3>2, EntryOf
  <2> HIDE DEF F, ranked
  <2> QED
    BY <2>1, <2>2
<1>3. AreApart(F, Headline)
  <2>1. \A d \in Headline : \A e \in F[d] : e.id[1] = d
    BY EntryOf
  <2> HIDE DEF F
  <2> QED
    BY <2>1 DEF AreApart
<1>4. ASSUME NEW d \in Headline
      PROVE  /\ IsFiniteSet(F[d]) /\ IsOfInts(w, F[d])
             /\ ClassifiedIn[d] = Sum(w, F[d])
  <2> DEFINE g == [m \in Models(d) |-> RankingEntry(d, m)]
             v == [m \in Models(d) |-> ModelTotal(d, m)]
  <2>1. F[d] = {g[m] : m \in Models(d)}
    OBVIOUS
  <2>2. AreDistinct(g, Models(d))
    <3>1. \A m \in Models(d) : g[m].id[2] = m
      BY EntryOf
    <3> HIDE DEF g
    <3> QED
      BY <3>1 DEF AreDistinct
  <2>3. \A m \in Models(d) : v[m] = w[g[m]] /\ v[m] \in Int
    <3>1. \A m \in Models(d) : g[m] \in ranked /\ g[m].total = v[m]
      BY <1>2, <2>1, EntryOf
    <3>2. \A m \in Models(d) : v[m] \in Int
      BY ModelsAddUp
    <3> HIDE DEF g, v, ranked
    <3> QED
      BY <3>1, <3>2
  <2>4. IsFiniteSet(Models(d)) /\ Sum(v, Models(d)) = Sum(ClassifiedOf, AttributedRows(d))
    BY ModelsAddUp
  <2>5. ClassifiedIn[d] = Sum(ClassifiedOf, AttributedRows(d))
    BY <1>1 DEF ClassifiedIn
  <2> HIDE DEF g, v, w, F
  <2>6. Sum(w, F[d]) = Sum(v, Models(d)) /\ IsFiniteSet(F[d])
    BY <2>1, <2>2, <2>3, <2>4, SumOfImage, ImageIsFinite
  <2>7. IsOfInts(w, F[d])
    BY <2>1, <2>3 DEF IsOfInts
  <2> QED
    BY <2>4, <2>5, <2>6, <2>7
<1>5. SumFunction(w) = Sum(w, ranked)
  BY SumOfFunction
<1> HIDE DEF F, w, ranked
<1>6. IsFiniteSet(Headline)
  BY <1>1, HistoriesAddUp
<1>7. Sum(w, UNION {F[d] : d \in Headline}) = Sum(ClassifiedIn, Headline)
  BY <1>3, <1>4, <1>6, SumOfGroups
<1>8. SumFunction(w) = Sum(ClassifiedIn, Headline)
  BY <1>2, <1>5, <1>7
<1> QED
  BY <1>8 DEF w, ranked

LEMMA RestOfHeadlineAddsUp ==
    ASSUME LedgerInv
    PROVE  LET rest == {u \in RankingUnclassified : u.inHeadline}
           IN  SumFunction([u \in rest |-> u.total]) = Sum(RestIn, Headline)
<1> DEFINE entry(d) == [ domain |-> d, inHeadline |-> InHeadline(d),
                         total |-> RowTotal(UnclassifiedRows(d)) ]
           rest == {u \in RankingUnclassified : u.inHeadline}
           some == {d \in Headline : UnclassifiedRows(d) # {}}
           g == [d \in some |-> entry(d)]
           w == [u \in rest |-> u.total]
<1>1. rest = {g[d] : d \in some}
  <2>1. RankingUnclassified = {entry(d) : d \in {d \in domains : UnclassifiedRows(d) # {}}}
    BY DEF RankingUnclassified
  <2>2. \A d : entry(d).inHeadline = InHeadline(d)
    OBVIOUS
  <2>3. \A d \in domains : d \in Headline <=> InHeadline(d)
    BY DEF Headline
  <2>4. \A d \in some : g[d] = entry(d) /\ d \in domains /\ d \in Headline
    BY DEF Headline
  <2> HIDE DEF entry, g
  <2> QED
    BY <2>1, <2>2, <2>3, <2>4
<1>2. AreDistinct(g, some)
  <2>1. \A d \in some : g[d].domain = d
    OBVIOUS
  <2> HIDE DEF g
  <2> QED
    BY <2>1 DEF AreDistinct
<1>3. Headline \in SUBSET domains /\ some \in SUBSET Headline /\ IsFiniteSet(Headline)
  BY HeadlineIs, HistoriesAddUp
<1>4. \A d \in Headline : RestIn[d] = RowTotal(UnclassifiedRows(d)) /\ RestIn[d] \in Int
  BY <1>3, RestAddsUp DEF RestIn
<1>5. \A d \in some : RestIn[d] = w[g[d]] /\ RestIn[d] \in Int
  <2>1. \A d \in some : g[d] \in rest /\ g[d].total = RowTotal(UnclassifiedRows(d))
    BY <1>1
  <2> HIDE DEF g, rest
  <2> QED
    BY <1>3, <1>4, <2>1
<1>6. \A d \in Headline \ some : RestIn[d] = 0
  <2>1. RowTotal({}) = 0
    BY FS_EmptySet, RowsAre, SumOfNone
  <2> QED
    BY <1>4, <2>1
<1>7. SumFunction(w) = Sum(w, rest)
  BY SumOfFunction
<1> HIDE DEF g, w, rest, some
<1>8. IsFiniteSet(some) /\ IsOfInts(RestIn, Headline)
  BY <1>3, <1>4, FS_Subset DEF IsOfInts
<1>9. Sum(w, rest) = Sum(RestIn, some)
  BY <1>1, <1>2, <1>5, <1>8, SumOfImage
<1>10. Sum(RestIn, some) = Sum(RestIn, Headline)
  BY <1>3, <1>6, <1>8, SumOfSome
<1>11. SumFunction(w) = Sum(RestIn, Headline)
  BY <1>7, <1>9, <1>10
<1> QED
  BY <1>11 DEF w, rest

\* What is classified and what is not.
LEMMA BreakdownAddsUp ==
    ASSUME LedgerInv
    PROVE  WorkbenchTokens = TokenBreakdown.classified + TokenBreakdown.unclassified
<1> DEFINE sums == {<<d, Evidence(UsageRows(d))>> : d \in Headline}
           g == [d \in Headline |-> <<d, Evidence(UsageRows(d))>>]
           c == [s \in sums |-> ClassifiedTokens(s[2])]
           u == [s \in sums |-> s[2].unclassified]
           cIn == [d \in Headline |-> ClassifiedTokens(Evidence(UsageRows(d)))]
           uIn == [d \in Headline |-> Evidence(UsageRows(d)).unclassified]
<1>1. /\ TokenBreakdown.classified = SumFunction(c)
      /\ TokenBreakdown.unclassified = SumFunction(u)
  BY DEF TokenBreakdown
<1>2. SumFunction(c) = Sum(c, sums) /\ SumFunction(u) = Sum(u, sums)
  BY SumOfFunction
<1>3. sums = {g[d] : d \in Headline} /\ AreDistinct(g, Headline)
  BY DEF AreDistinct
<1>4. Headline \in SUBSET domains /\ IsFiniteSet(Headline)
  BY HeadlineIs, HistoriesAddUp
<1>5. ASSUME NEW d \in Headline
      PROVE  /\ cIn[d] \in Int /\ uIn[d] \in Int /\ RecordedIn[d] = cIn[d] + uIn[d]
             /\ cIn[d] = c[g[d]] /\ uIn[d] = u[g[d]]
  <2>1. UsageRows(d) \in SUBSET usage
    BY UsageRowsAre
  <2>2. PICK a \in Nat, b \in Nat : /\ Evidence(UsageRows(d)).unclassified = b
                                    /\ Evidence(UsageRows(d)).recorded = a + b
    BY <2>1, RowsAre, ClassifiedTotalIs
  <2>3. ClassifiedTokens(Evidence(UsageRows(d))) = a
    BY <2>2 DEF ClassifiedTokens, AtLeastZero
  <2>4. RecordedIn[d] = a + b
    BY <1>4, <2>2 DEF RecordedIn
  <2>5. g[d] \in sums /\ g[d][2] = Evidence(UsageRows(d))
    OBVIOUS
  <2>6. c[g[d]] = ClassifiedTokens(g[d][2]) /\ u[g[d]] = g[d][2].unclassified
    BY <2>5
  <2>7. cIn[d] = a /\ uIn[d] = b
    BY <2>2, <2>3
  <2> HIDE DEF g, c, u, cIn, uIn, sums
  <2> QED
    BY <2>2, <2>3, <2>4, <2>5, <2>6, <2>7
<1> HIDE DEF sums, g, c, u, cIn, uIn
<1>6. Sum(c, sums) = Sum(cIn, Headline) /\ Sum(u, sums) = Sum(uIn, Headline)
  <2>1. \A d \in Headline : cIn[d] = c[g[d]] /\ cIn[d] \in Int
    BY <1>5
  <2>2. \A d \in Headline : uIn[d] = u[g[d]] /\ uIn[d] \in Int
    BY <1>5
  <2>3. Sum(c, {g[d] : d \in Headline}) = Sum(cIn, Headline)
    BY <1>3, <1>4, <2>1, SumOfImage
  <2>4. Sum(u, {g[d] : d \in Headline}) = Sum(uIn, Headline)
    BY <1>3, <1>4, <2>2, SumOfImage
  <2> QED
    BY <1>3, <2>3, <2>4
<1>7. Sum(RecordedIn, Headline) = Sum(cIn, Headline) + Sum(uIn, Headline)
  <2>1. IsOfInts(cIn, Headline) /\ IsOfInts(uIn, Headline)
    BY <1>5 DEF IsOfInts
  <2>2. \A d \in Headline : RecordedIn[d] = cIn[d] + uIn[d]
    BY <1>5
  <2> QED
    BY <1>4, <2>1, <2>2, SumOfSums
<1> QED
  BY <1>1, <1>2, <1>6, <1>7, HeadlineIs

LEMMA TokensReconcile == LedgerInv => RecordedTokensReconcile
<1> SUFFICES ASSUME LedgerInv PROVE RecordedTokensReconcile
  OBVIOUS
<1> DEFINE ranked == {e \in Ranking : e.inHeadline}
           rest   == {u \in RankingUnclassified : u.inHeadline}
<1>0. /\ Headline \in SUBSET domains /\ IsFiniteSet(Headline)
      /\ RowsOf(Headline) \in SUBSET usage /\ IsFiniteSet(RowsOf(Headline))
      /\ WorkbenchTokens = Sum(RecordedIn, Headline)
      /\ WorkbenchTokens = RowTotal(RowsOf(Headline))
  BY HeadlineIs, HistoriesAddUp, RowsAre
<1>1. WorkbenchTokens = SumFunction([e \in ranked |-> e.total])
                            + SumFunction([u \in rest |-> u.total])
  <2>1. \A d \in Headline : /\ RestIn[d] \in Int /\ ClassifiedIn[d] \in Int
                            /\ RecordedIn[d] = ClassifiedIn[d] + RestIn[d]
    <3> SUFFICES ASSUME NEW d \in Headline
                 PROVE  /\ RestIn[d] \in Int /\ ClassifiedIn[d] \in Int
                        /\ RecordedIn[d] = ClassifiedIn[d] + RestIn[d]
      OBVIOUS
    <3>1. /\ RestIn[d] = RowTotal(UnclassifiedRows(d))
          /\ ClassifiedIn[d] = Sum(ClassifiedOf, AttributedRows(d))
          /\ RecordedIn[d] = RowTotal(UsageRows(d))
      BY <1>0, UsageRowsAre, RowsAre DEF RestIn, ClassifiedIn, RecordedIn
    <3>2. UsageRows(d) \in SUBSET usage /\ AttributedRows(d) \in SUBSET usage
      BY UsageRowsAre DEF AttributedRows
    <3>3. Sum(ClassifiedOf, AttributedRows(d)) \in Int /\ RowTotal(UsageRows(d)) \in Int
      BY <3>2, RowsAre, ClassifiedTotalIs
    <3> QED
      BY <3>1, <3>3, RestAddsUp
  <2>2. IsOfInts(ClassifiedIn, Headline) /\ IsOfInts(RestIn, Headline)
    BY <2>1 DEF IsOfInts
  <2>3. Sum(RecordedIn, Headline) = Sum(ClassifiedIn, Headline) + Sum(RestIn, Headline)
    <3>1. PICK all, u, v, w : all = Headline /\ u = RecordedIn /\ v = ClassifiedIn /\ w = RestIn
      OBVIOUS
    <3>2. /\ IsFiniteSet(all) /\ IsOfInts(v, all) /\ IsOfInts(w, all)
          /\ \A x \in all : u[x] = v[x] + w[x]
      BY <1>0, <2>1, <2>2, <3>1
    <3>3. Sum(u, all) = Sum(v, all) + Sum(w, all)
      BY ONLY <3>2, SumOfSums
    <3> QED
      BY <3>1, <3>3
  <2> QED
    BY <1>0, <2>3, RankedAddUp, RestOfHeadlineAddsUp
<1>2. WorkbenchTokens = SumFunction([i \in Intervals |-> DayBreakdown(i).recorded])
  <2> DEFINE v == [i \in Intervals |-> DayBreakdown(i).recorded]
  <2>1. SumFunction(v) = Sum(v, Intervals)
    BY SumOfFunction
  <2>2. \A i \in Intervals : v[i] = Sum(TokensOf, InInterval(RowsOf(Headline), i))
    <3>1. \A i : InInterval(RowsOf(Headline), i) \in SUBSET usage
      BY <1>0 DEF InInterval
    <3> QED
      BY <3>1, RowsAre DEF DayBreakdown
  <2> HIDE DEF v
  <2>3. IsOfInts(TokensOf, RowsOf(Headline))
    BY <1>0, RowsAre
  <2>4. \A r \in RowsOf(Headline) : r.at \in Int
    BY <1>0, KeptRow DEF LedgerInv, IsRow
  <2>5. Sum(v, Intervals) = Sum(TokensOf, RowsOf(Headline))
    BY <1>0, <2>2, <2>3, <2>4, IntervalsAddUp
  <2>6. SumFunction(v) = RowTotal(RowsOf(Headline))
    BY <1>0, <2>1, <2>5, RowsAre
  <2> QED
    BY <1>0, <2>6 DEF v
<1>3. WorkbenchTokens = GlobalSummary.recorded
  <2> DEFINE counted == {d \in Headline : UsageRows(d) # {}}
  <2>1. GlobalSummary.recorded = Evidence(RowsOf(counted)).recorded
    BY DEF GlobalSummary
  <2>2. RowsOf(counted) = RowsOf(Headline)
    BY DEF RowsOf
  <2> QED
    BY <1>0, <2>1, <2>2, RowsAre
<1> QED
  BY <1>1, <1>2, <1>3, BreakdownAddsUp, EntriesAgree DEF RecordedTokensReconcile
-----------------------------------------------------------------------------
(* The export.                                                              *)

\* The observations that are told, and how each of them is.
ToldRows(d) == {r \in UsageRows(d) : r.attributed => r.total > 0}
Telling(r) ==
    IF ~r.attributed THEN <<"unclassified", r>>
    ELSE IF ClassifiedPart(r).total > 0 THEN <<"model", r>>
    ELSE <<"unclassified", UnclassifiedPart(r)>>

LEMMA TellingIs ==
    ASSUME LedgerInv, NEW d, NEW r \in ToldRows(d)
    PROVE  /\ r \in UsageRows(d) /\ r \in usage
           /\ Key(Telling(r)[2]) = Key(r) /\ Telling(r)[2].total = r.total
           /\ r.total \in Nat
<1>1. r \in UsageRows(d) /\ r \in usage
  BY UsageRowsAre DEF ToldRows
<1>2. IsRow(r)
  BY <1>1, KeptRow DEF LedgerInv
<1>3. ClassifiedPart(r).total = r.total - r.unclassified
  BY <1>1, PartsAre
<1>4. r.total \in Nat /\ r.unclassified \in Nat /\ r.unclassified <= r.total
  BY <1>2 DEF IsRow
<1>5. CASE ~r.attributed
  BY <1>1, <1>4, <1>5 DEF Telling
<1>6. CASE r.attributed /\ ClassifiedPart(r).total > 0
  BY <1>1, <1>4, <1>6 DEF Telling
<1>7. CASE r.attributed /\ ~(ClassifiedPart(r).total > 0)
  <2>1. r.unclassified = r.total
    BY <1>3, <1>4, <1>7
  <2>2. Telling(r) = <<"unclassified", UnclassifiedPart(r)>>
    BY <1>7 DEF Telling
  <2>3. UnclassifiedPart(r).total = r.unclassified /\ Key(UnclassifiedPart(r)) = Key(r)
    BY <1>1, PartsAre
  <2>4. Telling(r)[2] = UnclassifiedPart(r)
    BY <2>2
  <2> QED
    BY <1>1, <1>4, <2>1, <2>3, <2>4
<1> QED
  BY <1>5, <1>6, <1>7

LEMMA ExportIs ==
    ASSUME LedgerInv, NEW d
    PROVE  ExportedObservations(d) = {Telling(r) : r \in ToldRows(d)}
<1> DEFINE ofModels == UNION {RowsOfModel(d, m) : m \in Models(d)}
           others == Without(UnclassifiedRows(d), Keys(ofModels))
<1>1. ExportedObservations(d) = {<<"model", r>> : r \in ofModels}
                                  \cup {<<"unclassified", r>> : r \in others}
  BY DEF ExportedObservations
<1>2. \A r : r \in ofModels <=> /\ r \in UsageRows(d) /\ r.attributed
                                /\ ClassifiedPart(r).total > 0
  <2>1. ASSUME NEW r \in UsageRows(d), r.attributed, ClassifiedPart(r).total > 0
        PROVE  r \in ofModels
    <3>1. r \in RowsOfModel(d, r.model)
      BY <2>1 DEF RowsOfModel
    <3>2. r.model \in Models(d)
      BY <2>1, <3>1 DEF Models
    <3> QED
      BY <3>1, <3>2
  <2>2. \A r \in ofModels : r \in UsageRows(d) /\ r.attributed /\ ClassifiedPart(r).total > 0
    BY DEF RowsOfModel
  <2> HIDE DEF ofModels
  <2> QED
    BY <2>1, <2>2
<1>3. \A r \in UsageRows(d) : /\ r \in usage /\ r.total \in Nat /\ r.unclassified \in Nat
                              /\ r.unclassified <= r.total /\ r.attributed \in BOOLEAN
                              /\ ClassifiedPart(r).total = r.total - r.unclassified
                              /\ Key(UnclassifiedPart(r)) = Key(r)
  BY UsageRowsAre, KeptRow, PartsAre DEF LedgerInv, IsRow
<1>4. \A r \in UsageRows(d) : Key(r) \in Keys(ofModels) <=> r \in ofModels
  <2>1. \A r \in UsageRows(d), s \in ofModels : Key(r) = Key(s) => r = s
    BY <1>2, <1>3 DEF LedgerInv, TypeOK
  <2> HIDE DEF ofModels
  <2> QED
    BY <2>1 DEF Keys
<1>5. ASSUME NEW r \in ofModels
      PROVE  r \in ToldRows(d) /\ Telling(r) = <<"model", r>>
  <2>1. r \in UsageRows(d) /\ r.attributed /\ ClassifiedPart(r).total > 0
    BY <1>2
  <2>2. r.total > 0
    BY <1>3, <2>1
  <2> QED
    BY <2>1, <2>2 DEF ToldRows, Telling
<1>6. ASSUME NEW s \in others
      PROVE  \E r \in ToldRows(d) : Telling(r) = <<"unclassified", s>>
  <2>1. s \in UnclassifiedRows(d) /\ Key(s) \notin Keys(ofModels)
    BY DEF Without
  <2> HIDE DEF ofModels, others
  <2>2. CASE s \in UsageRows(d) /\ ~s.attributed
    BY <2>2 DEF ToldRows, Telling
  <2>3. CASE ~(s \in UsageRows(d) /\ ~s.attributed)
    <3>1. PICK r \in UsageRows(d) : r.attributed /\ r.unclassified # 0 /\ s = UnclassifiedPart(r)
      BY <2>1, <2>3 DEF UnclassifiedRows
    <3>2. r \notin ofModels
      BY <1>3, <1>4, <2>1, <3>1
    <3>3. ~(ClassifiedPart(r).total > 0)
      BY <1>2, <3>1, <3>2
    <3>4. r.total > 0
      BY <1>3, <3>1
    <3> QED
      BY <3>1, <3>3, <3>4 DEF ToldRows, Telling
  <2> QED
    BY <2>2, <2>3
<1>7. ASSUME NEW r \in ToldRows(d)
      PROVE  \/ r \in ofModels /\ Telling(r) = <<"model", r>>
             \/ \E s \in others : Telling(r) = <<"unclassified", s>>
  <2>1. r \in UsageRows(d) /\ (r.attributed => r.total > 0)
    BY DEF ToldRows
  <2>2. CASE ~r.attributed
    <3>1. r \notin ofModels
      BY <1>2, <2>2
    <3> HIDE DEF ofModels
    <3>2. r \in others
      BY <1>4, <2>1, <2>2, <3>1 DEF UnclassifiedRows, Without
    <3> QED
      BY <2>2, <3>2 DEF Telling
  <2>3. CASE r.attributed /\ ClassifiedPart(r).total > 0
    BY <1>2, <2>1, <2>3 DEF Telling
  <2>4. CASE r.attributed /\ ~(ClassifiedPart(r).total > 0)
    <3>1. r \notin ofModels
      BY <1>2, <2>4
    <3> HIDE DEF ofModels
    <3>2. r.unclassified # 0
      BY <1>3, <2>1, <2>4
    <3>3. UnclassifiedPart(r) \in UnclassifiedRows(d)
      BY <2>1, <2>4, <3>2 DEF UnclassifiedRows
    <3>4. UnclassifiedPart(r) \in others
      BY <1>3, <1>4, <2>1, <3>1, <3>3 DEF Without
    <3> QED
      BY <2>4, <3>4 DEF Telling
  <2> QED
    BY <2>2, <2>3, <2>4
<1> HIDE DEF ofModels, others
<1>8. \A x \in ExportedObservations(d) : \E r \in ToldRows(d) : x = Telling(r)
  BY <1>1, <1>5, <1>6
<1>9. \A r \in ToldRows(d) : Telling(r) \in ExportedObservations(d)
  BY <1>1, <1>7
<1> QED
  BY <1>8, <1>9

LEMMA ExportTells == LedgerInv => ExportTellsEachOnce
<1> SUFFICES ASSUME LedgerInv, NEW d \in domains
             PROVE  /\ {Key(x[2]) : x \in ExportedObservations(d)} = Keys(ToldRows(d))
                    /\ \A x, y \in ExportedObservations(d) : Key(x[2]) = Key(y[2]) => x = y
                    /\ SumFunction([x \in ExportedObservations(d) |-> x[2].total])
                         = ExportedTotal(d)
                    /\ Keys(ExportedCosts(d))
                         = UNION {h.of : h \in SummarizeHistoryCosts(CostRows(d))}
  BY DEF ExportTellsEachOnce, ToldRows
<1>1. {Key(x[2]) : x \in ExportedObservations(d)} = Keys(ToldRows(d))
  BY ExportIs, TellingIs DEF Keys
<1>2. \A x, y \in ExportedObservations(d) : Key(x[2]) = Key(y[2]) => x = y
  <2>1. \A r, s \in ToldRows(d) : Key(r) = Key(s) => r = s
    BY TellingIs DEF LedgerInv, TypeOK
  <2> QED
    BY <2>1, ExportIs, TellingIs
<1>3. SumFunction([x \in ExportedObservations(d) |-> x[2].total]) = ExportedTotal(d)
  <2> DEFINE exported == ExportedObservations(d)
             w == [x \in exported |-> x[2].total]
             g == [r \in ToldRows(d) |-> Telling(r)]
  <2>1. exported = {g[r] : r \in ToldRows(d)}
    BY ExportIs
  <2>2. AreDistinct(g, ToldRows(d))
    <3>1. \A r \in ToldRows(d) : g[r] = Telling(r)
      OBVIOUS
    <3>2. \A r, s \in ToldRows(d) : Key(r) = Key(s) => r = s
      BY TellingIs DEF LedgerInv, TypeOK
    <3> HIDE DEF g
    <3> QED
      BY <3>1, <3>2, TellingIs DEF AreDistinct
  <2>3. \A r \in ToldRows(d) : TokensOf[r] = w[g[r]] /\ TokensOf[r] \in Int
    <3>1. \A r \in ToldRows(d) : g[r] \in exported /\ g[r][2].total = r.total
      BY <2>1, TellingIs
    <3>2. \A r \in ToldRows(d) : TokensOf[r] = r.total /\ r.total \in Int
      BY TellingIs DEF TokensOf
    <3> HIDE DEF g, exported
    <3> QED
      BY <3>1, <3>2
  <2>4. UsageRows(d) \in SUBSET usage /\ ToldRows(d) \in SUBSET UsageRows(d)
    BY UsageRowsAre DEF ToldRows
  <2>5. \A r \in UsageRows(d) \ ToldRows(d) : TokensOf[r] = 0
    <3>1. \A r \in UsageRows(d) : r.total \in Nat /\ TokensOf[r] = r.total
      BY <2>4, KeptRow DEF LedgerInv, IsRow, TokensOf
    <3> QED
      BY <3>1 DEF ToldRows
  <2>6. SumFunction(w) = Sum(w, exported)
    BY SumOfFunction
  <2> HIDE DEF w, g, exported
  <2>7. /\ IsFiniteSet(UsageRows(d)) /\ IsOfInts(TokensOf, UsageRows(d))
        /\ IsFiniteSet(ToldRows(d))
        /\ ExportedTotal(d) = Sum(TokensOf, UsageRows(d))
    BY <2>4, RowsAre, FS_Subset DEF ExportedTotal
  <2>8. Sum(w, exported) = Sum(TokensOf, ToldRows(d))
    BY <2>1, <2>2, <2>3, <2>7, SumOfImage
  <2>9. Sum(TokensOf, UsageRows(d)) = Sum(TokensOf, ToldRows(d))
    BY <2>4, <2>5, <2>7, SumOfSome
  <2>10. SumFunction(w) = ExportedTotal(d)
    BY <2>6, <2>7, <2>8, <2>9
  <2> QED
    BY <2>10 DEF w, exported
<1>4. Keys(ExportedCosts(d)) = UNION {h.of : h \in SummarizeHistoryCosts(CostRows(d))}
  <2> DEFINE group(c) == {e \in CostRows(d) : e.kind = c.kind /\ e.currency = c.currency}
  <2>1. SummarizeHistoryCosts(CostRows(d)) = {HistoryCost(group(c)) : c \in CostRows(d)}
    BY DEF SummarizeHistoryCosts
  <2>2. \A c : HistoryCost(group(c)).of = Keys(group(c))
    BY DEF HistoryCost
  <2>3. \A c \in CostRows(d) : c \in group(c) /\ group(c) \subseteq CostRows(d)
    OBVIOUS
  <2> HIDE DEF group
  <2> QED
    BY <2>1, <2>2, <2>3 DEF ExportedCosts, Keys
<1> QED
  BY <1>1, <1>2, <1>3, <1>4
-----------------------------------------------------------------------------
(* Compaction and the wall.                                                 *)

\* Rows are added or not, whether or not older ones are kept: the parts of a day are
\* of one time, and so they go together.
LEMMA StaysAdditive ==
    ASSUME LedgerInv, CompactUsageHistory
    PROVE  Additive' = Additive \ Old
<1>1. usage' = usage \ Old /\ now' = now
  BY CompactionIs
<1>2. ASSUME NEW r \in usage \ Old
      PROVE  IsAdditive(r)' <=> IsAdditive(r)
  <2>1. ASSUME NEW s \in usage, IsRemainderOf(s, r)
        PROVE  s \in usage'
    <3>1. PICK o \in Observations : r = Normalized(o)
      BY DEF LedgerInv, TypeOK, Rows
    <3>2. PICK p \in Observations : s = Normalized(p)
      BY DEF LedgerInv, TypeOK, Rows
    <3>3. IsRemainderOf(p, o)
      BY <2>1, <3>1, <3>2 DEF IsRemainderOf, Normalized
    <3>4. p.at = o.at
      BY <3>3, LedgerAssumption
    <3>5. s.at = r.at
      BY <3>1, <3>2, <3>4 DEF Normalized
    <3> QED
      BY <1>1, <3>5 DEF Old
  <2>2. IsAdditive(r) <=> r.additive /\ ~\E s \in usage : IsRemainderOf(s, r)
    BY DEF IsAdditive
  <2>3. IsAdditive(r)' <=> r.additive /\ ~\E s \in usage' : IsRemainderOf(s, r)
    BY DEF IsAdditive, IsRemainderOf
  <2> QED
    BY <1>1, <2>1, <2>2, <2>3
<1>3. Additive' = {r \in usage' : IsAdditive(r)'}
  BY DEF Additive
<1>4. Additive = {r \in usage : IsAdditive(r)}
  BY DEF Additive
<1> QED
  BY <1>1, <1>2, <1>3, <1>4

\* The day of UTC that a day is summed for is the one it is shown on.
LEMMA ShownOnItsDay ==
    ASSUME NEW day \in Int
    PROVE  (day * DayLength + DayLength \div 2 + 0) \div DayLength = day
<1>1. PICK n \in Nat : n = DayLength /\ n > 0
  BY LedgerAssumption
<1>2. PICK h \in Nat : h = n \div 2 /\ h < n
  BY <1>1
<1>3. PICK q \in Int : q = (day * n + h) \div n
  BY <1>1, <1>2
<1>4. n * q <= day * n + h /\ day * n + h < n * (q + 1)
  BY <1>1, <1>2, <1>3
<1>5. q = day
  <2>1. CASE q < day
    <3>1. n * (q + 1) <= n * day
      BY <1>1, <2>1
    <3> QED
      BY <1>1, <1>2, <1>4, <3>1
  <2>2. CASE q > day
    <3>1. n * (day + 1) <= n * q
      BY <1>1, <2>2
    <3>2. n * (day + 1) = day * n + n
      BY <1>1
    <3> QED
      BY <1>1, <1>2, <1>4, <3>1, <3>2
  <2> QED
    BY <2>1, <2>2
<1> QED
  BY <1>1, <1>2, <1>3, <1>5

\* The rows and the sums of a day of UTC.
RowsOfDay(day) == {r \in Additive : Domain(r) \in Headline /\ DayOf(r.at) = day}
SumsOfDay(day) == {a \in aggregates : Domain(a) \in Headline /\ a.day = day}

LEMMA WallIs ==
    ASSUME LedgerInv, NEW day \in WallRange(0)
    PROVE  WallTokens(0, day) = RowTotal(RowsOfDay(day)) + RowTotal(SumsOfDay(day))
<1>1. \A r \in Additive : r.at \in Int
  BY KeptRow DEF LedgerInv, Additive, IsRow
<1>2. \A r \in Additive : LocalDay(r.at, 0) = DayOf(r.at)
  <2>1. \A n \in Int : n + 0 = n
    OBVIOUS
  <2> QED
    BY <1>1, <2>1 DEF LocalDay, DayOf
<1>3. \A a \in aggregates : AggregateDay(a, 0) = a.day
  <2>1. \A a \in aggregates : a.day \in Int
    BY DEF LedgerInv, KeptRowsAreRows
  <2> QED
    BY <2>1, ShownOnItsDay DEF AggregateDay, LocalDay
<1>4. {r \in Additive : Domain(r) \in Headline /\ LocalDay(r.at, 0) = day} = RowsOfDay(day)
  BY <1>2 DEF RowsOfDay
<1>5. {a \in ShownAggregates(0) : AggregateDay(a, 0) = day} = SumsOfDay(day)
  BY <1>3 DEF SumsOfDay, ShownAggregates
<1> QED
  BY <1>4, <1>5 DEF WallTokens

LEMMA CompactionKeepsADay ==
    ASSUME LedgerInv, LedgerInv', CompactUsageHistory,
           \A a \in aggregates : SummedOf(AggregateKey(a)) = {},
           NEW day \in Int
    PROVE  RowTotal(RowsOfDay(day))' + RowTotal(SumsOfDay(day))'
             = RowTotal(RowsOfDay(day)) + RowTotal(SumsOfDay(day))
<1> DEFINE keys == {k \in Summed : <<k[1], k[2]>> \in Headline /\ k[3] = day}
           g    == [k \in keys |-> CompactedTo(k)]
           F    == [k \in keys |-> SummedOf(k)]
           v    == [k \in keys |-> RowTotal(SummedOf(k))]
           more == {g[k] : k \in keys}
           w    == [a \in aggregates' |-> a.total]
           A    == RowsOfDay(day)
           G    == SumsOfDay(day)
<1>0. /\ usage' = usage \ Old /\ UNCHANGED <<now, costs, rates, domains>>
      /\ aggregates' = {a \in aggregates : AggregateKey(a) \notin Summed}
                          \cup {CompactedTo(k) : k \in Summed}
  BY CompactionIs
<1>1. Headline' = Headline
  BY <1>0 DEF Headline, InHeadline, SummaryDomain, DomainsOf
<1>2. RowsOfDay(day)' = A \ Old
  <2>1. RowsOfDay(day)' = {r \in Additive' : Domain(r) \in Headline' /\ DayOf(r.at) = day}
    BY DEF RowsOfDay, Domain, DayOf
  <2> QED
    BY <1>1, <2>1, StaysAdditive DEF RowsOfDay
<1>3. aggregates' = aggregates \cup {CompactedTo(k) : k \in Summed}
  BY <1>0 DEF Summed
<1>4. SumsOfDay(day)' = G \cup more
  <2>1. SumsOfDay(day)' = {a \in aggregates' : Domain(a) \in Headline /\ a.day = day}
    BY <1>1 DEF SumsOfDay, Domain
  <2>2. \A k \in Summed : Domain(CompactedTo(k)) = <<k[1], k[2]>> /\ CompactedTo(k).day = k[3]
    BY DEF CompactedTo, Domain
  <2>3. more = {a \in {CompactedTo(k) : k \in Summed} : Domain(a) \in Headline /\ a.day = day}
    BY <2>2
  <2> HIDE DEF more
  <2> QED
    BY <1>3, <2>1, <2>3 DEF SumsOfDay
<1>5. \A k \in keys : /\ g[k].total = RowTotal(SummedOf(k)) /\ AggregateKey(g[k]) = k
                      /\ g[k] \in aggregates' /\ g[k].total \in Nat
  BY <1>3, CompactedToIs
<1>6. AreDistinct(g, keys) /\ G \cap more = {}
  <2>1. \A a \in aggregates : AggregateKey(a) \notin Summed
    BY DEF Summed
  <2>2. \A k \in keys : k \in Summed
    OBVIOUS
  <2> HIDE DEF g, keys
  <2> QED
    BY <1>5, <2>1, <2>2 DEF AreDistinct, SumsOfDay
<1>7. IsFiniteSet(G) /\ IsFiniteSet(more) /\ IsFiniteSet(keys)
  <2>1. IsFiniteSet(aggregates')
    BY DEF LedgerInv, KeptIsFinite
  <2>2. G \subseteq aggregates' /\ more \subseteq aggregates'
    BY <1>3, <1>5 DEF SumsOfDay
  <2>3. IsFiniteSet(keys)
    <3> DEFINE key == [r \in Old |-> AggregateOf(r)]
    <3>1. keys \subseteq {key[r] : r \in Old}
      BY DEF Summed
    <3>2. IsFiniteSet(Old)
      BY FS_Subset DEF Old, LedgerInv, KeptIsFinite
    <3> HIDE DEF key, keys
    <3>3. IsFiniteSet({key[r] : r \in Old})
      BY <3>2, ImageIsFinite
    <3> QED
      BY <3>1, <3>3, FS_Subset
  <2> HIDE DEF G, more
  <2> QED
    BY <2>1, <2>2, <2>3, FS_Subset
<1>8. \A a \in G : a \in aggregates' /\ w[a] = a.total /\ a.total \in Nat
  <2>1. \A a \in aggregates' : a.total \in Nat
    BY DEF LedgerInv, KeptRowsAreRows
  <2> QED
    BY <1>3, <2>1 DEF SumsOfDay
<1>9. \A k \in keys : w[g[k]] = v[k] /\ v[k] \in Int
  <2>1. \A k \in keys : v[k] = RowTotal(SummedOf(k))
    OBVIOUS
  <2> HIDE DEF g, keys, v
  <2> QED
    BY <1>5, <2>1
<1>10. \A k \in keys : /\ F[k] = SummedOf(k) /\ F[k] \in SUBSET usage
                       /\ v[k] = RowTotal(SummedOf(k))
  BY DEF SummedOf, Old
<1>11. AreApart(F, keys)
  BY DEF AreApart, SummedOf
<1>12. UNION {F[k] : k \in keys} = A \cap Old
  <2>1. ASSUME NEW r \in A \cap Old
        PROVE  AggregateOf(r) \in keys /\ r \in SummedOf(AggregateOf(r))
    <3>1. r \in SummedOf(AggregateOf(r))
      BY DEF SummedOf, RowsOfDay
    <3>2. AggregateOf(r) \in Summed
      BY <3>1 DEF Summed
    <3>3. /\ AggregateOf(r)[1] = r.provider /\ AggregateOf(r)[2] = r.domain
          /\ AggregateOf(r)[3] = DayOf(r.at)
      BY DEF AggregateOf
    <3> QED
      BY <3>1, <3>2, <3>3 DEF RowsOfDay, Domain
  <2>2. ASSUME NEW k \in keys, NEW r \in SummedOf(k)
        PROVE  r \in A \cap Old
    <3>1. r \in Old /\ r \in Additive /\ AggregateOf(r) = k
      BY <2>2 DEF SummedOf
    <3>2. k[1] = r.provider /\ k[2] = r.domain /\ k[3] = DayOf(r.at)
      BY <3>1 DEF AggregateOf
    <3> QED
      BY <3>1, <3>2 DEF RowsOfDay, Domain
  <2> HIDE DEF keys, F, A
  <2> QED
    BY <1>10, <2>1, <2>2
<1>13. A \in SUBSET usage
  BY DEF RowsOfDay, Additive
<1> HIDE DEF keys, g, F, v, more, w, A, G
<1>14. RowTotal(G \cup more) = RowTotal(G) + Sum(w, more)
  <2>1. \A a \in more : w[a] = a.total /\ w[a] \in Nat
    BY <1>3, <1>5 DEF more, w
  <2>2. \A a \in G \cup more : w[a] = a.total
    BY <1>8, <2>1
  <2>3. IsOfInts(w, G) /\ IsOfInts(w, more)
    BY <1>8, <2>1 DEF IsOfInts
  <2>4. PICK all : all = G \cup more
    OBVIOUS
  <2>5. IsFiniteSet(all) /\ \A a \in all : w[a] = a.total
    BY <1>7, <2>2, <2>4, FS_Union
  <2>6. RowTotal(all) = Sum(w, all)
    BY <2>5, RowTotalIs
  <2>7. RowTotal(G) = Sum(w, G)
    BY <1>7, <2>2, RowTotalIs
  <2>8. Sum(w, G \cup more) = Sum(w, G) + Sum(w, more)
    BY <1>6, <1>7, <2>3, SumOfUnion
  <2> QED
    BY <2>4, <2>6, <2>7, <2>8
<1>15. Sum(w, more) = Sum(v, keys)
  BY <1>6, <1>7, <1>9, SumOfImage DEF more
<1>16. Sum(TokensOf, A \cap Old) = Sum(v, keys)
  <2>1. \A k \in keys : /\ IsFiniteSet(F[k]) /\ IsOfInts(TokensOf, F[k])
                        /\ v[k] = Sum(TokensOf, F[k])
    BY <1>10, RowsAre
  <2>2. Sum(TokensOf, UNION {F[k] : k \in keys}) = Sum(v, keys)
    BY <1>7, <1>11, <2>1, SumOfGroups
  <2> QED
    BY <1>12, <2>2
<1>17. RowTotal(A) = RowTotal(A \ Old) + RowTotal(A \cap Old)
  <2>1. PICK one, two : one = A \ Old /\ two = A \cap Old
    OBVIOUS
  <2>2. one \in SUBSET usage /\ two \in SUBSET usage /\ A = one \cup two /\ one \cap two = {}
    BY <1>13, <2>1
  <2>3. /\ IsFiniteSet(one) /\ IsFiniteSet(two)
        /\ IsOfInts(TokensOf, one) /\ IsOfInts(TokensOf, two)
        /\ RowTotal(one) = Sum(TokensOf, one) /\ RowTotal(two) = Sum(TokensOf, two)
        /\ RowTotal(A) = Sum(TokensOf, A)
    BY <1>13, <2>2, RowsAre
  <2>4. Sum(TokensOf, one \cup two) = Sum(TokensOf, one) + Sum(TokensOf, two)
    BY <2>2, <2>3, SumOfUnion
  <2> QED
    BY <2>1, <2>2, <2>3, <2>4
<1>18. RowTotal(A \cap Old) = Sum(TokensOf, A \cap Old)
  <2>1. A \cap Old \in SUBSET usage
    BY <1>13
  <2> QED
    BY <2>1, RowsAre
<1>19. /\ RowTotal(A \ Old) \in Int /\ RowTotal(A \cap Old) \in Int /\ RowTotal(G) \in Int
  <2>1. A \ Old \in SUBSET usage /\ A \cap Old \in SUBSET usage
    BY <1>13
  <2> QED
    BY <1>7, <1>8, <2>1, RowsAre, RowTotalNat
<1>20. /\ RowTotal(RowsOfDay(day))' = RowTotal(A \ Old)
       /\ RowTotal(SumsOfDay(day))' = RowTotal(G \cup more)
  BY <1>2, <1>4 DEF RowTotal
<1>21. RowTotal(RowsOfDay(day))' + RowTotal(SumsOfDay(day))' = RowTotal(A) + RowTotal(G)
  BY <1>14, <1>15, <1>16, <1>17, <1>18, <1>19, <1>20
<1> QED
  BY <1>21 DEF A, G

LEMMA WallOfEachDay == LedgerInv =>
    \A day \in WallRange(0) :
        WallTokens(0, day) = RowTotal(RowsOfDay(day)) + RowTotal(SumsOfDay(day))
BY WallIs

LEMMA WallStep == LedgerInv /\ LedgerInv' /\ [Next]_vars =>
    [ CompactUsageHistory /\ (\A a \in aggregates : SummedOf(AggregateKey(a)) = {}) =>
            \A day \in WallRange(0) : WallTokens(0, day)' = WallTokens(0, day) ]_vars
<1>0. (LedgerInv =>
          \A day \in WallRange(0) :
              WallTokens(0, day) = RowTotal(RowsOfDay(day)) + RowTotal(SumsOfDay(day)))'
  BY WallOfEachDay, PTL
<1> SUFFICES ASSUME LedgerInv, LedgerInv', CompactUsageHistory,
                    \A a \in aggregates : SummedOf(AggregateKey(a)) = {},
                    NEW day \in WallRange(0)
             PROVE  WallTokens(0, day)' = WallTokens(0, day)
  OBVIOUS
<1>1. day \in WallRange(0)' /\ day \in Int
  BY CompactionIs DEF WallRange, LocalDay
<1>2. WallTokens(0, day) = RowTotal(RowsOfDay(day)) + RowTotal(SumsOfDay(day))
  BY WallIs
<1>3. WallTokens(0, day)' = RowTotal(RowsOfDay(day))' + RowTotal(SumsOfDay(day))'
  BY <1>0, <1>1
<1> QED
  BY <1>1, <1>2, <1>3, CompactionKeepsADay
-----------------------------------------------------------------------------
(* Amounts.                                                                 *)

\* What makes an amount one that can be shown.
HasAmount(c) == c.amount # Unknown

IsConvertible(currency) ==
    currency # ComparisonCurrency =>
        \E r \in rates : /\ r.base = currency /\ r.at < now
                         /\ r.quote = ComparisonCurrency
                         /\ now - r.at <= RateTerm

ConvertedOf == [c \in costs |-> Converted(c.amount, c.currency)]
KnownOf == [c \in costs |-> IF HasAmount(c) THEN 1 ELSE 0]
OneOf == [c \in costs |-> 1]

\* The costs of the headline of one purpose, and the groups they are summed in.
CostsFor(S, purpose) == {c \in S : c.kind = purpose /\ Domain(c) \in Headline}
GroupOf(R, c) == {e \in R : Domain(e) = Domain(c) /\ e.currency = c.currency}
Groups(R) == {GroupOf(R, c) : c \in R}
HistoryOf(S) == UNION {SummarizeHistoryCosts({c \in S : Domain(c) = d}) : d \in Headline}

LEMMA CostIs ==
    ASSUME LedgerInv, NEW c \in costs, c.kind # "subscription"
    PROVE  c.amount \in Nat \cup {Unknown} /\ c.at \in Int
<1>1. PICK e \in CostRecords : c = Persisted(e)
  BY DEF LedgerInv, TypeOK
<1>2. e.kind # "subscription"
  BY <1>1, PersistedIs
<1> QED
  BY <1>1, <1>2, PersistedIs, LedgerAssumption

\* The latest rate is usable where any is.
LEMMA RateIs ==
    ASSUME LedgerInv, NEW currency, currency # ComparisonCurrency
    PROVE  /\ RateIsUsable(RateFrom(currency)) <=> IsConvertible(currency)
           /\ RateIsUsable(RateFrom(currency)) => RateFrom(currency).rate \in Nat
<1> DEFINE known == {r \in rates : r.base = currency /\ r.quote = ComparisonCurrency /\ r.at < now}
           latest == CHOOSE r \in known : \A s \in known : r.at >= s.at
<1>1. now \in Int /\ RateTerm \in Nat
  BY LedgerAssumption, WorkbenchAssumption DEF LedgerInv, TypeOK
<1>2. known \subseteq RateSnapshots /\ \A r \in known : r.at \in Int /\ r.rate \in Nat \ {0}
  BY LedgerAssumption DEF LedgerInv, TypeOK
<1>3. RateFrom(currency) = IF known = {} THEN NoRate ELSE latest
  BY DEF RateFrom
<1>4. CASE known = {}
  BY <1>3, <1>4 DEF RateIsUsable, IsConvertible
<1>5. CASE known # {}
  <2>1. \E r \in known : \A s \in known : r.at >= s.at
    <3> DEFINE ages == {now - r.at : r \in known}
    <3>1. ages \in SUBSET Nat /\ ages # {}
      <4>1. \A r \in known : now - r.at \in Nat
        BY <1>1, <1>2
      <4> QED
        BY <1>5, <4>1
    <3> HIDE DEF ages
    <3>2. PICK n \in ages : \A m \in ages : n <= m
      BY <3>1, LeastNatural
    <3>3. PICK r \in known : n = now - r.at
      BY <3>2 DEF ages
    <3>4. \A s \in known : now - r.at <= now - s.at
      BY <3>2, <3>3 DEF ages
    <3> QED
      BY <1>1, <1>2, <3>3, <3>4
  <2>2. latest \in known /\ \A s \in known : latest.at >= s.at
    BY <2>1
  <2> HIDE DEF latest
  <2>3. latest # NoRate
    BY <1>2, <2>2 DEF NoRate
  <2>4. RateIsUsable(RateFrom(currency)) <=> now - latest.at <= RateTerm
    BY <1>3, <1>5, <2>3 DEF RateIsUsable
  <2>5. IsConvertible(currency) <=> \E r \in known : now - r.at <= RateTerm
    BY DEF IsConvertible
  <2>6. (\E r \in known : now - r.at <= RateTerm) <=> now - latest.at <= RateTerm
    BY <1>1, <1>2, <2>2
  <2> QED
    BY <1>2, <1>3, <1>5, <2>2, <2>4, <2>5, <2>6
<1> QED
  BY <1>4, <1>5

\* Known amounts of a currency are converted by one factor, or none of them is.
LEMMA ConversionIs ==
    ASSUME LedgerInv, NEW currency
    PROVE  /\ Converted(Unknown, currency) = Unknown
           /\ IsConvertible(currency) =>
                 \E k \in Nat : \A n \in Nat : Converted(n, currency) = n * k
           /\ ~IsConvertible(currency) => \A n \in Nat : Converted(n, currency) = Unknown
<1>1. \A n \in Nat : n # Unknown
  BY DEF Unknown
<1>2. CASE currency = ComparisonCurrency
  <2>1. \A n \in Nat : Converted(n, currency) = n * 1
    BY <1>1, <1>2 DEF Converted
  <2> QED
    BY <1>2, <2>1 DEF Converted, IsConvertible
<1>3. CASE currency # ComparisonCurrency
  <2>1. CASE IsConvertible(currency)
    <3>1. PICK k \in Nat : k = RateFrom(currency).rate
      BY <1>3, <2>1, RateIs
    <3>2. RateIsUsable(RateFrom(currency))
      BY <1>3, <2>1, RateIs
    <3>3. \A n \in Nat : Converted(n, currency) = n * k
      BY <1>1, <1>3, <3>1, <3>2 DEF Converted
    <3> QED
      BY <2>1, <3>3 DEF Converted
  <2>2. CASE ~IsConvertible(currency)
    <3>1. ~RateIsUsable(RateFrom(currency))
      BY <1>3, <2>2, RateIs
    <3> QED
      BY <1>3, <2>2, <3>1 DEF Converted
  <2> QED
    BY <2>1, <2>2
<1> QED
  BY <1>2, <1>3

\* A group of costs, and what its history cost tells.
LEMMA GroupIs ==
    ASSUME LedgerInv, NEW purpose \in Purposes \ {"subscription"}, NEW S \in SUBSET costs,
           NEW g \in Groups(CostsFor(S, purpose))
    PROVE  /\ g \in SUBSET CostsFor(S, purpose) /\ g \in SUBSET costs /\ g # {} /\ IsFiniteSet(g)
           /\ \A c, e \in g : /\ c.kind = purpose /\ c.currency = e.currency
                              /\ Domain(c) = Domain(e)
           /\ \A c \in g : /\ g = GroupOf(CostsFor(S, purpose), c)
                           /\ HistoryCost(g).currency = c.currency
           /\ HistoryCost(g).kind = purpose
<1> DEFINE R == CostsFor(S, purpose)
<1>1. R \subseteq costs
  BY DEF CostsFor
<1>2. PICK c \in R : g = GroupOf(R, c)
  BY DEF Groups
<1>3. g \subseteq R /\ c \in g /\ \A e \in g : /\ e.kind = purpose /\ e.currency = c.currency
                                             /\ Domain(e) = Domain(c)
  BY <1>2 DEF GroupOf, CostsFor
<1>4. IsFiniteSet(g)
  BY <1>1, <1>3, FS_Subset DEF LedgerInv, KeptIsFinite
<1>5. PICK one : one = (CHOOSE e \in g : TRUE)
  OBVIOUS
<1>6. one \in g
  BY <1>3, <1>5
<1>7. HistoryCost(g).kind = one.kind /\ HistoryCost(g).currency = one.currency
  BY <1>5 DEF HistoryCost
<1>8. \A e \in g : g = GroupOf(R, e)
  BY <1>2, <1>3 DEF GroupOf
<1> QED
  BY <1>1, <1>3, <1>4, <1>6, <1>7, <1>8

\* What the group tells: how many of its amounts are known, and, where all of them are
\* and can be converted, what they amount to.
LEMMA HistoryCostIs ==
    ASSUME LedgerInv, NEW purpose \in Purposes \ {"subscription"}, NEW S \in SUBSET costs,
           NEW g \in Groups(CostsFor(S, purpose))
    PROVE  /\ HistoryCost(g).of = Keys(g)
           /\ HistoryCost(g).records = Sum(OneOf, g)
           /\ HistoryCost(g).known = Sum(KnownOf, g)
           /\ HistoryCost(g).converted # Unknown
                 <=> \A c \in g : HasAmount(c) /\ IsConvertible(c.currency)
           /\ HistoryCost(g).converted # Unknown =>
                 /\ HistoryCost(g).converted = Sum(ConvertedOf, g)
                 /\ \A c \in g : ConvertedOf[c] \in Nat
<1>1. /\ g \in SUBSET costs /\ g # {} /\ IsFiniteSet(g)
      /\ \A c, e \in g : c.kind = purpose /\ c.currency = e.currency
      /\ \A c \in g : HistoryCost(g).currency = c.currency
  BY GroupIs
<1>2. \A c \in g : c.amount \in Nat \cup {Unknown}
  BY <1>1, CostIs
<1>3. HistoryCost(g).of = Keys(g) /\ HistoryCost(g).records = Cardinality(g)
  BY DEF HistoryCost
<1>4. Sum(OneOf, g) = Cardinality(g)
  <2>1. \A c \in g : OneOf[c] = 1
    BY <1>1 DEF OneOf
  <2> QED
    BY <1>1, <2>1, SumOfOnes
<1>5. HistoryCost(g).known = Sum(KnownOf, g)
  <2> DEFINE given == {c \in g : c.amount # Unknown}
  <2>1. HistoryCost(g).known = Cardinality(given)
    BY DEF HistoryCost
  <2>2. given \in SUBSET g /\ \A c \in given : KnownOf[c] = 1
    BY <1>1 DEF KnownOf, HasAmount
  <2>3. \A c \in g \ given : KnownOf[c] = 0
    BY <1>1 DEF KnownOf, HasAmount
  <2>4. IsOfInts(KnownOf, g)
    BY <2>2, <2>3 DEF IsOfInts
  <2> HIDE DEF given
  <2>5. IsFiniteSet(given)
    BY <1>1, <2>2, FS_Subset
  <2>6. Sum(KnownOf, given) = Cardinality(given)
    BY <2>2, <2>5, SumOfOnes
  <2> QED
    BY <1>1, <2>1, <2>2, <2>3, <2>4, <2>6, SumOfSome
<1>6. PICK currency : currency = HistoryCost(g).currency
  OBVIOUS
<1>7. \A c \in g : c.currency = currency
  BY <1>1, <1>6
<1>8. HistoryCost(g).converted = Converted(SumOfAmounts(g), currency)
  BY <1>6 DEF HistoryCost
<1>9. CASE \E c \in g : ~HasAmount(c)
  <2>1. SumOfAmounts(g) = Unknown
    BY <1>9 DEF SumOfAmounts, HasAmount
  <2>2. HistoryCost(g).converted = Unknown
    BY <1>8, <2>1, ConversionIs
  <2> QED
    BY <1>3, <1>4, <1>5, <1>9, <2>2
<1>10. CASE \A c \in g : HasAmount(c)
  <2> DEFINE amounts == [c \in g |-> c.amount]
  <2>1. SumOfAmounts(g) = Sum(amounts, g)
    BY <1>10, SumOfFunction DEF SumOfAmounts, HasAmount
  <2>2. \A c \in g : /\ amounts[c] = c.amount /\ amounts[c] \in Nat
                     /\ ConvertedOf[c] = Converted(amounts[c], currency)
    BY <1>1, <1>2, <1>7, <1>10 DEF HasAmount, ConvertedOf
  <2> HIDE DEF amounts
  <2>3. Sum(amounts, g) \in Nat /\ IsOfInts(amounts, g)
    BY <1>1, <2>2, SumNat DEF IsOfInts
  <2>4. CASE IsConvertible(currency)
    <3>1. PICK k \in Nat : \A n \in Nat : Converted(n, currency) = n * k
      BY <2>4, ConversionIs
    <3>2. \A c \in g : ConvertedOf[c] = amounts[c] * k
      BY <2>2, <3>1
    <3>3. Sum(ConvertedOf, g) = Sum(amounts, g) * k
      BY <1>1, <2>3, <3>2, SumOfMultiples
    <3>4. Converted(SumOfAmounts(g), currency) = Sum(amounts, g) * k
      BY <2>1, <2>3, <3>1
    <3>5. \A m, n \in Nat : m * n \in Nat
      OBVIOUS
    <3>6. \A c \in g : ConvertedOf[c] \in Nat
      BY <2>2, <3>2, <3>5
    <3>7. Sum(amounts, g) * k \in Nat /\ \A n \in Nat : n # Unknown
      BY <2>3, <3>5 DEF Unknown
    <3> QED
      BY <1>3, <1>4, <1>5, <1>7, <1>8, <1>10, <2>4, <3>3, <3>4, <3>6, <3>7
  <2>5. CASE ~IsConvertible(currency)
    <3>1. HistoryCost(g).converted = Unknown
      BY <1>8, <2>1, <2>3, <2>5, ConversionIs
    <3> QED
      BY <1>1, <1>3, <1>4, <1>5, <1>7, <2>5, <3>1
  <2> QED
    BY <2>4, <2>5
<1> QED
  BY <1>9, <1>10

\* The groups are apart and are all of the costs.
LEMMA GroupsAre ==
    ASSUME LedgerInv, NEW purpose \in Purposes \ {"subscription"}, NEW S \in SUBSET costs
    PROVE  LET R == CostsFor(S, purpose)
           IN  /\ R \in SUBSET costs /\ IsFiniteSet(R)
               /\ IsFiniteSet(Groups(R)) /\ UNION Groups(R) = R
               /\ \A g, h \in Groups(R) : g # h => g \cap h = {}
               /\ \A g, h \in Groups(R) : HistoryCost(g) = HistoryCost(h) => g = h
<1> DEFINE R == CostsFor(S, purpose)
           group == [c \in R |-> GroupOf(R, c)]
<1>1. R \in SUBSET costs
  BY DEF CostsFor
<1>2. IsFiniteSet(R)
  BY <1>1, FS_Subset DEF LedgerInv, KeptIsFinite
<1>3. Groups(R) = {group[c] : c \in R}
  BY DEF Groups
<1>4. \A c \in R : c \in GroupOf(R, c)
  BY DEF GroupOf
<1>5. UNION Groups(R) = R
  BY <1>4 DEF Groups, GroupOf
<1> HIDE DEF group
<1>6. IsFiniteSet(Groups(R))
  BY <1>2, <1>3, ImageIsFinite
<1>7. \A g \in Groups(R) : /\ g \in SUBSET costs /\ g # {} /\ HistoryCost(g).of = Keys(g)
                           /\ \A c \in g : g = GroupOf(R, c)
  BY GroupIs, HistoryCostIs
<1> HIDE DEF R
<1>8. \A g, h \in Groups(R) : g # h => g \cap h = {}
  BY <1>7
<1>9. ASSUME NEW g \in Groups(R), NEW h \in Groups(R), HistoryCost(g) = HistoryCost(h)
      PROVE  g = h
  <2>1. Keys(g) = Keys(h)
    BY <1>7, <1>9
  <2>2. PICK c \in g : TRUE
    BY <1>7
  <2>3. PICK e \in h : Key(c) = Key(e)
    BY <2>1, <2>2 DEF Keys
  <2>4. c = e
    BY <1>7, <2>2, <2>3 DEF LedgerInv, TypeOK
  <2> QED
    BY <1>7, <2>2, <2>3, <2>4
<1> QED
  BY <1>1, <1>2, <1>5, <1>6, <1>8, <1>9 DEF R

\* What some of the groups tell adds up to what their costs do.
LEMMA HistoryAddsUp ==
    ASSUME LedgerInv, NEW purpose \in Purposes \ {"subscription"}, NEW S \in SUBSET costs,
           NEW G \in SUBSET Groups(CostsFor(S, purpose)),
           NEW w, NEW x, \A g \in G : IsOfInts(x, g) /\ w[HistoryCost(g)] = Sum(x, g)
    PROVE  Sum(w, {HistoryCost(g) : g \in G}) = Sum(x, UNION G)
<1> DEFINE history == [g \in G |-> HistoryCost(g)]
           itself  == [g \in G |-> g]
           sums    == [g \in G |-> Sum(x, g)]
<1>1. IsFiniteSet(G)
  BY GroupsAre, FS_Subset
<1>2. \A g \in G : /\ g \in Groups(CostsFor(S, purpose)) /\ IsFiniteSet(g) /\ IsOfInts(x, g)
                   /\ w[HistoryCost(g)] = Sum(x, g)
  BY GroupIs
<1>3. \A g \in G : Sum(x, g) \in Int
  BY <1>2, SumInt DEF IsOfInts
<1>4. \A g \in G : /\ history[g] = HistoryCost(g) /\ itself[g] = g /\ sums[g] = Sum(x, g)
  OBVIOUS
<1>5. AreDistinct(history, G)
  BY <1>2, <1>4, GroupsAre DEF AreDistinct
<1>6. AreApart(itself, G)
  BY <1>2, <1>4, GroupsAre DEF AreApart
<1>7. /\ {history[g] : g \in G} = {HistoryCost(g) : g \in G}
      /\ UNION {itself[g] : g \in G} = UNION G
  BY <1>4
<1> HIDE DEF history, itself, sums
<1>8. Sum(w, {history[g] : g \in G}) = Sum(sums, G)
  <2>1. \A g \in G : sums[g] = w[history[g]] /\ sums[g] \in Int
    BY <1>2, <1>3, <1>4
  <2> QED
    BY <1>1, <1>5, <2>1, SumOfImage
<1>9. Sum(x, UNION {itself[g] : g \in G}) = Sum(sums, G)
  <2>1. \A g \in G : /\ IsFiniteSet(itself[g]) /\ IsOfInts(x, itself[g])
                     /\ sums[g] = Sum(x, itself[g])
    BY <1>2, <1>4
  <2> QED
    BY <1>1, <1>6, <2>1, SumOfGroups
<1> QED
  BY <1>7, <1>8, <1>9

LEMMA HistoryIs ==
    ASSUME LedgerInv, NEW purpose \in Purposes \ {"subscription"}, NEW S \in SUBSET costs
    PROVE  {h \in HistoryOf(S) : h.kind = purpose}
              = {HistoryCost(g) : g \in Groups(CostsFor(S, purpose))}
<1> DEFINE R == CostsFor(S, purpose)
           InDomain(d) == {c \in S : Domain(c) = d}
           Alike(d, c) == {e \in InDomain(d) : e.kind = c.kind /\ e.currency = c.currency}
<1>1. \A h : h \in HistoryOf(S) <=>
                \E d \in Headline : \E c \in InDomain(d) : h = HistoryCost(Alike(d, c))
  <2>1. \A d : SummarizeHistoryCosts(InDomain(d)) = {HistoryCost(Alike(d, c)) : c \in InDomain(d)}
    BY DEF SummarizeHistoryCosts
  <2>2. HistoryOf(S) = UNION {SummarizeHistoryCosts(InDomain(d)) : d \in Headline}
    BY DEF HistoryOf
  <2> HIDE DEF InDomain, Alike
  <2> QED
    BY <2>1, <2>2
<1>2. ASSUME NEW d \in Headline, NEW c \in InDomain(d)
      PROVE  HistoryCost(Alike(d, c)).kind = c.kind
  <2>1. PICK one : one = (CHOOSE e \in Alike(d, c) : TRUE)
    OBVIOUS
  <2>2. one \in Alike(d, c)
    BY <2>1
  <2>3. HistoryCost(Alike(d, c)).kind = one.kind
    BY <2>1 DEF HistoryCost
  <2> QED
    BY <2>2, <2>3
<1>3. ASSUME NEW d \in Headline, NEW c \in InDomain(d), c.kind = purpose
      PROVE  c \in R /\ Alike(d, c) = GroupOf(R, c)
  BY <1>3 DEF CostsFor, GroupOf
<1>4. ASSUME NEW c \in R
      PROVE  Domain(c) \in Headline /\ c \in InDomain(Domain(c)) /\ c.kind = purpose
  BY DEF CostsFor
<1> HIDE DEF R, InDomain, Alike
<1>5. ASSUME NEW h \in HistoryOf(S), h.kind = purpose
      PROVE  \E g \in Groups(R) : h = HistoryCost(g)
  <2>1. PICK d \in Headline : \E c \in InDomain(d) : h = HistoryCost(Alike(d, c))
    BY <1>1
  <2>2. PICK c \in InDomain(d) : h = HistoryCost(Alike(d, c))
    BY <2>1
  <2>3. c.kind = purpose
    BY <1>2, <1>5, <2>2
  <2>4. c \in R /\ h = HistoryCost(GroupOf(R, c))
    BY <1>3, <2>2, <2>3
  <2> QED
    BY <2>4 DEF Groups
<1>6. ASSUME NEW g \in Groups(R)
      PROVE  HistoryCost(g) \in HistoryOf(S) /\ HistoryCost(g).kind = purpose
  <2>1. PICK c \in R : g = GroupOf(R, c)
    BY DEF Groups
  <2>2. Domain(c) \in Headline /\ c \in InDomain(Domain(c)) /\ c.kind = purpose
    BY <1>4
  <2>3. g = Alike(Domain(c), c)
    BY <1>3, <2>1, <2>2
  <2> QED
    BY <1>1, <1>2, <2>2, <2>3
<1>7. {h \in HistoryOf(S) : h.kind = purpose} = {HistoryCost(g) : g \in Groups(R)}
  BY <1>5, <1>6
<1> QED
  BY <1>7 DEF R

\* A cost that can be shown in the currency of comparison.
IsValid(c) == HasAmount(c) /\ IsConvertible(c.currency)

\* A metric is shown where each cost it is of is valid, and is then what they amount to.
LEMMA MetricIs ==
    ASSUME LedgerInv, NEW purpose \in Purposes \ {"subscription"}, NEW S \in SUBSET costs
    PROVE  LET R      == CostsFor(S, purpose)
               metric == Metric(HistoryOf(S), purpose)
           IN  /\ metric.records = Cardinality(R)
               /\ metric.status = "available" <=> R # {} /\ \A c \in R : IsValid(c)
               /\ metric.status = "available" =>
                     /\ metric.amount = Sum(ConvertedOf, R)
                     /\ \A c \in R : ConvertedOf[c] \in Nat
<1> DEFINE R         == CostsFor(S, purpose)
           relevant  == {h \in HistoryOf(S) : h.kind = purpose}
           converted == {h \in relevant : h.converted # Unknown}
           records   == SumFunction([h \in relevant |-> h.records])
           known     == SumFunction([h \in relevant |-> h.known])
           done      == SumFunction([h \in converted |-> h.known])
           amount    == SumFunction([h \in converted |-> h.converted])
           status    == IF records # 0 /\ known = records /\ done = records THEN "available"
                        ELSE IF records # 0 /\ done > 0 THEN "partial" ELSE "unavailable"
           metric    == Metric(HistoryOf(S), purpose)
           all       == Groups(R)
           whole     == {g \in all : \A c \in g : IsValid(c)}
<1>1. /\ metric.status = status /\ metric.records = records
      /\ metric.amount = IF status = "available" THEN amount ELSE Unknown
  BY DEF Metric
<1>2. /\ R \in SUBSET costs /\ IsFiniteSet(R) /\ IsFiniteSet(all) /\ UNION all = R
      /\ \A g, h \in all : g # h => g \cap h = {}
  BY GroupsAre
<1>3. \A g \in all : /\ g \in SUBSET R /\ g # {}
                     /\ HistoryCost(g).records = Sum(OneOf, g)
                     /\ HistoryCost(g).known = Sum(KnownOf, g)
                     /\ HistoryCost(g).converted # Unknown <=> g \in whole
                     /\ g \in whole => /\ HistoryCost(g).converted = Sum(ConvertedOf, g)
                                       /\ \A c \in g : ConvertedOf[c] \in Nat
  <2>1. ASSUME NEW g \in all
        PROVE  /\ HistoryCost(g).records = Sum(OneOf, g)
               /\ HistoryCost(g).known = Sum(KnownOf, g)
               /\ HistoryCost(g).converted # Unknown <=> g \in whole
               /\ g \in whole => /\ HistoryCost(g).converted = Sum(ConvertedOf, g)
                                 /\ \A c \in g : ConvertedOf[c] \in Nat
    BY HistoryCostIs DEF IsValid
  <2>2. \A g \in all : g \in SUBSET R /\ g # {}
    BY GroupIs
  <2> HIDE DEF all, whole, R
  <2> QED
    BY <2>1, <2>2
<1>4. relevant = {HistoryCost(g) : g \in all}
  BY HistoryIs DEF HistoryOf
<1>5. converted = {HistoryCost(g) : g \in whole}
  <2>1. whole \subseteq all
    OBVIOUS
  <2> HIDE DEF relevant, all, whole
  <2> QED
    BY <1>3, <1>4, <2>1
<1>6. whole \in SUBSET all /\ UNION whole \in SUBSET R /\ \A g \in all : g \in SUBSET costs
  <2>1. whole \in SUBSET all
    OBVIOUS
  <2> HIDE DEF whole, all
  <2> QED
    BY <1>2, <1>3, <2>1
<1>7. \A c \in costs : OneOf[c] = 1 /\ KnownOf[c] = IF HasAmount(c) THEN 1 ELSE 0
  BY DEF OneOf, KnownOf
<1>8. \A g \in all : IsOfInts(OneOf, g) /\ IsOfInts(KnownOf, g)
  BY <1>6, <1>7 DEF IsOfInts
<1>9. \A g \in whole : IsOfInts(ConvertedOf, g)
  BY <1>3, <1>6 DEF IsOfInts
<1>10. records = Sum(OneOf, R)
  <2> DEFINE w == [h \in relevant |-> h.records]
  <2>1. records = Sum(w, relevant)
    BY SumOfFunction
  <2>2. \A g \in all : w[HistoryCost(g)] = Sum(OneOf, g)
    BY <1>3, <1>4
  <2> HIDE DEF w, records
  <2>3. Sum(w, {HistoryCost(g) : g \in all}) = Sum(OneOf, UNION all)
    BY <1>8, <2>2, HistoryAddsUp
  <2> QED
    BY <1>2, <1>4, <2>1, <2>3
<1>11. known = Sum(KnownOf, R)
  <2> DEFINE w == [h \in relevant |-> h.known]
  <2>1. known = Sum(w, relevant)
    BY SumOfFunction
  <2>2. \A g \in all : w[HistoryCost(g)] = Sum(KnownOf, g)
    BY <1>3, <1>4
  <2> HIDE DEF w, known
  <2>3. Sum(w, {HistoryCost(g) : g \in all}) = Sum(KnownOf, UNION all)
    BY <1>8, <2>2, HistoryAddsUp
  <2> QED
    BY <1>2, <1>4, <2>1, <2>3
<1>12. done = Sum(KnownOf, UNION whole)
  <2> DEFINE w == [h \in converted |-> h.known]
  <2>1. done = Sum(w, converted)
    BY SumOfFunction
  <2>2. \A g \in whole : w[HistoryCost(g)] = Sum(KnownOf, g)
    BY <1>3, <1>5, <1>6
  <2>3. \A g \in whole : IsOfInts(KnownOf, g)
    BY <1>6, <1>8
  <2> HIDE DEF w, done, whole
  <2>4. Sum(w, {HistoryCost(g) : g \in whole}) = Sum(KnownOf, UNION whole)
    BY <1>6, <2>2, <2>3, HistoryAddsUp
  <2> QED
    BY <1>5, <2>1, <2>4
<1>13. amount = Sum(ConvertedOf, UNION whole)
  <2> DEFINE w == [h \in converted |-> h.converted]
  <2>1. amount = Sum(w, converted)
    BY SumOfFunction
  <2>2. \A g \in whole : w[HistoryCost(g)] = Sum(ConvertedOf, g)
    BY <1>3, <1>5, <1>6
  <2> HIDE DEF w, amount, whole
  <2>4. Sum(w, {HistoryCost(g) : g \in whole}) = Sum(ConvertedOf, UNION whole)
    BY <1>6, <1>9, <2>2, HistoryAddsUp
  <2> QED
    BY <1>5, <2>1, <2>4
<1>14. Sum(OneOf, R) = Cardinality(R)
  BY <1>2, <1>7, SumOfOnes
<1>15. ASSUME NEW T \in SUBSET R
       PROVE  Sum(KnownOf, T) = Cardinality({c \in T : HasAmount(c)})
  <2> DEFINE given == {c \in T : HasAmount(c)}
  <2>1. given \in SUBSET T /\ IsFiniteSet(T)
    BY <1>2, FS_Subset
  <2>2. /\ \A c \in given : KnownOf[c] = 1
        /\ \A c \in T \ given : KnownOf[c] = 0
    BY <1>2, <1>7
  <2>3. IsOfInts(KnownOf, T)
    BY <1>2, <1>7 DEF IsOfInts
  <2> HIDE DEF given
  <2>4. IsFiniteSet(given)
    BY <2>1, FS_Subset
  <2>5. Sum(KnownOf, given) = Cardinality(given)
    BY <2>2, <2>4, SumOfOnes
  <2>6. Sum(KnownOf, T) = Sum(KnownOf, given)
    BY <2>1, <2>2, <2>3, SumOfSome
  <2> QED
    BY <2>5, <2>6 DEF given
<1>16. /\ records # 0 <=> R # {}
       /\ known = records <=> \A c \in R : HasAmount(c)
  <2>1. {c \in R : HasAmount(c)} \in SUBSET R
    OBVIOUS
  <2> HIDE DEF records, known, R
  <2>2. known = Cardinality({c \in R : HasAmount(c)})
    BY <1>11, <1>15
  <2>3. records = Cardinality(R)
    BY <1>10, <1>14
  <2>4. Cardinality({c \in R : HasAmount(c)}) = Cardinality(R) <=> {c \in R : HasAmount(c)} = R
    BY <1>2, <2>1, FS_Subset
  <2> QED
    BY <1>2, <2>2, <2>3, <2>4, FS_EmptySet
<1>17. /\ done = records => UNION whole = R
       /\ (\A c \in R : IsValid(c)) => done = records /\ UNION whole = R
  <2> DEFINE given == {c \in UNION whole : HasAmount(c)}
  <2>1. given \in SUBSET R
    BY <1>6
  <2>2. done = Cardinality(given)
    BY <1>6, <1>12, <1>15
  <2>3. records = Cardinality(R)
    BY <1>10, <1>14
  <2>4. Cardinality(given) = Cardinality(R) <=> given = R
    BY <1>2, <2>1, FS_Subset
  <2>5. given = R => UNION whole = R
    BY <1>6
  <2>6. ASSUME \A c \in R : IsValid(c)
        PROVE  given = R
    <3>1. whole = all
      BY <1>3, <2>6
    <3>2. UNION whole = R
      BY <1>2, <3>1
    <3> QED
      BY <2>6, <3>2 DEF IsValid
  <2> QED
    BY <2>2, <2>3, <2>4, <2>5, <2>6
<1>18. UNION whole = R => \A c \in R : IsValid(c)
  OBVIOUS
<1>19. status = "available" <=> records # 0 /\ known = records /\ done = records
  OBVIOUS
<1>20. UNION whole = R => /\ amount = Sum(ConvertedOf, R)
                          /\ \A c \in R : ConvertedOf[c] \in Nat
  <2>1. \A c \in UNION whole : ConvertedOf[c] \in Nat
    BY <1>3, <1>6
  <2> HIDE DEF whole, amount
  <2> QED
    BY <1>13, <2>1
<1> HIDE DEF status, records, known, done, amount, metric, whole, all, relevant, converted
<1>21. metric.status = "available" <=> R # {} /\ \A c \in R : IsValid(c)
  BY <1>1, <1>16, <1>17, <1>18, <1>19 DEF IsValid
<1>22. metric.status = "available" => UNION whole = R
  BY <1>1, <1>17, <1>19
<1>23. metric.records = Cardinality(R)
  BY <1>1, <1>10, <1>14
<1>24. metric.status = "available" => metric.amount = amount
  BY <1>1
<1> QED
  BY <1>20, <1>21, <1>22, <1>23, <1>24 DEF metric

\* The costs that an interval is shown with.
TimedIn(i) == {c \in InWindow(costs) : c.kind # "subscription" /\ IntervalOf(c.at) = i}

LEMMA MetricsAre ==
    /\ \A purpose : WorkbenchMetric(purpose) = Metric(HistoryOf(InWindow(costs)), purpose)
    /\ \A i : DayBreakdown(i).retail = Metric(HistoryOf(TimedIn(i)), "retail-equivalent")
    /\ InWindow(costs) \in SUBSET costs
    /\ \A i : TimedIn(i) \in SUBSET costs
    /\ \A i : CostsFor(TimedIn(i), "retail-equivalent")
                 = InInterval(CostsFor(InWindow(costs), "retail-equivalent"), i)
<1>1. CostsOf(Headline) = HistoryOf(InWindow(costs))
  BY DEF CostsOf, HistoryOf, CostRows
<1>2. ASSUME NEW i
      PROVE  DayBreakdown(i).retail = Metric(HistoryOf(TimedIn(i)), "retail-equivalent")
  <2>1. \A d : InInterval(TimedCosts(d), i) = {c \in TimedIn(i) : Domain(c) = d}
    BY DEF InInterval, TimedCosts, CostRows, TimedIn
  <2>2. IntervalCosts(Headline, i) = HistoryOf(TimedIn(i))
    BY <2>1 DEF IntervalCosts, HistoryOf
  <2> QED
    BY <2>2 DEF DayBreakdown
<1>3. /\ InWindow(costs) \in SUBSET costs
      /\ \A i : TimedIn(i) \in SUBSET costs
  BY DEF InWindow, TimedIn
<1>4. ASSUME NEW i
      PROVE  CostsFor(TimedIn(i), "retail-equivalent")
                = InInterval(CostsFor(InWindow(costs), "retail-equivalent"), i)
  BY DEF CostsFor, TimedIn, InInterval
<1> QED
  BY <1>1, <1>2, <1>3, <1>4 DEF WorkbenchMetric

\* Where the whole is shown, the intervals that have costs are, and add up to it.
LEMMA IntervalsAreShown ==
    ASSUME LedgerInv,
           NEW R, R = CostsFor(InWindow(costs), "retail-equivalent"),
           WorkbenchMetric("retail-equivalent").status = "available"
    PROVE  LET shown == {i \in Intervals : DayBreakdown(i).retail.records > 0}
           IN  SumFunction([i \in shown |-> DayBreakdown(i).retail.amount]) = Sum(ConvertedOf, R)
<1> DEFINE shown   == {i \in Intervals : DayBreakdown(i).retail.records > 0}
           amounts == [i \in shown |-> DayBreakdown(i).retail.amount]
           sums    == [i \in Intervals |-> Sum(ConvertedOf, InInterval(R, i))]
<1>1. "retail-equivalent" \in Purposes \ {"subscription"}
  BY DEF Purposes
<1>2. /\ R \in SUBSET costs /\ IsFiniteSet(R)
      /\ \A c \in R : IsValid(c) /\ ConvertedOf[c] \in Nat /\ c.kind = "retail-equivalent"
  <2>1. R \in SUBSET costs /\ \A c \in R : c.kind = "retail-equivalent"
    BY DEF CostsFor, InWindow
  <2>2. IsFiniteSet(R)
    BY <2>1, FS_Subset DEF LedgerInv, KeptIsFinite
  <2>3. \A c \in R : IsValid(c) /\ ConvertedOf[c] \in Nat
    BY <1>1, MetricsAre, MetricIs
  <2> QED
    BY <2>1, <2>2, <2>3
<1>3. \A c \in R : c.at \in Int
  BY <1>2, CostIs
<1>4. ASSUME NEW i \in Intervals
      PROVE  /\ IsFiniteSet(InInterval(R, i)) /\ InInterval(R, i) \in SUBSET R
             /\ i \in shown => DayBreakdown(i).retail.amount = Sum(ConvertedOf, InInterval(R, i))
             /\ i \notin shown => Sum(ConvertedOf, InInterval(R, i)) = 0
  <2>1. InInterval(R, i) \in SUBSET R
    BY DEF InInterval
  <2>2. IsFiniteSet(InInterval(R, i))
    BY <1>2, <2>1, FS_Subset
  <2> DEFINE metric == DayBreakdown(i).retail
  <2>3. /\ metric.records = Cardinality(InInterval(R, i))
        /\ metric.status = "available"
              <=> InInterval(R, i) # {} /\ \A c \in InInterval(R, i) : IsValid(c)
        /\ metric.status = "available" => metric.amount = Sum(ConvertedOf, InInterval(R, i))
    <3>1. /\ metric = Metric(HistoryOf(TimedIn(i)), "retail-equivalent")
          /\ TimedIn(i) \in SUBSET costs
          /\ CostsFor(TimedIn(i), "retail-equivalent") = InInterval(R, i)
      BY MetricsAre
    <3> HIDE DEF metric
    <3> QED
      BY <1>1, <3>1, MetricIs
  <2>4. i \in shown <=> metric.records > 0
    OBVIOUS
  <2> HIDE DEF metric, shown
  <2>5. Cardinality(InInterval(R, i)) \in Nat
    BY <2>2, FS_CardinalityType
  <2>6. CASE i \in shown
    <3>1. InInterval(R, i) # {}
      BY <2>3, <2>4, <2>6, FS_EmptySet
    <3>2. metric.amount = Sum(ConvertedOf, InInterval(R, i))
      BY <1>2, <2>1, <2>3, <3>1
    <3> QED
      BY <2>1, <2>2, <2>6, <3>2 DEF metric
  <2>7. CASE i \notin shown
    <3>1. InInterval(R, i) = {}
      BY <2>2, <2>3, <2>4, <2>5, <2>7, FS_EmptySet
    <3>2. Sum(ConvertedOf, {}) = 0
      BY SumOfNone
    <3> QED
      BY <2>1, <2>2, <2>7, <3>1, <3>2
  <2> QED
    BY <2>6, <2>7
<1>5. IsOfInts(ConvertedOf, R) /\ \A i \in Intervals : IsOfInts(ConvertedOf, InInterval(R, i))
  BY <1>2, <1>4 DEF IsOfInts
<1>6. /\ shown \in SUBSET Intervals /\ \A i \in Intervals : sums[i] = Sum(ConvertedOf, InInterval(R, i))
      /\ DOMAIN amounts = shown /\ \A i \in shown : amounts[i] = DayBreakdown(i).retail.amount
  OBVIOUS
<1>7. SumFunction(amounts) = Sum(amounts, shown)
  BY <1>6, SumOfFunction
<1> HIDE DEF shown, amounts, sums
<1>8. IsFiniteSet(Intervals) /\ IsFiniteSet(shown)
  <2>1. IsFiniteSet(Intervals)
    BY FS_Interval, WorkbenchAssumption DEF Intervals
  <2> QED
    BY <1>6, <2>1, FS_Subset
<1>9. Sum(sums, Intervals) = Sum(ConvertedOf, R)
  BY <1>2, <1>3, <1>5, <1>6, IntervalsAddUp
<1>10. IsOfInts(sums, Intervals) /\ Agree(amounts, sums, shown)
       /\ \A i \in Intervals \ shown : sums[i] = 0
  <2>1. \A i \in Intervals : sums[i] \in Int
    BY <1>4, <1>5, <1>6, SumInt DEF IsOfInts
  <2>2. \A i \in shown : amounts[i] = sums[i]
    BY <1>4, <1>6
  <2>3. \A i \in Intervals \ shown : sums[i] = 0
    BY <1>4, <1>6
  <2> QED
    BY <2>1, <2>2, <2>3 DEF IsOfInts, Agree
<1>11. Sum(sums, Intervals) = Sum(sums, shown)
  BY <1>6, <1>8, <1>10, SumOfSome
<1>12. Sum(amounts, shown) = Sum(sums, shown)
  BY <1>8, <1>10, SumCongruent
<1>13. SumFunction(amounts) = Sum(ConvertedOf, R)
  BY <1>7, <1>9, <1>11, <1>12
<1> QED
  BY <1>13 DEF amounts, shown

LEMMA AmountsAre == LedgerInv => AmountsAreComplete
<1> SUFFICES ASSUME LedgerInv, NEW purpose \in Purposes \ {"subscription"}
             PROVE  LET records == {c \in InWindow(costs) : /\ c.kind = purpose
                                                            /\ Domain(c) \in Headline}
                        valid(c) == /\ c.amount # Unknown
                                    /\ c.currency # ComparisonCurrency =>
                                          \E r \in rates : /\ r.base = c.currency /\ r.at < now
                                                           /\ r.quote = ComparisonCurrency
                                                           /\ now - r.at <= RateTerm
                        metric == WorkbenchMetric(purpose)
                        shown == {i \in Intervals : DayBreakdown(i).retail.records > 0}
                    IN  /\ metric.status = "available" <=> records # {} /\ \A c \in records : valid(c)
                        /\ metric.status = "available" =>
                              metric.amount =
                                  SumFunction([c \in records |-> Converted(c.amount, c.currency)])
                        /\ metric.status = "available" /\ purpose = "retail-equivalent" =>
                              metric.amount =
                                  SumFunction([i \in shown |-> DayBreakdown(i).retail.amount])
  BY DEF AmountsAreComplete
<1> DEFINE records == CostsFor(InWindow(costs), purpose)
           metric  == WorkbenchMetric(purpose)
           amounts == [c \in records |-> Converted(c.amount, c.currency)]
           shown == {i \in Intervals : DayBreakdown(i).retail.records > 0}
<1>1. records \in SUBSET costs /\ IsFiniteSet(records)
  BY MetricsAre, GroupsAre
<1>2. /\ metric.status = "available" <=> records # {} /\ \A c \in records : IsValid(c)
      /\ metric.status = "available" => metric.amount = Sum(ConvertedOf, records)
  BY MetricsAre, MetricIs
<1>3. SumFunction(amounts) = Sum(ConvertedOf, records)
  <2>1. SumFunction(amounts) = Sum(amounts, records)
    BY SumOfFunction
  <2>2. Agree(amounts, ConvertedOf, records)
    BY <1>1 DEF Agree, ConvertedOf
  <2> HIDE DEF amounts
  <2> QED
    BY <1>1, <2>1, <2>2, SumCongruent
<1>4. metric.status = "available" /\ purpose = "retail-equivalent" =>
          metric.amount = SumFunction([i \in shown |-> DayBreakdown(i).retail.amount])
  BY <1>2, IntervalsAreShown
<1> HIDE DEF metric, amounts, shown
<1> QED
  BY <1>2, <1>3, <1>4 DEF CostsFor, IsValid, HasAmount, IsConvertible, metric, amounts, shown

-----------------------------------------------------------------------------
(* Theorems about what is displayed.                                        *)

\* Whatever was told, told again, compacted or cleared: known models and unclassified
\* rows, intervals, classification and the global summary are one number, and so are the
\* total, the composition and the classified trend of a model; its recorded trend has
\* what its rows have left on top (getUsageHistory, buildWorkbench..., getGlobalSummary).
THEOREM TokensAreReconciled == Spec => []RecordedTokensReconcile
  BY LedgerTypeCorrect, TokensReconcile, PTL

\* The total of a provider and the headline are the rows of the same domains, each once:
\* of the summary domain, of all domains of dsh, of all of Grok but the xAI API
\* (getProviderOverview, billingDomainIncludedInHeadline), whichever have been told.
THEOREM TotalsAreOfDomains == Spec => []TotalsAreOfTheirDomains
  BY LedgerTypeCorrect, TotalsAre, PTL

\* An amount is shown exactly where every cost of it is known and can be converted, is then
\* the sum of them all, and is what the intervals add up to (buildWorkbenchMetric), for
\* any costs, currencies and rates.
THEOREM AmountsAreShownWhole == Spec => []AmountsAreComplete
  BY LedgerTypeCorrect, AmountsAre, PTL

\* The export tells each observation and each cost of the window once (exportUsage), so
\* that they add up to what is displayed.
THEOREM ExportIsComplete == Spec => []ExportTellsEachOnce
  BY LedgerTypeCorrect, ExportTells, PTL

\* A compaction moves tokens from rows to the sum of their day and leaves the wall as it
\* was (compactUsageHistory, getUsageWall), for any days and terms.
THEOREM WallIsKept == Spec => CompactionKeepsTheWall
<1>1. LedgerInv /\ LedgerInv' /\ [Next]_vars =>
        [ CompactUsageHistory /\ (\A a \in aggregates : SummedOf(AggregateKey(a)) = {}) =>
                \A day \in WallRange(0) : WallTokens(0, day)' = WallTokens(0, day) ]_vars
  BY WallStep
<1> QED
  BY <1>1, LedgerTypeCorrect, PTL DEF Spec, CompactionKeepsTheWall

-----------------------------------------------------------------------------
(* Notifications.                                                           *)

\* What is still to be looked at is about subjects, at levels.
IsAgenda(list) ==
    \E S : /\ list \in Seq(S)
           /\ \A x \in S : x.of \in Subjects /\ x.level \in Levels

\* A level that waits to be remembered has been told.
ToldBeforeSettled ==
    sending # <<>> /\ step = "settle" /\ This.kind \in {"window", "failure"} =>
        announced[This.of] = This.level

\* A failure is told at the only level it has.
FailuresAreOfOneLevel ==
    sending # <<>> /\ step = "settle" /\ This.kind = "failure" => This.level = 1

Inv ==
    /\ levels \in [Subjects -> Levels]
    /\ announced \in [Subjects -> Levels]
    /\ IsAgenda(sending)
    /\ ToldBeforeSettled
    /\ FailuresAreOfOneLevel

\* The overview is an agenda.
LEMMA ItemsAreAnAgenda == IsAgenda(Items)
<1>. USE NoticesAssumption
<1>. DEFINE item(i) == IF i <= Len(Order) THEN WindowItem(Order[i])
                                          ELSE ForecastItem(Order[i - Len(Order)])
            S == {item(i) : i \in 1..(2 * Len(Order))}
<1>1. Len(Order) \in Nat
  OBVIOUS
<1>2. \A id \in Windows : /\ WindowItem(id).of \in Subjects
                          /\ WindowItem(id).level \in Levels
                          /\ ForecastItem(id).of \in Subjects
                          /\ ForecastItem(id).level \in Levels
  <2>1. \A w : LevelOf(w) \in Levels
    BY DEF LevelOf, Levels
  <2>. QED
    BY <2>1 DEF WindowItem, ForecastItem, Nothing, Item, Subjects, Levels
<1>3. \A i \in 1..(2 * Len(Order)) : item(i).of \in Subjects /\ item(i).level \in Levels
  <2>. SUFFICES ASSUME NEW i \in 1..(2 * Len(Order))
                PROVE  item(i).of \in Subjects /\ item(i).level \in Levels
    OBVIOUS
  <2>1. CASE i <= Len(Order)
    <3>1. Order[i] \in Windows
      BY <1>1, <2>1
    <3>. QED
      BY <1>2, <2>1, <3>1
  <2>2. CASE ~(i <= Len(Order))
    <3>1. Order[i - Len(Order)] \in Windows
      BY <1>1, <2>2
    <3>. QED
      BY <1>2, <2>2, <3>1
  <2>. QED
    BY <2>1, <2>2
<1>4. Items = [i \in 1..(2 * Len(Order)) |-> item(i)]
  BY DEF Items
<1>5. Items \in Seq(S)
  <2>. HIDE DEF item
  <2>1. Items \in [1..(2 * Len(Order)) -> S]
    BY <1>4
  <2>. QED
    BY ONLY <1>1, <2>1, 2 * Len(Order) \in Nat
<1>6. \A x \in S : x.of \in Subjects /\ x.level \in Levels
  BY <1>3
<1>. QED
  BY <1>5, <1>6 DEF IsAgenda

\* The first of an agenda is about a subject, and the rest is an agenda.
LEMMA AgendaIsConsumed ==
    ASSUME NEW list, IsAgenda(list), list # <<>>
    PROVE  /\ Head(list).of \in Subjects
           /\ Head(list).level \in Levels
           /\ IsAgenda(Tail(list))
<1>1. PICK S : list \in Seq(S) /\ \A x \in S : x.of \in Subjects /\ x.level \in Levels
  BY DEF IsAgenda
<1>2. Head(list) \in S /\ Tail(list) \in Seq(S)
  BY <1>1
<1>. QED
  BY <1>1, <1>2 DEF IsAgenda

\* Nothing has to be looked at at first and after a restart.
LEMMA EmptyAgenda == IsAgenda(<<>>)
<1>. DEFINE S == {}
<1>1. <<>> \in Seq(S)
  OBVIOUS
<1>2. \A x \in S : x.of \in Subjects /\ x.level \in Levels
  OBVIOUS
<1>. HIDE DEF S
<1>. QED
  BY <1>1, <1>2 DEF IsAgenda

LEMMA InitInv == NoticesInit => Inv
BY EmptyAgenda DEF NoticesInit, Inv, ToldBeforeSettled, FailuresAreOfOneLevel, Levels

\* What one step of a refresh, of the notices or of anybody else keeps.
LEMMA NextInv == Inv /\ [NoticesNext]_allNoticeVars => Inv'
<1>. USE NoticesAssumption DEF Levels
<1>. SUFFICES ASSUME Inv, [NoticesNext]_allNoticeVars
              PROVE  Inv'
  OBVIOUS
<1>1. /\ levels \in [Subjects -> Levels]
      /\ announced \in [Subjects -> Levels]
      /\ IsAgenda(sending)
      /\ ToldBeforeSettled
      /\ FailuresAreOfOneLevel
  BY DEF Inv
<1>2. \A d \in Domains : d \in Subjects
  BY DEF Subjects
<1>3. sending # <<>> => /\ This.of \in Subjects
                        /\ This.level \in Levels
                        /\ IsAgenda(Tail(sending))
  BY <1>1, AgendaIsConsumed DEF This
<1>4. CASE UNCHANGED noticeVars
  BY <1>1, <1>4 DEF noticeVars, Inv, ToldBeforeSettled, FailuresAreOfOneLevel, This
<1>5. ASSUME NEW d \in Domains, Answer(d)
      PROVE  Inv'
  BY <1>1, <1>2, <1>5 DEF Answer, IsIdle, Inv, ToldBeforeSettled, FailuresAreOfOneLevel
<1>6. ASSUME NEW d \in Domains, Fail(d)
      PROVE  Inv'
  BY <1>1, <1>6 DEF Fail, IsIdle, Inv, ToldBeforeSettled, FailuresAreOfOneLevel
<1>7. ASSUME NEW d \in Domains, TellFailure(d)
      PROVE  Inv'
  <2>1. IsAgenda(<<Item("failure", d, NotKnown, 0, 1)>>)
    <3>. DEFINE x == Item("failure", d, NotKnown, 0, 1)
    <3>1. x.of = d /\ x.level = 1
      BY DEF Item
    <3>2. <<x>> \in Seq({x})
      OBVIOUS
    <3>3. \A y \in {x} : y.of \in Subjects /\ y.level \in Levels
      BY <1>2, <3>1
    <3>. HIDE DEF x
    <3>4. IsAgenda(<<x>>)
      BY <3>2, <3>3 DEF IsAgenda
    <3>. QED
      BY <3>4 DEF x
  <2>2. IsAgenda(sending)'
    BY <1>7, <2>1 DEF TellFailure
  <2>3. Head(<<Item("failure", d, NotKnown, 0, 1)>>) = Item("failure", d, NotKnown, 0, 1)
    OBVIOUS
  <2>4. This' = Item("failure", d, NotKnown, 0, 1)
    BY <1>7, <2>3 DEF TellFailure, This
  <2>5. (ToldBeforeSettled /\ FailuresAreOfOneLevel)'
    BY <1>1, <1>2, <1>7, <2>4 DEF TellFailure, ToldBeforeSettled, FailuresAreOfOneLevel, Item
  <2>. QED
    BY <1>1, <1>2, <1>7, <2>2, <2>5 DEF TellFailure, Inv
<1>8. CASE BeginNotices
  <2>1. IsAgenda(sending)'
    BY <1>8, ItemsAreAnAgenda DEF BeginNotices
  <2>. QED
    BY <1>1, <1>8, <2>1 DEF BeginNotices, Inv, ToldBeforeSettled, FailuresAreOfOneLevel
<1>9. CASE Skip
  BY <1>1, <1>3, <1>9 DEF Skip, IsAt, Inv, ToldBeforeSettled, FailuresAreOfOneLevel
<1>10. CASE TellReset
  BY <1>1, <1>10 DEF TellReset, Inv, ToldBeforeSettled, FailuresAreOfOneLevel
<1>11. CASE RememberUsed
  BY <1>1, <1>11 DEF RememberUsed, Inv, ToldBeforeSettled, FailuresAreOfOneLevel
<1>12. CASE TellLevel
  <2>1. sending # <<>> /\ This' = This /\ This.kind = "window"
    BY <1>12 DEF TellLevel, IsAt, This
  <2>. QED
    BY <1>1, <1>3, <1>12, <2>1 DEF TellLevel, Inv, ToldBeforeSettled, FailuresAreOfOneLevel
<1>13. CASE RememberLevel
  <2>1. sending # <<>>
    BY <1>13 DEF RememberLevel, LevelIsSettled, IsAt
  <2>. QED
    BY <1>1, <1>3, <1>13, <2>1 DEF RememberLevel, Inv, ToldBeforeSettled, FailuresAreOfOneLevel
<1>14. CASE TellForecast
  <2>1. This' = This /\ This.kind = "forecast"
    BY <1>14 DEF TellForecast, IsAt, This
  <2>. QED
    BY <1>1, <1>14, <2>1 DEF TellForecast, Inv, ToldBeforeSettled, FailuresAreOfOneLevel
<1>15. CASE RememberForecast
  <2>1. sending # <<>>
    BY <1>15 DEF RememberForecast, ForecastIsSettled, IsAt
  <2>. QED
    BY <1>1, <1>3, <1>15, <2>1 DEF RememberForecast, Inv, ToldBeforeSettled, FailuresAreOfOneLevel
<1>16. CASE RememberFailure
  <2>1. sending # <<>>
    BY <1>16 DEF RememberFailure, IsAt
  <2>. QED
    BY <1>1, <1>3, <1>16, <2>1, EmptyAgenda DEF RememberFailure, Inv, ToldBeforeSettled, FailuresAreOfOneLevel
<1>17. CASE EndNotices
  BY <1>1, <1>17 DEF EndNotices, Inv, ToldBeforeSettled, FailuresAreOfOneLevel
<1>18. CASE SetNotifications
  BY <1>1, <1>18 DEF SetNotifications, Inv, ToldBeforeSettled, FailuresAreOfOneLevel, This
<1>19. CASE Clear
  BY <1>1, <1>19 DEF Clear, Inv, ToldBeforeSettled, FailuresAreOfOneLevel, This
<1>20. CASE Restart
  BY <1>1, <1>20, EmptyAgenda DEF Restart, Inv, ToldBeforeSettled, FailuresAreOfOneLevel
<1>. QED
  BY <1>4, <1>5, <1>6, <1>7, <1>8, <1>9, <1>10, <1>11, <1>12, <1>13, <1>14, <1>15, <1>16,
     <1>17, <1>18, <1>19, <1>20
  DEF NoticesNext, allNoticeVars, PassTime

\* Each step is one of the log or leaves what the log is about alone.
LEMMA StepOfTheLog == Inv /\ [NoticesNext]_allNoticeVars => [Log!Next]_(Log!log)
<1>. USE DEF Levels
<1>. SUFFICES ASSUME Inv, [NoticesNext]_allNoticeVars
              PROVE  [Log!Next]_(Log!log)
  OBVIOUS
<1>1. /\ levels \in [Subjects -> Levels]
      /\ announced \in [Subjects -> Levels]
      /\ ToldBeforeSettled
      /\ FailuresAreOfOneLevel
  BY DEF Inv
<1>2. sending # <<>> => This.of \in Subjects /\ This.level \in Levels
  BY AgendaIsConsumed DEF Inv, This
<1>3. ASSUME UNCHANGED <<levels, announced>>
      PROVE  [Log!Next]_(Log!log)
  BY <1>3 DEF Log!log
<1>4. ASSUME NEW s \in Subjects, NEW l \in Levels, Log!Announce(s, l) \/ Log!Remember(s, l)
      PROVE  [Log!Next]_(Log!log)
  BY <1>4 DEF Log!Next
<1>5. ASSUME NEW d \in Domains, Answer(d)
      PROVE  [Log!Next]_(Log!log)
  <2>1. d \in Subjects /\ 0 <= levels[d]
    BY <1>1 DEF Subjects
  <2>2. Log!Remember(d, 0)
    BY <1>5, <2>1 DEF Answer, Log!Remember
  <2>. QED
    BY <1>4, <2>1, <2>2
<1>6. ASSUME NEW d \in Domains, TellFailure(d)
      PROVE  [Log!Next]_(Log!log)
  <2>1. d \in Subjects /\ Log!Announce(d, 1)
    BY <1>6 DEF TellFailure, Subjects, Log!Announce
  <2>. QED
    BY <1>4, <2>1
<1>7. CASE TellLevel
  <2>1. sending # <<>> /\ Log!Announce(This.of, This.level)
    BY <1>7 DEF TellLevel, IsAt, Log!Announce
  <2>. QED
    BY <1>2, <1>4, <2>1
<1>8. CASE RememberLevel
  <2>1. sending # <<>> /\ (step = "settle" \/ This.level <= levels[This.of])
    BY <1>8 DEF RememberLevel, LevelIsSettled, IsAt
  <2>2. This.level <= levels[This.of] \/ This.level <= announced[This.of]
    BY <1>1, <1>2, <1>8, <2>1 DEF RememberLevel, LevelIsSettled, IsAt, ToldBeforeSettled
  <2>3. Log!Remember(This.of, This.level)
    BY <1>8, <2>2 DEF RememberLevel, Log!Remember
  <2>. QED
    BY <1>2, <1>4, <2>1, <2>3
<1>9. CASE RememberFailure
  <2>1. sending # <<>> /\ announced[This.of] = 1
    BY <1>1, <1>9 DEF RememberFailure, IsAt, ToldBeforeSettled, FailuresAreOfOneLevel
  <2>2. Log!Remember(This.of, 1)
    BY <1>9, <2>1 DEF RememberFailure, Log!Remember
  <2>. QED
    BY <1>2, <1>4, <2>1, <2>2
<1>10. CASE Clear
  BY <1>10 DEF Clear, Log!Next, Log!Forget
<1>. QED
  BY <1>3, <1>5, <1>6, <1>7, <1>8, <1>9, <1>10
  DEF NoticesNext, allNoticeVars, noticeVars, PassTime, Fail, BeginNotices, Skip, TellReset, RememberUsed,
      TellForecast, RememberForecast, EndNotices, SetNotifications, Restart

\* What notifications promise is kept for any windows, connectors and thresholds.
THEOREM Implements == NoticesSpec => LevelsAreAnnounced
<1>1. NoticesInit => Log!Init
  BY DEF NoticesInit, Log!Init
<1>2. Inv /\ [NoticesNext]_allNoticeVars => [Log!Next]_(Log!log)
  BY StepOfTheLog
<1>3. NoticesSpec => []Inv
  BY InitInv, NextInv, PTL DEF NoticesSpec
<1>. QED
  BY <1>1, <1>2, <1>3, PTL DEF NoticesSpec, LevelsAreAnnounced, Log!Spec
-----------------------------------------------------------------------------
(* Numbers.                                                                 *)

LEMMA MaxIs ==
    ASSUME NEW a \in Int, NEW b \in Int
    PROVE  /\ Max({a, b}) \in Int
           /\ Max({a, b}) = IF a >= b THEN a ELSE b
  BY DEF Max

LEMMA MinIs ==
    ASSUME NEW a \in Int, NEW b \in Int
    PROVE  /\ Min({a, b}) \in Int
           /\ Min({a, b}) = IF a <= b THEN a ELSE b
  BY DEF Min

LEMMA MultipleIs ==
    ASSUME NEW n \in Int, NEW d \in Nat \ {0}
    PROVE  /\ n % d \in 0..(d - 1)
           /\ (n - (n % d)) % d = 0
           /\ (n + d - (n % d)) % d = 0
<1>1. n % d \in 0..(d - 1)
  OBVIOUS
<1>2. n \div d \in Int
  OBVIOUS
<1>3. n % d = n - d * (n \div d)
  OBVIOUS
<1>4. PICK q \in Int, r \in Int : r = n - d * q /\ r = n % d
  <2>1. n % d \in Int
    BY <1>1
  <2> QED
    BY <1>2, <1>3, <2>1
<1>5. \A k \in Int : (d * k) % d = 0
  OBVIOUS
<1>6. n - r = d * q
  BY <1>4
<1>7. n + d - r = d * (q + 1)
  BY <1>4
<1>8. q + 1 \in Int
  OBVIOUS
<1>9. (n - r) % d = 0
  BY <1>5, <1>6
<1>10. (n + d - r) % d = 0
  BY <1>5, <1>7, <1>8
<1> QED
  BY <1>1, <1>4, <1>9, <1>10

LEMMA MultiplesAreApart ==
    ASSUME NEW m \in Int, NEW n \in Int, NEW d \in Nat \ {0}, m % d = 0, n % d = 0,
           m - n < d, n - m < d
    PROVE  m = n
<1>1. m = d * (m \div d) /\ n = d * (n \div d) /\ m \div d \in Int /\ n \div d \in Int
  OBVIOUS
<1>2. PICK a \in Int, b \in Int : m = d * a /\ n = d * b
  BY <1>1
<1>3. a - b < 1 /\ b - a < 1
  BY <1>2
<1> QED
  BY <1>2, <1>3

-----------------------------------------------------------------------------
(* What is stored.                                                          *)

\* One sample of a window at a time, none of a time to come.
OneSampleAtATime ==
    \A s, t \in samples : /\ s.at <= clock
                          /\ s.id = t.id /\ s.at = t.at => s = t

QuotasInv == QuotasTypeOK /\ OneSampleAtATime /\ WindowsAreOfTheLastAnswer

LEMMA ClampedIs ==
    ASSUME NEW p \in Int
    PROVE  ClampPercent(p) \in 0..100
<1> DEFINE m == Min({100, p})
<1>1. m \in Int /\ m <= 100
  BY MinIs
<1>2. ClampPercent(p) = Max({0, m})
  BY DEF ClampPercent
<1> HIDE DEF m
<1>3. Max({0, m}) = IF 0 >= m THEN 0 ELSE m
  BY <1>1, MaxIs
<1> QED
  BY <1>1, <1>2, <1>3


\* What an answer tells of its windows.
NewWindows(used) ==
    {[id |-> w, used |-> used[w], resets |-> NextReset, at |-> clock] : w \in DOMAIN used}

LEMMA NewWindowsAre ==
    ASSUME QuotasTypeOK, NEW d \in Domains, NEW used \in UsedByWindow(d)
    PROVE  /\ DOMAIN used \subseteq {w \in Windows : DomainOf[w] = d}
           /\ NewWindows(used) \subseteq Samples
           /\ \A s \in NewWindows(used) : s.at = clock /\ s.id \in DOMAIN used
           /\ \A w \in DOMAIN used : \E s \in NewWindows(used) : s.id = w
           /\ \A s, t \in NewWindows(used) : s.id = t.id => s = t
<1>1. PICK W \in SUBSET {w \in Windows : DomainOf[w] = d} :
          used \in [W -> {ClampPercent(p) : p \in Percents} \cup {NotKnown}]
  BY DEF UsedByWindow
<1>2. DOMAIN used = W /\ \A w \in W : used[w] \in Used
  BY <1>1 DEF Used
<1>3. NextReset \in Nat
  <2>1. clock \div Period \in Nat /\ Period \in Nat
    BY QuotasAssumption DEF QuotasTypeOK, Times
  <2> QED
    BY <2>1 DEF NextReset
<1>4. clock \in Times
  BY DEF QuotasTypeOK
<1>5. \A s \in NewWindows(used) :
          /\ s \in Samples /\ s.at = clock /\ s.id \in DOMAIN used
          /\ s = [id |-> s.id, used |-> used[s.id], resets |-> NextReset, at |-> clock]
  BY <1>1, <1>2, <1>3, <1>4 DEF NewWindows, Samples
<1>6. ASSUME NEW w \in DOMAIN used
      PROVE  \E s \in NewWindows(used) : s.id = w
  <2> DEFINE s == [id |-> w, used |-> used[w], resets |-> NextReset, at |-> clock]
  <2>1. s \in NewWindows(used) /\ s.id = w
    BY DEF NewWindows
  <2> QED
    BY <2>1
<1>7. \A s, t \in NewWindows(used) : s.id = t.id => s = t
  BY <1>5
<1> QED
  BY <1>1, <1>2, <1>5, <1>6, <1>7


LEMMA InitQuotas == QuotasInit => QuotasInv
  BY QuotasAssumption DEF QuotasInit, QuotasInv, QuotasTypeOK, OneSampleAtATime,
     WindowsAreOfTheLastAnswer, Times, NotKnown

LEMMA SaveQuotasKeeps ==
    ASSUME QuotasInv, NEW d \in Domains, NEW used \in UsedByWindow(d), SaveQuotas(d, used)
    PROVE  QuotasInv'
<1> DEFINE new == NewWindows(used)
           ids == DOMAIN used
<1>1. /\ windows' = {w \in windows : Stays(w, d, ids)} \cup new
      /\ samples' = {s \in samples : ~(s.id \in ids /\ s.at = clock /\ used[s.id] # NotKnown)}
                        \cup {w \in new : w.used # NotKnown}
      /\ success' = [success EXCEPT ![d] = clock]
      /\ degraded' = degraded \ {d}
      /\ answers < MaxAnswers /\ answers' = answers + 1
      /\ told' = [told EXCEPT ![d] = ids]
      /\ UNCHANGED clock
  BY DEF SaveQuotas, NewWindows
<1>2. /\ ids \subseteq {w \in Windows : DomainOf[w] = d}
      /\ new \subseteq Samples
      /\ \A s \in new : s.at = clock /\ s.id \in ids
      /\ \A w \in ids : \E s \in new : s.id = w
      /\ \A s, t \in new : s.id = t.id => s = t
  BY NewWindowsAre DEF QuotasInv
<1>3. \A s \in new : s.used = used[s.id]
  BY DEF NewWindows
<1> HIDE DEF new, ids
<1>4. QuotasTypeOK'
  BY <1>1, <1>2, QuotasAssumption DEF QuotasInv, QuotasTypeOK
<1>5. OneSampleAtATime'
  <2> SUFFICES ASSUME NEW s \in samples', NEW t \in samples'
               PROVE  s.at <= clock /\ (s.id = t.id /\ s.at = t.at => s = t)
    BY <1>1 DEF OneSampleAtATime
  <2>1. \A x \in samples' :
            \/ x \in samples /\ ~(x.id \in ids /\ x.at = clock /\ used[x.id] # NotKnown)
            \/ x \in new /\ used[x.id] # NotKnown
    BY <1>1, <1>3
  <2>2. clock \in Nat
    BY DEF QuotasInv, QuotasTypeOK, Times
  <2> QED
    BY <1>2, <2>1, <2>2 DEF QuotasInv, OneSampleAtATime
<1>6. WindowsAreOfTheLastAnswer'
  <2> SUFFICES ASSUME NEW e \in Domains
               PROVE  {w.id : w \in {w \in windows' : DomainOf[w.id] = e}} = told'[e]
    BY DEF WindowsAreOfTheLastAnswer
  <2>1. {w.id : w \in {w \in windows : DomainOf[w.id] = e}} = told[e]
    BY DEF QuotasInv, WindowsAreOfTheLastAnswer
  <2>2. CASE e = d
    <3>1. told'[e] = ids
      BY <1>1, <2>2 DEF QuotasInv, QuotasTypeOK
    <3>2. {w \in windows' : DomainOf[w.id] = e} = new
      BY <1>1, <1>2, <2>2 DEF Stays
    <3> QED
      BY <1>2, <3>1, <3>2
  <2>3. CASE e # d
    <3>1. told'[e] = told[e]
      BY <1>1, <2>3 DEF QuotasInv, QuotasTypeOK
    <3>2. {w \in windows' : DomainOf[w.id] = e} = {w \in windows : DomainOf[w.id] = e}
      BY <1>1, <1>2, <2>3 DEF Stays
    <3> QED
      BY <2>1, <3>1, <3>2
  <2> QED
    BY <2>2, <2>3
<1> QED
  BY <1>4, <1>5, <1>6 DEF QuotasInv

\* Whatever leaves what the windows and samples are alone.
LEMMA QuotasAside ==
    ASSUME QuotasInv, UNCHANGED <<windows, samples, told>>,
           clock' \in Times, clock' >= clock,
           success' \in [Domains -> Times \cup {NotKnown}], degraded' \subseteq Domains,
           answers' \in 0..MaxAnswers
    PROVE  QuotasInv'
<1>1. QuotasTypeOK' /\ WindowsAreOfTheLastAnswer'
  BY DEF QuotasInv, QuotasTypeOK, WindowsAreOfTheLastAnswer
<1>2. OneSampleAtATime'
  BY DEF QuotasInv, QuotasTypeOK, OneSampleAtATime, Samples, Times
<1> QED
  BY <1>1, <1>2 DEF QuotasInv

LEMMA ClearQuotasKeeps ==
    ASSUME QuotasInv, ClearQuotas
    PROVE  QuotasInv'
<1>1. QuotasTypeOK' /\ OneSampleAtATime'
  BY QuotasAssumption DEF ClearQuotas, QuotasInv, QuotasTypeOK, OneSampleAtATime
<1>2. WindowsAreOfTheLastAnswer'
  BY DEF ClearQuotas, WindowsAreOfTheLastAnswer
<1> QED
  BY <1>1, <1>2 DEF QuotasInv

LEMMA NextQuotas ==
    ASSUME QuotasInv,
           \/ ClockTicks \/ ClearQuotas \/ UNCHANGED quotaVars
           \/ \E d \in Domains : \/ \E used \in UsedByWindow(d) : SaveQuotas(d, used)
                                 \/ SaveWithoutQuotas(d) \/ RecordFailure(d)
    PROVE  QuotasInv'
<1> USE QuotasAssumption DEF Times
<1>1. /\ clock \in 0..LastTime
      /\ success \in [Domains -> Times \cup {NotKnown}] /\ degraded \subseteq Domains
      /\ answers \in 0..MaxAnswers
  BY DEF QuotasInv, QuotasTypeOK
<1>2. CASE ClockTicks
  BY <1>1, <1>2, QuotasAside DEF ClockTicks
<1>3. CASE UNCHANGED quotaVars
  BY <1>1, <1>3, QuotasAside DEF quotaVars
<1>4. ASSUME NEW d \in Domains, SaveWithoutQuotas(d)
      PROVE  QuotasInv'
  BY <1>1, <1>4, QuotasAside DEF SaveWithoutQuotas
<1>5. ASSUME NEW d \in Domains, RecordFailure(d)
      PROVE  QuotasInv'
  BY <1>1, <1>5, QuotasAside DEF RecordFailure
<1> QED
  BY <1>2, <1>3, <1>4, <1>5, SaveQuotasKeeps, ClearQuotasKeeps


-----------------------------------------------------------------------------
(* Samples in the order of time.                                            *)

\* Samples of one window: at most one at a time.
AreOfOne(ss) ==
    \A s, t \in ss : /\ s.at \in 0..LastTime /\ s.used \in Int
                     /\ s.at = t.at => s = t

LEMMA EarliestIs ==
    ASSUME NEW ss, AreOfOne(ss), ss # {}
    PROVE  Earliest(ss) \in ss /\ \A t \in ss : Earliest(ss).at <= t.at
<1> DEFINE T == {s.at : s \in ss}
<1>1. T \in SUBSET Nat /\ T # {}
  BY DEF AreOfOne
<1>2. \E n \in T : \A m \in T : n <= m
  BY <1>1, LeastNatural
<1>3. \E s \in ss : \A t \in ss : s.at <= t.at
  BY <1>2
<1> QED
  BY <1>3 DEF Earliest

LEMMA LatestIs ==
    ASSUME NEW ss, AreOfOne(ss), ss # {}
    PROVE  Latest(ss) \in ss /\ \A t \in ss : Latest(ss).at >= t.at
<1> DEFINE T == {LastTime - s.at : s \in ss}
<1>1. T \in SUBSET Nat /\ T # {}
  BY QuotasAssumption DEF AreOfOne
<1>2. PICK n \in T : \A m \in T : n <= m
  BY <1>1, LeastNatural
<1>3. PICK s \in ss : n = LastTime - s.at
  BY <1>2
<1>4. ASSUME NEW t \in ss PROVE s.at >= t.at
  <2>1. n <= LastTime - t.at
    BY <1>2
  <2> QED
    BY <1>3, <2>1, QuotasAssumption DEF AreOfOne
<1> QED
  BY <1>3, <1>4 DEF Latest

\* The sample before s is the last that is earlier.
LEMMA BeforeIs ==
    ASSUME NEW ss, AreOfOne(ss), NEW s \in ss, NEW t \in ss, t.at < s.at
    PROVE  /\ Before(s, ss) \in ss
           /\ Before(s, ss).at < s.at
           /\ \A x \in ss : x.at < s.at => x.at <= Before(s, ss).at
<1> DEFINE earlier == {x \in ss : x.at < s.at}
<1>1. AreOfOne(earlier) /\ earlier # {}
  BY DEF AreOfOne
<1>2. Latest(earlier) \in earlier /\ \A x \in earlier : Latest(earlier).at >= x.at
  BY <1>1, LatestIs
<1>3. Before(s, ss) = Latest(earlier)
  BY DEF Before
<1> HIDE DEF earlier
<1>4. Before(s, ss) \in earlier /\ \A x \in earlier : Before(s, ss).at >= x.at
  BY <1>2, <1>3
<1> QED
  BY <1>4 DEF earlier, AreOfOne

\* The stretch since usage has last fallen ends with the latest sample, and usage does
\* not fall in it.
LEMMA StretchIs ==
    ASSUME NEW ss, AreOfOne(ss), ss # {}
    PROVE  /\ Stretch(ss) \subseteq ss
           /\ Latest(ss) \in Stretch(ss)
           /\ \A s \in Stretch(ss), t \in ss : t.at >= s.at => t \in Stretch(ss)
           /\ \A s, t \in Stretch(ss) : t.at < s.at => Before(s, ss).used <= s.used
<1> DEFINE falls == {s \in ss : {t \in ss : t.at < s.at} # {} /\ s.used < Before(s, ss).used}
<1>1. Stretch(ss) = IF falls = {} THEN ss ELSE {s \in ss : s.at >= Latest(falls).at}
  BY DEF Stretch
<1>2. AreOfOne(falls)
  BY DEF AreOfOne
<1>3. Latest(ss) \in ss /\ \A t \in ss : Latest(ss).at >= t.at
  BY LatestIs
<1>4. ASSUME NEW s \in ss, NEW t \in ss, t.at < s.at, s \notin falls
      PROVE  Before(s, ss).used <= s.used
  <2>1. Before(s, ss) \in ss
    BY <1>4, BeforeIs
  <2>2. ~(s.used < Before(s, ss).used)
    BY <1>4
  <2> QED
    BY <2>1, <2>2 DEF AreOfOne
<1> HIDE DEF falls
<1>5. falls \subseteq ss
  BY DEF falls
<1>6. CASE falls = {}
  BY <1>1, <1>3, <1>4, <1>6
<1>7. CASE falls # {}
  <2>1. Latest(falls) \in falls /\ \A t \in falls : Latest(falls).at >= t.at
    BY <1>2, <1>7, LatestIs
  <2> DEFINE at == Latest(falls).at
  <2>2. at \in Int /\ (\A t \in falls : at >= t.at)
    BY <1>5, <2>1 DEF AreOfOne
  <2>3. Stretch(ss) = {s \in ss : s.at >= at}
    BY <1>1, <1>7
  <2>4. \E t \in ss : t.at = at
    BY <1>5, <2>1
  <2> HIDE DEF at
  <2>5. Latest(ss) \in Stretch(ss)
    BY <1>3, <2>3, <2>4
  <2>6. ASSUME NEW s \in Stretch(ss), NEW t \in ss, t.at >= s.at
        PROVE  t \in Stretch(ss)
    BY <2>2, <2>3, <2>6 DEF AreOfOne
  <2>7. ASSUME NEW s \in Stretch(ss), NEW t \in Stretch(ss), t.at < s.at
        PROVE  Before(s, ss).used <= s.used
    <3>1. s \in ss /\ t \in ss /\ s.at > at
      BY <2>2, <2>3, <2>7 DEF AreOfOne
    <3>2. s \notin falls
      BY <2>2, <3>1 DEF AreOfOne
    <3> QED
      BY <1>4, <2>7, <3>1, <3>2
  <2> QED
    BY <2>3, <2>5, <2>6, <2>7
<1> QED
  BY <1>6, <1>7

\* Usage that does not fall from one sample to the next does not fall at all.
LEMMA StretchRises ==
    ASSUME NEW ss, AreOfOne(ss), ss # {}, NEW s \in Stretch(ss), NEW t \in Stretch(ss),
           s.at <= t.at
    PROVE  s.used <= t.used
<1> DEFINE B == Stretch(ss)
           T == {x.at : x \in {y \in B : \E z \in B : z.at <= y.at /\ z.used > y.used}}
<1>1. /\ B \subseteq ss
      /\ \A x \in B, y \in ss : y.at >= x.at => y \in B
      /\ \A x, y \in B : y.at < x.at => Before(x, ss).used <= x.used
  BY StretchIs
<1> HIDE DEF B
<1>2. T = {}
  <2> SUFFICES ASSUME T # {} PROVE FALSE
    OBVIOUS
  <2>1. T \in SUBSET Nat
    BY <1>1 DEF AreOfOne
  <2>2. PICK n \in T : \A m \in T : n <= m
    BY <2>1, LeastNatural
  <2>3. PICK y \in B, z \in B : y.at = n /\ z.at <= y.at /\ z.used > y.used
    BY <2>2
  <2>4. y \in ss /\ z \in ss /\ z.at < y.at
    BY <1>1, <2>3 DEF AreOfOne
  <2> DEFINE x == Before(y, ss)
  <2>5. x \in ss /\ x.at < y.at /\ z.at <= x.at
    BY <2>4, BeforeIs
  <2>6. x \in B /\ x.used <= y.used
    BY <1>1, <2>3, <2>4, <2>5
  <2> HIDE DEF x
  <2>7. z.used > x.used
    BY <1>1, <2>3, <2>5, <2>6 DEF AreOfOne
  <2>8. x.at \in T
    BY <2>3, <2>5, <2>6, <2>7
  <2>9. x.at < n /\ x.at \in Nat /\ n \in Nat
    BY <2>1, <2>3, <2>5, <2>8
  <2> QED
    BY <2>2, <2>8, <2>9
<1> QED
  BY <1>1, <1>2 DEF AreOfOne, B

\* Samples that do not fall are of one window, where every reset shows as a fall.
LEMMA StretchIsOfOneWindow ==
    ASSUME NEW ss, AreOfOne(ss), ss # {}, ResetsShow(ss),
           NEW s \in Stretch(ss), NEW t \in Stretch(ss), s.at <= t.at
    PROVE  s.resets = t.resets
<1> DEFINE B == Stretch(ss)
           T == {x.at : x \in {y \in B : \E z \in B : z.at <= y.at /\ z.resets # y.resets}}
<1>1. /\ B \subseteq ss
      /\ \A x \in B, y \in ss : y.at >= x.at => y \in B
      /\ \A x, y \in B : y.at < x.at => Before(x, ss).used <= x.used
  BY StretchIs
<1> HIDE DEF B
<1>2. T = {}
  <2> SUFFICES ASSUME T # {} PROVE FALSE
    OBVIOUS
  <2>1. T \in SUBSET Nat
    BY <1>1 DEF AreOfOne
  <2>2. PICK n \in T : \A m \in T : n <= m
    BY <2>1, LeastNatural
  <2>3. PICK y \in B, z \in B : y.at = n /\ z.at <= y.at /\ z.resets # y.resets
    BY <2>2
  <2>4. y \in ss /\ z \in ss /\ z.at < y.at
    BY <1>1, <2>3 DEF AreOfOne
  <2> DEFINE x == Before(y, ss)
  <2>5. x \in ss /\ x.at < y.at /\ z.at <= x.at
    BY <2>4, BeforeIs
  <2>6. x \in B /\ x.used <= y.used
    BY <1>1, <2>3, <2>4, <2>5
  <2>7. x.resets = y.resets
    <3>1. y # Earliest(ss)
      BY <2>4, EarliestIs DEF AreOfOne
    <3>2. y.resets # x.resets => y.used < x.used
      BY <2>4, <3>1 DEF ResetsShow
    <3>3. x.used \in Int /\ y.used \in Int
      BY <2>4, <2>5 DEF AreOfOne
    <3> QED
      BY <2>6, <3>2, <3>3
  <2> HIDE DEF x
  <2>8. x.at \in T
    BY <2>3, <2>5, <2>6, <2>7
  <2>9. x.at < n /\ x.at \in Nat /\ n \in Nat
    BY <2>1, <2>3, <2>5, <2>8
  <2> QED
    BY <2>2, <2>8, <2>9
<1> QED
  BY <1>1, <1>2 DEF AreOfOne, B

LEMMA ForecastsAre == QuotasInv => ForecastsRestOnOneRise
<1> SUFFICES ASSUME QuotasInv, NEW w \in Windows, IsForecast(w)
             PROVE  LET basis == Stretch(Recent(w))
                    IN  /\ \A s, t \in basis : s.at <= t.at => s.used <= t.used
                        /\ \A t \in Earliest(basis).at..(clock - MaxGap - 1) :
                              \E s \in basis : t < s.at /\ s.at <= t + MaxGap
                        /\ ResetsShow(Recent(w)) => \A s, t \in basis : s.resets = t.resets
  BY DEF ForecastsRestOnOneRise
<1> DEFINE ss == Recent(w)
           B == Stretch(ss)
<1>1. AreOfOne(ss) /\ ss # {}
  <2>1. \A p \in Used : p \in Int
    BY ClampedIs, QuotasAssumption DEF Used, NotKnown
  <2>2. \A s \in samples : s.at \in 0..LastTime /\ s.used \in Int
    BY <2>1 DEF QuotasInv, QuotasTypeOK, Samples, Times
  <2> QED
    BY <2>2 DEF IsForecast, IsCurrent, Recent, QuotasInv, OneSampleAtATime, AreOfOne
<1>2. clock - Latest(ss).at <= FreshFor /\ IsContinuous(B)
  BY DEF IsForecast, IsCurrent
<1> HIDE DEF ss
<1>3. \A s, t \in B : s.at <= t.at => s.used <= t.used
  BY <1>1, StretchRises
<1>4. B \subseteq ss /\ Latest(ss) \in B
  BY <1>1, StretchIs
<1>5. AreOfOne(B) /\ B # {}
  BY <1>1, <1>4 DEF AreOfOne
<1>9. ASSUME ResetsShow(ss), NEW s \in B, NEW t \in B
      PROVE  s.resets = t.resets
  <2>1. s.at <= t.at \/ t.at <= s.at
    BY <1>5 DEF AreOfOne
  <2> QED
    BY <1>1, <1>9, <2>1, StretchIsOfOneWindow
<1> HIDE DEF B
<1>6. Earliest(B) \in B /\ \A t \in B : Earliest(B).at <= t.at
  BY <1>5, EarliestIs
<1>7. /\ clock \in Int /\ MaxGap \in Nat /\ FreshFor \in Nat /\ FreshFor <= MaxGap
      /\ Latest(ss).at \in Int
  BY <1>4, <1>5, QuotasAssumption DEF QuotasInv, QuotasTypeOK, Times, AreOfOne
<1>8. ASSUME NEW t \in Earliest(B).at..(clock - MaxGap - 1)
      PROVE  \E s \in B : t < s.at /\ s.at <= t + MaxGap
  <2> DEFINE T == {s.at : s \in {x \in B : t < x.at}}
  <2>0. Earliest(B).at \in Nat /\ t \in Nat /\ Earliest(B).at <= t /\ t <= clock - MaxGap - 1
    BY <1>5, <1>6, <1>7 DEF AreOfOne
  <2>1. Latest(ss) \in B /\ t < Latest(ss).at
    BY <1>2, <1>4, <1>7, <2>0
  <2>2. T \in SUBSET Nat /\ T # {}
    BY <1>5, <2>1 DEF AreOfOne
  <2>3. PICK n \in T : \A m \in T : n <= m
    BY <2>2, LeastNatural
  <2>4. PICK s \in B : t < s.at /\ s.at = n
    BY <2>3
  <2> DEFINE x == Before(s, B)
  <2>5. Earliest(B).at < s.at
    BY <1>5, <2>0, <2>4 DEF AreOfOne
  <2>6. x \in B /\ x.at < s.at
    BY <1>5, <1>6, <2>5, BeforeIs
  <2>7. s.at - x.at <= MaxGap
    <3>1. s # Earliest(B)
      BY <1>5, <2>5 DEF AreOfOne
    <3> QED
      BY <1>2, <3>1 DEF IsContinuous
  <2> HIDE DEF x
  <2>8. x.at <= t
    <3>1. s.at \in Int /\ x.at \in Int
      BY <1>5, <2>6 DEF AreOfOne
    <3>2. x.at \notin T
      BY <2>3, <2>4, <2>6, <3>1, <2>2
    <3> QED
      BY <2>0, <2>6, <3>1, <3>2
  <2>9. s.at <= t + MaxGap
    BY <1>5, <1>7, <2>0, <2>6, <2>7, <2>8 DEF AreOfOne
  <2> QED
    BY <2>4, <2>9
<1> QED
  BY <1>3, <1>8, <1>9 DEF B, ss


-----------------------------------------------------------------------------
(* The timeline.                                                            *)

\* What is shown of the window of a lane that ends at e.
Lane(w, e, first, last) ==
    [ from |-> Max({e - Period, first}), to |-> Min({e, last}),
      state |-> IF e <= clock THEN "elapsed"
                ELSE IF e - Period <= clock THEN "current" ELSE "upcoming",
      used |-> IF Observed(w, e) THEN w.used ELSE NotKnown ]

\* One window of a lane covers each moment of the range that is shown.
LEMMA OneEnd ==
    ASSUME NEW w, w.resets \in Nat, NEW first \in Int, NEW last \in Int, NEW t \in first..(last - 1)
    PROVE  \E e \in Ends(w, first, last) :
              /\ e - Period <= t /\ t < e
              /\ \A x \in Ends(w, first, last) : x - Period <= t /\ t < x => x = e
<1> DEFINE offset == (t - w.resets) % Period
           e == t + Period - offset
<1>1. Period \in Nat \ {0}
  BY QuotasAssumption
<1>2. offset \in 0..(Period - 1) /\ (t - w.resets + Period - offset) % Period = 0
  <2> DEFINE n == t - w.resets
  <2>1. n \in Int
    OBVIOUS
  <2> HIDE DEF n
  <2>2. n % Period \in 0..(Period - 1) /\ (n + Period - (n % Period)) % Period = 0
    BY <1>1, <2>1, MultipleIs
  <2> QED
    BY <2>2 DEF n
<1>3. e - w.resets = t - w.resets + Period - offset
  BY <1>1, <1>2
<1>4. (e - w.resets) % Period = 0
  BY <1>2, <1>3
<1>5. e \in Int /\ e - Period <= t /\ t < e
  BY <1>1, <1>2
<1> HIDE DEF e
<1>6. e \in Ends(w, first, last)
  BY <1>1, <1>4, <1>5 DEF Ends
<1>7. ASSUME NEW x \in Ends(w, first, last), x - Period <= t, t < x
      PROVE  x = e
  <2>1. x \in Int /\ (x - w.resets) % Period = 0
    BY <1>1, <1>7 DEF Ends
  <2>2. /\ (x - w.resets) - (e - w.resets) < Period
        /\ (e - w.resets) - (x - w.resets) < Period
    BY <1>1, <1>5, <1>7, <2>1
  <2>3. x - w.resets \in Int /\ e - w.resets \in Int
    BY <1>5, <2>1
  <2>4. x - w.resets = e - w.resets
    BY <1>1, <1>4, <2>1, <2>2, <2>3, MultiplesAreApart
  <2> QED
    BY <1>5, <2>1, <2>4
<1> QED
  BY <1>5, <1>6, <1>7

LEMMA LaneIs ==
    ASSUME NEW w, NEW e \in Int, NEW first \in Int, NEW last \in Int, NEW t \in first..(last - 1)
    PROVE  LET p == Lane(w, e, first, last)
           IN  /\ p.from <= t /\ t < p.to <=> e - Period <= t /\ t < e
               /\ p.used # NotKnown => Observed(w, e)
               /\ Observed(w, e) /\ clock \in Int => p.state = "current"
<1> DEFINE p == Lane(w, e, first, last)
<1>1. Period \in Int
  BY QuotasAssumption
<1>2. /\ p.from = IF e - Period >= first THEN e - Period ELSE first
      /\ p.to = IF e <= last THEN e ELSE last
  BY <1>1, MaxIs, MinIs DEF Lane
<1>3. p.from <= t /\ t < p.to <=> e - Period <= t /\ t < e
  BY <1>1, <1>2
<1>4. p.used # NotKnown => Observed(w, e)
  BY DEF Lane
<1>5. Observed(w, e) /\ clock \in Int => p.state = "current"
  BY DEF Lane, Observed
<1> QED
  BY <1>3, <1>4, <1>5

LEMMA TimelineIs == QuotasInv => TimelineIsSeamless
<1> DEFINE first == clock - 1
           last == clock + Period + 1
<1> SUFFICES ASSUME QuotasInv, NEW w \in windows
             PROVE  LET shown == Projected(w, clock - 1, clock + Period + 1)
                    IN  /\ \A t \in (clock - 1)..(clock + Period) :
                              Cardinality({p \in shown : p.from <= t /\ t < p.to}) = 1
                        /\ \A p \in shown : p.used # NotKnown => p.state = "current"
                        /\ (\E p \in shown : p.used # NotKnown) => clock < w.resets
  BY DEF TimelineIsSeamless
<1> DEFINE shown == Projected(w, first, last)
           ends == Ends(w, first, last)
<1>1. /\ clock \in Nat /\ Period \in Nat \ {0} /\ w.resets \in Nat
      /\ first \in Int /\ last \in Int
  BY QuotasAssumption DEF QuotasInv, QuotasTypeOK, Times, Samples
<1>2. shown = {Lane(w, e, first, last) : e \in ends}
  BY DEF Projected, Lane
<1>3. ends \subseteq Int
  BY <1>1 DEF Ends
<1>4. ASSUME NEW t \in (clock - 1)..(clock + Period)
      PROVE  Cardinality({p \in shown : p.from <= t /\ t < p.to}) = 1
  <2>1. t \in first..(last - 1)
    BY <1>1
  <2> HIDE DEF first, last
  <2>2. PICK e \in ends : /\ e - Period <= t /\ t < e
                          /\ \A x \in ends : x - Period <= t /\ t < x => x = e
    BY <1>1, <2>1, OneEnd
  <2>3. \A x \in ends : LET p == Lane(w, x, first, last)
                        IN  p.from <= t /\ t < p.to <=> x - Period <= t /\ t < x
    BY <1>1, <1>3, <2>1, LaneIs
  <2> HIDE DEF shown, ends
  <2>4. {p \in shown : p.from <= t /\ t < p.to} = {Lane(w, e, first, last)}
    BY <1>2, <2>2, <2>3
  <2> QED
    BY <2>4, FS_Singleton
<1>5. ASSUME NEW p \in shown, p.used # NotKnown
      PROVE  p.state = "current" /\ clock < w.resets
  <2>1. clock \in first..(last - 1) /\ clock \in Int
    BY <1>1
  <2> HIDE DEF first, last
  <2>2. PICK e \in ends : p = Lane(w, e, first, last)
    BY <1>2
  <2>3. Observed(w, e) /\ p.state = "current"
    BY <1>1, <1>3, <1>5, <2>1, <2>2, LaneIs
  <2> QED
    BY <2>3 DEF Observed
<1> QED
  BY <1>4, <1>5

-----------------------------------------------------------------------------
(* Theorems about quotas.                                                   *)

LEMMA NoticesKeepQuotas == QuotasInv /\ [NoticesNext]_allNoticeVars => QuotasInv'
<1> SUFFICES ASSUME QuotasInv, [NoticesNext]_allNoticeVars PROVE QuotasInv'
  OBVIOUS
<1>1. \/ ClockTicks \/ ClearQuotas \/ UNCHANGED quotaVars
      \/ \E d \in Domains : \/ \E used \in UsedByWindow(d) : SaveQuotas(d, used)
                            \/ SaveWithoutQuotas(d) \/ RecordFailure(d)
  BY DEF NoticesNext, allNoticeVars, PassTime, Answer, Fail, BeginNotices, Skip, TellReset,
     RememberUsed, TellLevel, RememberLevel, TellForecast, RememberForecast, TellFailure,
     RememberFailure, EndNotices, SetNotifications, Clear, Restart
<1> QED
  BY <1>1, NextQuotas

LEMMA SpecQuotasInv == NoticesSpec => []QuotasInv
<1>1. NoticesInit => QuotasInv
  BY InitQuotas DEF NoticesInit
<1> QED
  BY <1>1, NoticesKeepQuotas, PTL DEF NoticesSpec

\* Windows are stored exactly as long as the last answer about their domain told them
\* (saveSnapshot), for any windows, domains and answers.
THEOREM WindowsRetire == NoticesSpec => []WindowsAreOfTheLastAnswer
<1>1. QuotasInv => WindowsAreOfTheLastAnswer
  BY DEF QuotasInv
<1> QED
  BY <1>1, SpecQuotasInv, PTL

\* However samples came, were replaced, fell or paused: a forecast (getQuotaForecasts)
\* rests on samples of one window that are never further apart than MaxGap.
THEOREM ForecastsOnOneRise == NoticesSpec => []ForecastsRestOnOneRise
  BY ForecastsAre, SpecQuotasInv, PTL

\* At any time, for any period: windows of a lane follow one another seamlessly, and usage
\* is shown on the current one alone (projectLane of quota-timeline.ts).
THEOREM TimelineSeamless == NoticesSpec => []TimelineIsSeamless
  BY TimelineIs, SpecQuotasInv, PTL
=============================================================================
