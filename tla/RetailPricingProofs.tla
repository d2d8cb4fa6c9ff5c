------------------------- MODULE RetailPricingProofs -------------------------
(***************************************************************************)
(* Proofs about RetailPricing for any observations, page size, rates and   *)
(* number of overlapping edits, failures and restarts within the bounds,   *)
(* and about PriceLookup for any ids of rates, number of changes of the    *)
(* table and limit of the prompt.                                          *)
(***************************************************************************)
EXTENDS RetailPricing, PriceLookup, Sums

\* What has been compacted is stored no more.
Disjoint == stored \cap compacted = {}

\* A cost is of an observation that is or was stored.
CostsHaveUsage == \A c \in costs : c.of \in stored \cup compacted

\* Without an overlap, one backfill is in flight at most,
OneAtATime ==
    ~overlapped => \A a, b \in Backfills : backfill[a] # "idle" /\ backfill[b] # "idle" => a = b

\* the marker does not name the current version while it is,
UnfinishedInFlight ==
    ~overlapped => \A b \in Backfills :
        /\ backfill[b] = "deleting" => marker = Unfinished
        /\ backfill[b] # "idle" => marker # Version

\* it starts from the first page,
CursorStarts == \A b \in Backfills : backfill[b] = "deleting" => cursor[b] = 0

\* and it has priced what is behind its cursor.
CursorIsBehind ==
    ~overlapped => \A b \in Backfills : backfill[b] = "paging" =>
        \A o \in Unpriced : o <= cursor[b] => ~Priceable(o)

\* The marker names a version of the past or the present,
MarkerIsOld ==
    /\ rate <= revisions
    /\ marker # Unfinished => marker.rate <= revisions /\ marker.release <= release

\* and all is priced that this version and the current one price.
MarkerIsKept ==
    ~overlapped /\ marker # Unfinished =>
        \A o \in Unpriced :
            /\ o \notin OfficialCovers[marker.release]
            /\ marker.rate = rate /\ rate # 0 => o \notin RateCovers

-----------------------------------------------------------------------------
(* Pages.                                                                   *)

LEMMA FiniteObservations ==
    ASSUME NEW T, T \subseteq Observations
    PROVE  IsFiniteSet(T) /\ Cardinality(T) \in Nat
<1>1. IsFiniteSet(Observations)
  BY ObservationsAssumption, FS_Interval DEF Observations
<1>2. IsFiniteSet(T)
  BY <1>1, FS_Subset
<1> QED
  BY <1>2, FS_CardinalityType

\* Some observations have a least one, and a greatest.
LEMMA Least ==
    ASSUME NEW T, T \subseteq Observations, T # {}
    PROVE  \E x \in T : \A y \in T : x <= y
<1> DEFINE D == {1..x : x \in T}
           R == StrictSubsetOrdering(Observations)
<1>1. D \subseteq FiniteSubsetsOf(Observations) /\ D # {}
  <2>1. \A x \in T : 1..x \subseteq Observations
    BY ObservationsAssumption DEF Observations
  <2> QED
    BY <2>1, FiniteObservations DEF FiniteSubsetsOf
<1>2. PICK d \in D : \A e \in D : ~(<<e, d>> \in R)
  <2>1. IsFiniteSet(Observations)
    BY FiniteObservations
  <2>2. IsWellFoundedOn(R, FiniteSubsetsOf(Observations))
    BY <2>1, FS_StrictSubsetOrderingWellFounded
  <2> QED
    BY <1>1, <2>2, WFMin
<1>3. PICK x \in T : d = 1..x
  BY <1>2
<1>4. ASSUME NEW y \in T, ~(x <= y) PROVE FALSE
  <2>1. /\ 1..y \in D
        /\ 1..y \subseteq 1..x
        /\ x \in 1..x /\ x \notin 1..y
    BY <1>4, ObservationsAssumption DEF Observations
  <2>2. <<1..y, 1..x>> \in R
    BY <1>1, <1>3, <2>1 DEF StrictSubsetOrdering, FiniteSubsetsOf
  <2> QED
    BY <1>2, <1>3, <2>1, <2>2
<1> QED
  BY <1>4

LEMMA Greatest ==
    ASSUME NEW T, T \subseteq Observations, T # {}
    PROVE  \E x \in T : \A y \in T : y <= x
<1> DEFINE Mirror(x) == LastObservation + 1 - x
           D == {Mirror(x) : x \in T}
<1>1. \A x \in T : Mirror(x) \in Observations /\ x \in Int
  BY ObservationsAssumption DEF Observations
<1>2. D \subseteq Observations /\ D # {}
  BY <1>1
<1>3. PICK d \in D : \A e \in D : d <= e
  BY <1>2, Least
<1>4. PICK x \in T : d = Mirror(x)
  BY <1>3
<1>5. ASSUME NEW y \in T PROVE y <= x
  <2>1. Mirror(x) <= Mirror(y)
    BY <1>3, <1>4
  <2> QED
    BY <1>1, <2>1, ObservationsAssumption
<1> QED
  BY <1>5

\* A full page ends at its greatest observation and leaves out none up to it.
LEMMA FullPage ==
    ASSUME PricingTypeOK, NEW from \in 0..LastObservation,
           Cardinality(BackfillPage(from)) = PageSize
    PROVE  /\ PageEnd(BackfillPage(from)) \in BackfillPage(from)
           /\ \A o \in Unpriced :
                 from < o /\ o <= PageEnd(BackfillPage(from)) => o \in BackfillPage(from)
<1> DEFINE page == BackfillPage(from)
           rest == {o \in Unpriced : o > from}
           below(o) == {p \in rest : p < o}
           last == PageEnd(page)
<1>1. rest \subseteq Observations /\ page \subseteq rest
  BY DEF PricingTypeOK, Unpriced, BackfillPage
<1>2. page # {}
  BY FS_EmptySet, PageAssumption
<1>3. last \in page /\ \A p \in page : p <= last
  <2>1. \E x \in page : \A y \in page : y <= x
    BY <1>1, <1>2, Greatest
  <2> QED
    BY <2>1 DEF PageEnd
<1>4. ASSUME NEW o \in Unpriced, from < o, o <= last
      PROVE  o \in page
  <2>1. o \in rest
    BY <1>4
  <2>2. below(o) \subseteq below(last)
    BY <1>1, <1>3, <1>4, ObservationsAssumption DEF Observations
  <2>3. Cardinality(below(o)) <= Cardinality(below(last))
    BY <1>1, <2>2, FiniteObservations, FS_Subset
  <2>4. Cardinality(below(last)) < PageSize
    BY <1>3 DEF BackfillPage
  <2>5. Cardinality(below(o)) < PageSize
    BY <1>1, <2>3, <2>4, FiniteObservations, PageAssumption
  <2> QED
    BY <2>1, <2>5 DEF BackfillPage
<1> QED
  BY <1>3, <1>4

\* A page that is not full is the last one: it leaves out none.
LEMMA LastPage ==
    ASSUME PricingTypeOK, NEW from \in 0..LastObservation,
           Cardinality(BackfillPage(from)) # PageSize
    PROVE  \A o \in Unpriced : o > from => o \in BackfillPage(from)
<1> DEFINE page == BackfillPage(from)
           rest == {o \in Unpriced : o > from}
           below(o) == {p \in rest : p < o}
           left == rest \ page
<1>1. rest \subseteq Observations /\ page \subseteq rest
  BY DEF PricingTypeOK, Unpriced, BackfillPage
<1>2. SUFFICES ASSUME left # {} PROVE FALSE
  OBVIOUS
<1>3. PICK x \in left : \A y \in left : x <= y
  <2>1. left \subseteq Observations
    BY <1>1
  <2> QED
    BY <1>2, <2>1, Least
<1>4. Cardinality(below(x)) >= PageSize
  <2>1. ~(Cardinality(below(x)) < PageSize)
    BY <1>3 DEF BackfillPage
  <2> QED
    BY <1>1, <2>1, FiniteObservations, PageAssumption
<1>5. below(x) \subseteq page
  BY <1>1, <1>3, ObservationsAssumption DEF Observations
<1>6. Cardinality(page) >= PageSize
  BY <1>1, <1>4, <1>5, FiniteObservations, FS_Subset, PageAssumption
<1>7. page # {}
  BY <1>6, FS_EmptySet, PageAssumption
<1>8. PICK z \in page : \A y \in page : y <= z
  BY <1>1, <1>7, Greatest
<1>9. page = below(z) \cup {z}
  <2>1. \A p \in page : p \in below(z) \cup {z}
    BY <1>1, <1>8, ObservationsAssumption DEF Observations
  <2>2. ASSUME NEW p \in below(z) PROVE p \in page
    <3>1. below(p) \subseteq below(z)
      BY <1>1, <1>8, <2>2, ObservationsAssumption DEF Observations
    <3>2. Cardinality(below(p)) <= Cardinality(below(z))
      BY <1>1, <3>1, FiniteObservations, FS_Subset
    <3>3. Cardinality(below(z)) < PageSize
      BY <1>8 DEF BackfillPage
    <3>4. Cardinality(below(p)) < PageSize
      BY <1>1, <3>2, <3>3, FiniteObservations, PageAssumption
    <3> QED
      BY <2>2, <3>4 DEF BackfillPage
  <2> QED
    BY <1>8, <2>1, <2>2
<1>10. Cardinality(page) = Cardinality(below(z)) + 1
  <2>1. z \notin below(z)
    BY <1>1, <1>8, ObservationsAssumption DEF Observations
  <2>2. IsFiniteSet(below(z))
    BY <1>1, FiniteObservations
  <2> QED
    BY <1>9, <2>1, <2>2, FS_AddElement
<1>11. Cardinality(below(z)) < PageSize
  BY <1>8 DEF BackfillPage
<1> QED
  BY <1>1, <1>6, <1>10, <1>11, FiniteObservations, PageAssumption

-----------------------------------------------------------------------------
(* Costs.                                                                   *)

\* The inductive invariant: what is known of the costs alone,
CostsInv == PricingTypeOK /\ Disjoint /\ CostsHaveUsage /\ OneCostEach /\ CostsAreCurrent

\* and what the marker and the cursors say about them.
MarkerInv ==
    /\ OneAtATime
    /\ UnfinishedInFlight
    /\ CursorStarts
    /\ CursorIsBehind
    /\ MarkerIsOld
    /\ MarkerIsKept

\* What is derived is one cost for each observation that can be priced.
LEMMA DerivedCosts ==
    ASSUME PricingTypeOK, NEW S, S \subseteq Observations
    PROVE  /\ Derived(S) \subseteq [of : Observations, price : Prices]
           /\ \A c \in Derived(S) :
                c.of \in S /\ Priceable(c.of) /\ c = [of |-> c.of, price |-> Price(c.of)]
           /\ \A o \in S : Priceable(o) => [of |-> o, price |-> Price(o)] \in Derived(S)
  BY BoundsAssumption DEF PricingTypeOK, Derived, Price, Prices, Official

\* A later release prices what an earlier one does.
LEMMA ReleasesAdd ==
    ASSUME NEW r \in Releases, NEW s \in Releases, r <= s
    PROVE  OfficialCovers[r] \subseteq OfficialCovers[s]
  BY ReleaseAssumption DEF Releases

LEMMA Pages ==
    ASSUME PricingTypeOK, NEW b \in Backfills
    PROVE  /\ NextPage(b) \subseteq Unpriced
           /\ Unpriced \subseteq stored
           /\ stored \subseteq Observations
           /\ (IF backfill[b] = "paging" THEN cursor[b] ELSE 0) \in 0..LastObservation
  BY ObservationsAssumption DEF PricingTypeOK, NextPage, BackfillPage, Unpriced

LEMMA InitCosts == PricingInit => CostsInv
<1> SUFFICES ASSUME PricingInit PROVE CostsInv
  OBVIOUS
<1>1. backfill \in [Backfills -> Phases] /\ cursor \in [Backfills -> 0..LastObservation]
  BY ObservationsAssumption DEF PricingInit, Phases
<1>2. /\ release \in Releases /\ rate \in 0..MaxRevision /\ revisions \in 0..MaxRevision
      /\ rebuilds \in 0..MaxRebuilds /\ restarts \in 0..MaxRestarts
  BY BoundsAssumption DEF PricingInit, Releases
<1>3. owed \in BOOLEAN /\ overlapped \in BOOLEAN /\ due \in BOOLEAN /\ failed \in BOOLEAN
  BY Zenon DEF PricingInit
<1>4. marker \in Versions \cup {Unfinished}
  BY <1>2 DEF PricingInit, Versions
<1>5. PricingTypeOK
  BY <1>1, <1>2, <1>3, <1>4 DEF PricingInit, PricingTypeOK
<1> QED
  BY <1>5 DEF PricingInit, CostsInv, Disjoint, CostsHaveUsage, OneCostEach, CostsAreCurrent

\* Pricing some observations that lack a price, perhaps with a new release.
LEMMA Adding ==
    ASSUME CostsInv, NEW page \in SUBSET Unpriced,
           costs' \in {costs, costs \cup Derived(page)},
           UNCHANGED <<rate, stored, compacted, owed>>,
           release' \in {r \in Releases : r >= release}
    PROVE  /\ costs' \subseteq [of : Observations, price : Prices]
           /\ (Disjoint /\ CostsHaveUsage /\ OneCostEach /\ CostsAreCurrent)'
<1> USE DEF CostsInv
<1>0. page \subseteq stored /\ page \subseteq Observations /\ stored \subseteq Observations
  BY DEF PricingTypeOK, Unpriced
<1>1. /\ Derived(page) \subseteq [of : Observations, price : Prices]
      /\ \A c \in Derived(page) :
            c.of \in page /\ Priceable(c.of) /\ c = [of |-> c.of, price |-> Price(c.of)]
  BY <1>0, DerivedCosts
<1>2. costs' \subseteq [of : Observations, price : Prices]
  BY <1>1 DEF PricingTypeOK
<1>3. CostsHaveUsage'
  BY <1>0, <1>1 DEF CostsHaveUsage
<1>4. OneCostEach'
  BY <1>1 DEF OneCostEach, Unpriced
<1>5. CostsAreCurrent'
  <2>1. SUFFICES ASSUME ~owed, NEW c \in costs', c.of \in stored
                 PROVE  c \in Derived(stored)'
    BY DEF CostsAreCurrent
  <2>2. Priceable(c.of) /\ c = [of |-> c.of, price |-> Price(c.of)]
    <3>1. CASE c \in costs
      BY <1>0, <2>1, <3>1, DerivedCosts DEF CostsAreCurrent
    <3>2. CASE c \in Derived(page)
      BY <1>1, <3>2
    <3> QED
      BY <3>1, <3>2
  <2>3. Priceable(c.of)' /\ Price(c.of)' = Price(c.of)
    BY <2>2, ReleasesAdd DEF Priceable, Price, PricingTypeOK
  <2> QED
    BY <2>1, <2>2, <2>3 DEF Derived
<1>6. Disjoint'
  BY DEF Disjoint
<1> QED
  BY <1>2, <1>3, <1>4, <1>5, <1>6

LEMMA NextCosts == CostsInv /\ [PricingNext]_pricingVars => CostsInv'
<1> SUFFICES ASSUME CostsInv, [PricingNext]_pricingVars PROVE CostsInv'
  OBVIOUS
<1>0. due' \in BOOLEAN /\ failed' \in BOOLEAN
  <2>1. due \in BOOLEAN /\ failed \in BOOLEAN
    BY Zenon DEF CostsInv, PricingTypeOK
  <2> QED
    BY <2>1, Zenon
    DEF PricingNext, pricingVars, system, WorkerCommits, WorkerFails, SavePage, SavePageFails,
        EndInSavePage, StartRun, PriceNothing, RebuildPrices, EditRate, EditRateFails,
        SaveObservation, Compact, Restart, EndInEditRate, Restarts
<1> USE DEF CostsInv
<1>1. ASSUME NEW b \in Backfills, WorkerCommits(b) PROVE CostsInv'
  <2>1. PricingTypeOK'
    BY <1>0, <1>1 DEF WorkerCommits, PricingTypeOK, bounds, Phases
  <2> QED
    BY <1>1, <2>1 DEF WorkerCommits, Disjoint, CostsHaveUsage, OneCostEach, CostsAreCurrent
<1>2. ASSUME NEW b \in Backfills, WorkerFails(b) PROVE CostsInv'
  BY <1>0, <1>2 DEF WorkerFails, PricingTypeOK, bounds, Phases, Disjoint, CostsHaveUsage, OneCostEach,
      CostsAreCurrent, Derived, Priceable, Price
<1>3. ASSUME NEW b \in Backfills, SavePage(b) \/ SavePageFails(b) \/ EndInSavePage(b)
      PROVE  CostsInv'
  <2> DEFINE page == NextPage(b)
             full == Cardinality(page) = PageSize
  <2>0. \E saved \in SUBSET page : costs' = costs \cup Derived(saved)
    BY <1>3 DEF SavePage, SavePageFails, EndInSavePage
  <2> PICK saved \in SUBSET page : costs' = costs \cup Derived(saved)
    BY <2>0
  <2>1. /\ costs' \in {costs, costs \cup Derived(saved)}
        /\ UNCHANGED <<rate, stored, compacted, owed>>
        /\ release' \in {r \in Releases : r >= release}
    BY <1>3 DEF SavePage, SavePageFails, EndInSavePage, Restarts, PricingTypeOK, Releases
  <2>2. saved \in SUBSET Unpriced
    BY Pages
  <2>3. /\ costs' \subseteq [of : Observations, price : Prices]
        /\ (Disjoint /\ CostsHaveUsage /\ OneCostEach /\ CostsAreCurrent)'
    BY <2>1, <2>2, Adding
  <2>4. /\ backfill' \in [Backfills -> Phases] /\ overlapped' \in BOOLEAN
        /\ due' \in BOOLEAN /\ failed' \in BOOLEAN
    BY <1>0, <1>3 DEF SavePage, SavePageFails, EndInSavePage, Restarts, PricingTypeOK, Phases
  <2>5. cursor' \in [Backfills -> 0..LastObservation]
    <3>1. CASE SavePage(b)
      <4>1. full => PageEnd(page) \in 0..LastObservation
        BY Pages, FullPage, ObservationsAssumption DEF NextPage, Observations
      <4> QED
        BY <3>1, <4>1, ObservationsAssumption DEF SavePage, PricingTypeOK
    <3> QED
      BY <1>3, <3>1 DEF SavePageFails, EndInSavePage, Restarts, PricingTypeOK
  <2>6. marker' \in Versions \cup {Unfinished}
    BY <1>3 DEF SavePage, SavePageFails, EndInSavePage, PricingTypeOK, Version, Versions
  <2>7. revisions' \in 0..MaxRevision /\ rebuilds' \in 0..MaxRebuilds /\ restarts' \in 0..MaxRestarts
    BY <1>3, BoundsAssumption DEF SavePage, SavePageFails, EndInSavePage, Restarts, PricingTypeOK, bounds
  <2>8. PricingTypeOK'
    BY <1>0, <2>1, <2>3, <2>4, <2>5, <2>6, <2>7 DEF PricingTypeOK
  <2> QED
    BY <2>3, <2>8
<1>4. CASE StartRun \/ PriceNothing \/ UNCHANGED pricingVars
  <2>1. UNCHANGED <<release, rate, stored, compacted, costs, marker, backfill, cursor, bounds, owed,
                    overlapped>>
    BY <1>4 DEF StartRun, PriceNothing, pricingVars, system, bounds
  <2>2. PricingTypeOK'
    BY <1>0, <2>1 DEF bounds, PricingTypeOK
  <2> QED
    BY <2>1, <2>2 DEF Disjoint, CostsHaveUsage, OneCostEach, CostsAreCurrent, Derived, Priceable, Price
<1>5. CASE RebuildPrices
  <2>1. PricingTypeOK'
    BY <1>0, <1>5, BoundsAssumption, ObservationsAssumption
    DEF RebuildPrices, bounds, BeginRebuild, PricingTypeOK, Backfills, Phases
  <2> QED
    BY <1>5, <2>1 DEF RebuildPrices, Disjoint, CostsHaveUsage, OneCostEach, CostsAreCurrent,
        Derived, Priceable, Price
<1>6. ASSUME ChangeRate PROVE rate' \in 0..MaxRevision /\ revisions' \in 0..MaxRevision /\ owed' = TRUE
  BY <1>6, BoundsAssumption DEF ChangeRate, PricingTypeOK
<1>7. ASSUME NEW e \in Edits, EditRate(e) \/ EditRateFails(e) PROVE CostsInv'
  <2>1. /\ backfill' \in [Backfills -> Phases]
        /\ cursor' \in [Backfills -> 0..LastObservation]
    BY <1>7, ObservationsAssumption
    DEF EditRate, EditRateFails, BeginRebuild, PricingTypeOK, Phases
  <2>2. overlapped' \in BOOLEAN
    BY <1>7 DEF EditRate, EditRateFails, BeginRebuild, PricingTypeOK
  <2>3. PricingTypeOK'
    BY <1>0, <1>6, <1>7, <2>1, <2>2 DEF EditRate, EditRateFails, BeginRebuild, PricingTypeOK
  <2> QED
    BY <1>6, <1>7, <2>3 DEF EditRate, EditRateFails, Disjoint, CostsHaveUsage, OneCostEach,
        CostsAreCurrent
<1>8. ASSUME NEW o \in Observations, SaveObservation(o) PROVE CostsInv'
  <2>1. /\ Derived({o}) \subseteq [of : Observations, price : Prices]
        /\ \A c \in Derived({o}) :
              c.of = o /\ Priceable(c.of) /\ c = [of |-> c.of, price |-> Price(c.of)]
    BY DerivedCosts
  <2>2. costs' = {c \in costs : c.of # o} \cup Derived({o})
    BY <1>8 DEF SaveObservation
  <2>3. PricingTypeOK'
    BY <1>0, <1>8, <2>1, <2>2 DEF SaveObservation, PricingTypeOK, bounds
  <2>4. CostsHaveUsage'
    BY <1>8, <2>1, <2>2 DEF SaveObservation, CostsHaveUsage
  <2>5. OneCostEach'
    BY <2>1, <2>2 DEF OneCostEach
  <2>6. CostsAreCurrent'
    <3>1. SUFFICES ASSUME ~owed, NEW c \in costs', c.of \in stored'
                   PROVE  c \in Derived(stored)'
      BY <1>8 DEF SaveObservation, CostsAreCurrent
    <3>2. Priceable(c.of) /\ c = [of |-> c.of, price |-> Price(c.of)]
      <4>1. CASE c \in costs /\ c.of # o
        <5>1. c \in Derived(stored)
          BY <1>8, <3>1, <4>1 DEF SaveObservation, CostsAreCurrent
        <5>2. stored \subseteq Observations
          BY DEF PricingTypeOK
        <5> QED
          BY <5>1, <5>2, DerivedCosts
      <4> QED
        BY <2>1, <2>2, <4>1
    <3>3. Priceable(c.of)' /\ Price(c.of)' = Price(c.of)
      BY <1>8, <3>2 DEF SaveObservation, Priceable, Price
    <3> QED
      BY <3>1, <3>2, <3>3 DEF Derived
  <2> QED
    BY <1>8, <2>3, <2>4, <2>5, <2>6 DEF SaveObservation, Disjoint
<1>9. ASSUME NEW o \in stored, Compact(o) PROVE CostsInv'
  <2>1. PricingTypeOK'
    BY <1>0, <1>9 DEF Compact, PricingTypeOK, bounds
  <2>2. CostsAreCurrent'
    <3>1. SUFFICES ASSUME ~owed, NEW c \in costs, c.of \in stored'
                   PROVE  c \in Derived(stored)'
      BY <1>9 DEF Compact, CostsAreCurrent
    <3>2. Priceable(c.of) /\ c = [of |-> c.of, price |-> Price(c.of)]
      <4>1. c \in Derived(stored) /\ stored \subseteq Observations
        BY <1>9, <3>1 DEF Compact, CostsAreCurrent, PricingTypeOK
      <4> QED
        BY <4>1, DerivedCosts
    <3>3. Priceable(c.of)' /\ Price(c.of)' = Price(c.of)
      BY <1>9, <3>2 DEF Compact, Priceable, Price
    <3> QED
      BY <3>1, <3>2, <3>3 DEF Derived
  <2> QED
    BY <1>9, <2>1, <2>2 DEF Compact, Disjoint, CostsHaveUsage, OneCostEach
<1>10. CASE Restart
  <2>1. PricingTypeOK'
    BY <1>0, <1>10, BoundsAssumption DEF Restart, Restarts, PricingTypeOK, Phases
  <2>2. (Disjoint /\ CostsHaveUsage /\ OneCostEach /\ CostsAreCurrent)'
    <3>1. {} \in SUBSET Unpriced
      OBVIOUS
    <3>2. /\ costs' \in {costs, costs \cup Derived({})}
          /\ UNCHANGED <<rate, stored, compacted, owed>>
          /\ release' \in {r \in Releases : r >= release}
      BY <1>10 DEF Restart, Restarts
    <3> QED
      BY <3>1, <3>2, Adding
  <2> QED
    BY <2>1, <2>2
<1>11. CASE EndInEditRate
  <2>1. PricingTypeOK'
    BY <1>0, <1>6, <1>11, BoundsAssumption DEF EndInEditRate, Restarts, PricingTypeOK, Phases
  <2> QED
    BY <1>6, <1>11, <2>1 DEF EndInEditRate, Restarts, Disjoint, CostsHaveUsage, OneCostEach,
        CostsAreCurrent
<1> QED
  BY <1>1, <1>2, <1>3, <1>4, <1>5, <1>7, <1>8, <1>9, <1>10, <1>11 DEF PricingNext

-----------------------------------------------------------------------------
(* The marker.                                                              *)

\* What lacks a price after a page has been saved lacked one before; of the page
\* it is what has none.
LEMMA AfterPage ==
    ASSUME PricingTypeOK, NEW page \in SUBSET Unpriced,
           costs' \in {costs, costs \cup Derived(page)}, UNCHANGED stored
    PROVE  /\ Unpriced' \subseteq Unpriced
           /\ costs' = costs \cup Derived(page) => \A o \in page \cap Unpriced' : ~Priceable(o)
<1>1. Unpriced' \subseteq Unpriced
  BY DEF Unpriced
<1>2. ASSUME costs' = costs \cup Derived(page), NEW o \in page \cap Unpriced', Priceable(o)
      PROVE  FALSE
  <2>1. [of |-> o, price |-> Price(o)] \in costs'
    BY <1>2 DEF Derived
  <2> QED
    BY <1>2, <2>1 DEF Unpriced
<1> QED
  BY <1>1, <1>2

LEMMA InitMarker == PricingInit => MarkerInv
<1> SUFFICES ASSUME PricingInit PROVE MarkerInv
  OBVIOUS
<1>1. Unpriced = {} /\ marker \in {Unfinished, Version}
  BY DEF PricingInit, Unpriced, Version
<1> QED
  BY <1>1 DEF PricingInit, MarkerInv, OneAtATime, UnfinishedInFlight, CursorStarts,
      CursorIsBehind, MarkerIsOld, MarkerIsKept

\* A rebuild begins.
LEMMA Beginning ==
    ASSUME CostsInv, PricingTypeOK', MarkerInv, NEW b \in Backfills, BeginRebuild(b)
    PROVE  (OneAtATime /\ UnfinishedInFlight /\ CursorStarts /\ CursorIsBehind /\ MarkerIsKept)'
<1> USE DEF MarkerInv, CostsInv
<1>1. /\ marker' = Unfinished
      /\ backfill' = [backfill EXCEPT ![b] = "deleting"]
      /\ overlapped' = (overlapped \/ ~Idle)
  BY DEF BeginRebuild
<1>4. CursorStarts'
  BY DEF BeginRebuild, CursorStarts, PricingTypeOK
<1>2. ~overlapped' => \A a \in Backfills : backfill'[a] = IF a = b THEN "deleting" ELSE "idle"
  BY <1>1 DEF Idle, PricingTypeOK
<1>3. marker' # Version'
  <2>1. release' # 0
    BY DEF PricingTypeOK, Releases
  <2> QED
    BY <1>1, <2>1 DEF Version, Unfinished
<1> QED
  BY <1>1, <1>2, <1>3, <1>4 DEF OneAtATime, UnfinishedInFlight, CursorIsBehind, MarkerIsKept

\* All backfills end, because the daemon does.
LEMMA Ending ==
    ASSUME CostsInv, MarkerInv, Restarts,
           UNCHANGED marker, Unpriced' \subseteq Unpriced,
           (rate' = rate /\ revisions' = revisions) \/ ChangeRate
    PROVE  MarkerInv'
<1> USE DEF MarkerInv, CostsInv
<1>1. /\ \A b \in Backfills : backfill'[b] = "idle"
      /\ release' \in Releases /\ release <= release'
      /\ overlapped' = overlapped
  BY DEF Restarts, PricingTypeOK, Releases
<1>2. revisions' \in Int /\ revisions <= revisions' /\ rate' <= revisions'
      /\ (rate' = rate \/ rate' = 0 \/ rate' = revisions + 1)
  BY BoundsAssumption DEF ChangeRate, MarkerIsOld, PricingTypeOK
<1>3. MarkerIsOld'
  <2>1. ASSUME marker # Unfinished
        PROVE  marker.rate <= revisions' /\ marker.release <= release'
    <3>1. marker.rate \in Int /\ marker.release \in Int /\ release \in Int /\ release' \in Int
      BY <1>1, <2>1, BoundsAssumption DEF PricingTypeOK, Versions, Releases
    <3>2. marker.rate <= revisions /\ marker.release <= release /\ revisions \in Int
      BY <2>1, BoundsAssumption DEF MarkerIsOld, PricingTypeOK
    <3> QED
      BY <1>1, <1>2, <3>1, <3>2
  <2> QED
    BY <1>2, <2>1 DEF MarkerIsOld
<1>4. MarkerIsKept'
  BY <1>1, <1>2, BoundsAssumption DEF MarkerIsKept, MarkerIsOld, PricingTypeOK, Versions
<1> QED
  BY <1>1, <1>3, <1>4 DEF OneAtATime, UnfinishedInFlight, CursorStarts, CursorIsBehind

LEMMA NextMarker == CostsInv /\ CostsInv' /\ MarkerInv /\ [PricingNext]_pricingVars => MarkerInv'
<1> SUFFICES ASSUME CostsInv, CostsInv', MarkerInv, [PricingNext]_pricingVars PROVE MarkerInv'
  OBVIOUS
<1> USE DEF CostsInv, MarkerInv
<1>1. ASSUME NEW b \in Backfills, WorkerCommits(b) PROVE MarkerInv'
  <2>1. /\ backfill[b] = "deleting"
        /\ backfill' = [backfill EXCEPT ![b] = "paging"]
        /\ UNCHANGED <<release, rate, stored, marker, cursor, revisions, overlapped>>
    BY <1>1 DEF WorkerCommits, bounds
  <2>2. MarkerIsOld' /\ UNCHANGED Version
    BY <2>1 DEF MarkerIsOld, Version
  <2>3. ~overlapped => marker = Unfinished
    BY <2>1 DEF UnfinishedInFlight
  <2>4. OneAtATime'
    BY <2>1 DEF OneAtATime, PricingTypeOK
  <2>5. UnfinishedInFlight'
    BY <2>1, <2>2 DEF UnfinishedInFlight, PricingTypeOK
  <2>6. CursorStarts'
    BY <2>1 DEF CursorStarts, PricingTypeOK
  <2>7. CursorIsBehind'
    <3>1. SUFFICES ASSUME ~overlapped, NEW a \in Backfills, backfill'[a] = "paging"
                   PROVE  \A o \in Unpriced' : o > cursor[a]
      BY <2>1, ObservationsAssumption DEF CursorIsBehind, PricingTypeOK, Unpriced, Observations
    <3>2. a = b
      BY <2>1, <3>1 DEF OneAtATime, PricingTypeOK
    <3> QED
      BY <2>1, <3>2, ObservationsAssumption DEF CursorStarts, PricingTypeOK, Unpriced, Observations
  <2> QED
    BY <2>1, <2>2, <2>3, <2>4, <2>5, <2>6, <2>7 DEF MarkerIsKept
<1>2. ASSUME NEW b \in Backfills, WorkerFails(b) PROVE MarkerInv'
  <2>1. /\ backfill' = [backfill EXCEPT ![b] = "idle"]
        /\ UNCHANGED <<release, rate, stored, costs, marker, cursor, revisions, overlapped>>
    BY <1>2 DEF WorkerFails, bounds
  <2>2. UNCHANGED <<Version, Unpriced>> /\ \A o : Priceable(o)' = Priceable(o)
    BY <2>1 DEF Version, Unpriced, Priceable
  <2>3. \A a \in Backfills : backfill'[a] \in {backfill[a], "idle"}
    BY <2>1 DEF PricingTypeOK
  <2> QED
    BY <2>1, <2>2, <2>3 DEF OneAtATime, UnfinishedInFlight, CursorStarts, CursorIsBehind,
        MarkerIsOld, MarkerIsKept
<1>3. ASSUME NEW b \in Backfills, SavePage(b) PROVE MarkerInv'
  <2> DEFINE from == IF backfill[b] = "paging" THEN cursor[b] ELSE 0
             page == NextPage(b)
             full == Cardinality(page) = PageSize
  <2>1. /\ PageIsDue(b)
        /\ costs' = costs \cup Derived(page)
        /\ backfill' = [backfill EXCEPT ![b] = IF full THEN "paging" ELSE "idle"]
        /\ cursor' = [cursor EXCEPT ![b] = IF full THEN PageEnd(page) ELSE 0]
        /\ marker' = IF full THEN marker ELSE Version
        /\ overlapped' = (overlapped \/ (backfill[b] = "idle" /\ ~Idle))
        /\ UNCHANGED <<release, rate, stored, revisions>>
    BY <1>3 DEF SavePage, bounds
  <2>2. /\ page \in SUBSET Unpriced
        /\ Unpriced \subseteq Observations
        /\ from \in 0..LastObservation
    BY Pages
  <2>3. /\ Unpriced' \subseteq Unpriced
        /\ \A o \in page \cap Unpriced' : ~Priceable(o)
    BY <2>1, <2>2, AfterPage
  <2>4. UNCHANGED Version /\ \A o : Priceable(o)' = Priceable(o)
    BY <2>1 DEF Version, Priceable
  <2>5. ~overlapped' => ~overlapped /\ \A a \in Backfills : a # b => backfill[a] = "idle"
    BY <2>1 DEF OneAtATime, Idle, PageIsDue, QueueIsFree, PricingTypeOK, Phases
  <2>6. OneAtATime'
    BY <2>1, <2>5 DEF OneAtATime, PricingTypeOK
  <2>7. CursorStarts'
    BY <2>1 DEF CursorStarts, PricingTypeOK
  <2>8. UnfinishedInFlight'
    <3>1. SUFFICES ASSUME ~overlapped', NEW a \in Backfills, backfill'[a] # "idle"
                   PROVE  backfill'[a] # "deleting" /\ marker' # Version'
      BY DEF UnfinishedInFlight
    <3>2. a = b /\ full
      BY <2>1, <2>5, <3>1 DEF PricingTypeOK
    <3>3. marker # Version
      BY <2>1, <2>5, <3>1 DEF PageIsDue, UnfinishedInFlight
    <3> QED
      BY <2>1, <2>4, <3>2, <3>3 DEF PricingTypeOK
  <2>9. ~overlapped' => \A o \in Unpriced : o <= from => ~Priceable(o)
    BY <2>1, <2>2, <2>5, ObservationsAssumption DEF CursorIsBehind, Observations
  <2>10. CursorIsBehind'
    <3>1. SUFFICES ASSUME ~overlapped', NEW a \in Backfills, backfill'[a] = "paging",
                          NEW o \in Unpriced', o <= cursor'[a]
                   PROVE  ~Priceable(o)
      BY <2>4 DEF CursorIsBehind
    <3>2. a = b /\ full
      BY <2>1, <2>5, <3>1 DEF PricingTypeOK
    <3>3. o <= PageEnd(page)
      BY <2>1, <3>1, <3>2 DEF PricingTypeOK
    <3>4. CASE o <= from
      BY <2>3, <2>9, <3>1, <3>4
    <3>5. CASE ~(o <= from)
      <4>1. o > from
        BY <2>2, <2>3, <3>1, <3>5, ObservationsAssumption DEF Observations
      <4>2. o \in page
        BY <2>2, <2>3, <3>1, <3>2, <3>3, <4>1, FullPage DEF NextPage
      <4> QED
        BY <2>3, <3>1, <4>2
    <3> QED
      BY <3>4, <3>5
  <2>11. ~full /\ ~overlapped' => \A o \in Unpriced' : ~Priceable(o)
    <3>1. SUFFICES ASSUME ~full, ~overlapped', NEW o \in Unpriced' PROVE ~Priceable(o)
      OBVIOUS
    <3>2. CASE o <= from
      BY <2>3, <2>9, <3>1, <3>2
    <3>3. CASE ~(o <= from)
      <4>1. o > from
        BY <2>2, <2>3, <3>1, <3>3, ObservationsAssumption DEF Observations
      <4>2. o \in page
        BY <2>2, <2>3, <3>1, <4>1, LastPage DEF NextPage
      <4> QED
        BY <2>3, <3>1, <4>2
    <3> QED
      BY <3>2, <3>3
  <2>12. MarkerIsOld'
    BY <2>1, BoundsAssumption DEF MarkerIsOld, Version, PricingTypeOK, Releases
  <2>13. MarkerIsKept'
    <3>1. CASE full
      BY <2>1, <2>3, <2>5, <3>1 DEF MarkerIsKept
    <3>2. CASE ~full
      BY <2>1, <2>11, <3>2 DEF MarkerIsKept, Version, Priceable
    <3> QED
      BY <3>1, <3>2
  <2> QED
    BY <2>6, <2>7, <2>8, <2>10, <2>12, <2>13
<1>4. ASSUME NEW b \in Backfills, SavePageFails(b) PROVE MarkerInv'
  <2> PICK saved \in SUBSET NextPage(b) : costs' = costs \cup Derived(saved)
    BY <1>4 DEF SavePageFails
  <2>1. /\ backfill' = [backfill EXCEPT ![b] = "idle"]
        /\ overlapped' \/ ~overlapped
        /\ overlapped => overlapped'
        /\ UNCHANGED <<release, rate, stored, marker, cursor, revisions>>
    BY <1>4 DEF SavePageFails, bounds
  <2>2. Unpriced' \subseteq Unpriced
    BY <2>1, Pages, AfterPage
  <2>3. UNCHANGED Version /\ \A o : Priceable(o)' = Priceable(o)
    BY <2>1 DEF Version, Priceable
  <2>4. \A a \in Backfills : backfill'[a] \in {backfill[a], "idle"}
    BY <2>1 DEF PricingTypeOK
  <2> QED
    BY <2>1, <2>2, <2>3, <2>4 DEF OneAtATime, UnfinishedInFlight, CursorStarts, CursorIsBehind,
        MarkerIsOld, MarkerIsKept
<1>5. CASE StartRun \/ PriceNothing \/ UNCHANGED pricingVars
  BY <1>5 DEF StartRun, PriceNothing, pricingVars, system, bounds, OneAtATime, UnfinishedInFlight, CursorStarts,
      CursorIsBehind, MarkerIsOld, MarkerIsKept, Unpriced, Priceable, Version
<1>6. CASE RebuildPrices
  <2>1. (OneAtATime /\ UnfinishedInFlight /\ CursorStarts /\ CursorIsBehind /\ MarkerIsKept)'
    BY <1>6, Beginning DEF RebuildPrices, Backfills
  <2> QED
    BY <1>6, <2>1 DEF RebuildPrices, BeginRebuild, MarkerIsOld, bounds
<1>7. ASSUME ChangeRate
      PROVE  /\ revisions <= revisions' /\ rate' <= revisions'
             /\ rate' = 0 \/ rate' > revisions
  BY <1>7, BoundsAssumption DEF ChangeRate, PricingTypeOK
<1>8. ASSUME NEW e \in Edits, EditRate(e) PROVE MarkerInv'
  <2>1. (OneAtATime /\ UnfinishedInFlight /\ CursorStarts /\ CursorIsBehind /\ MarkerIsKept)'
    BY <1>8, Beginning DEF EditRate, Backfills
  <2> QED
    BY <1>7, <1>8, <2>1 DEF EditRate, BeginRebuild, MarkerIsOld
<1>9. ASSUME NEW e \in Edits, EditRateFails(e) PROVE MarkerInv'
  <2>1. /\ WorkerWrites
        /\ UNCHANGED <<release, stored, costs, marker, backfill, cursor, overlapped>>
    BY <1>9 DEF EditRateFails
  <2>2. ~overlapped => marker = Unfinished /\ \A a \in Backfills : backfill[a] # "paging"
    BY <2>1 DEF WorkerWrites, UnfinishedInFlight, OneAtATime
  <2>3. Unfinished # Version'
    BY DEF Unfinished, Version, PricingTypeOK, Releases
  <2>4. MarkerIsOld'
    BY <1>7, <1>9, <2>1, BoundsAssumption DEF EditRateFails, MarkerIsOld, PricingTypeOK, Versions
  <2> QED
    BY <2>1, <2>2, <2>3, <2>4 DEF OneAtATime, UnfinishedInFlight, CursorStarts, CursorIsBehind,
        MarkerIsKept
<1>10. ASSUME NEW o \in Observations, SaveObservation(o) PROVE MarkerInv'
  <2>1. UNCHANGED <<release, rate, marker, backfill, cursor, revisions, overlapped>>
    BY <1>10 DEF SaveObservation, bounds
  <2>2. UNCHANGED Version /\ \A p : Priceable(p)' = Priceable(p)
    BY <2>1 DEF Version, Priceable
  <2>3. \A p \in Unpriced' : p \in Unpriced \/ ~Priceable(p)
    <3>1. ASSUME NEW p \in Unpriced', p \notin Unpriced, Priceable(p) PROVE FALSE
      <4>1. CASE p = o
        <5>1. [of |-> o, price |-> Price(o)] \in costs'
          BY <1>10, <3>1, <4>1 DEF SaveObservation, Derived
        <5> QED
          BY <3>1, <4>1, <5>1 DEF Unpriced
      <4>2. CASE p # o
        BY <1>10, <3>1, <4>2 DEF SaveObservation, Unpriced
      <4> QED
        BY <4>1, <4>2
    <3> QED
      BY <3>1
  <2>4. MarkerIsKept'
    <3>1. marker # Unfinished => OfficialCovers[marker.release] \subseteq OfficialCovers[release]
      BY ReleasesAdd DEF MarkerIsOld, PricingTypeOK, Versions
    <3> QED
      BY <2>1, <2>3, <3>1 DEF MarkerIsKept, Priceable
  <2> QED
    BY <2>1, <2>2, <2>3, <2>4 DEF OneAtATime, UnfinishedInFlight, CursorStarts, CursorIsBehind,
        MarkerIsOld
<1>11. ASSUME NEW o \in stored, Compact(o) PROVE MarkerInv'
  <2>1. UNCHANGED <<release, rate, marker, backfill, cursor, revisions, overlapped>>
    BY <1>11 DEF Compact, bounds
  <2>2. UNCHANGED Version /\ \A p : Priceable(p)' = Priceable(p)
    BY <2>1 DEF Version, Priceable
  <2>3. Unpriced' \subseteq Unpriced
    BY <1>11 DEF Compact, Unpriced
  <2> QED
    BY <2>1, <2>2, <2>3 DEF OneAtATime, UnfinishedInFlight, CursorStarts, CursorIsBehind,
        MarkerIsOld, MarkerIsKept
<1>12. CASE Restart \/ EndInEditRate
  <2>1. /\ Restarts /\ UNCHANGED <<marker, costs, stored>>
        /\ (rate' = rate /\ revisions' = revisions) \/ ChangeRate
    BY <1>12 DEF Restart, EndInEditRate, Restarts
  <2>2. Unpriced' \subseteq Unpriced
    BY <2>1 DEF Unpriced
  <2> QED
    BY <2>1, <2>2, Ending
<1>13. ASSUME NEW b \in Backfills, EndInSavePage(b) PROVE MarkerInv'
  <2> PICK saved \in SUBSET NextPage(b) : costs' = costs \cup Derived(saved)
    BY <1>13 DEF EndInSavePage
  <2>1. Restarts /\ UNCHANGED <<marker, rate, revisions, stored>>
    BY <1>13 DEF EndInSavePage, Restarts
  <2>2. Unpriced' \subseteq Unpriced
    BY <2>1, Pages, AfterPage
  <2> QED
    BY <2>1, <2>2, Ending
<1> QED
  BY <1>1, <1>2, <1>3, <1>4, <1>5, <1>6, <1>8, <1>9, <1>10, <1>11, <1>12, <1>13 DEF PricingNext

LEMMA SpecInv == PricingSpec => [](CostsInv /\ MarkerInv)
<1>1. PricingInit => CostsInv /\ MarkerInv
  BY InitCosts, InitMarker
<1>2. CostsInv /\ MarkerInv /\ [PricingNext]_pricingVars => (CostsInv /\ MarkerInv)'
  BY NextCosts, NextMarker
<1> QED
  BY <1>1, <1>2, PTL DEF PricingSpec

-----------------------------------------------------------------------------
(* The theorems.                                                            *)

\* Every state is of its type; in particular a cursor stays an observation.
THEOREM TypeCorrect == PricingSpec => []PricingTypeOK
<1>1. CostsInv => PricingTypeOK
  BY DEF CostsInv
<1> QED
  BY <1>1, SpecInv, PTL

\* However many backfills overlap, an observation has one derived cost at most
\* (unpricedRetailPredicate, saveDerivedCosts, saveSnapshot).
THEOREM OneCost == PricingSpec => []OneCostEach
<1>1. CostsInv => OneCostEach
  BY DEF CostsInv
<1> QED
  BY <1>1, SpecInv, PTL

\* Whatever backfills are in flight while a rate is changed, what has been priced
\* since costs were last deleted has the price of the current catalog.
THEOREM Current == PricingSpec => []CostsAreCurrent
<1>1. CostsInv => CostsAreCurrent
  BY DEF CostsInv
<1> QED
  BY <1>1, SpecInv, PTL

\* For every page size, and wherever a backfill fails or the daemon ends, the
\* marker names the current version only if nothing is left to be priced
\* (backfillRetailCosts), unless backfills have overlapped.
THEOREM FinishedPriced == PricingSpec => []FinishedMeansPriced
<1>1. CostsInv /\ MarkerInv => FinishedMeansPriced
  <2>1. SUFFICES ASSUME CostsInv, MarkerInv, ~overlapped, marker = Version, NEW o \in Unpriced
                 PROVE  ~Priceable(o)
    BY DEF FinishedMeansPriced, NothingIsUnpriced
  <2>2. marker # Unfinished /\ marker.release = release /\ marker.rate = rate
    BY <2>1 DEF CostsInv, PricingTypeOK, Releases, Version, Unfinished
  <2> QED
    BY <2>1, <2>2 DEF MarkerInv, MarkerIsKept, Priceable
<1> QED
  BY <1>1, SpecInv, PTL

\* No rebuild deletes the cost of usage that has been compacted
\* (DELETE_DERIVED_RETAIL_COSTS_SQL).
THEOREM CompactedStay == PricingSpec => CompactedCostsStay
<1>1. ASSUME CostsInv, [PricingNext]_pricingVars, NEW c \in costs, c.of \in compacted
      PROVE  c \in costs'
  <2>1. c.of \notin stored
    BY <1>1 DEF CostsInv, Disjoint
  <2> QED
    BY <1>1, <2>1 DEF PricingNext, pricingVars, system, WorkerCommits, WorkerFails, SavePage, SavePageFails,
        EndInSavePage, StartRun, PriceNothing, RebuildPrices, EditRate, EditRateFails,
        SaveObservation, Compact, Restart, EndInEditRate
<1>2. CostsInv /\ [PricingNext]_pricingVars
      => [\A c \in costs : c.of \in compacted => c \in costs']_pricingVars
  BY <1>1
<1> QED
  BY <1>2, SpecInv, PTL DEF PricingSpec, CompactedCostsStay

-----------------------------------------------------------------------------
(* PriceLookup: the table of rates.                                         *)

\* A row of the table is the only one of its id, and of what it is for.
RowsAreSingle == \A r, s \in rates : r.id = s.id \/ r.key = s.key => r = s

\* The rate that is wanted is the one that the table has.
AskedIsStored ==
    \A k \in RateKeys :
        /\ \A row \in rates : row.key = k => asked[k] = row.rate
        /\ (\A row \in rates : row.key # k) => asked[k] = NoRate

\* No decision outlives the table that it was made by.
DecisionIsCurrent ==
    decision = NoDecision \/ \E o \in PricedUsage : decision = PriceOf(o)

LookupInv == LookupTypeOK /\ RowsAreSingle /\ AskedIsStored /\ DecisionIsCurrent

LEMMA DecisionsAre ==
    ASSUME NEW o
    PROVE  PriceOf(o).status \in {"priced", "unavailable"}
<1>1. \A reason : Unavailable(o, reason).status = "unavailable"
  BY DEF Unavailable
<1>2. \A e : PricedBy(o, e).status \in {"priced", "unavailable"}
  BY <1>1 DEF PricedBy
<1> QED
  BY <1>1, <1>2 DEF PriceOf

LEMMA SetKeepsLookup ==
    ASSUME LookupInv, NEW id \in RateIds, NEW key \in RateKeys, SetRate(id, key)
    PROVE  LookupInv'
<1> DEFINE byId  == {row \in rates : row.id = id}
           byKey == {row \in rates : row.key = key}
           at    == IF byId = {} /\ byKey # {} THEN (CHOOSE row \in byKey : TRUE).id ELSE id
           new   == [id |-> at, key |-> key, rate |-> rateChanges + 1]
<1>1. /\ rateChanges \in 0..MaxRateChanges /\ rateChanges < MaxRateChanges
      /\ MaxRateChanges \in Nat
      /\ rateChanges' = rateChanges + 1 /\ rateChanges + 1 \in 1..MaxRateChanges
  BY LookupAssumption DEF LookupInv, LookupTypeOK, SetRate
<1>2. rates' = (rates \ (byId \cup byKey)) \cup {new}
  BY DEF SetRate, StoredRate
<1>3. rates \subseteq [id : RateIds, key : RateKeys, rate : 1..MaxRateChanges]
  BY DEF LookupInv, LookupTypeOK
<1>4. /\ at \in RateIds
      /\ \A row \in rates \ (byId \cup byKey) : row.id # at /\ row.key # key
  <2>1. CASE byId = {} /\ byKey # {}
    <3>1. PICK kept : kept = CHOOSE row \in byKey : TRUE
      OBVIOUS
    <3>2. kept \in byKey
      BY <2>1, <3>1
    <3>3. at = kept.id
      BY <2>1, <3>1
    <3> HIDE DEF at
    <3> QED
      BY <1>3, <3>2, <3>3 DEF LookupInv, RowsAreSingle
  <2>2. CASE ~(byId = {} /\ byKey # {})
    BY <2>2
  <2> QED
    BY <2>1, <2>2
<1>5. new \in [id : RateIds, key : RateKeys, rate : 1..MaxRateChanges]
  BY <1>1, <1>4
<1> HIDE DEF at
<1>6. LookupTypeOK'
  <2>1. rates' \subseteq [id : RateIds, key : RateKeys, rate : 1..MaxRateChanges]
    BY <1>2, <1>3, <1>5
  <2>2. decision'.status = "none"
    BY DEF SetRate, NoDecision
  <2>3. asked' \in [RateKeys -> 0..MaxRateChanges]
    BY <1>1 DEF SetRate, LookupInv, LookupTypeOK, NoRate
  <2> QED
    BY <1>1, <2>1, <2>2, <2>3 DEF LookupTypeOK
<1>7. RowsAreSingle'
  BY <1>2, <1>4 DEF LookupInv, RowsAreSingle
<1>8. AskedIsStored'
  <2> SUFFICES ASSUME NEW k \in RateKeys
               PROVE  /\ \A row \in rates' : row.key = k => asked'[k] = row.rate
                      /\ (\A row \in rates' : row.key # k) => asked'[k] = NoRate
    BY DEF AskedIsStored, NoRate
  <2>1. asked'[k] = IF k = key THEN rateChanges + 1
                    ELSE IF \E row \in rates : row.id = id /\ row.key = k THEN NoRate
                    ELSE asked[k]
    BY DEF SetRate
  <2>2. CASE k = key
    <3>1. new \in rates' /\ new.key = key /\ new.rate = rateChanges + 1
      BY <1>2
    <3>2. \A row \in rates' : row.key = key => row = new
      BY <1>2, <1>4
    <3> HIDE DEF new
    <3> QED
      BY <2>1, <2>2, <3>1, <3>2
  <2>3. CASE k # key /\ \E row \in rates : row.id = id /\ row.key = k
    BY <1>2, <2>1, <2>3 DEF LookupInv, RowsAreSingle
  <2>4. CASE k # key /\ ~\E row \in rates : row.id = id /\ row.key = k
    <3>1. \A row : row.key = k => (row \in rates' <=> row \in rates)
      BY <1>2, <2>4
    <3> QED
      BY <2>1, <2>4, <3>1 DEF LookupInv, AskedIsStored
  <2> QED
    BY <2>2, <2>3, <2>4
<1>9. DecisionIsCurrent'
  BY DEF SetRate, DecisionIsCurrent, NoDecision
<1> QED
  BY <1>6, <1>7, <1>8, <1>9 DEF LookupInv

LEMMA DeleteKeepsLookup ==
    ASSUME LookupInv, NEW id \in RateIds, DeleteRate(id)
    PROVE  LookupInv'
<1>1. PICK row \in rates : /\ row.id = id
                           /\ rates' = rates \ {row}
                           /\ asked' = [asked EXCEPT ![row.key] = NoRate]
  BY DEF DeleteRate
<1>2. row.key \in RateKeys /\ asked \in [RateKeys -> 0..MaxRateChanges]
  BY DEF LookupInv, LookupTypeOK
<1>3. LookupTypeOK'
  <2>1. rateChanges' \in 0..MaxRateChanges
    BY LookupAssumption DEF LookupInv, LookupTypeOK, DeleteRate
  <2>2. decision'.status = "none"
    BY DEF DeleteRate, NoDecision
  <2>3. asked' \in [RateKeys -> 0..MaxRateChanges]
    BY <1>1, <1>2, LookupAssumption DEF NoRate
  <2> QED
    BY <1>1, <2>1, <2>2, <2>3 DEF LookupInv, LookupTypeOK
<1>4. RowsAreSingle'
  BY <1>1 DEF LookupInv, RowsAreSingle
<1>5. AskedIsStored'
  <2> SUFFICES ASSUME NEW k \in RateKeys
               PROVE  /\ \A r \in rates' : r.key = k => asked'[k] = r.rate
                      /\ (\A r \in rates' : r.key # k) => asked'[k] = NoRate
    BY DEF AskedIsStored, NoRate
  <2>1. asked'[k] = IF k = row.key THEN NoRate ELSE asked[k]
    BY <1>1, <1>2
  <2>2. CASE k = row.key
    BY <1>1, <2>1, <2>2 DEF LookupInv, RowsAreSingle
  <2>3. CASE k # row.key
    BY <1>1, <2>1, <2>3 DEF LookupInv, AskedIsStored
  <2> QED
    BY <2>2, <2>3
<1>6. DecisionIsCurrent'
  BY DEF DeleteRate, DecisionIsCurrent, NoDecision
<1> QED
  BY <1>3, <1>4, <1>5, <1>6 DEF LookupInv

LEMMA LookupIsKept == LookupInv /\ [LookupNext]_lookupVars => LookupInv'
<1> SUFFICES ASSUME LookupInv, [LookupNext]_lookupVars PROVE LookupInv'
  OBVIOUS
<1>1. ASSUME NEW o \in PricedUsage, Derive(o)
      PROVE  LookupInv'
  <2>1. decision' = PriceOf(o) /\ UNCHANGED <<rates, rateChanges, asked>>
    BY <1>1 DEF Derive
  <2>2. LookupTypeOK'
    BY <2>1, DecisionsAre DEF LookupInv, LookupTypeOK
  <2>3. RowsAreSingle' /\ AskedIsStored'
    BY <2>1 DEF LookupInv, RowsAreSingle, AskedIsStored
  <2>4. PriceOf(o)' = PriceOf(o) /\ PricedUsage' = PricedUsage
    <3>1. MergedCatalog' = MergedCatalog
      BY <2>1 DEF MergedCatalog
    <3>2. Candidates(o)' = Candidates(o)
      BY <3>1 DEF Candidates
    <3>3. Selected(o)' = Selected(o)
      BY <3>2 DEF Selected
    <3> QED
      BY <3>3 DEF PriceOf
  <2>5. DecisionIsCurrent'
    BY <2>1, <2>4 DEF DecisionIsCurrent
  <2> QED
    BY <2>2, <2>3, <2>5 DEF LookupInv
<1>2. CASE UNCHANGED lookupVars
  <2>1. UNCHANGED <<rates, decision, rateChanges, asked>>
    BY <1>2 DEF lookupVars
  <2>2. \A o : PriceOf(o)' = PriceOf(o)
    BY <2>1 DEF PriceOf, Selected, Candidates, MergedCatalog
  <2> QED
    BY <2>1, <2>2 DEF LookupInv, LookupTypeOK, RowsAreSingle, AskedIsStored, DecisionIsCurrent
<1> QED
  BY <1>1, <1>2, SetKeepsLookup, DeleteKeepsLookup DEF LookupNext

LEMMA LookupStarts == LookupInit => LookupInv
  BY LookupAssumption DEF LookupInit, LookupInv, LookupTypeOK, RowsAreSingle, AskedIsStored,
     DecisionIsCurrent, NoDecision, NoRate

\* custom_model_rates keeps rows of its type, and a decision has a status.
THEOREM LookupTypeCorrect == LookupSpec => []LookupTypeOK
<1>1. LookupInv => LookupTypeOK
  BY DEF LookupInv
<1> QED
  BY <1>1, LookupStarts, LookupIsKept, PTL DEF LookupSpec
-----------------------------------------------------------------------------
(* The forms of usage.                                                      *)

\* What the prices rest on, of the tokens of an observation.
LEMMA FormsAre ==
    ASSUME NEW f \in TokenForms
    PROVE  /\ f.tokens \in [Categories -> Nat] /\ f.separate \in SUBSET Categories
           /\ f.remainder = Unknown
           /\ f.reported # Unknown =>
                 f.reported = 3 /\ f.separate = Cache /\ f.tokens = PerMillion(1, 1, 0, 0, 0)
           /\ f.tokens["cacheWrite"] > 0 /\ f.oneHour # Unknown =>
                 /\ f.tokens["reasoning"] = 0 /\ f.tokens["cacheRead"] = 0
                 /\ "cacheWrite" \in f.separate
<1>1. PromptLimit \in Nat
  BY LookupAssumption
<1> QED
  BY <1>1 DEF TokenForms, Form, PerMillion, Categories, Cache, Unknown

Sources ==
    {<<"codex", "subscription", "gpt-alias">>, <<"claude-code", "subscription", "opus">>,
     <<"opencode", "local-history", "openai/gpt">>}

Routes == {<<"deepseek-official", "deepseek">>, <<"proxy", "deepseek">>, <<"proxy", "unknown">>}

LEMMA UsageIs ==
    ASSUME NEW o \in PricedUsage
    PROVE  /\ \E f \in TokenForms :
                 /\ o.tokens = f.tokens /\ o.separate = f.separate /\ o.reported = f.reported
                 /\ o.remainder = f.remainder /\ o.oneHour = f.oneHour
           /\ o.at \in 0..2 /\ o.domain # "*"
           /\ \/ \E s \in Sources :
                    o.provider = s[1] /\ o.domain = s[2] /\ o.model = s[3]
              \/ /\ o.at = 1 /\ o.provider = "dsh"
                 /\ \E s \in Routes : o.domain = s[1] /\ o.model = s[2]
  BY DEF PricedUsage, Told, Sources, Routes

-----------------------------------------------------------------------------
(* The entries.                                                             *)

OfCodex == {CodexEntry({"gpt", "gpt-alias"}, p, long) : p \in CodexPeriods, long \in BOOLEAN}
OfClaude == ClaudeEntry("opus", 1, 40, 100, 4)
OfDsh == {DshEntry("deepseek", inside, 10, 20, 1) : inside \in BOOLEAN}

LEMMA OfficialIs ==
    OfficialCatalog = OfCodex \cup {OfClaude} \cup OfDsh
                          \cup {LocalEntry(e) : e \in OfCodex \cup {OfClaude}}
<1>1. DirectCatalog = OfCodex \cup {OfClaude} \cup OfDsh
  BY DEF DirectCatalog, OfCodex, OfClaude, OfDsh
<1>2. \A e \in OfCodex \cup {OfClaude} : e.provider \in {"claude-code", "codex"}
  BY DEF OfCodex, OfClaude, CodexEntry, ClaudeEntry
<1>3. \A e \in OfDsh : e.provider \notin {"claude-code", "codex"}
  BY DEF OfDsh, DshEntry
<1>4. {e \in DirectCatalog : e.provider \in {"claude-code", "codex"}} = OfCodex \cup {OfClaude}
  BY <1>1, <1>2, <1>3
<1> QED
  BY <1>1, <1>4 DEF OfficialCatalog, LocalHistoryEntries

\* What the entries of Codex are, there and in the history of OpenCode.
LEMMA CodexEntriesAre ==
    ASSUME NEW e \in OfCodex
    PROVE  \E p \in CodexPeriods, long \in BOOLEAN :
               /\ e = CodexEntry({"gpt", "gpt-alias"}, p, long)
               /\ e.provider = "codex" /\ e.domain = "subscription" /\ ~e.custom
               /\ e.models = {"gpt", "gpt-alias"}
               /\ e.from = p.from /\ e.until = p.until
               /\ e.rule = IF long THEN PromptAbove(PromptLimit) ELSE PromptUpTo(PromptLimit)
               /\ e.writes = NoTiers
               /\ e.rates["input"] # Unknown /\ e.rates["output"] # Unknown
  BY DEF OfCodex, CodexEntry, CodexPeriods, PerMillion, Categories, Unknown

LEMMA ClaudeEntryIs ==
    /\ OfClaude.provider = "claude-code" /\ OfClaude.domain = "subscription"
    /\ ~OfClaude.custom /\ OfClaude.models = {"opus"} /\ OfClaude.rule = Always
    /\ OfClaude.rates["input"] # Unknown /\ OfClaude.rates["output"] # Unknown
  BY DEF OfClaude, ClaudeEntry, PerMillion, Categories, Unknown

LEMMA DshEntriesAre ==
    ASSUME NEW e \in OfDsh
    PROVE  \E inside \in BOOLEAN :
               /\ e = DshEntry("deepseek", inside, 10, 20, 1)
               /\ e.provider = "dsh" /\ e.domain = "deepseek-official" /\ ~e.custom
               /\ e.rule = Peak(inside) /\ e.models = {"deepseek"}
               /\ e.rates["input"] # Unknown /\ e.rates["output"] # Unknown
  BY DEF OfDsh, DshEntry, PerMillion, Categories, Unknown

LEMMA LocalEntriesAre ==
    ASSUME NEW e \in OfCodex \cup {OfClaude}
    PROVE  /\ LocalEntry(e).provider = "opencode" /\ LocalEntry(e).domain = "local-history"
           /\ LocalEntry(e).custom = e.custom /\ LocalEntry(e).rule = e.rule
           /\ LocalEntry(e).from = e.from /\ LocalEntry(e).until = e.until
           /\ LocalEntry(e).rates = e.rates /\ LocalEntry(e).writes = e.writes
           /\ LocalEntry(e).models = {LocalName(m) : m \in e.models}
  BY DEF OfCodex, OfClaude, LocalEntry, CodexEntry, ClaudeEntry

LEMMA OfficialEntriesAre ==
    ASSUME NEW e \in OfficialCatalog
    PROVE  ~e.custom /\ e.rates["input"] # Unknown /\ e.rates["output"] # Unknown
  BY OfficialIs, CodexEntriesAre, ClaudeEntryIs, DshEntriesAre, LocalEntriesAre

LEMMA CustomEntriesAre ==
    ASSUME LookupTypeOK, NEW row \in rates
    PROVE  /\ CustomEntry(row).custom /\ CustomEntry(row).provider = "dsh"
           /\ CustomEntry(row).models = {"deepseek"}
           /\ CustomEntry(row).domain = IF row.key.domain = None THEN "*" ELSE row.key.domain
           /\ CustomEntry(row).from = 0 /\ CustomEntry(row).until = Unknown
           /\ CustomEntry(row).rule = Always /\ CustomEntry(row).writes = NoTiers
           /\ CustomEntry(row).rates["input"] = row.rate
           /\ \A c \in Categories \ {"cacheWrite"} : CustomEntry(row).rates[c] # Unknown
           /\ CustomEntry(row).rates["cacheWrite"] = Unknown
<1>1. row.rate \in Nat /\ row.rate > 0 /\ row.key \in RateKeys
  BY LookupAssumption DEF LookupTypeOK
<1> QED
  BY <1>1 DEF CustomEntry, RateKeys, PerMillion, Categories, Unknown

-----------------------------------------------------------------------------
(* The selection.                                                           *)

LEMMA AskedIs ==
    ASSUME LookupInv, NEW k \in RateKeys
    PROVE  /\ asked[k] # NoRate <=> \E row \in rates : row.key = k
           /\ \A row \in rates : row.key = k => asked[k] = row.rate
<1>1. \A row \in rates : row.rate # NoRate
  BY LookupAssumption DEF LookupInv, LookupTypeOK, NoRate
<1> QED
  BY <1>1 DEF LookupInv, AskedIsStored

OfCatalog(o) ==
    {e \in OfficialCatalog : /\ e.provider = o.provider /\ o.model \in e.models
                             /\ e.domain = o.domain}

\* What a person wants for an observation is the only entry for it, and else the
\* official entries are.
LEMMA SelectionIs ==
    ASSUME LookupInv, NEW o \in PricedUsage
    PROVE  \/ /\ Wanted(o) # NoRate
              /\ \E row \in rates : Selected(o) = {CustomEntry(row)} /\ row.rate = Wanted(o)
           \/ Wanted(o) = NoRate /\ Selected(o) = OfCatalog(o)
<1> DEFINE own == {k \in RateKeys : /\ k.provider = o.provider /\ k.model = o.model
                                    /\ k.domain = o.domain /\ asked[k] # NoRate}
           any == {k \in RateKeys : /\ k.provider = o.provider /\ k.model = o.model
                                    /\ k.domain = None /\ asked[k] # NoRate}
           exact == {e \in Candidates(o) : e.custom /\ e.domain = o.domain}
           wide  == {e \in Candidates(o) : e.custom /\ e.domain = "*"}
<1>1. Wanted(o) = IF own # {} THEN asked[CHOOSE k \in own : TRUE]
                  ELSE IF any # {} THEN asked[CHOOSE k \in any : TRUE] ELSE NoRate
  BY DEF Wanted
<1>2. o.domain # "*" /\ o.domain # None
  BY UsageIs DEF Sources, Routes, None
<1>3. \A row \in rates : row.key \in RateKeys
  BY DEF LookupInv, LookupTypeOK
<1>4. \A e : e \in exact <=>
         \E row \in rates : /\ e = CustomEntry(row) /\ o.provider = "dsh"
                            /\ o.model = "deepseek" /\ row.key.domain = o.domain
  <2>1. ASSUME NEW e \in exact
        PROVE  \E row \in rates : /\ e = CustomEntry(row) /\ o.provider = "dsh"
                                  /\ o.model = "deepseek" /\ row.key.domain = o.domain
    <3>1. e \in MergedCatalog /\ e.custom /\ e.provider = o.provider /\ o.model \in e.models
      BY DEF Candidates
    <3>2. PICK row \in rates : e = CustomEntry(row)
      BY <3>1, OfficialEntriesAre DEF MergedCatalog
    <3> QED
      BY <1>2, <3>1, <3>2, CustomEntriesAre DEF LookupInv
  <2>2. ASSUME NEW row \in rates, o.provider = "dsh", o.model = "deepseek",
               row.key.domain = o.domain
        PROVE  CustomEntry(row) \in exact
    BY <1>2, <2>2, CustomEntriesAre DEF LookupInv, Candidates, MergedCatalog
  <2> QED
    BY <2>1, <2>2
<1>5. \A e : e \in wide <=>
         \E row \in rates : /\ e = CustomEntry(row) /\ o.provider = "dsh"
                            /\ o.model = "deepseek" /\ row.key.domain = None
  <2>1. ASSUME NEW e \in wide
        PROVE  \E row \in rates : /\ e = CustomEntry(row) /\ o.provider = "dsh"
                                  /\ o.model = "deepseek" /\ row.key.domain = None
    <3>1. e \in MergedCatalog /\ e.custom /\ e.provider = o.provider /\ o.model \in e.models
      BY DEF Candidates
    <3>2. PICK row \in rates : e = CustomEntry(row)
      BY <3>1, OfficialEntriesAre DEF MergedCatalog
    <3>3. row.key.domain \in {None, "proxy"}
      BY <1>3 DEF RateKeys
    <3> QED
      BY <3>1, <3>2, <3>3, CustomEntriesAre DEF LookupInv
  <2>2. ASSUME NEW row \in rates, o.provider = "dsh", o.model = "deepseek",
               row.key.domain = None
        PROVE  CustomEntry(row) \in wide
    BY <2>2, CustomEntriesAre DEF LookupInv, Candidates, MergedCatalog
  <2> QED
    BY <2>1, <2>2
<1>6. \A j, k \in RateKeys : j.domain = k.domain => j = k
  BY DEF RateKeys
<1>7. \A k \in RateKeys : k.provider = "dsh" /\ k.model = "deepseek"
  BY DEF RateKeys
<1>8. \A r, row \in rates : r.key.domain = row.key.domain => r = row
  BY <1>3, <1>6 DEF LookupInv, RowsAreSingle
<1>9. Selected(o) = IF exact # {} THEN exact ELSE IF wide # {} THEN wide ELSE OfCatalog(o)
  <2>1. {e \in Candidates(o) : ~e.custom /\ e.domain = o.domain} = OfCatalog(o)
    BY OfficialEntriesAre, CustomEntriesAre DEF Candidates, OfCatalog, MergedCatalog, LookupInv
  <2> QED
    BY <2>1 DEF Selected
<1> HIDE DEF exact, wide
<1>10. CASE own # {}
  <2>1. PICK k : k = CHOOSE j \in own : TRUE
    OBVIOUS
  <2>2. k \in own /\ Wanted(o) = asked[k]
    BY <1>1, <1>10, <2>1
  <2>3. PICK row \in rates : row.key = k /\ asked[k] = row.rate
    BY <2>2, AskedIs
  <2>4. exact = {CustomEntry(row)}
    BY <1>4, <1>7, <1>8, <2>2, <2>3
  <2> QED
    BY <1>9, <2>2, <2>3, <2>4
<1>11. CASE own = {} /\ any # {}
  <2>1. PICK k : k = CHOOSE j \in any : TRUE
    OBVIOUS
  <2>2. k \in any /\ Wanted(o) = asked[k]
    BY <1>1, <1>11, <2>1
  <2>3. PICK row \in rates : row.key = k /\ asked[k] = row.rate
    BY <2>2, AskedIs
  <2>4. wide = {CustomEntry(row)}
    BY <1>5, <1>7, <1>8, <2>2, <2>3
  <2>5. exact = {}
    BY <1>3, <1>4, <1>7, <1>11, AskedIs
  <2> QED
    BY <1>9, <2>2, <2>3, <2>4, <2>5
<1>12. CASE own = {} /\ any = {}
  <2>1. exact = {} /\ wide = {}
    BY <1>3, <1>4, <1>5, <1>7, <1>12, AskedIs
  <2> QED
    BY <1>1, <1>9, <1>12, <2>1
<1> QED
  BY <1>10, <1>11, <1>12

-----------------------------------------------------------------------------
(* The entry in force.                                                      *)

ActiveOf(entries, o) == {e \in entries : InForce(e, o.at) /\ IsOfTier(e.rule, o)}

LEMMA OneCodexEntry ==
    ASSUME NEW o, o.at \in Nat, Prompt(o) \in Int
    PROVE  /\ \A e, f \in ActiveOf(OfCodex, o) : e = f
           /\ \A e \in OfCodex : InForce(e, o.at) =>
                 \E f \in ActiveOf(OfCodex, o) : TRUE
<1>1. \A e \in OfCodex : \A long \in BOOLEAN :
         e.rule = (IF long THEN PromptAbove(PromptLimit) ELSE PromptUpTo(PromptLimit)) =>
            (IsOfTier(e.rule, o) <=> (long <=> Prompt(o) > PromptLimit))
  BY LookupAssumption DEF IsOfTier, PromptAbove, PromptUpTo, Always, Unknown
<1>2. \A p, q \in CodexPeriods :
         /\ o.at >= p.from /\ (p.until = Unknown \/ o.at < p.until)
         /\ o.at >= q.from /\ (q.until = Unknown \/ o.at < q.until)
         => p = q
  BY DEF CodexPeriods, Unknown
<1>3. \A e, f \in ActiveOf(OfCodex, o) : e = f
  BY <1>1, <1>2, CodexEntriesAre DEF ActiveOf, InForce
<1>4. ASSUME NEW e \in OfCodex, InForce(e, o.at)
      PROVE  \E f \in ActiveOf(OfCodex, o) : TRUE
  <2>1. PICK p \in CodexPeriods : e.from = p.from /\ e.until = p.until
    BY CodexEntriesAre
  <2>2. PICK long \in BOOLEAN : long <=> Prompt(o) > PromptLimit
    OBVIOUS
  <2> DEFINE f == CodexEntry({"gpt", "gpt-alias"}, p, long)
  <2>3. f \in OfCodex
    BY DEF OfCodex
  <2>4. /\ f.from = p.from /\ f.until = p.until
        /\ f.rule = IF long THEN PromptAbove(PromptLimit) ELSE PromptUpTo(PromptLimit)
    BY DEF CodexEntry
  <2> HIDE DEF f
  <2>5. InForce(f, o.at)
    BY <1>4, <2>1, <2>4 DEF InForce
  <2>6. IsOfTier(f.rule, o)
    BY <1>1, <2>2, <2>3, <2>4
  <2> QED
    BY <2>3, <2>5, <2>6 DEF ActiveOf
<1> QED
  BY <1>3, <1>4

\* Of the entries of one provider, one is active for usage that is told as it happens.
LEMMA OneOfficialEntry ==
    ASSUME NEW o \in PricedUsage
    PROVE  /\ \A e, f \in ActiveOf(OfCatalog(o), o) : e = f
           /\ \A e \in OfCatalog(o) : InForce(e, o.at) =>
                 \E f \in ActiveOf(OfCatalog(o), o) : TRUE
<1>1. o.at \in Nat /\ Prompt(o) \in Int
  <2>1. PICK form \in TokenForms : o.tokens = form.tokens
    BY UsageIs
  <2>2. o.tokens["input"] \in Nat /\ o.tokens["cacheRead"] \in Nat
    BY <2>1, FormsAre DEF Categories
  <2> QED
    BY <2>2, UsageIs DEF Prompt
<1>2. \A e \in OfficialCatalog : \/ e \in OfCodex \/ e = OfClaude \/ e \in OfDsh
                                 \/ \E x \in OfCodex \cup {OfClaude} : e = LocalEntry(x)
  BY OfficialIs
<1>3. CASE o.provider = "codex" /\ o.domain = "subscription" /\ o.model = "gpt-alias"
  <2>1. OfCatalog(o) = OfCodex
    <3>1. OfCodex \subseteq OfCatalog(o)
      BY <1>3, OfficialIs, CodexEntriesAre DEF OfCatalog
    <3>2. OfCatalog(o) \subseteq OfCodex
      BY <1>2, <1>3, ClaudeEntryIs, DshEntriesAre, LocalEntriesAre DEF OfCatalog
    <3> QED
      BY <3>1, <3>2
  <2> QED
    BY <1>1, <2>1, OneCodexEntry
<1>4. CASE o.provider = "claude-code" /\ o.domain = "subscription" /\ o.model = "opus"
  <2>1. OfCatalog(o) \subseteq {OfClaude}
    BY <1>2, <1>4, CodexEntriesAre, DshEntriesAre, LocalEntriesAre DEF OfCatalog
  <2>2. IsOfTier(OfClaude.rule, o)
    BY ClaudeEntryIs DEF IsOfTier, Always
  <2> QED
    BY <2>1, <2>2 DEF ActiveOf
<1>5. CASE o.provider = "opencode" /\ o.domain = "local-history" /\ o.model = "openai/gpt"
  <2>1. OfCatalog(o) = {LocalEntry(x) : x \in OfCodex}
    <3>1. ASSUME NEW x \in OfCodex
          PROVE  LocalEntry(x) \in OfCatalog(o)
      <4>1. LocalName("gpt") = "openai/gpt"
        BY DEF LocalName
      <4>2. "gpt" \in x.models
        BY CodexEntriesAre
      <4> QED
        BY <1>5, <4>1, <4>2, OfficialIs, LocalEntriesAre DEF OfCatalog
    <3>2. ASSUME NEW e \in OfCatalog(o)
          PROVE  \E x \in OfCodex : e = LocalEntry(x)
      <4>1. PICK x \in OfCodex \cup {OfClaude} : e = LocalEntry(x)
        BY <1>2, <1>5, CodexEntriesAre, ClaudeEntryIs, DshEntriesAre DEF OfCatalog
      <4>2. LocalName("opus") # "openai/gpt"
        BY DEF LocalName
      <4>3. x # OfClaude
        BY <1>5, <4>1, <4>2, LocalEntriesAre, ClaudeEntryIs DEF OfCatalog
      <4> QED
        BY <4>1, <4>3
    <3> QED
      BY <3>1, <3>2
  <2>2. \A x \in OfCodex : LocalEntry(x) \in ActiveOf(OfCatalog(o), o) <=> x \in ActiveOf(OfCodex, o)
    BY <2>1, LocalEntriesAre DEF ActiveOf, InForce
  <2>3. \A x \in OfCodex : InForce(LocalEntry(x), o.at) <=> InForce(x, o.at)
    BY LocalEntriesAre DEF InForce
  <2>4. ActiveOf(OfCatalog(o), o) \subseteq OfCatalog(o) /\ ActiveOf(OfCodex, o) \subseteq OfCodex
    BY DEF ActiveOf
  <2>5. ASSUME NEW e \in ActiveOf(OfCatalog(o), o), NEW f \in ActiveOf(OfCatalog(o), o)
        PROVE  e = f
    <3>1. PICK x \in OfCodex, y \in OfCodex : e = LocalEntry(x) /\ f = LocalEntry(y)
      BY <2>1, <2>4
    <3>2. x = y
      BY <1>1, <2>2, <3>1, OneCodexEntry
    <3> QED
      BY <3>1, <3>2
  <2>6. ASSUME NEW e \in OfCatalog(o), InForce(e, o.at)
        PROVE  \E f \in ActiveOf(OfCatalog(o), o) : TRUE
    <3>1. PICK x \in OfCodex : e = LocalEntry(x)
      BY <2>1
    <3>2. InForce(x, o.at)
      BY <2>3, <2>6, <3>1
    <3>3. PICK y \in ActiveOf(OfCodex, o) : TRUE
      BY <1>1, <3>2, OneCodexEntry
    <3> QED
      BY <2>2, <2>4, <3>3
  <2> QED
    BY <2>5, <2>6
<1>6. CASE o.provider = "dsh"
  <2>1. OfCatalog(o) \subseteq OfDsh
    BY <1>2, <1>6, CodexEntriesAre, ClaudeEntryIs, LocalEntriesAre DEF OfCatalog
  <2>2. \A e \in OfDsh : \A inside \in BOOLEAN :
           e.rule = Peak(inside) => (IsOfTier(e.rule, o) <=> (inside <=> InPeak(o)))
    BY DEF IsOfTier, Peak, Always, InPeak
  <2>3. \A e, f \in ActiveOf(OfCatalog(o), o) : e = f
    BY <2>1, <2>2, DshEntriesAre DEF ActiveOf
  <2>4. ASSUME NEW e \in OfCatalog(o), InForce(e, o.at)
        PROVE  \E f \in ActiveOf(OfCatalog(o), o) : TRUE
    <3>1. PICK inside \in BOOLEAN : inside <=> InPeak(o)
      OBVIOUS
    <3> DEFINE f == DshEntry("deepseek", inside, 10, 20, 1)
    <3>2. f \in OfDsh /\ f.rule = Peak(inside)
      BY DEF OfDsh, DshEntry
    <3>3. /\ f.provider = e.provider /\ f.domain = e.domain /\ f.models = e.models
          /\ f.from = e.from /\ f.until = e.until
      BY <2>1 DEF OfDsh, DshEntry
    <3> HIDE DEF f
    <3>4. f \in OfCatalog(o)
      BY <3>2, <3>3, OfficialIs DEF OfCatalog
    <3> QED
      BY <2>2, <2>4, <3>1, <3>2, <3>3, <3>4 DEF ActiveOf, InForce
  <2> QED
    BY <2>3, <2>4
<1> QED
  BY <1>3, <1>4, <1>5, <1>6, UsageIs DEF Sources

-----------------------------------------------------------------------------
(* The items of a price.                                                    *)

LEMMA CategoriesAreFinite ==
    /\ IsFiniteSet(Categories)
    /\ \A S \in SUBSET Categories : IsFiniteSet(S)
<1>1. IsFiniteSet({"input"})
  BY FS_Singleton
<1>2. IsFiniteSet({"input"} \cup {"output"})
  BY <1>1, FS_AddElement
<1>3. IsFiniteSet(({"input"} \cup {"output"}) \cup {"reasoning"})
  BY <1>2, FS_AddElement
<1>4. IsFiniteSet((({"input"} \cup {"output"}) \cup {"reasoning"}) \cup {"cacheRead"})
  BY <1>3, FS_AddElement
<1>5. IsFiniteSet(((({"input"} \cup {"output"}) \cup {"reasoning"}) \cup {"cacheRead"})
                      \cup {"cacheWrite"})
  BY <1>4, FS_AddElement
<1>6. Categories = ((({"input"} \cup {"output"}) \cup {"reasoning"}) \cup {"cacheRead"})
                       \cup {"cacheWrite"}
  BY DEF Categories
<1>7. IsFiniteSet(Categories)
  BY <1>5, <1>6
<1> QED
  BY <1>7, FS_Subset

Counted(o) == {"input", "output"} \cup o.separate

LEMMA TokensAre ==
    ASSUME NEW o \in PricedUsage
    PROVE  /\ \A c \in Categories : o.tokens[c] \in Nat
           /\ Counted(o) \in SUBSET Categories
           /\ o.remainder = Unknown
           /\ \A c \in Categories : Billable(o, c) \in Nat
           /\ \A c \in Categories : Billable(o, c) > 0 => Billable(o, c) = o.tokens[c]
           /\ \A c \in Counted(o) : Billable(o, c) = o.tokens[c]
           /\ \A c \in Categories \ Counted(o) : Billable(o, c) = 0
           /\ o.reported # Unknown =>
                 o.reported = 3 /\ o.separate = Cache /\ o.tokens = PerMillion(1, 1, 0, 0, 0)
           /\ o.tokens["cacheWrite"] > 0 /\ o.oneHour # Unknown =>
                 /\ o.tokens["reasoning"] = 0 /\ o.tokens["cacheRead"] = 0
                 /\ "cacheWrite" \in o.separate
<1>1. PICK f \in TokenForms :
          /\ o.tokens = f.tokens /\ o.separate = f.separate /\ o.reported = f.reported
          /\ o.remainder = f.remainder /\ o.oneHour = f.oneHour
  BY UsageIs
<1>2. /\ o.tokens \in [Categories -> Nat] /\ o.separate \in SUBSET Categories
      /\ o.remainder = Unknown
      /\ o.reported # Unknown =>
            o.reported = 3 /\ o.separate = Cache /\ o.tokens = PerMillion(1, 1, 0, 0, 0)
      /\ o.tokens["cacheWrite"] > 0 /\ o.oneHour # Unknown =>
            /\ o.tokens["reasoning"] = 0 /\ o.tokens["cacheRead"] = 0
            /\ "cacheWrite" \in o.separate
  BY <1>1, FormsAre
<1>3. Counted(o) \in SUBSET Categories
  BY <1>2 DEF Counted, Categories
<1> QED
  BY <1>2, <1>3 DEF Billable, Counted

LEMMA CategorizedIs ==
    ASSUME NEW o \in PricedUsage
    PROVE  Categorized(o) = Sum(o.tokens, Counted(o)) /\ Categorized(o) \in Nat
<1> DEFINE f == [c \in Counted(o) |-> o.tokens[c]]
<1>1. IsFiniteSet(Counted(o)) /\ \A c \in Counted(o) : o.tokens[c] \in Nat
  BY TokensAre, CategoriesAreFinite
<1>2. Categorized(o) = SumFunction(f)
  BY DEF Categorized, Counted
<1>3. DOMAIN f = Counted(o) /\ Agree(f, o.tokens, Counted(o))
  BY DEF Agree
<1> HIDE DEF f
<1>4. Categorized(o) = Sum(f, Counted(o))
  BY <1>2, <1>3, SumOfFunction
<1>5. Sum(f, Counted(o)) = Sum(o.tokens, Counted(o))
  BY <1>1, <1>3, SumCongruent
<1>6. Sum(o.tokens, Counted(o)) \in Nat
  BY <1>1, SumNat
<1> QED
  BY <1>4, <1>5, <1>6

\* Usage without a remainder is all in its categories.
LEMMA RecordedIs ==
    ASSUME NEW o \in PricedUsage, IsAttributed(o), Unclassified(o) = 0
    PROVE  Recorded(o) = Categorized(o)
<1>1. Categorized(o) \in Nat
  BY CategorizedIs
<1>2. CASE o.reported = Unknown
  BY <1>2, TokensAre DEF Recorded
<1>3. CASE o.reported # Unknown
  <2>1. o.reported = 3 /\ o.separate = Cache /\ o.tokens = PerMillion(1, 1, 0, 0, 0)
    BY <1>3, TokensAre
  <2>2. PICK a, b, tokens : a = "input" /\ b = "output" /\ tokens = o.tokens
    OBVIOUS
  <2>3. tokens[a] = 1 /\ tokens[b] = 1 /\ tokens["cacheRead"] = 0 /\ tokens["cacheWrite"] = 0
    BY <2>1, <2>2 DEF PerMillion, Categories
  <2>4. a # b /\ Counted(o) = {a, b, "cacheRead", "cacheWrite"}
    BY <2>1, <2>2 DEF Counted, Cache
  <2>5. Sum(tokens, Counted(o)) = Sum(tokens, {a, b})
    <3>1. \A c \in Counted(o) : tokens[c] \in Int
      BY <2>3, <2>4
    <3>2. \A c \in Counted(o) \ {a, b} : tokens[c] = 0
      BY <2>3, <2>4
    <3>3. IsFiniteSet(Counted(o)) /\ {a, b} \in SUBSET Counted(o)
      BY <2>4, TokensAre, CategoriesAreFinite
    <3> QED
      BY <3>1, <3>2, <3>3, SumOfSome DEF IsOfInts
  <2>6. Sum(tokens, {a, b}) = 2
    <3>1. Sum(tokens, {a}) = 1
      BY <2>3, SumOfOne
    <3>2. IsFiniteSet({a}) /\ b \notin {a}
      BY <2>4, FS_Singleton
    <3>3. IsOfInts(tokens, {a} \cup {b})
      BY <2>3 DEF IsOfInts
    <3>4. Sum(tokens, {a} \cup {b}) = tokens[b] + Sum(tokens, {a})
      BY <3>2, <3>3, SumWith
    <3>5. {a} \cup {b} = {a, b}
      OBVIOUS
    <3> QED
      BY <2>3, <3>1, <3>4, <3>5
  <2>7. Categorized(o) = 2
    BY <2>2, <2>5, <2>6, CategorizedIs
  <2> QED
    BY <1>3, <2>1, <2>7 DEF Unclassified, AtLeastZero, Recorded
<1> QED
  BY <1>2, <1>3

LEMMA ItemTokensAre ==
    ASSUME NEW items
    PROVE  ItemTokens(items) = Sum([i \in items |-> i.tokens], items)
<1> DEFINE f == [i \in items |-> i.tokens]
<1>1. ItemTokens(items) = SumFunction(f) /\ DOMAIN f = items
  BY DEF ItemTokens
<1> HIDE DEF f
<1>2. ItemTokens(items) = Sum(f, items)
  BY <1>1, SumOfFunction
<1> QED
  BY <1>2 DEF f

\* A category is in a price once, with the tokens that it does not share.
LEMMA ItemsOfACategory ==
    ASSUME NEW o \in PricedUsage, NEW e, NEW c \in Categories \ {"cacheWrite"}
    PROVE  ItemTokens({i \in LineItems(o, e) : i.category = c}) = Billable(o, c)
<1>1. c # "5m" /\ c # "1h"
  BY DEF Categories
<1>2. \A i \in LineItems(o, e) : i.category = c =>
         c \in AtARate(o, e) /\ i = Item(c, o.tokens[c], e.rates[c])
  BY <1>1 DEF LineItems, Item
<1>3. c \in AtARate(o, e) => Item(c, o.tokens[c], e.rates[c]) \in LineItems(o, e)
  BY DEF LineItems
<1>4. c \in AtARate(o, e) <=> Billable(o, c) > 0
  BY DEF AtARate
<1>5. CASE Billable(o, c) > 0
  <2>1. PICK item : item = Item(c, o.tokens[c], e.rates[c])
    OBVIOUS
  <2>2. item.category = c /\ item.tokens = Billable(o, c) /\ item.tokens \in Int
    BY <1>5, <2>1, TokensAre DEF Item
  <2>3. {i \in LineItems(o, e) : i.category = c} = {item}
    BY <1>2, <1>3, <1>4, <1>5, <2>1, <2>2
  <2>4. PICK w : w = [i \in {item} |-> i.tokens]
    OBVIOUS
  <2>5. w[item] = item.tokens
    BY <2>4
  <2>6. Sum(w, {item}) = item.tokens
    BY <2>2, <2>5, SumOfOne
  <2>7. ItemTokens({item}) = item.tokens
    BY <2>4, <2>6, ItemTokensAre
  <2> QED
    BY <2>2, <2>3, <2>7
<1>6. CASE ~(Billable(o, c) > 0)
  <2>1. {i \in LineItems(o, e) : i.category = c} = {}
    BY <1>2, <1>4, <1>6
  <2>2. ItemTokens({}) = 0
    BY ItemTokensAre, SumOfNone
  <2>3. Billable(o, c) = 0
    BY <1>6, TokensAre
  <2> QED
    BY <2>1, <2>2, <2>3
<1> QED
  BY <1>5, <1>6

\* By an entry without tiers and without a rate for writes, all categories are priced.
LEMMA ItemsAddUp ==
    ASSUME NEW o \in PricedUsage, NEW e, e.writes = NoTiers, e.rates["cacheWrite"] = Unknown
    PROVE  ItemTokens(LineItems(o, e)) = Categorized(o)
<1> DEFINE billed == {c \in Categories : Billable(o, c) > 0}
           g == [c \in Categories |->
                    Item(c, o.tokens[c], IF c = "cacheWrite" THEN 0 ELSE e.rates[c])]
           items == LineItems(o, e)
           w == [i \in items |-> i.tokens]
<1>1. ~WritesByTier(o, e) /\ (WritesAreFree(o, e) <=> Billable(o, "cacheWrite") > 0)
  BY DEF WritesByTier, WritesAreFree
<1>2. AtARate(o, e) = billed \ {"cacheWrite"}
  BY <1>1 DEF AtARate
<1>3. "cacheWrite" \in Categories
  BY DEF Categories
<1>4. items = {g[c] : c \in billed}
  BY <1>1, <1>2, <1>3 DEF LineItems
<1>5. billed \in SUBSET Categories /\ IsFiniteSet(billed)
  BY CategoriesAreFinite
<1>6. AreDistinct(g, billed)
  BY DEF AreDistinct, Item
<1>7. \A c \in billed : g[c].tokens = o.tokens[c] /\ o.tokens[c] \in Int
  BY TokensAre DEF Item
<1>8. \A c \in billed : o.tokens[c] = w[g[c]] /\ o.tokens[c] \in Int
  BY <1>4, <1>7
<1>9. ItemTokens(items) = Sum(w, items)
  BY ItemTokensAre
<1>10. billed \in SUBSET Counted(o) /\ \A c \in Counted(o) \ billed : o.tokens[c] = 0
  BY TokensAre
<1>11. IsFiniteSet(Counted(o)) /\ IsOfInts(o.tokens, Counted(o))
  BY TokensAre, CategoriesAreFinite DEF IsOfInts
<1> HIDE DEF billed, g, items, w
<1>12. PICK tokens : tokens = o.tokens
  OBVIOUS
<1>13. Sum(w, {g[c] : c \in billed}) = Sum(tokens, billed)
  BY <1>5, <1>6, <1>8, <1>12, SumOfImage
<1>14. Sum(tokens, Counted(o)) = Sum(tokens, billed)
  BY <1>10, <1>11, <1>12, SumOfSome
<1> QED
  BY <1>4, <1>9, <1>12, <1>13, <1>14, CategorizedIs DEF items

-----------------------------------------------------------------------------
(* The price.                                                               *)

LEMMA PriceIs ==
    ASSUME NEW o
    PROVE  LET inForce == {e \in Selected(o) : InForce(e, o.at)}
               active  == ActiveOf(Selected(o), o)
           IN  \/ ~IsAttributed(o) /\ PriceOf(o) = Unavailable(o, "model-unclassified")
               \/ Selected(o) = {} /\ PriceOf(o) = Unavailable(o, "model-unrecognized")
               \/ inForce = {} /\ PriceOf(o) = Unavailable(o, "price-not-effective")
               \/ /\ inForce # {}
                  /\ (\E e \in inForce : ~TierIsTold(e.rule, o)) \/ Cardinality(active) # 1
                  /\ PriceOf(o) = Unavailable(o, "pricing-tier-ambiguous")
               \/ Unclassified(o) > 0 /\ PriceOf(o) = Unavailable(o, "token-kinds-incomplete")
               \/ \E e \in active : PriceOf(o) = PricedBy(o, e)
<1> DEFINE inForce == {e \in Selected(o) : InForce(e, o.at)}
           active  == {e \in inForce : IsOfTier(e.rule, o)}
<1>1. active = ActiveOf(Selected(o), o)
  BY DEF ActiveOf
<1>2. Cardinality(active) = 1 => (CHOOSE e \in active : TRUE) \in active
  BY FS_EmptySet
<1> QED
  BY <1>1, <1>2 DEF PriceOf

\* A rate prices whatever is all in its categories.
LEMMA CustomIsPriced ==
    ASSUME LookupInv, NEW o \in PricedUsage, NEW row \in rates,
           Selected(o) = {CustomEntry(row)}, IsAttributed(o), Unclassified(o) = 0
    PROVE  PriceOf(o).status = "priced" /\ PriceOf(o).entry = CustomEntry(row)
<1> DEFINE x == CustomEntry(row)
<1>1. /\ x.from = 0 /\ x.until = Unknown /\ x.rule = Always /\ x.writes = NoTiers
      /\ \A c \in Categories \ {"cacheWrite"} : x.rates[c] # Unknown
      /\ x.rates["cacheWrite"] = Unknown
  BY CustomEntriesAre DEF LookupInv
<1> HIDE DEF x
<1>2. InForce(x, o.at) /\ IsOfTier(x.rule, o) /\ TierIsTold(x.rule, o)
  BY <1>1, UsageIs DEF InForce, IsOfTier, TierIsTold, Always
<1>3. {e \in Selected(o) : InForce(e, o.at)} = {x} /\ ActiveOf(Selected(o), o) = {x}
  BY <1>2 DEF ActiveOf, x
<1>4. Cardinality({x}) = 1
  BY FS_Singleton
<1>5. PriceOf(o) = PricedBy(o, x)
  <2>1. ~(Unclassified(o) > 0)
    OBVIOUS
  <2>2. Selected(o) # {}
    OBVIOUS
  <2> QED
    BY <1>2, <1>3, <1>4, <2>1, <2>2, PriceIs
<1>6. ~\E c \in AtARate(o, x) : x.rates[c] = Unknown
  BY <1>1 DEF AtARate, WritesByTier, WritesAreFree
<1>7. ItemTokens(LineItems(o, x)) = Recorded(o)
  BY <1>1, ItemsAddUp, RecordedIs
<1>8. PricedBy(o, x).status = "priced" /\ PricedBy(o, x).entry = x
  BY <1>6, <1>7 DEF PricedBy
<1> QED
  BY <1>5, <1>8 DEF x

\* A price is of a selected entry and of all tokens.
LEMMA PricedIs ==
    ASSUME NEW o, PriceOf(o).status = "priced"
    PROVE  \E e \in Selected(o) :
               /\ PriceOf(o).entry = e /\ PriceOf(o).items = LineItems(o, e)
               /\ ItemTokens(LineItems(o, e)) = Recorded(o)
<1>1. \A reason : Unavailable(o, reason).status # "priced"
  BY DEF Unavailable
<1>2. PICK e \in ActiveOf(Selected(o), o) : PriceOf(o) = PricedBy(o, e)
  BY <1>1, PriceIs
<1>3. /\ PricedBy(o, e).entry = e /\ PricedBy(o, e).items = LineItems(o, e)
      /\ ItemTokens(LineItems(o, e)) = Recorded(o)
  BY <1>1, <1>2 DEF PricedBy
<1> QED
  BY <1>2, <1>3 DEF ActiveOf

\* Usage of a known time is of one tier.
LEMMA OneIsActive ==
    ASSUME LookupInv, NEW o \in PricedUsage, NEW e \in Selected(o), InForce(e, o.at)
    PROVE  Cardinality(ActiveOf(Selected(o), o)) = 1
<1>1. CASE \E row \in rates : Selected(o) = {CustomEntry(row)}
  <2>1. PICK row \in rates : Selected(o) = {CustomEntry(row)}
    BY <1>1
  <2>2. e = CustomEntry(row) /\ e.rule = Always
    BY <2>1, CustomEntriesAre DEF LookupInv
  <2>3. ActiveOf(Selected(o), o) = {e}
    BY <2>1, <2>2 DEF ActiveOf, IsOfTier, Always
  <2> QED
    BY <2>3, FS_Singleton
<1>2. CASE Selected(o) = OfCatalog(o)
  <2>1. PICK f \in ActiveOf(Selected(o), o) : TRUE
    BY <1>2, OneOfficialEntry
  <2>2. ActiveOf(Selected(o), o) = {f}
    BY <1>2, <2>1, OneOfficialEntry
  <2> QED
    BY <2>2, FS_Singleton
<1> QED
  BY <1>1, <1>2, SelectionIs

LEMMA AmbiguousIs ==
    ASSUME LookupInv, NEW o \in PricedUsage, PriceOf(o).reason = "pricing-tier-ambiguous",
           o.precision = "event", o.temporality = "delta"
    PROVE  o.tokens["cacheWrite"] > 0 /\ o.oneHour = Unknown
<1>1. \A reason : Unavailable(o, reason).reason = reason
  BY DEF Unavailable
<1>2. \A rule : TierIsTold(rule, o)
  BY DEF TierIsTold
<1>3. PICK e \in ActiveOf(Selected(o), o) : PriceOf(o) = PricedBy(o, e)
  <2>1. ~(/\ {e \in Selected(o) : InForce(e, o.at)} # {}
          /\ Cardinality(ActiveOf(Selected(o), o)) # 1)
    BY OneIsActive
  <2> QED
    BY <1>1, <1>2, <2>1, PriceIs
<1>4. /\ \E c \in AtARate(o, e) : e.rates[c] = Unknown
      /\ o.tokens["cacheWrite"] > 0 /\ ~WritesAreFree(o, e)
  BY <1>1, <1>3 DEF PricedBy, None
<1>5. PICK c \in AtARate(o, e) : e.rates[c] = Unknown
  BY <1>4
<1>6. e.rates["input"] # Unknown /\ e.rates["output"] # Unknown
  <2>1. e \in Selected(o)
    BY DEF ActiveOf
  <2>2. CASE \E row \in rates : Selected(o) = {CustomEntry(row)}
    BY <2>1, <2>2, CustomEntriesAre DEF LookupInv, Categories
  <2>3. CASE Selected(o) = OfCatalog(o)
    BY <2>1, <2>3, OfficialEntriesAre DEF OfCatalog
  <2> QED
    BY <2>2, <2>3, SelectionIs
<1>7. ASSUME o.oneHour # Unknown PROVE FALSE
  <2>1. /\ o.tokens["reasoning"] = 0 /\ o.tokens["cacheRead"] = 0
        /\ Billable(o, "cacheWrite") > 0
    BY <1>4, <1>7, TokensAre DEF Billable
  <2>2. c \in Categories /\ Billable(o, c) > 0
        /\ (c = "cacheWrite" => ~WritesByTier(o, e))
    BY DEF AtARate
  <2>3. c \notin {"reasoning", "cacheRead"}
    BY <2>1, <2>2, TokensAre
  <2>4. c = "cacheWrite"
    BY <1>5, <1>6, <2>2, <2>3 DEF Categories
  <2>5. e.writes = NoTiers /\ ~WritesByTier(o, e)
    BY <1>7, <2>1, <2>2, <2>4 DEF WritesByTier
  <2> QED
    BY <1>4, <1>5, <2>1, <2>4, <2>5 DEF WritesAreFree
<1> QED
  BY <1>4, <1>7

LEMMA UsageIsPricedOnce == LookupInv => UsageHasItsOnePrice
<1> SUFFICES ASSUME LookupInv, decision.status # "none"
             PROVE  LET o == decision.of
                    IN  /\ Wanted(o) # NoRate /\ IsAttributed(o) /\ Unclassified(o) = 0 =>
                              /\ decision.status = "priced"
                              /\ decision.entry.custom
                              /\ decision.entry.rates["input"] = Wanted(o)
                        /\ decision.status = "priced" =>
                              /\ decision.entry.custom <=> Wanted(o) # NoRate
                              /\ ItemTokens(decision.items) = Recorded(o)
                              /\ \A c \in Categories \ {"cacheWrite"} :
                                    ItemTokens({i \in decision.items : i.category = c})
                                        = Billable(o, c)
                        /\ decision.reason = "pricing-tier-ambiguous" =>
                              \/ o.precision # "event" \/ o.temporality # "delta"
                              \/ o.tokens["cacheWrite"] > 0 /\ o.oneHour = Unknown
  BY DEF UsageHasItsOnePrice
<1>1. PICK o \in PricedUsage : decision = PriceOf(o)
  BY DEF LookupInv, DecisionIsCurrent, NoDecision
<1>2. decision.of = o
  <2>1. \A reason : Unavailable(o, reason).of = o
    BY DEF Unavailable
  <2>2. \A e : PricedBy(o, e).of = o
    BY <2>1 DEF PricedBy
  <2> QED
    BY <1>1, <2>1, <2>2, PriceIs
<1>3. ASSUME Wanted(o) # NoRate, IsAttributed(o), Unclassified(o) = 0
      PROVE  /\ decision.status = "priced"
             /\ decision.entry.custom /\ decision.entry.rates["input"] = Wanted(o)
  <2>1. PICK row \in rates : Selected(o) = {CustomEntry(row)} /\ row.rate = Wanted(o)
    BY <1>3, SelectionIs
  <2> QED
    BY <1>1, <1>3, <2>1, CustomIsPriced, CustomEntriesAre DEF LookupInv
<1>4. ASSUME decision.status = "priced"
      PROVE  /\ decision.entry.custom <=> Wanted(o) # NoRate
             /\ ItemTokens(decision.items) = Recorded(o)
             /\ \A c \in Categories \ {"cacheWrite"} :
                   ItemTokens({i \in decision.items : i.category = c}) = Billable(o, c)
  <2>1. PICK e \in Selected(o) : /\ decision.entry = e /\ decision.items = LineItems(o, e)
                                 /\ ItemTokens(LineItems(o, e)) = Recorded(o)
    BY <1>1, <1>4, PricedIs
  <2>2. e.custom <=> Wanted(o) # NoRate
    <3>1. CASE Wanted(o) # NoRate
      BY <2>1, <3>1, SelectionIs, CustomEntriesAre DEF LookupInv
    <3>2. CASE Wanted(o) = NoRate
      BY <2>1, <3>2, SelectionIs, OfficialEntriesAre DEF OfCatalog
    <3> QED
      BY <3>1, <3>2
  <2> QED
    BY <2>1, <2>2, ItemsOfACategory
<1>5. ASSUME decision.reason = "pricing-tier-ambiguous"
      PROVE  \/ o.precision # "event" \/ o.temporality # "delta"
             \/ o.tokens["cacheWrite"] > 0 /\ o.oneHour = Unknown
  BY <1>1, <1>5, AmbiguousIs
<1> QED
  BY <1>2, <1>3, <1>4, <1>5

\* Usage costs what was asked for last, and by one entry of the catalog.
THEOREM UsageHasOnePrice == LookupSpec => []UsageHasItsOnePrice
  BY UsageIsPricedOnce, LookupStarts, LookupIsKept, PTL DEF LookupSpec
=============================================================================
