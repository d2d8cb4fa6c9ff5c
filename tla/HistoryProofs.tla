---------------------------- MODULE HistoryProofs ----------------------------
(***************************************************************************)
(* Proofs about the history that is stored: what Retention deletes, for    *)
(* any sources, day length, term and time; what CodexDays promises of the  *)
(* days it shows, for any number of days, rows and tokens; and what a read *)
(* of Transcripts tells, for any scripts, files, models and reads.         *)
(***************************************************************************)
EXTENDS Retention, CodexDays, Transcripts, FiniteSetTheorems, SequenceTheorems, Sums, TLAPS

-----------------------------------------------------------------------------
(* Retention.                                                               *)

\* What has been compacted is older than the term, and stays so.
AggregatesAreOld == \A r \in aggregate : r.at < Cutoff

\* The inductive invariant.
RowsInv == TypeOK /\ AggregatesAreOld /\ RowsAreCountedOnce

\* The instants of the model are numbers.
LEMMA Instants ==
    ASSUME TypeOK
    PROVE  /\ now \in Int
           /\ Cutoff \in Int
           /\ Cutoff <= now
           /\ \A r \in Rows : r.at \in Int
  BY TimeAssumption DEF TypeOK, Cutoff, Rows

\* What is used now is a row, and not an old one.
LEMMA UsedNow ==
    ASSUME TypeOK, NEW source \in Sources
    PROVE  /\ Used(source) \in Rows
           /\ Used(source).source = source
           /\ Used(source).at = now
  BY DEF TypeOK, Used, Rows

LEMMA InitRowsInv == Init => RowsInv
  BY TimeAssumption DEF Init, RowsInv, TypeOK, AggregatesAreOld, RowsAreCountedOnce

LEMMA NextRowsInv == RowsInv /\ [Next]_vars => RowsInv'
<1> SUFFICES ASSUME RowsInv, [Next]_vars PROVE RowsInv'
  OBVIOUS
<1> USE DEF RowsInv
<1>0. /\ now \in Int /\ Cutoff \in Int /\ Cutoff <= now
      /\ \A r \in Rows : r.at \in Int
  BY Instants
<1>1. CASE TimePasses
  <2>1. TypeOK'
    BY <1>1, TimeAssumption DEF TimePasses, TypeOK
  <2>2. Cutoff' = Cutoff + 1
    BY <1>0, <1>1, TimeAssumption DEF TimePasses, Cutoff, TypeOK
  <2>3. AggregatesAreOld'
    BY <1>0, <1>1, <2>2 DEF TimePasses, AggregatesAreOld, TypeOK
  <2>4. RowsAreCountedOnce'
    BY <1>1 DEF TimePasses, RowsAreCountedOnce
  <2> QED
    BY <2>1, <2>3, <2>4
<1>2. CASE \/ \E source \in Sources : WriteHistory(source)
           \/ \E row \in disk : RemoveHistory(row)
  <2>1. TypeOK' /\ UNCHANGED <<now, raw, aggregate>>
    BY <1>2, UsedNow DEF WriteHistory, RemoveHistory, TypeOK, Reread
  <2> QED
    BY <2>1 DEF AggregatesAreOld, RowsAreCountedOnce, Cutoff
<1>3. CASE IngestTelemetry
  <2>1. /\ Used("telemetry") \in Rows
        /\ Used("telemetry").at = now
        /\ raw' = raw \cup {Used("telemetry")}
        /\ UNCHANGED <<now, disk, aggregate>>
    BY <1>3, UsedNow DEF IngestTelemetry
  <2>2. Used("telemetry") \notin aggregate
    BY <1>0, <2>1 DEF AggregatesAreOld
  <2> QED
    BY <2>1, <2>2 DEF TypeOK, AggregatesAreOld, RowsAreCountedOnce, Cutoff
<1>4. ASSUME NEW source \in Reread, NEW unread \in SUBSET Told(source), SaveSnapshot(source, unread)
      PROVE  RowsInv'
  <2>1. /\ raw' \subseteq raw \cup Told(source)
        /\ UNCHANGED <<now, disk, aggregate>>
    BY <1>4 DEF SaveSnapshot
  <2>2. \A r \in Told(source) : r \in Rows /\ (r.source = "database" \/ r \notin aggregate)
    BY <1>0 DEF Told, Lookback, TypeOK, AggregatesAreOld
  <2> QED
    BY <2>1, <2>2 DEF TypeOK, AggregatesAreOld, RowsAreCountedOnce, Cutoff
<1>5. CASE CompactUsageHistory
  <2> DEFINE old == {r \in raw : r.at < Cutoff}
  <2>1. /\ aggregate' \subseteq old \cup aggregate
        /\ raw' = raw \ old
        /\ UNCHANGED <<now, disk>>
    BY <1>5 DEF CompactUsageHistory
  <2>2. AggregatesAreOld'
    BY <2>1 DEF AggregatesAreOld, Cutoff
  <2>3. RowsAreCountedOnce'
    BY <2>1 DEF RowsAreCountedOnce
  <2> QED
    BY <2>1, <2>2, <2>3 DEF TypeOK
<1>6. CASE ClearUsageData
  BY <1>6 DEF ClearUsageData, TypeOK, AggregatesAreOld, RowsAreCountedOnce
<1>7. CASE UNCHANGED vars
  BY <1>7 DEF vars, TypeOK, AggregatesAreOld, RowsAreCountedOnce, Cutoff
<1> QED
  BY <1>1, <1>2, <1>3, <1>4, <1>5, <1>6, <1>7 DEF Next

LEMMA SpecRowsInv == Spec => []RowsInv
  BY InitRowsInv, NextRowsInv, PTL DEF Spec

-----------------------------------------------------------------------------
(* The theorems.                                                            *)

\* Every state is of its type.
THEOREM RowsTypeCorrect == Spec => []TypeOK
<1>1. RowsInv => TypeOK
  BY DEF RowsInv
<1> QED
  BY <1>1, SpecRowsInv, PTL

\* Whatever the term and the length of a day, no transcript or telemetry row is
\* counted both as a row and in an aggregate (readUsage, compactUsageHistory).
THEOREM CountedOnce == Spec => []RowsAreCountedOnce
<1>1. RowsInv => RowsAreCountedOnce
  BY DEF RowsInv
<1> QED
  BY <1>1, SpecRowsInv, PTL

\* No row is deleted but into its aggregate, by a reading of its source that
\* does not tell it, or by clearing (compactUsageHistory, saveSnapshot).
THEOREM LeavesIntoAggregate == Spec => RowsLeaveIntoTheirAggregate
<1>1. ASSUME Next, aggregate' \cup raw' # {}, NEW r \in raw \ raw'
      PROVE  r \in aggregate' \/ (r.source \in Reread /\ r \notin Told(r.source))
  <2>1. CASE CompactUsageHistory
    BY <1>1, <2>1 DEF CompactUsageHistory
  <2>2. ASSUME NEW source \in Reread, NEW unread \in SUBSET Told(source), SaveSnapshot(source, unread)
        PROVE  r.source \in Reread /\ r \notin Told(r.source)
    BY <1>1, <2>2 DEF SaveSnapshot
  <2>3. CASE ClearUsageData
    BY <1>1, <2>3 DEF ClearUsageData
  <2> QED
    BY <1>1, <2>1, <2>2, <2>3 DEF Next, TimePasses, WriteHistory, RemoveHistory, IngestTelemetry
<1>2. [Next]_vars
      => [aggregate' \cup raw' # {} =>
             \A r \in raw \ raw' :
                 r \in aggregate' \/ (r.source \in Reread /\ r \notin Told(r.source))]_vars
  BY <1>1
<1> QED
  BY <1>2, PTL DEF Spec, RowsLeaveIntoTheirAggregate

-----------------------------------------------------------------------------
(* CodexDays.  A total is stored only of a closed day, whose rows do not    *)
(* grow any more; what is stored of a day never exceeds the total that the  *)
(* collection in progress has read, nor what the account tells.             *)

\* Nothing is settled but between the two awaits, and a settled total is one
\* that the account told of a closed day.
SettledInv ==
    /\ ~collecting => DOMAIN settled = {}
    /\ \A d \in DOMAIN settled :
          d < today /\ d \in DOMAIN account /\ settled[d] <= account[d]

\* The account still tells the days whose totals are stored, and tells at least
\* as much; so has the collection in progress, if it read the account.
DailyInv ==
    \A d \in DOMAIN daily :
        /\ d < today /\ d \in DOMAIN account /\ daily[d] <= account[d]
        /\ DOMAIN settled # {} => d \in DOMAIN settled /\ daily[d] <= settled[d]

\* A remainder and the rows beside it do not exceed the total either.
RemainderInv ==
    \A d \in DOMAIN remainder :
        /\ d \in DOMAIN daily
        /\ RowsOf(d, kept) \subseteq transcript
        /\ remainder[d] + Tokens(d, transcript) <= account[d]
        /\ DOMAIN settled # {} => remainder[d] + Tokens(d, transcript) <= settled[d]

\* A total without a remainder is one of a day without rows in transcripts.
TotalInv == \A d \in DOMAIN daily \ DOMAIN remainder : RowsOf(d, kept) = {}

DaysInv ==
    /\ DaysTypeOK
    /\ IsFiniteSet(written)
    /\ SettledInv
    /\ DailyInv
    /\ RemainderInv
    /\ TotalInv

-----------------------------------------------------------------------------
(* Rows and tokens.                                                         *)

\* Fewer rows are fewer tokens.
LEMMA FewerTokens ==
    ASSUME NEW S, IsFiniteSet(S), NEW T, NEW d, RowsOf(d, T) \subseteq S
    PROVE  /\ Tokens(d, S) \in Nat
           /\ Tokens(d, T) \in Nat
           /\ Tokens(d, T) <= Tokens(d, S)
<1>1. IsFiniteSet(RowsOf(d, S)) /\ Tokens(d, S) \in Nat
  <2>1. RowsOf(d, S) \in SUBSET S
    BY DEF RowsOf
  <2> QED
    BY <2>1, FS_Subset, FS_CardinalityType DEF Tokens
<1>2. RowsOf(d, T) \in SUBSET RowsOf(d, S)
  BY DEF RowsOf
<1>3. IsFiniteSet(RowsOf(d, T)) /\ Tokens(d, T) <= Tokens(d, S)
  BY <1>1, <1>2, FS_Subset DEF Tokens
<1> QED
  BY <1>1, <1>3, FS_CardinalityType DEF Tokens

\* A day without rows has no tokens.
LEMMA NoTokens ==
    ASSUME NEW S, NEW d, RowsOf(d, S) = {}
    PROVE  Tokens(d, S) = 0
BY FS_EmptySet DEF Tokens

\* The sets of rows of the model are finite, with their tokens.
LEMMA FiniteRows ==
    ASSUME DaysTypeOK, IsFiniteSet(written), NEW S \in SUBSET written, NEW d
    PROVE  IsFiniteSet(S) /\ Tokens(d, S) \in Nat
<1>1. IsFiniteSet(S)
  BY FS_Subset
<1> QED
  BY <1>1, FewerTokens DEF RowsOf

-----------------------------------------------------------------------------
(* The invariant is inductive.                                              *)

LEMMA InitDaysInv == DaysInit => DaysInv
<1> SUFFICES ASSUME DaysInit PROVE DaysInv
  OBVIOUS
<1>1. DOMAIN Nobody = {}
  BY DEF Nobody
<1>2. DaysTypeOK
  <2>1. IsTotals(Nobody)
    BY <1>1 DEF IsTotals
  <2>2. today \in Days
    BY BoundsAssumption DEF DaysInit, Days
  <2> QED
    BY <2>1, <2>2 DEF DaysInit, DaysTypeOK
<1>3. IsFiniteSet(written)
  BY FS_EmptySet DEF DaysInit
<1> QED
  BY <1>1, <1>2, <1>3 DEF DaysInit, DaysInv, SettledInv, DailyInv, RemainderInv, TotalInv

\* Midnight closes a day and opens none.
LEMMA MidnightDaysInv == DaysInv /\ MidnightPasses => DaysInv'
<1> SUFFICES ASSUME DaysInv, MidnightPasses PROVE DaysInv'
  OBVIOUS
<1> USE DEF MidnightPasses, stored
<1>1. DaysTypeOK'
  BY BoundsAssumption DEF DaysInv, DaysTypeOK, IsTotals, Days
<1>2. SettledInv' /\ DailyInv'
  BY BoundsAssumption DEF DaysInv, DaysTypeOK, IsTotals, Days, SettledInv, DailyInv
<1>3. RemainderInv' /\ TotalInv' /\ IsFiniteSet(written)'
  BY DEF DaysInv, RemainderInv, TotalInv, RowsOf, Tokens
<1> QED
  BY <1>1, <1>2, <1>3 DEF DaysInv

\* A row of today is no row of a closed day.
LEMMA WriteDaysInv == ASSUME NEW n \in 1..MaxRows PROVE DaysInv /\ WriteRow(n) => DaysInv'
<1> SUFFICES ASSUME DaysInv, WriteRow(n) PROVE DaysInv'
  OBVIOUS
<1> DEFINE row == [day |-> today, n |-> n]
<1>1. /\ row \notin written
      /\ written' = written \cup {row}
      /\ kept' = kept \cup {row}
      /\ UNCHANGED <<today, vanished, account, collecting, settled, transcript, daily, remainder>>
  BY DEF WriteRow, stored
<1>2. row \in DayRows /\ row.day = today
  BY DEF DaysInv, DaysTypeOK, DayRows
<1> HIDE DEF row
<1>3. DaysTypeOK'
  BY <1>1, <1>2 DEF DaysInv, DaysTypeOK, IsTotals
<1>4. IsFiniteSet(written)'
  BY <1>1, FS_AddElement DEF DaysInv
<1>5. SettledInv' /\ DailyInv'
  BY <1>1 DEF DaysInv, SettledInv, DailyInv
<1>6. ASSUME NEW d \in Days, d < today PROVE RowsOf(d, kept)' = RowsOf(d, kept)
  BY <1>1, <1>2, <1>6 DEF RowsOf, Days, DaysInv, DaysTypeOK
<1>7. \A d \in DOMAIN daily : d \in Days /\ d < today
  BY DEF DaysInv, DaysTypeOK, IsTotals, DailyInv
<1>8. RemainderInv' /\ TotalInv'
  BY <1>1, <1>6, <1>7 DEF DaysInv, RemainderInv, TotalInv, Tokens, RowsOf
<1> QED
  BY <1>3, <1>4, <1>5, <1>8 DEF DaysInv

LEMMA RemoveDaysInv == ASSUME NEW row \in kept PROVE DaysInv /\ RemoveRow(row) => DaysInv'
<1> SUFFICES ASSUME DaysInv, RemoveRow(row) PROVE DaysInv'
  OBVIOUS
<1>1. /\ kept' = kept \ {row}
      /\ UNCHANGED <<today, written, account, collecting, settled, transcript, daily, remainder>>
  BY DEF RemoveRow, stored
<1>0. vanished' \in BOOLEAN
  BY DEF RemoveRow, DaysInv, DaysTypeOK
<1>2. DaysTypeOK' /\ IsFiniteSet(written)'
  BY <1>0, <1>1 DEF DaysInv, DaysTypeOK, IsTotals
<1>3. SettledInv' /\ DailyInv'
  BY <1>1 DEF DaysInv, SettledInv, DailyInv
<1>4. RemainderInv' /\ TotalInv'
  BY <1>1 DEF DaysInv, RemainderInv, TotalInv, RowsOf, Tokens
<1> QED
  BY <1>2, <1>3, <1>4 DEF DaysInv

\* The account never tells less than before.
LEMMA TellsDaysInv ==
    ASSUME NEW day \in Days, NEW total \in 0..MaxTotal
    PROVE  DaysInv /\ AccountTells(day, total) => DaysInv'
<1> SUFFICES ASSUME DaysInv, AccountTells(day, total) PROVE DaysInv'
  OBVIOUS
<1>1. /\ account' = Upsert([d \in {day} |-> total], account)
      /\ UNCHANGED <<today, written, kept, vanished, collecting, settled, transcript, daily, remainder>>
  BY DEF AccountTells, stored
<1>2. \A d : d \in DOMAIN account' <=> d = day \/ d \in DOMAIN account
  BY <1>1 DEF Upsert
<1>3. \A d \in DOMAIN account : d # day => account'[d] = account[d]
  BY <1>1 DEF Upsert
<1>4. account'[day] = total
  BY <1>1 DEF Upsert
<1>5. IsTotals(account)'
  BY <1>2, <1>3, <1>4 DEF DaysInv, DaysTypeOK, IsTotals
<1>6. DaysTypeOK' /\ IsFiniteSet(written)'
  BY <1>1, <1>5 DEF DaysInv, DaysTypeOK, IsTotals
<1>7. \A d \in DOMAIN account : account[d] \in Nat /\ account'[d] \in Nat /\ account[d] <= account'[d]
  BY <1>3, <1>4, BoundsAssumption DEF DaysInv, DaysTypeOK, IsTotals, AccountTells
<1>8. SettledInv' /\ DailyInv'
  BY <1>1, <1>2, <1>7, BoundsAssumption DEF DaysInv, DaysTypeOK, IsTotals, SettledInv, DailyInv
<1>9. \A d \in DOMAIN remainder :
         /\ remainder[d] \in Nat /\ Tokens(d, transcript) \in Nat
         /\ d \in DOMAIN account
  BY FiniteRows, BoundsAssumption DEF DaysInv, DaysTypeOK, IsTotals, RemainderInv, DailyInv
<1>10. RemainderInv' /\ TotalInv'
  BY <1>1, <1>2, <1>7, <1>9 DEF DaysInv, RemainderInv, TotalInv, RowsOf, Tokens
<1> QED
  BY <1>6, <1>8, <1>10 DEF DaysInv

\* The totals that are read are those of the account.
LEMMA ReadDaysInv == ASSUME NEW answers \in BOOLEAN PROVE DaysInv /\ ReadAccount(answers) => DaysInv'
<1> SUFFICES ASSUME DaysInv, ReadAccount(answers) PROVE DaysInv'
  OBVIOUS
<1>1. /\ collecting' = TRUE
      /\ settled' = [d \in {d \in SettledAccountDays : answers} |-> account[d]]
      /\ UNCHANGED <<today, written, kept, vanished, account, transcript, daily, remainder>>
  BY DEF ReadAccount, stored, clientVars
<1>2. \A d \in DOMAIN settled' : d \in DOMAIN account /\ d < today /\ settled'[d] = account[d]
  BY <1>1 DEF SettledAccountDays
<1>3. DOMAIN settled' # {} => \A d \in DOMAIN account : d < today => d \in DOMAIN settled'
  BY <1>1 DEF SettledAccountDays
<1>4. DaysTypeOK' /\ IsFiniteSet(written)'
  BY <1>1, <1>2 DEF DaysInv, DaysTypeOK, IsTotals
<1>5. SettledInv'
  BY <1>1, <1>2, BoundsAssumption DEF DaysInv, DaysTypeOK, IsTotals, SettledInv
<1>6. DailyInv'
  BY <1>1, <1>2, <1>3 DEF DaysInv, DailyInv
<1>7. RemainderInv' /\ TotalInv'
  BY <1>1, <1>2, <1>3 DEF DaysInv, DailyInv, RemainderInv, TotalInv, RowsOf, Tokens
<1> QED
  BY <1>4, <1>5, <1>6, <1>7 DEF DaysInv

LEMMA GiveUpDaysInv == DaysInv /\ GiveUp => DaysInv'
<1> SUFFICES ASSUME DaysInv, GiveUp PROVE DaysInv'
  OBVIOUS
<1>1. /\ collecting' = FALSE
      /\ settled' = Nobody
      /\ UNCHANGED <<today, written, kept, vanished, account, transcript, daily, remainder>>
  BY DEF GiveUp, stored, clientVars
<1>2. DOMAIN settled' = {}
  BY <1>1 DEF Nobody
<1>3. DaysTypeOK' /\ IsFiniteSet(written)'
  BY <1>1, <1>2 DEF DaysInv, DaysTypeOK, IsTotals
<1>4. SettledInv' /\ DailyInv' /\ RemainderInv' /\ TotalInv'
  BY <1>1, <1>2 DEF DaysInv, SettledInv, DailyInv, RemainderInv, TotalInv, RowsOf, Tokens
<1> QED
  BY <1>3, <1>4 DEF DaysInv

\* A snapshot that reconciles stores totals that were settled; any other leaves
\* the stored totals alone, and adds no row of a day that has one.
LEMMA SaveDaysInv == ASSUME NEW unread \in SUBSET kept PROVE DaysInv /\ SaveDays(unread) => DaysInv'
<1> SUFFICES ASSUME DaysInv, SaveDays(unread) PROVE DaysInv'
  OBVIOUS
<1> DEFINE read     == kept \ unread
           days     == IF CanReconcile(unread) THEN Reconciled(read) ELSE {}
           replaces == CanReconcile(unread) /\ read # {}
           withRows == {d \in days : RowsOf(d, read) # {}}
<1>1. /\ transcript' = read \cup (IF replaces THEN {} ELSE transcript)
      /\ daily' = Upsert([d \in days |-> settled[d]], IF replaces THEN Nobody ELSE daily)
      /\ remainder' = Upsert([d \in withRows |-> settled[d] - Tokens(d, read)],
                             IF replaces THEN Nobody ELSE remainder)
      /\ collecting' = FALSE
      /\ settled' = Nobody
      /\ UNCHANGED <<today, written, kept, vanished, account>>
  BY DEF SaveDays, clientVars
<1>2. DOMAIN Nobody = {}
  BY DEF Nobody
<1>3. /\ days \subseteq DOMAIN settled
      /\ \A d \in days : Tokens(d, read) <= settled[d]
      /\ days # {} => CanReconcile(unread) /\ DOMAIN settled # {} /\ read = kept
      /\ replaces => read = kept /\ DOMAIN settled # {}
  BY DEF Reconciled, CanReconcile
<1>4. \A d \in days : Tokens(d, read) \in Nat /\ settled[d] \in Nat /\ settled[d] \in 0..MaxTotal
  <2>1. read \in SUBSET written
    BY DEF DaysInv, DaysTypeOK
  <2>2. \A d : Tokens(d, read) \in Nat
    BY <2>1, FiniteRows DEF DaysInv
  <2>3. \A d \in DOMAIN settled : settled[d] \in 0..MaxTotal
    BY DEF DaysInv, DaysTypeOK, IsTotals
  <2> QED
    BY <2>2, <2>3, <1>3, BoundsAssumption
<1>5. /\ \A d : d \in DOMAIN daily' <=> d \in days \/ (~replaces /\ d \in DOMAIN daily)
      /\ \A d \in days : daily'[d] = settled[d]
      /\ \A d \in DOMAIN daily : d \notin days /\ ~replaces => daily'[d] = daily[d]
  BY <1>1, <1>2 DEF Upsert
<1>6. /\ \A d : d \in DOMAIN remainder' <=> d \in withRows \/ (~replaces /\ d \in DOMAIN remainder)
      /\ \A d \in withRows : remainder'[d] = settled[d] - Tokens(d, read)
      /\ \A d \in DOMAIN remainder : d \notin withRows /\ ~replaces => remainder'[d] = remainder[d]
  BY <1>1, <1>2 DEF Upsert
<1>7. days \subseteq Days /\ withRows \subseteq days
  BY <1>3 DEF DaysInv, DaysTypeOK, IsTotals
<1>8. withRows # {} => replaces
  BY <1>3 DEF RowsOf
<1>9. DOMAIN settled' = {}
  BY <1>1, <1>2
<1> HIDE DEF days, replaces, withRows
<1>10. IsTotals(daily)'
  BY <1>4, <1>5, <1>7 DEF DaysInv, DaysTypeOK, IsTotals
<1>11. IsTotals(remainder)'
  <2>1. \A d \in withRows : settled[d] - Tokens(d, read) \in 0..MaxTotal
    BY <1>3, <1>4, <1>7, BoundsAssumption
  <2> QED
    BY <2>1, <1>6, <1>7 DEF DaysInv, DaysTypeOK, IsTotals
<1>12. DaysTypeOK'
  <2>1. transcript' \subseteq written'
    BY <1>1 DEF DaysInv, DaysTypeOK
  <2>2. IsTotals(account)' /\ IsTotals(settled)'
    BY <1>1, <1>9 DEF DaysInv, DaysTypeOK, IsTotals
  <2> QED
    BY <1>1, <1>10, <1>11, <2>1, <2>2 DEF DaysInv, DaysTypeOK
<1>13. SettledInv'
  BY <1>1, <1>9 DEF SettledInv
<1>14. DailyInv'
  BY <1>1, <1>3, <1>5, <1>9 DEF DaysInv, SettledInv, DailyInv
<1>15. ASSUME NEW d \in DOMAIN remainder'
       PROVE  /\ d \in DOMAIN daily'
              /\ RowsOf(d, kept') \subseteq transcript'
              /\ remainder'[d] + Tokens(d, transcript') <= account'[d]
  <2>1. CASE d \in withRows
    <3>1. transcript' = read /\ read = kept /\ d \in days
      BY <2>1, <1>1, <1>3, <1>7, <1>8
    <3>2. settled[d] <= account[d] /\ d \in DOMAIN account
      BY <3>1, <1>3 DEF DaysInv, SettledInv
    <3>3. remainder'[d] + Tokens(d, transcript') = settled[d]
      <4>1. Tokens(d, transcript') = Tokens(d, read)
        BY <3>1
      <4>2. remainder'[d] = settled[d] - Tokens(d, read)
        BY <2>1, <1>6
      <4>3. settled[d] \in Nat /\ Tokens(d, read) \in Nat
        BY <3>1, <1>4
      <4> HIDE DEF read
      <4> QED
        BY <4>1, <4>2, <4>3
    <3> QED
      BY <3>1, <3>2, <3>3, <1>1, <1>5 DEF RowsOf
  <2>2. CASE d \notin withRows
    <3>1. d \in DOMAIN remainder /\ ~replaces /\ remainder'[d] = remainder[d]
      BY <2>2, <1>6
    <3>2. d \in DOMAIN daily /\ RowsOf(d, kept) \subseteq transcript
      BY <3>1 DEF DaysInv, RemainderInv
    <3>3. transcript' = read \cup transcript
      BY <3>1, <1>1
    <3>4. RowsOf(d, transcript') = RowsOf(d, transcript)
      BY <3>2, <3>3 DEF RowsOf
    <3>5. remainder'[d] + Tokens(d, transcript') <= account[d]
      BY <3>1, <3>4 DEF DaysInv, RemainderInv, Tokens
    <3> QED
      BY <3>1, <3>2, <3>3, <3>5, <1>1, <1>5 DEF RowsOf
  <2> QED
    BY <2>1, <2>2
<1>16. RemainderInv'
  BY <1>9, <1>15 DEF RemainderInv, RowsOf, Tokens
<1>17. TotalInv'
  <2> SUFFICES ASSUME NEW d \in DOMAIN daily', d \notin DOMAIN remainder'
               PROVE  RowsOf(d, kept) = {}
    BY <1>1 DEF TotalInv, RowsOf
  <2>1. CASE d \in days
    BY <2>1, <1>3, <1>6 DEF withRows
  <2>2. CASE d \notin days
    <3>1. d \in DOMAIN daily /\ ~replaces
      BY <2>2, <1>5
    <3>2. d \notin DOMAIN remainder
      BY <3>1, <1>6
    <3> QED
      BY <3>1, <3>2 DEF DaysInv, TotalInv
  <2> QED
    BY <2>1, <2>2
<1> QED
  BY <1>1, <1>12, <1>13, <1>14, <1>16, <1>17 DEF DaysInv

LEMMA NextDaysInv == DaysInv /\ [DaysNext]_daysVars => DaysInv'
<1>1. DaysInv /\ UNCHANGED daysVars => DaysInv'
  <2> SUFFICES ASSUME DaysInv, UNCHANGED daysVars PROVE DaysInv'
    OBVIOUS
  <2>1. DaysTypeOK' /\ IsFiniteSet(written)'
    BY DEF daysVars, clientVars, stored, DaysInv, DaysTypeOK, IsTotals
  <2>2. SettledInv' /\ DailyInv'
    BY DEF daysVars, clientVars, stored, DaysInv, SettledInv, DailyInv
  <2>3. RemainderInv' /\ TotalInv'
    BY DEF daysVars, clientVars, stored, DaysInv, RemainderInv, TotalInv, RowsOf, Tokens
  <2> QED
    BY <2>1, <2>2, <2>3 DEF DaysInv
<1> QED
  BY <1>1, MidnightDaysInv, WriteDaysInv, RemoveDaysInv, TellsDaysInv, ReadDaysInv, SaveDaysInv, GiveUpDaysInv
     DEF DaysNext

LEMMA SpecDaysInv == DaysSpec => []DaysInv
BY InitDaysInv, NextDaysInv, PTL DEF DaysSpec

-----------------------------------------------------------------------------
(* What follows.                                                            *)

\* Every variable keeps its type, however large the days, rows and totals are.
THEOREM DaysTypeCorrect == DaysSpec => []DaysTypeOK
<1>1. DaysInv => DaysTypeOK
  BY DEF DaysInv
<1> QED
  BY <1>1, SpecDaysInv, PTL

\* No total of a day that still runs is ever stored.
THEOREM OnlyClosedDays == DaysSpec => []DailyTotalsAreOfClosedDays
<1>1. DaysInv => DailyTotalsAreOfClosedDays
  BY DEF DaysInv, DailyInv, DailyTotalsAreOfClosedDays
<1> QED
  BY <1>1, SpecDaysInv, PTL

\* As long as the rows have not vanished altogether, a day with a total and no remainder has no
\* stored rows that the total could be added to.
Lasting ==
    /\ kept = {} => written = {}
    /\ \A d \in DOMAIN daily \ DOMAIN remainder : RowsOf(d, transcript) = {}

LastingInv == ~vanished => Lasting

LEMMA NextLasting ==
    ASSUME DaysInv, Lasting, ~vanished', [DaysNext]_daysVars
    PROVE  Lasting'
<1>1. CASE UNCHANGED daysVars
  BY <1>1 DEF daysVars, clientVars, stored, Lasting, RowsOf
<1>2. CASE MidnightPasses
  BY <1>2 DEF MidnightPasses, stored, Lasting, RowsOf
<1>3. ASSUME NEW n \in 1..MaxRows, WriteRow(n) PROVE Lasting'
  BY <1>3 DEF WriteRow, stored, Lasting, RowsOf
<1>4. ASSUME NEW row \in kept, RemoveRow(row) PROVE Lasting'
  BY <1>4 DEF RemoveRow, stored, Lasting, RowsOf
<1>5. ASSUME NEW day \in Days, NEW total \in 0..MaxTotal, AccountTells(day, total)
      PROVE  Lasting'
  BY <1>5 DEF AccountTells, stored, Lasting, RowsOf
<1>6. ASSUME NEW answers \in BOOLEAN, ReadAccount(answers) PROVE Lasting'
  BY <1>6 DEF ReadAccount, clientVars, stored, Lasting, RowsOf
<1>7. CASE GiveUp
  BY <1>7 DEF GiveUp, clientVars, stored, Lasting, RowsOf
<1>8. ASSUME NEW unread \in SUBSET kept, SaveDays(unread) PROVE Lasting'
  <2> DEFINE read     == kept \ unread
             days     == IF CanReconcile(unread) THEN Reconciled(read) ELSE {}
             replaces == CanReconcile(unread) /\ read # {}
             withRows == {d \in days : RowsOf(d, read) # {}}
  <2>1. /\ transcript' = read \cup (IF replaces THEN {} ELSE transcript)
        /\ daily' = Upsert([d \in days |-> settled[d]], IF replaces THEN Nobody ELSE daily)
        /\ remainder' = Upsert([d \in withRows |-> settled[d] - Tokens(d, read)],
                               IF replaces THEN Nobody ELSE remainder)
        /\ UNCHANGED <<written, kept>>
    BY <1>8 DEF SaveDays, clientVars
  <2>2. DOMAIN Nobody = {}
    BY DEF Nobody
  <2>3. \A d : d \in DOMAIN daily' <=> d \in days \/ (~replaces /\ d \in DOMAIN daily)
    BY <2>1, <2>2 DEF Upsert
  <2>4. \A d : d \in DOMAIN remainder' <=> d \in withRows \/ (~replaces /\ d \in DOMAIN remainder)
    BY <2>1, <2>2 DEF Upsert
  <2>5. days # {} => read = kept /\ (replaces \/ kept = {})
    BY DEF CanReconcile
  <2>6. kept = {} => transcript' = {}
    BY <2>1 DEF DaysInv, DaysTypeOK, Lasting
  <2> SUFFICES ASSUME NEW d \in DOMAIN daily', d \notin DOMAIN remainder'
               PROVE  RowsOf(d, transcript') = {}
    BY <2>1 DEF Lasting, RowsOf
  <2>7. CASE kept = {}
    BY <2>6, <2>7 DEF RowsOf
  <2>8. CASE kept # {} /\ d \in days
    <3>1. replaces /\ transcript' = read
      BY <2>1, <2>5, <2>8
    <3>2. RowsOf(d, read) = {}
      BY <2>4, <2>8
    <3> QED
      BY <3>1, <3>2
  <2>9. CASE d \notin days
    <3>1. d \in DOMAIN daily \ DOMAIN remainder /\ ~replaces
      BY <2>3, <2>4, <2>9
    <3>2. RowsOf(d, transcript) = {} /\ RowsOf(d, kept) = {}
      BY <3>1 DEF DaysInv, TotalInv, Lasting
    <3>3. transcript' = read \cup transcript
      BY <3>1, <2>1
    <3> QED
      BY <3>2, <3>3 DEF RowsOf
  <2> QED
    BY <2>7, <2>8, <2>9
<1> QED
  BY <1>1, <1>2, <1>3, <1>4, <1>5, <1>6, <1>7, <1>8 DEF DaysNext

\* As long as some transcript is left, no day shows more than the larger
\* of what the account tells and what was written, for any number of days, rows
\* and tokens.
THEOREM ReconciledNotAdded == DaysSpec => []OverlapsAreReconciled
<1>1. DaysInit => LastingInv
  BY DEF DaysInit, LastingInv, Lasting, Nobody
<1>2. DaysInv /\ LastingInv /\ [DaysNext]_daysVars => LastingInv'
  <2>1. vanished /\ [DaysNext]_daysVars => vanished'
    BY DEF DaysNext, daysVars, clientVars, MidnightPasses, WriteRow, RemoveRow, AccountTells,
           ReadAccount, SaveDays, GiveUp
  <2> QED
    BY <2>1, NextLasting DEF LastingInv
<1>3. ASSUME DaysInv, LastingInv PROVE OverlapsAreReconciled
  <2> SUFFICES ASSUME ~vanished, NEW d \in Days
               PROVE  Shown(d) <= Tokens(d, written) \/ Shown(d) <= Stored(account, d)
    BY DEF OverlapsAreReconciled
  <2>1. CASE d \in DOMAIN remainder
    <3>1. Tokens(d, transcript) \in Nat
      BY <1>3, FiniteRows DEF DaysInv, DaysTypeOK
    <3>2. remainder[d] \in Nat
      BY <1>3, <2>1, BoundsAssumption DEF DaysInv, DaysTypeOK, IsTotals
    <3>3. d \in DOMAIN account /\ remainder[d] + Tokens(d, transcript) <= account[d]
      BY <1>3, <2>1 DEF DaysInv, RemainderInv, DailyInv
    <3> QED
      BY <2>1, <3>1, <3>2, <3>3 DEF Shown, Stored
  <2>2. CASE d \in DOMAIN daily \ DOMAIN remainder
    <3>1. Tokens(d, transcript) = 0
      BY <1>3, <2>2, NoTokens DEF LastingInv, Lasting
    <3>2. daily[d] <= account[d] /\ d \in DOMAIN account
      BY <1>3, <2>2 DEF DaysInv, DailyInv
    <3>3. daily[d] \in Nat
      BY <1>3, <2>2, BoundsAssumption DEF DaysInv, DaysTypeOK, IsTotals
    <3> QED
      BY <2>2, <3>1, <3>2, <3>3 DEF Shown, Stored
  <2>3. CASE d \notin DOMAIN daily
    <3>1. d \notin DOMAIN remainder
      BY <1>3, <2>3 DEF DaysInv, RemainderInv
    <3>2. RowsOf(d, transcript) \subseteq written
      BY <1>3 DEF DaysInv, DaysTypeOK, RowsOf
    <3>3. Tokens(d, transcript) \in Nat /\ Tokens(d, transcript) <= Tokens(d, written)
      BY <1>3, <3>2, FewerTokens DEF DaysInv
    <3> QED
      BY <2>3, <3>1, <3>3 DEF Shown, Stored
  <2> QED
    BY <2>1, <2>2, <2>3
<1> QED
  BY <1>1, <1>2, <1>3, SpecDaysInv, PTL DEF DaysSpec

\* What a day shows is a number of tokens.
ShownAreTokens == \A d \in Days : Shown(d) \in Nat

LEMMA ShownTokens == DaysInv => ShownAreTokens
<1> SUFFICES ASSUME DaysInv, NEW d \in Days PROVE Shown(d) \in Nat
  BY DEF ShownAreTokens
<1>1. Tokens(d, transcript) \in Nat
  BY FiniteRows DEF DaysInv, DaysTypeOK
<1>2. \A f \in {daily, remainder} : d \in DOMAIN f => f[d] \in Nat
  BY BoundsAssumption DEF DaysInv, DaysTypeOK, IsTotals
<1> QED
  BY <1>1, <1>2 DEF Shown, Stored

\* No collection makes a day show less unless stored rows of that day are gone
\* from the transcripts, for any number of days, rows and tokens.
THEOREM DropsOnlyWithHistory == DaysSpec => UsageDropsOnlyWithItsHistory
<1> DEFINE Drops(d) == Shown(d)' < Shown(d) => ~(RowsOf(d, transcript) \subseteq kept)
<1>1. ASSUME DaysInv, UNCHANGED stored, NEW d \in Days PROVE Drops(d)
  <2>1. Shown(d)' = Shown(d)
    BY <1>1 DEF stored, Shown, Stored, Tokens, RowsOf
  <2>2. Shown(d) \in Nat
    BY <1>1, ShownTokens DEF ShownAreTokens
  <2> QED
    BY <2>1, <2>2
<1>2. ASSUME DaysInv, NEW unread \in SUBSET kept, SaveDays(unread), NEW d \in Days,
             RowsOf(d, transcript) \subseteq kept
      PROVE  Shown(d) <= Shown(d)'
  <2> DEFINE read     == kept \ unread
             days     == IF CanReconcile(unread) THEN Reconciled(read) ELSE {}
             replaces == CanReconcile(unread) /\ read # {}
             withRows == {e \in days : RowsOf(e, read) # {}}
  <2>1. /\ transcript' = read \cup (IF replaces THEN {} ELSE transcript)
        /\ daily' = Upsert([e \in days |-> settled[e]], IF replaces THEN Nobody ELSE daily)
        /\ remainder' = Upsert([e \in withRows |-> settled[e] - Tokens(e, read)],
                               IF replaces THEN Nobody ELSE remainder)
        /\ UNCHANGED <<written, kept>>
    BY <1>2 DEF SaveDays, clientVars
  <2>2. DOMAIN Nobody = {}
    BY DEF Nobody
  <2>3. /\ d \in DOMAIN daily' <=> d \in days \/ (~replaces /\ d \in DOMAIN daily)
        /\ d \in days => daily'[d] = settled[d]
        /\ d \in DOMAIN daily /\ d \notin days /\ ~replaces => daily'[d] = daily[d]
    BY <2>1, <2>2 DEF Upsert
  <2>4. /\ d \in DOMAIN remainder' <=> d \in withRows \/ (~replaces /\ d \in DOMAIN remainder)
        /\ d \in withRows => remainder'[d] = settled[d] - Tokens(d, read)
        /\ d \in DOMAIN remainder /\ d \notin withRows /\ ~replaces => remainder'[d] = remainder[d]
    BY <2>1, <2>2 DEF Upsert
  <2>5. /\ Tokens(d, transcript) \in Nat /\ Tokens(d, transcript') \in Nat
        /\ Tokens(d, read) \in Nat /\ Tokens(d, kept) \in Nat
        /\ Tokens(d, transcript) <= Tokens(d, kept)
        /\ ~replaces => Tokens(d, transcript) <= Tokens(d, transcript')
    <3>1. transcript \in SUBSET written /\ transcript' \in SUBSET written
            /\ read \in SUBSET written /\ kept \in SUBSET written
      BY <1>2, <2>1 DEF DaysInv, DaysTypeOK
    <3>2. IsFiniteSet(kept) /\ IsFiniteSet(transcript')
      BY <1>2, <3>1, FiniteRows DEF DaysInv
    <3>3. \A S \in SUBSET written : Tokens(d, S) \in Nat
      BY <1>2, FiniteRows DEF DaysInv
    <3>4. Tokens(d, transcript) <= Tokens(d, kept)
      BY <1>2, <3>2, FewerTokens
    <3>5. ~replaces => RowsOf(d, transcript) \subseteq transcript'
      BY <2>1 DEF RowsOf
    <3> QED
      BY <3>1, <3>2, <3>3, <3>4, <3>5, FewerTokens
  <2>6. /\ d \in DOMAIN settled => settled[d] \in Nat
        /\ d \in DOMAIN daily => daily[d] \in Nat
        /\ d \in DOMAIN remainder => remainder[d] \in Nat
    BY <1>2, BoundsAssumption DEF DaysInv, DaysTypeOK, IsTotals
  <2>7. \* What is stored of the day, given that its rows are still there.
        /\ d \in DOMAIN remainder => d \in DOMAIN daily
        /\ d \in DOMAIN daily \ DOMAIN remainder => Tokens(d, transcript) = 0
        /\ DOMAIN settled # {} /\ d \in DOMAIN daily => d \in DOMAIN settled /\ daily[d] <= settled[d]
        /\ DOMAIN settled # {} /\ d \in DOMAIN remainder
             => remainder[d] + Tokens(d, transcript) <= settled[d]
    <3>1. d \in DOMAIN daily \ DOMAIN remainder => RowsOf(d, transcript) = {}
      BY <1>2 DEF DaysInv, TotalInv, RowsOf
    <3>2. RowsOf(d, transcript) = {} => Tokens(d, transcript) = 0
      BY NoTokens
    <3> QED
      BY <1>2, <3>1, <3>2 DEF DaysInv, DailyInv, RemainderInv
  <2>8. CanReconcile(unread) => read = kept /\ DOMAIN settled # {}
    BY DEF CanReconcile
  <2>9. /\ d \in days <=> CanReconcile(unread) /\ d \in DOMAIN settled /\ Tokens(d, read) <= settled[d]
        /\ d \in withRows <=> d \in days /\ RowsOf(d, read) # {}
    BY DEF Reconciled
  <2>10. RowsOf(d, read) = {} => Tokens(d, read) = 0
    BY NoTokens
  <2>11. replaces => transcript' = read /\ Tokens(d, transcript') = Tokens(d, read)
    BY <2>1
  <2>12. withRows # {} => replaces
    BY <2>8 DEF RowsOf
  <2>13. /\ Shown(d) = Tokens(d, transcript) +
               (IF d \in DOMAIN remainder THEN remainder[d]
                ELSE IF d \in DOMAIN daily THEN daily[d] ELSE 0)
         /\ Shown(d)' = Tokens(d, transcript') +
               (IF d \in DOMAIN remainder' THEN remainder'[d]
                ELSE IF d \in DOMAIN daily' THEN daily'[d] ELSE 0)
    BY DEF Shown, Stored, Tokens, RowsOf
  <2>14. replaces => CanReconcile(unread)
    OBVIOUS
  <2>15. d \in withRows => replaces
    BY <2>12
  <2> HIDE DEF read, days, replaces, withRows
  <2>16. CASE replaces /\ d \in days
    <3>1. Shown(d)' = settled[d]
      BY <2>16, <2>3, <2>4, <2>5, <2>6, <2>9, <2>10, <2>11, <2>13
    <3>2. Shown(d) <= settled[d]
      BY <2>16, <2>5, <2>6, <2>7, <2>8, <2>9, <2>13, <2>14
    <3> QED
      BY <3>1, <3>2
  <2>17. CASE replaces /\ d \notin days
    <3>1. Shown(d)' = Tokens(d, kept)
      BY <2>17, <2>3, <2>4, <2>5, <2>8, <2>9, <2>11, <2>13, <2>14
    <3>2. Shown(d) <= Tokens(d, kept)
      BY <2>17, <2>5, <2>6, <2>7, <2>8, <2>9, <2>13, <2>14
    <3> QED
      BY <3>1, <3>2
  <2>18. CASE ~replaces
    BY <2>18, <2>3, <2>4, <2>5, <2>6, <2>7, <2>8, <2>9, <2>13, <2>15
  <2> QED
    BY <2>16, <2>17, <2>18
<1>3. DaysInv /\ [DaysNext]_daysVars => [\A d \in Days : Drops(d)]_daysVars
  <2> SUFFICES ASSUME DaysInv, DaysNext, NEW d \in Days PROVE Drops(d)
    OBVIOUS
  <2>1. CASE \E unread \in SUBSET kept : SaveDays(unread)
    <3> SUFFICES ASSUME RowsOf(d, transcript) \subseteq kept PROVE ~(Shown(d)' < Shown(d))
      OBVIOUS
    <3>1. Shown(d) <= Shown(d)'
      BY <2>1, <1>2
    <3>2. DaysInv'
      BY NextDaysInv
    <3>3. (DaysInv => ShownAreTokens)'
      BY ShownTokens, PTL
    <3>4. Shown(d) \in Nat /\ Shown(d)' \in Nat
      BY <3>2, <3>3, ShownTokens DEF ShownAreTokens
    <3> QED
      BY <3>1, <3>4
  <2>2. CASE UNCHANGED stored
    BY <2>2, <1>1
  <2> QED
    BY <2>1, <2>2 DEF DaysNext, MidnightPasses, WriteRow, RemoveRow, AccountTells, ReadAccount, GiveUp
<1> QED
  BY <1>3, SpecDaysInv, PTL DEF DaysSpec, UsageDropsOnlyWithItsHistory

-----------------------------------------------------------------------------
(* Transcripts: sequences of places, and what a file tells.                 *)

\* The places of a set, each once.
LEMMA InOrderIs ==
    ASSUME NEW n \in Nat, NEW P \in SUBSET (1 .. n)
    PROVE  /\ Cardinality(P) \in Nat
           /\ InOrder(P) \in [1 .. Cardinality(P) -> P]
           /\ \A i \in P : \E k \in 1 .. Cardinality(P) : InOrder(P)[k] = i
           /\ \A k, l \in 1 .. Cardinality(P) : InOrder(P)[k] = InOrder(P)[l] => k = l
<1> DEFINE upTo(i) == {j \in P : j <= i}
           rank == [i \in P |-> Cardinality(upTo(i))]
           R == {rank[i] : i \in P}
           N == Cardinality(P)
<1>0. \A i \in P : i \in Nat
  OBVIOUS
<1>1. IsFiniteSet(1 .. n)
  BY FS_Interval
<1>2. IsFiniteSet(P) /\ N \in Nat
  BY <1>1, FS_Subset, FS_CardinalityType
<1>3. \A i \in P : /\ IsFiniteSet(upTo(i)) /\ Cardinality(upTo(i)) \in Nat
                   /\ Cardinality(upTo(i)) <= N
  <2> SUFFICES ASSUME NEW i \in P
               PROVE  /\ IsFiniteSet(upTo(i)) /\ Cardinality(upTo(i)) \in Nat
                      /\ Cardinality(upTo(i)) <= N
    OBVIOUS
  <2>1. upTo(i) \in SUBSET P
    OBVIOUS
  <2>2. IsFiniteSet(upTo(i)) /\ Cardinality(upTo(i)) <= N
    BY <1>2, <2>1, FS_Subset
  <2> QED
    BY <2>2, FS_CardinalityType
<1>4. \A i \in P : rank[i] \in 1 .. N
  <2> SUFFICES ASSUME NEW i \in P PROVE rank[i] \in 1 .. N
    OBVIOUS
  <2>1. i \in upTo(i)
    OBVIOUS
  <2>2. Cardinality(upTo(i)) # 0
    BY <1>3, <2>1, FS_EmptySet
  <2>3. /\ rank[i] = Cardinality(upTo(i))
        /\ Cardinality(upTo(i)) \in Nat
        /\ Cardinality(upTo(i)) <= N
    BY <1>3
  <2> QED
    BY <1>2, <2>2, <2>3
<1>5. ASSUME NEW i \in P, NEW j \in P, i < j
      PROVE  rank[i] < rank[j]
  <2>1. j \in upTo(j)
    OBVIOUS
  <2>2. /\ IsFiniteSet(upTo(j) \ {j})
        /\ Cardinality(upTo(j) \ {j}) = Cardinality(upTo(j)) - 1
    BY <1>3, <2>1, FS_RemoveElement
  <2>3. upTo(i) \in SUBSET (upTo(j) \ {j})
    <3>1. ASSUME NEW k \in P, k <= i
          PROVE  k <= j /\ k # j
      BY <1>0, <1>5, <3>1
    <3> QED
      BY <3>1
  <2>4. Cardinality(upTo(i)) <= Cardinality(upTo(j) \ {j})
    BY <2>2, <2>3, FS_Subset
  <2>5. Cardinality(upTo(i)) \in Nat /\ Cardinality(upTo(j)) \in Nat
    BY <1>3
  <2> QED
    BY <2>2, <2>4, <2>5
<1>6. \A i, j \in P : rank[i] = rank[j] => i = j
  <2> SUFFICES ASSUME NEW i \in P, NEW j \in P, i # j PROVE rank[i] # rank[j]
    OBVIOUS
  <2>1. rank[i] \in Int /\ rank[j] \in Int
    BY <1>2, <1>4
  <2>2. i < j \/ j < i
    OBVIOUS
  <2> HIDE DEF rank
  <2>3. rank[i] < rank[j] \/ rank[j] < rank[i]
    BY <1>5, <2>2
  <2> QED
    BY <2>1, <2>3
<1>7. rank \in Bijection(P, R)
  BY <1>6 DEF Bijection, Injection, Surjection, IsInjective
<1>8. Cardinality(R) = N
  <2>1. ExistsBijection(P, R)
    BY <1>7 DEF ExistsBijection
  <2> HIDE DEF R
  <2> QED
    BY <1>2, <2>1, FS_Bijection
<1>9. R = 1 .. N
  <2>1. IsFiniteSet(1 .. N) /\ Cardinality(1 .. N) = N
    BY <1>2, FS_Interval
  <2>2. R \in SUBSET (1 .. N)
    BY <1>4
  <2> HIDE DEF R
  <2> QED
    BY <1>8, <2>1, <2>2, FS_Subset
<1>10. \A k \in 1 .. N : \E i \in P : rank[i] = k
  BY <1>9
<1>11. \A k \in 1 .. N : InOrder(P)[k] \in P /\ rank[InOrder(P)[k]] = k
  <2> SUFFICES ASSUME NEW k \in 1 .. N
               PROVE  InOrder(P)[k] \in P /\ rank[InOrder(P)[k]] = k
    OBVIOUS
  <2>1. \E i \in P : Cardinality(upTo(i)) = k
    BY <1>10
  <2>2. InOrder(P)[k] = CHOOSE i \in P : Cardinality({j \in P : j <= i}) = k
    BY DEF InOrder
  <2>3. InOrder(P)[k] \in P /\ Cardinality(upTo(InOrder(P)[k])) = k
    BY <2>1, <2>2
  <2> QED
    BY <2>3
<1>12. InOrder(P) = [k \in 1 .. N |-> InOrder(P)[k]]
  BY DEF InOrder
<1> HIDE DEF rank, R
<1>13. \A i \in P : InOrder(P)[rank[i]] = i
  BY <1>4, <1>6, <1>11
<1> QED
  BY <1>2, <1>4, <1>11, <1>12, <1>13

\* A set of places has a last one.
LEMMA LastPlace ==
    ASSUME NEW n \in Nat, NEW P \in SUBSET (1 .. n), P # {}
    PROVE  \E i \in P : \A j \in P : j <= i
<1> DEFINE T == {n - i : i \in P}
<1>1. \A i \in P : i \in Nat /\ i <= n
  OBVIOUS
<1>2. T \in SUBSET Nat /\ T # {}
  <2>1. \A i \in P : n - i \in Nat
    BY <1>1
  <2> QED
    BY <2>1
<1>3. PICK t \in T : \A u \in T : t <= u
  BY <1>2, LeastNatural
<1>4. PICK i \in P : t = n - i
  BY <1>3
<1>5. \A j \in P : n - i <= n - j
  BY <1>3, <1>4
<1>6. \A j \in P : j <= i
  BY <1>1, <1>5
<1> QED
  BY <1>6

\* A set of places has a first one.
LEMMA FirstPlace ==
    ASSUME NEW n \in Nat, NEW P \in SUBSET (1 .. n), P # {}
    PROVE  \E i \in P : \A j \in P : i <= j
<1>1. P \in SUBSET Nat
  OBVIOUS
<1> QED
  BY <1>1, LeastNatural

\* The lines that are records, and what is told of one.
IsRecordAt(provider, lines, i) ==
    IF provider = "codex" THEN i \in News(lines, i) /\ ~IsCopy(lines, i)
    ELSE IsUsage(lines, i)

RecordAt(provider, lines, i, customModels) ==
    IF provider = "claude-code" THEN Record(lines[i].id, "subscription", lines[i])
    ELSE IF provider = "codex"
    THEN Record(<<lines[1].id, lines[i].at, lines[i].of, lines[i].id>>, "subscription", lines[i])
    ELSE IF provider = "grok"
    THEN [Record(lines[i].id, GrokDomain(lines[i].of, Selected(lines, i), customModels), lines[i])
          EXCEPT !.selected = Selected(lines, i)]
    ELSE Record(lines[i].id, Route(lines, i), lines[i])

\* What an agent's lines are parsed into is the record of each place that is one, in order.
LEMMA ParsedIs ==
    ASSUME NEW k \in Nat, NEW lines, DOMAIN lines = 1 .. k, NEW customModels, NEW P,
           P = {i \in 1 .. k : IsRecordAt(script.provider, lines, i)}
    PROVE  /\ DOMAIN InOrder(P) = 1 .. Cardinality(P)
           /\ Parsed(lines, customModels) =
                 [n \in DOMAIN InOrder(P) |-> RecordAt(script.provider, lines, InOrder(P)[n], customModels)]
<1>1. DOMAIN InOrder(P) = 1 .. Cardinality(P)
  BY DEF InOrder
<1>2. CASE script.provider = "claude-code"
  <2>1. P = {i \in DOMAIN lines : IsUsage(lines, i)}
    BY <1>2 DEF IsRecordAt
  <2>2. Parsed(lines, customModels) =
            [n \in DOMAIN InOrder(P) |-> Record(lines[InOrder(P)[n]].id, "subscription",
                                                lines[InOrder(P)[n]])]
    BY <1>2, <2>1 DEF Parsed, parseClaude, Records
  <2> QED
    BY <1>1, <1>2, <2>2 DEF RecordAt
<1>3. CASE script.provider = "codex"
  <2>1. P = {i \in DOMAIN lines : i \in News(lines, i) /\ ~IsCopy(lines, i)}
    BY <1>3 DEF IsRecordAt
  <2>2. Parsed(lines, customModels) =
            [n \in DOMAIN InOrder(P) |->
                Record(<<lines[1].id, lines[InOrder(P)[n]].at, lines[InOrder(P)[n]].of,
                         lines[InOrder(P)[n]].id>>, "subscription", lines[InOrder(P)[n]])]
    BY <1>3, <2>1 DEF Parsed, parseCodex, Records
  <2> QED
    BY <1>1, <1>3, <2>2 DEF RecordAt
<1>4. CASE script.provider = "grok"
  <2>1. P = {i \in DOMAIN lines : IsUsage(lines, i)}
    BY <1>4 DEF IsRecordAt
  <2>2. Parsed(lines, customModels) =
            [n \in DOMAIN InOrder(P) |->
                [Record(lines[InOrder(P)[n]].id,
                        GrokDomain(lines[InOrder(P)[n]].of, Selected(lines, InOrder(P)[n]),
                                   customModels), lines[InOrder(P)[n]])
                 EXCEPT !.selected = Selected(lines, InOrder(P)[n])]]
    BY <1>4, <2>1 DEF Parsed, parseGrok, Records
  <2> QED
    BY <1>1, <1>4, <2>2 DEF RecordAt
<1>5. CASE script.provider \notin {"claude-code", "codex", "grok"}
  <2>1. P = {i \in DOMAIN lines : IsUsage(lines, i)}
    BY <1>5 DEF IsRecordAt
  <2>2. Parsed(lines, customModels) =
            [n \in DOMAIN InOrder(P) |->
                Record(lines[InOrder(P)[n]].id, Route(lines, InOrder(P)[n]),
                       lines[InOrder(P)[n]])]
    BY <1>5, <2>1 DEF Parsed, parseDsh, Records
  <2> QED
    BY <1>1, <1>5, <2>2 DEF RecordAt
<1> QED
  BY <1>2, <1>3, <1>4, <1>5

\* The last line of a kind is one of the lines, or there is none.
LEMMA LastOfIs ==
    ASSUME NEW lines, NEW i \in Nat, NEW kind
    PROVE  LastOf(lines, i, kind) = 0 \/ LastOf(lines, i, kind) \in 1 .. i
<1> DEFINE before == {j \in 1 .. i : lines[j].kind = kind}
<1>1. LastOf(lines, i, kind) = IF before = {} THEN 0
                               ELSE CHOOSE j \in before : \A k \in before : k <= j
  BY DEF LastOf
<1>2. before \in SUBSET (1 .. i)
  OBVIOUS
<1> HIDE DEF before
<1>3. before # {} => \E j \in before : \A k \in before : k <= j
  BY <1>2, LastPlace
<1> QED
  BY <1>1, <1>2, <1>3

\* What a line is depends on the lines up to it, and on no line after it.
LEMMA LastOfPrefix ==
    ASSUME NEW a, NEW b, NEW i \in Nat, \A j \in 1 .. i : a[j] = b[j], NEW kind
    PROVE  LastOf(a, i, kind) = LastOf(b, i, kind)
<1> DEFINE before(s) == {j \in 1 .. i : s[j].kind = kind}
<1>1. \A s : LastOf(s, i, kind) = IF before(s) = {} THEN 0
                                 ELSE CHOOSE j \in before(s) : \A k \in before(s) : k <= j
  BY DEF LastOf
<1>2. before(a) = before(b)
  OBVIOUS
<1> HIDE DEF before
<1> QED
  BY <1>1, <1>2

LEMMA CountsPrefix ==
    ASSUME NEW a, NEW b, NEW i \in Nat, \A j \in 1 .. i : a[j] = b[j]
    PROVE  \A j \in 1 .. i : IsCount(a, j) <=> IsCount(b, j)
<1> SUFFICES ASSUME NEW j \in 1 .. i PROVE IsCount(a, j) <=> IsCount(b, j)
  OBVIOUS
<1>1. j \in Nat /\ \A k \in 1 .. j : a[k] = b[k]
  OBVIOUS
<1>2. LastOf(a, j, "model") = LastOf(b, j, "model")
  BY <1>1, LastOfPrefix
<1> QED
  BY <1>2 DEF IsCount, IsUsage

LEMMA NewsPrefix ==
    ASSUME NEW a, NEW b, NEW i \in Nat, \A j \in 1 .. i : a[j] = b[j]
    PROVE  News(a, i) = News(b, i)
<1>1. \A j \in 1 .. i : IsCount(a, j) <=> IsCount(b, j)
  BY CountsPrefix
<1>2. ASSUME NEW j \in 1 .. i
      PROVE  IsRepeated(a, j) <=> IsRepeated(b, j)
  <2>1. \A k \in 1 .. j - 1 : k \in 1 .. i /\ a[k] = b[k] /\ a[j] = b[j]
    OBVIOUS
  <2>2. {k \in 1 .. j - 1 : IsCount(a, k)} = {k \in 1 .. j - 1 : IsCount(b, k)}
    BY <1>1, <2>1
  <2> QED
    BY <2>1, <2>2 DEF IsRepeated
<1> QED
  BY <1>1, <1>2 DEF News

LEMMA CopyPrefix ==
    ASSUME NEW a, NEW b, NEW i \in Nat \ {0}, \A j \in 1 .. i : a[j] = b[j]
    PROVE  IsCopy(a, i) <=> IsCopy(b, i)
<1> DEFINE anchor(s, j) == IF News(s, j - 1) = {} THEN 1
                           ELSE CHOOSE k \in News(s, j - 1) : \A l \in News(s, j - 1) : l <= k
<1>1. \A s : IsCopy(s, i) <=> /\ s[1].kind = "fork"
                              /\ \A j \in News(s, i) : s[j].at = s[anchor(s, j)].at
  BY DEF IsCopy
<1>2. News(a, i) = News(b, i)
  BY NewsPrefix
<1>3. ASSUME NEW j \in News(a, i)
      PROVE  /\ anchor(a, j) = anchor(b, j)
             /\ anchor(a, j) \in 1 .. i
             /\ j \in 1 .. i
  <2>1. j \in 1 .. i
    BY DEF News
  <2>2. j - 1 \in Nat /\ \A k \in 1 .. j - 1 : a[k] = b[k]
    BY <2>1
  <2>3. News(a, j - 1) = News(b, j - 1)
    BY <2>2, NewsPrefix
  <2>4. News(a, j - 1) \in SUBSET (1 .. j - 1)
    BY DEF News
  <2>5. News(a, j - 1) # {} => \E k \in News(a, j - 1) : \A l \in News(a, j - 1) : l <= k
    BY <2>2, <2>4, LastPlace
  <2> QED
    BY <2>1, <2>3, <2>4, <2>5
<1>4. 1 \in 1 .. i
  OBVIOUS
<1> HIDE DEF anchor
<1> QED
  BY <1>1, <1>2, <1>3, <1>4

LEMMA RecordPrefix ==
    ASSUME NEW p, NEW a, NEW b, NEW i \in Nat \ {0}, \A j \in 1 .. i : a[j] = b[j]
    PROVE  /\ IsRecordAt(p, a, i) <=> IsRecordAt(p, b, i)
           /\ \A c : RecordAt(p, a, i, c) = RecordAt(p, b, i, c)
<1>1. a[1] = b[1] /\ a[i] = b[i]
  OBVIOUS
<1>2. News(a, i) = News(b, i) /\ (IsCopy(a, i) <=> IsCopy(b, i))
  BY NewsPrefix, CopyPrefix
<1>3. LastOf(a, i, "model") = LastOf(b, i, "model")
  BY LastOfPrefix
<1>4. LastOf(a, i, "model") = 0 \/ LastOf(a, i, "model") \in 1 .. i
  BY LastOfIs
<1>5. Selected(a, i) = Selected(b, i) /\ Route(a, i) = Route(b, i)
  BY <1>1, <1>3, <1>4 DEF Selected, Route
<1> QED
  BY <1>1, <1>2, <1>5 DEF IsRecordAt, RecordAt, IsUsage

\* The first lines of two files are the same, and so are their records.
SameLines(n, a, b) == \A i \in 1 .. n : a[i] = b[i]

SameRecords(p, n, a, b) ==
    \A i \in 1 .. n : /\ IsRecordAt(p, a, i) <=> IsRecordAt(p, b, i)
                      /\ \A c : RecordAt(p, a, i, c) = RecordAt(p, b, i, c)

LEMMA RecordPrefixes ==
    ASSUME NEW p, NEW n \in Nat, NEW a, NEW b, SameLines(n, a, b)
    PROVE  SameRecords(p, n, a, b)
<1> SUFFICES ASSUME NEW i \in 1 .. n
             PROVE  /\ IsRecordAt(p, a, i) <=> IsRecordAt(p, b, i)
                    /\ \A c : RecordAt(p, a, i, c) = RecordAt(p, b, i, c)
  BY DEF SameRecords
<1>1. i \in Nat \ {0} /\ \A j \in 1 .. i : a[j] = b[j]
  BY DEF SameLines
<1> QED
  BY <1>1, RecordPrefix

LEMMA RecordFacts ==
    ASSUME NEW p, NEW lines, NEW i, NEW c, NEW d
    PROVE  /\ RecordAt(p, lines, i, c).at = lines[i].at
           /\ RecordAt(p, lines, i, c).key = RecordAt(p, lines, i, d).key
           /\ p # "grok" => RecordAt(p, lines, i, c) = RecordAt(p, lines, i, d)
           /\ p = "grok" =>
                 RecordAt(p, lines, i, d) =
                 [RecordAt(p, lines, i, c) EXCEPT
                     !.domain = GrokDomain(RecordAt(p, lines, i, c).model,
                                           RecordAt(p, lines, i, c).selected, d)]
  BY DEF RecordAt, Record

\* The lines of a file up to one of them.
LEMMA LinesAre ==
    ASSUME script \in Scripts, NEW f \in Files, NEW n \in Nat, n <= Len(script.lines[f])
    PROVE  /\ Len(script.lines[f]) \in Nat
           /\ DOMAIN script.lines[f] = 1 .. Len(script.lines[f])
           /\ DOMAIN LinesOf(f, n) = 1 .. n
           /\ \A i \in 1 .. n : LinesOf(f, n)[i] = script.lines[f][i]
<1> DEFINE lines == script.lines[f]
           S == {lines[i] : i \in DOMAIN lines}
<1>1. lines \in Seq(S)
  BY TranscriptsAssumption DEF TranscriptsAssumption
<1> HIDE DEF S
<1>2. Len(lines) \in Nat /\ DOMAIN lines = 1 .. Len(lines)
  BY <1>1
<1>3. \A i \in 1 .. n : lines[i] \in S
  <2>1. n <= Len(lines)
    OBVIOUS
  <2> QED
    BY <1>1, <1>2, <2>1
<1> HIDE DEF lines
<1>4. LinesOf(f, n) = SubSeq(lines, 1, n)
  BY DEF LinesOf, lines
<1>5. n \in Nat
  OBVIOUS
<1>6. /\ SubSeq(lines, 1, n) \in Seq(S)
      /\ Len(SubSeq(lines, 1, n)) = IF 1 <= n THEN n - 1 + 1 ELSE 0
      /\ \A i \in 1 .. n - 1 + 1 : SubSeq(lines, 1, n)[i] = lines[1 + i - 1]
  BY <1>3, <1>5, SubSeqProperties
<1>7. DOMAIN SubSeq(lines, 1, n) = 1 .. n
  BY <1>5, <1>6
<1>8. \A i \in 1 .. n : SubSeq(lines, 1, n)[i] = lines[i]
  BY <1>5, <1>6
<1> QED
  BY <1>2, <1>4, <1>7, <1>8 DEF lines

\* The places of the records in the first lines of a file, and what they tell.
RecordPlaces(s, f, n) == {i \in 1 .. n : IsRecordAt(s.provider, s.lines[f], i)}

ParsedIn(s, f, n, c) ==
    [k \in 1 .. Cardinality(RecordPlaces(s, f, n)) |->
        RecordAt(s.provider, s.lines[f], InOrder(RecordPlaces(s, f, n))[k], c)]

RecordsIn(s, f, n, c) ==
    {RecordAt(s.provider, s.lines[f], i, c) : i \in RecordPlaces(s, f, n)}

LEMMA ParsedOf ==
    ASSUME script \in Scripts, NEW f \in Files, NEW n \in Nat, n <= Len(script.lines[f]), NEW c
    PROVE  Parsed(LinesOf(f, n), c) = ParsedIn(script, f, n, c)
<1> DEFINE P == RecordPlaces(script, f, n)
           lines == LinesOf(f, n)
           all == script.lines[f]
           p == script.provider
<1>1. /\ Len(script.lines[f]) \in Nat
      /\ DOMAIN lines = 1 .. n
      /\ \A i \in 1 .. n : lines[i] = script.lines[f][i]
  BY LinesAre
<1>2. n \in Nat
  OBVIOUS
<1> HIDE DEF lines, all, p
<1>3. \A i \in 1 .. n : /\ IsRecordAt(p, lines, i) <=> IsRecordAt(p, all, i)
                        /\ RecordAt(p, lines, i, c) = RecordAt(p, all, i, c)
  <2>1. SameLines(n, lines, all)
    BY <1>1 DEF all, SameLines
  <2>2. SameRecords(p, n, lines, all)
    BY <2>1, RecordPrefixes
  <2> QED
    BY <2>2 DEF SameRecords
<1>4. P = {i \in 1 .. n : IsRecordAt(script.provider, lines, i)}
  BY <1>3 DEF RecordPlaces, all, p
<1>5. P \in SUBSET (1 .. n)
  BY DEF RecordPlaces
<1> HIDE DEF P
<1>6. /\ Cardinality(P) \in Nat
      /\ InOrder(P) \in [1 .. Cardinality(P) -> P]
  BY <1>2, <1>5, InOrderIs
<1>7. /\ DOMAIN InOrder(P) = 1 .. Cardinality(P)
      /\ Parsed(lines, c) =
            [k \in DOMAIN InOrder(P) |-> RecordAt(script.provider, lines, InOrder(P)[k], c)]
  BY <1>1, <1>2, <1>4, ParsedIs
<1>8. \A k \in 1 .. Cardinality(P) :
         RecordAt(p, lines, InOrder(P)[k], c) = RecordAt(p, all, InOrder(P)[k], c)
  BY <1>3, <1>5, <1>6
<1>9. Parsed(lines, c) = [k \in 1 .. Cardinality(P) |-> RecordAt(p, all, InOrder(P)[k], c)]
  BY <1>7, <1>8 DEF p
<1> QED
  BY <1>9 DEF P, lines, all, p, ParsedIn

\* A sequence tells what a set holds.
Lists(sequence, set) == \A x : x \in set <=> \E i \in DOMAIN sequence : sequence[i] = x

LEMMA ParsedInIs ==
    ASSUME NEW s, NEW f, NEW n \in Nat, NEW c
    PROVE  /\ ParsedIn(s, f, n, c) \in Seq(RecordsIn(s, f, n, c))
           /\ Lists(ParsedIn(s, f, n, c), RecordsIn(s, f, n, c))
<1> DEFINE P == RecordPlaces(s, f, n)
           N == Cardinality(P)
           o == InOrder(P)
           record(i) == RecordAt(s.provider, s.lines[f], i, c)
           parsed == [k \in 1 .. N |-> record(o[k])]
<1>1. P \in SUBSET (1 .. n)
  BY DEF RecordPlaces
<1> HIDE DEF P
<1>2. /\ N \in Nat
      /\ o \in [1 .. N -> P]
      /\ \A i \in P : \E k \in 1 .. N : o[k] = i
  BY <1>1, InOrderIs
<1> HIDE DEF N, o, record
<1>3. {parsed[i] : i \in DOMAIN parsed} = {record(i) : i \in P}
  BY <1>2
<1>4. parsed \in Seq({parsed[i] : i \in DOMAIN parsed})
  BY <1>2
<1>5. ParsedIn(s, f, n, c) = parsed
  BY DEF ParsedIn, P, N, o, record
<1>6. RecordsIn(s, f, n, c) = {record(i) : i \in P}
  BY DEF RecordsIn, P, record
<1>7. Lists(parsed, {record(i) : i \in P})
  BY <1>3 DEF Lists
<1> HIDE DEF parsed
<1> QED
  BY <1>3, <1>4, <1>5, <1>6, <1>7

\* What is appended to a file takes nothing away.
LEMMA RecordsGrow ==
    ASSUME NEW s, NEW f, NEW n \in Nat, NEW m \in Nat, n <= m, NEW c
    PROVE  RecordsIn(s, f, n, c) \subseteq RecordsIn(s, f, m, c)
<1>1. RecordPlaces(s, f, n) \subseteq RecordPlaces(s, f, m)
  BY DEF RecordPlaces
<1> QED
  BY <1>1 DEF RecordsIn

\* The configuration changes neither the keys nor the times.
LEMMA SameKeys ==
    ASSUME NEW s, NEW f, NEW n, NEW c, NEW d
    PROVE  /\ \A x \in RecordsIn(s, f, n, c) :
                 /\ \E y \in RecordsIn(s, f, n, d) : y.key = x.key /\ y.at = x.at
                 /\ \E i \in 1 .. n : x.at = s.lines[f][i].at
           /\ s.provider # "grok" => RecordsIn(s, f, n, c) = RecordsIn(s, f, n, d)
<1> DEFINE p == s.provider
           lines == s.lines[f]
           P == RecordPlaces(s, f, n)
<1>1. /\ RecordsIn(s, f, n, c) = {RecordAt(p, lines, i, c) : i \in P}
      /\ RecordsIn(s, f, n, d) = {RecordAt(p, lines, i, d) : i \in P}
  BY DEF RecordsIn
<1>2. P \subseteq 1 .. n
  BY DEF RecordPlaces
<1> HIDE DEF p, lines, P
<1>3. \A i : /\ RecordAt(p, lines, i, c).at = lines[i].at
             /\ RecordAt(p, lines, i, d).at = lines[i].at
             /\ RecordAt(p, lines, i, c).key = RecordAt(p, lines, i, d).key
             /\ p # "grok" => RecordAt(p, lines, i, c) = RecordAt(p, lines, i, d)
  BY RecordFacts
<1> QED
  BY <1>1, <1>2, <1>3 DEF p, lines

LEMMA RemappedIs ==
    ASSUME NEW f, NEW n, NEW c
    PROVE  Remapped(ParsedIn(script, f, n, c)) = ParsedIn(script, f, n, Loaded)
<1> DEFINE P == RecordPlaces(script, f, n)
           N == Cardinality(P)
           o == InOrder(P)
           p == script.provider
           lines == script.lines[f]
           parsed == ParsedIn(script, f, n, c)
<1>1. parsed = [k \in 1 .. N |-> RecordAt(p, lines, o[k], c)]
  BY DEF ParsedIn
<1>2. ParsedIn(script, f, n, Loaded) = [k \in 1 .. N |-> RecordAt(p, lines, o[k], Loaded)]
  BY DEF ParsedIn
<1>3. ASSUME p = "grok"
      PROVE  Remapped(parsed) =
             [k \in DOMAIN parsed |->
                [parsed[k] EXCEPT !.domain = GrokDomain(parsed[k].model, parsed[k].selected,
                                                        Loaded)]]
  BY <1>3 DEF Remapped
<1>4. ASSUME p # "grok"
      PROVE  Remapped(parsed) = parsed
  BY <1>4 DEF Remapped
<1> HIDE DEF P, N, o, p, lines, parsed
<1>5. \A i : /\ p # "grok" => RecordAt(p, lines, i, c) = RecordAt(p, lines, i, Loaded)
             /\ p = "grok" =>
                   RecordAt(p, lines, i, Loaded) =
                   [RecordAt(p, lines, i, c) EXCEPT
                       !.domain = GrokDomain(RecordAt(p, lines, i, c).model,
                                             RecordAt(p, lines, i, c).selected, Loaded)]
  BY RecordFacts
<1>6. Remapped(parsed) = ParsedIn(script, f, n, Loaded)
  <2>1. CASE p = "grok"
    <3>1. DOMAIN parsed = 1 .. N /\ \A k \in 1 .. N : parsed[k] = RecordAt(p, lines, o[k], c)
      BY <1>1
    <3>2. \A k \in 1 .. N :
             [parsed[k] EXCEPT !.domain = GrokDomain(parsed[k].model, parsed[k].selected, Loaded)]
             = RecordAt(p, lines, o[k], Loaded)
      BY <1>5, <2>1, <3>1
    <3> QED
      BY <1>2, <1>3, <2>1, <3>1, <3>2
  <2>2. CASE p # "grok"
    BY <1>1, <1>2, <1>4, <1>5, <2>2
  <2> QED
    BY <2>1, <2>2
<1> QED
  BY <1>6 DEF parsed

\* No key is there twice; and times are numbers.
KeyedOnce(records) ==
    \A i, j \in DOMAIN records : records[i].key = records[j].key => i = j

HasTimes(S) == \A x \in S : x.at \in Int

\* What is told was told before or is of the records, and all that is recent of these is told.
IsFrom(told, before, records) ==
    \A i \in DOMAIN told : \/ \E j \in DOMAIN before : told[i] = before[j]
                           \/ \E j \in DOMAIN records : told[i] = records[j]

TellsAll(told, before, records, cut) ==
    /\ \A j \in DOMAIN before : \E i \in DOMAIN told : told[i] = before[j]
    /\ \A j \in DOMAIN records : records[j].at >= cut =>
          \E i \in DOMAIN told : told[i].key = records[j].key

\* What is told after the records of one more file.
LEMMA TellsIs ==
    ASSUME NEW S, NEW read, NEW records, records \in Seq(S), read.told \in Seq(S), read.cutoff \in Int,
           HasTimes(S), KeyedOnce(read.told), NEW told, told = Tells(read, records).told,
           "told" \in DOMAIN read
    PROVE  /\ told \in Seq(S)
           /\ KeyedOnce(told)
           /\ IsFrom(told, read.told, records)
           /\ TellsAll(told, read.told, records, read.cutoff)
<1> DEFINE recent == {i \in DOMAIN records : records[i].at >= read.cutoff}
           new == {i \in recent :
                     /\ \A n \in DOMAIN read.told : read.told[n].key # records[i].key
                     /\ \A j \in recent : j < i => records[j].key # records[i].key}
           N == Cardinality(new)
           o == InOrder(new)
           more == [n \in DOMAIN o |-> records[o[n]]]
<1>1. told = read.told \o more
  BY DEF Tells
<1>2. Len(records) \in Nat /\ DOMAIN records = 1 .. Len(records)
  OBVIOUS
<1>3. recent \in SUBSET (1 .. Len(records)) /\ new \in SUBSET (1 .. Len(records))
  BY <1>2
<1>4. /\ N \in Nat
      /\ o \in [1 .. N -> new]
      /\ \A i \in new : \E k \in 1 .. N : o[k] = i
      /\ \A k, l \in 1 .. N : o[k] = o[l] => k = l
  <2> HIDE DEF new
  <2> QED
    BY <1>2, <1>3, InOrderIs
<1>5. \A i \in new : /\ i \in recent /\ i \in DOMAIN records
                     /\ \A n \in DOMAIN read.told : read.told[n].key # records[i].key
                     /\ \A j \in recent : j < i => records[j].key # records[i].key
  OBVIOUS
<1>6. ASSUME NEW j \in recent, \A n \in DOMAIN read.told : read.told[n].key # records[j].key
      PROVE  \E i \in new : records[i].key = records[j].key
  <2> DEFINE Q == {i \in recent : records[i].key = records[j].key}
  <2>1. Q \in SUBSET (1 .. Len(records)) /\ Q # {}
    BY <1>3
  <2> HIDE DEF Q
  <2>2. PICK i \in Q : \A k \in Q : i <= k
    BY <1>2, <2>1, FirstPlace
  <2>3. i \in recent /\ records[i].key = records[j].key
    BY <2>2 DEF Q
  <2>4. ASSUME NEW k \in recent, k < i PROVE records[k].key # records[i].key
    <3>1. k \in Int /\ i \in Int
      BY <1>3, <2>3
    <3>2. k \notin Q
      BY <2>2, <2>4, <3>1
    <3> QED
      BY <2>3, <3>2 DEF Q
  <2>5. i \in new
    BY <1>6, <2>3, <2>4
  <2> QED
    BY <2>3, <2>5
<1> HIDE DEF new, N, o
<1>7. DOMAIN more = 1 .. N /\ \A n \in 1 .. N : more[n] = records[o[n]] /\ o[n] \in new
  BY <1>4
<1>8. \A i \in DOMAIN records : records[i] \in S
  BY <1>2
<1>9. more \in Seq(S) /\ Len(more) = N
  <2>1. \A n \in 1 .. N : more[n] \in S
    BY <1>5, <1>7, <1>8
  <2>2. more \in [1 .. N -> S]
    BY <1>4, <1>7, <2>1
  <2> QED
    BY <1>4, <2>2
<1> DEFINE t == read.told
           T == Len(t)
<1>10. T \in Nat /\ DOMAIN t = 1 .. T /\ t \in Seq(S)
  OBVIOUS
<1> HIDE DEF more, t, T
<1>11. /\ told \in Seq(S) /\ Len(told) = T + N
       /\ \A i \in 1 .. T + N : told[i] = IF i <= T THEN t[i] ELSE more[i - T]
  <2>1. told = t \o more
    BY <1>1 DEF t
  <2>2. /\ t \o more \in Seq(S) /\ Len(t \o more) = Len(t) + Len(more)
        /\ \A i \in 1 .. Len(t) + Len(more) :
              (t \o more)[i] = IF i <= Len(t) THEN t[i] ELSE more[i - Len(t)]
    BY <1>9, <1>10, ConcatProperties
  <2>3. Len(t) = T
    BY DEF T
  <2> QED
    BY <1>9, <2>1, <2>2, <2>3
<1>12. /\ DOMAIN told = 1 .. T + N
       /\ \A i \in 1 .. T : i \in DOMAIN told /\ told[i] = t[i]
       /\ \A n \in 1 .. N : T + n \in DOMAIN told /\ told[T + n] = more[n]
       /\ \A i \in DOMAIN told : i \in 1 .. T \/ \E n \in 1 .. N : i = T + n
  <2>1. DOMAIN told = 1 .. T + N
    BY <1>4, <1>10, <1>11
  <2>2. ASSUME NEW i \in 1 .. T PROVE i \in DOMAIN told /\ told[i] = t[i]
    BY <1>4, <1>10, <1>11, <2>1
  <2>3. ASSUME NEW n \in 1 .. N PROVE T + n \in DOMAIN told /\ told[T + n] = more[n]
    <3>1. T + n \in 1 .. T + N /\ ~(T + n <= T) /\ (T + n) - T = n
      BY <1>4, <1>10
    <3> QED
      BY <1>11, <2>1, <3>1
  <2>4. ASSUME NEW i \in DOMAIN told, i \notin 1 .. T PROVE \E n \in 1 .. N : i = T + n
    <3>1. i - T \in 1 .. N /\ i = T + (i - T)
      BY <1>4, <1>10, <2>1, <2>4
    <3> QED
      BY <3>1
  <2> QED
    BY <2>1, <2>2, <2>3, <2>4
<1>13. ASSUME NEW n \in 1 .. N, NEW m \in 1 .. N, more[n].key = more[m].key
       PROVE  n = m
  <2>1. /\ o[n] \in recent /\ o[m] \in recent
        /\ records[o[n]].key = records[o[m]].key
        /\ ~(o[n] < o[m]) /\ ~(o[m] < o[n])
    BY <1>5, <1>7, <1>13
  <2>2. o[n] \in Int /\ o[m] \in Int
    BY <1>3, <2>1
  <2>3. o[n] = o[m]
    BY <2>1, <2>2
  <2> QED
    BY <1>4, <2>3
<1>14. \A i \in 1 .. T, n \in 1 .. N : t[i].key # more[n].key
  BY <1>5, <1>7, <1>10 DEF t
<1>15. \A i, j \in 1 .. T : t[i].key = t[j].key => i = j
  BY <1>10 DEF t, KeyedOnce
<1>16. ASSUME NEW i \in DOMAIN told, NEW j \in DOMAIN told, told[i].key = told[j].key
       PROVE  i = j
  <2>1. CASE i \in 1 .. T /\ j \in 1 .. T
    BY <1>12, <1>15, <1>16, <2>1
  <2>2. CASE i \in 1 .. T /\ j \notin 1 .. T
    BY <1>12, <1>14, <1>16, <2>2
  <2>3. CASE i \notin 1 .. T /\ j \in 1 .. T
    BY <1>12, <1>14, <1>16, <2>3
  <2>4. CASE i \notin 1 .. T /\ j \notin 1 .. T
    <3>1. PICK n \in 1 .. N, m \in 1 .. N : i = T + n /\ j = T + m
      BY <1>12, <2>4
    <3>2. more[n].key = more[m].key
      BY <1>12, <1>16, <3>1
    <3> QED
      BY <1>13, <3>1, <3>2
  <2> QED
    BY <2>1, <2>2, <2>3, <2>4
<1>17. \A i \in DOMAIN told : \/ \E j \in DOMAIN t : told[i] = t[j]
                              \/ \E j \in DOMAIN records : told[i] = records[j]
  <2>1. \A n \in 1 .. N : o[n] \in DOMAIN records /\ more[n] = records[o[n]]
    BY <1>5, <1>7
  <2>2. \A i \in 1 .. T : i \in DOMAIN t
    BY <1>10
  <2> QED
    BY <1>12, <2>1, <2>2
<1>18. \A j \in DOMAIN t : \E i \in DOMAIN told : told[i] = t[j]
  BY <1>10, <1>12
<1>19. ASSUME NEW j \in DOMAIN records, records[j].at >= read.cutoff
       PROVE  \E i \in DOMAIN told : told[i].key = records[j].key
  <2>1. j \in recent
    BY <1>19
  <2>2. CASE \E n \in DOMAIN t : t[n].key = records[j].key
    BY <1>18, <2>2
  <2>3. CASE \A n \in DOMAIN t : t[n].key # records[j].key
    <3>1. PICK i \in new : records[i].key = records[j].key
      BY <1>6, <2>1, <2>3 DEF t
    <3>2. PICK n \in 1 .. N : o[n] = i
      BY <1>4, <3>1
    <3>3. T + n \in DOMAIN told /\ told[T + n] = records[i]
      BY <1>7, <1>12, <3>2
    <3> QED
      BY <3>1, <3>3
  <2> QED
    BY <2>2, <2>3
<1> QED
  BY <1>11, <1>16, <1>17, <1>18, <1>19 DEF t, KeyedOnce, IsFrom, TellsAll

-----------------------------------------------------------------------------
(* Transcripts: the inductive invariant. Its parts speak of a script s, of  *)
(* what a has been appended to its files, and of their places pl.           *)

Written == [lines : Nat, half : BOOLEAN]
Roots   == {"sessions", "archive"}
Steps   == {"none", "config", "cache", "sessions", "archive", "next", "file"}
Entries == [place : Roots, file : Files, stamp : Written]
Configs == {<<>>, CustomModels}

\* All that the files may ever tell.
Known(s) ==
    UNION {UNION {RecordsIn(s, f, n, c) : n \in 0 .. Len(s.lines[f]), c \in Configs} :
           f \in Files}

Reads(s) ==
    [step : Steps, rebuild : BOOLEAN, next : Nat \ {0}, files : Seq(Entries),
     kept : Seq(Known(s)), complete : BOOLEAN, told : Seq(Known(s)), cutoff : Int,
     since : {<<>>} \cup [Files -> Written], early : BOOLEAN]

TranscriptsTypeOK ==
    /\ script \in Scripts
    /\ appended \in [Files -> Written]
    /\ place \in [Files -> Roots \cup {"removed"}]
    /\ cutoff \in Int
    /\ cacheLoaded \in BOOLEAN
    /\ config \in {"unread", "reading", "read"}
    /\ reads \in [Readers -> Reads(script)]

\* A file has no more lines than are written into it.
FilesAreWritten(s, a) ==
    \A f \in Files : a[f].lines + (IF a[f].half THEN 1 ELSE 0) <= Len(s.lines[f])

\* What is cached of a file was parsed when it had at least the lines that its size and time
\* told, which is what makes it worth telling again as long as these are the same.
IsOfFile(s, a, f, entry) ==
    /\ entry.stamp \in Written
    /\ \E n \in 0 .. a[f].lines, c \in Configs :
          entry.stamp.lines <= n /\ entry.records = ParsedIn(s, f, n, c)

CacheIsTrue(s, a, cache) ==
    \A path \in DOMAIN cache : path \in Roots \X Files /\ IsOfFile(s, a, path[2], cache[path])

CachesAreTrue ==
    /\ CacheIsTrue(script, appended, fileCache)
    /\ cacheFile # Unreadable => CacheIsTrue(script, appended, cacheFile.files)

\* A read that has begun, in a daemon that has read the configuration, or reads it.
HasBegun(s, a, configuration, read) ==
    /\ read.since \in [Files -> Written]
    /\ \A f \in Files : read.since[f].lines <= a[f].lines
    /\ s.provider = "grok" => configuration # "unread"
    /\ read.step \in {"config", "cache", "sessions"} => read.files = <<>> /\ read.complete
    /\ read.step \in {"config", "cache", "sessions", "archive"} =>
          read.told = <<>> /\ read.next = 1
    /\ read.step \notin {"config", "cache"} /\ s.provider = "grok" /\ ~read.early =>
          configuration = "read"
    /\ read.step = "file" => read.next <= Len(read.files)

\* A file that had a line within the lookback when the read began.
IsWanted(s, read, f) ==
    \E i \in 1 .. read.since[f].lines : s.lines[f][i].at >= read.cutoff

\* Each such file is listed, at the place where it was, unless there was a gap; and with no
\* less than it had when the read began.
HasListed(s, a, pl, read) ==
    /\ \A i \in DOMAIN read.files :
          LET entry == read.files[i]
          IN  /\ read.since[entry.file].lines <= entry.stamp.lines
              /\ entry.stamp.lines <= a[entry.file].lines
    /\ read.complete /\ read.step \in {"archive", "next", "file"} =>
          \A f \in Files :
             /\ pl[f] \in (IF read.step = "archive" THEN {"sessions"} ELSE Roots)
             /\ IsWanted(s, read, f)
             => \E i \in DOMAIN read.files : read.files[i].file = f

\* What was in the files told so far, and nothing else, each key once.
HasTold(s, a, read) ==
    /\ KeyedOnce(read.told)
    /\ read.complete =>
          /\ \A i \in DOMAIN read.files : i < read.next =>
                \A x \in RecordsIn(s, read.files[i].file, read.since[read.files[i].file].lines,
                                   CustomModels) :
                   x.at >= read.cutoff => \E k \in DOMAIN read.told : read.told[k].key = x.key
          /\ \A k \in DOMAIN read.told : \E f \in Files :
                \E y \in RecordsIn(s, f, a[f].lines, CustomModels) :
                   read.told[k] = y \/ (read.early /\ read.told[k].key = y.key)

IsTrueOf(s, a, pl, configuration, read) ==
    read.step # "none" =>
        HasBegun(s, a, configuration, read) /\ HasListed(s, a, pl, read) /\ HasTold(s, a, read)

ReadsAreTrue == \A r \in Readers : IsTrueOf(script, appended, place, config, reads[r])

\* The inductive invariant.
TranscriptsInv ==
    /\ TranscriptsTypeOK /\ FilesAreWritten(script, appended) /\ CachesAreTrue /\ ReadsAreTrue

\* A script is what the assumption says.
LEMMA ScriptIs ==
    ASSUME NEW s \in Scripts, NEW f \in Files
    PROVE  /\ Len(s.lines[f]) \in Nat
           /\ DOMAIN s.lines[f] = 1 .. Len(s.lines[f])
           /\ s.start[f] \in 0 .. Len(s.lines[f])
           /\ \A i \in 1 .. Len(s.lines[f]) : s.lines[f][i].at \in Int
           /\ \A i, j \in 1 .. Len(s.lines[f]) : i <= j => s.lines[f][i].at <= s.lines[f][j].at
<1>1. s.lines[f] \in Seq({s.lines[f][i] : i \in DOMAIN s.lines[f]})
  BY TranscriptsAssumption DEF TranscriptsAssumption
<1> DEFINE S == {s.lines[f][i] : i \in DOMAIN s.lines[f]}
<1> HIDE DEF S
<1>2. s.lines[f] \in Seq(S)
  BY <1>1 DEF S
<1>3. Len(s.lines[f]) \in Nat /\ DOMAIN s.lines[f] = 1 .. Len(s.lines[f])
  BY <1>2
<1>4. s.start[f] \in 0 .. Len(s.lines[f])
  BY TranscriptsAssumption DEF TranscriptsAssumption
<1>5. \A i, j \in DOMAIN s.lines[f] :
         s.lines[f][i].at \in Int /\ (i <= j => s.lines[f][i].at <= s.lines[f][j].at)
  BY TranscriptsAssumption DEF TranscriptsAssumption
<1> QED
  BY <1>3, <1>4, <1>5

\* What may ever be told of a file.
LEMMA KnownIs ==
    ASSUME NEW s \in Scripts, NEW f \in Files, NEW n \in Nat, n <= Len(s.lines[f]),
           NEW c \in Configs
    PROVE  /\ RecordsIn(s, f, n, c) \subseteq Known(s)
           /\ ParsedIn(s, f, n, c) \in Seq(Known(s))
<1>1. n \in 0 .. Len(s.lines[f])
  BY ScriptIs
<1>2. RecordsIn(s, f, n, c) \subseteq Known(s)
  BY <1>1 DEF Known
<1>3. ParsedIn(s, f, n, c) \in Seq(RecordsIn(s, f, n, c))
  BY ParsedInIs
<1> QED
  BY <1>2, <1>3, SeqMonotonic

LEMMA KnownHasTimes ==
    ASSUME NEW s \in Scripts, NEW x \in Known(s)
    PROVE  x.at \in Int
<1>0. PICK f \in Files :
         x \in UNION {RecordsIn(s, f, n, c) : n \in 0 .. Len(s.lines[f]), c \in Configs}
  BY DEF Known
<1>1. PICK n \in 0 .. Len(s.lines[f]), c \in Configs : x \in RecordsIn(s, f, n, c)
  BY <1>0
<1>2. PICK i \in 1 .. n : x.at = s.lines[f][i].at
  BY <1>1, SameKeys
<1>3. i \in 1 .. Len(s.lines[f])
  BY <1>2, ScriptIs
<1> QED
  BY <1>2, <1>3, ScriptIs

LEMMA NotReadingIs ==
    ASSUME NEW s
    PROVE  NotReading \in Reads(s) /\ NotReading.step = "none"
<1>1. <<>> \in Seq(Entries) /\ <<>> \in Seq(Known(s))
  BY EmptySeq
<1> QED
  BY <1>1 DEF NotReading, Reads, Steps

LEMMA InitTranscriptsInv == TranscriptsInit => TranscriptsInv
<1> SUFFICES ASSUME TranscriptsInit PROVE TranscriptsInv
  OBVIOUS
<1>1. \A f \in Files : /\ script.start[f] \in 0 .. Len(script.lines[f])
                       /\ Len(script.lines[f]) \in Nat
  BY ScriptIs DEF TranscriptsInit
<1>2. appended = [f \in Files |-> [lines |-> script.start[f], half |-> FALSE]]
  BY DEF TranscriptsInit
<1>3. \A f \in Files : appended[f].lines = script.start[f] /\ appended[f].half = FALSE
  BY <1>2
<1>4. appended \in [Files -> Written]
  <2>1. \A f \in Files : [lines |-> script.start[f], half |-> FALSE] \in Written
    BY <1>1 DEF Written
  <2> QED
    BY <1>2, <2>1
<1>5. reads \in [Readers -> Reads(script)]
  BY NotReadingIs DEF TranscriptsInit
<1>6. TranscriptsTypeOK
  <2>1. place \in [Files -> Roots \cup {"removed"}]
    BY DEF TranscriptsInit, Roots
  <2>2. script \in Scripts /\ cutoff = 0 /\ cacheLoaded = FALSE /\ config = "unread"
    BY DEF TranscriptsInit
  <2>3. cacheLoaded \in BOOLEAN /\ config \in {"unread", "reading", "read"}
    BY <2>2
  <2>4. cutoff \in Int
    BY <2>2
  <2> QED
    BY <1>4, <1>5, <2>1, <2>3, <2>4, <2>2 DEF TranscriptsTypeOK
<1>7. FilesAreWritten(script, appended)
  BY <1>1, <1>3 DEF FilesAreWritten
<1>8. CachesAreTrue
  BY DEF TranscriptsInit, CachesAreTrue, CacheIsTrue, StoredCache
<1>9. ReadsAreTrue
  BY NotReadingIs DEF TranscriptsInit, ReadsAreTrue, IsTrueOf
<1> QED
  BY <1>6, <1>7, <1>8, <1>9 DEF TranscriptsInv

-----------------------------------------------------------------------------
(* Transcripts: the agent, whose files only grow and are moved one way.     *)

LEMMA CacheStaysTrue ==
    ASSUME NEW s \in Scripts, NEW a \in [Files -> Written], NEW b \in [Files -> Written],
           \A f \in Files : a[f].lines <= b[f].lines,
           NEW cache, CacheIsTrue(s, a, cache)
    PROVE  CacheIsTrue(s, b, cache)
<1> SUFFICES ASSUME NEW path \in DOMAIN cache
             PROVE  path \in Roots \X Files /\ IsOfFile(s, b, path[2], cache[path])
  BY DEF CacheIsTrue
<1>1. path \in Roots \X Files /\ IsOfFile(s, a, path[2], cache[path])
  BY DEF CacheIsTrue
<1>2. path[2] \in Files
  BY <1>1
<1>3. a[path[2]].lines \in Nat /\ b[path[2]].lines \in Nat
  BY <1>2 DEF Written
<1>4. \A n \in 0 .. a[path[2]].lines : n \in 0 .. b[path[2]].lines
  BY <1>2, <1>3
<1> QED
  BY <1>1, <1>4 DEF IsOfFile

LEMMA ReadStaysTrue ==
    ASSUME NEW s \in Scripts, NEW a \in [Files -> Written], NEW b \in [Files -> Written],
           \A f \in Files : a[f].lines <= b[f].lines,
           NEW pl, NEW ql, \A f \in Files : (ql[f] \in Roots => pl[f] \in Roots)
                                            /\ (ql[f] = "sessions" => pl[f] = "sessions"),
           NEW configuration, NEW read \in Reads(s), IsTrueOf(s, a, pl, configuration, read)
    PROVE  IsTrueOf(s, b, ql, configuration, read)
<1> SUFFICES ASSUME read.step # "none"
             PROVE  /\ HasBegun(s, b, configuration, read)
                    /\ HasListed(s, b, ql, read)
                    /\ HasTold(s, b, read)
  BY DEF IsTrueOf
<1>1. /\ HasBegun(s, a, configuration, read)
      /\ HasListed(s, a, pl, read)
      /\ HasTold(s, a, read)
  BY DEF IsTrueOf
<1>2. \A f \in Files : /\ a[f].lines \in Nat /\ b[f].lines \in Nat
                       /\ read.since[f].lines \in Nat
  BY <1>1 DEF Written, HasBegun
<1>3. HasBegun(s, b, configuration, read)
  <2>1. \A f \in Files : read.since[f].lines <= b[f].lines
    BY <1>1, <1>2 DEF HasBegun
  <2> QED
    BY <1>1, <2>1 DEF HasBegun
<1>4. \A i \in DOMAIN read.files : /\ read.files[i].file \in Files
                                   /\ read.files[i].stamp.lines \in Nat
  <2>1. read.files \in Seq(Entries)
    BY DEF Reads
  <2>2. \A i \in DOMAIN read.files : read.files[i] \in Entries
    BY <2>1
  <2> QED
    BY <2>2 DEF Entries, Written
<1>5. HasListed(s, b, ql, read)
  <2>1. \A i \in DOMAIN read.files :
           /\ read.since[read.files[i].file].lines <= read.files[i].stamp.lines
           /\ read.files[i].stamp.lines <= b[read.files[i].file].lines
    BY <1>1, <1>2, <1>4 DEF HasListed
  <2>2. ASSUME read.complete, read.step \in {"archive", "next", "file"}, NEW f \in Files,
               ql[f] \in (IF read.step = "archive" THEN {"sessions"} ELSE Roots),
               IsWanted(s, read, f)
        PROVE  \E i \in DOMAIN read.files : read.files[i].file = f
    <3>1. pl[f] \in (IF read.step = "archive" THEN {"sessions"} ELSE Roots)
      BY <2>2
    <3> QED
      BY <1>1, <2>2, <3>1 DEF HasListed
  <2> QED
    BY <2>1, <2>2 DEF HasListed
<1>6. HasTold(s, b, read)
  <2>1. \A f \in Files : RecordsIn(s, f, a[f].lines, CustomModels)
                         \subseteq RecordsIn(s, f, b[f].lines, CustomModels)
    BY <1>2, RecordsGrow
  <2>2. ASSUME read.complete, NEW k \in DOMAIN read.told
        PROVE  \E f \in Files : \E y \in RecordsIn(s, f, b[f].lines, CustomModels) :
                  read.told[k] = y \/ (read.early /\ read.told[k].key = y.key)
    BY <1>1, <2>1, <2>2 DEF HasTold
  <2> QED
    BY <1>1, <2>2 DEF HasTold
<1> QED
  BY <1>3, <1>5, <1>6

LEMMA AgentKeeps ==
    ASSUME TranscriptsInv, UNCHANGED script, UNCHANGED readVars,
           appended' \in [Files -> Written],
           FilesAreWritten(script, appended'),
           \A f \in Files : appended[f].lines <= appended'[f].lines,
           place' \in [Files -> Roots \cup {"removed"}],
           \A f \in Files : /\ place'[f] \in Roots => place[f] \in Roots
                            /\ place'[f] = "sessions" => place[f] = "sessions",
           cutoff' \in Int
    PROVE  TranscriptsInv'
<1>1. TranscriptsTypeOK /\ CachesAreTrue /\ ReadsAreTrue
  BY DEF TranscriptsInv
<1>2. /\ script \in Scripts /\ appended \in [Files -> Written]
      /\ \A r \in Readers : reads[r] \in Reads(script)
  BY <1>1 DEF TranscriptsTypeOK
<1>3. TranscriptsTypeOK'
  BY <1>1 DEF TranscriptsTypeOK, readVars
<1>4. FilesAreWritten(script, appended)'
  OBVIOUS
<1>5. CachesAreTrue'
  BY <1>1, <1>2, CacheStaysTrue DEF CachesAreTrue, readVars, Unreadable
<1>6. ReadsAreTrue'
  <2> SUFFICES ASSUME NEW r \in Readers
               PROVE  IsTrueOf(script, appended', place', config, reads[r])
    BY DEF ReadsAreTrue, readVars
  <2>1. IsTrueOf(script, appended, place, config, reads[r]) /\ reads[r] \in Reads(script)
    BY <1>1, <1>2 DEF ReadsAreTrue
  <2> QED
    BY <1>2, <2>1, ReadStaysTrue
<1> QED
  BY <1>3, <1>4, <1>5, <1>6 DEF TranscriptsInv

LEMMA AgentActionKeeps ==
    ASSUME TranscriptsInv,
           LookbackMoves \/ \E f \in Files : Write(f) \/ Archive(f) \/ RemoveFile(f)
    PROVE  TranscriptsInv'
<1>1. /\ TranscriptsTypeOK /\ FilesAreWritten(script, appended)
      /\ script \in Scripts /\ appended \in [Files -> Written] /\ cutoff \in Int
      /\ place \in [Files -> Roots \cup {"removed"}]
  BY DEF TranscriptsInv, TranscriptsTypeOK
<1>2. \A f \in Files : /\ appended[f].lines \in Nat
                       /\ Len(script.lines[f]) \in Nat
  BY <1>1, ScriptIs DEF Written
<1>3. CASE LookbackMoves
  <2>1. /\ UNCHANGED script /\ UNCHANGED readVars /\ UNCHANGED <<appended, place>>
        /\ cutoff' \in Int
    BY <1>1, <1>3 DEF LookbackMoves
  <2>2. \A f \in Files : appended[f].lines <= appended'[f].lines
    BY <1>2, <2>1
  <2> QED
    BY <1>1, <2>1, <2>2, AgentKeeps
<1>4. ASSUME NEW f \in Files, Write(f)
      PROVE  TranscriptsInv'
  <2>1. PICK half \in BOOLEAN :
            appended' = [appended EXCEPT ![f] =
                            [half |-> half, lines |-> IF half THEN appended[f].lines
                                                      ELSE appended[f].lines + 1]]
    BY <1>4 DEF Write
  <2>2. /\ appended[f].lines < Len(script.lines[f])
        /\ UNCHANGED <<script, place, cutoff>> /\ UNCHANGED readVars
    BY <1>4 DEF Write
  <2> DEFINE n == IF half THEN appended[f].lines ELSE appended[f].lines + 1
  <2>3. n \in Nat /\ appended[f].lines <= n /\ n + (IF half THEN 1 ELSE 0) <= Len(script.lines[f])
    BY <1>2, <2>2
  <2>4. appended' = [appended EXCEPT ![f] = [half |-> half, lines |-> n]]
    BY <2>1
  <2> HIDE DEF n
  <2>5. [half |-> half, lines |-> n] \in Written
    BY <2>3 DEF Written
  <2>6. appended' \in [Files -> Written]
    BY <1>1, <2>4, <2>5
  <2>7. \A g \in Files : appended'[g] = IF g = f THEN [half |-> half, lines |-> n]
                                        ELSE appended[g]
    BY <1>1, <2>4
  <2>8. FilesAreWritten(script, appended')
    BY <1>1, <2>3, <2>7 DEF FilesAreWritten
  <2>9. \A g \in Files : appended[g].lines <= appended'[g].lines
    BY <1>2, <2>3, <2>7
  <2> QED
    BY <1>1, <2>2, <2>6, <2>8, <2>9, AgentKeeps
<1>5. ASSUME NEW f \in Files, Archive(f) \/ RemoveFile(f)
      PROVE  TranscriptsInv'
  <2>1. /\ UNCHANGED <<script, appended, cutoff>> /\ UNCHANGED readVars
        /\ \/ place' = [place EXCEPT ![f] = "archive"] /\ place[f] = "sessions"
           \/ place' = [place EXCEPT ![f] = "removed"]
    BY <1>5 DEF Archive, RemoveFile
  <2>2. place' \in [Files -> Roots \cup {"removed"}]
    BY <1>1, <2>1 DEF Roots
  <2>3. \A g \in Files : /\ place'[g] \in Roots => place[g] \in Roots
                         /\ place'[g] = "sessions" => place[g] = "sessions"
    BY <1>1, <2>1 DEF Roots
  <2>4. \A g \in Files : appended[g].lines <= appended'[g].lines
    BY <1>2, <2>1
  <2> QED
    BY <1>1, <2>1, <2>2, <2>3, <2>4, AgentKeeps
<1> QED
  BY <1>3, <1>4, <1>5

-----------------------------------------------------------------------------
(* Transcripts: the reads.                                                  *)

\* A step of one read leaves the others as they were.
LEMMA OthersStayTrue ==
    ASSUME TranscriptsInv, UNCHANGED agentVars,
           NEW r \in Readers, NEW read \in Reads(script), Changed(r, read),
           config' \in {"unread", "reading", "read"},
           config # "unread" => config' # "unread", config = "read" => config' = "read",
           cacheLoaded' \in BOOLEAN,
           IsTrueOf(script, appended, place, config', read),
           CacheIsTrue(script, appended, fileCache'),
           cacheFile' # Unreadable => CacheIsTrue(script, appended, cacheFile'.files)
    PROVE  TranscriptsInv'
<1>1. TranscriptsTypeOK /\ FilesAreWritten(script, appended) /\ ReadsAreTrue
  BY DEF TranscriptsInv
<1>2. script' = script /\ appended' = appended /\ place' = place /\ cutoff' = cutoff
  BY DEF agentVars
<1>3. reads' = [reads EXCEPT ![r] = read] /\ reads \in [Readers -> Reads(script)]
  BY <1>1 DEF Changed, TranscriptsTypeOK
<1>4. TranscriptsTypeOK'
  <2>1. reads' \in [Readers -> Reads(script)]
    BY <1>3
  <2> QED
    BY <1>1, <1>2, <2>1 DEF TranscriptsTypeOK
<1>5. FilesAreWritten(script, appended)'
  BY <1>1, <1>2
<1>6. CachesAreTrue'
  BY <1>2 DEF CachesAreTrue, Unreadable
<1>7. ReadsAreTrue'
  <2> SUFFICES ASSUME NEW q \in Readers
               PROVE  IsTrueOf(script, appended, place, config', reads'[q])
    BY <1>2 DEF ReadsAreTrue
  <2>1. CASE q = r
    BY <1>3, <2>1
  <2>2. CASE q # r
    <3>1. reads'[q] = reads[q]
      BY <1>3, <2>2
    <3>2. IsTrueOf(script, appended, place, config, reads[q])
      BY <1>1 DEF ReadsAreTrue
    <3>3. IsTrueOf(script, appended, place, config', reads[q])
      BY <3>2 DEF IsTrueOf, HasBegun
    <3> QED
      BY <3>1, <3>3
  <2> QED
    BY <2>1, <2>2
<1> QED
  BY <1>4, <1>5, <1>6, <1>7 DEF TranscriptsInv

\* A read that is before its listing.
IsFresh(read) ==
    /\ read \in Reads(script)
    /\ read.since \in [Files -> Written]
    /\ \A f \in Files : read.since[f].lines <= appended[f].lines
    /\ read.files = <<>> /\ read.complete /\ read.told = <<>> /\ read.next = 1

LEMMA FreshIsTrue ==
    ASSUME NEW read, IsFresh(read), NEW configuration,
           script.provider = "grok" => configuration # "unread",
           read.step \in {"config", "cache", "sessions"},
           read.step = "sessions" /\ script.provider = "grok" /\ ~read.early =>
              configuration = "read"
    PROVE  IsTrueOf(script, appended, place, configuration, read)
<1>1. HasBegun(script, appended, configuration, read)
  BY DEF IsFresh, HasBegun
<1>2. HasListed(script, appended, place, read)
  BY DEF IsFresh, HasListed
<1>3. HasTold(script, appended, read)
  BY DEF IsFresh, HasTold, KeyedOnce
<1> QED
  BY <1>1, <1>2, <1>3 DEF IsTrueOf

LEMMA ListsFilesKeeps ==
    ASSUME TranscriptsInv, UNCHANGED <<agentVars, cacheFile>>,
           NEW r \in Readers, NEW read, IsFresh(read), NEW cached, ListsFiles(r, read, cached),
           config' \in {"unread", "reading", "read"},
           config # "unread" => config' # "unread", config = "read" => config' = "read",
           script.provider = "grok" => config' # "unread",
           cacheLoaded' \in BOOLEAN,
           CacheIsTrue(script, appended, cached)
    PROVE  TranscriptsInv'
<1> DEFINE next == [read EXCEPT !.step = "sessions", !.cutoff = cutoff,
                                !.early = config' = "reading"]
<1>1. Changed(r, next)
  BY DEF ListsFiles
<1>2. cutoff \in Int /\ UNCHANGED agentVars /\ cacheFile' = cacheFile
  BY DEF TranscriptsInv, TranscriptsTypeOK
<1>3. read \in Reads(script)
  BY DEF IsFresh
<1>4. next \in Reads(script)
  BY <1>2, <1>3 DEF Reads, Steps
<1>5. /\ next.step = "sessions" /\ next.early = (config' = "reading")
      /\ next.since = read.since /\ next.files = read.files /\ next.complete = read.complete
      /\ next.told = read.told /\ next.next = read.next
  BY <1>3 DEF Reads
<1> HIDE DEF next
<1>6. IsFresh(next)
  BY <1>4, <1>5 DEF IsFresh
<1>7. IsTrueOf(script, appended, place, config', next)
  BY <1>5, <1>6, FreshIsTrue
<1>8. CacheIsTrue(script, appended, fileCache')
  BY DEF ListsFiles, CacheIsTrue
<1>9. cacheFile' # Unreadable => CacheIsTrue(script, appended, cacheFile'.files)
  BY <1>2 DEF TranscriptsInv, CachesAreTrue
<1> QED
  BY <1>1, <1>2, <1>4, <1>7, <1>8, <1>9, OthersStayTrue

LEMMA LoadsCacheKeeps ==
    ASSUME TranscriptsInv, UNCHANGED <<agentVars, cacheFile>>,
           NEW r \in Readers, NEW read, IsFresh(read), LoadsCache(r, read),
           config' \in {"unread", "reading", "read"},
           config # "unread" => config' # "unread", config = "read" => config' = "read",
           script.provider = "grok" => config' # "unread"
    PROVE  TranscriptsInv'
<1>1. /\ CacheIsTrue(script, appended, fileCache)
      /\ cacheFile # Unreadable => CacheIsTrue(script, appended, cacheFile.files)
      /\ cacheLoaded \in BOOLEAN
  BY DEF TranscriptsInv, CachesAreTrue, TranscriptsTypeOK
<1>2. CASE cacheLoaded
  <2>1. ListsFiles(r, read, fileCache) /\ cacheLoaded' \in BOOLEAN
    BY <1>1, <1>2 DEF LoadsCache
  <2> QED
    BY <1>1, <2>1, ListsFilesKeeps
<1>3. CASE ~cacheLoaded
  <2> DEFINE next == [read EXCEPT !.step = "cache"]
  <2>1. /\ Changed(r, next) /\ cacheLoaded' \in BOOLEAN
        /\ fileCache' = fileCache /\ cacheFile' = cacheFile /\ UNCHANGED agentVars
    BY <1>3 DEF LoadsCache
  <2>2. read \in Reads(script)
    BY DEF IsFresh
  <2>3. next \in Reads(script)
    BY <2>2 DEF Reads, Steps
  <2>4. /\ next.step = "cache"
        /\ next.since = read.since /\ next.files = read.files /\ next.complete = read.complete
        /\ next.told = read.told /\ next.next = read.next
    BY <2>2 DEF Reads
  <2> HIDE DEF next
  <2>5. IsFresh(next)
    BY <2>3, <2>4 DEF IsFresh
  <2>6. IsTrueOf(script, appended, place, config', next)
    BY <2>4, <2>5, FreshIsTrue
  <2> QED
    BY <1>1, <2>1, <2>3, <2>6, OthersStayTrue
<1> QED
  BY <1>1, <1>2, <1>3

LEMMA BeginReadKeeps ==
    ASSUME TranscriptsInv, NEW r \in Readers, NEW rebuild \in BOOLEAN, BeginRead(r, rebuild)
    PROVE  TranscriptsInv'
<1> DEFINE read == [NotReading EXCEPT !.rebuild = rebuild, !.since = appended]
           next == [read EXCEPT !.step = "config"]
<1>1. /\ TranscriptsTypeOK
      /\ script \in Scripts /\ appended \in [Files -> Written]
      /\ CacheIsTrue(script, appended, fileCache)
      /\ cacheFile # Unreadable => CacheIsTrue(script, appended, cacheFile.files)
  BY DEF TranscriptsInv, TranscriptsTypeOK, CachesAreTrue
<1>2. NotReading \in Reads(script)
  BY NotReadingIs
<1>3. read \in Reads(script) /\ next \in Reads(script)
  BY <1>1, <1>2 DEF Reads, Steps
<1>4. \A f \in Files : appended[f].lines <= appended[f].lines
  BY <1>1 DEF Written
<1>5. /\ read.since = appended /\ next.since = appended
      /\ read.files = <<>> /\ read.complete /\ read.told = <<>> /\ read.next = 1
      /\ next.files = <<>> /\ next.complete /\ next.told = <<>> /\ next.next = 1
      /\ next.step = "config"
  BY DEF NotReading
<1>6. UNCHANGED agentVars /\ cacheFile' = cacheFile
  BY DEF BeginRead
<1>7. IF script.provider = "grok" /\ config = "unread"
      THEN config' = "reading" /\ Changed(r, next) /\ UNCHANGED <<fileCache, cacheLoaded>>
      ELSE UNCHANGED config /\ LoadsCache(r, read)
  BY DEF BeginRead
<1> HIDE DEF read, next
<1>8. IsFresh(read) /\ IsFresh(next)
  BY <1>1, <1>3, <1>4, <1>5 DEF IsFresh
<1>9. CASE script.provider = "grok" /\ config = "unread"
  <2>1. /\ config' = "reading" /\ Changed(r, next) /\ fileCache' = fileCache
        /\ cacheLoaded' \in BOOLEAN
    BY <1>1, <1>7, <1>9 DEF TranscriptsTypeOK
  <2>2. IsTrueOf(script, appended, place, config', next)
    BY <1>5, <1>8, <2>1, FreshIsTrue
  <2> QED
    BY <1>1, <1>3, <1>6, <1>9, <2>1, <2>2, OthersStayTrue
<1>10. CASE ~(script.provider = "grok" /\ config = "unread")
  <2>1. config' = config /\ LoadsCache(r, read)
    BY <1>7, <1>10
  <2> QED
    BY <1>1, <1>6, <1>8, <1>10, <2>1, LoadsCacheKeeps DEF TranscriptsTypeOK
<1> QED
  BY <1>9, <1>10

\* A read that waits for the configuration or for the cache is before its listing.
LEMMA IsFreshNow ==
    ASSUME TranscriptsInv, NEW r \in Readers, reads[r].step \in {"config", "cache"}
    PROVE  /\ IsFresh(reads[r])
           /\ script.provider = "grok" => config # "unread"
<1>1. reads[r] \in Reads(script) /\ IsTrueOf(script, appended, place, config, reads[r])
  BY DEF TranscriptsInv, TranscriptsTypeOK, ReadsAreTrue
<1>2. HasBegun(script, appended, config, reads[r])
  BY <1>1 DEF IsTrueOf
<1> QED
  BY <1>1, <1>2 DEF HasBegun, IsFresh

LEMMA ReadConfigKeeps ==
    ASSUME TranscriptsInv, NEW r \in Readers, ReadConfig(r)
    PROVE  TranscriptsInv'
<1> DEFINE read == reads[r]
<1>1. /\ read.step = "config" /\ config' = "read" /\ LoadsCache(r, read)
      /\ UNCHANGED agentVars /\ cacheFile' = cacheFile
  BY DEF ReadConfig, At
<1>2. IsFresh(read)
  BY <1>1, IsFreshNow
<1> HIDE DEF read
<1> QED
  BY <1>1, <1>2, LoadsCacheKeeps

LEMMA LoadCacheKeeps ==
    ASSUME TranscriptsInv, NEW r \in Readers, LoadCache(r)
    PROVE  TranscriptsInv'
<1> DEFINE read == reads[r]
           files == IF cacheFile = Unreadable THEN <<>> ELSE cacheFile.files
           cached == [p \in DOMAIN files \cup DOMAIN fileCache |->
                         IF p \in DOMAIN files THEN files[p] ELSE fileCache[p]]
<1>1. /\ read.step = "cache" /\ ListsFiles(r, read, cached)
      /\ UNCHANGED agentVars /\ cacheFile' = cacheFile /\ config' = config
      /\ cacheLoaded' = cacheLoaded
  BY DEF LoadCache, At
<1>2. IsFresh(read) /\ (script.provider = "grok" => config # "unread")
  BY <1>1, IsFreshNow
<1>3. /\ CacheIsTrue(script, appended, fileCache) /\ TranscriptsTypeOK
      /\ cacheFile # Unreadable => CacheIsTrue(script, appended, cacheFile.files)
  BY DEF TranscriptsInv, CachesAreTrue
<1>4. CacheIsTrue(script, appended, files)
  BY <1>3 DEF CacheIsTrue
<1> HIDE DEF read, files
<1>5. CacheIsTrue(script, appended, cached)
  BY <1>3, <1>4 DEF CacheIsTrue
<1> HIDE DEF cached
<1> QED
  BY <1>1, <1>2, <1>3, <1>5, ListsFilesKeeps DEF TranscriptsTypeOK

\* A read is what its type says.
LEMMA ReadIs ==
    ASSUME NEW s \in Scripts, NEW read \in Reads(s)
    PROVE  /\ read.told \in Seq(Known(s)) /\ read.cutoff \in Int /\ read.next \in Nat \ {0}
           /\ read.files \in Seq(Entries)
           /\ Len(read.files) \in Nat /\ DOMAIN read.files = 1 .. Len(read.files)
           /\ \A i \in DOMAIN read.files :
                 /\ read.files[i].place \in Roots /\ read.files[i].file \in Files
                 /\ read.files[i].stamp \in Written /\ read.files[i].stamp.lines \in Nat
           /\ read.step \in Steps /\ read.complete \in BOOLEAN /\ read.early \in BOOLEAN
<1>1. /\ read.told \in Seq(Known(s)) /\ read.cutoff \in Int /\ read.next \in Nat \ {0}
      /\ read.step \in Steps /\ read.complete \in BOOLEAN /\ read.early \in BOOLEAN
  BY DEF Reads
<1>2. read.files \in Seq(Entries)
  BY DEF Reads
<1>3. /\ Len(read.files) \in Nat /\ DOMAIN read.files = 1 .. Len(read.files)
      /\ \A i \in DOMAIN read.files : read.files[i] \in Entries
  BY <1>2
<1> QED
  BY <1>1, <1>2, <1>3 DEF Entries, Written

\* A gap makes less of an answer, and nothing untrue.
LEMMA GapStaysTrue ==
    ASSUME NEW s, NEW a, NEW pl, NEW configuration, NEW whole \in Reads(s),
           IsTrueOf(s, a, pl, configuration, whole), whole.step \in {"next", "file"},
           NEW read, read = [whole EXCEPT !.complete = FALSE]
    PROVE  read \in Reads(s) /\ ~read.complete /\ IsTrueOf(s, a, pl, configuration, read)
           /\ read.step = whole.step /\ read.files = whole.files /\ read.next = whole.next
<1>1. /\ read \in Reads(s) /\ ~read.complete
      /\ read.step = whole.step /\ read.since = whole.since /\ read.files = whole.files
      /\ read.told = whole.told /\ read.next = whole.next /\ read.early = whole.early
  BY DEF Reads
<1>2. ASSUME read.step # "none"
      PROVE  /\ HasBegun(s, a, configuration, whole)
             /\ HasListed(s, a, pl, whole)
             /\ HasTold(s, a, whole)
  BY <1>1, <1>2 DEF IsTrueOf
<1>3. IsTrueOf(s, a, pl, configuration, read)
  <2> SUFFICES ASSUME read.step # "none"
               PROVE  /\ HasBegun(s, a, configuration, read)
                      /\ HasListed(s, a, pl, read)
                      /\ HasTold(s, a, read)
    BY DEF IsTrueOf
  <2>0. /\ HasBegun(s, a, configuration, whole)
        /\ HasListed(s, a, pl, whole)
        /\ HasTold(s, a, whole)
    BY <1>2
  <2>1. HasBegun(s, a, configuration, read)
    BY <1>1, <2>0 DEF HasBegun
  <2>2. HasListed(s, a, pl, read)
    BY <1>1, <2>0 DEF HasListed
  <2>3. HasTold(s, a, read)
    BY <1>1, <2>0 DEF HasTold
  <2> QED
    BY <2>1, <2>2, <2>3
<1> QED
  BY <1>1, <1>3

\* A file that is told: what it had when the read began is told now, and nothing else is.
LEMMA TellsKeeps ==
    ASSUME NEW s \in Scripts, NEW a \in [Files -> Written], FilesAreWritten(s, a), NEW pl,
           NEW configuration,
           NEW read \in Reads(s), read.step \in {"next", "file"}, read.next <= Len(read.files),
           IsTrueOf(s, a, pl, configuration, read),
           NEW records \in Seq(Known(s)),
           read.complete =>
              \E n \in 0 .. a[read.files[read.next].file].lines, c \in Configs :
                 /\ records = ParsedIn(s, read.files[read.next].file, n, c)
                 /\ read.since[read.files[read.next].file].lines <= n
                 /\ read.early \/ s.provider # "grok" \/ c = CustomModels
    PROVE  /\ Tells(read, records) \in Reads(s)
           /\ IsTrueOf(s, a, pl, configuration, Tells(read, records))
<1>0. /\ HasBegun(s, a, configuration, read)
      /\ HasListed(s, a, pl, read)
      /\ HasTold(s, a, read)
  BY DEF IsTrueOf
<1> DEFINE next == Tells(read, records)
           told == next.told
           S == Known(s)
<1>1. /\ read.told \in Seq(S) /\ read.cutoff \in Int /\ read.next \in Nat \ {0}
      /\ Len(read.files) \in Nat /\ DOMAIN read.files = 1 .. Len(read.files)
      /\ \A i \in DOMAIN read.files : read.files[i].file \in Files
  BY ReadIs
<1>2. PICK f \in Files : f = read.files[read.next].file
  BY <1>1
<1>3. HasTimes(S)
  BY KnownHasTimes DEF HasTimes
<1>4. "told" \in DOMAIN read
  BY DEF Reads
<1>5. KeyedOnce(read.told)
  BY <1>0 DEF HasTold
<1>6. /\ next = [read EXCEPT !.told = told, !.step = "next", !.next = read.next + 1]
  BY DEF Tells, Reads
<1> HIDE DEF S
<1>60. told = Tells(read, records).told
  OBVIOUS
<1> HIDE DEF told, next
<1>7. /\ told \in Seq(S)
      /\ KeyedOnce(told)
      /\ IsFrom(told, read.told, records)
      /\ TellsAll(told, read.told, records, read.cutoff)
  <2>1. records \in Seq(S)
    BY DEF S
  <2>2. read.told \in Seq(S) /\ read.cutoff \in Int
    BY <1>1
  <2> QED
    BY <1>3, <1>4, <1>5, <1>60, <2>1, <2>2, TellsIs
<1>8. next \in Reads(s)
  <2>1. told \in Seq(Known(s)) /\ read.next + 1 \in Nat \ {0}
    BY <1>1, <1>7 DEF S
  <2> QED
    BY <1>6, <2>1 DEF Reads, Steps
<1>9. /\ next.step = "next" /\ next.next = read.next + 1 /\ next.told = told
      /\ next.since = read.since /\ next.files = read.files /\ next.complete = read.complete
      /\ next.early = read.early /\ next.cutoff = read.cutoff
  BY <1>6 DEF Reads
<1>10. HasBegun(s, a, configuration, next)
  BY <1>0, <1>9 DEF HasBegun
<1>11. HasListed(s, a, pl, next)
  <2>1. \A g \in Files : IsWanted(s, next, g) <=> IsWanted(s, read, g)
    BY <1>9 DEF IsWanted
  <2> QED
    BY <1>0, <1>9, <2>1 DEF HasListed
<1>12. HasTold(s, a, next)
  <2> DEFINE since(g) == read.since[g].lines
  <2>1. CASE ~read.complete
    BY <1>7, <1>9, <2>1 DEF HasTold
  <2>2. CASE read.complete
    <3>0. a[f].lines \in Nat /\ since(f) \in Nat
      BY <1>0, <1>2 DEF HasBegun, Written
    <3>1. PICK n \in Nat, c \in Configs :
             /\ records = ParsedIn(s, f, n, c)
             /\ since(f) <= n /\ n <= a[f].lines
             /\ read.early \/ s.provider # "grok" \/ c = CustomModels
      BY <1>2, <2>2, <3>0
    <3>2. /\ n \in Nat /\ a[f].lines \in Nat /\ since(f) \in Nat /\ n <= a[f].lines
      BY <3>0, <3>1
    <3>3. \A x : x \in RecordsIn(s, f, n, c) <=> \E i \in DOMAIN records : records[i] = x
      <4>1. Lists(ParsedIn(s, f, n, c), RecordsIn(s, f, n, c))
        BY ParsedInIs
      <4> QED
        BY <3>1, <4>1 DEF Lists
    <3>4. ASSUME NEW x \in RecordsIn(s, f, since(f), CustomModels), x.at >= read.cutoff
          PROVE  \E k \in DOMAIN told : told[k].key = x.key
      <4>1. x \in RecordsIn(s, f, n, CustomModels)
        BY <3>1, <3>2, RecordsGrow
      <4>2. PICK y \in RecordsIn(s, f, n, c) : y.key = x.key /\ y.at = x.at
        BY <4>1, SameKeys
      <4>3. PICK j \in DOMAIN records : records[j] = y
        BY <3>3, <4>2
      <4> QED
        BY <1>7, <3>4, <4>2, <4>3 DEF TellsAll
    <3>5. ASSUME NEW i \in DOMAIN read.files, i < read.next + 1,
                 NEW x \in RecordsIn(s, read.files[i].file, since(read.files[i].file),
                                     CustomModels),
                 x.at >= read.cutoff
          PROVE  \E k \in DOMAIN told : told[k].key = x.key
      <4>1. CASE i = read.next
        <5>1. read.files[i].file = f
          BY <1>2, <4>1
        <5> QED
          BY <3>4, <3>5, <5>1
      <4>2. CASE i # read.next
        <5>1. i < read.next
          BY <1>1, <3>5, <4>2
        <5>2. \E k \in DOMAIN read.told : read.told[k].key = x.key
          BY <1>0, <2>2, <3>5, <5>1 DEF HasTold
        <5> QED
          BY <1>7, <5>2 DEF TellsAll
      <4> QED
        BY <4>1, <4>2
    <3>6. ASSUME NEW k \in DOMAIN told
          PROVE  \E g \in Files : \E y \in RecordsIn(s, g, a[g].lines, CustomModels) :
                    told[k] = y \/ (read.early /\ told[k].key = y.key)
      <4>1. CASE \E j \in DOMAIN read.told : told[k] = read.told[j]
        BY <1>0, <2>2, <4>1 DEF HasTold
      <4>2. CASE \E j \in DOMAIN records : told[k] = records[j]
        <5>1. told[k] \in RecordsIn(s, f, n, c)
          BY <3>3, <4>2
        <5>2. RecordsIn(s, f, n, CustomModels) \subseteq RecordsIn(s, f, a[f].lines, CustomModels)
          BY <3>2, RecordsGrow
        <5>3. CASE s.provider # "grok" \/ c = CustomModels
          <6>1. RecordsIn(s, f, n, c) = RecordsIn(s, f, n, CustomModels)
            BY <5>3, SameKeys
          <6> QED
            BY <1>2, <5>1, <5>2, <6>1
        <5>4. CASE read.early
          <6>1. PICK y \in RecordsIn(s, f, n, CustomModels) : y.key = told[k].key
            BY <5>1, SameKeys
          <6> QED
            BY <1>2, <5>2, <5>4, <6>1
        <5> QED
          BY <3>1, <5>3, <5>4
      <4> QED
        BY <1>7, <4>1, <4>2 DEF IsFrom
    <3>7. KeyedOnce(next.told)
      BY <1>7, <1>9
    <3>8. \A i \in DOMAIN next.files : i < next.next =>
             \A x \in RecordsIn(s, next.files[i].file, next.since[next.files[i].file].lines,
                                CustomModels) :
                x.at >= next.cutoff => \E k \in DOMAIN next.told : next.told[k].key = x.key
      BY <1>9, <3>5
    <3>9. \A k \in DOMAIN next.told : \E g \in Files :
             \E y \in RecordsIn(s, g, a[g].lines, CustomModels) :
                next.told[k] = y \/ (next.early /\ next.told[k].key = y.key)
      BY <1>9, <3>6
    <3> QED
      BY <3>7, <3>8, <3>9 DEF HasTold
  <2> QED
    BY <2>1, <2>2
<1> QED
  BY <1>8, <1>10, <1>11, <1>12 DEF next, IsTrueOf

\* What is cached of a file may be told.
LEMMA CachedIs ==
    ASSUME NEW s \in Scripts, NEW a \in [Files -> Written], FilesAreWritten(s, a),
           NEW f \in Files, NEW entry, IsOfFile(s, a, f, entry)
    PROVE  entry.records \in Seq(Known(s))
<1>1. /\ a[f].lines \in Nat /\ Len(s.lines[f]) \in Nat
      /\ a[f].lines <= Len(s.lines[f])
  <2>1. /\ a[f].lines \in Nat /\ Len(s.lines[f]) \in Nat
        /\ a[f].lines + (IF a[f].half THEN 1 ELSE 0) <= Len(s.lines[f])
    BY ScriptIs DEF FilesAreWritten, Written
  <2> QED
    BY <2>1
<1>2. PICK n \in Nat, c \in Configs : n <= a[f].lines /\ entry.records = ParsedIn(s, f, n, c)
  BY <1>1 DEF IsOfFile
<1>3. n <= Len(s.lines[f])
  BY <1>1, <1>2
<1> QED
  BY <1>2, <1>3, KnownIs

\* A file that had a line within the lookback when the read began is found where it is.
LEMMA WantedIsFound ==
    ASSUME NEW s \in Scripts, NEW a \in [Files -> Written], FilesAreWritten(s, a),
           NEW read \in Reads(s), read.since \in [Files -> Written],
           \A f \in Files : read.since[f].lines <= a[f].lines,
           NEW f \in Files, IsWanted(s, read, f)
    PROVE  /\ a[f] # [lines |-> 0, half |-> FALSE]
           /\ s.lines[f][a[f].lines + (IF a[f].half THEN 1 ELSE 0)].at >= read.cutoff
<1> DEFINE n == a[f].lines
           m == n + (IF a[f].half THEN 1 ELSE 0)
<1>1. /\ n \in Nat /\ read.since[f].lines \in Nat /\ read.cutoff \in Int
      /\ Len(s.lines[f]) \in Nat
  BY ScriptIs, ReadIs DEF Written
<1>2. read.since[f].lines <= n /\ m <= Len(s.lines[f])
  BY DEF FilesAreWritten
<1>3. PICK i \in 1 .. read.since[f].lines : s.lines[f][i].at >= read.cutoff
  BY DEF IsWanted
<1>4. m \in Nat /\ n <= m
  BY <1>1
<1>5. n >= 1 /\ i <= m /\ i \in 1 .. Len(s.lines[f]) /\ m \in 1 .. Len(s.lines[f])
  BY <1>1, <1>2, <1>3, <1>4
<1> HIDE DEF m
<1>6. /\ s.lines[f][i].at \in Int /\ s.lines[f][m].at \in Int
      /\ s.lines[f][i].at <= s.lines[f][m].at
  BY <1>5, ScriptIs
<1>7. s.lines[f][m].at >= read.cutoff
  BY <1>1, <1>3, <1>6
<1>8. a[f] # [lines |-> 0, half |-> FALSE]
  BY <1>1, <1>5
<1> QED
  BY <1>7, <1>8 DEF m

LEMMA ListRootKeeps ==
    ASSUME TranscriptsInv, NEW r \in Readers, NEW root \in Roots, ListRoot(r, root)
    PROVE  TranscriptsInv'
<1> DEFINE s == script
           a == appended
           read == reads[r]
           isFound(gaps, f) == /\ Exists(f) /\ place[f] = root /\ f \notin gaps
                               /\ ModifiedAt(f) >= read.cutoff
           P(gaps) == {i \in DOMAIN FileOrder : isFound(gaps, FileOrder[i])}
           entry(f) == [place |-> root, file |-> f, stamp |-> a[f]]
           new(gaps) == [n \in DOMAIN InOrder(P(gaps)) |->
                            entry(FileOrder[InOrder(P(gaps))[n]])]
           step == IF root = "sessions" THEN "archive" ELSE "next"
<1>1. /\ TranscriptsTypeOK /\ FilesAreWritten(s, a)
      /\ s \in Scripts /\ a \in [Files -> Written] /\ read \in Reads(s)
      /\ CacheIsTrue(s, a, fileCache)
      /\ cacheFile # Unreadable => CacheIsTrue(s, a, cacheFile.files)
      /\ IsTrueOf(s, a, place, config, read)
  BY DEF TranscriptsInv, TranscriptsTypeOK, CachesAreTrue, ReadsAreTrue
<1>2. read.step = root /\ UNCHANGED agentVars /\ cacheLoaded' = cacheLoaded
      /\ config' = config /\ cacheFile' = cacheFile
  BY DEF ListRoot, At
<1>3. PICK gaps \in SUBSET {f \in Files : Exists(f) /\ place[f] = root} :
          LET listed(f) == /\ Exists(f) /\ place[f] = root
                           /\ f \notin gaps
                           /\ ModifiedAt(f) >= reads[r].cutoff
              found == InOrder({i \in DOMAIN FileOrder : listed(FileOrder[i])})
              told(f) == [place |-> root, file |-> f, stamp |-> appended[f]]
              files == reads[r].files \o [n \in DOMAIN found |-> told(FileOrder[found[n]])]
          IN  /\ IF gaps = {} THEN UNCHANGED events ELSE Happens
              /\ Changed(r, [reads[r] EXCEPT !.files = files, !.complete = @ /\ gaps = {},
                                !.step = IF root = "sessions" THEN "archive" ELSE "next"])
              /\ fileCache' = IF root = "sessions" THEN fileCache
                              ELSE [p \in DOMAIN fileCache \cap PathsOf(files) |-> fileCache[p]]
  BY Zenon DEF ListRoot
<1>4. read.step # "none" /\ read.step \in {"sessions", "archive"}
  BY <1>2 DEF Roots
<1>5. /\ HasBegun(s, a, config, read) /\ HasListed(s, a, place, read) /\ HasTold(s, a, read)
  BY <1>1, <1>4 DEF IsTrueOf
<1>6. /\ read.files \in Seq(Entries) /\ read.cutoff \in Int
      /\ Len(read.files) \in Nat /\ DOMAIN read.files = 1 .. Len(read.files)
      /\ read.complete \in BOOLEAN
  BY <1>1, ReadIs
<1> DEFINE Q == P(gaps)
           N == Cardinality(Q)
           o == InOrder(Q)
           more == new(gaps)
           L == Len(read.files)
           files == read.files \o more
           next == [read EXCEPT !.files = files, !.complete = @ /\ gaps = {}, !.step = step]
<1>60. /\ Changed(r, next)
       /\ fileCache' = IF root = "sessions" THEN fileCache
                       ELSE [p \in DOMAIN fileCache \cap PathsOf(files) |-> fileCache[p]]
  BY <1>3, Zenon
<1>7. /\ FileOrder \in Seq(Files)
      /\ \A f \in Files : \E i \in DOMAIN FileOrder : FileOrder[i] = f
  BY TranscriptsAssumption DEF TranscriptsAssumption
<1>8. /\ N \in Nat
      /\ o \in [1 .. N -> Q]
      /\ \A i \in Q : \E k \in 1 .. N : o[k] = i
  <2>1. Len(FileOrder) \in Nat /\ Q \in SUBSET (1 .. Len(FileOrder))
    BY <1>7
  <2> HIDE DEF Q
  <2> QED
    BY <2>1, InOrderIs
<1>9. \A i \in Q : /\ FileOrder[i] \in Files
                   /\ isFound(gaps, FileOrder[i])
  BY <1>7
<1>10. \A f \in Files : isFound(gaps, f) => \E i \in Q : FileOrder[i] = f
  BY <1>7
<1>11. more = [n \in 1 .. N |-> entry(FileOrder[o[n]])]
  BY <1>8
<1> HIDE DEF isFound, Q, N, o
<1>12. \A f \in Files : entry(f) \in Entries
  BY <1>1 DEF Entries
<1>13. more \in Seq(Entries) /\ Len(more) = N
  <2>1. \A n \in 1 .. N : entry(FileOrder[o[n]]) \in Entries
    BY <1>8, <1>9, <1>12
  <2> HIDE DEF entry
  <2>2. more \in [1 .. N -> Entries]
    BY <1>11, <2>1
  <2> QED
    BY <1>8, <2>2
<1>14. ASSUME NEW n \in 1 .. N
       PROVE  \E f \in Files : more[n] = entry(f)
  <2>1. FileOrder[o[n]] \in Files
    BY <1>8, <1>9
  <2> HIDE DEF entry, more
  <2>2. more[n] = entry(FileOrder[o[n]])
    BY <1>11
  <2> QED
    BY <2>1, <2>2
<1>15. ASSUME NEW f \in Files, isFound(gaps, f)
       PROVE  \E n \in 1 .. N : more[n] = entry(f)
  <2>1. PICK i \in Q : FileOrder[i] = f
    BY <1>10, <1>15
  <2>2. PICK n \in 1 .. N : o[n] = i
    BY <1>8, <2>1
  <2> HIDE DEF entry, more
  <2>3. more[n] = entry(FileOrder[o[n]])
    BY <1>11
  <2> QED
    BY <2>1, <2>2, <2>3
<1> HIDE DEF more, L
<1>16. /\ files \in Seq(Entries) /\ Len(files) = L + N
       /\ \A i \in 1 .. L + N : files[i] = IF i <= L THEN read.files[i] ELSE more[i - L]
  <2>1. L = Len(read.files)
    BY DEF L
  <2> QED
    BY <1>6, <1>13, <2>1, ConcatProperties
<1>17. L \in Nat /\ DOMAIN read.files = 1 .. L
  BY <1>6 DEF L
<1> HIDE DEF files
<1>18. /\ DOMAIN files = 1 .. L + N
       /\ \A i \in 1 .. L : i \in DOMAIN files /\ files[i] = read.files[i]
       /\ \A n \in 1 .. N : L + n \in DOMAIN files /\ files[L + n] = more[n]
       /\ \A i \in DOMAIN files : i \in 1 .. L \/ \E n \in 1 .. N : i = L + n
  <2>1. DOMAIN files = 1 .. L + N
    BY <1>8, <1>16, <1>17
  <2>2. ASSUME NEW i \in 1 .. L PROVE i \in DOMAIN files /\ files[i] = read.files[i]
    BY <1>8, <1>16, <1>17, <2>1
  <2>3. ASSUME NEW n \in 1 .. N PROVE L + n \in DOMAIN files /\ files[L + n] = more[n]
    <3>1. L + n \in 1 .. L + N /\ ~(L + n <= L) /\ (L + n) - L = n
      BY <1>8, <1>17
    <3> QED
      BY <1>16, <2>1, <3>1
  <2>4. ASSUME NEW i \in DOMAIN files, i \notin 1 .. L PROVE \E n \in 1 .. N : i = L + n
    <3>1. i - L \in 1 .. N /\ i = L + (i - L)
      BY <1>8, <1>17, <2>1, <2>4
    <3> QED
      BY <3>1
  <2> QED
    BY <2>1, <2>2, <2>3, <2>4
<1>19. step \in {"archive", "next"} /\ (step = "archive" <=> root = "sessions")
  OBVIOUS
<1> HIDE DEF step
<1>20. next \in Reads(s)
  <2>1. (read.complete /\ gaps = {}) \in BOOLEAN /\ step \in Steps
    BY <1>19 DEF Steps
  <2> QED
    BY <1>1, <1>16, <2>1 DEF Reads
<1>21. /\ next.step = step /\ next.files = files
       /\ next.complete = (read.complete /\ gaps = {})
       /\ next.since = read.since /\ next.told = read.told /\ next.next = read.next
       /\ next.early = read.early /\ next.cutoff = read.cutoff
  BY <1>1 DEF Reads
<1> HIDE DEF next
<1>23. read.told = <<>> /\ read.next = 1
  BY <1>4, <1>5 DEF HasBegun
<1>24. HasBegun(s, a, config, next)
  BY <1>4, <1>5, <1>19, <1>21, <1>23 DEF HasBegun
<1>25. \A f \in Files : read.since[f].lines <= a[f].lines /\ a[f].lines \in Nat
  BY <1>1, <1>5 DEF HasBegun, Written
<1>26. HasListed(s, a, place, next)
  <2>1. ASSUME NEW i \in DOMAIN files
        PROVE  /\ read.since[files[i].file].lines <= files[i].stamp.lines
               /\ files[i].stamp.lines <= a[files[i].file].lines
    <3>1. CASE i \in 1 .. L
      BY <1>5, <1>17, <1>18, <3>1 DEF HasListed
    <3>2. CASE i \notin 1 .. L
      <4>1. PICK n \in 1 .. N : i = L + n
        BY <1>18, <3>2
      <4>2. PICK f \in Files : more[n] = entry(f)
        BY <1>14
      <4>3. files[i].file = f /\ files[i].stamp = a[f]
        BY <1>18, <4>1, <4>2
      <4> QED
        BY <1>25, <4>3
    <3> QED
      BY <3>1, <3>2
  <2>2. ASSUME next.complete, NEW f \in Files,
               place[f] \in (IF step = "archive" THEN {"sessions"} ELSE Roots),
               IsWanted(s, next, f)
        PROVE  \E i \in DOMAIN files : files[i].file = f
    <3>1. IsWanted(s, read, f) /\ read.complete /\ gaps = {}
      BY <1>21, <2>2 DEF IsWanted
    <3>2. CASE place[f] = root
      <4>1. /\ a[f] # [lines |-> 0, half |-> FALSE]
            /\ s.lines[f][a[f].lines + (IF a[f].half THEN 1 ELSE 0)].at >= read.cutoff
        BY <1>1, <1>5, <1>25, <3>1, WantedIsFound DEF HasBegun
      <4>2. isFound(gaps, f)
        BY <3>1, <3>2, <4>1 DEF isFound, Exists, ModifiedAt, Roots
      <4>3. PICK n \in 1 .. N : more[n] = entry(f)
        BY <1>15, <4>2
      <4> QED
        BY <1>18, <4>3
    <3>3. CASE place[f] # root
      <4>1. root = "archive" /\ place[f] = "sessions" /\ read.step = "archive"
        BY <1>2, <1>19, <2>2, <3>3 DEF Roots
      <4>2. PICK i \in DOMAIN read.files : read.files[i].file = f
        BY <1>5, <3>1, <4>1 DEF HasListed
      <4> QED
        BY <1>17, <1>18, <4>2
    <3> QED
      BY <3>2, <3>3
  <2> QED
    BY <1>19, <1>21, <2>1, <2>2 DEF HasListed
<1>27. HasTold(s, a, next)
  <2>1. \A i \in DOMAIN files : ~(i < 1)
    BY <1>8, <1>17, <1>18
  <2> QED
    BY <1>21, <1>23, <2>1 DEF HasTold, KeyedOnce
<1>28. IsTrueOf(s, a, place, config, next)
  BY <1>24, <1>26, <1>27 DEF IsTrueOf
<1>29. CacheIsTrue(s, a, fileCache')
  BY <1>1, <1>60 DEF CacheIsTrue
<1> QED
  BY <1>1, <1>2, <1>20, <1>60, <1>28, <1>29, OthersStayTrue DEF TranscriptsTypeOK

\* What has been loaded of the configuration is all of it unless another read reads it.
LEMMA LoadedIs ==
    ASSUME NEW read, read.step \in {"next", "file"},
           HasBegun(script, appended, config, read)
    PROVE  /\ Loaded \in Configs
           /\ read.early \/ script.provider # "grok" \/ Loaded = CustomModels
BY DEF HasBegun, Loaded, Configs

\* The file that is told next.
LEMMA NextFileIs ==
    ASSUME TranscriptsInv, NEW r \in Readers, reads[r].step \in {"next", "file"},
           reads[r].next <= Len(reads[r].files)
    PROVE  LET entry == reads[r].files[reads[r].next]
           IN  /\ entry.place \in Roots /\ entry.file \in Files /\ entry.stamp \in Written
               /\ reads[r].since[entry.file].lines \in Nat /\ entry.stamp.lines \in Nat
               /\ appended[entry.file].lines \in Nat
               /\ reads[r].since[entry.file].lines <= entry.stamp.lines
               /\ entry.stamp.lines <= appended[entry.file].lines
               /\ appended[entry.file].lines <= Len(script.lines[entry.file])
<1> DEFINE read == reads[r]
           entry == read.files[read.next]
<1>1. /\ script \in Scripts /\ appended \in [Files -> Written] /\ read \in Reads(script)
      /\ FilesAreWritten(script, appended)
      /\ IsTrueOf(script, appended, place, config, read)
  BY DEF TranscriptsInv, TranscriptsTypeOK, ReadsAreTrue
<1>2. /\ HasBegun(script, appended, config, read)
      /\ HasListed(script, appended, place, read)
  BY <1>1 DEF IsTrueOf
<1>3. /\ read.next \in Nat \ {0} /\ Len(read.files) \in Nat
      /\ DOMAIN read.files = 1 .. Len(read.files)
      /\ \A i \in DOMAIN read.files :
            /\ read.files[i].place \in Roots /\ read.files[i].file \in Files
            /\ read.files[i].stamp \in Written /\ read.files[i].stamp.lines \in Nat
  BY <1>1, ReadIs
<1>4. read.next \in DOMAIN read.files
  BY <1>3
<1>5. /\ entry.place \in Roots /\ entry.file \in Files
      /\ entry.stamp \in Written /\ entry.stamp.lines \in Nat
  BY <1>3, <1>4
<1>6. /\ read.since[entry.file].lines <= entry.stamp.lines
      /\ entry.stamp.lines <= appended[entry.file].lines
  BY <1>2, <1>4 DEF HasListed
<1>7. read.since[entry.file].lines \in Nat /\ appended[entry.file].lines \in Nat
  BY <1>1, <1>2, <1>5 DEF HasBegun, Written
<1>8. appended[entry.file].lines <= Len(script.lines[entry.file])
  <2>1. /\ Len(script.lines[entry.file]) \in Nat
        /\ appended[entry.file].lines + (IF appended[entry.file].half THEN 1 ELSE 0)
           <= Len(script.lines[entry.file])
    BY <1>1, <1>5, ScriptIs DEF FilesAreWritten
  <2> QED
    BY <1>7, <2>1
<1> QED
  BY <1>5, <1>6, <1>7, <1>8

LEMMA OpenFileKeeps ==
    ASSUME TranscriptsInv, NEW r \in Readers, OpenFile(r)
    PROVE  TranscriptsInv'
<1> DEFINE s == script
           a == appended
           read == reads[r]
           entry == read.files[read.next]
           f == entry.file
           path == <<entry.place, f>>
           cached == IF path \in DOMAIN fileCache THEN fileCache[path].records ELSE <<>>
<1>1. /\ TranscriptsTypeOK /\ FilesAreWritten(s, a)
      /\ s \in Scripts /\ a \in [Files -> Written] /\ read \in Reads(s)
      /\ CacheIsTrue(s, a, fileCache)
      /\ cacheFile # Unreadable => CacheIsTrue(s, a, cacheFile.files)
      /\ IsTrueOf(s, a, place, config, read)
  BY DEF TranscriptsInv, TranscriptsTypeOK, CachesAreTrue, ReadsAreTrue
<1>2. /\ read.step = "next" /\ read.next <= Len(read.files)
      /\ UNCHANGED <<agentVars, fileCache, cacheLoaded, config, cacheFile>>
      /\ Changed(r, IF IsCached(path, entry.stamp) THEN Tells(read, Remapped(cached))
                    ELSE [read EXCEPT !.step = "file", !.kept = cached])
  BY DEF OpenFile, At
<1>3. /\ HasBegun(s, a, config, read) /\ HasListed(s, a, place, read) /\ HasTold(s, a, read)
  BY <1>1, <1>2 DEF IsTrueOf
<1>4. /\ f \in Files /\ entry.place \in Roots
      /\ read.since[f].lines \in Nat /\ entry.stamp.lines \in Nat /\ a[f].lines \in Nat
      /\ read.since[f].lines <= entry.stamp.lines /\ a[f].lines <= Len(s.lines[f])
  BY <1>2, NextFileIs
<1>5. path \in DOMAIN fileCache => IsOfFile(s, a, f, fileCache[path])
  <2>1. path[2] = f
    OBVIOUS
  <2> HIDE DEF path
  <2> QED
    BY <1>1, <2>1 DEF CacheIsTrue
<1> HIDE DEF entry, path, f
<1>6. cached \in Seq(Known(s))
  <2>1. <<>> \in Seq(Known(s))
    BY EmptySeq
  <2> QED
    BY <1>1, <1>4, <1>5, <2>1, CachedIs
<1>7. ASSUME NEW next \in Reads(s), IsTrueOf(s, a, place, config, next), Changed(r, next)
      PROVE  TranscriptsInv'
  BY <1>1, <1>2, <1>7, OthersStayTrue DEF TranscriptsTypeOK
<1>8. CASE IsCached(path, entry.stamp)
  <2>1. IsOfFile(s, a, f, fileCache[path]) /\ fileCache[path].stamp.lines = entry.stamp.lines
    BY <1>5, <1>8 DEF IsCached
  <2>2. PICK n \in 0 .. a[f].lines, c \in Configs :
           /\ entry.stamp.lines <= n /\ fileCache[path].records = ParsedIn(s, f, n, c)
    BY <2>1 DEF IsOfFile
  <2>3. n \in Nat /\ n <= a[f].lines /\ n <= Len(s.lines[f]) /\ read.since[f].lines <= n
    BY <1>1, <1>4, <2>2, ScriptIs
  <2>4. cached = ParsedIn(s, f, n, c)
    BY <1>8, <2>2 DEF IsCached
  <2> HIDE DEF cached
  <2>5. Remapped(cached) = ParsedIn(s, f, n, Loaded)
    BY <2>4, RemappedIs
  <2>6. Loaded \in Configs /\ (read.early \/ s.provider # "grok" \/ Loaded = CustomModels)
    BY <1>2, <1>3, LoadedIs
  <2>7. Remapped(cached) \in Seq(Known(s))
    BY <1>1, <1>4, <2>3, <2>5, <2>6, KnownIs
  <2> DEFINE records == Remapped(cached)
             next == Tells(read, records)
  <2> HIDE DEF records
  <2>8. \E m \in 0 .. a[f].lines, d \in Configs :
           /\ records = ParsedIn(s, f, m, d) /\ read.since[f].lines <= m
           /\ read.early \/ s.provider # "grok" \/ d = CustomModels
    BY <2>2, <2>3, <2>5, <2>6 DEF records
  <2>9. next \in Reads(s) /\ IsTrueOf(s, a, place, config, next)
    <3>1. records \in Seq(Known(s))
      BY <2>7 DEF records
    <3>2. /\ read.step \in {"next", "file"}
          /\ \E m \in 0 .. a[read.files[read.next].file].lines, d \in Configs :
                /\ records = ParsedIn(s, read.files[read.next].file, m, d)
                /\ read.since[read.files[read.next].file].lines <= m
                /\ read.early \/ s.provider # "grok" \/ d = CustomModels
      BY <1>2, <2>8 DEF f, entry
    <3> QED
      BY <1>1, <1>2, <3>1, <3>2, TellsKeeps
  <2>10. Changed(r, next)
    BY <1>2, <1>8 DEF records
  <2> QED
    BY <1>7, <2>9, <2>10
<1>9. CASE ~IsCached(path, entry.stamp)
  <2> DEFINE next == [read EXCEPT !.step = "file", !.kept = cached]
  <2> HIDE DEF cached
  <2>1. next \in Reads(s)
    BY <1>1, <1>6 DEF Reads, Steps
  <2>2. /\ next.step = "file"
        /\ next.next = read.next /\ next.told = read.told /\ next.cutoff = read.cutoff
        /\ next.since = read.since /\ next.files = read.files /\ next.complete = read.complete
        /\ next.early = read.early
    BY <1>1 DEF Reads
  <2>3. Changed(r, next)
    BY <1>2, <1>9
  <2> HIDE DEF next
  <2>4. HasBegun(s, a, config, next)
    BY <1>2, <1>3, <2>2 DEF HasBegun
  <2>5. HasListed(s, a, place, next)
    <3>1. \A g \in Files : IsWanted(s, next, g) <=> IsWanted(s, read, g)
      BY <2>2 DEF IsWanted
    <3> QED
      BY <1>2, <1>3, <2>2, <3>1 DEF HasListed
  <2>6. HasTold(s, a, next)
    BY <1>3, <2>2 DEF HasTold
  <2>7. IsTrueOf(s, a, place, config, next)
    BY <2>4, <2>5, <2>6 DEF IsTrueOf
  <2> QED
    BY <1>7, <2>1, <2>3, <2>7
<1> QED
  BY <1>8, <1>9

LEMMA ReadFileKeeps ==
    ASSUME TranscriptsInv, NEW r \in Readers, NEW fails \in BOOLEAN, ReadFile(r, fails)
    PROVE  TranscriptsInv'
<1> DEFINE s == script
           a == appended
           read == reads[r]
           entry == read.files[read.next]
           f == entry.file
           path == <<entry.place, f>>
           n == a[f].lines
           records == Parsed(LinesOf(f, n), Loaded)
           gap == [read EXCEPT !.complete = FALSE]
           parsed == [stamp |-> entry.stamp, records |-> records]
<1>1. /\ TranscriptsTypeOK /\ FilesAreWritten(s, a)
      /\ s \in Scripts /\ a \in [Files -> Written] /\ read \in Reads(s)
      /\ CacheIsTrue(s, a, fileCache)
      /\ cacheFile # Unreadable => CacheIsTrue(s, a, cacheFile.files)
      /\ IsTrueOf(s, a, place, config, read)
  BY DEF TranscriptsInv, TranscriptsTypeOK, CachesAreTrue, ReadsAreTrue
<1>2. read.step = "file" /\ UNCHANGED <<agentVars, cacheLoaded, config, cacheFile>>
  BY DEF ReadFile, At
<1>3. \/ Changed(r, Tells(gap, read.kept)) /\ UNCHANGED fileCache
      \/ Changed(r, Tells(gap, <<>>)) /\ UNCHANGED fileCache
      \/ /\ Changed(r, Tells(read, records))
         /\ fileCache' = [p \in DOMAIN fileCache \cup {path} |->
                             IF p = path THEN parsed ELSE fileCache[p]]
  BY DEF ReadFile
<1>4. /\ HasBegun(s, a, config, read) /\ HasListed(s, a, place, read)
      /\ read.next <= Len(read.files)
  BY <1>1, <1>2 DEF IsTrueOf, HasBegun
<1>5. /\ f \in Files /\ entry.place \in Roots /\ entry.stamp \in Written
      /\ read.since[f].lines \in Nat /\ entry.stamp.lines \in Nat /\ n \in Nat
      /\ read.since[f].lines <= entry.stamp.lines /\ entry.stamp.lines <= n
      /\ n <= Len(s.lines[f])
  BY <1>2, <1>4, NextFileIs
<1>6. ASSUME NEW next \in Reads(s), IsTrueOf(s, a, place, config, next), Changed(r, next),
             CacheIsTrue(s, a, fileCache')
      PROVE  TranscriptsInv'
  BY <1>1, <1>2, <1>6, OthersStayTrue DEF TranscriptsTypeOK
<1>7. ASSUME NEW known \in Seq(Known(s)), Changed(r, Tells(gap, known)), UNCHANGED fileCache
      PROVE  TranscriptsInv'
  <2> HIDE DEF gap
  <2>1. gap = [read EXCEPT !.complete = FALSE]
    BY DEF gap
  <2>2. /\ gap \in Reads(s) /\ ~gap.complete /\ IsTrueOf(s, a, place, config, gap)
        /\ gap.step \in {"next", "file"} /\ gap.next <= Len(gap.files)
    <3>1. read.step \in {"next", "file"}
      BY <1>2
    <3>2. /\ gap \in Reads(s) /\ ~gap.complete /\ IsTrueOf(s, a, place, config, gap)
          /\ gap.step = read.step /\ gap.files = read.files /\ gap.next = read.next
      BY <1>1, <2>1, <3>1, GapStaysTrue
    <3> QED
      BY <1>4, <3>1, <3>2
  <2>3. /\ Tells(gap, known) \in Reads(s)
        /\ IsTrueOf(s, a, place, config, Tells(gap, known))
    BY <1>1, <2>2, TellsKeeps
  <2> QED
    BY <1>1, <1>6, <1>7, <2>3
<1>8. CASE /\ Changed(r, Tells(read, records))
           /\ fileCache' = [p \in DOMAIN fileCache \cup {path} |->
                               IF p = path THEN parsed ELSE fileCache[p]]
  <2>1. Loaded \in Configs /\ (read.early \/ s.provider # "grok" \/ Loaded = CustomModels)
    BY <1>2, <1>4, LoadedIs
  <2>2. records = ParsedIn(s, f, n, Loaded)
    BY <1>1, <1>5, ParsedOf
  <2>3. records \in Seq(Known(s))
    BY <1>1, <1>5, <2>1, <2>2, KnownIs
  <2> HIDE DEF records
  <2>4. \E m \in 0 .. a[f].lines, d \in Configs :
           /\ records = ParsedIn(s, f, m, d) /\ read.since[f].lines <= m
           /\ read.early \/ s.provider # "grok" \/ d = CustomModels
    <3> HIDE DEF f, entry, n
    <3>1. n \in 0 .. a[f].lines
      BY <1>5 DEF n
    <3>2. PICK d \in Configs : d = Loaded
      BY <2>1
    <3>3. records = ParsedIn(s, f, n, d)
      BY <2>2, <3>2
    <3>4. read.since[f].lines <= n
      BY <1>5
    <3>5. read.early \/ s.provider # "grok" \/ d = CustomModels
      BY <2>1, <3>2
    <3> QED
      BY <3>1, <3>3, <3>4, <3>5
  <2>5. /\ Tells(read, records) \in Reads(s)
        /\ IsTrueOf(s, a, place, config, Tells(read, records))
    <3>1. read.step \in {"next", "file"}
      BY <1>2
    <3> QED
      BY <1>1, <1>4, <2>3, <2>4, <3>1, TellsKeeps
  <2>6. IsOfFile(s, a, f, parsed)
    <3> HIDE DEF f, entry, n
    <3>1. n \in 0 .. a[f].lines
      BY <1>5 DEF n
    <3>2. parsed.stamp = entry.stamp /\ parsed.records = records
      OBVIOUS
    <3> HIDE DEF parsed
    <3>3. parsed.stamp \in Written /\ parsed.stamp.lines <= n
      BY <1>5, <3>2
    <3> QED
      BY <2>1, <2>2, <3>1, <3>2, <3>3 DEF IsOfFile
  <2>7. path \in Roots \X Files /\ path[2] = f
    BY <1>5
  <2> HIDE DEF parsed, path, f
  <2>8. CacheIsTrue(s, a, fileCache')
    <3> SUFFICES ASSUME NEW p \in DOMAIN fileCache'
                 PROVE  p \in Roots \X Files /\ IsOfFile(s, a, p[2], fileCache'[p])
      BY DEF CacheIsTrue
    <3>1. CASE p = path
      BY <1>8, <2>6, <2>7, <3>1
    <3>2. CASE p # path
      <4>1. p \in DOMAIN fileCache /\ fileCache'[p] = fileCache[p]
        BY <1>8, <3>2
      <4> QED
        BY <1>1, <4>1 DEF CacheIsTrue
    <3> QED
      BY <3>1, <3>2
  <2> QED
    BY <1>6, <1>8, <2>5, <2>8
<1>9. read.kept \in Seq(Known(s)) /\ <<>> \in Seq(Known(s))
  BY <1>1, EmptySeq DEF Reads
<1> QED
  BY <1>3, <1>7, <1>8, <1>9

LEMMA PersistCacheKeeps ==
    ASSUME TranscriptsInv, NEW r \in Readers, PersistCache(r)
    PROVE  TranscriptsInv'
<1>1. /\ TranscriptsTypeOK
      /\ CacheIsTrue(script, appended, fileCache)
      /\ cacheFile # Unreadable => CacheIsTrue(script, appended, cacheFile.files)
  BY DEF TranscriptsInv, CachesAreTrue
<1>2. /\ Changed(r, NotReading) /\ UNCHANGED <<agentVars, fileCache, cacheLoaded, config>>
      /\ cacheFile' \in {StoredCache(fileCache), cacheFile, Unreadable}
  BY DEF PersistCache
<1>3. StoredCache(fileCache).files = fileCache
  BY DEF StoredCache
<1>4. cacheFile' # Unreadable => CacheIsTrue(script, appended, cacheFile'.files)
  BY <1>1, <1>2, <1>3
<1>5. NotReading \in Reads(script) /\ IsTrueOf(script, appended, place, config, NotReading)
  BY NotReadingIs DEF IsTrueOf
<1> QED
  BY <1>1, <1>2, <1>4, <1>5, OthersStayTrue DEF TranscriptsTypeOK

LEMMA RestartReaderKeeps ==
    ASSUME TranscriptsInv, RestartReader
    PROVE  TranscriptsInv'
<1>1. TranscriptsTypeOK /\ FilesAreWritten(script, appended) /\ CachesAreTrue
  BY DEF TranscriptsInv
<1>2. /\ script' = script /\ appended' = appended /\ place' = place /\ cutoff' = cutoff
      /\ fileCache' = <<>> /\ cacheLoaded' = FALSE /\ config' = "unread"
      /\ cacheFile' = cacheFile
      /\ reads' = [r \in Readers |-> NotReading]
  BY DEF RestartReader, agentVars
<1>3. \A s : NotReading \in Reads(s) /\ NotReading.step = "none"
  BY NotReadingIs
<1>4. TranscriptsTypeOK'
  <2>1. reads' \in [Readers -> Reads(script)]
    BY <1>2, <1>3
  <2> QED
    BY <1>1, <1>2, <2>1 DEF TranscriptsTypeOK
<1>5. FilesAreWritten(script, appended)'
  BY <1>1, <1>2
<1>6. CachesAreTrue'
  BY <1>1, <1>2 DEF CachesAreTrue, CacheIsTrue, Unreadable
<1>7. ReadsAreTrue'
  BY <1>2, <1>3 DEF ReadsAreTrue, IsTrueOf
<1> QED
  BY <1>4, <1>5, <1>6, <1>7 DEF TranscriptsInv

LEMMA NextTranscriptsInv == TranscriptsInv /\ [TranscriptsNext]_transcriptVars => TranscriptsInv'
<1> SUFFICES ASSUME TranscriptsInv, [TranscriptsNext]_transcriptVars
             PROVE  TranscriptsInv'
  OBVIOUS
<1>1. CASE LookbackMoves \/ \E f \in Files : Write(f) \/ Archive(f) \/ RemoveFile(f)
  BY <1>1, AgentActionKeeps
<1>2. ASSUME NEW r \in Readers, NEW rebuild \in BOOLEAN, BeginRead(r, rebuild)
      PROVE  TranscriptsInv'
  BY <1>2, BeginReadKeeps
<1>3. ASSUME NEW r \in Readers, ReadConfig(r) \/ LoadCache(r) \/ OpenFile(r) \/ PersistCache(r)
      PROVE  TranscriptsInv'
  BY <1>3, ReadConfigKeeps, LoadCacheKeeps, OpenFileKeeps, PersistCacheKeeps
<1>4. ASSUME NEW r \in Readers, NEW root \in {"sessions", "archive"}, ListRoot(r, root)
      PROVE  TranscriptsInv'
  BY <1>4, ListRootKeeps DEF Roots
<1>5. ASSUME NEW r \in Readers, NEW fails \in BOOLEAN, ReadFile(r, fails)
      PROVE  TranscriptsInv'
  BY <1>5, ReadFileKeeps
<1>6. CASE RestartReader
  BY <1>6, RestartReaderKeeps
<1>7. CASE UNCHANGED transcriptVars
  <2>1. /\ UNCHANGED readVars /\ UNCHANGED <<script, appended, place, cutoff>>
    BY <1>7 DEF transcriptVars, readVars, agentVars
  <2> QED
    BY <2>1 DEF readVars, TranscriptsInv, TranscriptsTypeOK, CachesAreTrue, ReadsAreTrue
<1> QED
  BY <1>1, <1>2, <1>3, <1>4, <1>5, <1>6, <1>7 DEF TranscriptsNext

LEMMA SpecTranscriptsInv == TranscriptsSpec => []TranscriptsInv
<1>1. TranscriptsInv /\ [TranscriptsNext]_transcriptVars => TranscriptsInv'
  BY NextTranscriptsInv
<1> QED
  BY <1>1, InitTranscriptsInv, PTL DEF TranscriptsSpec

\* Transcripts.tla: files, cache and reads keep their types: a file of the agent is never told
\* to have less than nothing, a read is always at one of its steps, and what it has told and
\* has kept of the cache are records that some file may tell.
THEOREM TranscriptsTypeCorrect == TranscriptsSpec => []TranscriptsTypeOK
<1>1. TranscriptsInv => TranscriptsTypeOK
  BY DEF TranscriptsInv
<1> QED
  BY <1>1, SpecTranscriptsInv, PTL

-----------------------------------------------------------------------------
(* Transcripts: what an answer tells.                                       *)

\* As many keys as records.
LEMMA KeysCounted ==
    ASSUME NEW S, NEW told \in Seq(S), KeyedOnce(told)
    PROVE  Cardinality({x.key : x \in {told[i] : i \in DOMAIN told}}) = Len(told)
<1> DEFINE n == Len(told)
           K == {x.key : x \in {told[i] : i \in DOMAIN told}}
           key == [i \in 1 .. n |-> told[i].key]
<1>1. n \in Nat /\ DOMAIN told = 1 .. n
  OBVIOUS
<1>2. K = {told[i].key : i \in 1 .. n}
  BY <1>1
<1>3. \A i, j \in 1 .. n : told[i].key = told[j].key => i = j
  BY <1>1 DEF KeyedOnce
<1> HIDE DEF K, n
<1>4. /\ key \in [1 .. n -> K]
      /\ \A i, j \in 1 .. n : key[i] = key[j] => i = j
      /\ \A k \in K : \E i \in 1 .. n : key[i] = k
  BY <1>2, <1>3
<1> HIDE DEF key
<1>5. key \in Bijection(1 .. n, K)
  BY <1>4 DEF Bijection, Injection, Surjection, IsInjective
<1>6. ExistsBijection(1 .. n, K)
  BY <1>5 DEF ExistsBijection
<1>7. IsFiniteSet(1 .. n) /\ Cardinality(1 .. n) = n
  BY <1>1, FS_Interval
<1>8. Cardinality(K) = Cardinality(1 .. n)
  BY <1>6, <1>7, FS_Bijection
<1> QED
  BY <1>7, <1>8 DEF K, n

LEMMA RecordsOfIs ==
    ASSUME script \in Scripts, NEW f \in Files, NEW n \in Nat, n <= Len(script.lines[f])
    PROVE  LET parsed == Parsed(LinesOf(f, n), CustomModels)
           IN  {parsed[i] : i \in DOMAIN parsed} = RecordsIn(script, f, n, CustomModels)
<1> DEFINE parsed == ParsedIn(script, f, n, CustomModels)
           R == RecordsIn(script, f, n, CustomModels)
<1>1. Parsed(LinesOf(f, n), CustomModels) = parsed
  BY ParsedOf
<1>2. Lists(parsed, R)
  BY ParsedInIs
<1> HIDE DEF parsed, R
<1>3. {parsed[i] : i \in DOMAIN parsed} = R
  BY <1>2 DEF Lists
<1> QED
  BY <1>1, <1>3 DEF R

LEMMA AnswersAreTrue == TranscriptsInv => CompleteAnswersTellTheFiles
<1> SUFFICES ASSUME TranscriptsInv, NEW r \in Readers, HasToldAll(r), reads[r].complete
             PROVE  LET read == reads[r]
                        told == {read.told[i] : i \in DOMAIN read.told}
                        recordsOf(f, lines) ==
                            LET parsed == Parsed(LinesOf(f, lines), CustomModels)
                            IN  {parsed[i] : i \in DOMAIN parsed}
                        all == UNION {recordsOf(f, appended[f].lines) : f \in Files}
                    IN  /\ Cardinality({x.key : x \in told}) = Len(read.told)
                        /\ \A f \in {g \in Files : place[g] # "removed"} :
                              \A x \in recordsOf(f, read.since[f].lines) :
                                  x.at >= read.cutoff => \E y \in told : y.key = x.key
                        /\ \A x \in told :
                              \E y \in all : x = y \/ (read.early /\ x.key = y.key)
  BY DEF CompleteAnswersTellTheFiles
<1> DEFINE s == script
           a == appended
           read == reads[r]
           told == {read.told[i] : i \in DOMAIN read.told}
           recordsOf(f, lines) == LET parsed == Parsed(LinesOf(f, lines), CustomModels)
                                  IN  {parsed[i] : i \in DOMAIN parsed}
           all == UNION {recordsOf(f, a[f].lines) : f \in Files}
<1>1. /\ TranscriptsTypeOK /\ FilesAreWritten(s, a)
      /\ s \in Scripts /\ a \in [Files -> Written] /\ read \in Reads(s)
      /\ place \in [Files -> Roots \cup {"removed"}]
      /\ IsTrueOf(s, a, place, config, read)
  BY DEF TranscriptsInv, TranscriptsTypeOK, ReadsAreTrue
<1>2. read.step = "next" /\ read.next > Len(read.files) /\ read.complete
  BY DEF HasToldAll, At
<1>3. /\ HasBegun(s, a, config, read) /\ HasListed(s, a, place, read) /\ HasTold(s, a, read)
  BY <1>1, <1>2 DEF IsTrueOf
<1>4. /\ read.next \in Nat /\ Len(read.files) \in Nat
      /\ DOMAIN read.files = 1 .. Len(read.files)
      /\ read.told \in Seq(Known(s))
  BY <1>1, ReadIs
<1>5. \A f \in Files : /\ a[f].lines \in Nat /\ a[f].lines <= Len(s.lines[f])
                       /\ read.since[f].lines \in Nat
                       /\ read.since[f].lines <= Len(s.lines[f])
  <2> SUFFICES ASSUME NEW f \in Files
               PROVE  /\ a[f].lines \in Nat /\ a[f].lines <= Len(s.lines[f])
                      /\ read.since[f].lines \in Nat
                      /\ read.since[f].lines <= Len(s.lines[f])
    OBVIOUS
  <2>1. /\ a[f].lines \in Nat /\ read.since[f].lines \in Nat
        /\ read.since[f].lines <= a[f].lines
    BY <1>1, <1>3 DEF HasBegun, Written
  <2>2. /\ Len(s.lines[f]) \in Nat
        /\ a[f].lines + (IF a[f].half THEN 1 ELSE 0) <= Len(s.lines[f])
    BY <1>1, ScriptIs DEF FilesAreWritten
  <2> QED
    BY <2>1, <2>2
<1>6. \A f \in Files : /\ recordsOf(f, a[f].lines) = RecordsIn(s, f, a[f].lines, CustomModels)
                       /\ recordsOf(f, read.since[f].lines) =
                          RecordsIn(s, f, read.since[f].lines, CustomModels)
  BY <1>1, <1>5, RecordsOfIs
<1> HIDE DEF recordsOf
<1>7. Cardinality({x.key : x \in told}) = Len(read.told)
  BY <1>3, <1>4, KeysCounted DEF HasTold
<1>8. ASSUME NEW f \in Files, place[f] # "removed",
             NEW x \in recordsOf(f, read.since[f].lines), x.at >= read.cutoff
      PROVE  \E y \in told : y.key = x.key
  <2>1. x \in RecordsIn(s, f, read.since[f].lines, CustomModels)
    BY <1>6, <1>8
  <2>2. IsWanted(s, read, f)
    <3>1. PICK i \in 1 .. read.since[f].lines : x.at = s.lines[f][i].at
      BY <2>1, SameKeys
    <3> QED
      BY <1>8, <3>1 DEF IsWanted
  <2>3. place[f] \in Roots
    BY <1>1, <1>8
  <2>4. PICK i \in DOMAIN read.files : read.files[i].file = f
    BY <1>2, <1>3, <2>2, <2>3 DEF HasListed
  <2>5. i < read.next
    BY <1>2, <1>4
  <2>6. PICK k \in DOMAIN read.told : read.told[k].key = x.key
    BY <1>2, <1>3, <1>8, <2>1, <2>4, <2>5 DEF HasTold
  <2> QED
    BY <2>6
<1>9. ASSUME NEW x \in told
      PROVE  \E y \in all : x = y \/ (read.early /\ x.key = y.key)
  <2>1. PICK k \in DOMAIN read.told : read.told[k] = x
    OBVIOUS
  <2>2. PICK f \in Files :
           \E y \in RecordsIn(s, f, a[f].lines, CustomModels) :
              read.told[k] = y \/ (read.early /\ read.told[k].key = y.key)
    BY <1>2, <1>3 DEF HasTold
  <2>3. RecordsIn(s, f, a[f].lines, CustomModels) \subseteq all
    BY <1>6
  <2> QED
    BY <2>1, <2>2, <2>3
<1> QED
  BY <1>7, <1>8, <1>9 DEF recordsOf

\* Transcripts.tla: an answer that is called complete tells what was in the files when the read
\* began, each record once and as its file tells it, whatever was cached, appended, moved or
\* read at the same time, for any scripts, files, configuration and number of reads.
THEOREM CompleteAnswersTrue == TranscriptsSpec => []CompleteAnswersTellTheFiles
BY AnswersAreTrue, SpecTranscriptsInv, PTL

=============================================================================
