------------------------------ MODULE Retention ------------------------------
(***************************************************************************)
(* How long usage is kept: the rows of usage_observations, the sources     *)
(* that fill them, and the compaction that moves rows older than the       *)
(* retention term into one aggregate per day and source.                   *)
(*                                                                         *)
(* A row stands for the tokens used at one instant as one source tells     *)
(* them, and an aggregate for the set of rows whose tokens its sums        *)
(* contain: what the usage wall shows of a day is what both contain.       *)
(*                                                                         *)
(* A refresh and a compaction each have the database to themselves (see    *)
(* Collection), and a compaction is one transaction.                       *)
(*                                                                         *)
(* Bounds: time ends at MaxTime; a source is used once per instant.        *)
(***************************************************************************)
EXTENDS Integers

CONSTANTS
    Sources,       \* which of "transcript", "database", "telemetry" there are
    InstantsPerDay,
    Term,          \* how long rows are kept, in instants (90 days)
    MaxTime

ASSUME SourcesAssumption == Sources \subseteq {"transcript", "database", "telemetry"}
ASSUME TimeAssumption ==
    /\ InstantsPerDay \in Nat \ {0}
    /\ Term \in Nat
    /\ MaxTime \in Nat

VARIABLES
    now,
    disk,          \* the rows that transcripts and client databases still tell
    raw,           \* usage_observations
    aggregate      \* the rows contained in daily_usage_aggregates

vars == <<now, disk, raw, aggregate>>

Rows == [source : Sources, at : 0..MaxTime]

\* A transcript is re-read as far as the lookback of its reader goes, a client
\* database from the first midnight on that lies within it; telemetry arrives
\* once.
Reread == Sources \cap {"transcript", "database"}

TypeOK ==
    /\ now \in 0..MaxTime
    /\ disk \subseteq Rows
    /\ raw \subseteq Rows
    /\ aggregate \subseteq Rows

Init ==
    /\ now = 0
    /\ disk = {}
    /\ raw = {}
    /\ aggregate = {}

-----------------------------------------------------------------------------
\* The instant 90 days ago.
Cutoff == now - Term

TimePasses ==
    /\ now < MaxTime
    /\ now' = now + 1
    /\ UNCHANGED <<disk, raw, aggregate>>

Used(source) == [source |-> source, at |-> now]

\* A client writes what it has used to its transcripts or database.
WriteHistory(source) ==
    /\ source \in Reread
    /\ disk' = disk \cup {Used(source)}
    /\ UNCHANGED <<now, raw, aggregate>>

\* Old history is removed by the client that owns it.
RemoveHistory(row) ==
    /\ disk' = disk \ {row}
    /\ UNCHANGED <<now, raw, aggregate>>

IngestTelemetry ==
    /\ "telemetry" \in Sources
    /\ raw' = raw \cup {Used("telemetry")}
    /\ UNCHANGED <<now, disk, aggregate>>

Midnight(t) == t - (t % InstantsPerDay)

\* Faulty variant: every reader looks back to midnight.
LookbackTooFar(source) == Midnight(Cutoff)

\* The first instant a source is read from.
Lookback(source) ==
    IF source = "database" THEN Midnight(Cutoff) ELSE Cutoff

Told(source) == {r \in disk : r.source = source /\ r.at >= Lookback(source)}

\* saveSnapshot stores what was read.  A complete reading replaces the stored
\* rows of the source; one that missed some rows, or a transcript reading that
\* found none, only adds to them.
SaveSnapshot(source, unread) ==
    LET read     == Told(source) \ unread
        replaces == unread = {} /\ (source = "database" \/ read # {})
    IN  /\ source = "database" => unread = {}
        /\ raw' = read \cup {r \in raw : ~(replaces /\ r.source = source)}
        /\ UNCHANGED <<now, disk, aggregate>>

Group(row) == <<row.source, row.at \div InstantsPerDay>>

\* Faulty variant: the row at the cutoff is deleted but not aggregated.
CompactUsageHistoryOffByOne ==
    LET old       == {r \in raw : r.at < Cutoff}
        rewritten == {Group(r) : r \in old}
    IN  /\ aggregate' = old \cup {r \in aggregate : Group(r) \notin rewritten}
        /\ raw' = {r \in raw : r.at > Cutoff}
        /\ UNCHANGED <<now, disk>>

\* Every group of old rows is summed anew: an aggregate that exists is replaced
\* (ON CONFLICT ... DO UPDATE).  The old rows are deleted.
CompactUsageHistory ==
    LET old       == {r \in raw : r.at < Cutoff}
        rewritten == {Group(r) : r \in old}
    IN  /\ old # {}
        /\ aggregate' = old \cup {r \in aggregate : Group(r) \notin rewritten}
        /\ raw' = raw \ old
        /\ UNCHANGED <<now, disk>>

\* clearUsageData deletes the providers, and with them what refers to them.
ClearUsageData ==
    /\ raw' = {}
    /\ aggregate' = {}
    /\ UNCHANGED <<now, disk>>

Next ==
    \/ TimePasses
    \/ \E source \in Sources : WriteHistory(source)
    \/ \E row \in disk : RemoveHistory(row)
    \/ IngestTelemetry
    \/ \E source \in Reread : \E unread \in SUBSET Told(source) : SaveSnapshot(source, unread)
    \/ CompactUsageHistory
    \/ ClearUsageData

Spec == Init /\ [][Next]_vars
-----------------------------------------------------------------------------
(* Properties.                                                              *)

\* What is kept as a row and contained in an aggregate is counted twice by the
\* wall.  The readers of transcripts do not look back beyond the term that rows
\* are kept for, so none of their rows comes back once it has been compacted.
RowsAreCountedOnce == \A r \in raw \cap aggregate : r.source = "database"

\* A row leaves the raw rows into its aggregate, or because its source has been
\* read and does not tell it any more, or when everything is cleared.
RowsLeaveIntoTheirAggregate ==
    [][aggregate' \cup raw' # {} =>
          \A r \in raw \ raw' :
              r \in aggregate' \/ (r.source \in Reread /\ r \notin Told(r.source))]_vars

\* What the documents promise and the code does not do.

\* Running the compaction repeatedly is idempotent (issue 12): a compaction loses
\* nothing that was counted before it.
CompactionsLoseNothing ==
    [][aggregate' \cup raw' # {} => aggregate \subseteq aggregate']_vars
=============================================================================
