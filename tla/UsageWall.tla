------------------------------ MODULE UsageWall ------------------------------
(***************************************************************************)
(* The contribution wall: the tokens of each local day of the last year,   *)
(* from the rows that are kept and from the daily sums that older rows     *)
(* were compacted into.                                                    *)
(***************************************************************************)
EXTENDS Workbench

CONSTANT WallDays   \* 365

ASSUME WallAssumption == WallDays \in Nat

\* localDay, in a zone that is offset units ahead of UTC.
LocalDay(at, offset) == (at + offset) \div DayLength

\* An aggregate is shown on the local day of noon of its day of UTC.
AggregateDay(a, offset) == LocalDay(a.day * DayLength + DayLength \div 2, offset)

WallRange(offset) == (LocalDay(now, offset) - WallDays)..LocalDay(now, offset)

ShownAggregates(offset) ==
    {a \in aggregates : a.day \in WallRange(offset) /\ Domain(a) \in Headline}

\* getUsageWall, the tokens of a day.
WallTokens(offset, day) ==
    RowTotal({r \in Additive : Domain(r) \in Headline /\ LocalDay(r.at, offset) = day})
        + RowTotal({a \in ShownAggregates(offset) : AggregateDay(a, offset) = day})

-----------------------------------------------------------------------------
(* Properties.                                                              *)

\* Compaction changes where tokens are kept and not what is displayed: unless the
\* sum of a day is replaced (which Retention is about), a step that compacts leaves
\* the tokens of every day as they were, in UTC.
CompactionKeepsTheWall ==
    [][ CompactUsageHistory /\ (\A a \in aggregates : SummedOf(AggregateKey(a)) = {}) =>
            \A day \in WallRange(0) : WallTokens(0, day)' = WallTokens(0, day) ]_vars
=============================================================================
