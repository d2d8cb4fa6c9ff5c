------------------------------ MODULE CodexDays ------------------------------
(***************************************************************************)
(* Two sources tell what Codex has used: the transcripts on this Mac, row  *)
(* by row, and the account, as one total per day.  The connector stores    *)
(* the rows, the totals of the days it can reconcile, and for each of      *)
(* those the remainder that the rows do not account for; the read model    *)
(* adds up what is stored, but no total whose remainder is stored too.     *)
(*                                                                         *)
(* A row is one token of a day.  Collections take turns (see Collection)   *)
(* and one that times out or cannot be saved stores nothing.               *)
(*                                                                         *)
(* Bounds: days up to LastDay, MaxRows rows a day, account totals up to    *)
(* MaxTotal.  The retention term is longer than the days of the model.     *)
(***************************************************************************)
EXTENDS Naturals, FiniteSets

CONSTANTS
    LastDay, MaxRows, MaxTotal

ASSUME BoundsAssumption ==
    /\ LastDay \in Nat \ {0} /\ MaxRows \in Nat /\ MaxTotal \in Nat

VARIABLES
    today,
    written,     \* the rows ever written to a transcript
    kept,        \* the rows that are in a transcript now
    vanished,    \* history: the last of them has been removed some time
    account,     \* the totals that the account tells, of some days
    collecting,  \* collect() is between its two awaits
    settled,     \* the totals of closed days that it has read
    transcript,  \* stored: codex-transcript:<row>
    daily,       \* stored: codex:daily:<day>
    remainder    \* stored: codex-transcript:account-remainder:<day>

clientVars == <<today, written, kept, vanished, account>>
stored     == <<transcript, daily, remainder>>
daysVars       == <<clientVars, collecting, settled, stored>>

Days   == 1..LastDay
DayRows == [day : Days, n : 1..MaxRows]
Nobody == [d \in {} |-> 0]

\* A total for some of the days.
IsTotals(f) == DOMAIN f \subseteq Days /\ \A d \in DOMAIN f : f[d] \in 0..MaxTotal

Upsert(new, old) ==
    [d \in DOMAIN new \cup DOMAIN old |-> IF d \in DOMAIN new THEN new[d] ELSE old[d]]

RowsOf(day, rows) == {r \in rows : r.day = day}
Tokens(day, rows) == Cardinality(RowsOf(day, rows))

DaysTypeOK ==
    /\ today \in Days
    /\ written \subseteq DayRows
    /\ kept \subseteq written
    /\ vanished \in BOOLEAN
    /\ collecting \in BOOLEAN
    /\ transcript \subseteq written
    /\ \A f \in {account, settled, daily, remainder} : IsTotals(f)

DaysInit ==
    /\ today = 1
    /\ written = {} /\ kept = {} /\ vanished = FALSE
    /\ account = Nobody
    /\ collecting = FALSE /\ settled = Nobody
    /\ transcript = {} /\ daily = Nobody /\ remainder = Nobody

-----------------------------------------------------------------------------
(* The client and the account.                                              *)

MidnightPasses ==
    /\ today < LastDay
    /\ today' = today + 1
    /\ UNCHANGED <<written, kept, vanished, account, collecting, settled, stored>>

WriteRow(n) ==
    LET row == [day |-> today, n |-> n]
    IN  /\ row \notin written
        /\ written' = written \cup {row}
        /\ kept' = kept \cup {row}
        /\ UNCHANGED <<today, vanished, account, collecting, settled, stored>>

RemoveRow(row) ==
    /\ kept' = kept \ {row}
    /\ vanished' = (vanished \/ kept = {row})
    /\ UNCHANGED <<today, written, account, collecting, settled, stored>>

\* The account catches up with a day some hours after it, and counts what was
\* used elsewhere.
AccountTells(day, total) ==
    /\ day <= today
    /\ day \in DOMAIN account => total > account[day]
    /\ account' = Upsert([d \in {day} |-> total], account)
    /\ UNCHANGED <<today, written, kept, vanished, collecting, settled, stored>>

-----------------------------------------------------------------------------
(* CodexConnector.collect, and the save of its snapshot.                    *)

SettledAccountDays == {d \in DOMAIN account : d < today}

\* readAccount answers, or fails and leaves no totals.
ReadAccount(answers) ==
    /\ ~collecting
    /\ collecting' = TRUE
    /\ settled' = [d \in {d \in SettledAccountDays : answers} |-> account[d]]
    /\ UNCHANGED <<clientVars, stored>>

\* The closed days whose total contains the rows read for them.
Reconciled(read) == {d \in DOMAIN settled : Tokens(d, read) <= settled[d]}

\* Faulty variant: a reading that missed some rows reconciles.
CanReconcileIncomplete(unread) == DOMAIN settled # {}

CanReconcile(unread) == unread = {} /\ DOMAIN settled # {}

\* readUsage tells the rows in the transcripts but those it could not read.  A snapshot
\* with rows that reconciles replaces everything stored; any other is added.
SaveDays(unread) ==
    LET read      == kept \ unread
        days      == IF CanReconcile(unread) THEN Reconciled(read) ELSE {}
        replaces  == CanReconcile(unread) /\ read # {}
        Kept(f)   == IF replaces THEN Nobody ELSE f
        totals    == [d \in days |-> settled[d]]
        remaining == [d \in {d \in days : RowsOf(d, read) # {}} |-> settled[d] - Tokens(d, read)]
    IN  /\ collecting
        /\ collecting' = FALSE
        /\ settled' = Nobody
        /\ transcript' = read \cup (IF replaces THEN {} ELSE transcript)
        /\ daily' = Upsert(totals, Kept(daily))
        /\ remainder' = Upsert(remaining, Kept(remainder))
        /\ UNCHANGED clientVars

\* The collector timed out, or its snapshot could not be saved.
GiveUp ==
    /\ collecting
    /\ collecting' = FALSE
    /\ settled' = Nobody
    /\ UNCHANGED <<clientVars, stored>>

DaysNext ==
    \/ MidnightPasses
    \/ \E n \in 1..MaxRows : WriteRow(n)
    \/ \E row \in kept : RemoveRow(row)
    \/ \E day \in Days, total \in 0..MaxTotal : AccountTells(day, total)
    \/ \E answers \in BOOLEAN : ReadAccount(answers)
    \/ \E unread \in SUBSET kept : SaveDays(unread)
    \/ GiveUp

DaysSpec == DaysInit /\ [][DaysNext]_daysVars

-----------------------------------------------------------------------------
(* Properties.                                                              *)

Stored(f, day) == IF day \in DOMAIN f THEN f[day] ELSE 0

\* Faulty variant: totals and remainders are both added.
ShownAddingBoth(day) ==
    Tokens(day, transcript) + Stored(remainder, day) + Stored(daily, day)

\* What the read model shows of a day (additiveUsagePredicate).
Shown(day) ==
    Tokens(day, transcript) +
        (IF day \in DOMAIN remainder THEN remainder[day] ELSE Stored(daily, day))

\* A day that still runs is no evidence for its total, so none is stored.
DailyTotalsAreOfClosedDays == \A d \in DOMAIN daily : d < today

\* Sources are reconciled, not added together: a day never shows more than the
\* larger of what the account has told of it and what was written for it.
\* Once all transcripts have been removed this does not hold: a collection then
\* stores totals of the account beside the rows that are kept.
OverlapsAreReconciled ==
    ~vanished => \A d \in Days : Shown(d) <= Tokens(d, written) \/ Shown(d) <= Stored(account, d)

\* No collection makes a day show less than before, however little of the
\* history it could read, unless stored rows of that day are gone from the transcripts.
UsageDropsOnlyWithItsHistory ==
    [][\A d \in Days :
          Shown(d)' < Shown(d) => ~(RowsOf(d, transcript) \subseteq kept)]_daysVars
=============================================================================
