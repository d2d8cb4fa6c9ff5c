------------------------------- MODULE Notices -------------------------------
(***************************************************************************)
(* Notifications of quota windows and failing connectors: at the end of a  *)
(* refresh the overview is read once, and each window, forecast and        *)
(* connector in it is compared with what was remembered of it, which is    *)
(* then replaced.  Between the two the notice is handed to the system,     *)
(* which is awaited and may fail without anybody noticing.                 *)
(*                                                                         *)
(* Each billing domain has one connector.  The daemon may end after each   *)
(* write; data may be cleared while a notice is awaited.                   *)
(*                                                                         *)
(* Bounds: failures are counted up to FailureLimit.                        *)
(***************************************************************************)
EXTENDS Quotas

CONSTANTS
    Order,          \* a sequence of the windows of summary domains
    LowAt, VeryLowAt,\* 20 and 5 percent
    Fall,           \* 20 percent: a fall of usage that is told as a reset
    FailureLimit    \* 3 failures in a row are told

ASSUME NoticesAssumption ==
    /\ Order \in Seq(Windows)
    /\ {LowAt, VeryLowAt, Fall, FailureLimit} \subseteq Nat
    /\ VeryLowAt <= LowAt
    /\ Windows \cap Domains = {}

VARIABLES
    enabled,        \* notificationsEnabled of the monitoring settings
    failures,       \* the failureCount of each connector
    levels,         \* notification_state: quota-level and failure
    usedSeen,       \* notification_state: quota-used
    forecastSeen,   \* notification_state: forecast
    sending,        \* what #sendNotificationTransitions has still to look at
    step,           \* where it is with the first of that
    announced       \* history: the level of each subject that was last told

noticeVars == <<enabled, failures, levels, usedSeen, forecastSeen, sending, step, announced>>
allNoticeVars == <<quotaVars, noticeVars>>

Subjects == Windows \cup Domains
Levels == 0..2

NoticesInit ==
    /\ QuotasInit
    /\ enabled = FALSE
    /\ failures = [d \in Domains |-> 0]
    /\ levels = [s \in Subjects |-> 0]
    /\ usedSeen = [w \in Windows |-> NotKnown]
    /\ forecastSeen = [w \in Windows |-> NotKnown]
    /\ sending = <<>>
    /\ step = "idle"
    /\ announced = [s \in Subjects |-> 0]

Item(kind, of, used, resets, level) ==
    [kind |-> kind, of |-> of, used |-> used, resets |-> resets, level |-> level]

LevelOf(w) ==
    IF Remaining(w) <= VeryLowAt THEN 2
    ELSE IF Remaining(w) <= LowAt THEN 1 ELSE 0

Nothing(id) == Item("nothing", id, NotKnown, 0, 0)

\* The overview of this moment, as far as notices are about it: the windows with
\* known usage and the forecasts of exhaustion.
WindowItem(id) ==
    IF \E w \in windows : w.id = id /\ w.used # NotKnown
    THEN LET w == CHOOSE w \in windows : w.id = id
         IN  Item("window", id, w.used, w.resets, LevelOf(w))
    ELSE Nothing(id)

ForecastItem(id) ==
    IF IsForecast(id) /\ ~LastsUntilReset(id)
    THEN Item("forecast", id, NotKnown, Latest(Recent(id)).resets, 0)
    ELSE Nothing(id)

Items ==
    LET n == Len(Order)
    IN  [i \in 1..(2 * n) |-> IF i <= n THEN WindowItem(Order[i]) ELSE ForecastItem(Order[i - n])]
-----------------------------------------------------------------------------
(* A refresh: what the connectors answered is saved in a turn each.         *)

IsIdle == step = "idle"

\* A healthy answer clears the notice of failure.
Answer(d) ==
    /\ IsIdle
    /\ \E used \in UsedByWindow(d) : SaveQuotas(d, used)
    /\ failures' = [failures EXCEPT ![d] = 0]
    /\ levels' = [levels EXCEPT ![d] = 0]
    /\ announced' = [announced EXCEPT ![d] = 0]
    /\ UNCHANGED <<enabled, usedSeen, forecastSeen, sending, step>>

Fail(d) ==
    /\ IsIdle
    /\ RecordFailure(d) \/ SaveWithoutQuotas(d)
    /\ failures[d] < FailureLimit
    /\ failures' = [failures EXCEPT ![d] = @ + 1]
    /\ UNCHANGED <<enabled, levels, usedSeen, forecastSeen, sending, step, announced>>

\* The refresh ends with the notices.
BeginNotices ==
    /\ IsIdle
    /\ enabled
    /\ sending' = Items
    /\ step' = "reset"
    /\ UNCHANGED <<quotaVars, enabled, failures, levels, usedSeen, forecastSeen,
                   announced>>
-----------------------------------------------------------------------------
(* #sendNotificationTransitions.                                            *)

This == Head(sending)
IsAt(kind, at) == sending # <<>> /\ This.kind = kind /\ step = at

\* There is no such window, its usage is not known or nothing is predicted of it.
Skip ==
    /\ IsAt("nothing", "reset")
    /\ sending' = Tail(sending)
    /\ UNCHANGED <<quotaVars, enabled, failures, levels, usedSeen, forecastSeen, step, announced>>

\* A usage that fell by Fall is told as a reset.
TellReset ==
    /\ IsAt("window", "reset")
    /\ usedSeen[This.of] # NotKnown /\ usedSeen[This.of] - This.used >= Fall
    /\ step' = "used"
    /\ UNCHANGED <<quotaVars, enabled, failures, levels, usedSeen, forecastSeen, sending,
                   announced>>

UsedIsSettled ==
    \/ IsAt("window", "used")
    \/ /\ IsAt("window", "reset")
       /\ usedSeen[This.of] = NotKnown \/ usedSeen[This.of] - This.used < Fall

RememberUsed ==
    /\ UsedIsSettled
    /\ usedSeen' = [usedSeen EXCEPT ![This.of] = This.used]
    /\ step' = "level"
    /\ UNCHANGED <<quotaVars, enabled, failures, levels, forecastSeen, sending,
                   announced>>

TellLevel ==
    /\ IsAt("window", "level")
    /\ This.level > levels[This.of]
    /\ announced' = [announced EXCEPT ![This.of] = This.level]
    /\ step' = "settle"
    /\ UNCHANGED <<quotaVars, enabled, failures, levels, usedSeen, forecastSeen, sending>>

\* Faulty variant: the level is remembered without a notice of it.
LevelIsSettledUnseen == IsAt("window", "level")

LevelIsSettled ==
    \/ IsAt("window", "settle")
    \/ IsAt("window", "level") /\ This.level <= levels[This.of]

RememberLevel ==
    /\ LevelIsSettled
    /\ levels' = [levels EXCEPT ![This.of] = This.level]
    /\ announced' = [announced EXCEPT ![This.of] = This.level]
    /\ sending' = Tail(sending)
    /\ step' = "reset"
    /\ UNCHANGED <<quotaVars, enabled, failures, usedSeen, forecastSeen>>

\* An exhaustion that is predicted is told once for each reset of the window.
TellForecast ==
    /\ IsAt("forecast", "reset")
    /\ forecastSeen[This.of] # This.resets
    /\ step' = "settle"
    /\ UNCHANGED <<quotaVars, enabled, failures, levels, usedSeen, forecastSeen, sending,
                   announced>>

ForecastIsSettled ==
    \/ IsAt("forecast", "settle")
    \/ IsAt("forecast", "reset") /\ forecastSeen[This.of] = This.resets

RememberForecast ==
    /\ ForecastIsSettled
    /\ forecastSeen' = [forecastSeen EXCEPT ![This.of] = This.resets]
    /\ sending' = Tail(sending)
    /\ step' = "reset"
    /\ UNCHANGED <<quotaVars, enabled, failures, levels, usedSeen,
                   announced>>

\* The runtime states are read after the last of the overview has been told.
TellFailure(d) ==
    /\ sending = <<>> /\ step = "reset"
    /\ failures[d] >= FailureLimit /\ levels[d] = 0
    /\ announced' = [announced EXCEPT ![d] = 1]
    /\ sending' = <<Item("failure", d, NotKnown, 0, 1)>>
    /\ step' = "settle"
    /\ UNCHANGED <<quotaVars, enabled, failures, levels, usedSeen, forecastSeen>>

RememberFailure ==
    /\ IsAt("failure", "settle")
    /\ levels' = [levels EXCEPT ![This.of] = 1]
    /\ announced' = [announced EXCEPT ![This.of] = 1]
    /\ sending' = <<>>
    /\ step' = "reset"
    /\ UNCHANGED <<quotaVars, enabled, failures, usedSeen, forecastSeen>>

EndNotices ==
    /\ sending = <<>> /\ step = "reset"
    /\ \A d \in Domains : failures[d] < FailureLimit \/ levels[d] = 1
    /\ step' = "idle"
    /\ UNCHANGED <<quotaVars, enabled, failures, levels, usedSeen, forecastSeen, sending,
                   announced>>
-----------------------------------------------------------------------------
(* Everything else.                                                         *)

SetNotifications ==
    /\ enabled' = ~enabled
    /\ UNCHANGED <<quotaVars, failures, levels, usedSeen, forecastSeen, sending, step,
                   announced>>

\* clearUsageData, between two turns of a refresh or while a notice is awaited.
IsAwaiting == step \in {"idle", "used", "settle"}

Clear ==
    /\ IsAwaiting
    /\ ClearQuotas
    /\ failures' = [d \in Domains |-> 0]
    /\ levels' = [s \in Subjects |-> 0]
    /\ usedSeen' = [w \in Windows |-> NotKnown]
    /\ forecastSeen' = [w \in Windows |-> NotKnown]
    /\ UNCHANGED <<enabled, sending, step, announced>>

\* The daemon ends and starts again: what is stored is what is left.
Restart ==
    /\ step # "idle"
    /\ sending' = <<>>
    /\ step' = "idle"
    /\ UNCHANGED <<quotaVars, enabled, failures, levels, usedSeen, forecastSeen, announced>>

PassTime == IsIdle /\ ClockTicks /\ UNCHANGED noticeVars

NoticesNext ==
    \/ PassTime
    \/ \E d \in Domains : Answer(d) \/ Fail(d) \/ TellFailure(d)
    \/ BeginNotices
    \/ Skip \/ TellReset \/ RememberUsed \/ TellLevel \/ RememberLevel
    \/ TellForecast \/ RememberForecast
    \/ RememberFailure \/ EndNotices
    \/ SetNotifications \/ Clear \/ Restart

NoticesSpec == NoticesInit /\ [][NoticesNext]_allNoticeVars
-----------------------------------------------------------------------------
(* Properties.                                                              *)

Log == INSTANCE NoticeLog WITH known <- levels

\* Notices keep what NoticeLog promises: a low quota or a failing connector is
\* told before it is remembered, however the daemon ends and whatever is cleared
\* in between, and what is remembered is not told again.
LevelsAreAnnounced == Log!Spec
=============================================================================
