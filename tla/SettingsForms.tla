---------------------------- MODULE SettingsForms ----------------------------
(***************************************************************************)
(* What is edited in the settings of the dashboard: custom rates, and the  *)
(* state of connectors.  A change is sent, is answered or fails, and when  *)
(* it is answered the page loads the list anew before it is done with it.  *)
(* The overview that it also loads is in Dashboard.                        *)
(*                                                                         *)
(* The lists have no request sequence: they arrive in any order, and one   *)
(* that another has overtaken replaces it.                                 *)
(*                                                                         *)
(* Bounds: a rate has one of two values, or is absent; MaxChanges says how *)
(* many changes, and loads that follow no change, are sent, and MaxLosses  *)
(* how many answers are lost.                                              *)
(***************************************************************************)
EXTENDS Naturals

CONSTANTS Rates, Connectors, MaxChanges, MaxLosses

ASSUME FormsAssumption ==
    /\ {MaxChanges, MaxLosses} \subseteq Nat
    /\ Rates \cap Connectors = {}

VARIABLES
    stored,     \* what the daemon has: custom rates, and states of connectors
    listed,     \* customRates and connectors of the page
    form,       \* showAddRateForm, savingRate, editingRateId, updatingRate,
                \* deletingRateId, pendingConnectorId
    calls,      \* the changes and loads that wait for the daemon
    told,       \* the lists on their way, each with what waits for it
    sent,       \* changes that were sent, and loads that follow none
    lost,       \* answers that were lost
    current     \* history: whether no list was told after the one that is shown

formVars == <<stored, listed, form, calls, told, sent, lost, current>>

Nobody == "nobody"
NoItem == "none"

\* A rate may be none; a connector is always listed.
ItemsLike(item) == IF item \in Rates THEN Rates ELSE Connectors
ValuesOf(item) == IF item \in Rates THEN {"cheap", "dear"} ELSE {"connected", "skipped"}

\* Several changes of an item may be on their way, and several loads of a list.
Change(kind, item) == [kind |-> kind, item |-> item, serial |-> sent, isAnswered |-> FALSE]

\* A load that follows no change.
Load(item, serial) == [kind |-> "load", item |-> item, serial |-> serial, isAnswered |-> TRUE]

FormsInit ==
    /\ stored \in {s \in [Rates \cup Connectors -> {NoItem, "cheap", "skipped"}] :
                       \A i \in DOMAIN s : (i \in Connectors) <=> (s[i] = "skipped")}
    /\ listed = [i \in Rates \cup Connectors |-> NoItem]
    /\ form = [add |-> FALSE, saving |-> FALSE, editing |-> Nobody, updating |-> FALSE,
               deleting |-> Nobody, pending |-> Nobody]
    /\ sent = 0
    /\ calls = {Load(CHOOSE r \in Rates : TRUE, 0), Load(CHOOSE c \in Connectors : TRUE, 0)}
    /\ told = {}
    /\ lost = 0
    /\ current = [i \in Rates \cup Connectors |-> TRUE]
-----------------------------------------------------------------------------
(* The person.                                                              *)

\* openSettings and the refresh button load the rates, whatever else is on its way, and a
\* status that says the discovery is over loads the connectors.
LoadsAgain(items) ==
    /\ sent < MaxChanges
    /\ sent' = sent + 1
    /\ calls' = calls \cup {Load(CHOOSE i \in items : TRUE, sent + 1)}
    /\ UNCHANGED <<stored, listed, form, told, lost, current>>

OpenRates == LoadsAgain(Rates)
DiscoveryIsOver == LoadsAgain(Connectors)

ToggleAddForm ==
    /\ form' = [form EXCEPT !.add = ~@]
    /\ UNCHANGED <<stored, listed, calls, told, sent, lost, current>>

StartEdit(r) ==
    /\ listed[r] # NoItem /\ form.editing # r
    /\ form' = [form EXCEPT !.editing = r]
    /\ UNCHANGED <<stored, listed, calls, told, sent, lost, current>>

CancelEdit ==
    /\ form.editing # Nobody /\ ~form.updating
    /\ form' = [form EXCEPT !.editing = Nobody]
    /\ UNCHANGED <<stored, listed, calls, told, sent, lost, current>>

Sends(kind, item, flags) ==
    /\ form' = flags
    /\ sent < MaxChanges
    /\ sent' = sent + 1
    /\ calls' = calls \cup {Change(kind, item)}
    /\ UNCHANGED <<stored, listed, told, lost, current>>

\* saveCustomRate: a new rate has an id of its own.
Save(r) ==
    /\ form.add /\ ~form.saving
    /\ stored[r] = NoItem /\ listed[r] = NoItem
    /\ Sends("save", r, [form EXCEPT !.saving = TRUE])

\* updateCustomRate.
Update(r) ==
    /\ form.editing = r /\ ~form.updating
    /\ listed[r] # NoItem
    /\ Sends("update", r, [form EXCEPT !.updating = TRUE])

\* deleteCustomRate: a rate that is edited shows no button for it.
Delete(r) ==
    /\ listed[r] # NoItem
    /\ r \notin {form.deleting, form.editing}
    /\ Sends("delete", r, [form EXCEPT !.deleting = r])

\* configureConnector.
Configure(c) ==
    /\ listed[c] # NoItem /\ form.pending # c
    /\ Sends("configure", c, [form EXCEPT !.pending = c])
-----------------------------------------------------------------------------
(* The daemon.                                                              *)

\* A change of a rate that is gone stores it again.
Applied(call) ==
    IF call.kind = "delete"
    THEN {[stored EXCEPT ![call.item] = NoItem]}
    ELSE {[stored EXCEPT ![call.item] = v] : v \in ValuesOf(call.item)}

\* What an answer closes, whichever form is open by then.
ClosedBy(call) ==
    CASE call.kind = "save"   -> [form EXCEPT !.add = FALSE]
      [] call.kind = "update" -> [form EXCEPT !.editing = Nobody]
      [] call.kind = "delete" /\ form.editing = call.item -> [form EXCEPT !.editing = Nobody]
      [] OTHER                -> form

\* Faulty variant: a rate that is deleted is only expected to leave the list.
FollowedByNothing(call) ==
    IF call.kind = "delete" THEN {} ELSE {[call EXCEPT !.isAnswered = TRUE]}

\* An answer to a change is followed by a load of the list, which the change waits for.
FollowedBy(call) == {[call EXCEPT !.isAnswered = TRUE]}

\* In the end of a change.
ReleasedBy(call) ==
    CASE call.kind = "save"      -> [form EXCEPT !.saving = FALSE]
      [] call.kind = "update"    -> [form EXCEPT !.updating = FALSE]
      [] call.kind = "delete"    -> [form EXCEPT !.deleting = Nobody]
      [] call.kind = "configure" -> [form EXCEPT !.pending = Nobody]
      [] OTHER                   -> form

Answers(call) ==
    /\ ~call.isAnswered
    /\ stored' \in Applied(call)
    /\ form' = ClosedBy(call)
    /\ calls' = (calls \ {call}) \cup FollowedBy(call)
    /\ UNCHANGED <<listed, told, sent, lost, current>>

\* A change that fails may have been made.
Fails(call) ==
    /\ lost < MaxLosses
    /\ stored' \in {stored} \cup (IF call.isAnswered THEN {} ELSE Applied(call))
    /\ form' = ReleasedBy(call)
    /\ calls' = calls \ {call}
    /\ lost' = lost + 1
    /\ UNCHANGED <<listed, told, sent, current>>

\* An entry that another of its list is told after.
Passed(entry, items) ==
    IF DOMAIN entry.list = items THEN [entry EXCEPT !.isLast = FALSE] ELSE entry

TellList(call) ==
    LET items == ItemsLike(call.item)
        list == [i \in items |-> stored[i]]
    IN
    /\ call.isAnswered
    /\ told' = {Passed(entry, items) : entry \in told}
                   \cup {[call |-> call, list |-> list, isLast |-> TRUE]}
    /\ calls' = calls \ {call}
    /\ current' = [i \in DOMAIN current |-> current[i] /\ i \notin items]
    /\ UNCHANGED <<stored, listed, form, sent, lost>>

ListArrives(entry) ==
    LET items == DOMAIN entry.list IN
    /\ listed' = [i \in DOMAIN listed |-> IF i \in items THEN entry.list[i] ELSE listed[i]]
    /\ current' = [i \in DOMAIN current |-> IF i \in items THEN entry.isLast ELSE current[i]]
    /\ form' = ReleasedBy(entry.call)
    /\ told' = told \ {entry}
    /\ UNCHANGED <<stored, calls, sent, lost>>

FormsNext ==
    \/ OpenRates \/ DiscoveryIsOver \/ ToggleAddForm \/ CancelEdit
    \/ \E r \in Rates : StartEdit(r) \/ Save(r) \/ Update(r) \/ Delete(r)
    \/ \E c \in Connectors : Configure(c)
    \/ \E call \in calls : Answers(call) \/ Fails(call) \/ TellList(call)
    \/ \E entry \in told : ListArrives(entry)

FormsSpec == FormsInit /\ [][FormsNext]_formVars
-----------------------------------------------------------------------------
(* Properties.                                                              *)

\* When nothing is on its way any more, the page lists what the daemon has, in whatever
\* order changes of several rates and connectors and loads were sent and answered, unless
\* one of them failed, or the list that is shown was overtaken by one that was told later.
ListsAreShown ==
    calls = {} /\ told = {} /\ lost = 0 =>
        \A i \in DOMAIN listed : current[i] => listed[i] = stored[i]
=============================================================================
