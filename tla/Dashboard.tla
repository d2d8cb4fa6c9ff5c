----------------------------- MODULE Dashboard ------------------------------
(***************************************************************************)
(* The dashboard page as a client of the daemon: what it asks for, which   *)
(* answers it takes, how it follows the processing of the daemon, and when *)
(* it refreshes on its own.                                                *)
(*                                                                         *)
(* Answers arrive in any order and may be lost.  An answer that carries a  *)
(* request sequence in the code is a request that is the newest of its     *)
(* kind or not.  Two requests of the same kind that are sent on the same   *)
(* occasion, of the same evidence, and that the same runs outdate, are     *)
(* one.  The retention module of a run ends with its pricing.              *)
(*                                                                         *)
(* Bounds: a budget says how often a person does something, an answer is   *)
(* lost, the evidence changes, an answer overtakes another that the page   *)
(* takes as well, and a refresh is automatic; MaxPolls says how many polls *)
(* overlap.                                                                *)
(***************************************************************************)
EXTENDS Naturals, Sequences, FiniteSets, Recovery

CONSTANTS
    Views,          \* what has a request sequence and a flag: the wall, the providers' cards
    IndexedLater,   \* the cards the page learns of from the index
    Panels,         \* what is only loaded and shown: connectors, retention, rates, monitoring
    Selections,     \* windows, each with a currency
    StartSelection, \* what local storage or the default says
    Evidence,       \* pairs of the providers of an overview and a diagnostic report
    MaxPolls,       \* how many status polls overlap
    Budgets         \* how often each thing that is bounded may happen

ASSUME DashboardAssumption ==
    /\ IndexedLater \subseteq Views
    /\ (Views \cup Panels) \cap {"overview", "workbench", "index", "diagnostics", "processing",
                               "post refresh", "post rebuild", "post clear"} = {}
    /\ StartSelection \in Selections
    /\ MaxPolls \in Nat
    /\ Budgets \subseteq [{"selects", "commands", "losses", "changes", "overtakings",
                           "fired"} -> Nat]

VARIABLES
    server,         \* the daemon: its run, what is queued behind it, its evidence so far
    page,           \* "mounting", "diagnosing" or "polling"
    requests,       \* what was asked and has not been answered
    selected,       \* selectedWindow and selectedCurrency
    shown,          \* of the last answer that was taken of each kind: its selection, its version
    overviewError,
    loading,        \* workbenchLoading, agentProviderLoading, usageWallLoading
    busy,           \* refreshing, hardRebuilding, clearingData
    diagnosed,      \* diagnosticsLoaded
    seen,           \* processing: the run of the daemon as the page saw it last
    timer,          \* processingTimer is armed
    recovery,       \* the controller of automatic recovery
    history         \* counters, what the page asked for, and what excuses it

dataVars == <<server, page, requests, selected, shown, overviewError, loading, busy,
              diagnosed, seen, timer, recovery, history>>

Sequenced == {"overview"} \cup Views
Kinds == Sequenced \cup Panels \cup {"index", "diagnostics"}

NotLoaded == [loaded |-> FALSE, late |-> FALSE, sel |-> StartSelection, version |-> 1]
IsLoaded(what) == shown[what].loaded

\* A run is queued until it collects, and then prices; either may fail.  A person asked for
\* it or not.
Run(stage, failed, rebuild, asked) ==
    [stage |-> stage, failed |-> failed, rebuild |-> rebuild, asked |-> asked]
NotSeen == Run("none", {}, FALSE, FALSE)
Begun(kind) == Run("queued", {}, kind = "rebuild", kind # "automatic")
IsOver(run) == run.stage = "idle"
UsageIsReady(run) == run.stage \in {"pricing", "idle"} /\ "usage" \notin run.failed
PricingIsReady(run) == run.stage = "idle" /\ "pricing" \notin run.failed
UsageIsBusy(run) == run.stage \in {"queued", "collecting"}
BecameReady(last, next, Ready(_)) == last # NotSeen /\ ~Ready(last) /\ Ready(next)

\* The evidence is kept version by version; the daemon tells of the last one.
Latest == Len(server.evidence)
Changes == Latest - 1
-----------------------------------------------------------------------------
(* Requests.                                                                *)

\* An answer is told some time after its request: it is of any evidence since then, and at
\* the worst it is late when a run that was asked for stores something meanwhile.  Only the
\* overview is told apart by what it is of.
TellsEvidence(what) == what \in {"overview", "diagnostics"}
Request(what, task) ==
    [what |-> what, by |-> task, newest |-> TRUE,
     sel |-> IF what = "overview" THEN selected ELSE StartSelection,
     late |-> FALSE,
     since |-> IF TellsEvidence(what) THEN Latest ELSE 1,
     answer |-> NotSeen, rank |-> 0]
Versions(r) == IF TellsEvidence(r.what) THEN r.since..Latest ELSE {1}

Asked(what) == {r \in requests : r.what = what}
InFlight(tasks) == {r \in requests : r.by \in tasks}

\* Faulty variant: the answers to older requests are taken as well.
SupersededNever(pending, whats) == pending

\* A newer request takes the place of the older ones of its kind; what is not taken and
\* nothing waits for is left out.
Superseded(pending, whats) ==
    {[r EXCEPT !.newest = @ /\ r.what \notin whats] :
        r \in {x \in pending : x.what \notin whats \/ x.by # "nobody"}}

Sent(pending, whats, task) ==
    Superseded(pending, whats \cap Sequenced) \cup {Request(what, task) : what \in whats}

\* loadAgentProviders asks at once for the cards it knows; loadUsageWall goes with it.
FirstViews == Views \ IndexedLater
KnownViews == FirstViews \cup (IF IsLoaded("index") THEN IndexedLater ELSE {})
Index == IF IndexedLater = {} THEN {} ELSE {"index"}
CardLoads == {"overview"} \cup Index \cup (KnownViews \ {"wall"})
DataLoads == CardLoads \cup (KnownViews \cap {"wall"})

Raised(flags, whats) == [w \in DOMAIN flags |-> flags[w] \/ w \in whats]

DataInit ==
    /\ \E e \in Evidence, stage \in {"idle", "collecting"} :
           server = [evidence |-> <<e>>, queue |-> {}, stuck |-> FALSE,
                     run |-> Run(stage, {}, FALSE, FALSE)]
    /\ page = "mounting"
    /\ selected = StartSelection
    /\ shown = [w \in Kinds |-> NotLoaded]
    /\ requests = {Request(what, "mount") : what \in
                       {"overview", "processing"} \cup Index \cup Panels \cup FirstViews}
    /\ overviewError = FALSE
    /\ loading = [w \in Views \cup {"workbench"} |-> w \in FirstViews]
    /\ busy = {}
    /\ diagnosed = FALSE
    /\ seen = NotSeen
    /\ timer = FALSE
    /\ recovery = Resting
    /\ \E budget \in Budgets :
           history = [selects |-> 0, commands |-> 0, losses |-> 0, fired |-> 0,
                      overtakings |-> 0, setbacks |-> 0, asked |-> FALSE, missed |-> FALSE,
                      deaf |-> FALSE, budget |-> budget]
-----------------------------------------------------------------------------
(* The daemon.                                                              *)

\* A run in flight that does not serve a request is followed by one that does.  While a
\* queued rebuild is stuck no other is queued.
Accepted(kind) ==
    CASE IsOver(server.run) -> [server EXCEPT !.run = Begun(kind)]
      [] ~IsOver(server.run) /\ kind = "rebuild" /\ ~server.run.rebuild /\ ~server.stuck ->
            [server EXCEPT !.queue = @ \cup {"rebuild"}]
      [] ~IsOver(server.run) /\ kind = "refresh" /\ ~server.run.asked ->
            [server EXCEPT !.queue = @ \cup {"refresh"}]
      [] OTHER -> server

\* What comes after a run is what was asked for first.  A refresh that waited as well joins
\* a rebuild; a rebuild that finds a refresh begun waits for itself, and never begins.
Following(run) ==
    IF server.queue = {}
    THEN {[server EXCEPT !.run = [run EXCEPT !.stage = "idle"]]}
    ELSE {[server EXCEPT !.run = Begun(next), !.queue = {},
                         !.stuck = @ \/ server.queue \ {next} = {"rebuild"}] :
              next \in server.queue}

\* Whatever is loaded or on its way lacks what a run that was asked for stores.
Outdate ==
    /\ requests' = {[r EXCEPT !.late = r.what = "overview"] : r \in requests}
    /\ shown' = [shown EXCEPT !["overview"].late = TRUE]

\* A module ends, and what follows is next.  It has stored something, also where it failed.
ModuleEnds(next) ==
    /\ \/ server' = next
       \/ /\ Changes < history.budget.changes
          /\ \E e \in Evidence \ {server.evidence[Latest]} :
                 server' = [next EXCEPT !.evidence = Append(@, e)]
    /\ history' = [history EXCEPT !.asked = @ /\ ~IsOver(next.run)]
    /\ IF history.asked THEN Outdate ELSE UNCHANGED <<requests, shown>>

\* The run, of which a module has ended.
Ended(module, hasFailed) ==
    [server.run EXCEPT !.failed = IF hasFailed THEN @ \cup {module} ELSE @]

RunAdvances ==
    /\ \/ /\ server.run.stage = "queued"
          /\ server' = [server EXCEPT !.run.stage = "collecting"]
          /\ UNCHANGED <<history, requests, shown>>
       \/ /\ server.run.stage = "collecting"
          /\ \E hasFailed \in BOOLEAN :
                 ModuleEnds([server EXCEPT !.run = [Ended("usage", hasFailed) EXCEPT
                                                        !.stage = "pricing"]])
       \/ /\ server.run.stage = "pricing"
          /\ \E hasFailed \in BOOLEAN : \E next \in Following(Ended("pricing", hasFailed)) :
                 ModuleEnds(next)
    /\ UNCHANGED <<page, selected, overviewError, loading, busy, diagnosed, seen, timer,
                   recovery>>

\* The daemon says how its run stands; the answer is still to arrive.
Captured == {r \in Asked("processing") : r.answer # NotSeen}

TellStatus(r) ==
    /\ r \in Asked("processing") \ Captured
    /\ \A c \in Captured : c.rank < MaxPolls
    /\ requests' = (requests \ {r}) \cup
                   {[r EXCEPT !.answer = server.run,
                              !.rank = IF Captured = {} THEN 0
                                       ELSE 1 + CHOOSE n \in 0..MaxPolls :
                                                /\ \E c \in Captured : c.rank = n
                                                /\ \A c \in Captured : c.rank <= n]}
    /\ UNCHANGED <<server, page, selected, shown, overviewError, loading, busy, diagnosed,
                   seen, timer, recovery, history>>
-----------------------------------------------------------------------------
(* Answers.                                                                 *)

ProvidersOf(now) == server.evidence[now["overview"].version].providers
ReportOf(now) ==
    IF now["diagnostics"].loaded THEN server.evidence[now["diagnostics"].version].report ELSE {}

\* The first evaluation waits for an overview and for the diagnostics.
Evaluated(now, isDiagnosed, isRefreshing) ==
    IF now["overview"].loaded /\ isDiagnosed
    THEN Scheduled(recovery,
                   Signature(ProvidersOf(now), ReportOf(now)),
                   isRefreshing)
    ELSE recovery

\* startProcessingPolling.
NeedsPolling(run) == ~IsOver(run)

IsTaken(r) == r.what \in Sequenced => r.newest

\* What a load leaves to do: flags, the loads that depend on it, and what waits for
\* the last load of its task.
LoadEnds(r, now, more) ==
    LET rest == Sent(requests \ {r}, more, r.by)
        isLast == \A x \in rest : x.by # r.by
        isMounted == (page = "mounting" /\ now["diagnostics"].loaded) \/ page = "diagnosing"
    IN  /\ loading' = [w \in DOMAIN loading |->
                           \/ w \in more
                           \/ /\ loading[w]
                              /\ ~(w = r.what /\ IsTaken(r))
                              /\ ~(w = "workbench" /\ r.by = "select")]
        /\ diagnosed' = (diagnosed \/ r.what = "diagnostics")
        /\ busy' = IF r.by = "clear" /\ isLast THEN busy \ {"clear"} ELSE busy
        /\ IF r.by = "mount" /\ isLast
           THEN IF isMounted
                THEN /\ page' = "polling"
                     /\ timer' = (timer \/ NeedsPolling(seen))
                     /\ requests' = rest
                ELSE /\ page' = "diagnosing"
                     /\ requests' = Sent(rest, {"diagnostics"}, "mount")
                     /\ UNCHANGED timer
           ELSE requests' = rest /\ UNCHANGED <<page, timer>>
        /\ UNCHANGED <<server, selected, seen>>

\* A report has no request sequence: an older one may arrive last, and is taken.
FallsBack(r, version) ==
    r.what = "diagnostics" /\ version < shown["diagnostics"].version

LoadArrives(r, version) ==
    /\ r.what \in Kinds
    /\ FallsBack(r, version) => history.overtakings < history.budget.overtakings
    /\ LET now == IF IsTaken(r)
                  THEN [shown EXCEPT ![r.what] = [loaded |-> TRUE, late |-> r.late, sel |-> r.sel,
                                                  version |-> version]]
                  ELSE shown
           isEvaluated == TellsEvidence(r.what) /\ IsTaken(r)
       IN  /\ shown' = now
           /\ LoadEnds(r, now, IF r.what = "index" THEN Views \ KnownViews ELSE {})
           /\ recovery' = IF isEvaluated
                          THEN Evaluated(now, diagnosed', "refresh" \in busy)
                          ELSE recovery
    /\ overviewError' = (overviewError /\ ~(r.what = "overview" /\ IsTaken(r)))
    /\ history' = IF FallsBack(r, version)
                  THEN [history EXCEPT !.overtakings = @ + 1,
                            !.setbacks = @ + 1 + (shown["diagnostics"].version - version)]
                  ELSE history

\* What was loaded before stays; diagnostics count as loaded even when they are not.
LoadIsLost(r) ==
    /\ r.what \in Kinds
    /\ history.losses < history.budget.losses
    /\ LoadEnds(r, shown, {})
    /\ overviewError' = (overviewError \/ (r.what = "overview" /\ IsTaken(r)))
    /\ recovery' = IF r.what = "diagnostics" THEN Evaluated(shown, TRUE, "refresh" \in busy)
                   ELSE recovery
    /\ history' = [history EXCEPT !.losses = @ + 1]
    /\ UNCHANGED shown

\* Faulty variant: the page does not look at what it saw before.
LoadsAfterNothing(run) == {}

\* What a run that the page sees end makes the page load.
LoadsAfter(run) ==
    (IF BecameReady(seen, run, UsageIsReady) THEN DataLoads ELSE {})
    \cup (IF BecameReady(seen, run, PricingIsReady) THEN {"overview"} ELSE {})

Refreshes == {"refresh", "recovery"}

\* loadProcessing, and the end of what waited for it: performRefresh, hardRebuild or
\* onMount.  A status that is lost leaves what was seen.
StatusEnds(r, run, isLost, loads) ==
    LET isRefresh == r.by \in Refreshes
        rest == Sent(requests \ {r}, loads, "nobody")
        more == IF isRefresh
                THEN {"diagnostics"} \cup (IF UsageIsBusy(run) THEN {} ELSE DataLoads)
                ELSE {}
        isMounted == r.by = "mount" /\ (\A x \in rest : x.by # "mount")
        diagnosing == isMounted /\ ~IsLoaded("diagnostics")
        starts == r.by \in Refreshes \cup {"rebuild"} \/ (isMounted /\ ~diagnosing)
        isBusy == run # NotSeen /\ ~IsOver(run)
    IN  /\ seen' = run
        /\ timer' = ((timer /\ (isLost \/ ~IsOver(run))) \/ (starts /\ NeedsPolling(run)))
        /\ requests' = IF diagnosing THEN Sent(rest, {"diagnostics"}, "mount")
                       ELSE Sent(rest, more, "nobody")
        /\ page' = CASE diagnosing                -> "diagnosing"
                     [] isMounted /\ ~diagnosing  -> "polling"
                     [] OTHER                     -> page
        /\ loading' = Raised(loading, loads \cup more)
        /\ busy' = (busy \ ((IF isLost THEN {} ELSE {"rebuild"})
                            \cup (IF isRefresh THEN {"refresh"} ELSE {})))
                   \cup (IF ~isLost /\ isBusy /\ run.rebuild THEN {"rebuild"} ELSE {})
        /\ recovery' = IF isRefresh THEN Evaluated(shown, diagnosed, FALSE) ELSE recovery
        /\ UNCHANGED <<server, selected, shown, overviewError, diagnosed>>

\* The answer that was told first may arrive last.
Overtakes(r) == \E c \in Captured : c.rank < r.rank

\* The run is over, and the page loads no overview: a module failed, or the first thing it
\* hears of a rebuild is that it has ended.
Misses(r) ==
    /\ IsOver(r.answer)
    /\ r.by = "rebuild" \/ (r.by \notin Refreshes /\ r.answer.failed # {})
    /\ "overview" \notin LoadsAfter(r.answer)

StatusArrives(r) ==
    /\ r \in Captured
    /\ Overtakes(r) => history.overtakings < history.budget.overtakings
    /\ StatusEnds(r, r.answer, FALSE, LoadsAfter(r.answer))
    /\ history' = [history EXCEPT !.overtakings = IF Overtakes(r) THEN @ + 1 ELSE @,
                                  !.deaf = @ \/ Overtakes(r), !.missed = @ \/ Misses(r)]

StatusIsLost(r) ==
    /\ r \in Asked("processing")
    /\ history.losses < history.budget.losses
    /\ StatusEnds(r, seen, TRUE, {})
    /\ history' = [history EXCEPT !.losses = @ + 1, !.deaf = TRUE]

KindOf(r) ==
    CASE r.what = "post rebuild" -> "rebuild"
      [] r.by = "recovery" /\ r.what # "post rebuild" -> "automatic"
      [] OTHER -> "refresh"

\* What a person asked for is accepted: a refresh and a rebuild run in the
\* background and are followed by their status.
PostArrives(r) ==
    /\ r.what \in {"post refresh", "post rebuild"}
    /\ server' = Accepted(KindOf(r))
    /\ requests' = Sent(requests \ {r}, {"processing"}, r.by)
    /\ history' = [history EXCEPT !.asked = TRUE]
    /\ UNCHANGED <<page, selected, shown, overviewError, loading, busy, diagnosed, seen,
                   timer, recovery>>

DataIsCleared(r) ==
    /\ r.what = "post clear"
    /\ requests' = Sent(requests \ {r}, CardLoads \cup {"diagnostics"} \cup Panels,
                        "clear")
    /\ loading' = Raised(loading, CardLoads)
    /\ UNCHANGED <<server, page, selected, shown, overviewError, busy, diagnosed, seen, timer,
                   recovery, history>>

\* Faulty variant: only an answer releases the button.
ReleasedNever(r) == {}

Released(r) == {IF r.by = "recovery" THEN "refresh" ELSE r.by}

\* Without an answer the button is released, whether the daemon has begun or not; a refresh
\* is evaluated again.
PostIsLost(r) ==
    /\ r.what \in {"post refresh", "post rebuild", "post clear"}
    /\ history.losses < history.budget.losses
    /\ server' = server \/ (r.what # "post clear" /\ server' = Accepted(KindOf(r)))
    /\ requests' = requests \ {r}
    /\ busy' = busy \ Released(r)
    /\ recovery' = IF r.by \in Refreshes THEN Evaluated(shown, diagnosed, FALSE) ELSE recovery
    /\ history' = [history EXCEPT !.losses = @ + 1, !.deaf = TRUE]
    /\ UNCHANGED <<page, selected, shown, overviewError, loading, diagnosed, seen, timer>>
-----------------------------------------------------------------------------
(* Timers and the person.                                                   *)

Tick ==
    /\ timer
    /\ Cardinality(Asked("processing")) < MaxPolls
    /\ requests' = Sent(requests, {"processing"}, "nobody")
    /\ UNCHANGED <<server, page, selected, shown, overviewError, loading, busy, diagnosed,
                   seen, timer, recovery, history>>

\* performRefresh: the automatic one is made by the timer of the controller.
PerformRefresh(task) ==
    /\ busy' = busy \cup {"refresh"}
    /\ requests' = Sent(requests, {"post refresh"}, task)
    /\ UNCHANGED <<server, page, selected, shown, overviewError, loading, diagnosed, seen, timer>>

AutomaticRefresh ==
    /\ recovery.armed
    /\ history.fired < history.budget.fired
    /\ recovery' = [recovery EXCEPT !.armed = FALSE]
    /\ history' = [history EXCEPT !.fired = @ + 1]
    /\ PerformRefresh("recovery")

Commands ==
    /\ history.commands < history.budget.commands
    /\ history' = [history EXCEPT !.commands = @ + 1]

Refresh ==
    /\ "refresh" \notin busy
    /\ Commands
    /\ PerformRefresh("refresh")
    /\ UNCHANGED recovery

\* hardRebuild and clearLocalData, when they are confirmed.
Confirm(what, post) ==
    /\ what \notin busy
    /\ Commands
    /\ busy' = busy \cup {what}
    /\ requests' = Sent(requests, {post}, what)
    /\ UNCHANGED <<server, page, selected, shown, overviewError, loading, diagnosed, seen, timer,
                   recovery>>

HardRebuild == Confirm("rebuild", "post rebuild")
ClearLocalData == Confirm("clear", "post clear")

\* selectWindow and selectCurrency.
Select(selection) ==
    /\ selection # selected \/ loading["workbench"]
    /\ history.selects < history.budget.selects
    /\ history' = [history EXCEPT !.selects = @ + 1]
    /\ selected' = selection
    /\ loading' = [loading EXCEPT !["workbench"] = TRUE]
    /\ requests' = {[r EXCEPT !.by = IF @ = "select" THEN "older select" ELSE @] :
                        r \in Superseded(requests, {"overview"})}
                   \cup {[Request("overview", "select") EXCEPT !.sel = selection]}
    /\ UNCHANGED <<server, page, shown, overviewError, busy, diagnosed, seen, timer, recovery>>

Arrives(r) ==
    \/ \E version \in Versions(r) : LoadArrives(r, version)
    \/ StatusArrives(r) \/ PostArrives(r) \/ DataIsCleared(r)
Loses(r) == LoadIsLost(r) \/ StatusIsLost(r) \/ PostIsLost(r)

DataNext ==
    \/ RunAdvances
    \/ \E r \in requests : TellStatus(r) \/ Arrives(r) \/ Loses(r)
    \/ Tick
    \/ AutomaticRefresh
    \/ Refresh \/ HardRebuild \/ ClearLocalData
    \/ \E s \in Selections : Select(s)

DataSpec == DataInit /\ [][DataNext]_dataVars

-----------------------------------------------------------------------------
(* Properties.                                                              *)

\* What is shown is of the selected window and currency, unless the request for it is
\* still on its way or was lost, which the page remembers: however selections, polls
\* and refreshes overlap, no answer to an older request stays.
SelectionIsShown ==
    IsLoaded("overview") =>
        \/ shown["overview"].sel = selected
        \/ overviewError
        \/ \E r \in Asked("overview") : r.newest /\ r.sel = selected

\* Evidence that does not change is answered with one automatic refresh.  A change may
\* be seen in two steps, by the overview and by the diagnostics, and so may evidence of
\* which one is lost.  A report that was overtaken takes the page back, and it sees again
\* what it has seen.
RecoveryIsOnce == history.fired <= 1 + 2 * Changes + history.losses + history.setbacks

\* When nothing is on its way any more, the page shows what the runs that it asked for have
\* stored, refreshes and rebuilds, unless an answer was lost or a status overtaken by
\* another, or the page loads nothing at their end: when a module failed, and when the
\* first status after a rebuild was asked for says that it is over.
IsQuiet == requests = {} /\ ~timer /\ ~recovery.armed /\ IsOver(server.run)

RefreshIsShown ==
    IsQuiet /\ history.losses = 0 /\ ~history.deaf /\ ~history.missed
        => ~shown["overview"].late

\* Whatever the page shows as busy has an answer to come that ends it: no spinner and no
\* disabled button stays, whatever is lost, superseded or asked for twice.  Only a rebuild is
\* shown as going until a status says that it is not: its button is released by a poll or
\* by what follows a command, unless a status or a command was lost, or a status overtaken,
\* after which nothing may ask again.
Followers == Refreshes \cup {"rebuild"}

BusyEnds ==
    /\ \A v \in Views : loading[v] => \E r \in Asked(v) : r.newest
    /\ loading["workbench"] => InFlight({"select"}) # {}
    /\ "refresh" \in busy => InFlight(Refreshes) # {}
    /\ "clear" \in busy => InFlight({"clear"}) # {}
    /\ "rebuild" \in busy => timer \/ InFlight(Followers) # {} \/ history.deaf

=============================================================================
