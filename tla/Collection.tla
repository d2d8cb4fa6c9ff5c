------------------------------ MODULE Collection ------------------------------
(***************************************************************************)
(* Refreshing the connectors: calls of UsageApplication.refresh share one  *)
(* refresh in flight, which waits its turn in the queue of database        *)
(* writes, asks the connectors that are due, and records what each of them *)
(* answered.  The other users of the write queue (price derivation,        *)
(* retention, telemetry, custom rates) are jobs that take their turn.      *)
(*                                                                         *)
(* A step is one turn of the event loop: between two awaits of the code    *)
(* nothing else runs.  A call that waits for a refresh to end and then     *)
(* repeats itself does so in the turn in which that refresh settles.       *)
(*                                                                         *)
(* Bounds: every caller has one call outstanding, at most MaxWrites other  *)
(* jobs are queued, and failures are counted up to MaxFailures.            *)
(***************************************************************************)
EXTENDS Naturals, Sequences, FiniteSets

CONSTANTS
    Connectors,   \* the connectors that need consent
    Order,        \* a sequence of all of them: the order they are recorded in
    Callers,      \* whoever calls refresh
    Scheduler,    \* the caller whose rejections nobody handles
    MaxFailures,
    MaxWrites

ASSUME OrderAssumption ==
    /\ Connectors # {}
    /\ Order \in Seq(Connectors)
    /\ \A k \in Connectors : \E i \in DOMAIN Order : Order[i] = k
    /\ \A i, j \in DOMAIN Order : Order[i] = Order[j] => i = j
ASSUME BoundsAssumption ==
    /\ Scheduler \in Callers
    /\ MaxFailures \in Nat \ {0}
    /\ MaxWrites \in Nat

VARIABLES
    consent,      \* connectors whose stored state is 'connected'
    resting,      \* connectors whose nextAllowedAt lies in the future
    failures,     \* the stored failureCount
    diagnostic,   \* the stored diagnostic
    running,      \* #refreshPromise is not null
    options,      \* the options of the refresh in flight
    queue,        \* #databaseWriteQueue, its head being the job that runs
    phase,        \* how far the refresh in flight has come
    attempt,      \* what it has made of each connector
    priorFailures,\* the runtime states it has read
    calls,        \* what each caller waits for
    alive,        \* FALSE once an unhandled rejection has ended the daemon
    streak,       \* history: recorded failures since the last success
    torn          \* history: connectors diagnosed for an outcome not recorded

stored   == <<consent, resting, failures, diagnostic>>
flight   == <<running, options, queue, phase, attempt, priorFailures>>
history  == <<streak, torn>>
vars     == <<stored, flight, calls, alive, history>>

\* "scheduled": a tick of the scheduler; "automatic": the usage module of an
\* automatic run; "person": someone asked for fresh data; "rebuild": the usage
\* module of a hard rebuild; "connect": the end of configureConnector.
Kinds    == {"scheduled", "automatic", "person", "rebuild", "connect"}
ByPerson == {"person", "rebuild", "connect"}
Attempts == {"none", "skipped", "collecting", "ok", "warned", "failed", "unsaved", "recorded"}

TypeOK ==
    /\ consent \subseteq Connectors
    /\ resting \subseteq Connectors
    /\ failures \in [Connectors -> 0..MaxFailures]
    /\ diagnostic \in [Connectors -> {"none", "healthy", "degraded"}]
    /\ running \in BOOLEAN
    /\ options \in [user : BOOLEAN, hard : BOOLEAN]
    /\ queue \in Seq({"refresh", "write"})
    /\ phase \in {"idle", "queued", "collecting", "notifying"}
    /\ attempt \in [Connectors -> Attempts]
    /\ priorFailures \in [Connectors -> 0..MaxFailures]
    /\ calls \in [Callers -> [kind : Kinds, awaits : {"nothing", "refresh", "again"},
                              connected : SUBSET Connectors]]
    /\ alive \in BOOLEAN
    /\ streak \in [Connectors -> 0..MaxFailures]
    /\ torn \subseteq Connectors

NoCall == [kind |-> "automatic", awaits |-> "nothing", connected |-> {}]

InitFlight ==
    /\ running = FALSE
    /\ options = [user |-> FALSE, hard |-> FALSE]
    /\ queue = <<>>
    /\ phase = "idle"
    /\ attempt = [k \in Connectors |-> "none"]
    /\ priorFailures = [k \in Connectors |-> 0]
    /\ calls = [c \in Callers |-> NoCall]
    /\ alive = TRUE

Init ==
    /\ InitFlight
    /\ consent = {}
    /\ resting = {}
    /\ failures = [k \in Connectors |-> 0]
    /\ diagnostic = [k \in Connectors |-> "none"]
    /\ streak = [k \in Connectors |-> 0]
    /\ torn = {}

\* The places in the queue that a kind of job holds.
Jobs(job) == {i \in DOMAIN queue : queue[i] = job}

-----------------------------------------------------------------------------
(* refresh                                                                  *)

OptionsOf(kind) == [user |-> kind \in ByPerson, hard |-> kind = "rebuild"]

\* Faulty variant: a rebuild shares any refresh.
AwaitedSharing(kind) == "refresh"

\* A rebuild does not share an incremental refresh: it waits for it to end and
\* calls again.  Every other call shares the refresh in flight.
Awaited(kind) == IF running /\ kind = "rebuild" /\ ~options.hard THEN "again" ELSE "refresh"

\* A caller with nobody to share with starts a refresh of its own, and queues.
Refresh(c, kind, connected) ==
    /\ calls[c].awaits = "nothing"
    /\ calls' = [calls EXCEPT ![c] =
                   [kind |-> kind, awaits |-> Awaited(kind), connected |-> connected]]
    /\ IF running
       THEN UNCHANGED flight
       ELSE /\ running' = TRUE
            /\ options' = OptionsOf(kind)
            /\ queue' = Append(queue, "refresh")
            /\ phase' = "queued"
            /\ attempt' = [k \in Connectors |-> "none"]
            /\ UNCHANGED priorFailures

Call(c, kind) ==
    /\ alive
    /\ kind # "connect"
    /\ (c = Scheduler) = (kind = "scheduled")
    /\ Refresh(c, kind, IF kind = "person" THEN consent ELSE {})
    /\ UNCHANGED <<stored, alive, history>>

\* configureConnector saves the new state, drops the diagnostic and refreshes.
Connect(c, k) ==
    /\ alive
    /\ c # Scheduler
    /\ consent' = consent \cup {k}
    /\ diagnostic' = [diagnostic EXCEPT ![k] = "none"]
    /\ Refresh(c, "connect", consent')
    /\ torn' = torn \ {k}
    /\ UNCHANGED <<resting, failures, alive, streak>>

Skip(c, k) ==
    /\ alive
    /\ c # Scheduler
    /\ consent' = consent \ {k}
    /\ diagnostic' = [diagnostic EXCEPT ![k] = "none"]
    /\ Refresh(c, "person", consent')
    /\ torn' = torn \ {k}
    /\ UNCHANGED <<resting, failures, alive, streak>>

\* A retry inspects the connector again: what is no longer installed is no
\* longer connected.
Retry(c, k) ==
    /\ alive
    /\ c # Scheduler
    /\ consent' \in {consent, consent \ {k}}
    /\ diagnostic' = [diagnostic EXCEPT ![k] = "none"]
    /\ Refresh(c, "person", consent')
    /\ torn' = torn \ {k}
    /\ UNCHANGED <<resting, failures, alive, streak>>

\* Discovery overwrites the state of a connector it cannot inspect.
DiscoveryFails(k) ==
    /\ alive
    /\ consent' = consent \ {k}
    /\ UNCHANGED <<resting, failures, diagnostic, flight, calls, alive, history>>

-----------------------------------------------------------------------------
(* performRefresh                                                           *)

\* Faulty variant: calls that wait for a refresh to end are not repeated.
SettleRefreshOnce(rejected) ==
    /\ running' = FALSE
    /\ queue' = Tail(queue)
    /\ phase' = "idle"
    /\ calls' = [c \in Callers |->
                   IF calls[c].awaits = "again" THEN calls[c] ELSE NoCall]
    /\ alive' = ~(rejected /\ calls[Scheduler].awaits = "refresh")
    /\ priorFailures' = [k \in Connectors |-> 0]
    /\ UNCHANGED options

\* The refresh settles: its callers are released, calls that waited to repeat
\* themselves share the next one, and the next job of the queue begins.  The
\* scheduler's timer callback does not handle a rejection, which ends the process.
SettleRefresh(rejected) ==
    LET again == {c \in Callers : calls[c].awaits = "again"}
    IN  /\ running' = (again # {})
        /\ options' = IF again # {} THEN OptionsOf("rebuild") ELSE options
        /\ queue' = IF again # {} THEN Append(Tail(queue), "refresh") ELSE Tail(queue)
        /\ phase' = IF again # {} THEN "queued" ELSE "idle"
        /\ calls' = [c \in Callers |->
                       IF c \in again THEN [calls[c] EXCEPT !.awaits = "refresh"] ELSE NoCall]
        /\ priorFailures' = [k \in Connectors |-> 0]
        /\ alive' = ~(rejected /\ calls[Scheduler].awaits = "refresh")

\* The turn of the refresh has come and the exchange rates have been read or
\* given up.  It now reads which connectors are connected and resting, and asks
\* those that are due; a person does not wait for the interval to pass.
Due(k) == k \in consent /\ (options.user \/ k \notin resting)

AskConnectors ==
    /\ alive
    /\ phase = "queued"
    /\ Head(queue) = "refresh"
    /\ attempt' = [k \in Connectors |-> IF Due(k) THEN "collecting" ELSE "skipped"]
    /\ priorFailures' = failures
    /\ phase' = "collecting"
    /\ UNCHANGED <<stored, running, options, queue, calls, alive, history>>

\* The stored states could not be read.
AskingFails ==
    /\ alive
    /\ phase = "queued"
    /\ Head(queue) = "refresh"
    /\ SettleRefresh(TRUE)
    /\ UNCHANGED <<stored, attempt, history>>

\* A connector answers, answers with warnings, fails, or is timed out; what it
\* answers after that is dropped.
Collected(k, answer) ==
    /\ alive
    /\ phase = "collecting"
    /\ attempt[k] = "collecting"
    /\ attempt' = [attempt EXCEPT ![k] = answer]
    /\ UNCHANGED <<stored, running, options, queue, phase, priorFailures, calls, alive, history>>

Min2(a, b) == IF a < b THEN a ELSE b

Good == {k \in Connectors : attempt[k] = "ok"}

\* One more failure, or the first, added to a count.
Counted(S, count, base) ==
    [k \in Connectors |-> IF k \notin S THEN base[k]
                          ELSE IF k \in Good THEN 0
                          ELSE Min2(count[k] + 1, MaxFailures)]

\* Faulty variant: the diagnostic of a partial answer is healthy.
RecordPartialAsHealthy(S, D) ==
    /\ failures' = Counted(S, priorFailures, failures)
    /\ streak' = Counted(S, streak, streak)
    /\ diagnostic' = [k \in Connectors |-> IF k \notin D THEN diagnostic[k]
                                           ELSE IF attempt[k] = "failed" THEN "degraded"
                                           ELSE "healthy"]
    /\ resting' = resting \cup S
    /\ torn' = (torn \cup D) \ S

\* Faulty variant: an answer with warnings ends the backoff, as a complete one does.
RecordPartialAsSuccess(S, D) ==
    /\ failures' = [k \in Connectors |-> IF k \in S /\ attempt[k] = "warned" THEN 0
                                         ELSE Counted(S, priorFailures, failures)[k]]
    /\ streak' = Counted(S, streak, streak)
    /\ diagnostic' = [k \in Connectors |-> IF k \notin D THEN diagnostic[k]
                                           ELSE IF k \in Good THEN "healthy"
                                           ELSE "degraded"]
    /\ resting' = resting \cup S
    /\ torn' = (torn \cup D) \ S

\* The connectors of D are diagnosed, and then those of S among them have their
\* outcome recorded (saveConnectorDiagnostic, recordConnectorOutcome), counting
\* from the failures that were read before they were asked.
Record(S, D) ==
    /\ failures' = Counted(S, priorFailures, failures)
    /\ streak' = Counted(S, streak, streak)
    /\ diagnostic' = [k \in Connectors |-> IF k \notin D THEN diagnostic[k]
                                           ELSE IF k \in Good THEN "healthy"
                                           ELSE "degraded"]
    /\ resting' = resting \cup S
    /\ torn' = (torn \cup D) \ S

Results == {i \in DOMAIN Order : attempt[Order[i]] \in {"ok", "warned", "failed"}}
NoStop  == Len(Order) + 1

\* The results are recorded one after the other.  One that cannot be recorded
\* (the counts of its snapshot contradict each other, the database is locked)
\* rejects the refresh, and the results after it are dropped.  It may have been
\* diagnosed by then: the records of a result are not written in one transaction.
Persist(stop, diagnosed) ==
    LET done == {Order[i] : i \in {j \in Results : j < stop}}
        cut  == {Order[i] : i \in Results \cap {stop}}
    IN  /\ alive
        /\ phase = "collecting"
        /\ \A k \in Connectors : attempt[k] # "collecting"
        /\ stop \in Results \cup {NoStop}
        /\ Record(done, IF diagnosed THEN done \cup cut ELSE done)
        /\ attempt' = [k \in Connectors |-> IF k \in done THEN "recorded"
                                            ELSE IF k \in cut THEN "unsaved"
                                            ELSE attempt[k]]
        /\ IF stop = NoStop
           THEN /\ phase' = "notifying"
                /\ UNCHANGED <<running, options, queue, priorFailures, calls, alive>>
           ELSE SettleRefresh(TRUE)
        /\ UNCHANGED consent

\* The notifications, when they are enabled, are awaited.  One that cannot be
\* delivered fails nothing (#notify); that what they are told from cannot be read,
\* or that what was told cannot be saved, rejects the refresh.
FinishRefresh(rejected) ==
    /\ alive
    /\ phase = "notifying"
    /\ SettleRefresh(rejected)
    /\ UNCHANGED <<stored, attempt, history>>

-----------------------------------------------------------------------------
(* The other users of the queue, and what happens around it.                *)

QueueWrite ==
    /\ alive
    /\ Cardinality(Jobs("write")) < MaxWrites
    /\ queue' = Append(queue, "write")
    /\ UNCHANGED <<stored, running, options, phase, attempt, priorFailures, calls, alive, history>>

\* A queued job that rejects lets the next one run as well.
FinishWrite ==
    /\ alive
    /\ queue # <<>>
    /\ Head(queue) = "write"
    /\ queue' = Tail(queue)
    /\ UNCHANGED <<stored, running, options, phase, attempt, priorFailures, calls, alive, history>>

IntervalPasses(k) ==
    /\ k \in resting
    /\ resting' = resting \ {k}
    /\ UNCHANGED <<consent, failures, diagnostic, flight, calls, alive, history>>

\* clearData does not take its turn in the queue.
ClearUsageData ==
    /\ alive
    /\ resting' = {}
    /\ failures' = [k \in Connectors |-> 0]
    /\ diagnostic' = [k \in Connectors |-> "none"]
    /\ streak' = [k \in Connectors |-> 0]
    /\ torn' = {}
    /\ UNCHANGED <<consent, flight, calls, alive>>

\* The daemon has ended, between two turns, and is started again: what it kept
\* in memory is lost, the database is not.
Restart ==
    /\ running' = FALSE
    /\ options' = [user |-> FALSE, hard |-> FALSE]
    /\ queue' = <<>>
    /\ phase' = "idle"
    /\ attempt' = [k \in Connectors |-> "none"]
    /\ priorFailures' = [k \in Connectors |-> 0]
    /\ calls' = [c \in Callers |-> NoCall]
    /\ alive' = TRUE
    /\ UNCHANGED <<stored, history>>

-----------------------------------------------------------------------------
Progress ==
    \/ AskConnectors
    \/ AskingFails
    \/ \E stop \in 1..NoStop, diagnosed \in BOOLEAN : Persist(stop, diagnosed)
    \/ \E rejected \in BOOLEAN : FinishRefresh(rejected)
    \/ FinishWrite

Next ==
    \/ \E c \in Callers, kind \in Kinds : Call(c, kind)
    \/ \E c \in Callers, k \in Connectors : Connect(c, k) \/ Skip(c, k) \/ Retry(c, k)
    \/ \E k \in Connectors, answer \in {"ok", "warned", "failed"} : Collected(k, answer)
    \/ \E k \in Connectors : IntervalPasses(k) \/ DiscoveryFails(k)
    \/ Progress
    \/ QueueWrite
    \/ ClearUsageData
    \/ Restart

Spec == Init /\ [][Next]_vars

\* Collectors answer or are timed out, and jobs end.  Nobody has to call.
Fairness ==
    /\ WF_vars(Progress)
    /\ \A k \in Connectors :
         WF_vars(\E answer \in {"ok", "warned", "failed"} : Collected(k, answer))

FairSpec == Spec /\ Fairness
-----------------------------------------------------------------------------
(* Properties.                                                              *)

\* The refresh in flight has one job in the write queue, and only while that
\* job is at the head does it read, ask, record or notify: a refresh never
\* overlaps another refresh, price derivation or retention (#queueDatabaseWrite).
OneRefreshInTheQueue ==
    /\ running = (Jobs("refresh") # {})
    /\ \A i, j \in Jobs("refresh") : i = j
    /\ (phase = "idle") = ~running
    /\ phase \in {"collecting", "notifying"} => Head(queue) = "refresh"

\* Whoever waits waits for something: for the refresh in flight, and to call
\* again only as a rebuild behind a refresh that is not one.
WaitersHaveARefresh ==
    \A c \in Callers :
        /\ calls[c].awaits # "nothing" => running
        /\ calls[c].awaits = "again" => calls[c].kind = "rebuild" /\ ~options.hard

\* The two records of a connector's health agree, whatever was cleared,
\* reconnected or restarted in between, unless the last recording broke off
\* between them (saveConnectorDiagnostic and recordConnectorOutcome).
HealthRecordsAgree ==
    \A k \in Connectors \ torn :
        /\ diagnostic[k] = "healthy" => failures[k] = 0
        /\ diagnostic[k] = "degraded" => failures[k] > 0

\* The backoff never forgets a failure, although it is computed from the count
\* that was read before the connectors were asked.
NoFailureIsForgotten == \A k \in Connectors : failures[k] >= streak[k]

\* A rebuild's call settles only with a refresh that collects in that mode.
RebuildsCollectAfresh ==
    [][\A c \in Callers :
          /\ calls[c].kind = "rebuild"
          /\ calls[c].awaits # "nothing"
          /\ calls'[c].awaits = "nothing"
          /\ phase = "notifying" /\ attempt' = attempt
          => options.hard]_vars

\* The result of a connector is dropped only behind one that could not be
\* recorded (performRefresh).
DropsFollowAFailedRecord ==
    [][phase = "collecting" /\ phase' # "collecting" =>
          \A i \in DOMAIN Order : attempt'[Order[i]] \in {"ok", "warned", "failed"} =>
              \E j \in DOMAIN Order : j < i /\ attempt'[Order[j]] = "unsaved"]_vars

\* Every call of refresh settles, unless the daemon ends.
RefreshSettles ==
    \A c \in Callers :
        (calls[c].awaits # "nothing") ~> (calls[c].awaits = "nothing" \/ ~alive)

\* What the documents promise and the code does not do.

\* When a person's refresh has ended, every connector that was connected when
\* they asked, or by asking, and still is has been asked (usage-application.ts:188).
PeopleGetFreshData ==
    [][\A c \in Callers :
          /\ calls[c].kind \in {"person", "connect"} /\ calls[c].awaits = "refresh"
          /\ phase = "notifying" /\ phase' # "notifying"
          => \A k \in calls[c].connected \cap consent : attempt'[k] # "skipped"]_vars
=============================================================================
