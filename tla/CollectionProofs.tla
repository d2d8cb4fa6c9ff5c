--------------------------- MODULE CollectionProofs ---------------------------
(***************************************************************************)
(* Proofs about Collection for any connectors, callers and bounds: the     *)
(* type invariant, the four safety invariants and the rule for rebuilds.   *)
(***************************************************************************)
EXTENDS Collection, TLAPS

\* The counts the refresh has read are not older than the last success.
CountsReadAreCurrent ==
    phase = "collecting" => \A k \in Connectors : priorFailures[k] >= streak[k]

\* A connector is dealt with when the refresh asks those that are due.
NoneIsForgotten ==
    phase \in {"collecting", "notifying"} => \A k \in Connectors : attempt[k] # "none"

\* A rebuild shares only a refresh that is one.
RebuildsShareRebuilds ==
    \A c \in Callers :
        calls[c].awaits = "refresh" /\ calls[c].kind = "rebuild" => options.hard

\* The inductive invariant, in three parts: what the database holds, the refresh
\* and those who wait for it, and what the refresh has made of the connectors.
StoredInv ==
    /\ consent \subseteq Connectors
    /\ resting \subseteq Connectors
    /\ failures \in [Connectors -> 0..MaxFailures]
    /\ diagnostic \in [Connectors -> {"none", "healthy", "degraded"}]
    /\ streak \in [Connectors -> 0..MaxFailures]
    /\ torn \subseteq Connectors
    /\ HealthRecordsAgree
    /\ NoFailureIsForgotten

FlightInv ==
    /\ running \in BOOLEAN
    /\ options \in [user : BOOLEAN, hard : BOOLEAN]
    /\ queue \in Seq({"refresh", "write"})
    /\ phase \in {"idle", "queued", "collecting", "notifying"}
    /\ calls \in [Callers -> [kind : Kinds, awaits : {"nothing", "refresh", "again"},
                              connected : SUBSET Connectors]]
    /\ alive \in BOOLEAN
    /\ OneRefreshInTheQueue
    /\ WaitersHaveARefresh
    /\ RebuildsShareRebuilds

AttemptInv ==
    /\ attempt \in [Connectors -> Attempts]
    /\ priorFailures \in [Connectors -> 0..MaxFailures]
    /\ CountsReadAreCurrent
    /\ NoneIsForgotten

IInv == StoredInv /\ FlightInv /\ AttemptInv

-----------------------------------------------------------------------------
(* The write queue.                                                         *)

\* A queue of jobs, and how many refreshes are in it.
RefreshesIn(q) == {i \in DOMAIN q : q[i] = "refresh"}

\* Queueing one more job (queueDatabaseWrite).
LEMMA Queueing ==
    ASSUME NEW q \in Seq({"refresh", "write"}), NEW job \in {"refresh", "write"}
    PROVE  /\ Append(q, job) \in Seq({"refresh", "write"})
           /\ job = "write" => RefreshesIn(Append(q, job)) = RefreshesIn(q)
           /\ job = "refresh" => RefreshesIn(Append(q, job)) = RefreshesIn(q) \cup {Len(q) + 1}
           /\ q # <<>> => Head(Append(q, job)) = Head(q)
<1>1. /\ DOMAIN q = 1..Len(q)
      /\ Len(q) \in Nat
      /\ DOMAIN Append(q, job) = 1..(Len(q) + 1)
      /\ Append(q, job)[Len(q) + 1] = job
      /\ \A i \in 1..Len(q) : Append(q, job)[i] = q[i]
      /\ Append(q, job) \in Seq({"refresh", "write"})
  OBVIOUS
<1>2. job = "write" => RefreshesIn(Append(q, job)) = RefreshesIn(q)
  BY <1>1 DEF RefreshesIn
<1>3. job = "refresh" => RefreshesIn(Append(q, job)) = RefreshesIn(q) \cup {Len(q) + 1}
  BY <1>1 DEF RefreshesIn
<1>4. q # <<>> => Head(Append(q, job)) = Head(q)
  BY <1>1
<1> QED
  BY <1>1, <1>2, <1>3, <1>4

\* The job at the head is done.
LEMMA Dequeueing ==
    ASSUME NEW q \in Seq({"refresh", "write"}), q # <<>>,
           \A i, j \in RefreshesIn(q) : i = j
    PROVE  /\ Tail(q) \in Seq({"refresh", "write"})
           /\ Head(q) = "refresh" => RefreshesIn(Tail(q)) = {}
           /\ Head(q) = "write" => /\ (RefreshesIn(Tail(q)) = {}) = (RefreshesIn(q) = {})
                                   /\ \A i, j \in RefreshesIn(Tail(q)) : i = j
<1>1. /\ Tail(q) \in Seq({"refresh", "write"})
      /\ Len(q) \in Nat \ {0}
      /\ DOMAIN q = 1..Len(q)
      /\ DOMAIN Tail(q) = 1..(Len(q) - 1)
      /\ Head(q) = q[1]
      /\ \A i \in 1..(Len(q) - 1) : Tail(q)[i] = q[i + 1]
  OBVIOUS
<1>2. \A i : i \in RefreshesIn(Tail(q)) => i \in Nat /\ i + 1 \in RefreshesIn(q) /\ i # 0
  BY <1>1 DEF RefreshesIn
<1>3. Head(q) = "refresh" => RefreshesIn(Tail(q)) = {}
  <2> SUFFICES ASSUME Head(q) = "refresh", NEW i \in RefreshesIn(Tail(q)) PROVE FALSE
    OBVIOUS
  <2>1. 1 \in RefreshesIn(q)
    BY <1>1 DEF RefreshesIn
  <2> QED
    BY <1>2, <2>1
<1>4. ASSUME Head(q) = "write"
      PROVE  /\ (RefreshesIn(Tail(q)) = {}) = (RefreshesIn(q) = {})
             /\ \A i, j \in RefreshesIn(Tail(q)) : i = j
  <2>1. \A i, j \in RefreshesIn(Tail(q)) : i = j
    BY <1>2
  <2>2. ASSUME NEW i \in RefreshesIn(q)
        PROVE  i - 1 \in RefreshesIn(Tail(q))
    BY <1>1, <1>4 DEF RefreshesIn
  <2> QED
    BY <1>2, <2>1, <2>2
<1> QED
  BY <1>1, <1>3, <1>4

-----------------------------------------------------------------------------
(* The operators the actions are built from.                                *)

\* A call of refresh, whoever makes it.
LEMMA RefreshKeeps ==
    ASSUME FlightInv, AttemptInv, NEW c \in Callers, NEW kind \in Kinds,
           NEW connected \in SUBSET Connectors,
           Refresh(c, kind, connected), alive' = alive, streak' = streak
    PROVE  FlightInv' /\ AttemptInv'
<1> USE DEF Kinds
<1>1. Awaited(kind) \in {"refresh", "again"} /\ OptionsOf(kind) \in [user : BOOLEAN, hard : BOOLEAN]
  BY DEF Awaited, OptionsOf, ByPerson
<1>2. /\ calls' \in [Callers -> [kind : Kinds, awaits : {"nothing", "refresh", "again"},
                                connected : SUBSET Connectors]]
      /\ calls'[c].kind = kind
      /\ calls'[c].awaits = Awaited(kind)
      /\ \A d \in Callers : d # c => calls'[d] = calls[d]
  BY <1>1 DEF Refresh, FlightInv
<1>3. CASE running
  <2>1. UNCHANGED flight
    BY <1>3 DEF Refresh
  <2>2. WaitersHaveARefresh' /\ RebuildsShareRebuilds'
    BY <1>2, <1>3, <2>1 DEF FlightInv, WaitersHaveARefresh, RebuildsShareRebuilds, Awaited, flight
  <2>3. OneRefreshInTheQueue'
    BY <2>1 DEF FlightInv, OneRefreshInTheQueue, Jobs, flight
  <2> QED
    BY <1>2, <2>1, <2>2, <2>3 DEF FlightInv, AttemptInv, CountsReadAreCurrent, NoneIsForgotten, flight
<1>4. CASE ~running
  <2>1. /\ running' = TRUE
        /\ options' = OptionsOf(kind)
        /\ queue' = Append(queue, "refresh")
        /\ phase' = "queued"
        /\ attempt' = [k \in Connectors |-> "none"]
        /\ UNCHANGED priorFailures
    BY <1>4 DEF Refresh
  <2>2. RefreshesIn(queue) = {}
    BY <1>4 DEF FlightInv, OneRefreshInTheQueue, Jobs, RefreshesIn
  <2>3. queue' \in Seq({"refresh", "write"}) /\ RefreshesIn(queue') = {Len(queue) + 1}
    BY <2>1, <2>2, Queueing DEF FlightInv
  <2>4. OneRefreshInTheQueue'
    BY <2>1, <2>3 DEF OneRefreshInTheQueue, Jobs, RefreshesIn
  <2>5. \A d \in Callers : calls[d].awaits = "nothing"
    BY <1>4 DEF FlightInv, WaitersHaveARefresh, RebuildsShareRebuilds
  <2>6. WaitersHaveARefresh' /\ RebuildsShareRebuilds'
    BY <1>2, <1>4, <2>1, <2>5 DEF WaitersHaveARefresh, RebuildsShareRebuilds, Awaited, OptionsOf
  <2>7. AttemptInv'
    BY <2>1 DEF AttemptInv, CountsReadAreCurrent, NoneIsForgotten, Attempts
  <2> QED
    BY <1>1, <1>2, <2>1, <2>3, <2>4, <2>6, <2>7 DEF FlightInv
<1> QED
  BY <1>3, <1>4 DEF FlightInv

\* The end of a refresh.
LEMMA SettleKeeps ==
    ASSUME FlightInv, NEW rejected \in BOOLEAN, SettleRefresh(rejected),
           queue # <<>>, Head(queue) = "refresh"
    PROVE  /\ FlightInv'
           /\ phase' \in {"idle", "queued"}
           /\ priorFailures' = [k \in Connectors |-> 0]
<1> DEFINE again == {c \in Callers : calls[c].awaits = "again"}
<1>1. /\ running' = (again # {})
      /\ options' = IF again # {} THEN OptionsOf("rebuild") ELSE options
      /\ queue' = IF again # {} THEN Append(Tail(queue), "refresh") ELSE Tail(queue)
      /\ phase' = IF again # {} THEN "queued" ELSE "idle"
      /\ calls' = [c \in Callers |->
                     IF c \in again THEN [calls[c] EXCEPT !.awaits = "refresh"] ELSE NoCall]
      /\ priorFailures' = [k \in Connectors |-> 0]
      /\ alive' \in BOOLEAN
  BY DEF SettleRefresh
<1>2. options' \in [user : BOOLEAN, hard : BOOLEAN]
  BY <1>1 DEF OptionsOf, ByPerson, FlightInv
<1>3. calls' \in [Callers -> [kind : Kinds, awaits : {"nothing", "refresh", "again"},
                              connected : SUBSET Connectors]]
  BY <1>1 DEF FlightInv, NoCall, Kinds
<1>4. \A i, j \in RefreshesIn(queue) : i = j
  BY DEF FlightInv, OneRefreshInTheQueue, Jobs, RefreshesIn
<1>5. Tail(queue) \in Seq({"refresh", "write"}) /\ RefreshesIn(Tail(queue)) = {}
  BY <1>4, Dequeueing DEF FlightInv
<1>6. Append(Tail(queue), "refresh") \in Seq({"refresh", "write"})
      /\ RefreshesIn(Append(Tail(queue), "refresh")) = {Len(Tail(queue)) + 1}
  BY <1>5, Queueing
<1>7. OneRefreshInTheQueue'
  <2> SUFFICES /\ running' = (RefreshesIn(queue') # {})
               /\ \A i, j \in RefreshesIn(queue') : i = j
               /\ (phase' = "idle") = ~running'
               /\ phase' \notin {"collecting", "notifying"}
    BY DEF OneRefreshInTheQueue, Jobs, RefreshesIn
  <2> QED
    BY <1>1, <1>5, <1>6
<1>8. WaitersHaveARefresh' /\ RebuildsShareRebuilds'
  BY <1>1 DEF WaitersHaveARefresh, RebuildsShareRebuilds, NoCall, OptionsOf, FlightInv
<1> QED
  BY <1>1, <1>2, <1>3, <1>5, <1>6, <1>7, <1>8 DEF FlightInv

\* The records of some connectors that have answered.
LEMMA RecordKeeps ==
    ASSUME StoredInv, AttemptInv, phase = "collecting",
           NEW D \in SUBSET Connectors, NEW S \in SUBSET D, Record(S, D), consent' = consent
    PROVE  StoredInv'
<1>1. MaxFailures \in Nat \ {0}
  BY BoundsAssumption
<1>2. \A n \in 0..MaxFailures : Min2(n + 1, MaxFailures) \in 1..MaxFailures
  BY <1>1 DEF Min2
<1>3. \A m, n \in 0..MaxFailures : m >= n => Min2(m + 1, MaxFailures) >= Min2(n + 1, MaxFailures)
  BY <1>1 DEF Min2
<1>4. /\ failures' = [k \in Connectors |-> IF k \notin S THEN failures[k]
                                           ELSE IF k \in Good THEN 0
                                           ELSE Min2(priorFailures[k] + 1, MaxFailures)]
      /\ streak' = [k \in Connectors |-> IF k \notin S THEN streak[k]
                                         ELSE IF k \in Good THEN 0
                                         ELSE Min2(streak[k] + 1, MaxFailures)]
      /\ diagnostic' = [k \in Connectors |-> IF k \notin D THEN diagnostic[k]
                                             ELSE IF k \in Good THEN "healthy"
                                             ELSE "degraded"]
      /\ resting' = resting \cup S
      /\ torn' = (torn \cup D) \ S
  BY DEF Record, Counted
<1>5. /\ failures' \in [Connectors -> 0..MaxFailures]
      /\ streak' \in [Connectors -> 0..MaxFailures]
  BY <1>1, <1>2, <1>4 DEF StoredInv, AttemptInv
<1>6. diagnostic' \in [Connectors -> {"none", "healthy", "degraded"}]
  BY <1>4 DEF StoredInv
<1>7. HealthRecordsAgree'
  <2> SUFFICES ASSUME NEW k \in Connectors, k \notin torn'
               PROVE  /\ diagnostic'[k] = "healthy" => failures'[k] = 0
                      /\ diagnostic'[k] = "degraded" => failures'[k] > 0
    BY DEF HealthRecordsAgree
  <2>1. CASE k \in S
    BY <1>2, <1>4, <2>1 DEF AttemptInv
  <2>2. CASE k \notin S
    <3>1. k \notin D /\ k \notin torn
      BY <1>4, <2>2
    <3> QED
      BY <1>4, <2>2, <3>1 DEF StoredInv, HealthRecordsAgree
  <2> QED
    BY <2>1, <2>2
<1>8. NoFailureIsForgotten'
  BY <1>1, <1>3, <1>4 DEF StoredInv, AttemptInv, NoFailureIsForgotten, CountsReadAreCurrent
<1> QED
  BY <1>4, <1>5, <1>6, <1>7, <1>8 DEF StoredInv

-----------------------------------------------------------------------------
(* The inductive invariant holds initially and is preserved by every step.  *)

LEMMA InitIInv == Init => IInv
<1> SUFFICES ASSUME Init PROVE IInv
  OBVIOUS
<1>1. MaxFailures \in Nat \ {0}
  BY BoundsAssumption
<1>2. StoredInv
  BY <1>1 DEF Init, StoredInv, HealthRecordsAgree, NoFailureIsForgotten
<1>3. FlightInv
  <2>1. queue \in Seq({"refresh", "write"}) /\ Jobs("refresh") = {}
    BY DEF Init, InitFlight, Jobs
  <2> QED
    BY <2>1 DEF Init, InitFlight, NoCall, Kinds, FlightInv, OneRefreshInTheQueue, WaitersHaveARefresh, RebuildsShareRebuilds
<1>4. AttemptInv
  BY <1>1 DEF Init, InitFlight, AttemptInv, Attempts, CountsReadAreCurrent, NoneIsForgotten
<1> QED
  BY <1>2, <1>3, <1>4 DEF IInv

\* A caller asks, one lemma for the four ways to ask.
LEMMA AskingKeeps ==
    ASSUME IInv,
           \/ \E c \in Callers, kind \in Kinds : Call(c, kind)
           \/ \E c \in Callers, k \in Connectors : Connect(c, k) \/ Skip(c, k) \/ Retry(c, k)
    PROVE  IInv'
<1> USE DEF IInv
<1>1. ASSUME NEW c \in Callers, NEW kind \in Kinds, Call(c, kind)
      PROVE  IInv'
  <2>1. consent \in SUBSET Connectors
    BY DEF StoredInv
  <2>2. FlightInv' /\ AttemptInv'
    BY <1>1, <2>1, RefreshKeeps DEF Call, history
  <2>3. StoredInv'
    BY <1>1 DEF Call, stored, history, StoredInv, HealthRecordsAgree, NoFailureIsForgotten
  <2> QED
    BY <2>2, <2>3
<1>2. ASSUME NEW c \in Callers, NEW k \in Connectors, Connect(c, k) \/ Skip(c, k) \/ Retry(c, k)
      PROVE  IInv'
  <2>1. /\ consent' \in SUBSET Connectors
        /\ diagnostic' = [diagnostic EXCEPT ![k] = "none"]
        /\ UNCHANGED <<resting, failures, alive, streak>>
        /\ torn' = torn \ {k}
        /\ \E kind \in {"connect", "person"} : Refresh(c, kind, consent')
    BY <1>2 DEF Connect, Skip, Retry, StoredInv
  <2>2. FlightInv' /\ AttemptInv'
    BY <2>1, RefreshKeeps DEF Kinds
  <2>3. StoredInv'
    BY <2>1 DEF StoredInv, HealthRecordsAgree, NoFailureIsForgotten
  <2> QED
    BY <2>2, <2>3
<1> QED
  BY <1>1, <1>2

\* The refresh takes a step.
LEMMA RefreshingKeeps ==
    ASSUME IInv,
           \/ AskConnectors
           \/ AskingFails
           \/ \E stop \in 1..NoStop, diagnosed \in BOOLEAN : Persist(stop, diagnosed)
           \/ \E rejected \in BOOLEAN : FinishRefresh(rejected)
           \/ \E k \in Connectors, answer \in {"ok", "warned", "failed"} : Collected(k, answer)
    PROVE  IInv'
<1> USE DEF IInv
<1>1. CASE AskConnectors
  <2>1. StoredInv'
    BY <1>1 DEF AskConnectors, stored, history, StoredInv, HealthRecordsAgree, NoFailureIsForgotten
  <2>2. FlightInv'
    BY <1>1 DEF AskConnectors, FlightInv, OneRefreshInTheQueue, Jobs, WaitersHaveARefresh, RebuildsShareRebuilds
  <2>3. AttemptInv'
    BY <1>1 DEF AskConnectors, history, AttemptInv, Attempts, CountsReadAreCurrent, NoneIsForgotten, StoredInv,
                NoFailureIsForgotten, stored
  <2> QED
    BY <2>1, <2>2, <2>3
<1>2. CASE AskingFails
  <2>1. queue # <<>> /\ Head(queue) = "refresh"
    <3>1. Jobs("refresh") # {}
      BY <1>2 DEF AskingFails, FlightInv, OneRefreshInTheQueue
    <3> QED
      BY <1>2, <3>1 DEF AskingFails, Jobs, FlightInv
  <2>2. FlightInv' /\ phase' \in {"idle", "queued"} /\ priorFailures' = [k \in Connectors |-> 0]
    BY <1>2, <2>1, SettleKeeps DEF AskingFails
  <2>3. StoredInv'
    BY <1>2 DEF AskingFails, stored, history, StoredInv, HealthRecordsAgree, NoFailureIsForgotten
  <2>4. AttemptInv'
    BY <1>2, <2>2, BoundsAssumption DEF AskingFails, AttemptInv, CountsReadAreCurrent, NoneIsForgotten
  <2> QED
    BY <2>2, <2>3, <2>4
<1>3. ASSUME NEW stop \in 1..NoStop, NEW diagnosed \in BOOLEAN, Persist(stop, diagnosed)
      PROVE  IInv'
  <2> DEFINE done == {Order[i] : i \in {j \in Results : j < stop}}
             cut  == {Order[i] : i \in Results \cap {stop}}
             D    == IF diagnosed THEN done \cup cut ELSE done
  <2>1. D \in SUBSET Connectors /\ done \in SUBSET D
    BY OrderAssumption DEF Results
  <2>2. /\ phase = "collecting"
        /\ Record(done, D)
        /\ attempt' = [k \in Connectors |-> IF k \in done THEN "recorded"
                                            ELSE IF k \in cut THEN "unsaved"
                                            ELSE attempt[k]]
        /\ \/ /\ phase' = "notifying"
              /\ UNCHANGED <<running, options, queue, priorFailures, calls, alive>>
           \/ SettleRefresh(TRUE)
        /\ UNCHANGED consent
    BY <1>3 DEF Persist
  <2>3. StoredInv'
    BY <2>1, <2>2, RecordKeeps
  <2>4. /\ attempt' \in [Connectors -> Attempts]
        /\ \A k \in Connectors : attempt'[k] # "none"
    BY <2>2 DEF AttemptInv, Attempts, NoneIsForgotten
  <2>5. queue # <<>> /\ Head(queue) = "refresh"
    <3>1. Jobs("refresh") # {}
      BY <2>2 DEF FlightInv, OneRefreshInTheQueue
    <3> QED
      BY <2>2, <3>1 DEF FlightInv, OneRefreshInTheQueue, Jobs
  <2>6. CASE SettleRefresh(TRUE)
    <3>1. FlightInv' /\ phase' \in {"idle", "queued"} /\ priorFailures' = [k \in Connectors |-> 0]
      BY <2>5, <2>6, SettleKeeps
    <3>2. AttemptInv'
      BY <2>4, <3>1, BoundsAssumption DEF AttemptInv, CountsReadAreCurrent, NoneIsForgotten
    <3> QED
      BY <2>3, <3>1, <3>2
  <2>7. CASE /\ phase' = "notifying"
             /\ UNCHANGED <<running, options, queue, priorFailures, calls, alive>>
    <3>1. FlightInv'
      BY <2>2, <2>7 DEF FlightInv, OneRefreshInTheQueue, Jobs, WaitersHaveARefresh, RebuildsShareRebuilds
    <3>2. AttemptInv'
      BY <2>4, <2>7 DEF AttemptInv, CountsReadAreCurrent, NoneIsForgotten
    <3> QED
      BY <2>3, <3>1, <3>2
  <2> QED
    BY <2>2, <2>6, <2>7
<1>4. ASSUME NEW rejected \in BOOLEAN, FinishRefresh(rejected)
      PROVE  IInv'
  <2>1. queue # <<>> /\ Head(queue) = "refresh"
    <3>1. Jobs("refresh") # {}
      BY <1>4 DEF FinishRefresh, FlightInv, OneRefreshInTheQueue
    <3> QED
      BY <1>4, <3>1 DEF FinishRefresh, FlightInv, OneRefreshInTheQueue, Jobs
  <2>2. FlightInv' /\ phase' \in {"idle", "queued"} /\ priorFailures' = [k \in Connectors |-> 0]
    BY <1>4, <2>1, SettleKeeps DEF FinishRefresh
  <2>3. StoredInv'
    BY <1>4 DEF FinishRefresh, stored, history, StoredInv, HealthRecordsAgree, NoFailureIsForgotten
  <2>4. AttemptInv'
    BY <1>4, <2>2, BoundsAssumption DEF FinishRefresh, AttemptInv, CountsReadAreCurrent, NoneIsForgotten
  <2> QED
    BY <2>2, <2>3, <2>4
<1>5. ASSUME NEW k \in Connectors, NEW answer \in {"ok", "warned", "failed"}, Collected(k, answer)
      PROVE  IInv'
  <2>1. StoredInv'
    BY <1>5 DEF Collected, stored, history, StoredInv, HealthRecordsAgree, NoFailureIsForgotten
  <2>2. FlightInv'
    BY <1>5 DEF Collected, FlightInv, OneRefreshInTheQueue, Jobs, WaitersHaveARefresh, RebuildsShareRebuilds
  <2>3. AttemptInv'
    BY <1>5 DEF Collected, history, AttemptInv, Attempts, CountsReadAreCurrent, NoneIsForgotten
  <2> QED
    BY <2>1, <2>2, <2>3
<1> QED
  BY <1>1, <1>2, <1>3, <1>4, <1>5

\* Everything around the refresh takes a step.
LEMMA SurroundingsKeep ==
    ASSUME IInv,
           \/ QueueWrite
           \/ FinishWrite
           \/ \E k \in Connectors : IntervalPasses(k) \/ DiscoveryFails(k)
           \/ ClearUsageData
           \/ Restart
           \/ UNCHANGED vars
    PROVE  IInv'
<1> USE DEF IInv
<1>0. MaxFailures \in Nat \ {0}
  BY BoundsAssumption
<1>1. CASE QueueWrite
  <2>1. /\ queue' = Append(queue, "write")
        /\ UNCHANGED <<stored, running, options, phase, attempt, priorFailures, calls, alive, history>>
    BY <1>1 DEF QueueWrite
  <2>2. /\ queue' \in Seq({"refresh", "write"})
        /\ RefreshesIn(queue') = RefreshesIn(queue)
        /\ queue # <<>> => Head(queue') = Head(queue)
    BY <2>1, Queueing DEF FlightInv
  <2>3. ASSUME phase \in {"collecting", "notifying"} PROVE queue # <<>>
    <3>1. Jobs("refresh") # {}
      BY <2>3 DEF FlightInv, OneRefreshInTheQueue
    <3> QED
      BY <3>1 DEF FlightInv, Jobs
  <2>4. OneRefreshInTheQueue'
    BY <2>1, <2>2, <2>3 DEF FlightInv, OneRefreshInTheQueue, Jobs, RefreshesIn
  <2>5. FlightInv'
    BY <2>1, <2>2, <2>4 DEF FlightInv, WaitersHaveARefresh, RebuildsShareRebuilds
  <2>6. StoredInv' /\ AttemptInv'
    BY <2>1 DEF stored, history, StoredInv, HealthRecordsAgree, NoFailureIsForgotten, AttemptInv,
                CountsReadAreCurrent, NoneIsForgotten
  <2> QED
    BY <2>5, <2>6
<1>2. CASE FinishWrite
  <2>1. /\ queue # <<>>
        /\ Head(queue) = "write"
        /\ queue' = Tail(queue)
        /\ UNCHANGED <<stored, running, options, phase, attempt, priorFailures, calls, alive, history>>
    BY <1>2 DEF FinishWrite
  <2>2. \A i, j \in RefreshesIn(queue) : i = j
    BY DEF FlightInv, OneRefreshInTheQueue, Jobs, RefreshesIn
  <2>3. /\ queue' \in Seq({"refresh", "write"})
        /\ (RefreshesIn(queue') = {}) = (RefreshesIn(queue) = {})
        /\ \A i, j \in RefreshesIn(queue') : i = j
    BY <2>1, <2>2, Dequeueing DEF FlightInv
  <2>4. OneRefreshInTheQueue'
    BY <2>1, <2>3 DEF FlightInv, OneRefreshInTheQueue, Jobs, RefreshesIn
  <2>5. FlightInv'
    BY <2>1, <2>3, <2>4 DEF FlightInv, WaitersHaveARefresh, RebuildsShareRebuilds
  <2>6. StoredInv' /\ AttemptInv'
    BY <2>1 DEF stored, history, StoredInv, HealthRecordsAgree, NoFailureIsForgotten, AttemptInv,
                CountsReadAreCurrent, NoneIsForgotten
  <2> QED
    BY <2>5, <2>6
<1>3. ASSUME NEW k \in Connectors, IntervalPasses(k) \/ DiscoveryFails(k)
      PROVE  IInv'
  <2>1. /\ consent' \subseteq Connectors
        /\ resting' \subseteq Connectors
        /\ UNCHANGED <<failures, diagnostic, flight, calls, alive, history>>
    BY <1>3 DEF IntervalPasses, DiscoveryFails, StoredInv
  <2>2. StoredInv' /\ AttemptInv'
    BY <2>1 DEF flight, history, StoredInv, HealthRecordsAgree, NoFailureIsForgotten, AttemptInv,
                CountsReadAreCurrent, NoneIsForgotten
  <2>3. FlightInv'
    <3>1. UNCHANGED <<running, options, queue, phase, calls, alive>>
      BY <2>1 DEF flight
    <3> QED
      BY <3>1 DEF FlightInv, OneRefreshInTheQueue, Jobs, WaitersHaveARefresh, RebuildsShareRebuilds
  <2> QED
    BY <2>2, <2>3
<1>4. CASE ClearUsageData
  <2>1. StoredInv'
    BY <1>0, <1>4 DEF ClearUsageData, StoredInv, HealthRecordsAgree, NoFailureIsForgotten
  <2>2. FlightInv'
    BY <1>4 DEF ClearUsageData, flight, FlightInv, OneRefreshInTheQueue, Jobs, WaitersHaveARefresh, RebuildsShareRebuilds
  <2>3. AttemptInv'
    BY <1>4 DEF ClearUsageData, flight, AttemptInv, CountsReadAreCurrent, NoneIsForgotten
  <2> QED
    BY <2>1, <2>2, <2>3
<1>5. CASE Restart
  <2>1. StoredInv'
    BY <1>5 DEF Restart, stored, history, StoredInv, HealthRecordsAgree, NoFailureIsForgotten
  <2>2. FlightInv'
    <3>1. queue' \in Seq({"refresh", "write"}) /\ Jobs("refresh")' = {}
      BY <1>5 DEF Restart, Jobs
    <3> QED
      BY <1>5, <3>1 DEF Restart, NoCall, Kinds, FlightInv, OneRefreshInTheQueue, WaitersHaveARefresh, RebuildsShareRebuilds
  <2>3. AttemptInv'
    BY <1>0, <1>5 DEF Restart, AttemptInv, Attempts, CountsReadAreCurrent, NoneIsForgotten
  <2> QED
    BY <2>1, <2>2, <2>3
<1>6. CASE UNCHANGED vars
  <2>1. StoredInv'
    BY <1>6 DEF vars, stored, history, StoredInv, HealthRecordsAgree, NoFailureIsForgotten
  <2>2. FlightInv'
    BY <1>6 DEF vars, flight, FlightInv, OneRefreshInTheQueue, Jobs, WaitersHaveARefresh, RebuildsShareRebuilds
  <2>3. AttemptInv'
    BY <1>6 DEF vars, flight, history, AttemptInv, CountsReadAreCurrent, NoneIsForgotten
  <2> QED
    BY <2>1, <2>2, <2>3
<1> QED
  BY <1>1, <1>2, <1>3, <1>4, <1>5, <1>6

LEMMA NextIInv == IInv /\ [Next]_vars => IInv'
  BY AskingKeeps, RefreshingKeeps, SurroundingsKeep DEF Next, Progress

LEMMA SpecIInv == Spec => []IInv
  BY InitIInv, NextIInv, PTL DEF Spec

\* A rebuild that settles with a refresh settles with one of its mode.
LEMMA RebuildSettles ==
    ASSUME IInv, [Next]_vars, NEW c \in Callers,
           calls[c].kind = "rebuild", calls[c].awaits # "nothing",
           calls'[c].awaits = "nothing",
           phase = "notifying", attempt' = attempt
    PROVE  options.hard
<1> USE DEF IInv
<1>1. CASE \E rejected \in BOOLEAN : FinishRefresh(rejected)
  <2>1. calls[c].awaits # "again"
    BY <1>1 DEF FinishRefresh, SettleRefresh
  <2> QED
    BY <2>1 DEF FlightInv, RebuildsShareRebuilds
<1>2. CASE Restart
  <2>1. PICK k \in Connectors : TRUE
    BY OrderAssumption
  <2>2. attempt'[k] = "none" /\ attempt[k] # "none"
    BY <1>2 DEF Restart, AttemptInv, NoneIsForgotten
  <2> QED
    BY <2>2
<1>3. CASE UNCHANGED calls
  BY <1>3
<1>4. CASE \/ \E d \in Callers, kind \in Kinds : Call(d, kind)
           \/ \E d \in Callers, k \in Connectors : Connect(d, k) \/ Skip(d, k) \/ Retry(d, k)
  <2>1. PICK d \in Callers, kind \in Kinds, connected \in SUBSET Connectors : Refresh(d, kind, connected)
    BY <1>4 DEF Call, Connect, Skip, Retry, Kinds, StoredInv
  <2>2. d # c
    BY <2>1 DEF Refresh
  <2> QED
    BY <2>1, <2>2 DEF Refresh, FlightInv
<1> QED
  BY <1>1, <1>2, <1>3, <1>4
     DEF Next, Progress, vars, AskConnectors, AskingFails, Persist, Collected, FinishWrite,
         QueueWrite, IntervalPasses, DiscoveryFails, ClearUsageData

\* What a recording leaves behind follows the result that broke it off.
LEMMA DropsFollow ==
    ASSUME IInv, NEW stop \in 1..NoStop, NEW diagnosed \in BOOLEAN, Persist(stop, diagnosed),
           NEW i \in DOMAIN Order, attempt'[Order[i]] \in {"ok", "warned", "failed"}
    PROVE  \E j \in DOMAIN Order : j < i /\ attempt'[Order[j]] = "unsaved"
<1> DEFINE done == {Order[j] : j \in {j \in Results : j < stop}}
           cut  == {Order[j] : j \in Results \cap {stop}}
<1>1. /\ stop \in Results \cup {NoStop}
      /\ attempt' = [k \in Connectors |-> IF k \in done THEN "recorded"
                                          ELSE IF k \in cut THEN "unsaved"
                                          ELSE attempt[k]]
  BY DEF Persist
<1>2. /\ Len(Order) \in Nat
      /\ DOMAIN Order = 1..Len(Order)
      /\ \A j \in DOMAIN Order : Order[j] \in Connectors
      /\ \A j, k \in DOMAIN Order : Order[j] = Order[k] => j = k
      /\ Results \subseteq DOMAIN Order
  BY OrderAssumption DEF Results
<1>3. attempt'[Order[i]] = attempt[Order[i]] /\ Order[i] \notin done /\ Order[i] \notin cut
  BY <1>1, <1>2
<1>4. i \in Results
  BY <1>3 DEF Results
<1>5. ~(i < stop) /\ i # stop
  BY <1>3, <1>4
<1>6. stop \in Results /\ stop < i
  BY <1>1, <1>2, <1>5 DEF NoStop
<1>7. Order[stop] \in cut /\ Order[stop] \notin done
  BY <1>2, <1>6
<1>8. attempt'[Order[stop]] = "unsaved"
  BY <1>1, <1>2, <1>6, <1>7
<1> QED
  BY <1>2, <1>6, <1>8

-----------------------------------------------------------------------------
(* The theorems.                                                            *)

\* Every state is of its type, for any number of connectors and callers.
THEOREM TypeCorrect == Spec => []TypeOK
<1>1. IInv => TypeOK
  BY DEF IInv, StoredInv, FlightInv, AttemptInv, TypeOK
<1> QED
  BY <1>1, SpecIInv, PTL

\* Refreshes never overlap each other or another database write
\* (#queueDatabaseWrite, refresh).
THEOREM RefreshesTakeTurns == Spec => []OneRefreshInTheQueue
<1>1. IInv => OneRefreshInTheQueue
  BY DEF IInv, StoredInv, FlightInv, AttemptInv
<1> QED
  BY <1>1, SpecIInv, PTL

\* Nobody waits for a refresh that has ended (refresh and its finally handler).
THEOREM WaitersAreServed == Spec => []WaitersHaveARefresh
<1>1. IInv => WaitersHaveARefresh
  BY DEF IInv, StoredInv, FlightInv, AttemptInv
<1> QED
  BY <1>1, SpecIInv, PTL

\* A connector is diagnosed healthy or degraded as its failure count says
\* (saveConnectorDiagnostic, recordConnectorOutcome).
THEOREM HealthAgrees == Spec => []HealthRecordsAgree
<1>1. IInv => HealthRecordsAgree
  BY DEF IInv, StoredInv, FlightInv, AttemptInv
<1> QED
  BY <1>1, SpecIInv, PTL

\* The backoff counts every failure since the last success, although the count
\* it adds to was read before the connectors were asked (performRefresh).
THEOREM BackoffCountsEveryFailure == Spec => []NoFailureIsForgotten
<1>1. IInv => NoFailureIsForgotten
  BY DEF IInv, StoredInv, FlightInv, AttemptInv
<1> QED
  BY <1>1, SpecIInv, PTL

\* The call of a rebuild settles only with a refresh that collects everything
\* again, however it was queued behind others (refresh).
THEOREM RebuildsAreRebuilds == Spec => RebuildsCollectAfresh
<1>1. IInv /\ [Next]_vars
      => [\A c \in Callers :
             /\ calls[c].kind = "rebuild"
             /\ calls[c].awaits # "nothing"
             /\ calls'[c].awaits = "nothing"
             /\ phase = "notifying" /\ attempt' = attempt
             => options.hard]_vars
  BY RebuildSettles
<1> QED
  BY <1>1, SpecIInv, PTL DEF Spec, RebuildsCollectAfresh

\* The answer of a connector is dropped only behind one that could not be
\* recorded (performRefresh): nothing else loses an answer.
THEOREM OnlyFailedRecordsDrop == Spec => DropsFollowAFailedRecord
<1>1. ASSUME IInv, [Next]_vars, phase = "collecting", phase' # "collecting",
             NEW i \in DOMAIN Order, attempt'[Order[i]] \in {"ok", "warned", "failed"}
      PROVE  \E j \in DOMAIN Order : j < i /\ attempt'[Order[j]] = "unsaved"
  <2>1. Order[i] \in Connectors
    BY OrderAssumption
  <2>2. CASE \E stop \in 1..NoStop, diagnosed \in BOOLEAN : Persist(stop, diagnosed)
    BY <1>1, <2>2, DropsFollow
  <2>3. CASE Restart
    BY <1>1, <2>1, <2>3 DEF Restart
  <2>4. CASE \/ \E c \in Callers, kind \in Kinds : Call(c, kind)
             \/ \E c \in Callers, k \in Connectors : Connect(c, k) \/ Skip(c, k) \/ Retry(c, k)
    <3>1. running
      BY <1>1 DEF IInv, FlightInv, OneRefreshInTheQueue
    <3> QED
      BY <1>1, <2>4, <3>1 DEF Call, Connect, Skip, Retry, Refresh, flight
  <2> QED
    BY <1>1, <2>2, <2>3, <2>4
       DEF Next, Progress, vars, flight, AskConnectors, AskingFails, Collected, FinishRefresh,
           FinishWrite, QueueWrite, IntervalPasses, DiscoveryFails, ClearUsageData
<1>2. IInv /\ [Next]_vars
      => [phase = "collecting" /\ phase' # "collecting" =>
             \A i \in DOMAIN Order : attempt'[Order[i]] \in {"ok", "warned", "failed"} =>
                 \E j \in DOMAIN Order : j < i /\ attempt'[Order[j]] = "unsaved"]_vars
  BY <1>1
<1> QED
  BY <1>2, SpecIInv, PTL DEF Spec, DropsFollowAFailedRecord

=============================================================================
