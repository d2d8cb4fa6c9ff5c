------------------------------ MODULE Processing ------------------------------
(***************************************************************************)
(* The background processing of UsageApplication: one run at a time takes  *)
(* the four modules discovery, usage, pricing and retention in that order, *)
(* and calls that the run in flight cannot serve wait in one of two queue  *)
(* slots, each a promise chained to the promise of that run.               *)
(*                                                                         *)
(* A step is what one turn of the Node event loop does.  The continuations *)
(* chained to a run are microtasks: they run, in the order in which they   *)
(* were chained, before any other call can be made.                        *)
(*                                                                         *)
(* Bound: every member of Callers has at most one call outstanding.        *)
(***************************************************************************)
EXTENDS Naturals, Sequences

CONSTANT Callers  \* whoever calls startBackgroundProcessing or startHardRebuild

VARIABLES
    background,     \* #backgroundPromise is not null
    hardRebuild,    \* #processingStatus.hardRebuild
    userInitiated,  \* #userInitiatedProcessing
    modules,        \* #processingStatus.modules[_].state
    queuedUser,     \* what #queuedUserProcessingPromise waits for
    queuedHard,     \* what #queuedHardRebuildPromise waits for
    reactions,      \* the continuations chained to #backgroundPromise, in order
    microtasks,     \* the continuations of the run that has just ended
    wants,          \* the kind of each caller's last call
    awaits          \* the promise each caller's last call returned

runVars   == <<background, hardRebuild, userInitiated, modules>>
queueVars == <<queuedUser, queuedHard, reactions>>
callVars  == <<wants, awaits>>
vars      == <<runVars, queueVars, microtasks, callVars>>

Modules    == {"discovery", "usage", "pricing", "retention"}
NextModule == [discovery |-> "usage", usage |-> "pricing", pricing |-> "retention"]
Outcomes   == {"ready", "failed"}

\* "auto": a scheduled run or an automatic recovery; "user": a person asked for
\* fresh data; "hard": a confirmed hard rebuild.
Kinds == {"auto", "user", "hard"}

\* "null": no promise; "prior": the run in flight when the slot was taken;
\* "run": the run its continuation started or joined; "self": its own result.
Slots == {"null", "prior", "run", "self"}

TypeOK ==
    /\ background \in BOOLEAN
    /\ hardRebuild \in BOOLEAN
    /\ userInitiated \in BOOLEAN
    /\ modules \in [Modules -> {"pending", "running"} \cup Outcomes]
    /\ queuedUser \in Slots
    /\ queuedHard \in Slots
    /\ reactions \in Seq({"user", "hard"})
    /\ microtasks \in Seq({"user", "hard"})
    /\ wants \in [Callers -> Kinds]
    /\ awaits \in [Callers -> {"nothing", "run", "user", "hard"}]

Init ==
    /\ background = FALSE
    /\ hardRebuild = FALSE
    /\ userInitiated = FALSE
    /\ modules = [m \in Modules |-> "pending"]
    /\ queuedUser = "null"
    /\ queuedHard = "null"
    /\ reactions = <<>>
    /\ microtasks = <<>>
    /\ wants = [c \in Callers |-> "auto"]
    /\ awaits = [c \in Callers |-> "nothing"]

-----------------------------------------------------------------------------
(* #startProcessing: what it returns, and what it does.                     *)

\* Faulty variant: people share the scheduled run too.
ReturnedSharingScheduledRuns(kind) ==
    IF background /\ kind = "hard" /\ ~hardRebuild THEN "hard" ELSE "run"

\* A rebuild waits for a run that is not one; a person's request waits for a
\* run that no person asked for; everything else shares the run in flight.
Returned(kind) ==
    IF background /\ kind = "hard" /\ ~hardRebuild THEN "hard"
    ELSE IF background /\ kind # "auto" /\ ~userInitiated THEN "user"
    ELSE "run"

\* A new run replaces the status of the last one and enters discovery at once.
BeginRun(kind) ==
    /\ background' = TRUE
    /\ hardRebuild' = (kind = "hard")
    /\ userInitiated' = (kind # "auto")
    /\ modules' = [m \in Modules |-> IF m = "discovery" THEN "running" ELSE "pending"]

BeginRunUnlessBusy(kind) ==
    IF background THEN UNCHANGED runVars ELSE BeginRun(kind)

\* Faulty variant: a run has room for one continuation.
JoinQueueChainingOnce(slot) ==
    /\ queuedUser' = IF slot = "user" /\ queuedUser = "null" THEN "prior" ELSE queuedUser
    /\ queuedHard' = IF slot = "hard" /\ queuedHard = "null" THEN "prior" ELSE queuedHard
    /\ reactions' = IF slot \in {"user", "hard"} /\ reactions = <<>> THEN <<slot>> ELSE reactions

\* A taken slot is shared (??=); an empty one is chained to the run in flight.
JoinQueue(slot) ==
    /\ queuedUser' = IF slot = "user" /\ queuedUser = "null" THEN "prior" ELSE queuedUser
    /\ queuedHard' = IF slot = "hard" /\ queuedHard = "null" THEN "prior" ELSE queuedHard
    /\ reactions' =
         IF \/ slot = "user" /\ queuedUser = "null"
            \/ slot = "hard" /\ queuedHard = "null"
         THEN Append(reactions, slot)
         ELSE reactions

Call(c, kind) ==
    /\ microtasks = <<>>
    /\ awaits[c] = "nothing"
    /\ wants' = [wants EXCEPT ![c] = kind]
    /\ awaits' = [awaits EXCEPT ![c] = Returned(kind)]
    /\ BeginRunUnlessBusy(kind)
    /\ JoinQueue(Returned(kind))
    /\ UNCHANGED microtasks

\* The promise of a slot whose continuation made a call of this kind: the run
\* that call returned, or the slot's own promise when the call found it taken.
Adopted(kind) == IF Returned(kind) = "run" THEN "run" ELSE "self"

ContinueUser ==
    /\ microtasks # <<>>
    /\ Head(microtasks) = "user"
    /\ microtasks' = Tail(microtasks)
    /\ BeginRunUnlessBusy("user")
    /\ queuedUser' = Adopted("user")
    /\ UNCHANGED <<queuedHard, reactions, callVars>>

ContinueHard ==
    /\ microtasks # <<>>
    /\ Head(microtasks) = "hard"
    /\ microtasks' = Tail(microtasks)
    /\ BeginRunUnlessBusy("hard")
    /\ queuedHard' = Adopted("hard")
    /\ UNCHANGED <<queuedUser, reactions, callVars>>

-----------------------------------------------------------------------------
(* #runProcessing and #runModule: a module that fails does not stop the run.*)

FinishModule(m, outcome) ==
    /\ microtasks = <<>>
    /\ background
    /\ m # "retention"
    /\ modules[m] = "running"
    /\ modules' = [modules EXCEPT ![m] = outcome, ![NextModule[m]] = "running"]
    /\ UNCHANGED <<background, hardRebuild, userInitiated, queueVars, microtasks, callVars>>

\* A promise that waits for the run in flight settles with it.
SettlesWithRun(promise) ==
    \/ promise = "run"
    \/ promise = "user" /\ queuedUser = "run"
    \/ promise = "hard" /\ queuedHard = "run"

Released(slot) == IF slot = "run" THEN "null" ELSE slot

\* The last module ends the run: its finally clears the promise, the promise
\* settles for everybody who shares it, and its continuations are due.
EndRun(outcome) ==
    /\ microtasks = <<>>
    /\ background
    /\ modules["retention"] = "running"
    /\ modules' = [modules EXCEPT !["retention"] = outcome]
    /\ background' = FALSE
    /\ userInitiated' = FALSE
    /\ queuedUser' = Released(queuedUser)
    /\ queuedHard' = Released(queuedHard)
    /\ microtasks' = reactions
    /\ reactions' = <<>>
    /\ awaits' = [c \in Callers |-> IF SettlesWithRun(awaits[c]) THEN "nothing" ELSE awaits[c]]
    /\ UNCHANGED <<hardRebuild, wants>>

-----------------------------------------------------------------------------
Settle ==
    \/ \E m \in Modules, outcome \in Outcomes : FinishModule(m, outcome)
    \/ \E outcome \in Outcomes : EndRun(outcome)

Next ==
    \/ \E c \in Callers, kind \in Kinds : Call(c, kind)
    \/ ContinueUser
    \/ ContinueHard
    \/ Settle

Spec == Init /\ [][Next]_vars

\* Nobody has to call.  A microtask runs, and every module settles: a probe, a
\* collector and a database worker each answer, fail or are timed out.
Fairness == WF_vars(ContinueUser) /\ WF_vars(ContinueHard) /\ WF_vars(Settle)

FairSpec == Spec /\ Fairness

-----------------------------------------------------------------------------
(* Properties.                                                              *)

Settled(m) == modules[m] \in Outcomes

\* The modules of a run take turns: a module is entered only after every
\* earlier one has settled, whether it succeeded or failed (#runProcessing).
ModulesTakeTurns ==
    \A m \in DOMAIN NextModule :
        modules[NextModule[m]] # "pending" => Settled(m)

\* Nobody shares a run that does less than they asked for: a person's request
\* is never served by a scheduled run, which would skip the connectors inside
\* their collection interval, and a rebuild never by an incremental run.
CallersShareOnlyAdequateRuns ==
    \A c \in Callers : awaits[c] = "run" =>
        /\ background
        /\ wants[c] = "user" => userInitiated
        /\ wants[c] = "hard" => hardRebuild

\* A continuation for this slot is in the sequence.
In(slot, s) == \E i \in DOMAIN s : s[i] = slot

\* The promise people's requests queue on is never abandoned: its continuation
\* is due with the run in flight, or it follows a run that a person started.
UserQueueIsServed ==
    /\ queuedUser = "null" => ~In("user", reactions) /\ ~In("user", microtasks)
    /\ queuedUser = "prior" => (background /\ In("user", reactions)) \/ In("user", microtasks)
    /\ queuedUser = "run" => background /\ userInitiated /\ ~In("user", reactions)
    /\ queuedUser # "self"

\* The same for hard rebuilds, except for a slot that waits for itself: that
\* one is never cleared again (see RebuildIsLostOnlyWhenOvertaken).
HardQueueIsServedUnlessLost ==
    /\ queuedHard = "null" => ~In("hard", reactions) /\ ~In("hard", microtasks)
    /\ queuedHard = "prior" => (background /\ In("hard", reactions)) \/ In("hard", microtasks)
    /\ queuedHard = "run" => background /\ hardRebuild /\ ~In("hard", reactions)

\* What the callers see of the queue: the kind of the run in flight, what each of
\* them waits for, and the rebuilds on a promise that waits for itself.
Running ==
    CASE ~background                                  -> "idle"
      [] background /\ hardRebuild                    -> "hard"
      [] background /\ ~hardRebuild /\ userInitiated  -> "user"
      [] background /\ ~hardRebuild /\ ~userInitiated -> "auto"

Waiting == [c \in Callers |-> IF awaits[c] = "nothing" THEN "nothing" ELSE wants[c]]

Lost == {c \in Callers : awaits[c] = "hard" /\ queuedHard = "self"}

Service == INSTANCE CallService WITH running <- Running, waiting <- Waiting, lost <- Lost

\* The two slots, their chained promises and the runs implement the service: the
\* run that ends answers exactly the calls it serves, whoever shares or queued
\* them, every run has somebody waiting for it, no new call overtakes a queued
\* one, and no call but a rebuild is ever lost (#startProcessing).
CallsAreCoalesced == Service!Spec

\* A call settles only when the run that ends is one that serves it, and that
\* run has taken all four modules.
CallsSettleWithTheirRun ==
    [][\A c \in Callers : awaits[c] # "nothing" /\ awaits'[c] = "nothing" =>
          /\ wants[c] = "user" => userInitiated
          /\ wants[c] = "hard" => hardRebuild
          /\ \A m \in Modules : modules'[m] \in Outcomes]_vars

\* The only way a queued rebuild is lost is that a person's queued request was
\* chained to the same run first and has just started a run of its own.
RebuildIsLostOnlyWhenOvertaken ==
    [][queuedHard # "self" /\ queuedHard' = "self" =>
          queuedUser = "run" /\ background /\ ~hardRebuild]_vars

\* Every call settles: no run, and no queue of people's requests, keeps its callers
\* waiting for ever, and a queued rebuild settles or is lost to the case above.
CallsSettle ==
    \A c \in Callers :
        /\ (awaits[c] \in {"run", "user"}) ~> (awaits[c] = "nothing")
        /\ (awaits[c] = "hard") ~> (awaits[c] = "nothing" \/ queuedHard = "self")

\* What the documents promise of a hard rebuild: the call that is accepted is
\* an asynchronous operation, so it ends (docs/adr/011, CONTEXT.md invariant 36).
HardRebuildEnds ==
    \A c \in Callers : (awaits[c] # "nothing" /\ wants[c] = "hard") ~> (awaits[c] = "nothing")
=============================================================================
