--------------------------- MODULE ProcessingProofs ---------------------------
(***************************************************************************)
(* Proofs about Processing for any set of callers: the type invariant, the *)
(* safety invariants, two action properties, and that it implements        *)
(* CallService; and about ScreenClients for any meters and any number of   *)
(* frames.                                                                 *)
(***************************************************************************)
EXTENDS Processing, ScreenClients, SequenceTheorems, TLAPS

\* No value is continued twice.
Distinct(s) == \A i, j \in DOMAIN s : s[i] = s[j] => i = j

\* A continuation is chained to a run in flight, and all of them are due at
\* once when it ends.
ChainedToARun ==
    /\ ~background => reactions = <<>>
    /\ microtasks # <<>> => reactions = <<>>
    /\ Distinct(reactions)
    /\ Distinct(microtasks)

\* A rebuild counts as a person's run, and a run that is found in flight by a
\* continuation was started by the continuation before it.
RunsHaveAnOwner ==
    /\ background /\ hardRebuild => userInitiated
    /\ background /\ microtasks # <<>> =>
         /\ userInitiated
         /\ ~hardRebuild => queuedUser = "run"

\* Only a person's request waits in the slot for people, only a rebuild in the
\* other.
CallersQueueByKind ==
    \A c \in Callers :
        /\ awaits[c] = "user" => wants[c] = "user"
        /\ awaits[c] = "hard" => wants[c] = "hard"

\* The inductive invariant.
IInv ==
    /\ TypeOK
    /\ ChainedToARun
    /\ RunsHaveAnOwner
    /\ CallersQueueByKind
    /\ ModulesTakeTurns
    /\ CallersShareOnlyAdequateRuns
    /\ UserQueueIsServed
    /\ HardQueueIsServedUnlessLost

-----------------------------------------------------------------------------
(* Sequences of continuations.                                              *)

\* Chaining one more continuation (JoinQueue).
LEMMA Chaining ==
    ASSUME NEW s \in Seq({"user", "hard"}), NEW x \in {"user", "hard"}
    PROVE  /\ Append(s, x) \in Seq({"user", "hard"})
           /\ \A y : In(y, Append(s, x)) <=> In(y, s) \/ y = x
           /\ Distinct(s) /\ ~In(x, s) => Distinct(Append(s, x))
<1>1. Append(s, x) \in Seq({"user", "hard"})
  OBVIOUS
<1>2. /\ DOMAIN Append(s, x) = 1..(Len(s) + 1)
      /\ DOMAIN s = 1..Len(s)
      /\ Len(s) \in Nat
      /\ Append(s, x)[Len(s) + 1] = x
      /\ \A i \in 1..Len(s) : Append(s, x)[i] = s[i]
  OBVIOUS
<1>3. ASSUME NEW y
      PROVE  In(y, Append(s, x)) <=> In(y, s) \/ y = x
  BY <1>2 DEF In
<1>4. Distinct(s) /\ ~In(x, s) => Distinct(Append(s, x))
  BY <1>2 DEF In, Distinct
<1> QED
  BY <1>1, <1>3, <1>4

\* Running the first continuation that is due.
LEMMA Continuing ==
    ASSUME NEW s \in Seq({"user", "hard"}), s # <<>>, Distinct(s)
    PROVE  /\ Tail(s) \in Seq({"user", "hard"})
           /\ Distinct(Tail(s))
           /\ \A y : In(y, Tail(s)) <=> In(y, s) /\ y # Head(s)
<1>1. /\ Tail(s) \in Seq({"user", "hard"})
      /\ Len(s) \in Nat \ {0}
      /\ DOMAIN s = 1..Len(s)
      /\ DOMAIN Tail(s) = 1..(Len(s) - 1)
      /\ Head(s) = s[1]
      /\ \A i \in 1..(Len(s) - 1) : Tail(s)[i] = s[i + 1]
  OBVIOUS
<1>2. Distinct(Tail(s))
  BY <1>1 DEF Distinct
<1>3. ASSUME NEW y
      PROVE  In(y, Tail(s)) <=> In(y, s) /\ y # Head(s)
  <2>1. ASSUME In(y, Tail(s))
        PROVE  In(y, s) /\ y # Head(s)
    BY <1>1, <2>1 DEF In, Distinct
  <2>2. ASSUME In(y, s), y # Head(s)
        PROVE  In(y, Tail(s))
    <3>1. PICK i \in 1..Len(s) : s[i] = y
      BY <1>1, <2>2 DEF In
    <3>2. i - 1 \in 1..(Len(s) - 1) /\ Tail(s)[i - 1] = y
      BY <1>1, <2>2, <3>1
    <3> QED
      BY <1>1, <3>2 DEF In
  <2> QED
    BY <2>1, <2>2
<1> QED
  BY <1>1, <1>2, <1>3

-----------------------------------------------------------------------------
(* The inductive invariant holds initially and is preserved by every step.  *)

LEMMA InitIInv == Init => IInv
<1> SUFFICES ASSUME Init PROVE IInv
  OBVIOUS
<1>1. TypeOK
  <2>1. background \in BOOLEAN /\ hardRebuild \in BOOLEAN /\ userInitiated \in BOOLEAN
    BY DEF Init
  <2>2. <<>> \in Seq({"user", "hard"})
    OBVIOUS
  <2>3. /\ modules \in [Modules -> {"pending", "running"} \cup Outcomes]
        /\ wants \in [Callers -> Kinds]
        /\ awaits \in [Callers -> {"nothing", "run", "user", "hard"}]
    BY DEF Init, Kinds
  <2>4. /\ queuedUser \in Slots /\ queuedHard \in Slots
        /\ reactions \in Seq({"user", "hard"}) /\ microtasks \in Seq({"user", "hard"})
    BY <2>2 DEF Init, Slots
  <2> QED
    BY <2>1, <2>3, <2>4 DEF TypeOK
<1>2. ChainedToARun /\ RunsHaveAnOwner /\ CallersQueueByKind /\ CallersShareOnlyAdequateRuns
  BY DEF Init, ChainedToARun, RunsHaveAnOwner, CallersQueueByKind,
         CallersShareOnlyAdequateRuns, Distinct
<1>3. ModulesTakeTurns
  BY DEF Init, ModulesTakeTurns, NextModule, Modules
<1>4. UserQueueIsServed /\ HardQueueIsServedUnlessLost
  BY DEF Init, UserQueueIsServed, HardQueueIsServedUnlessLost, In
<1> QED
  BY <1>1, <1>2, <1>3, <1>4 DEF IInv

\* What a call finds when it starts a run or shares one.
LEMMA RunBegins ==
    ASSUME TypeOK, ModulesTakeTurns, NEW kind \in Kinds, BeginRunUnlessBusy(kind)
    PROVE  /\ background' = TRUE
           /\ hardRebuild' \in BOOLEAN
           /\ userInitiated' \in BOOLEAN
           /\ modules' \in [Modules -> {"pending", "running"} \cup Outcomes]
           /\ ModulesTakeTurns'
           /\ background => UNCHANGED <<hardRebuild, userInitiated>>
           /\ ~background => hardRebuild' = (kind = "hard") /\ userInitiated' = (kind # "auto")
<1>1. CASE background
  BY <1>1 DEF BeginRunUnlessBusy, runVars, TypeOK, ModulesTakeTurns, Settled
<1>2. CASE ~background
  <2>1. BeginRun(kind)
    BY <1>2 DEF BeginRunUnlessBusy
  <2>2. ModulesTakeTurns'
    BY <2>1 DEF BeginRun, ModulesTakeTurns, NextModule, Modules
  <2> QED
    BY <1>2, <2>1, <2>2 DEF BeginRun
<1> QED
  BY <1>1, <1>2

LEMMA CallPreserves ==
    ASSUME IInv, NEW c \in Callers, NEW kind \in Kinds, Call(c, kind)
    PROVE  IInv'
<1> USE DEF IInv
<1>1. /\ background'
      /\ hardRebuild' \in BOOLEAN
      /\ userInitiated' \in BOOLEAN
      /\ modules' \in [Modules -> {"pending", "running"} \cup Outcomes]
      /\ ModulesTakeTurns'
      /\ background => UNCHANGED <<hardRebuild, userInitiated>>
      /\ ~background => hardRebuild' = (kind = "hard") /\ userInitiated' = (kind # "auto")
  BY RunBegins DEF Call
<1>2. /\ microtasks = <<>>
      /\ microtasks' = <<>>
      /\ ~background => Returned(kind) = "run" /\ reactions = <<>>
      /\ \A x : ~In(x, microtasks) /\ ~In(x, microtasks')
  BY DEF Call, Returned, In, ChainedToARun
<1>3. /\ Returned(kind) \in {"run", "user", "hard"}
      /\ Returned(kind) = "user" => kind = "user"
      /\ Returned(kind) = "hard" => kind = "hard"
      /\ Returned(kind) = "run" /\ background =>
           /\ kind = "user" => userInitiated
           /\ kind = "hard" => hardRebuild
  BY DEF Returned, RunsHaveAnOwner, Kinds, TypeOK
<1> DEFINE newUser == Returned(kind) = "user" /\ queuedUser = "null"
           newHard == Returned(kind) = "hard" /\ queuedHard = "null"
<1>4. /\ queuedUser' = IF newUser THEN "prior" ELSE queuedUser
      /\ queuedHard' = IF newHard THEN "prior" ELSE queuedHard
      /\ reactions' = IF newUser \/ newHard THEN Append(reactions, Returned(kind)) ELSE reactions
  BY DEF Call, JoinQueue
<1>5. /\ reactions' \in Seq({"user", "hard"})
      /\ Distinct(reactions')
      /\ \A y : In(y, reactions') <=>
                \/ In(y, reactions)
                \/ y = "user" /\ newUser
                \/ y = "hard" /\ newHard
  <2>1. CASE newUser \/ newHard
    <3>1. Returned(kind) \in {"user", "hard"} /\ ~In(Returned(kind), reactions)
      BY <2>1 DEF UserQueueIsServed, HardQueueIsServedUnlessLost
    <3> QED
      BY <1>4, <2>1, <3>1, Chaining DEF TypeOK, ChainedToARun
  <2>2. CASE ~(newUser \/ newHard)
    BY <1>4, <2>2 DEF TypeOK, ChainedToARun
  <2> QED
    BY <2>1, <2>2
<1>6. /\ wants' = [wants EXCEPT ![c] = kind]
      /\ awaits' = [awaits EXCEPT ![c] = Returned(kind)]
  BY DEF Call
<1> HIDE DEF IInv, newUser, newHard
<1>7. TypeOK'
  BY <1>1, <1>2, <1>3, <1>4, <1>5, <1>6 DEF IInv, TypeOK, Slots
<1>8. ChainedToARun'
  BY <1>1, <1>2, <1>5 DEF ChainedToARun, Distinct
<1>9. RunsHaveAnOwner'
  BY <1>1, <1>2 DEF IInv, RunsHaveAnOwner
<1>10. CallersQueueByKind'
  BY <1>3, <1>6 DEF IInv, TypeOK, CallersQueueByKind
<1>11. CallersShareOnlyAdequateRuns'
  BY <1>1, <1>3, <1>6 DEF IInv, TypeOK, CallersShareOnlyAdequateRuns
<1>12. UserQueueIsServed'
  BY <1>1, <1>2, <1>3, <1>4, <1>5 DEF IInv, TypeOK, UserQueueIsServed, newUser, newHard
<1>13. HardQueueIsServedUnlessLost'
  BY <1>1, <1>2, <1>3, <1>4, <1>5 DEF IInv, TypeOK, HardQueueIsServedUnlessLost, newUser, newHard
<1> QED
  BY <1>1, <1>7, <1>8, <1>9, <1>10, <1>11, <1>12, <1>13 DEF IInv

LEMMA ContinueUserPreserves ==
    ASSUME IInv, ContinueUser
    PROVE  IInv'
<1>1. /\ background'
      /\ hardRebuild' \in BOOLEAN
      /\ userInitiated' \in BOOLEAN
      /\ modules' \in [Modules -> {"pending", "running"} \cup Outcomes]
      /\ ModulesTakeTurns'
      /\ background => UNCHANGED <<hardRebuild, userInitiated>>
      /\ ~background => ~hardRebuild' /\ userInitiated'
  BY RunBegins DEF ContinueUser, IInv, Kinds
<1>2. /\ microtasks' \in Seq({"user", "hard"})
      /\ Distinct(microtasks')
      /\ \A y : In(y, microtasks') <=> In(y, microtasks) /\ y # "user"
  BY Continuing DEF ContinueUser, IInv, TypeOK, ChainedToARun
<1>3. /\ reactions = <<>>
      /\ reactions' = <<>>
      /\ \A y : ~In(y, reactions) /\ ~In(y, reactions')
  BY DEF ContinueUser, IInv, ChainedToARun, In
<1>4. /\ queuedUser' = "run"
      /\ userInitiated'
  BY <1>1 DEF ContinueUser, Adopted, Returned, IInv, RunsHaveAnOwner, TypeOK
<1>5. UNCHANGED <<queuedHard, reactions, wants, awaits>>
  BY DEF ContinueUser, callVars
<1>6. TypeOK'
  BY <1>1, <1>2, <1>4, <1>5 DEF IInv, TypeOK, Slots
<1>7. ChainedToARun'
  BY <1>1, <1>2, <1>3 DEF ChainedToARun, Distinct
<1>8. RunsHaveAnOwner'
  BY <1>4 DEF RunsHaveAnOwner
<1>9. CallersQueueByKind' /\ CallersShareOnlyAdequateRuns'
  BY <1>1, <1>5 DEF IInv, CallersQueueByKind, CallersShareOnlyAdequateRuns
<1>10. UserQueueIsServed'
  BY <1>1, <1>3, <1>4 DEF UserQueueIsServed
<1>11. HardQueueIsServedUnlessLost'
  BY <1>1, <1>2, <1>3, <1>5 DEF IInv, HardQueueIsServedUnlessLost
<1> QED
  BY <1>1, <1>6, <1>7, <1>8, <1>9, <1>10, <1>11 DEF IInv

LEMMA ContinueHardPreserves ==
    ASSUME IInv, ContinueHard
    PROVE  IInv'
<1>1. /\ background'
      /\ hardRebuild' \in BOOLEAN
      /\ userInitiated' \in BOOLEAN
      /\ modules' \in [Modules -> {"pending", "running"} \cup Outcomes]
      /\ ModulesTakeTurns'
      /\ background => UNCHANGED <<hardRebuild, userInitiated>>
      /\ ~background => hardRebuild' /\ userInitiated'
  BY RunBegins DEF ContinueHard, IInv, Kinds
<1>2. /\ microtasks' \in Seq({"user", "hard"})
      /\ Distinct(microtasks')
      /\ \A y : In(y, microtasks') <=> In(y, microtasks) /\ y # "hard"
  BY Continuing DEF ContinueHard, IInv, TypeOK, ChainedToARun
<1>3. /\ reactions = <<>>
      /\ reactions' = <<>>
      /\ \A y : ~In(y, reactions) /\ ~In(y, reactions')
  BY DEF ContinueHard, IInv, ChainedToARun, In
<1>4. /\ queuedHard' \in {"run", "self"}
      /\ queuedHard' = "run" => hardRebuild'
      /\ userInitiated'
  BY <1>1 DEF ContinueHard, Adopted, Returned, IInv, RunsHaveAnOwner, TypeOK
<1>5. UNCHANGED <<queuedUser, reactions, wants, awaits>>
  BY DEF ContinueHard, callVars
<1>6. TypeOK'
  BY <1>1, <1>2, <1>4, <1>5 DEF IInv, TypeOK, Slots
<1>7. ChainedToARun'
  BY <1>1, <1>2, <1>3 DEF ChainedToARun, Distinct
<1>8. RunsHaveAnOwner'
  <2>1. CASE background
    BY <1>1, <1>4, <1>5, <2>1 DEF IInv, RunsHaveAnOwner, ContinueHard
  <2>2. CASE ~background
    BY <1>1, <1>4, <2>2 DEF RunsHaveAnOwner
  <2> QED
    BY <2>1, <2>2
<1>9. CallersQueueByKind' /\ CallersShareOnlyAdequateRuns'
  BY <1>1, <1>5 DEF IInv, CallersQueueByKind, CallersShareOnlyAdequateRuns
<1>10. UserQueueIsServed'
  BY <1>1, <1>2, <1>3, <1>4, <1>5 DEF IInv, UserQueueIsServed
<1>11. HardQueueIsServedUnlessLost'
  BY <1>1, <1>3, <1>4 DEF HardQueueIsServedUnlessLost
<1> QED
  BY <1>1, <1>6, <1>7, <1>8, <1>9, <1>10, <1>11 DEF IInv

LEMMA FinishModulePreserves ==
    ASSUME IInv, NEW m \in Modules, NEW outcome \in Outcomes, FinishModule(m, outcome)
    PROVE  IInv'
<1>1. /\ modules' = [modules EXCEPT ![m] = outcome, ![NextModule[m]] = "running"]
      /\ modules[m] = "running"
      /\ m \in Modules \ {"retention"}
      /\ UNCHANGED <<background, hardRebuild, userInitiated, queuedUser, queuedHard,
                      reactions, microtasks, wants, awaits>>
  BY DEF FinishModule, queueVars, callVars
<1>2. TypeOK'
  BY <1>1 DEF IInv, TypeOK, Outcomes
<1>3. ModulesTakeTurns'
  <2> SUFFICES ASSUME NEW n \in DOMAIN NextModule, modules'[NextModule[n]] # "pending"
               PROVE  modules'[n] \in Outcomes
    BY DEF ModulesTakeTurns, Settled
  <2> USE DEF NextModule, Modules
  <2>1. modules[NextModule[m]] = "pending"
    BY <1>1 DEF IInv, ModulesTakeTurns, Settled, Outcomes
  <2>2. CASE n = m
    BY <1>1, <2>2 DEF IInv, TypeOK
  <2>3. CASE n # m
    <3>1. NextModule[n] # NextModule[m] /\ NextModule[n] # n
      BY <1>1, <2>3
    <3>2. CASE NextModule[n] = m
      BY <1>1, <2>1, <3>1, <3>2 DEF IInv, TypeOK, ModulesTakeTurns, Settled, Outcomes
    <3>3. CASE NextModule[n] # m
      BY <1>1, <2>1, <2>3, <3>1, <3>3 DEF IInv, TypeOK, ModulesTakeTurns, Settled, Outcomes
    <3> QED
      BY <3>2, <3>3
  <2> QED
    BY <2>2, <2>3
<1>4. /\ ChainedToARun' /\ RunsHaveAnOwner' /\ CallersQueueByKind'
      /\ CallersShareOnlyAdequateRuns' /\ UserQueueIsServed' /\ HardQueueIsServedUnlessLost'
  BY <1>1 DEF IInv, ChainedToARun, RunsHaveAnOwner, CallersQueueByKind,
     CallersShareOnlyAdequateRuns, UserQueueIsServed, HardQueueIsServedUnlessLost
<1> QED
  BY <1>2, <1>3, <1>4 DEF IInv

LEMMA EndRunPreserves ==
    ASSUME IInv, NEW outcome \in Outcomes, EndRun(outcome)
    PROVE  IInv'
<1>1. /\ ~background' /\ ~userInitiated' /\ background' \in BOOLEAN /\ userInitiated' \in BOOLEAN
      /\ hardRebuild' = hardRebuild
      /\ microtasks = <<>> /\ microtasks' = reactions
      /\ reactions' = <<>>
      /\ queuedUser' = IF queuedUser = "run" THEN "null" ELSE queuedUser
      /\ queuedHard' = IF queuedHard = "run" THEN "null" ELSE queuedHard
      /\ wants' = wants
      /\ awaits' = [c \in Callers |-> IF SettlesWithRun(awaits[c]) THEN "nothing" ELSE awaits[c]]
      /\ modules["retention"] = "running"
      /\ modules' = [modules EXCEPT !["retention"] = outcome]
  BY DEF EndRun, Released
<1>2. \A y : ~In(y, reactions') /\ ~In(y, microtasks) /\ (In(y, microtasks') <=> In(y, reactions))
  BY <1>1 DEF In
<1>3. TypeOK'
  <2>1. <<>> \in Seq({"user", "hard"})
    OBVIOUS
  <2>2. awaits' \in [Callers -> {"nothing", "run", "user", "hard"}]
    BY <1>1 DEF IInv, TypeOK
  <2>3. modules' \in [Modules -> {"pending", "running"} \cup Outcomes]
    BY <1>1 DEF IInv, TypeOK
  <2> QED
    BY <1>1, <2>1, <2>2, <2>3 DEF IInv, TypeOK, Slots
<1>4. ChainedToARun' /\ RunsHaveAnOwner'
  BY <1>1 DEF IInv, ChainedToARun, RunsHaveAnOwner, Distinct
<1>5. CallersQueueByKind' /\ CallersShareOnlyAdequateRuns'
  BY <1>1 DEF IInv, TypeOK, CallersQueueByKind, CallersShareOnlyAdequateRuns, SettlesWithRun
<1>6. ModulesTakeTurns'
  BY <1>1 DEF IInv, TypeOK, ModulesTakeTurns, Settled, NextModule, Modules
<1>7. UserQueueIsServed'
  BY <1>1, <1>2 DEF IInv, TypeOK, Slots, UserQueueIsServed
<1>8. HardQueueIsServedUnlessLost'
  BY <1>1, <1>2 DEF IInv, TypeOK, Slots, HardQueueIsServedUnlessLost
<1> QED
  BY <1>3, <1>4, <1>5, <1>6, <1>7, <1>8 DEF IInv

LEMMA NextPreservesIInv == IInv /\ [Next]_vars => IInv'
<1> SUFFICES ASSUME IInv, [Next]_vars
             PROVE  IInv'
  OBVIOUS
<1>1. ASSUME NEW c \in Callers, NEW kind \in Kinds, Call(c, kind)
      PROVE  IInv'
  BY <1>1, CallPreserves
<1>2. CASE ContinueUser
  BY <1>2, ContinueUserPreserves
<1>3. CASE ContinueHard
  BY <1>3, ContinueHardPreserves
<1>4. ASSUME NEW m \in Modules, NEW outcome \in Outcomes, FinishModule(m, outcome)
      PROVE  IInv'
  BY <1>4, FinishModulePreserves
<1>5. ASSUME NEW outcome \in Outcomes, EndRun(outcome)
      PROVE  IInv'
  BY <1>5, EndRunPreserves
<1>6. CASE UNCHANGED vars
  BY <1>6 DEF vars, runVars, queueVars, callVars, IInv, TypeOK, ChainedToARun, RunsHaveAnOwner,
     CallersQueueByKind, ModulesTakeTurns, Settled, CallersShareOnlyAdequateRuns,
     UserQueueIsServed, HardQueueIsServedUnlessLost
<1> QED
  BY <1>1, <1>2, <1>3, <1>4, <1>5, <1>6 DEF Next, Settle

LEMMA InductiveInvariant == Spec => []IInv
  BY InitIInv, NextPreservesIInv, PTL DEF Spec

-----------------------------------------------------------------------------
(* The theorems.                                                            *)

\* Every variable keeps its type, for any set of callers.
THEOREM TypeCorrect == Spec => []TypeOK
<1>1. IInv => TypeOK
  BY DEF IInv
<1> QED
  BY <1>1, InductiveInvariant, PTL

\* Nobody shares a run that does less than they asked for (#startProcessing).
THEOREM AdequateRuns == Spec => []CallersShareOnlyAdequateRuns
<1>1. IInv => CallersShareOnlyAdequateRuns
  BY DEF IInv
<1> QED
  BY <1>1, InductiveInvariant, PTL

\* The modules of a run take turns (#runProcessing).
THEOREM ModulesInTurn == Spec => []ModulesTakeTurns
<1>1. IInv => ModulesTakeTurns
  BY DEF IInv
<1> QED
  BY <1>1, InductiveInvariant, PTL

\* The promise people queue on always has a continuation that is due or a run
\* to follow; the one rebuilds queue on has too, unless it waits for itself.
THEOREM QueuesAreServed == Spec => [](UserQueueIsServed /\ HardQueueIsServedUnlessLost)
<1>1. IInv => UserQueueIsServed /\ HardQueueIsServedUnlessLost
  BY DEF IInv
<1> QED
  BY <1>1, InductiveInvariant, PTL

\* A call settles only with a complete run that serves it.
THEOREM SettledByTheirRun == Spec => CallsSettleWithTheirRun
<1> DEFINE A == \A c \in Callers : awaits[c] # "nothing" /\ awaits'[c] = "nothing" =>
                    /\ wants[c] = "user" => userInitiated
                    /\ wants[c] = "hard" => hardRebuild
                    /\ \A m \in Modules : modules'[m] \in Outcomes
<1>1. IInv /\ [Next]_vars => [A]_vars
  <2> SUFFICES ASSUME IInv, Next, NEW c \in Callers, awaits[c] # "nothing", awaits'[c] = "nothing"
               PROVE  /\ wants[c] = "user" => userInitiated
                      /\ wants[c] = "hard" => hardRebuild
                      /\ \A m \in Modules : modules'[m] \in Outcomes
    OBVIOUS
  <2>1. ASSUME NEW d \in Callers, NEW kind \in Kinds, Call(d, kind)
        PROVE  FALSE
    BY <2>1 DEF IInv, TypeOK, Call, Returned
  <2>2. CASE ContinueUser \/ ContinueHard \/ \E m \in Modules, o \in Outcomes : FinishModule(m, o)
    BY <2>2 DEF ContinueUser, ContinueHard, FinishModule, callVars
  <2>3. ASSUME NEW outcome \in Outcomes, EndRun(outcome)
        PROVE  /\ wants[c] = "user" => userInitiated
               /\ wants[c] = "hard" => hardRebuild
               /\ \A m \in Modules : modules'[m] \in Outcomes
    <3>1. SettlesWithRun(awaits[c])
      BY <2>3 DEF EndRun
    <3>2. wants[c] = "user" => userInitiated
      BY <3>1 DEF IInv, SettlesWithRun, CallersShareOnlyAdequateRuns, CallersQueueByKind,
         UserQueueIsServed
    <3>3. wants[c] = "hard" => hardRebuild
      BY <3>1 DEF IInv, SettlesWithRun, CallersShareOnlyAdequateRuns, CallersQueueByKind,
         HardQueueIsServedUnlessLost
    <3>4. \A m \in Modules : modules'[m] \in Outcomes
      BY <2>3 DEF EndRun, IInv, TypeOK, ModulesTakeTurns, Settled, NextModule, Modules, Outcomes
    <3> QED
      BY <3>2, <3>3, <3>4
  <2> QED
    BY <2>1, <2>2, <2>3 DEF Next, Settle
<1> QED
  BY <1>1, InductiveInvariant, PTL DEF Spec, CallsSettleWithTheirRun

\* A queued rebuild is lost only to a queued request of a person that was
\* chained before it and has just started an incremental run.
THEOREM LostOnlyWhenOvertaken == Spec => RebuildIsLostOnlyWhenOvertaken
<1> DEFINE A == queuedHard # "self" /\ queuedHard' = "self" =>
                    queuedUser = "run" /\ background /\ ~hardRebuild
<1>1. IInv /\ [Next]_vars => [A]_vars
  <2> SUFFICES ASSUME IInv, Next, queuedHard # "self", queuedHard' = "self"
               PROVE  queuedUser = "run" /\ background /\ ~hardRebuild
    OBVIOUS
  <2>1. CASE ContinueHard
    BY <2>1 DEF ContinueHard, Adopted, Returned, IInv, TypeOK, RunsHaveAnOwner
  <2>2. CASE ContinueUser \/ \E m \in Modules, o \in Outcomes : FinishModule(m, o)
    BY <2>2 DEF ContinueUser, FinishModule, queueVars
  <2>3. CASE \E c \in Callers, kind \in Kinds : Call(c, kind)
    BY <2>3 DEF Call, JoinQueue
  <2>4. CASE \E o \in Outcomes : EndRun(o)
    BY <2>4 DEF EndRun, Released
  <2> QED
    BY <2>1, <2>2, <2>3, <2>4 DEF Next, Settle
<1> QED
  BY <1>1, InductiveInvariant, PTL DEF Spec, RebuildIsLostOnlyWhenOvertaken

-----------------------------------------------------------------------------
(* Processing implements CallService.                                       *)

\* A slot is taken exactly while somebody waits for its promise.
SlotsAreWaitedFor ==
    /\ queuedUser # "null" <=> \E c \in Callers : awaits[c] = "user"
    /\ queuedHard # "null" <=> \E c \in Callers : awaits[c] = "hard"

\* A continuation that is still to run has its slot for itself.
ContinuationsHaveTheirSlot ==
    /\ In("user", reactions) \/ In("user", microtasks) => queuedUser = "prior"
    /\ In("hard", reactions) \/ In("hard", microtasks) => queuedHard = "prior"

\* Nobody queues behind a run that serves them, and no rebuild is in flight while
\* one is still due.
QueuesAreBehindLess ==
    /\ background /\ userInitiated => ~In("user", reactions)
    /\ background /\ hardRebuild => ~In("hard", reactions) /\ ~In("hard", microtasks)

\* The inductive invariant of the refinement.
QueueInv == SlotsAreWaitedFor /\ ContinuationsHaveTheirSlot /\ QueuesAreBehindLess

LEMMA InitQueueInv == Init => QueueInv
  BY DEF Init, QueueInv, SlotsAreWaitedFor, ContinuationsHaveTheirSlot, QueuesAreBehindLess, In

\* What a call adds to the queue.
LEMMA CallJoins ==
    ASSUME IInv, NEW c \in Callers, NEW kind \in Kinds, Call(c, kind)
    PROVE  /\ microtasks = <<>> /\ microtasks' = <<>>
           /\ awaits[c] = "nothing"
           /\ wants' = [wants EXCEPT ![c] = kind]
           /\ awaits' = [awaits EXCEPT ![c] = Returned(kind)]
           /\ Returned(kind) \in {"run", "user", "hard"}
           /\ Returned(kind) = "user" => background /\ ~userInitiated /\ kind = "user"
           /\ Returned(kind) = "hard" => background /\ ~hardRebuild /\ kind = "hard"
           /\ Returned(kind) = "run" /\ background /\ kind = "user" => userInitiated
           /\ Returned(kind) = "run" /\ background /\ kind = "hard" => hardRebuild
           /\ queuedUser' = IF Returned(kind) = "user" /\ queuedUser = "null" THEN "prior" ELSE queuedUser
           /\ queuedHard' = IF Returned(kind) = "hard" /\ queuedHard = "null" THEN "prior" ELSE queuedHard
           /\ \A y : In(y, reactions') =>
                \/ In(y, reactions)
                \/ y = "user" /\ queuedUser' = "prior" /\ Returned(kind) = "user"
                \/ y = "hard" /\ queuedHard' = "prior" /\ Returned(kind) = "hard"
           /\ background'
           /\ background => UNCHANGED <<hardRebuild, userInitiated>>
           /\ ~background => /\ hardRebuild' = (kind = "hard")
                             /\ userInitiated' = (kind # "auto")
                             /\ reactions' = <<>>
<1>1. /\ microtasks = <<>> /\ microtasks' = <<>>
      /\ awaits[c] = "nothing"
      /\ wants' = [wants EXCEPT ![c] = kind]
      /\ awaits' = [awaits EXCEPT ![c] = Returned(kind)]
      /\ queuedUser' = IF Returned(kind) = "user" /\ queuedUser = "null" THEN "prior" ELSE queuedUser
      /\ queuedHard' = IF Returned(kind) = "hard" /\ queuedHard = "null" THEN "prior" ELSE queuedHard
      /\ reactions' = IF \/ Returned(kind) = "user" /\ queuedUser = "null"
                         \/ Returned(kind) = "hard" /\ queuedHard = "null"
                      THEN Append(reactions, Returned(kind)) ELSE reactions
  BY DEF Call, JoinQueue
<1>2. /\ Returned(kind) \in {"run", "user", "hard"}
      /\ Returned(kind) = "user" => background /\ ~userInitiated /\ kind = "user"
      /\ Returned(kind) = "hard" => background /\ ~hardRebuild /\ kind = "hard"
      /\ Returned(kind) = "run" /\ background /\ kind = "user" => userInitiated
      /\ Returned(kind) = "run" /\ background /\ kind = "hard" => hardRebuild
  BY DEF Returned, IInv, RunsHaveAnOwner, Kinds
<1>3. /\ background'
      /\ background => UNCHANGED <<hardRebuild, userInitiated>>
      /\ ~background => hardRebuild' = (kind = "hard") /\ userInitiated' = (kind # "auto")
  BY RunBegins DEF Call, IInv
<1>4. ASSUME NEW y, In(y, reactions')
      PROVE  \/ In(y, reactions)
             \/ y = "user" /\ queuedUser' = "prior" /\ Returned(kind) = "user"
             \/ y = "hard" /\ queuedHard' = "prior" /\ Returned(kind) = "hard"
  <2>1. CASE reactions' = reactions
    BY <1>4, <2>1
  <2>2. CASE reactions' # reactions
    <3>1. reactions' = Append(reactions, Returned(kind)) /\ Returned(kind) \in {"user", "hard"}
      BY <1>1, <2>2
    <3>2. In(y, reactions) \/ y = Returned(kind)
      BY <1>4, <3>1, Chaining DEF IInv, TypeOK
    <3> QED
      BY <1>1, <2>2, <3>1, <3>2
  <2> QED
    BY <2>1, <2>2
<1>5. ~background => reactions' = <<>>
  BY <1>1, <1>2 DEF IInv, ChainedToARun
<1> QED
  BY <1>1, <1>2, <1>3, <1>4, <1>5

\* What a continuation finds and leaves.
LEMMA Continues ==
    ASSUME IInv, QueueInv, NEW x \in {"user", "hard"}, microtasks # <<>>, Head(microtasks) = x,
           microtasks' = Tail(microtasks)
    PROVE  /\ In(x, microtasks)
           /\ \A y : In(y, microtasks') <=> In(y, microtasks) /\ y # x
           /\ \A y : ~In(y, reactions)
           /\ x = "user" => queuedUser = "prior"
           /\ x = "hard" => queuedHard = "prior"
<1>1. microtasks \in Seq({"user", "hard"}) /\ Distinct(microtasks) /\ reactions = <<>>
  BY DEF IInv, TypeOK, ChainedToARun
<1>2. \A y : In(y, microtasks') <=> In(y, microtasks) /\ y # x
  BY <1>1, Continuing
<1>3. In(x, microtasks)
  <2>1. 1 \in DOMAIN microtasks /\ microtasks[1] = x
    BY <1>1
  <2> QED
    BY <2>1 DEF In
<1>4. \A y : ~In(y, reactions)
  BY <1>1 DEF In
<1> QED
  BY <1>2, <1>3, <1>4 DEF QueueInv, ContinuationsHaveTheirSlot

LEMMA NextQueueInv == IInv /\ IInv' /\ QueueInv /\ [Next]_vars => QueueInv'
<1> SUFFICES ASSUME IInv, IInv', QueueInv, [Next]_vars
             PROVE  QueueInv'
  OBVIOUS
<1> USE DEF QueueInv
<1>1. ASSUME NEW c \in Callers, NEW kind \in Kinds, Call(c, kind)
      PROVE  QueueInv'
  <2> DEFINE r == Returned(kind)
  <2>1. /\ microtasks = <<>> /\ microtasks' = <<>>
        /\ awaits[c] = "nothing"
        /\ awaits' = [awaits EXCEPT ![c] = r]
        /\ r \in {"run", "user", "hard"}
        /\ r = "user" => background /\ ~userInitiated
        /\ r = "hard" => background /\ ~hardRebuild
        /\ queuedUser' = IF r = "user" /\ queuedUser = "null" THEN "prior" ELSE queuedUser
        /\ queuedHard' = IF r = "hard" /\ queuedHard = "null" THEN "prior" ELSE queuedHard
        /\ \A y : In(y, reactions') =>
             \/ In(y, reactions)
             \/ y = "user" /\ queuedUser' = "prior" /\ r = "user"
             \/ y = "hard" /\ queuedHard' = "prior" /\ r = "hard"
        /\ background => UNCHANGED <<hardRebuild, userInitiated>>
        /\ ~background => reactions' = <<>>
    BY <1>1, CallJoins
  <2>2. \A y : ~In(y, microtasks) /\ ~In(y, microtasks') /\ (~background => ~In(y, reactions'))
    BY <2>1 DEF In
  <2>3. awaits \in [Callers -> {"nothing", "run", "user", "hard"}]
    BY DEF IInv, TypeOK
  <2> HIDE DEF r
  <2>4. SlotsAreWaitedFor'
    <3>1. (\E d \in Callers : awaits'[d] = "user") <=> r = "user" \/ \E d \in Callers : awaits[d] = "user"
      BY <2>1, <2>3
    <3>2. (\E d \in Callers : awaits'[d] = "hard") <=> r = "hard" \/ \E d \in Callers : awaits[d] = "hard"
      BY <2>1, <2>3
    <3> QED
      BY <2>1, <3>1, <3>2 DEF SlotsAreWaitedFor
  <2>5. ContinuationsHaveTheirSlot'
    BY <2>1, <2>2 DEF ContinuationsHaveTheirSlot
  <2>6. QueuesAreBehindLess'
    BY <2>1, <2>2 DEF QueuesAreBehindLess
  <2> QED
    BY <2>4, <2>5, <2>6
<1>2. CASE ContinueUser
  <2>1. /\ \A y : In(y, microtasks') => In(y, microtasks) /\ y # "user"
        /\ \A y : ~In(y, reactions) /\ ~In(y, reactions')
        /\ queuedUser = "prior"
    BY <1>2, Continues DEF ContinueUser
  <2>2. /\ queuedUser' # "null" /\ UNCHANGED <<queuedHard, awaits>>
        /\ hardRebuild' => background /\ hardRebuild
    BY <1>2 DEF ContinueUser, Adopted, callVars, BeginRunUnlessBusy, BeginRun, runVars
  <2>3. SlotsAreWaitedFor' /\ ContinuationsHaveTheirSlot' /\ QueuesAreBehindLess'
    BY <2>1, <2>2 DEF SlotsAreWaitedFor, ContinuationsHaveTheirSlot, QueuesAreBehindLess
  <2> QED
    BY <2>3
<1>3. CASE ContinueHard
  <2>1. /\ \A y : In(y, microtasks') => In(y, microtasks) /\ y # "hard"
        /\ \A y : ~In(y, reactions) /\ ~In(y, reactions')
        /\ queuedHard = "prior"
    BY <1>3, Continues DEF ContinueHard
  <2>2. queuedHard' # "null" /\ UNCHANGED <<queuedUser, awaits>>
    BY <1>3 DEF ContinueHard, Adopted, callVars
  <2>3. SlotsAreWaitedFor' /\ ContinuationsHaveTheirSlot' /\ QueuesAreBehindLess'
    BY <2>1, <2>2 DEF SlotsAreWaitedFor, ContinuationsHaveTheirSlot, QueuesAreBehindLess
  <2> QED
    BY <2>3
<1>4. ASSUME NEW m \in Modules, NEW outcome \in Outcomes, FinishModule(m, outcome)
      PROVE  QueueInv'
  BY <1>4 DEF FinishModule, queueVars, callVars, SlotsAreWaitedFor, ContinuationsHaveTheirSlot,
     QueuesAreBehindLess, In
<1>5. ASSUME NEW outcome \in Outcomes, EndRun(outcome)
      PROVE  QueueInv'
  <2>1. /\ ~background'
        /\ microtasks' = reactions /\ reactions' = <<>>
        /\ queuedUser' = IF queuedUser = "run" THEN "null" ELSE queuedUser
        /\ queuedHard' = IF queuedHard = "run" THEN "null" ELSE queuedHard
        /\ awaits' = [c \in Callers |-> IF SettlesWithRun(awaits[c]) THEN "nothing" ELSE awaits[c]]
    BY <1>5 DEF EndRun, Released
  <2>2. \A y : ~In(y, reactions') /\ (In(y, microtasks') => In(y, reactions))
    BY <2>1 DEF In
  <2>3. SlotsAreWaitedFor'
    <3>1. \A c \in Callers : /\ awaits'[c] = "user" <=> awaits[c] = "user" /\ queuedUser # "run"
                             /\ awaits'[c] = "hard" <=> awaits[c] = "hard" /\ queuedHard # "run"
      BY <2>1 DEF SettlesWithRun
    <3> QED
      BY <2>1, <3>1 DEF SlotsAreWaitedFor
  <2>4. ContinuationsHaveTheirSlot' /\ QueuesAreBehindLess'
    BY <2>1, <2>2 DEF ContinuationsHaveTheirSlot, QueuesAreBehindLess
  <2> QED
    BY <2>3, <2>4
<1>6. CASE UNCHANGED vars
  BY <1>6 DEF vars, runVars, queueVars, callVars, SlotsAreWaitedFor, ContinuationsHaveTheirSlot,
     QueuesAreBehindLess, In
<1> QED
  BY <1>1, <1>2, <1>3, <1>4, <1>5, <1>6 DEF Next, Settle

\* The kind of the run in flight.
LEMMA RunningIs ==
    ASSUME IInv
    PROVE  /\ Running \in {"idle", "auto", "user", "hard"}
           /\ Running = "idle" <=> ~background
           /\ Running = "hard" <=> background /\ hardRebuild
           /\ Running = "user" <=> background /\ ~hardRebuild /\ userInitiated
           /\ Running = "auto" <=> background /\ ~userInitiated
  BY DEF Running, IInv, TypeOK, RunsHaveAnOwner

\* What a caller waits for, and that a caller is lost only where a slot is.
LEMMA WaitingIs ==
    ASSUME IInv, QueueInv
    PROVE  /\ Waiting = [c \in Callers |-> Waiting[c]]
           /\ \A c \in Callers :
                /\ Waiting[c] = "nothing" <=> awaits[c] = "nothing"
                /\ awaits[c] # "nothing" => Waiting[c] = wants[c]
                /\ c \in Lost <=> awaits[c] = "hard" /\ queuedHard = "self"
           /\ Lost \subseteq Callers
           /\ Lost = {} <=> queuedHard # "self"
<1>1. \A c \in Callers : wants[c] # "nothing"
  BY DEF IInv, TypeOK, Kinds
<1>2. \A c \in Callers : Waiting[c] = IF awaits[c] = "nothing" THEN "nothing" ELSE wants[c]
  BY DEF Waiting
<1>3. Waiting = [c \in Callers |-> Waiting[c]]
  BY DEF Waiting
<1>4. Lost = {} <=> queuedHard # "self"
  BY DEF Lost, QueueInv, SlotsAreWaitedFor
<1> QED
  BY <1>1, <1>2, <1>3, <1>4 DEF Lost

\* While nothing runs and no continuation is due, only lost rebuilds wait.
LEMMA IdleMeansAnswered ==
    ASSUME IInv, QueueInv, ~background, microtasks = <<>>, NEW c \in Callers, awaits[c] # "nothing"
    PROVE  c \in Lost
<1>1. \A y : ~In(y, microtasks)
  BY DEF In
<1>2. /\ awaits[c] # "run"
      /\ awaits[c] = "user" => FALSE
      /\ queuedHard # "prior" /\ queuedHard # "run"
      /\ awaits[c] = "hard" => queuedHard # "null"
  BY <1>1 DEF IInv, TypeOK, Slots, CallersShareOnlyAdequateRuns, UserQueueIsServed,
     HardQueueIsServedUnlessLost, QueueInv, SlotsAreWaitedFor
<1> QED
  BY <1>2 DEF IInv, TypeOK, Slots, Lost

\* A run that ends answers exactly the callers that it serves and that are not lost.
LEMMA EndAnswers ==
    ASSUME IInv, QueueInv, background, microtasks = <<>>, NEW c \in Callers
    PROVE  awaits[c] # "nothing" =>
              (SettlesWithRun(awaits[c]) <=> Service!Serves(Running, wants[c]) /\ c \notin Lost)
<1> SUFFICES ASSUME awaits[c] # "nothing"
             PROVE  SettlesWithRun(awaits[c]) <=> Service!Serves(Running, wants[c]) /\ c \notin Lost
  OBVIOUS
<1>1. \A y : ~In(y, microtasks)
  BY DEF In
<1>2. /\ wants[c] \in {"auto", "user", "hard"}
      /\ awaits[c] \in {"run", "user", "hard"}
      /\ awaits[c] = "user" => wants[c] = "user"
      /\ awaits[c] = "hard" => wants[c] = "hard"
      /\ hardRebuild => userInitiated
  BY DEF IInv, TypeOK, Kinds, CallersQueueByKind, RunsHaveAnOwner
<1>3. Service!Serves(Running, wants[c]) <=>
        \/ wants[c] = "auto"
        \/ wants[c] = "user" /\ userInitiated
        \/ wants[c] = "hard" /\ hardRebuild
  BY <1>2, RunningIs DEF Service!Serves
<1>4. c \in Lost <=> awaits[c] = "hard" /\ queuedHard = "self"
  BY DEF Lost
<1>5. CASE awaits[c] = "run"
  BY <1>2, <1>3, <1>4, <1>5 DEF IInv, CallersShareOnlyAdequateRuns, SettlesWithRun
<1>6. CASE awaits[c] = "user"
  <2>1. queuedUser \in {"prior", "run"}
    BY <1>6 DEF IInv, TypeOK, Slots, UserQueueIsServed, QueueInv, SlotsAreWaitedFor
  <2>2. queuedUser = "run" => userInitiated
    BY DEF IInv, UserQueueIsServed
  <2>3. queuedUser = "prior" => ~userInitiated
    BY <1>1 DEF IInv, UserQueueIsServed, QueueInv, QueuesAreBehindLess
  <2> QED
    BY <1>2, <1>3, <1>4, <1>6, <2>1, <2>2, <2>3 DEF SettlesWithRun
<1>7. CASE awaits[c] = "hard"
  <2>1. queuedHard \in {"prior", "run", "self"}
    BY <1>7 DEF IInv, TypeOK, Slots, QueueInv, SlotsAreWaitedFor
  <2>2. queuedHard = "run" => hardRebuild
    BY DEF IInv, HardQueueIsServedUnlessLost
  <2>3. queuedHard = "prior" => ~hardRebuild
    BY <1>1 DEF IInv, HardQueueIsServedUnlessLost, QueueInv, QueuesAreBehindLess
  <2> QED
    BY <1>2, <1>3, <1>4, <1>7, <2>1, <2>2, <2>3 DEF SettlesWithRun
<1> QED
  BY <1>2, <1>5, <1>6, <1>7

\* A call is asked of the service.
LEMMA CallAsks ==
    ASSUME IInv, IInv', QueueInv, QueueInv', NEW c \in Callers, NEW kind \in Kinds, Call(c, kind)
    PROVE  Service!Ask(c, kind)
<1> DEFINE r == Returned(kind)
<1>1. /\ microtasks = <<>>
      /\ awaits[c] = "nothing"
      /\ wants' = [wants EXCEPT ![c] = kind]
      /\ awaits' = [awaits EXCEPT ![c] = r]
      /\ r \in {"run", "user", "hard"}
      /\ r = "user" => kind = "user"
      /\ r = "hard" => background /\ ~hardRebuild /\ kind = "hard"
      /\ r = "run" /\ background /\ kind = "hard" => hardRebuild
      /\ r = "hard" /\ queuedHard = "null" => queuedHard' = "prior"
      /\ ~(r = "hard" /\ queuedHard = "null") => queuedHard' = queuedHard
      /\ background'
      /\ background => UNCHANGED <<hardRebuild, userInitiated>>
      /\ ~background => hardRebuild' = (kind = "hard") /\ userInitiated' = (kind # "auto")
  BY CallJoins
<1> HIDE DEF r
<1>2. /\ wants \in [Callers -> Kinds]
      /\ awaits \in [Callers -> {"nothing", "run", "user", "hard"}]
      /\ kind \in {"auto", "user", "hard"}
  BY DEF IInv, TypeOK, Kinds
<1>3. Waiting[c] = "nothing"
  BY <1>1 DEF Waiting
<1>4. Running = "idle" => \A d \in Callers : Waiting[d] # "nothing" => d \in Lost
  BY <1>1, RunningIs, WaitingIs, IdleMeansAnswered
<1>5. Waiting' = [Waiting EXCEPT ![c] = kind]
  <2>1. \A d \in Callers : IF d = c THEN awaits'[d] = r /\ wants'[d] = kind
                           ELSE awaits'[d] = awaits[d] /\ wants'[d] = wants[d]
    BY <1>1, <1>2
  <2>2. \A d \in Callers : (IF awaits'[d] = "nothing" THEN "nothing" ELSE wants'[d]) =
                           IF d = c THEN kind ELSE Waiting[d]
    BY <1>1, <2>1 DEF Waiting
  <2>3. Waiting' = [d \in Callers |-> IF d = c THEN kind ELSE Waiting[d]]
    BY <2>2 DEF Waiting
  <2>4. [Waiting EXCEPT ![c] = kind] = [d \in Callers |-> IF d = c THEN kind ELSE Waiting[d]]
    BY DEF Waiting
  <2> QED
    BY <2>3, <2>4
<1>6. Running' = IF Running = "idle" THEN kind ELSE Running
  <2>1. CASE background
    BY <1>1, <2>1, RunningIs DEF Running
  <2>2. CASE ~background
    <3>1. Running' = kind
      BY <1>1, <1>2, <2>2 DEF Running
    <3> QED
      BY <2>2, <3>1, RunningIs
  <2> QED
    BY <2>1, <2>2
<1>7. Service!Serves(Running', kind) \/ kind # "hard" <=> r # "hard"
  <2>1. Service!Serves(Running', "hard") <=> Running' = "hard"
    BY DEF Service!Serves
  <2>2. Running' = "hard" <=> hardRebuild'
    BY <1>1 DEF Running
  <2>3. kind = "hard" => (hardRebuild' <=> r # "hard")
    BY <1>1
  <2>4. kind # "hard" => r # "hard"
    BY <1>1
  <2> QED
    BY <2>1, <2>2, <2>3, <2>4
<1>8. Lost' = IF Lost # {} /\ kind = "hard" /\ ~Service!Serves(Running', kind)
              THEN Lost \cup {c} ELSE Lost
  <2>1. queuedHard' = "self" <=> queuedHard = "self"
    BY <1>1
  <2>2. \A d \in Callers : awaits'[d] = "hard" <=> awaits[d] = "hard" \/ (d = c /\ r = "hard")
    BY <1>1, <1>2
  <2>3. Lost = {} <=> queuedHard # "self"
    BY WaitingIs
  <2>4. CASE queuedHard = "self"
    BY <1>7, <2>1, <2>2, <2>3, <2>4 DEF Lost
  <2>5. CASE queuedHard # "self"
    BY <2>1, <2>3, <2>5 DEF Lost
  <2> QED
    BY <2>4, <2>5
<1> QED
  BY <1>3, <1>4, <1>5, <1>6, <1>8 DEF Service!Ask

\* The continuation of a slot starts a run for those who wait for it, joins the one
\* that has just begun, or loses the rebuilds to it.
LEMMA ContinueUserFollows ==
    ASSUME IInv, IInv', QueueInv, QueueInv', ContinueUser
    PROVE  Service!Follow("user") \/ UNCHANGED Service!service
<1>1. queuedUser = "prior" /\ UNCHANGED <<queuedHard, awaits, wants>>
  BY Continues DEF ContinueUser, callVars
<1>2. Waiting' = Waiting /\ Lost' = Lost
  BY <1>1 DEF Waiting, Lost
<1>3. CASE background
  <2>1. Running' = Running
    BY <1>3 DEF ContinueUser, BeginRunUnlessBusy, runVars, Running
  <2> QED
    BY <1>2, <2>1 DEF Service!service
<1>4. CASE ~background
  <2>1. background' = TRUE /\ hardRebuild' = FALSE /\ userInitiated' = TRUE
    BY <1>4 DEF ContinueUser, BeginRunUnlessBusy, BeginRun
  <2>2. Running' = "user" /\ Running = "idle"
    BY <1>4, <2>1 DEF Running
  <2>3. PICK c \in Callers : awaits[c] = "user"
    BY <1>1 DEF QueueInv, SlotsAreWaitedFor
  <2>4. Waiting[c] = "user" /\ c \notin Lost
    BY <2>3, WaitingIs DEF IInv, CallersQueueByKind
  <2> QED
    BY <1>2, <2>2, <2>4 DEF Service!Follow
<1> QED
  BY <1>3, <1>4

LEMMA ContinueHardFollows ==
    ASSUME IInv, IInv', QueueInv, QueueInv', ContinueHard
    PROVE  Service!Follow("hard") \/ Service!Lose
<1>1. queuedHard = "prior" /\ UNCHANGED <<queuedUser, awaits, wants>>
  BY Continues DEF ContinueHard, callVars
<1>2. Waiting' = Waiting /\ Lost = {}
  BY <1>1 DEF Waiting, Lost
<1>3. PICK c \in Callers : awaits[c] = "hard"
  BY <1>1 DEF QueueInv, SlotsAreWaitedFor
<1>4. CASE background
  <2>1. In("hard", microtasks) /\ microtasks # <<>> /\ ~In("hard", reactions)
    BY Continues DEF ContinueHard
  <2>2. userInitiated /\ (~hardRebuild => queuedUser = "run")
    BY <1>4, <2>1 DEF IInv, RunsHaveAnOwner
  <2>3. ~hardRebuild
    BY <1>4, <2>1 DEF QueueInv, QueuesAreBehindLess
  <2>4. Running = "user" /\ Running' = Running
    BY <1>4, <2>2, <2>3 DEF ContinueHard, BeginRunUnlessBusy, runVars, Running
  <2>5. queuedHard' = "self"
    BY <1>4, <2>3 DEF ContinueHard, Adopted, Returned
  <2>6. Lost' = {d \in Callers : Waiting[d] = "hard"}
    <3>1. \A d \in Callers : awaits[d] = "hard" <=> Waiting[d] = "hard"
      BY <2>3, WaitingIs DEF IInv, TypeOK, CallersQueueByKind, CallersShareOnlyAdequateRuns
    <3> QED
      BY <1>1, <2>5, <3>1 DEF Lost
  <2>7. Lost' # {}
    BY <1>1, <1>3, <2>5 DEF Lost
  <2> QED
    BY <1>2, <2>4, <2>6, <2>7 DEF Service!Lose
<1>5. CASE ~background
  <2>1. background' = TRUE /\ hardRebuild' = TRUE /\ queuedHard' = "run"
    BY <1>5 DEF ContinueHard, BeginRunUnlessBusy, BeginRun, Adopted, Returned
  <2>2. Running' = "hard" /\ Running = "idle"
    BY <1>5, <2>1 DEF Running
  <2>3. Lost' = Lost
    BY <1>2, <2>1 DEF Lost
  <2>4. Waiting[c] = "hard" /\ c \notin Lost
    BY <1>2, <1>3, WaitingIs DEF IInv, CallersQueueByKind
  <2> QED
    BY <1>2, <2>2, <2>3, <2>4 DEF Service!Follow
<1> QED
  BY <1>4, <1>5

\* The last module ends the run for the service too.
LEMMA EndRunEnds ==
    ASSUME IInv, QueueInv, NEW outcome \in Outcomes, EndRun(outcome)
    PROVE  Service!End
<1>1. /\ background /\ ~background' /\ microtasks = <<>> /\ wants' = wants
      /\ queuedHard' = IF queuedHard = "run" THEN "null" ELSE queuedHard
      /\ awaits' = [c \in Callers |-> IF SettlesWithRun(awaits[c]) THEN "nothing" ELSE awaits[c]]
  BY DEF EndRun, Released
<1>2. Running # "idle" /\ Running' = "idle"
  BY <1>1, RunningIs DEF Running
<1>3. ASSUME NEW c \in Callers
      PROVE  (IF awaits'[c] = "nothing" THEN "nothing" ELSE wants'[c]) =
             IF Service!Serves(Running, Waiting[c]) /\ c \notin Lost THEN "nothing" ELSE Waiting[c]
  <2>1. awaits'[c] = IF SettlesWithRun(awaits[c]) THEN "nothing" ELSE awaits[c]
    BY <1>1
  <2>2. CASE awaits[c] = "nothing"
    BY <1>1, <2>1, <2>2 DEF Waiting
  <2>3. CASE awaits[c] # "nothing"
    <3>1. Waiting[c] = wants[c]
      BY <2>3 DEF Waiting
    <3>2. SettlesWithRun(awaits[c]) <=> Service!Serves(Running, wants[c]) /\ c \notin Lost
      BY <1>1, <2>3, EndAnswers
    <3> QED
      BY <1>1, <2>1, <2>3, <3>1, <3>2
  <2> QED
    BY <2>2, <2>3
<1>4. Waiting' = [c \in Callers |->
                    IF Service!Serves(Running, Waiting[c]) /\ c \notin Lost THEN "nothing" ELSE Waiting[c]]
  BY <1>3 DEF Waiting
<1>5. Lost' = Lost
  <2>1. \A c \in Callers : queuedHard = "self" => (awaits'[c] = "hard" <=> awaits[c] = "hard")
    BY <1>1 DEF SettlesWithRun
  <2> QED
    BY <1>1, <2>1 DEF Lost
<1> QED
  BY <1>2, <1>4, <1>5 DEF Service!End

\* Each step is one of the service or leaves what the callers see alone.
LEMMA StepOfTheService ==
    IInv /\ IInv' /\ QueueInv /\ QueueInv' /\ [Next]_vars => [Service!Next]_(Service!service)
<1> SUFFICES ASSUME IInv, IInv', QueueInv, QueueInv', [Next]_vars
             PROVE  [Service!Next]_(Service!service)
  OBVIOUS
<1>1. ASSUME NEW c \in Callers, NEW kind \in Kinds, Call(c, kind)
      PROVE  Service!Next
  BY <1>1, CallAsks DEF Service!Next, Kinds
<1>2. CASE ContinueUser
  BY <1>2, ContinueUserFollows DEF Service!Next
<1>3. CASE ContinueHard
  BY <1>3, ContinueHardFollows DEF Service!Next
<1>4. ASSUME NEW m \in Modules, NEW outcome \in Outcomes, FinishModule(m, outcome)
      PROVE  UNCHANGED Service!service
  BY <1>4 DEF FinishModule, queueVars, callVars, Service!service, Running, Waiting, Lost
<1>5. ASSUME NEW outcome \in Outcomes, EndRun(outcome)
      PROVE  Service!Next
  BY <1>5, EndRunEnds DEF Service!Next
<1>6. CASE UNCHANGED vars
  BY <1>6 DEF vars, runVars, queueVars, callVars, Service!service, Running, Waiting, Lost
<1> QED
  BY <1>1, <1>2, <1>3, <1>4, <1>5, <1>6 DEF Next, Settle

\* For any set of callers the two slots and their chained promises implement the
\* service (#startProcessing): the run that ends answers exactly those it serves,
\* every run is waited for, no call overtakes a queued one, and only rebuilds are lost.
THEOREM CallsCoalesce == Spec => CallsAreCoalesced
<1>1. Init => Service!Init
  BY DEF Init, Service!Init, Running, Waiting, Lost
<1>2. Spec => []QueueInv
  BY InductiveInvariant, InitQueueInv, NextQueueInv, PTL DEF Spec
<1> QED
  BY <1>1, <1>2, InductiveInvariant, StepOfTheService, PTL
  DEF Spec, CallsAreCoalesced, Service!Spec

-----------------------------------------------------------------------------
(* Screens that are read.                                                  *)

Meterings == {Shows(m, u) : m \in Meters, u \in {1, 2}}
Drawn == {Trust, SignIn, Unmetered} \cup {Refreshing(m) : m \in Meters} \cup Meterings
Marks == {DoneMark, TimeoutMark}

\* A sequence starts another one.
IsStartOf(s, t) == Len(s) <= Len(t) /\ \A i \in 1 .. Len(s) : s[i] = t[i]

\* What the driver has written is what was drawn, and at its end its mark; the driver of Cursor
\* writes nothing before its end. The read has received a start of it.
ScreenInv ==
    /\ frames \in Seq(Drawn)
    /\ copied \in Seq(Drawn \cup Marks)
    /\ output \in Seq(Drawn \cup Marks)
    /\ IsStartOf(output, copied)
    /\ driver # "done" => copied = IF agent = "claude" THEN frames ELSE <<>>
    /\ driver = "done" => \/ copied = frames
                          \/ agent = "claude" /\ \E mark \in Marks : copied = Append(frames, mark)

LEMMA MarksAre == \A x \in Marks : x.kind \in {"done", "timeout"}
<1>1. DoneMark.kind = "done" /\ TimeoutMark.kind = "timeout"
  BY DEF DoneMark, TimeoutMark
<1> QED BY <1>1 DEF Marks

LEMMA DrawnAre ==
    ASSUME NEW d \in Drawn
    PROVE  /\ d.kind \notin {"done", "timeout"}
           /\ d.kind = "meter" <=> d \in Meterings
           /\ d \notin Marks
<1>1. Trust.kind = "trust" /\ SignIn.kind = "sign in" /\ Unmetered.kind = "unmetered"
  BY DEF Trust, SignIn, Unmetered
<1>2. \A x \in {Trust, SignIn, Unmetered} : x.kind \in {"trust", "sign in", "unmetered"}
  BY <1>1
<1>3. \A x \in {Refreshing(m) : m \in Meters} : x.kind = "refreshing"
  BY DEF Refreshing
<1>4. \A x \in Meterings : x.kind = "meter"
  BY DEF Meterings, Shows
<1>5. \A x \in Marks : x.kind \in {"done", "timeout"}
  BY MarksAre
<1> QED BY <1>2, <1>3, <1>4, <1>5 DEF Drawn

LEMMA InitScreen == ScreenInit => ScreenInv
  BY DEF ScreenInit, ScreenInv, IsStartOf

LEMMA Growing ==
    ASSUME ScreenInv, NEW more \in Seq(Drawn \cup Marks), copied' = copied \o more, UNCHANGED output
    PROVE  copied' \in Seq(Drawn \cup Marks) /\ IsStartOf(output, copied)'
<1>1. copied \in Seq(Drawn \cup Marks) /\ output \in Seq(Drawn \cup Marks) /\ IsStartOf(output, copied)
  BY DEF ScreenInv
<1>2. copied' \in Seq(Drawn \cup Marks)
  BY <1>1
<1>3. Len(copied') = Len(copied) + Len(more) /\ \A i \in 1 .. Len(copied) : copied'[i] = copied[i]
  BY <1>1
<1>4. Len(copied) \in Nat /\ Len(more) \in Nat /\ Len(output) \in Nat
  BY <1>1
<1>5. IsStartOf(output, copied')
  BY <1>1, <1>3, <1>4 DEF IsStartOf
<1> QED BY <1>2, <1>5 DEF IsStartOf

LEMMA DrawInv ==
    ASSUME ScreenInv, NEW frame \in Drawn, Draw(frame), UNCHANGED driver
    PROVE  ScreenInv'
<1>1. /\ driver # "done"
      /\ frames' = Append(frames, frame)
      /\ copied' = IF agent = "claude" THEN Append(copied, frame) ELSE copied
      /\ UNCHANGED <<agent, driver, output, endSeen, reading>>
  BY DEF Draw
<1>2. frames \in Seq(Drawn) /\ copied \in Seq(Drawn \cup Marks) /\ output \in Seq(Drawn \cup Marks)
  BY DEF ScreenInv
<1>3. frames' \in Seq(Drawn)
  BY <1>1, <1>2
<1>4. CASE agent = "claude"
  <2>1. copied = frames
    BY <1>1, <1>4 DEF ScreenInv
  <2>2. copied' = frames' /\ copied' = copied \o <<frame>>
    BY <1>1, <1>2, <1>4, <2>1
  <2>3. <<frame>> \in Seq(Drawn \cup Marks)
    OBVIOUS
  <2>4. copied' \in Seq(Drawn \cup Marks) /\ IsStartOf(output, copied)'
    BY <1>1, <2>2, <2>3, Growing
  <2> QED BY <1>1, <1>2, <1>3, <2>2, <2>4 DEF ScreenInv
<1>5. CASE agent # "claude"
  <2> QED BY <1>1, <1>2, <1>3, <1>5 DEF ScreenInv, IsStartOf
<1> QED BY <1>4, <1>5

LEMMA EndsInv ==
    ASSUME ScreenInv, NEW more, EndsDriver(more),
           \/ agent = "claude" /\ driver # "done" /\ more \in {<<>>, <<DoneMark>>, <<TimeoutMark>>}
           \/ agent # "claude" /\ driver # "done" /\ more = frames
    PROVE  ScreenInv'
<1>1. /\ driver' = "done"
      /\ copied' = copied \o more
      /\ UNCHANGED <<agent, frames, output, endSeen, reading>>
  BY DEF EndsDriver
<1>2. frames \in Seq(Drawn) /\ copied \in Seq(Drawn \cup Marks)
  BY DEF ScreenInv
<1>3. more \in Seq(Drawn \cup Marks)
  <2>1. DoneMark \in Marks /\ TimeoutMark \in Marks
    BY DEF Marks
  <2>2. frames \in Seq(Drawn \cup Marks)
    BY <1>2, SeqDef
  <2>3. <<>> \in Seq(Drawn \cup Marks)
    OBVIOUS
  <2>4. \A x \in Marks : <<x>> \in Seq(Drawn \cup Marks)
    OBVIOUS
  <2> QED BY <2>1, <2>2, <2>3, <2>4
<1>4. copied' \in Seq(Drawn \cup Marks) /\ IsStartOf(output, copied)'
  BY <1>1, <1>3, Growing
<1>5. copied' = frames \/ (agent = "claude" /\ \E mark \in Marks : copied' = Append(frames, mark))
  <2>1. CASE agent = "claude" /\ driver # "done" /\ more = <<>>
    BY <1>1, <1>2, <2>1 DEF ScreenInv
  <2>2. ASSUME NEW mark \in Marks, agent = "claude", driver # "done", more = <<mark>>
        PROVE  copied' = Append(frames, mark)
    <3>1. copied = frames
      BY <2>2 DEF ScreenInv
    <3> QED BY <1>1, <1>2, <2>2, <3>1
  <2>3. CASE agent # "claude" /\ driver # "done" /\ more = frames
    <3>1. copied = <<>>
      BY <2>3 DEF ScreenInv
    <3> QED BY <1>1, <1>2, <2>3, <3>1
  <2>4. DoneMark \in Marks /\ TimeoutMark \in Marks
    BY DEF Marks
  <2> QED BY <2>1, <2>2, <2>3, <2>4
<1> QED BY <1>1, <1>4, <1>5 DEF ScreenInv

\* What the read receives.
LEMMA ReceivingInv ==
    ASSUME ScreenInv, ReceiveChunk
    PROVE  ScreenInv'
<1>1. PICK last \in Len(output) + 1 .. Len(copied) :
          /\ output' = SubSeq(copied, 1, last)
          /\ driver' \in {driver, "killed"}
          /\ driver = "done" => driver' = "done"
  BY DEF ReceiveChunk, Ends
<1>2. copied \in Seq(Drawn \cup Marks) /\ output \in Seq(Drawn \cup Marks)
  BY DEF ScreenInv
<1>3. last \in 1 .. Len(copied) /\ Len(copied) \in Nat
  BY <1>1, <1>2
<1>4. /\ output' \in Seq(Drawn \cup Marks)
      /\ Len(output') = last
      /\ \A i \in 1 .. last : output'[i] = copied[i]
  BY <1>1, <1>2, <1>3
<1>5. UNCHANGED <<agent, frames, copied>>
  BY DEF ReceiveChunk
<1>6. IsStartOf(output', copied)
  BY <1>3, <1>4 DEF IsStartOf
<1> QED BY <1>1, <1>4, <1>5, <1>6 DEF ScreenInv, IsStartOf

\* What is told of what was drawn, marks after it left aside.
LEMMA Telling ==
    ASSUME NEW fs \in Seq(Drawn), NEW mark \in Marks, NEW text, text = Append(fs, mark)
    PROVE  LastShown(text) = Meterings \cap
               {fs[i] : i \in {j \in DOMAIN fs : \A k \in j + 1 .. Len(fs) :
                                  fs[k].kind = "meter" => fs[k].meter # fs[j].meter}}
<1> DEFINE n == Len(fs)
           shown == {j \in DOMAIN text : /\ text[j].kind = "meter"
                                         /\ \A k \in j + 1 .. Len(text) : text[k].kind = "meter"
                                               => text[k].meter # text[j].meter}
           drawn == {j \in DOMAIN fs : \A k \in j + 1 .. Len(fs) :
                                  fs[k].kind = "meter" => fs[k].meter # fs[j].meter}
<1>1. n \in Nat /\ Len(text) = n + 1 /\ text[n + 1] = mark /\ DOMAIN text = 1 .. n + 1 /\ DOMAIN fs = 1 .. n
  OBVIOUS
<1>2. \A i \in 1 .. n : text[i] = fs[i] /\ fs[i] \in Drawn
  OBVIOUS
<1>3. mark.kind # "meter"
  BY MarksAre
<1>4. \A i \in 1 .. n : fs[i].kind = "meter" <=> fs[i] \in Meterings
  BY <1>2, DrawnAre
<1> HIDE DEF n
<1>5. shown = {j \in drawn : fs[j].kind = "meter"}
  <2>1. ASSUME NEW j \in shown
        PROVE  j \in drawn /\ fs[j].kind = "meter"
    <3>1. j \in 1 .. n
      BY <1>1, <1>3
    <3>2. \A k \in j + 1 .. n : fs[k].kind = "meter" => fs[k].meter # fs[j].meter
      <4> SUFFICES ASSUME NEW k \in j + 1 .. n, fs[k].kind = "meter"
                   PROVE  fs[k].meter # fs[j].meter
        OBVIOUS
      <4>1. k \in j + 1 .. Len(text) /\ k \in 1 .. n
        BY <1>1, <3>1
      <4> QED BY <1>2, <3>1, <4>1
    <3> QED BY <1>1, <1>2, <3>1, <3>2 DEF n
  <2>2. ASSUME NEW j \in drawn, fs[j].kind = "meter"
        PROVE  j \in shown
    <3>1. j \in 1 .. n /\ j \in DOMAIN text /\ text[j].kind = "meter"
      BY <1>1, <1>2, <2>2
    <3>2. \A k \in j + 1 .. Len(text) : text[k].kind = "meter" => text[k].meter # text[j].meter
      <4> SUFFICES ASSUME NEW k \in j + 1 .. Len(text), text[k].kind = "meter"
                   PROVE  text[k].meter # text[j].meter
        OBVIOUS
      <4>1. k # n + 1
        BY <1>1, <1>3
      <4>2. k \in 1 .. n /\ k \in j + 1 .. n
        BY <1>1, <3>1, <4>1
      <4> QED BY <1>2, <3>1, <4>2 DEF n
    <3> QED BY <3>1, <3>2
  <2> QED BY <2>1, <2>2
<1>6. LastShown(text) = {text[i] : i \in shown}
  BY DEF LastShown
<1> HIDE DEF shown
<1>7. \A j \in drawn : j \in 1 .. n
  BY <1>1
<1> HIDE DEF drawn
<1>8. {text[i] : i \in shown} = Meterings \cap {fs[i] : i \in drawn}
  BY <1>2, <1>4, <1>5, <1>7
<1> QED BY <1>6, <1>8 DEF drawn

LEMMA NextScreen == ScreenInv /\ [ScreenNext]_screenVars => ScreenInv'
<1> SUFFICES ASSUME ScreenInv, [ScreenNext]_screenVars
             PROVE  ScreenInv'
  OBVIOUS
<1>1. CASE StartDriver
  BY <1>1 DEF StartDriver, ScreenInv, IsStartOf
<1>2. CASE Draws
  <2>1. \A m \in Meters, u \in {1, 2} : Shows(m, u) \in Drawn /\ Refreshing(m) \in Drawn
    BY DEF Drawn, Meterings
  <2>2. Trust \in Drawn /\ SignIn \in Drawn /\ Unmetered \in Drawn
    BY DEF Drawn
  <2>3. \E frame \in Drawn : Draw(frame) /\ UNCHANGED driver
    BY <1>2, <2>1, <2>2 DEF Draws, DrawTrust, DrawSignIn, DrawUnmetered, DrawRefreshing, DrawMeter
  <2> QED BY <2>3, DrawInv
<1>3. CASE TypeUsage \/ ScreenIsDrawn
  <2>1. driver # "done" /\ driver' # "done" /\ UNCHANGED <<agent, frames, copied, output, endSeen, reading>>
    BY <1>3 DEF TypeUsage, ScreenIsDrawn
  <2> QED BY <2>1 DEF ScreenInv, IsStartOf
<1>4. CASE StopAtTrust \/ ClaudeIsGone
  BY <1>4, EndsInv DEF StopAtTrust, ClaudeIsGone
<1>5. CASE NoScreen
  BY <1>5, EndsInv DEF NoScreen
<1>6. CASE RedrawIsOver
  BY <1>6, EndsInv DEF RedrawIsOver
<1>7. CASE DriverWrites
  BY <1>7, EndsInv DEF DriverWrites
<1>8. CASE ReceiveChunk
  BY <1>8, ReceivingInv
<1>9. CASE ReceiveExit
  <2>1. driver = "done" /\ driver' = "done" /\ UNCHANGED <<agent, frames, copied, output>>
    BY <1>9 DEF ReceiveExit, Ends
  <2> QED BY <2>1 DEF ScreenInv, IsStartOf
<1>10. CASE GiveUp
  <2>1. /\ (driver = "done" /\ driver' = "done") \/ (driver # "done" /\ driver' # "done")
        /\ UNCHANGED <<agent, frames, copied, output>>
    BY <1>10 DEF GiveUp, Ends
  <2> QED BY <2>1 DEF ScreenInv, IsStartOf
<1>11. CASE UNCHANGED screenVars
  BY <1>11 DEF ScreenInv, IsStartOf, screenVars
<1> QED BY <1>1, <1>2, <1>3, <1>4, <1>5, <1>6, <1>7, <1>8, <1>9, <1>10, <1>11
        DEF ScreenNext, Drives, Receives

\* The mark of the end comes last, and so all that was drawn has been received with it.
LEMMA AllReceived ==
    ASSUME NEW fs \in Seq(Drawn), NEW mark \in Marks, NEW text \in Seq(Drawn \cup Marks),
           \/ IsStartOf(text, fs)
           \/ IsStartOf(text, Append(fs, mark)), Has(text, "done")
    PROVE  text = Append(fs, mark)
<1>1. PICK i \in DOMAIN text : text[i].kind = "done"
  BY DEF Has
<1>2. i \in 1 .. Len(text) /\ Len(text) \in Nat /\ Len(fs) \in Nat
  OBVIOUS
<1>3. \A j \in 1 .. Len(fs) : fs[j].kind # "done"
  BY DrawnAre
<1>4. ~IsStartOf(text, fs)
  BY <1>1, <1>2, <1>3 DEF IsStartOf
<1>5. IsStartOf(text, Append(fs, mark))
  BY <1>4
<1> DEFINE whole == Append(fs, mark)
<1>6. /\ whole \in Seq(Drawn \cup Marks) /\ Len(whole) = Len(fs) + 1
      /\ \A j \in 1 .. Len(fs) : whole[j] = fs[j]
  <2>1. fs \in Seq(Drawn \cup Marks)
    BY SeqDef
  <2> QED BY <2>1
<1>7. IsStartOf(text, whole)
  BY <1>5
<1> HIDE DEF whole
<1>8. i = Len(fs) + 1
  BY <1>1, <1>2, <1>3, <1>6, <1>7 DEF IsStartOf
<1>9. Len(text) = Len(whole) /\ \A j \in 1 .. Len(text) : text[j] = whole[j]
  BY <1>2, <1>6, <1>7, <1>8 DEF IsStartOf
<1>10. text = whole
  BY <1>6, <1>9, SeqEqual
<1> QED BY <1>10 DEF whole

\* What a read tells when it has received the mark of the end.
ToldWhole ==
    reading = Unread /\ reading'.end = "returned" /\ Has(output', "done") =>
        reading'.meters = {Shows(m, u) : m \in Meters, u \in {1, 2}} \cap
            {frames[i] : i \in {j \in DOMAIN frames : \A k \in j + 1 .. Len(frames) :
                                   frames[k].kind = "meter" => frames[k].meter # frames[j].meter}}

LEMMA ParsedWhole ==
    ASSUME ScreenInv, ScreenInv', UNCHANGED <<frames, copied>>, Has(output', "done"),
           reading' = parseClaudeUsageScreen(output'), reading'.end = "returned"
    PROVE  ToldWhole
<1>1. frames \in Seq(Drawn) /\ copied \in Seq(Drawn \cup Marks) /\ output' \in Seq(Drawn \cup Marks)
  BY DEF ScreenInv
<1>2. IsStartOf(output', copied)
  BY DEF ScreenInv, IsStartOf
<1>3. PICK mark \in Marks : IsStartOf(output', frames) \/ IsStartOf(output', Append(frames, mark))
  <2>1. DoneMark \in Marks
    BY DEF Marks
  <2>2. CASE copied = <<>>
    BY <1>1, <1>2, <2>1, <2>2 DEF IsStartOf
  <2> QED BY <1>2, <2>1, <2>2 DEF ScreenInv
<1>4. output' = Append(frames, mark)
  BY <1>1, <1>3, AllReceived
<1>5. LastShown(output') = Meterings \cap
               {frames[i] : i \in {j \in DOMAIN frames : \A k \in j + 1 .. Len(frames) :
                                  frames[k].kind = "meter" => frames[k].meter # frames[j].meter}}
  BY <1>1, <1>4, Telling
<1>6. reading'.meters = LastShown(output')
  BY DEF parseClaudeUsageScreen, FailsWith
<1> QED BY <1>5, <1>6 DEF ToldWhole, Meterings

LEMMA ToldRightly == ScreenInv /\ [ScreenNext]_screenVars => ToldWhole
<1> SUFFICES ASSUME ScreenInv, [ScreenNext]_screenVars, reading = Unread,
                    reading'.end = "returned", Has(output', "done")
             PROVE  ToldWhole
  BY DEF ToldWhole
<1>1. ScreenInv'
  BY NextScreen
<1>2. reading' # reading
  BY DEF Unread
<1>3. ReceiveChunk \/ ReceiveExit
  BY <1>2 DEF ScreenNext, StartDriver, Draws, DrawTrust, DrawSignIn, DrawUnmetered, DrawRefreshing,
              DrawMeter, Draw, Drives, TypeUsage, StopAtTrust, ScreenIsDrawn, NoScreen, RedrawIsOver,
              ClaudeIsGone, DriverWrites, EndsDriver, Receives, GiveUp, Ends, FailsWith, screenVars
<1>4. CASE ReceiveChunk
  <2>1. /\ reading' = parseClaudeUsageScreen(output') /\ UNCHANGED <<frames, copied>>
    <3>1. PICK text : /\ output' = text
                      /\ IF reading # Unread \/ agent = "cursor" THEN UNCHANGED <<reading, driver>>
                         ELSE IF Has(text, "trust") THEN Ends(FailsWith("workspace not trusted"))
                         ELSE IF Has(text, "done") THEN Ends(parseClaudeUsageScreen(text))
                         ELSE UNCHANGED <<reading, driver>>
      BY <1>4 DEF ReceiveChunk
    <3>2. FailsWith("workspace not trusted").end # "returned"
      BY DEF FailsWith
    <3>3. Ends(parseClaudeUsageScreen(text))
      BY <1>2, <3>1, <3>2 DEF Ends
    <3> QED BY <1>4, <3>1, <3>3 DEF ReceiveChunk, Ends
  <2> QED BY <1>1, <2>1, ParsedWhole
<1>5. CASE ReceiveExit
  <2>1. UNCHANGED <<agent, frames, copied, output>> /\ driver = "done"
    BY <1>5 DEF ReceiveExit
  <2>2. CASE agent = "claude"
    <3>1. reading' = parseClaudeUsageScreen(output')
      BY <1>2, <1>5, <2>1, <2>2 DEF ReceiveExit, Ends, FailsWith
    <3> QED BY <1>1, <2>1, <3>1, ParsedWhole
  <2>3. CASE agent # "claude"
    <3>1. copied = frames /\ frames \in Seq(Drawn)
      BY <2>1, <2>3 DEF ScreenInv
    <3>2. \A i \in 1 .. Len(output) : output[i].kind # "done"
      BY <3>1, DrawnAre DEF ScreenInv, IsStartOf
    <3>3. output \in Seq(Drawn \cup Marks) /\ DOMAIN output = 1 .. Len(output)
      BY DEF ScreenInv
    <3> QED BY <2>1, <3>2, <3>3 DEF Has
  <2> QED BY <2>2, <2>3
<1> QED BY <1>3, <1>4, <1>5

\* CompleteScreensAreTold holds for any meters and however often the client draws: when the
\* driver has said that the screen is complete, all that was drawn has been received, and the
\* read tells each meter with the value that was drawn last (claude-usage-screen-client.ts:241).
THEOREM ScreensToldWhole == ScreenSpec => CompleteScreensAreTold
<1>1. ScreenInit /\ [][ScreenNext]_screenVars => []ScreenInv
  BY InitScreen, NextScreen, PTL
<1>2. ScreenInv /\ [ScreenNext]_screenVars => [ToldWhole]_screenVars
  BY ToldRightly
<1> QED BY <1>1, <1>2, PTL DEF ScreenSpec, CompleteScreensAreTold, ToldWhole
=============================================================================
