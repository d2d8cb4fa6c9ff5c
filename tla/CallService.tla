----------------------------- MODULE CallService -----------------------------
(***************************************************************************)
(* What the background processing promises to those who call it, whatever  *)
(* its queues: one run at a time; a run that ends answers everyone it      *)
(* serves and nobody else, however long ago they called; nothing runs that *)
(* nobody waits for; a call never overtakes one that is queued.  Rebuilds  *)
(* are the exception: the ones that wait while a person's run begins can   *)
(* be lost, and so is then every rebuild that cannot have a run at once.   *)
(***************************************************************************)

CONSTANT Callers

VARIABLES
    running,    \* the kind of the run in flight, or "idle"
    waiting,    \* the kind of the call each caller waits for, or "nothing"
    lost        \* the callers that no run will answer

service == <<running, waiting, lost>>

\* A run of this kind does what a call of that kind asks for.
Serves(run, kind) ==
    \/ kind = "auto" /\ run # "idle"
    \/ kind = "user" /\ run \in {"user", "hard"}
    \/ kind = "hard" /\ run = "hard"

Init ==
    /\ running = "idle"
    /\ waiting = [c \in Callers |-> "nothing"]
    /\ lost = {}

Ask(c, kind) ==
    /\ waiting[c] = "nothing"
    /\ running = "idle" => \A d \in Callers : waiting[d] # "nothing" => d \in lost
    /\ waiting' = [waiting EXCEPT ![c] = kind]
    /\ running' = IF running = "idle" THEN kind ELSE running
    /\ lost' = IF lost # {} /\ kind = "hard" /\ ~Serves(running', kind)
               THEN lost \cup {c} ELSE lost

\* The next run, of those who wait.
Follow(kind) ==
    /\ running = "idle"
    /\ \E c \in Callers : waiting[c] = kind /\ c \notin lost
    /\ running' = kind
    /\ UNCHANGED <<waiting, lost>>

Lose ==
    /\ running = "user"
    /\ lost = {}
    /\ lost' = {c \in Callers : waiting[c] = "hard"}
    /\ lost' # {}
    /\ UNCHANGED <<running, waiting>>

End ==
    /\ running # "idle"
    /\ running' = "idle"
    /\ waiting' = [c \in Callers |->
                     IF Serves(running, waiting[c]) /\ c \notin lost THEN "nothing" ELSE waiting[c]]
    /\ UNCHANGED lost

Next ==
    \/ \E c \in Callers, kind \in {"auto", "user", "hard"} : Ask(c, kind)
    \/ \E kind \in {"user", "hard"} : Follow(kind)
    \/ Lose
    \/ End

Spec == Init /\ [][Next]_service
=============================================================================
