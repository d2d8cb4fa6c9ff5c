------------------------------ MODULE NoticeLog ------------------------------
(***************************************************************************)
(* What notifications promise, whatever they are about: each subject (a    *)
(* quota window, a connector) is remembered at a level; a higher level is  *)
(* remembered only after somebody was told of it, and nobody is told of a  *)
(* level that is remembered already.                                       *)
(***************************************************************************)
EXTENDS Naturals

CONSTANTS Subjects, Levels

VARIABLES
    known,      \* the level each subject is remembered at
    announced   \* the level that was last told of it, or settled at since

log == <<known, announced>>

Init ==
    /\ known = [s \in Subjects |-> 0]
    /\ announced = [s \in Subjects |-> 0]

Announce(s, l) ==
    /\ l > known[s]
    /\ announced' = [announced EXCEPT ![s] = l]
    /\ UNCHANGED known

Remember(s, l) ==
    /\ l <= known[s] \/ l <= announced[s]
    /\ known' = [known EXCEPT ![s] = l]
    /\ announced' = [announced EXCEPT ![s] = l]

\* All data is cleared: what is remembered goes, what was told was told.
Forget ==
    /\ known' = [s \in Subjects |-> 0]
    /\ UNCHANGED announced

Next ==
    \/ \E s \in Subjects, l \in Levels : Announce(s, l) \/ Remember(s, l)
    \/ Forget

Spec == Init /\ [][Next]_log
=============================================================================
