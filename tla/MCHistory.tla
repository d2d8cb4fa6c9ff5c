------------------------------ MODULE MCHistory ------------------------------
(****************************************************************************)
(* The history that is stored, the connector that reconciles what two       *)
(* sources tell of it, and the transcripts that are read for it: they share *)
(* no state, and so they are explored one at a time.                        *)
(*                                                                          *)
(* Days of two instants and a term of one day: a cutoff falls on midnight   *)
(* or on noon.  Three days of Codex, the last of which never closes, and    *)
(* account totals that are smaller than, equal to and larger than the rows  *)
(* of a day.  Two transcripts of each agent: of Claude, one that repeats a  *)
(* message of the other; of Codex, a session and its fork; of Grok, one     *)
(* whose model is configured and one whose is not; of dsh, one of a version *)
(* that is not known.                                                       *)
(****************************************************************************)
EXTENDS Retention, CodexDays, Transcripts

VARIABLE part

allVars == <<part, vars, daysVars, transcriptVars>>

AllSources    == {"transcript", "database", "telemetry"}
TelemetryOnly == {"telemetry"}

Ordered == <<"first", "second">>

Line(kind, id, of, at) == [kind |-> kind, id |-> id, of |-> of, at |-> at]
Script(provider, first, second, start) ==
    [provider |-> provider,
     lines |-> [f \in Files |-> IF f = "first" THEN first ELSE second],
     start |-> [f \in Files |-> IF f = "first" THEN start[1] ELSE start[2]]]

AgentScripts ==
    { Script("claude-code",
             <<Line("usage", "m1", "opus", 0), Line("usage", "m2", "opus", 1)>>,
             <<Line("usage", "m1", "opus", 0), Line("usage", "m3", "opus", 1)>>, <<1, 1>>),
      Script("codex",
             <<Line("session", "s1", "none", 0), Line("model", "none", "gpt", 0),
               Line("usage", "u1", "gpt", 0), Line("usage", "u1", "gpt", 1)>>,
             <<Line("fork", "s2", "none", 1), Line("model", "none", "gpt", 1),
               Line("usage", "u1", "gpt", 1), Line("usage", "u2", "gpt", 2)>>, <<3, 3>>),
      Script("grok",
             <<Line("model", "none", "mine", 0), Line("usage", "p1", "grok-4", 0)>>,
             <<Line("usage", "p2", "grok-4", 1), Line("usage", "p3", "other", 1)>>, <<2, 1>>),
      Script("dsh",
             <<Line("usage", "a", "none", 0), Line("model", "none", "r1", 0),
               Line("usage", "b", "none", 1)>>,
             <<Line("version", "none", "none", 0), Line("usage", "c", "none", 1)>>, <<2, 0>>) }

Configured == [model \in {"mine"} |-> "endpoint"]
GrokFamilies ==
    [model \in {"mine", "grok-4", "other", "none"} |-> IF model = "mine" THEN "grok-4" ELSE model]

MCInit ==
    /\ part \in {"retention", "days", "transcripts"}
    /\ Init /\ DaysInit /\ TranscriptsInit
    /\ part # "transcripts" => script.provider = "dsh"

MCNext ==
    /\ UNCHANGED part
    /\ \/ part = "retention" /\ Next /\ UNCHANGED <<daysVars, transcriptVars>>
       \/ part = "days" /\ DaysNext /\ UNCHANGED <<vars, transcriptVars>>
       \/ part = "transcripts" /\ TranscriptsNext /\ UNCHANGED <<vars, daysVars>>

MCSpec == MCInit /\ [][MCNext]_allVars
=============================================================================
