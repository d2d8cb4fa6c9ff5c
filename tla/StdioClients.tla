---------------------------- MODULE StdioClients ----------------------------
(***************************************************************************)
(* How the product asks the app server of Codex and the agent of Grok      *)
(* Build: it starts the client, writes one request after the other to its  *)
(* standard input, reads lines from its standard output, and gives up on a *)
(* request after a while. The client may answer, refuse, talk of other     *)
(* things, garble a line, say nothing or exit at any time. Where Grok      *)
(* fails, the last entry of its log is taken, after its dashboard has been *)
(* started to write a new one if that entry is old.                        *)
(***************************************************************************)
EXTENDS Integers, Sequences

CONSTANTS
    PeerClients,    \* the clients that are asked: "codex", "grok"
    MaxNoise        \* bound: lines that answer nothing

VARIABLES
    peer,           \* the client that is read
    child,          \* the process: "none", "running", "exited" or "ended" by close
    exitSeen,       \* the exit or the failure to start has been delivered
    stdout,         \* the lines written and not yet read
    unanswered,     \* the requests the client has read and not answered
    pending,        \* JsonLinePeer.#pending: the requests that are waited for
    nextId,         \* JsonLinePeer.#nextId
    waitsFor,       \* what the read waits for
    outcome,        \* what it ends with
    log,            \* the last billing entry in the log of Grok
    cached,         \* the entry that was read first
    noise

peerVars == <<peer, child, exitSeen, stdout, unanswered, pending, nextId, waitsFor, outcome, log,
              cached, noise>>

NoEntry == "no entry"
Entries == {NoEntry, "old", "fresh"}
Replies == {"ok", "other schema", "unsupported", "refused"}
Line(id, reply) == [id |-> id, reply |-> reply]

Open == [end |-> "open", value |-> NoEntry]
Fails(code) == [end |-> code, value |-> NoEntry]
Returns(value) == [end |-> "returned", value |-> value]

\* The requests in their order.
Requests == [codex |-> <<"initialize", "limits", "usage">>, grok |-> <<"initialize", "billing">>]
ExpectsAnAnswer == waitsFor \in {"initialize", "limits", "usage", "billing"}

-----------------------------------------------------------------------------
(* The promise of a request settles, and the read goes on at once.         *)

\* JsonLinePeer.request: the write reaches a client that runs.
Request(waiting) ==
    /\ waitsFor' = waiting
    /\ pending' = {nextId}
    /\ nextId' = nextId + 1
    /\ unanswered' = IF child = "running" THEN unanswered \cup {nextId} ELSE unanswered
    /\ UNCHANGED <<child, outcome>>

\* Faulty variant: the process is left when the read ends.
EndLeaving(result) ==
    /\ outcome' = result
    /\ waitsFor' = "nothing"
    /\ pending' = {}
    /\ UNCHANGED <<child, nextId, unanswered>>

\* The finally block: JsonLinePeer.close ends the process.
End(result) ==
    /\ outcome' = result
    /\ waitsFor' = "nothing"
    /\ pending' = {}
    /\ child' = IF child = "running" THEN "ended" ELSE child
    /\ UNCHANGED <<nextId, unanswered>>

\* Codex throws; Grok looks into its log first and keeps the error for later.
Throw(code) ==
    IF peer = "codex" THEN End(Fails(code))
    ELSE /\ waitsFor' = "log"
         /\ outcome' = Fails(code)
         /\ pending' = {}
         /\ UNCHANGED <<child, nextId, unanswered>>

\* The error that a reply other than the expected one stands for.
CodeOf(reply) ==
    CASE reply = "other schema" -> IF waitsFor = "initialize" THEN "version unsupported"
                                   ELSE "schema changed"
      [] reply = "unsupported" -> "method unsupported"
      [] OTHER -> "unavailable"

Continue(reply) ==
    LET place == CHOOSE i \in DOMAIN Requests[peer] : Requests[peer][i] = waitsFor
        \* Codex does not look at the answer to initialize, and can do without usage.
        accepted == \/ reply = "ok"
                    \/ peer = "codex" /\ waitsFor = "initialize" /\ reply = "other schema"
                    \/ waitsFor = "usage" /\ reply = "unsupported"
    IN  IF ~accepted THEN Throw(CodeOf(reply))
        ELSE IF place < Len(Requests[peer]) THEN Request(Requests[peer][place + 1])
        ELSE End(Returns(IF reply = "ok" THEN "fresh" ELSE "without usage"))

\* JsonLinePeer.#fail rejects what is pending.
FailAll(code) ==
    IF pending = {} THEN UNCHANGED <<child, pending, nextId, unanswered, waitsFor, outcome>>
    ELSE Throw(code)

-----------------------------------------------------------------------------
PeerInit ==
    /\ peer \in PeerClients
    /\ child = "none" /\ exitSeen = FALSE /\ stdout = <<>> /\ unanswered = {}
    /\ pending = {} /\ nextId = 1 /\ waitsFor = "start" /\ outcome = Open
    /\ log \in (IF peer = "grok" THEN Entries ELSE {NoEntry})
    /\ cached = NoEntry /\ noise = 0

\* A client that cannot be started throws, or is a process that fails at once.
Start ==
    /\ waitsFor = "start"
    /\ \/ /\ child' = "running"
          /\ waitsFor' = "initialize" /\ pending' = {nextId} /\ nextId' = nextId + 1
          /\ unanswered' = {nextId} /\ UNCHANGED outcome
       \/ /\ child' = "exited"
          /\ waitsFor' = "initialize" /\ pending' = {nextId} /\ nextId' = nextId + 1
          /\ UNCHANGED <<unanswered, outcome>>
       \/ Throw("unavailable")
    /\ UNCHANGED <<peer, exitSeen, stdout, log, cached, noise>>

\* The client.
ClientAnswers ==
    /\ child = "running"
    /\ \E id \in unanswered, reply \in Replies :
          /\ stdout' = Append(stdout, Line(id, reply))
          /\ unanswered' = unanswered \ {id}
    /\ UNCHANGED <<peer, child, exitSeen, pending, nextId, waitsFor, outcome, log, cached, noise>>

ClientTalks ==
    /\ child = "running" /\ noise < MaxNoise
    /\ \E reply \in {"notification", "garbled"} : stdout' = Append(stdout, Line(0, reply))
    /\ noise' = noise + 1
    /\ UNCHANGED <<peer, child, exitSeen, unanswered, pending, nextId, waitsFor, outcome, log,
                   cached>>

ClientExits ==
    /\ child = "running"
    /\ child' = "exited"
    /\ UNCHANGED <<peer, exitSeen, stdout, unanswered, pending, nextId, waitsFor, outcome, log,
                   cached, noise>>

\* The events. Lines that nobody waits for are dropped.
ReadLine ==
    /\ stdout # <<>>
    /\ stdout' = Tail(stdout)
    /\ LET line == Head(stdout)
       IN  IF line.reply = "garbled" THEN FailAll("protocol error")
           ELSE IF line.id \in pending THEN Continue(line.reply)
           ELSE UNCHANGED <<child, pending, nextId, unanswered, waitsFor, outcome>>
    /\ UNCHANGED <<peer, exitSeen, log, cached, noise>>

\* The event may come before the last lines have been read.
SeeExit ==
    /\ child = "exited" /\ ~exitSeen
    /\ exitSeen' = TRUE
    /\ FailAll("unavailable")
    /\ UNCHANGED <<peer, stdout, log, cached, noise>>

TimeOut ==
    /\ ExpectsAnAnswer /\ pending # {}
    /\ Throw("timeout")
    /\ UNCHANGED <<peer, exitSeen, stdout, log, cached, noise>>

\* Grok alone: #readFreshLogFallback. An entry in time is returned, an old one is kept.
ReadLog ==
    /\ waitsFor = "log"
    /\ \E readable \in BOOLEAN :
          LET found == IF readable THEN log ELSE NoEntry
          IN  IF found = "fresh"
              THEN End(Returns(found)) /\ UNCHANGED cached
              ELSE /\ cached' = found
                   /\ waitsFor' = "dashboard"
                   /\ UNCHANGED <<child, pending, nextId, unanswered, outcome>>
    /\ UNCHANGED <<peer, exitSeen, stdout, log, noise>>

\* The dashboard writes an entry, or writes none in its time; starting it may fail.
RunDashboard ==
    /\ waitsFor = "dashboard"
    /\ \/ /\ log' \in {log, "fresh"}
          /\ waitsFor' = "log again"
          /\ UNCHANGED <<child, pending, nextId, unanswered, outcome>>
       \/ /\ End(IF cached # NoEntry THEN Returns(cached) ELSE outcome)
          /\ UNCHANGED log
    /\ UNCHANGED <<peer, exitSeen, stdout, cached, noise>>

\* What was kept is returned when the log cannot be read.
PreferredOf(found) == IF found # NoEntry THEN found ELSE cached

ReadLogAgain ==
    /\ waitsFor = "log again"
    /\ \E found \in {log, NoEntry} :
          End(IF PreferredOf(found) # NoEntry THEN Returns(PreferredOf(found)) ELSE outcome)
    /\ UNCHANGED <<peer, exitSeen, stdout, log, cached, noise>>

Client == ClientAnswers \/ ClientTalks \/ ClientExits
Events == ReadLine \/ SeeExit
Fallback == ReadLog \/ RunDashboard \/ ReadLogAgain
PeerNext == Start \/ Client \/ Events \/ TimeOut \/ Fallback

\* Timers fire, events are delivered and the dashboard has a timer. Nothing is asked of
\* the client.
PeerFairness ==
    WF_peerVars(Start) /\ WF_peerVars(Events) /\ WF_peerVars(TimeOut) /\ WF_peerVars(Fallback)

-----------------------------------------------------------------------------
(* Properties.                                                             *)

\* Every read ends, and no process of a client outlives it, whether the client answers,
\* exits or says nothing (stdio-codex-account-client.ts:122).
PeerReadsEnd == <>[](waitsFor = "nothing" /\ child # "running")
=============================================================================
