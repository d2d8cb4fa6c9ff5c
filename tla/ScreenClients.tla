---------------------------- MODULE ScreenClients ----------------------------
(***************************************************************************)
(* How the product reads the usage screens of Claude Code and of Cursor: a *)
(* driver types into the client on a terminal and copies what the client   *)
(* draws, and the read parses it. A frame is drawn again while values are  *)
(* fetched, the client may ask for trust, leave out the usage, or exit,    *)
(* and the read gives up after a while.                                    *)
(***************************************************************************)
EXTENDS Integers, Sequences, FiniteSets

CONSTANTS
    ScreenAgents,   \* the clients that are read: "claude", "cursor"
    Meters,         \* the meters a screen may show
    MaxFrames       \* bound: how often the client draws

VARIABLES
    agent,          \* the client that is read
    driver,         \* where the driver is: "none", "typing", "reading", "redrawing", "done"
                    \* or "killed"
    frames,         \* what has been drawn on the terminal
    copied,         \* what the driver has written of it, marks included
    output,         \* what the read has received of that
    endSeen,        \* the exit of the driver has been delivered
    reading         \* what the read ends with, or Unread

screenVars == <<agent, driver, frames, copied, output, endSeen, reading>>

Unread == [end |-> "open", meters |-> {}]
FailsWith(code) == [end |-> code, meters |-> {}]

\* What is drawn: the prompt to trust the folder, a word that is no meter, or a meter with
\* its value or still refreshing.
Trust == [kind |-> "trust", meter |-> "", used |-> 0]
SignIn == [kind |-> "sign in", meter |-> "", used |-> 0]
Unmetered == [kind |-> "unmetered", meter |-> "", used |-> 0]
Shows(meter, used) == [kind |-> "meter", meter |-> meter, used |-> used]
Refreshing(meter) == [kind |-> "refreshing", meter |-> meter, used |-> 0]
\* The marks of the driver.
DoneMark == [kind |-> "done", meter |-> "", used |-> 0]
TimeoutMark == [kind |-> "timeout", meter |-> "", used |-> 0]

Has(text, kind) == \E i \in DOMAIN text : text[i].kind = kind

-----------------------------------------------------------------------------
(* The parsers.                                                            *)

\* Faulty variant: the first value of a meter is kept.
FirstShown(text) ==
    {text[i] : i \in {j \in DOMAIN text : /\ text[j].kind = "meter"
                                          /\ \A k \in 1 .. j - 1 : text[k].kind = "meter"
                                               => text[k].meter # text[j].meter}}

\* A meter that is drawn again replaces what was drawn before.
LastShown(text) ==
    {text[i] : i \in {j \in DOMAIN text : /\ text[j].kind = "meter"
                                          /\ \A k \in j + 1 .. Len(text) : text[k].kind = "meter"
                                               => text[k].meter # text[j].meter}}

parseClaudeUsageScreen(text) ==
    IF LastShown(text) = {} THEN FailsWith("quota unavailable")
    ELSE [end |-> "returned", meters |-> LastShown(text)]

\* Cursor takes the first line of each meter.
parseCursorUsageScreen(text) ==
    IF Has(text, "sign in") THEN FailsWith("not logged in")
    ELSE IF Has(text, "unmetered") THEN [end |-> "returned", meters |-> {}]
    ELSE IF ~Has(text, "meter") THEN FailsWith("unparsed")
    ELSE [end |-> "returned",
          meters |-> {text[i] : i \in {j \in DOMAIN text : /\ text[j].kind = "meter"
                                          /\ \A k \in 1 .. j - 1 : text[k].kind = "meter"
                                               => text[k].meter # text[j].meter}}]

-----------------------------------------------------------------------------
ScreenInit ==
    /\ agent \in ScreenAgents
    /\ driver = "none" /\ frames = <<>> /\ copied = <<>> /\ output = <<>>
    /\ endSeen = FALSE /\ reading = Unread

\* Spawning fails at once, or the driver runs.
StartDriver ==
    /\ driver = "none" /\ reading = Unread
    /\ \/ driver' = "typing" /\ UNCHANGED reading
       \/ reading' = FailsWith("unavailable") /\ UNCHANGED driver
    /\ UNCHANGED <<agent, frames, copied, output, endSeen>>

\* The client draws. What it draws reaches the read as it is drawn when the driver copies
\* it at once, as expect does; the driver of Cursor writes all of it at its end.
Draw(frame) ==
    /\ driver \in {"typing", "reading", "redrawing"}
    /\ Len(frames) < MaxFrames
    /\ frames' = Append(frames, frame)
    /\ copied' = IF agent = "claude" THEN Append(copied, frame) ELSE copied
    /\ UNCHANGED <<agent, output, endSeen, reading>>

DrawTrust == agent = "claude" /\ Draw(Trust) /\ UNCHANGED driver
DrawSignIn == agent = "cursor" /\ Draw(SignIn) /\ UNCHANGED driver
DrawUnmetered == agent = "cursor" /\ Draw(Unmetered) /\ UNCHANGED driver
DrawRefreshing == \E meter \in Meters : agent = "claude" /\ Draw(Refreshing(meter)) /\ UNCHANGED driver
DrawMeter ==
    /\ driver \in {"reading", "redrawing"}
    /\ \E meter \in Meters, used \in {1, 2} : Draw(Shows(meter, used))
    /\ UNCHANGED driver

\* The driver ends with what it still writes.
EndsDriver(more) ==
    /\ driver' = "done"
    /\ copied' = copied \o more
    /\ UNCHANGED <<agent, frames, output, endSeen, reading>>

\* Claude Code: expect types /usage, waits for the screen and for its redraw, and leaves;
\* it exits when it is asked for trust, when no screen comes or when the client is gone.
TypeUsage ==
    /\ driver = "typing"
    /\ ~Has(frames, "trust")
    /\ driver' = "reading"
    /\ UNCHANGED <<agent, frames, copied, output, endSeen, reading>>

StopAtTrust == agent = "claude" /\ driver \in {"typing", "reading"} /\ Has(frames, "trust")
               /\ EndsDriver(<<>>)

ScreenIsDrawn ==
    /\ agent = "claude" /\ driver = "reading" /\ (Has(frames, "meter") \/ Has(frames, "refreshing"))
    /\ driver' = "redrawing"
    /\ UNCHANGED <<agent, frames, copied, output, endSeen, reading>>

NoScreen == agent = "claude" /\ driver = "reading" /\ EndsDriver(<<TimeoutMark>>)

RedrawIsOver == agent = "claude" /\ driver = "redrawing" /\ EndsDriver(<<DoneMark>>)

ClaudeIsGone == agent = "claude" /\ driver \in {"typing", "reading", "redrawing"} /\ EndsDriver(<<>>)

\* Cursor: the driver collects for a fixed time, kills the client, and writes everything.
DriverWrites == agent = "cursor" /\ driver \in {"typing", "reading"} /\ EndsDriver(frames)

-----------------------------------------------------------------------------
(* The read.                                                               *)

\* The read settles once, and the driver is killed unless it is about to exit.
Ends(result) ==
    /\ reading' = result
    /\ driver' = IF driver \in {"typing", "reading", "redrawing"} THEN "killed" ELSE driver

\* A chunk: Claude Code is parsed when its mark comes, or the prompt for trust.
ReceiveChunk ==
    /\ Len(output) < Len(copied)
    /\ \E last \in Len(output) + 1 .. Len(copied) :
          LET text == SubSeq(copied, 1, last)
          IN  /\ output' = text
              /\ IF reading # Unread \/ agent = "cursor" THEN UNCHANGED <<reading, driver>>
                 ELSE IF Has(text, "trust") THEN Ends(FailsWith("workspace not trusted"))
                 ELSE IF Has(text, "done") THEN Ends(parseClaudeUsageScreen(text))
                 ELSE UNCHANGED <<reading, driver>>
    /\ UNCHANGED <<agent, frames, copied, endSeen>>

\* The exit may be delivered before the last chunk.
ReceiveExit ==
    /\ driver = "done" /\ ~endSeen
    /\ endSeen' = TRUE
    /\ IF reading # Unread THEN UNCHANGED <<reading, driver>>
       ELSE IF output = <<>> THEN Ends(FailsWith("unavailable"))
       ELSE Ends(IF agent = "claude" THEN parseClaudeUsageScreen(output)
                 ELSE parseCursorUsageScreen(output))
    /\ UNCHANGED <<agent, frames, copied, output>>

GiveUp ==
    /\ driver # "none" /\ reading = Unread
    /\ Ends(FailsWith("timeout"))
    /\ UNCHANGED <<agent, frames, copied, output, endSeen>>

Draws == DrawTrust \/ DrawSignIn \/ DrawUnmetered \/ DrawRefreshing \/ DrawMeter
Drives == TypeUsage \/ StopAtTrust \/ ScreenIsDrawn \/ NoScreen \/ RedrawIsOver \/ ClaudeIsGone
          \/ DriverWrites
Receives == ReceiveChunk \/ ReceiveExit
ScreenNext == StartDriver \/ Draws \/ Drives \/ Receives \/ GiveUp

\* Timers and events come; neither the client nor the driver need do anything.
ScreenFairness == WF_screenVars(StartDriver) /\ WF_screenVars(Receives) /\ WF_screenVars(GiveUp)

ScreenSpec == ScreenInit /\ [][ScreenNext]_screenVars /\ ScreenFairness

-----------------------------------------------------------------------------
(* Properties.                                                             *)

\* Every read ends, and no driver outlives it (claude-usage-screen-client.ts:91).
ScreenReadsEnd == <>[](reading # Unread /\ driver \in {"none", "done", "killed"})

\* When the driver says that the screen is complete, the read tells every meter it showed,
\* with the value that was drawn last: what is drawn while it is refreshed is not taken for
\* the usage (claude-usage-screen-client.ts:241).
CompleteScreensAreTold ==
    [][reading = Unread /\ reading'.end = "returned" /\ Has(output', "done") =>
          reading'.meters = {Shows(m, u) : m \in Meters, u \in {1, 2}} \cap
              {frames[i] : i \in {j \in DOMAIN frames : \A k \in j + 1 .. Len(frames) :
                                     frames[k].kind = "meter" => frames[k].meter # frames[j].meter}}
      ]_screenVars
=============================================================================
