------------------------------- MODULE Daemon -------------------------------
(***************************************************************************)
(* Commands, the daemons they start, the file that says which daemon is    *)
(* running, the scheduler of a daemon and the settings of monitoring.      *)
(*                                                                         *)
(* A daemon is a process of its own: nothing but the state file keeps a    *)
(* command from starting another one.  It may be told to stop, crash, or   *)
(* be too busy to say in time that it is there.  A daemon that is not      *)
(* caught by a handler of its own ends, and its state file stays.          *)
(*                                                                         *)
(* Bounds: Daemons are the processes there may be in all, Commands are     *)
(* given once each, and MaxFaults says how often something fails: a crash, *)
(* a late answer, a refresh that rejects, a launch agent not written.      *)
(***************************************************************************)
EXTENDS Naturals, FiniteSets

CONSTANTS
    Daemons,
    Commands,
    KindOf,     \* what each command does: "open", "enable", "disable" or "interval"
    CollectionIntervals,
    MaxFaults

ASSUME DaemonAssumption ==
    /\ KindOf \in [Commands -> {"open", "enable", "disable", "interval"}]
    /\ MaxFaults \in Nat
    /\ "nobody" \notin Daemons

VARIABLES
    process,    \* of each daemon, how far it is
    scheduler,  \* of each daemon: "stopped", "armed" or "ticking"
    stateFile,  \* daemon.json: pid, origin and token are those of one daemon
    command,    \* of each command, how far it is, the daemon it goes to, what that has read
    settings,   \* the monitoring settings that are stored
    launchAgent,\* whether the launch agent is installed
    story       \* faults, whether daemons or changes overlapped, whether a change was cut off

daemonVars == <<process, scheduler, stateFile, command, settings, launchAgent, story>>

Nobody == "nobody"

Those(stages) == {d \in Daemons : process[d] \in stages}
Listening == Those({"listening", "serving"})
Running == Daemons \ Those({"unused", "gone"})
ChangingAt(d) == {c \in Commands : command[c].stage \in {"changing", "saving"} /\ command[c].at = d}
Changing == UNION {ChangingAt(d) : d \in Daemons}

At(stage, d) == [stage |-> stage, at |-> d, read |-> settings]

DaemonInit ==
    /\ process = [d \in Daemons |-> "unused"]
    /\ scheduler = [d \in Daemons |-> "stopped"]
    /\ stateFile = Nobody
    /\ launchAgent = FALSE
    /\ settings = [startAtLogin |-> FALSE, interval |-> 5, collects |-> TRUE]
    /\ command = [c \in Commands |-> At("given", Nobody)]
    /\ story = [faults |-> 0, metAnother |-> FALSE, overlapped |-> FALSE, cutOff |-> FALSE]

Fault == story.faults < MaxFaults /\ story' = [story EXCEPT !.faults = @ + 1]
-----------------------------------------------------------------------------
(* A daemon: runDaemon.                                                     *)

\* A process is started, by a command or by the launch agent.
Spawned(d) ==
    /\ process[d] = "unused"
    /\ process' = [process EXCEPT ![d] = "starting"]
    /\ story' = [story EXCEPT !.metAnother = @ \/ Running # {}]

StartAtLogin(d) ==
    /\ launchAgent
    /\ Running = {}
    /\ Spawned(d)
    /\ UNCHANGED <<scheduler, stateFile, command, settings, launchAgent>>

\* The repository is opened and the server listens, on a port of its own.
Listen(d) ==
    /\ process[d] = "starting"
    /\ process' = [process EXCEPT ![d] = "listening"]
    /\ UNCHANGED <<scheduler, stateFile, command, settings, launchAgent, story>>

\* Faulty variant: a state file that is there is left alone.
StateAfterStartIfMissing(d) == IF stateFile = Nobody THEN d ELSE stateFile

\* writeDaemonState renames a file of its own over the last one.
StateAfterStart(d) == d

\* The handlers of signals are set and the scheduler is started in the same turn.
Serve(d) ==
    /\ process[d] = "listening"
    /\ process' = [process EXCEPT ![d] = "serving"]
    /\ stateFile' = StateAfterStart(d)
    /\ scheduler' = [scheduler EXCEPT ![d] = "armed"]
    /\ UNCHANGED <<command, settings, launchAgent, story>>

\* The process ends as it is: what it was answering fails.
EndsAtOnce(d, faults) ==
    /\ process' = [process EXCEPT ![d] = "gone"]
    /\ scheduler' = [scheduler EXCEPT ![d] = "stopped"]
    /\ command' = [c \in Commands |-> IF c \in ChangingAt(d) THEN At("failed", Nobody) ELSE command[c]]
    /\ story' = [story EXCEPT !.faults = faults, !.cutOff = @ \/ ChangingAt(d) # {}]
    /\ UNCHANGED <<stateFile, settings, launchAgent>>

\* A crash, or a signal before the handlers are set.
Crash(d) ==
    /\ d \in Running
    /\ story.faults < MaxFaults
    /\ EndsAtOnce(d, story.faults + 1)

\* A signal: the scheduler stops, what it has begun goes on, and the server takes no
\* more connections.
Stop(d) ==
    /\ process[d] = "serving"
    /\ process' = [process EXCEPT ![d] = "closing"]
    /\ scheduler' = [scheduler EXCEPT ![d] = IF @ = "ticking" THEN @ ELSE "stopped"]
    /\ UNCHANGED <<stateFile, command, settings, launchAgent, story>>

\* What was asked before has been answered, and the repository is closed.
Close(d) ==
    /\ process[d] = "closing" /\ ChangingAt(d) = {}
    /\ process' = [process EXCEPT ![d] = "closed"]
    /\ UNCHANGED <<scheduler, stateFile, command, settings, launchAgent, story>>

\* The state file is removed, whichever daemon it names.
Leave(d) ==
    /\ process[d] = "closed"
    /\ process' = [process EXCEPT ![d] = "gone"]
    /\ scheduler' = [scheduler EXCEPT ![d] = "stopped"]
    /\ stateFile' = Nobody
    /\ UNCHANGED <<command, settings, launchAgent, story>>
-----------------------------------------------------------------------------
(* The scheduler.                                                           *)

\* In the end of a tick, unless the scheduler was stopped.
AfterTick(d) == IF process[d] = "serving" THEN "armed" ELSE "stopped"

\* The timer fires.
Tick(d) ==
    /\ scheduler[d] = "armed"
    /\ scheduler' = [scheduler EXCEPT ![d] = IF settings.collects THEN "ticking" ELSE AfterTick(d)]
    /\ UNCHANGED <<process, stateFile, command, settings, launchAgent, story>>

\* The refresh is over.
TickEnds(d) ==
    /\ scheduler[d] = "ticking" /\ process[d] # "closed"
    /\ scheduler' = [scheduler EXCEPT ![d] = AfterTick(d)]
    /\ UNCHANGED <<process, stateFile, command, settings, launchAgent, story>>

\* A refresh that rejects, as it does when the repository is closed, rejects a promise
\* that nobody handles.
TickFails(d) ==
    /\ scheduler[d] = "ticking"
    /\ \/ process[d] = "closed" /\ EndsAtOnce(d, story.faults)
       \/ process[d] # "closed" /\ story.faults < MaxFaults /\ EndsAtOnce(d, story.faults + 1)
-----------------------------------------------------------------------------
(* A command.                                                               *)

Goes(c, stage, d) == command' = [command EXCEPT ![c] = At(stage, d)]

\* readDaemonState, the first time or while the command waits for a daemon.
ReadState(c) ==
    /\ command[c].stage \in {"given", "waiting"}
    /\ stateFile # Nobody
    /\ Goes(c, IF command[c].stage = "given" THEN "asking" ELSE "asking again", stateFile)
    /\ UNCHANGED <<process, scheduler, stateFile, settings, launchAgent, story>>

\* No daemon was found: requireDaemonState fails, and ensureDaemon starts one.
NotFound(c) ==
    IF KindOf[c] = "open"
    THEN /\ \E d \in Daemons : Spawned(d)
         /\ Goes(c, "waiting", Nobody)
    ELSE /\ Goes(c, "failed", Nobody)
         /\ UNCHANGED <<process, story>>

FindNoState(c) ==
    /\ command[c].stage = "given" /\ stateFile = Nobody
    /\ NotFound(c)
    /\ UNCHANGED <<scheduler, stateFile, settings, launchAgent>>

\* isHealthy: a daemon listens at the origin and knows the token.
IsHealthy(d) == d \in Listening

FindHealthy(c) ==
    /\ command[c].stage \in {"asking", "asking again"} /\ IsHealthy(command[c].at)
    /\ Goes(c, "ready", command[c].at)
    /\ UNCHANGED <<process, scheduler, stateFile, settings, launchAgent, story>>

\* The state is stale: nothing listens at the origin, or what does refuses the token.
FindStale(c) ==
    /\ command[c].stage \in {"asking", "asking again"} /\ ~IsHealthy(command[c].at)
    /\ IF command[c].stage = "asking"
       THEN NotFound(c)
       ELSE Goes(c, "waiting", Nobody) /\ UNCHANGED <<process, story>>
    /\ UNCHANGED <<scheduler, stateFile, settings, launchAgent>>

\* A daemon whose event loop is kept busy does not answer in time.
FindBusy(c) ==
    /\ command[c].stage = "asking again" /\ IsHealthy(command[c].at)
    /\ Fault
    /\ Goes(c, "waiting", Nobody)
    /\ UNCHANGED <<process, scheduler, stateFile, settings, launchAgent>>

FindBusyAtFirst(c) ==
    /\ command[c].stage = "asking" /\ IsHealthy(command[c].at)
    /\ story.faults < MaxFaults
    /\ IF KindOf[c] = "open"
       THEN /\ Goes(c, "waiting", Nobody)
            /\ \E d \in Daemons : /\ process[d] = "unused"
                                  /\ process' = [process EXCEPT ![d] = "starting"]
            /\ story' = [story EXCEPT !.faults = @ + 1, !.metAnother = TRUE]
       ELSE Goes(c, "failed", Nobody) /\ Fault /\ UNCHANGED process
    /\ UNCHANGED <<scheduler, stateFile, settings, launchAgent>>

\* The deadline of a command that started a daemon.
GiveUp(c) ==
    /\ command[c].stage = "waiting"
    /\ Goes(c, "failed", Nobody)
    /\ UNCHANGED <<process, scheduler, stateFile, settings, launchAgent, story>>

\* The request of the command.  A change of the interval alone is made at once; a change
\* of start at login reads the settings and awaits the launch agent.
Request(c) ==
    /\ command[c].stage = "ready"
    /\ \/ /\ command[c].at \notin Listening
          /\ Goes(c, "failed", Nobody)
          /\ UNCHANGED <<settings, story>>
       \/ /\ command[c].at \in Listening /\ KindOf[c] = "open"
          /\ Goes(c, "done", Nobody)
          /\ UNCHANGED <<settings, story>>
       \/ /\ command[c].at \in Listening /\ KindOf[c] = "interval"
          /\ \E i \in CollectionIntervals, on \in BOOLEAN :
                settings' = [settings EXCEPT !.interval = i, !.collects = on]
          /\ Goes(c, "done", Nobody)
          /\ story' = [story EXCEPT !.overlapped = @ \/ Changing # {}]
       \/ /\ command[c].at \in Listening /\ KindOf[c] \in {"enable", "disable"}
          /\ Goes(c, "changing", command[c].at)
          /\ story' = [story EXCEPT !.overlapped = @ \/ Changing # {}]
          /\ UNCHANGED settings
    /\ UNCHANGED <<process, scheduler, stateFile, launchAgent>>

SetLaunchAgent(c) ==
    /\ command[c].stage = "changing"
    /\ launchAgent' = (KindOf[c] = "enable")
    /\ command' = [command EXCEPT ![c].stage = "saving"]
    /\ UNCHANGED <<process, scheduler, stateFile, settings, story>>

\* Faulty variant: the settings are stored although the launch agent was not.
AfterNoLaunchAgentSaves(c) == "saving"

\* setEnabled rejects, and so does the change.
AfterNoLaunchAgent(c) == "failed"

\* A file that was created and not written is there.
LaunchAgentFails(c) ==
    /\ command[c].stage = "changing"
    /\ Fault
    /\ launchAgent' \in {launchAgent, launchAgent \/ KindOf[c] = "enable"}
    /\ command' = [command EXCEPT ![c].stage = AfterNoLaunchAgent(c)]
    /\ UNCHANGED <<process, scheduler, stateFile, settings>>

\* The settings that were read before are stored, with the change.
SaveSettings(c) ==
    /\ command[c].stage = "saving"
    /\ settings' = [command[c].read EXCEPT !.startAtLogin = (KindOf[c] = "enable")]
    /\ command' = [command EXCEPT ![c].stage = "done"]
    /\ UNCHANGED <<process, scheduler, stateFile, launchAgent, story>>

DaemonNext ==
    \/ \E d \in Daemons : \/ StartAtLogin(d) \/ Listen(d) \/ Serve(d) \/ Crash(d)
                          \/ Stop(d) \/ Close(d) \/ Leave(d)
                          \/ Tick(d) \/ TickEnds(d) \/ TickFails(d)
    \/ \E c \in Commands : \/ ReadState(c) \/ FindNoState(c) \/ FindHealthy(c) \/ FindStale(c)
                           \/ FindBusy(c) \/ FindBusyAtFirst(c) \/ GiveUp(c) \/ Request(c)
                           \/ SetLaunchAgent(c) \/ LaunchAgentFails(c) \/ SaveSettings(c)

DaemonSpec == DaemonInit /\ [][DaemonNext]_daemonVars
-----------------------------------------------------------------------------
(* Properties.                                                              *)

\* A daemon that serves is the one that the state file names, through crashes, stops,
\* stale state files and restarts, as long as no daemon was started while another one was
\* still there (two commands find none, one finds the daemon too busy to answer, or one is
\* still closing as another starts).  Otherwise two may serve, and the one that leaves takes
\* the name of the other with it.
ServingIsNamed == ~story.metAnother => \A d \in Those({"serving"}) : stateFile = d

\* A stored setting that says the daemon starts at login is true, though the launch agent
\* may fail, unless changes overlapped or a daemon ended in the middle of one.
StartAtLoginIsTrue ==
    ~story.overlapped /\ ~story.cutOff /\ Changing = {} /\ settings.startAtLogin => launchAgent
=============================================================================
