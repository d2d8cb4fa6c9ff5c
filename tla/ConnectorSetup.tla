---------------------------- MODULE ConnectorSetup ----------------------------
(***************************************************************************)
(* The records of connectors (connector_settings), which say whether a     *)
(* person has connected or skipped a connector and whether the product     *)
(* keeps a secret for it, and the four operations that write them:         *)
(* discovery, connect or skip, retry, and clearing data with its secrets.  *)
(*                                                                         *)
(* None of them goes through the queue of database writes.  Each awaits a  *)
(* probe or the keychain between reading a record and writing it, and one  *)
(* may be called while another waits.                                      *)
(***************************************************************************)
CONSTANTS
    Connectors,
    Managed,       \* the connectors whose secret the product keeps
    Discoveries,   \* calls of discoverConnectors
    Calls          \* calls of configureConnector and clearData

ASSUME ManagedAssumption == Managed \subseteq Connectors

VARIABLES
    record,        \* connector_settings
    keychain,      \* the connectors whose secret is in the keychain
    discovery,     \* what each discovery has read, and what it has to inspect
    call,          \* what each call waits for
    decision,      \* history: what a person decided last
    consented,     \* history: the connectors that a person ever connected
    overlapped     \* history: something was called while something else waited

history == <<decision, consented>>
setupVars    == <<record, keychain, discovery, call, history, overlapped>>

States   == {"not-checked", "discovered", "not-installed", "connected", "skipped", "error"}
Explicit == {"connected", "skipped"}
Records  == [state : States, installed : BOOLEAN, reference : BOOLEAN]

NotChecked  == [state |-> "not-checked", installed |-> FALSE, reference |-> FALSE]
NothingRead == [c \in Connectors |-> NotChecked]
NoDiscovery == [seen |-> NothingRead, left |-> {}]

\* "connect", "clear": the keychain is asked; "set", "deleted": it has answered;
\* "retry": the probe is asked.  The call is about its target, then about what
\* is left.
Waits  == {"nothing", "connect", "set", "retry", "clear", "deleted"}
Call(waits, target, left, seen) ==
    [waits |-> waits, target |-> target, left |-> left, seen |-> seen]
NoCall == Call("nothing", {}, {}, NothingRead)

DiscoveryRecords == [seen : [Connectors -> Records], left : SUBSET Connectors]
CallRecords ==
    [waits : Waits, target : SUBSET Connectors, left : SUBSET Connectors, seen : [Connectors -> Records]]

SetupTypeOK ==
    /\ record \in [Connectors -> Records]
    /\ keychain \subseteq Managed
    /\ discovery \in [Discoveries -> DiscoveryRecords]
    /\ call \in [Calls -> CallRecords]
    /\ decision \in [Connectors -> {"none"} \cup Explicit]
    /\ consented \subseteq Connectors
    /\ overlapped \in BOOLEAN

SetupInit ==
    /\ record = NothingRead
    /\ keychain = {}
    /\ discovery = [d \in Discoveries |-> NoDiscovery]
    /\ call = [k \in Calls |-> NoCall]
    /\ decision = [c \in Connectors |-> "none"]
    /\ consented = {}
    /\ overlapped = FALSE

-----------------------------------------------------------------------------
Idle(k) == call[k].waits = "nothing"

NothingWaits ==
    /\ \A k \in Calls : Idle(k)
    /\ \A d \in Discoveries : discovery[d].left = {}

Starts == overlapped' = (overlapped \/ ~NothingWaits)

Write(c, r) == record' = [record EXCEPT ![c] = r]

Decide(c, what) ==
    /\ decision' = [decision EXCEPT ![c] = what]
    /\ consented' = IF what = "connected" THEN consented \cup {c} ELSE consented

\* A connector without a command is always installed.
Inspections(c) == IF c \in Managed THEN {TRUE} ELSE BOOLEAN

\* A record that keeps what was found when it was inspected.
Marked(prior, state, reference) ==
    [state |-> state, installed |-> prior.installed, reference |-> reference]

FoundState(installed) == IF installed THEN "discovered" ELSE "not-installed"

-----------------------------------------------------------------------------
(* discoverConnectors: all records are read before anything is inspected.   *)

Discover(d) ==
    /\ Starts
    /\ discovery[d].left = {}
    /\ discovery' = [discovery EXCEPT ![d] = [seen |-> record, left |-> Connectors]]
    /\ UNCHANGED <<record, keychain, call, history>>

Inspect(d, c) ==
    LET left == discovery[d].left \ {c}
    IN  /\ c \in discovery[d].left
        /\ discovery' = [discovery EXCEPT ![d] =
                            IF left = {} THEN NoDiscovery
                            ELSE [seen |-> @.seen, left |-> left]]
        /\ UNCHANGED <<keychain, call, history, overlapped>>

\* Faulty variant: what is found installed is connected.
RediscoveredConnecting(prior, installed) ==
    [prior EXCEPT !.state = IF prior.state = "skipped" THEN @
                            ELSE IF installed THEN "connected" ELSE "not-installed",
                  !.installed = installed]

\* What a person has decided is kept.
Rediscovered(prior, installed) ==
    [state     |-> IF prior.state \in Explicit THEN prior.state ELSE FoundState(installed),
     installed |-> installed,
     reference |-> prior.reference]

Inspected(d, c, installed) ==
    /\ Inspect(d, c)
    /\ Write(c, Rediscovered(discovery[d].seen[c], installed))

\* The probe or the write fails.
InspectionFails(d, c) ==
    /\ Inspect(d, c)
    /\ Write(c, Marked(discovery[d].seen[c], "error", discovery[d].seen[c].reference))

-----------------------------------------------------------------------------
(* configureConnector.                                                      *)

\* A managed connector is connected once the keychain has its secret.
ConnectManaged(k, c) ==
    /\ Starts
    /\ Idle(k)
    /\ c \in Managed
    /\ call' = [call EXCEPT ![k] = Call("connect", {c}, {}, [NothingRead EXCEPT ![c] = record[c]])]
    /\ UNCHANGED <<record, keychain, discovery, history>>

KeychainSets(k) ==
    /\ call[k].waits = "connect"
    /\ keychain' = keychain \cup call[k].target
    /\ call' = [call EXCEPT ![k] = Call("set", call[k].target, {}, call[k].seen)]
    /\ UNCHANGED <<record, discovery, history, overlapped>>

SaveConnected(k, c) ==
    /\ call[k].waits = "set"
    /\ c \in call[k].target
    /\ Write(c, Marked(call[k].seen[c], "connected", TRUE))
    /\ Decide(c, "connected")
    /\ call' = [call EXCEPT ![k] = NoCall]
    /\ UNCHANGED <<keychain, discovery, overlapped>>

ConnectOfficial(c) ==
    /\ Starts
    /\ c \notin Managed
    /\ Write(c, Marked(record[c], "connected", record[c].reference))
    /\ Decide(c, "connected")
    /\ UNCHANGED <<keychain, discovery, call>>

SkipConnector(c) ==
    /\ Starts
    /\ Write(c, Marked(record[c], "skipped", record[c].reference))
    /\ Decide(c, "skipped")
    /\ UNCHANGED <<keychain, discovery, call>>

Retry(k, c) ==
    /\ Starts
    /\ Idle(k)
    /\ call' = [call EXCEPT ![k] = Call("retry", {c}, {}, NothingRead)]
    /\ UNCHANGED <<record, keychain, discovery, history>>

Retried(prior, installed) ==
    [state     |-> IF installed /\ prior.state = "connected" THEN prior.state
                   ELSE FoundState(installed),
     installed |-> installed,
     reference |-> prior.reference]

\* The record is read after the probe has answered; a skip is taken back.
RetryInspected(k, c, installed) ==
    /\ call[k].waits = "retry"
    /\ c \in call[k].target
    /\ Write(c, Retried(record[c], installed))
    /\ Decide(c, IF decision[c] = "skipped" THEN "none" ELSE decision[c])
    /\ call' = [call EXCEPT ![k] = NoCall]
    /\ UNCHANGED <<keychain, discovery, overlapped>>

-----------------------------------------------------------------------------
(* clearData, and what may end any of the calls.                            *)

ClearData(k) ==
    LET referenced == {c \in Managed : record[c].reference}
    IN  /\ Starts
        /\ Idle(k)
        /\ referenced # {}
        /\ call' = [call EXCEPT ![k] = Call("clear", {}, referenced, record)]
        /\ UNCHANGED <<record, keychain, discovery, history>>

\* Faulty variant: the record is cleared without waiting for the keychain.
KeychainDeletesLate(k, c) ==
    /\ call[k].waits = "clear"
    /\ c \in call[k].left
    /\ call' = [call EXCEPT ![k] = Call("deleted", {c}, call[k].left \ {c}, call[k].seen)]
    /\ UNCHANGED <<record, keychain, discovery, history, overlapped>>

\* The secrets are deleted one after the other.
KeychainDeletes(k, c) ==
    /\ call[k].waits = "clear"
    /\ c \in call[k].left
    /\ keychain' = keychain \ {c}
    /\ call' = [call EXCEPT ![k] = Call("deleted", {c}, call[k].left \ {c}, call[k].seen)]
    /\ UNCHANGED <<record, discovery, history, overlapped>>

SaveCleared(k, c) ==
    LET seen == call[k].seen[c]
    IN  /\ call[k].waits = "deleted"
        /\ c \in call[k].target
        /\ Write(c, Marked(seen, FoundState(seen.installed), FALSE))
        /\ Decide(c, "none")
        /\ call' = [call EXCEPT ![k] = IF call[k].left = {} THEN NoCall
                                       ELSE Call("clear", {}, call[k].left, call[k].seen)]
        /\ UNCHANGED <<keychain, discovery, overlapped>>

\* The keychain or the probe fails the call that waits for it.
CallFails(k) ==
    /\ call[k].waits \in {"connect", "retry", "clear"}
    /\ call' = [call EXCEPT ![k] = NoCall]
    /\ UNCHANGED <<record, keychain, discovery, history, overlapped>>

RestartDaemon ==
    /\ discovery' = [d \in Discoveries |-> NoDiscovery]
    /\ call' = [k \in Calls |-> NoCall]
    /\ UNCHANGED <<record, keychain, history, overlapped>>

SetupNext ==
    \/ \E d \in Discoveries : Discover(d)
    \/ \E d \in Discoveries, c \in Connectors, installed \in BOOLEAN :
          installed \in Inspections(c) /\ Inspected(d, c, installed)
    \/ \E d \in Discoveries, c \in Connectors : InspectionFails(d, c)
    \/ \E k \in Calls, c \in Connectors : ConnectManaged(k, c)
    \/ \E k \in Calls : KeychainSets(k)
    \/ \E k \in Calls, c \in Connectors : SaveConnected(k, c)
    \/ \E c \in Connectors : ConnectOfficial(c)
    \/ \E c \in Connectors : SkipConnector(c)
    \/ \E k \in Calls, c \in Connectors : Retry(k, c)
    \/ \E k \in Calls, c \in Connectors, installed \in BOOLEAN :
          installed \in Inspections(c) /\ RetryInspected(k, c, installed)
    \/ \E k \in Calls : ClearData(k)
    \/ \E k \in Calls, c \in Connectors : KeychainDeletes(k, c)
    \/ \E k \in Calls, c \in Connectors : SaveCleared(k, c)
    \/ \E k \in Calls : CallFails(k)
    \/ RestartDaemon

SetupSpec == SetupInit /\ [][SetupNext]_setupVars

-----------------------------------------------------------------------------
(* Properties.                                                              *)

\* However the operations overlap, a connector is connected only if a person
\* has connected it some time: stale records can bring back a consent, but
\* nothing invents one.
ConsentIsNeverInvented == \A c \in Connectors : record[c].state = "connected" => c \in consented

\* However they overlap, a connected connector that the product keeps a secret
\* for has a record that refers to it.
ConnectedHasItsReference ==
    \A c \in Managed : record[c].state = "connected" => record[c].reference

\* What the documents promise and the code does only while nothing overlaps:
\* credentials are used only after explicit consent (docs/adr/003:12).
OnlyConsentedIsConnected ==
    \A c \in Connectors : record[c].state = "connected" => decision[c] = "connected"

\* One operation at a time, a connector is used only while the last thing that
\* a person decided about it was to connect it: discovery does not connect what
\* was skipped, nor does a retry.
ConsentIsTheLastDecision == ~overlapped => OnlyConsentedIsConnected

\* One operation at a time, the reference to a secret is dropped only when the
\* secret has left the keychain, so that clearing data finds every secret.
ReferencesOutliveSecrets ==
    [][~overlapped' =>
          \A c \in Managed : record[c].reference /\ ~record'[c].reference => c \notin keychain']_setupVars
=============================================================================
