---------------------------- MODULE SettingsProofs ----------------------------
(***************************************************************************)
(* Proofs about ConnectorSetup for any connectors and any numbers of calls *)
(* and discoveries: what survives however the operations overlap, and what *)
(* holds besides when one of them is made at a time; about                 *)
(* ConnectorAnswers for any accounts, requests and databases; and about    *)
(* Daemon for any daemons, commands and number of faults.                  *)
(***************************************************************************)
EXTENDS ConnectorSetup, ConnectorAnswers, Daemon, SequenceTheorems, Sums, TLAPS

-----------------------------------------------------------------------------
(* Types of what is read, written and remembered.                           *)

LEMMA Values ==
    /\ NotChecked \in Records
    /\ NothingRead \in [Connectors -> Records]
    /\ \A c \in Connectors : NothingRead[c] = NotChecked
    /\ NotChecked.state = "not-checked"
    /\ NoDiscovery \in DiscoveryRecords
    /\ NoDiscovery.left = {}
    /\ NoDiscovery.seen = NothingRead
    /\ \A installed \in BOOLEAN : FoundState(installed) \in States \ Explicit
  BY DEF NotChecked, NothingRead, NoDiscovery, DiscoveryRecords, Records, States, Explicit,
         FoundState

LEMMA CallValues ==
    ASSUME NEW waits \in Waits, NEW target \in SUBSET Connectors, NEW left \in SUBSET Connectors,
           NEW seen \in [Connectors -> Records]
    PROVE  /\ Call(waits, target, left, seen) \in CallRecords
           /\ Call(waits, target, left, seen).waits = waits
           /\ Call(waits, target, left, seen).target = target
           /\ Call(waits, target, left, seen).left = left
           /\ Call(waits, target, left, seen).seen = seen
  BY DEF Call, CallRecords

\* Only secrets that the product keeps go to the keychain.
SetsManaged(calling) == calling.waits = "connect" => calling.target \subseteq Managed

LEMMA NoCallValues ==
    /\ NoCall \in CallRecords
    /\ NoCall.waits = "nothing"
    /\ NoCall.seen = NothingRead
    /\ SetsManaged(NoCall)
  BY CallValues, Values DEF NoCall, Waits, SetsManaged

\* What a connector that is connected must have.
Rightful(c, r, given) ==
    r.state = "connected" => c \in given /\ (c \in Managed => r.reference)

AllRightful(read, given) == \A c \in Connectors : Rightful(c, read[c], given)

\* What discovery and retries write are records, and as rightful as what they
\* have read.
LEMMA Written ==
    ASSUME NEW c \in Connectors, NEW r \in Records, NEW installed \in BOOLEAN, NEW given,
           Rightful(c, r, given)
    PROVE  /\ Rediscovered(r, installed) \in Records
           /\ Rightful(c, Rediscovered(r, installed), given)
           /\ Retried(r, installed) \in Records
           /\ Rightful(c, Retried(r, installed), given)
<1>1. /\ r.state \in States /\ r.reference \in BOOLEAN
      /\ FoundState(installed) \in States \ Explicit
  BY Values DEF Records
<1> QED
  BY <1>1 DEF Rightful, Rediscovered, Retried, Records, Explicit

\* So are the other records that are written.
LEMMA Markings ==
    ASSUME NEW c \in Connectors, NEW r \in Records, NEW given,
           NEW state \in States, NEW reference \in BOOLEAN,
           state = "connected" => c \in given /\ (c \in Managed => reference)
    PROVE  /\ Marked(r, state, reference) \in Records
           /\ Rightful(c, Marked(r, state, reference), given)
           /\ Marked(r, state, reference).state = state
           /\ Marked(r, state, reference).reference = reference
  BY DEF Marked, Records, Rightful

-----------------------------------------------------------------------------
(* The inductive invariant: what is remembered of the records is as         *)
(* rightful as the records.                                                 *)

IInv ==
    /\ SetupTypeOK
    /\ AllRightful(record, consented)
    /\ \A d \in Discoveries : AllRightful(discovery[d].seen, consented)
    /\ \A k \in Calls : AllRightful(call[k].seen, consented)
    /\ \A k \in Calls : SetsManaged(call[k])

LEMMA InitIInv == SetupInit => IInv
<1> SUFFICES ASSUME SetupInit PROVE IInv
  OBVIOUS
<1>1. SetupTypeOK
  BY Values, NoCallValues DEF SetupInit, SetupTypeOK
<1>2. AllRightful(NothingRead, consented)
  BY Values DEF AllRightful, Rightful
<1>3. /\ record = NothingRead
      /\ \A d \in Discoveries : discovery[d].seen = NothingRead
      /\ \A k \in Calls : call[k] = NoCall
  BY Values DEF SetupInit
<1> QED
  BY <1>1, <1>2, <1>3, NoCallValues DEF IInv

\* A rightful record is written, and consents are not forgotten.
LEMMA Writing ==
    ASSUME SetupTypeOK, NEW given, AllRightful(record, consented), consented \subseteq given,
           NEW c \in Connectors, NEW r \in Records, Rightful(c, r, given), Write(c, r)
    PROVE  record' \in [Connectors -> Records] /\ AllRightful(record', given)
  BY DEF SetupTypeOK, Write, AllRightful, Rightful

LEMMA Deciding ==
    ASSUME SetupTypeOK, NEW c \in Connectors, NEW what \in {"none"} \cup Explicit, Decide(c, what)
    PROVE  /\ decision' = [decision EXCEPT ![c] = what]
           /\ decision' \in [Connectors -> {"none"} \cup Explicit]
           /\ consented \subseteq consented' /\ consented' \subseteq Connectors
           /\ what = "connected" => c \in consented'
  BY DEF SetupTypeOK, Decide

LEMMA Inspecting ==
    ASSUME IInv, NEW d \in Discoveries, NEW c \in Connectors, Inspect(d, c)
    PROVE  /\ discovery' \in [Discoveries -> DiscoveryRecords]
           /\ \A e \in Discoveries : AllRightful(discovery'[e].seen, consented)
           /\ UNCHANGED <<keychain, call, decision, consented>>
           /\ discovery[d].seen[c] \in Records
           /\ Rightful(c, discovery[d].seen[c], consented)
<1>1. /\ discovery[d] \in DiscoveryRecords
      /\ discovery[d].seen \in [Connectors -> Records]
      /\ discovery[d].left \in SUBSET Connectors
      /\ AllRightful(discovery[d].seen, consented)
  BY DEF IInv, SetupTypeOK, DiscoveryRecords
<1>2. AllRightful(NothingRead, consented)
  BY Values DEF AllRightful, Rightful
<1> DEFINE rest == [seen |-> discovery[d].seen, left |-> discovery[d].left \ {c}]
           next == IF discovery[d].left \ {c} = {} THEN NoDiscovery ELSE rest
<1>3. rest \in DiscoveryRecords /\ rest.seen = discovery[d].seen
  BY <1>1 DEF DiscoveryRecords
<1>4. next \in DiscoveryRecords /\ AllRightful(next.seen, consented)
  BY <1>1, <1>2, <1>3, Values
<1>5. discovery' = [discovery EXCEPT ![d] = next]
  BY DEF Inspect
<1>6. UNCHANGED <<keychain, call, decision, consented>>
  BY DEF Inspect, history
<1> HIDE DEF next
<1> QED
  BY <1>1, <1>4, <1>5, <1>6 DEF IInv, SetupTypeOK, AllRightful

\* A call goes on, remembering what is rightful.
LEMMA Calling ==
    ASSUME IInv, NEW k \in Calls, NEW next \in CallRecords, AllRightful(next.seen, consented), SetsManaged(next),
           call' = [call EXCEPT ![k] = next]
    PROVE  /\ call' \in [Calls -> CallRecords]
           /\ \A j \in Calls : AllRightful(call'[j].seen, consented) /\ SetsManaged(call'[j])
  BY DEF IInv, SetupTypeOK

LEMMA NothingReadIsRightful == AllRightful(NothingRead, consented)
  BY Values DEF AllRightful, Rightful

\* More consents do no harm.
LEMMA MoreConsents ==
    ASSUME NEW f, NEW given, NEW more, AllRightful(f, given), given \subseteq more
    PROVE  AllRightful(f, more)
  BY DEF AllRightful, Rightful

LEMMA OverlappedType == SetupTypeOK /\ [SetupNext]_setupVars => overlapped' \in BOOLEAN
  BY DEF SetupNext, setupVars, SetupTypeOK, Starts, Discover, Inspected, InspectionFails, Inspect, ConnectManaged,
         KeychainSets, SaveConnected, ConnectOfficial, SkipConnector, Retry, RetryInspected,
         ClearData, KeychainDeletes, SaveCleared, CallFails, RestartDaemon

LEMMA NextIInv == IInv /\ [SetupNext]_setupVars => IInv'
<1> SUFFICES ASSUME IInv, [SetupNext]_setupVars PROVE IInv'
  OBVIOUS
<1>0. /\ SetupTypeOK
      /\ AllRightful(record, consented)
      /\ \A c \in Connectors : record[c] \in Records /\ record[c].reference \in BOOLEAN
      /\ \A k \in Calls : /\ call[k] \in CallRecords
                          /\ call[k].target \in SUBSET Connectors
                          /\ call[k].left \in SUBSET Connectors
                          /\ call[k].seen \in [Connectors -> Records]
                          /\ AllRightful(call[k].seen, consented)
                          /\ SetsManaged(call[k])
      /\ AllRightful(NothingRead, consented)
  BY NothingReadIsRightful DEF IInv, SetupTypeOK, CallRecords, Records
<1>b. overlapped' \in BOOLEAN
  BY <1>0, OverlappedType
<1>1. CASE \E d \in Discoveries : Discover(d)
  <2>1. PICK d \in Discoveries : Discover(d)
    BY <1>1
  <2>2. [seen |-> record, left |-> Connectors] \in DiscoveryRecords
    BY <1>0 DEF SetupTypeOK, DiscoveryRecords
  <2> QED
    BY <1>b, <2>1, <2>2, <1>0 DEF Discover, history, IInv, SetupTypeOK
<1>2. CASE \E d \in Discoveries, c \in Connectors, installed \in BOOLEAN :
              installed \in Inspections(c) /\ Inspected(d, c, installed)
  <2>1. PICK d \in Discoveries, c \in Connectors, installed \in BOOLEAN :
               Inspected(d, c, installed)
    BY <1>2
  <2>2. Inspect(d, c) /\ Write(c, Rediscovered(discovery[d].seen[c], installed))
    BY <2>1 DEF Inspected
  <2>3. record' \in [Connectors -> Records] /\ AllRightful(record', consented)
    BY <2>2, <1>0, Inspecting, Written, Writing
  <2> QED
    BY <1>b, <2>2, <2>3, Inspecting DEF IInv, SetupTypeOK
<1>3. CASE \E d \in Discoveries, c \in Connectors : InspectionFails(d, c)
  <2>1. PICK d \in Discoveries, c \in Connectors : InspectionFails(d, c)
    BY <1>3
  <2> DEFINE seen == discovery[d].seen[c]
  <2>2. Inspect(d, c) /\ Write(c, Marked(seen, "error", seen.reference))
    BY <2>1 DEF InspectionFails
  <2>3. seen \in Records /\ seen.reference \in BOOLEAN /\ "error" \in States
    BY <2>2, Inspecting DEF Records, States
  <2>4. Marked(seen, "error", seen.reference) \in Records
        /\ Rightful(c, Marked(seen, "error", seen.reference), consented)
    BY <2>3, Markings
  <2>5. record' \in [Connectors -> Records] /\ AllRightful(record', consented)
    BY <2>2, <2>4, <1>0, Writing
  <2> QED
    BY <1>b, <2>2, <2>5, Inspecting DEF IInv, SetupTypeOK
<1>4. CASE \E k \in Calls, c \in Connectors : ConnectManaged(k, c)
  <2>1. PICK k \in Calls, c \in Connectors : ConnectManaged(k, c)
    BY <1>4
  <2> DEFINE seen == [NothingRead EXCEPT ![c] = record[c]]
  <2>2. seen \in [Connectors -> Records] /\ AllRightful(seen, consented)
    BY <1>0, Values DEF AllRightful, SetupTypeOK
  <2> HIDE DEF seen
  <2>3. /\ Call("connect", {c}, {}, seen) \in CallRecords
        /\ Call("connect", {c}, {}, seen).seen = seen
        /\ Call("connect", {c}, {}, seen).target = {c}
    BY <2>2, CallValues DEF Waits
  <2>4. call' = [call EXCEPT ![k] = Call("connect", {c}, {}, seen)]
        /\ c \in Managed
        /\ UNCHANGED <<record, keychain, discovery, history>>
    BY <2>1 DEF ConnectManaged, seen
  <2>5. SetsManaged(Call("connect", {c}, {}, seen))
    BY <2>3, <2>4 DEF SetsManaged
  <2> QED
    BY <1>b, <2>2, <2>3, <2>4, <2>5, Calling DEF IInv, SetupTypeOK, history
<1>5. CASE \E k \in Calls : KeychainSets(k)
  <2>1. PICK k \in Calls : KeychainSets(k)
    BY <1>5
  <2> DEFINE next == Call("set", call[k].target, {}, call[k].seen)
  <2>2. next \in CallRecords /\ next.seen = call[k].seen /\ SetsManaged(next)
    BY <1>0, CallValues DEF Waits, SetsManaged
  <2>3. call' = [call EXCEPT ![k] = next]
        /\ keychain' = keychain \cup call[k].target /\ call[k].target \subseteq Managed
        /\ UNCHANGED <<record, discovery, history>>
    BY <2>1, <1>0 DEF KeychainSets, SetsManaged
  <2> HIDE DEF next
  <2> QED
    BY <1>b, <2>2, <2>3, <1>0, Calling DEF IInv, SetupTypeOK, history
<1>6. CASE \E k \in Calls, c \in Connectors : SaveConnected(k, c)
  <2>1. PICK k \in Calls, c \in Connectors : SaveConnected(k, c)
    BY <1>6
  <2> DEFINE r == call[k].seen[c]
  <2>2. /\ Write(c, Marked(r, "connected", TRUE))
        /\ Decide(c, "connected")
        /\ call' = [call EXCEPT ![k] = NoCall]
        /\ UNCHANGED <<keychain, discovery>>
    BY <2>1 DEF SaveConnected
  <2>3. /\ decision' \in [Connectors -> {"none"} \cup Explicit]
        /\ consented \subseteq consented' /\ consented' \subseteq Connectors
        /\ c \in consented'
    BY <2>2, <1>0, Deciding DEF Explicit
  <2>4. r \in Records /\ "connected" \in States
    BY <1>0 DEF States
  <2>5. Marked(r, "connected", TRUE) \in Records
        /\ Rightful(c, Marked(r, "connected", TRUE), consented')
    BY <2>3, <2>4, Markings
  <2>6. record' \in [Connectors -> Records] /\ AllRightful(record', consented')
    BY <2>2, <2>3, <2>5, <1>0, Writing
  <2>7. /\ call' \in [Calls -> CallRecords]
        /\ \A j \in Calls : AllRightful(call'[j].seen, consented) /\ SetsManaged(call'[j])
    BY <2>2, <1>0, NoCallValues, Calling
  <2> QED
    BY <1>b, <2>2, <2>3, <2>6, <2>7, MoreConsents DEF IInv, SetupTypeOK
<1>7. CASE \E c \in Connectors : ConnectOfficial(c) \/ SkipConnector(c)
  <2>1. PICK c \in Connectors, state \in Explicit :
          /\ state = "connected" => c \notin Managed
          /\ Write(c, Marked(record[c], state, record[c].reference))
          /\ Decide(c, state)
          /\ UNCHANGED <<keychain, discovery, call>>
    BY <1>7 DEF ConnectOfficial, SkipConnector, Explicit
  <2>2. /\ decision' \in [Connectors -> {"none"} \cup Explicit]
        /\ consented \subseteq consented' /\ consented' \subseteq Connectors
        /\ state = "connected" => c \in consented'
    BY <2>1, <1>0, Deciding
  <2>3. state \in States /\ record[c] \in Records /\ record[c].reference \in BOOLEAN
    BY <1>0 DEF States, Explicit
  <2>4. Marked(record[c], state, record[c].reference) \in Records
        /\ Rightful(c, Marked(record[c], state, record[c].reference), consented')
    BY <2>1, <2>2, <2>3, Markings
  <2>5. record' \in [Connectors -> Records] /\ AllRightful(record', consented')
    BY <2>1, <2>2, <2>4, <1>0, Writing
  <2> QED
    BY <1>b, <2>1, <2>2, <2>5, MoreConsents DEF IInv, SetupTypeOK
<1>8. CASE \E k \in Calls, c \in Connectors : Retry(k, c)
  <2>1. PICK k \in Calls, c \in Connectors : Retry(k, c)
    BY <1>8
  <2>2. /\ Call("retry", {c}, {}, NothingRead) \in CallRecords
        /\ Call("retry", {c}, {}, NothingRead).seen = NothingRead
        /\ SetsManaged(Call("retry", {c}, {}, NothingRead))
    BY CallValues, Values DEF Waits, SetsManaged
  <2>3. call' = [call EXCEPT ![k] = Call("retry", {c}, {}, NothingRead)]
        /\ UNCHANGED <<record, keychain, discovery, history>>
    BY <2>1 DEF Retry
  <2> QED
    BY <1>b, <2>2, <2>3, <1>0, Calling DEF IInv, SetupTypeOK, history
<1>9. CASE \E k \in Calls, c \in Connectors, installed \in BOOLEAN :
              installed \in Inspections(c) /\ RetryInspected(k, c, installed)
  <2>1. PICK k \in Calls, c \in Connectors, installed \in BOOLEAN :
               RetryInspected(k, c, installed)
    BY <1>9
  <2> DEFINE what == IF decision[c] = "skipped" THEN "none" ELSE decision[c]
  <2>2. /\ Write(c, Retried(record[c], installed))
        /\ Decide(c, what)
        /\ call' = [call EXCEPT ![k] = NoCall]
        /\ UNCHANGED <<keychain, discovery>>
    BY <2>1 DEF RetryInspected
  <2>3. what \in {"none"} \cup Explicit
    BY <1>0 DEF SetupTypeOK, Explicit
  <2>4. /\ decision' \in [Connectors -> {"none"} \cup Explicit]
        /\ consented \subseteq consented' /\ consented' \subseteq Connectors
    BY <2>2, <2>3, <1>0, Deciding
  <2>5. Rightful(c, record[c], consented) /\ Rightful(c, record[c], consented')
    BY <2>4, <1>0 DEF AllRightful, Rightful
  <2>6. record' \in [Connectors -> Records] /\ AllRightful(record', consented')
    BY <2>2, <2>4, <2>5, <1>0, Written, Writing
  <2>7. /\ call' \in [Calls -> CallRecords]
        /\ \A j \in Calls : AllRightful(call'[j].seen, consented) /\ SetsManaged(call'[j])
    BY <2>2, <1>0, NoCallValues, Calling
  <2> QED
    BY <1>b, <2>2, <2>4, <2>6, <2>7, MoreConsents DEF IInv, SetupTypeOK
<1>10. CASE \E k \in Calls : ClearData(k)
  <2> DEFINE referenced == {c \in Managed : record[c].reference}
             next == Call("clear", {}, referenced, record)
  <2>1. PICK k \in Calls : ClearData(k)
    BY <1>10
  <2>2. next \in CallRecords /\ next.seen = record /\ SetsManaged(next)
    BY <1>0, ManagedAssumption, CallValues DEF SetupTypeOK, Waits, SetsManaged
  <2>3. call' = [call EXCEPT ![k] = next] /\ UNCHANGED <<record, keychain, discovery, history>>
    BY <2>1 DEF ClearData
  <2> HIDE DEF next
  <2> QED
    BY <1>b, <2>2, <2>3, <1>0, Calling DEF IInv, SetupTypeOK, history
<1>11. CASE \E k \in Calls, c \in Connectors : KeychainDeletes(k, c)
  <2>1. PICK k \in Calls, c \in Connectors : KeychainDeletes(k, c)
    BY <1>11
  <2> DEFINE next == Call("deleted", {c}, call[k].left \ {c}, call[k].seen)
  <2>2. next \in CallRecords /\ next.seen = call[k].seen /\ SetsManaged(next)
    BY <1>0, CallValues DEF Waits, SetsManaged
  <2>3. /\ call' = [call EXCEPT ![k] = next]
        /\ keychain' = keychain \ {c}
        /\ UNCHANGED <<record, discovery, history>>
    BY <2>1 DEF KeychainDeletes
  <2> HIDE DEF next
  <2> QED
    BY <1>b, <2>2, <2>3, <1>0, Calling DEF IInv, SetupTypeOK, history
<1>12. CASE \E k \in Calls, c \in Connectors : SaveCleared(k, c)
  <2>1. PICK k \in Calls, c \in Connectors : SaveCleared(k, c)
    BY <1>12
  <2> DEFINE r == call[k].seen[c]
             next == IF call[k].left = {} THEN NoCall
                     ELSE Call("clear", {}, call[k].left, call[k].seen)
  <2>2. /\ Write(c, Marked(r, FoundState(r.installed), FALSE))
        /\ Decide(c, "none")
        /\ call' = [call EXCEPT ![k] = next]
        /\ UNCHANGED <<keychain, discovery>>
    BY <2>1 DEF SaveCleared
  <2>3. /\ decision' \in [Connectors -> {"none"} \cup Explicit]
        /\ consented \subseteq consented' /\ consented' \subseteq Connectors
    BY <2>2, <1>0, Deciding
  <2>4. r \in Records /\ FoundState(r.installed) \in States \ Explicit
    BY <1>0, Values DEF Records
  <2>5. Marked(r, FoundState(r.installed), FALSE) \in Records
        /\ Rightful(c, Marked(r, FoundState(r.installed), FALSE), consented')
    BY <2>4, Markings DEF Explicit
  <2>6. record' \in [Connectors -> Records] /\ AllRightful(record', consented')
    BY <2>2, <2>3, <2>5, <1>0, Writing
  <2>7. next \in CallRecords /\ AllRightful(next.seen, consented) /\ SetsManaged(next)
    BY <1>0, CallValues, NoCallValues DEF Waits, SetsManaged
  <2> HIDE DEF next
  <2>8. /\ call' \in [Calls -> CallRecords]
        /\ \A j \in Calls : AllRightful(call'[j].seen, consented) /\ SetsManaged(call'[j])
    BY <2>2, <2>7, Calling
  <2> QED
    BY <1>b, <2>2, <2>3, <2>6, <2>8, MoreConsents DEF IInv, SetupTypeOK
<1>13. CASE \E k \in Calls : CallFails(k)
  <2>1. PICK k \in Calls : CallFails(k)
    BY <1>13
  <2> QED
    BY <1>b, <2>1, <1>0, NoCallValues, Calling DEF CallFails, IInv, SetupTypeOK, history
<1>14. CASE RestartDaemon
  BY <1>b, <1>0, <1>14, NoCallValues, Values DEF RestartDaemon, IInv, SetupTypeOK, history
<1>15. CASE UNCHANGED setupVars
  BY <1>b, <1>15 DEF setupVars, history, IInv, SetupTypeOK
<1> QED
  BY <1>1, <1>2, <1>3, <1>4, <1>5, <1>6, <1>7, <1>8, <1>9, <1>10, <1>11, <1>12, <1>13, <1>14,
     <1>15 DEF SetupNext

\* The records, the secrets and what the calls remember of them keep their
\* types.
THEOREM TypeCorrect == SetupSpec => []SetupTypeOK
<1>1. IInv => SetupTypeOK
  BY DEF IInv
<1> QED
  BY <1>1, InitIInv, NextIInv, PTL DEF SetupSpec

\* However discoveries and calls overlap, fail and are cut off, a connector
\* that is connected was connected by a person some time.
THEOREM ConsentIsGiven == SetupSpec => []ConsentIsNeverInvented
<1>1. IInv => ConsentIsNeverInvented
  BY DEF IInv, AllRightful, Rightful, ConsentIsNeverInvented
<1> QED
  BY <1>1, InitIInv, NextIInv, PTL DEF SetupSpec

\* However they overlap, a connected connector of which the product keeps the
\* secret has the reference by which the secret is found.
THEOREM ConnectedIsReferenced == SetupSpec => []ConnectedHasItsReference
<1>1. IInv => ConnectedHasItsReference
  BY ManagedAssumption DEF IInv, AllRightful, Rightful, ConnectedHasItsReference
<1> QED
  BY <1>1, InitIInv, NextIInv, PTL DEF SetupSpec

-----------------------------------------------------------------------------
(* One operation at a time.                                                  *)

Quiet(d) == discovery[d].left = {}

\* Nothing waits but one call or one discovery.
OneWaits ==
    /\ \A j, k \in Calls : j # k => Idle(j) \/ Idle(k)
    /\ \A d, e \in Discoveries : d # e => Quiet(d) \/ Quiet(e)
    /\ \A k \in Calls, d \in Discoveries : Idle(k) \/ Quiet(d)

\* What a discovery has read of the connectors it has not inspected is current.
ReadIsCurrent ==
    \A d \in Discoveries : \A c \in discovery[d].left : discovery[d].seen[c] = record[c]

\* A secret that clearing data has deleted is not in the keychain when its
\* record is cleared.
DeletedIsGone ==
    \A k \in Calls : call[k].waits = "deleted" => call[k].target \cap keychain = {}

Alone == OneWaits /\ ReadIsCurrent /\ DeletedIsGone /\ OnlyConsentedIsConnected

AloneInv == IInv /\ (~overlapped => Alone)

LEMMA InitAloneInv == SetupInit => AloneInv
<1> SUFFICES ASSUME SetupInit PROVE AloneInv
  OBVIOUS
<1>1. IInv
  BY InitIInv
<1>2. /\ \A k \in Calls : call[k].waits = "nothing"
      /\ \A d \in Discoveries : discovery[d].left = {}
      /\ \A c \in Connectors : record[c].state = "not-checked"
  BY Values, NoCallValues DEF SetupInit
<1> QED
  BY <1>1, <1>2 DEF AloneInv, Alone, OneWaits, Idle, Quiet, ReadIsCurrent, DeletedIsGone,
                    OnlyConsentedIsConnected

LEMMA NextAlone ==
    ASSUME IInv, Alone, [SetupNext]_setupVars, ~overlapped'
    PROVE  /\ Alone'
           /\ \A c \in Managed : record[c].reference /\ ~record'[c].reference => c \notin keychain'
<1>0. /\ IInv /\ SetupTypeOK /\ IInv' /\ SetupTypeOK'
      /\ OneWaits /\ ReadIsCurrent /\ DeletedIsGone /\ OnlyConsentedIsConnected
      /\ Starts => NothingWaits
  BY NextIInv DEF Alone, IInv, Starts
<1>1. /\ \A c \in Connectors : record[c] \in Records
      /\ \A k \in Calls : /\ call[k] \in CallRecords
                          /\ call[k].target \in SUBSET Connectors
                          /\ call[k].left \in SUBSET Connectors
                          /\ call[k].seen \in [Connectors -> Records]
      /\ \A d \in Discoveries : /\ discovery[d] \in DiscoveryRecords
                                /\ discovery[d].left \in SUBSET Connectors
                                /\ discovery[d].seen \in [Connectors -> Records]
      /\ Managed \subseteq Connectors
  BY <1>0, ManagedAssumption DEF SetupTypeOK, CallRecords, DiscoveryRecords
<1>2. CASE \E d \in Discoveries : Discover(d)
  <2>1. PICK d \in Discoveries : Discover(d)
    BY <1>2
  <2>2. /\ \A k \in Calls : Idle(k)
        /\ \A e \in Discoveries : Quiet(e)
        /\ discovery' = [discovery EXCEPT ![d] = [seen |-> record, left |-> Connectors]]
        /\ UNCHANGED <<record, keychain, call, decision>>
    BY <2>1, <1>0 DEF Discover, NothingWaits, Quiet, history
  <2>3. \A e \in Discoveries : e # d => discovery'[e] = discovery[e]
    BY <2>2, <1>0 DEF SetupTypeOK
  <2>4. discovery'[d].seen = record /\ discovery'[d].left = Connectors
    BY <2>2, <1>0 DEF SetupTypeOK
  <2> QED
    BY <1>0, <1>1, <2>2, <2>3, <2>4
       DEF Alone, OneWaits, Idle, Quiet, ReadIsCurrent, DeletedIsGone, OnlyConsentedIsConnected
<1>3. CASE \E d \in Discoveries, c \in Connectors :
              \/ \E installed \in BOOLEAN : Inspected(d, c, installed)
              \/ InspectionFails(d, c)
  <2>1. PICK d \in Discoveries, c \in Connectors :
                \/ \E installed \in BOOLEAN : Inspected(d, c, installed)
                \/ InspectionFails(d, c)
    BY <1>3
  <2>2. PICK r \in Records :
          /\ Inspect(d, c)
          /\ record' = [record EXCEPT ![c] = r]
          /\ r.reference = discovery[d].seen[c].reference
          /\ r.state = "connected" => discovery[d].seen[c].state = "connected"
    <3>1. CASE \E installed \in BOOLEAN : Inspected(d, c, installed)
      <4>1. PICK installed \in BOOLEAN : Inspected(d, c, installed)
        BY <3>1
      <4> DEFINE seen == discovery[d].seen[c]
                 r == Rediscovered(seen, installed)
      <4>2. seen \in Records /\ FoundState(installed) \in States \ Explicit
        BY <1>1, Values
      <4>3. /\ r \in Records
            /\ r.reference = seen.reference
            /\ r.state = "connected" => seen.state = "connected"
        BY <4>2 DEF Rediscovered, Records, Explicit
      <4>4. Inspect(d, c) /\ record' = [record EXCEPT ![c] = r]
        BY <4>1 DEF Inspected, Write
      <4> QED
        BY <4>3, <4>4
    <3>2. CASE InspectionFails(d, c)
      <4> DEFINE seen == discovery[d].seen[c]
                 r == Marked(seen, "error", seen.reference)
      <4>1. seen \in Records
        BY <1>1
      <4>2. /\ r \in Records
            /\ r.reference = seen.reference
            /\ r.state = "error"
        BY <4>1 DEF Marked, Records, States
      <4>3. Inspect(d, c) /\ record' = [record EXCEPT ![c] = r]
        BY <3>2 DEF InspectionFails, Write
      <4> QED
        BY <4>2, <4>3
    <3> QED
      BY <2>1, <3>1, <3>2
  <2>3. /\ c \in discovery[d].left
        /\ UNCHANGED <<keychain, call, decision>>
        /\ \A e \in Discoveries : e # d => discovery'[e] = discovery[e] /\ Quiet(e)
        /\ discovery'[d].left = discovery[d].left \ {c}
        /\ discovery'[d].left # {} => discovery'[d].seen = discovery[d].seen
    BY <2>2, <1>0, Values DEF Inspect, OneWaits, Quiet, history, SetupTypeOK
  <2>4. /\ record'[c] = r
        /\ \A e \in Connectors : e # c => record'[e] = record[e]
    BY <2>2, <1>0 DEF SetupTypeOK
  <2>5. discovery[d].seen[c] = record[c]
    BY <2>3, <1>0 DEF ReadIsCurrent
  <2>6. OneWaits' /\ DeletedIsGone'
    BY <2>3, <1>0 DEF OneWaits, Idle, Quiet, DeletedIsGone
  <2>7. ReadIsCurrent'
    BY <2>3, <2>4, <1>0, <1>1 DEF ReadIsCurrent, Quiet
  <2> QED
    BY <2>2, <2>3, <2>4, <2>5, <2>6, <2>7, <1>0, <1>1 DEF Alone, OnlyConsentedIsConnected
<1>4. CASE \E k \in Calls :
              \/ \E c \in Connectors : ConnectManaged(k, c) \/ Retry(k, c)
              \/ ClearData(k)
  <2> DEFINE Begins(k, waits, target, left, seen) ==
               /\ Starts
               /\ call' = [call EXCEPT ![k] = Call(waits, target, left, seen)]
               /\ UNCHANGED <<record, keychain, discovery, history>>
  <2>1. PICK k \in Calls, waits \in {"connect", "retry", "clear"},
             target \in SUBSET Connectors, left \in SUBSET Connectors,
             seen \in [Connectors -> Records] : Begins(k, waits, target, left, seen)
    <3>1. ASSUME NEW k \in Calls, NEW c \in Connectors, ConnectManaged(k, c)
          PROVE  Begins(k, "connect", {c}, {}, [NothingRead EXCEPT ![c] = record[c]])
      BY <3>1 DEF ConnectManaged
    <3>2. ASSUME NEW k \in Calls, NEW c \in Connectors, Retry(k, c)
          PROVE  Begins(k, "retry", {c}, {}, NothingRead)
      BY <3>2 DEF Retry
    <3>3. ASSUME NEW k \in Calls, ClearData(k)
          PROVE  Begins(k, "clear", {}, {c \in Managed : record[c].reference}, record)
      BY <3>3 DEF ClearData
    <3>4. /\ record \in [Connectors -> Records]
          /\ NothingRead \in [Connectors -> Records]
          /\ \A c \in Connectors :
                [NothingRead EXCEPT ![c] = record[c]] \in [Connectors -> Records]
          /\ {c \in Managed : record[c].reference} \in SUBSET Connectors
          /\ {} \in SUBSET Connectors
          /\ \A c \in Connectors : {c} \in SUBSET Connectors
      BY <1>0, <1>1, Values DEF SetupTypeOK
    <3> HIDE DEF Begins
    <3> QED
      BY <1>4, <3>1, <3>2, <3>3, <3>4
  <2>2. /\ \A j \in Calls : Idle(j)
        /\ \A d \in Discoveries : Quiet(d)
        /\ \A j \in Calls : j # k => call'[j] = call[j]
        /\ UNCHANGED <<record, keychain, discovery, decision>>
    BY <2>1, <1>0 DEF NothingWaits, Quiet, history, SetupTypeOK
  <2>3. call'[k].waits = waits
    BY <2>1, <1>0, CallValues DEF SetupTypeOK, Waits
  <2> QED
    BY <1>0, <1>1, <2>2, <2>3
       DEF Alone, OneWaits, Idle, Quiet, ReadIsCurrent, DeletedIsGone, OnlyConsentedIsConnected
<1>5. CASE \E k \in Calls :
              KeychainSets(k) \/ (\E c \in Connectors : KeychainDeletes(k, c)) \/ CallFails(k)
  <2>1. PICK k \in Calls :
               KeychainSets(k) \/ (\E c \in Connectors : KeychainDeletes(k, c)) \/ CallFails(k)
    BY <1>5
  <2>2. /\ ~Idle(k)
        /\ UNCHANGED <<record, discovery, decision>>
        /\ \A j \in Calls : j # k => call'[j] = call[j]
    BY <2>1, <1>0 DEF KeychainSets, KeychainDeletes, CallFails, Idle, history, SetupTypeOK
  <2>3. call'[k].waits = "deleted" => call'[k].target \cap keychain' = {}
    <3>1. CASE KeychainSets(k)
      BY <3>1, <1>0, <1>1, CallValues DEF KeychainSets, SetupTypeOK, Waits
    <3>2. CASE CallFails(k)
      BY <3>2, <1>0, NoCallValues DEF CallFails, SetupTypeOK
    <3>3. ASSUME NEW c \in Connectors, KeychainDeletes(k, c)
          PROVE  call'[k].target \cap keychain' = {}
      <4>1. /\ call' = [call EXCEPT ![k] = Call("deleted", {c}, call[k].left \ {c}, call[k].seen)]
            /\ keychain' = keychain \ {c}
        BY <3>3 DEF KeychainDeletes
      <4>2. Call("deleted", {c}, call[k].left \ {c}, call[k].seen).target = {c}
        BY <1>1, CallValues DEF Waits
      <4>3. call'[k].target = {c}
        BY <4>1, <4>2, <1>0 DEF SetupTypeOK
      <4> QED
        BY <4>1, <4>3
    <3> QED
      BY <2>1, <3>1, <3>2, <3>3
  <2>4. \A j \in Calls : j # k => Idle(j)
    BY <2>2, <1>0 DEF OneWaits
  <2> QED
    BY <1>0, <1>1, <2>2, <2>3, <2>4
       DEF Alone, OneWaits, Idle, Quiet, ReadIsCurrent, DeletedIsGone, OnlyConsentedIsConnected
<1>6. CASE \E k \in Calls, c \in Connectors :
              \/ SaveConnected(k, c)
              \/ SaveCleared(k, c)
              \/ \E installed \in BOOLEAN : RetryInspected(k, c, installed)
  <2>1. PICK k \in Calls, c \in Connectors :
              \/ SaveConnected(k, c)
              \/ SaveCleared(k, c)
              \/ \E installed \in BOOLEAN : RetryInspected(k, c, installed)
    BY <1>6
  <2>2. /\ ~Idle(k)
        /\ UNCHANGED <<keychain, discovery>>
        /\ \A j \in Calls : j # k => call'[j] = call[j]
        /\ \A e \in Connectors : e # c => record'[e] = record[e] /\ decision'[e] = decision[e]
    BY <2>1, <1>0
       DEF SaveConnected, SaveCleared, RetryInspected, Idle, Write, Decide, SetupTypeOK
  <2>3. \A j \in Calls : j # k => Idle(j)
    BY <2>2, <1>0 DEF OneWaits
  <2>4. \A d \in Discoveries : Quiet(d)
    BY <2>2, <1>0 DEF OneWaits
  <2>5. call'[k].waits # "deleted"
    <3> DEFINE next == IF call[k].left = {} THEN NoCall
                       ELSE Call("clear", {}, call[k].left, call[k].seen)
    <3>1. NoCall.waits # "deleted" /\ next.waits # "deleted"
      BY <1>1, CallValues, NoCallValues DEF Waits
    <3>2. call' = [call EXCEPT ![k] = NoCall] \/ call' = [call EXCEPT ![k] = next]
      BY <2>1 DEF SaveConnected, SaveCleared, RetryInspected
    <3> HIDE DEF next
    <3> QED
      BY <3>1, <3>2, <1>0 DEF SetupTypeOK
  <2>6. /\ record'[c].state = "connected" => decision'[c] = "connected"
        /\ c \in Managed /\ record[c].reference /\ ~record'[c].reference => c \notin keychain
    <3>1. CASE SaveConnected(k, c)
      BY <3>1, <1>0 DEF SaveConnected, Write, Decide, Marked, SetupTypeOK
    <3>2. CASE SaveCleared(k, c)
      <4> DEFINE r == call[k].seen[c]
      <4>1. FoundState(r.installed) \in States \ Explicit
        BY <1>1, Values DEF Records
      <4>2. record'[c].state = FoundState(r.installed)
        BY <3>2, <1>0 DEF SaveCleared, Write, Marked, SetupTypeOK
      <4>3. c \notin keychain
        BY <3>2, <1>0 DEF SaveCleared, DeletedIsGone
      <4> QED
        BY <4>1, <4>2, <4>3 DEF Explicit
    <3>3. ASSUME NEW installed \in BOOLEAN, RetryInspected(k, c, installed)
          PROVE  /\ record'[c].state = "connected" => decision'[c] = "connected"
                 /\ record'[c].reference = record[c].reference
      <4>1. /\ record'[c] = Retried(record[c], installed)
            /\ decision'[c] = IF decision[c] = "skipped" THEN "none" ELSE decision[c]
        BY <3>3, <1>0 DEF RetryInspected, Write, Decide, SetupTypeOK
      <4>2. FoundState(installed) \in States \ Explicit
        BY Values
      <4>3. Retried(record[c], installed).state = "connected" => record[c].state = "connected"
        BY <4>2 DEF Retried, Explicit
      <4>4. Retried(record[c], installed).reference = record[c].reference
        BY DEF Retried
      <4> QED
        BY <4>1, <4>3, <4>4, <1>0 DEF OnlyConsentedIsConnected
    <3> QED
      BY <2>1, <3>1, <3>2, <3>3
  <2> QED
    BY <1>0, <1>1, <2>2, <2>3, <2>4, <2>5, <2>6
       DEF Alone, OneWaits, Idle, Quiet, ReadIsCurrent, DeletedIsGone, OnlyConsentedIsConnected
<1>7. CASE \E c \in Connectors : ConnectOfficial(c) \/ SkipConnector(c)
  <2>1. PICK c \in Connectors, state \in Explicit :
          /\ Starts
          /\ record' = [record EXCEPT ![c] = Marked(record[c], state, record[c].reference)]
          /\ decision' = [decision EXCEPT ![c] = state]
          /\ UNCHANGED <<keychain, discovery, call>>
    BY <1>7 DEF ConnectOfficial, SkipConnector, Write, Decide, Explicit
  <2>2. /\ \A d \in Discoveries : Quiet(d)
        /\ record'[c].state = state /\ decision'[c] = state
        /\ record'[c].reference = record[c].reference
        /\ \A e \in Connectors : e # c => record'[e] = record[e] /\ decision'[e] = decision[e]
    BY <2>1, <1>0 DEF NothingWaits, Quiet, Marked, SetupTypeOK
  <2> QED
    BY <1>0, <1>1, <2>1, <2>2
       DEF Alone, OneWaits, Idle, Quiet, ReadIsCurrent, DeletedIsGone, OnlyConsentedIsConnected
<1>8. CASE RestartDaemon
  <2>1. /\ \A k \in Calls : call'[k].waits = "nothing"
        /\ \A d \in Discoveries : discovery'[d].left = {}
        /\ UNCHANGED <<record, keychain, decision>>
    BY <1>8, Values, NoCallValues DEF RestartDaemon, history
  <2> QED
    BY <1>0, <2>1
       DEF Alone, OneWaits, Idle, Quiet, ReadIsCurrent, DeletedIsGone, OnlyConsentedIsConnected
<1>9. CASE UNCHANGED setupVars
  BY <1>0, <1>9
     DEF setupVars, history, Alone, OneWaits, Idle, Quiet, ReadIsCurrent, DeletedIsGone,
         OnlyConsentedIsConnected
<1> QED
  BY <1>2, <1>3, <1>4, <1>5, <1>6, <1>7, <1>8, <1>9 DEF SetupNext

\* What has overlapped once has overlapped.
LEMMA OverlapLasts == SetupTypeOK /\ [SetupNext]_setupVars /\ ~overlapped' => ~overlapped
  BY DEF SetupNext, setupVars, SetupTypeOK, Starts, Discover, Inspected, InspectionFails, Inspect, ConnectManaged,
         KeychainSets, SaveConnected, ConnectOfficial, SkipConnector, Retry, RetryInspected,
         ClearData, KeychainDeletes, SaveCleared, CallFails, RestartDaemon

LEMMA AloneInvInductive == AloneInv /\ [SetupNext]_setupVars => AloneInv'
  BY NextIInv, NextAlone, OverlapLasts DEF AloneInv, IInv

\* One operation at a time, only what a person connected last is connected.
THEOREM LastDecisionCounts == SetupSpec => []ConsentIsTheLastDecision
<1>1. AloneInv => ConsentIsTheLastDecision
  BY DEF AloneInv, Alone, ConsentIsTheLastDecision
<1> QED
  BY <1>1, InitAloneInv, AloneInvInductive, PTL DEF SetupSpec

\* One operation at a time, the reference to a secret goes after the secret.
THEOREM SecretsAreReferenced == SetupSpec => ReferencesOutliveSecrets
<1>1. AloneInv /\ [SetupNext]_setupVars =>
        [~overlapped' => \A c \in Managed :
            record[c].reference /\ ~record'[c].reference => c \notin keychain']_setupVars
  BY NextAlone, OverlapLasts DEF AloneInv, IInv
<1> QED
  BY <1>1, InitAloneInv, AloneInvInductive, PTL DEF SetupSpec, ReferencesOutliveSecrets

-----------------------------------------------------------------------------
(* What becomes of the usage that is stored.                               *)

\* The fields of a snapshot that say what becomes of the usage.
Fields(snapshot, usage, authoritative, retired) ==
    /\ snapshot.usage = usage
    /\ snapshot.authoritative = authoritative
    /\ snapshot.retired = retired

BlankFields ==
    {"rejected", "domains", "quotas", "complete", "usage", "authoritative", "retired", "balances",
     "costs", "warnings"}

LEMMA BlankIs ==
    /\ DOMAIN Blank = BlankFields
    /\ Fields(Blank, {}, {}, {})
  BY DEF Blank, BlankFields, Fields


LEMMA ReconciledIs ==
    ASSUME NEW snapshot, snapshot = [f \in BlankFields |-> snapshot[f]],
           NEW read, NEW name, NEW retired, NEW usage, Fields(snapshot, usage, {}, {})
    PROVE  Fields(Reconciled(snapshot, read, name, retired), usage,
                  IF Replaces(read) THEN {name} ELSE {}, IF Replaces(read) THEN retired ELSE {})
  BY DEF Reconciled, Fields, BlankFields


LEMMA ClaudeIs ==
    ASSUME NEW account, NEW read
    PROVE  Fields(CollectClaude(account, read), Usage("claude-transcript", {[n |-> x.n, domain |-> "subscription"] : x \in read.usage}),
                  IF Replaces(read) THEN {"claude-transcript"} ELSE {},
                  IF Replaces(read) THEN {"claude-otel"} ELSE {})
<1> DEFINE r == ~IsTold(read)
           d == {"subscription"}
           q == IF IsTold(account) THEN Buckets(account) ELSE {}
           u == Usage("claude-transcript", {[n |-> x.n, domain |-> "subscription"] : x \in read.usage})
           w == (IF IsTold(account) THEN <<>> ELSE <<"claude-quota">>) \o Incomplete(read)
           s == [Blank EXCEPT !.rejected = r, !.domains = d, !.quotas = q, !.usage = u, !.warnings = w]
<1>1. s = [f \in BlankFields |-> s[f]] /\ Fields(s, u, {}, {})
  <2> HIDE DEF r, d, q, u, w
  <2> QED BY DEF Blank, BlankFields, Fields
<1>2. CollectClaude(account, read) = Reconciled(s, read, "claude-transcript", {"claude-otel"})
  BY DEF CollectClaude
<1> HIDE DEF s, u
<1>3. Fields(Reconciled(s, read, "claude-transcript", {"claude-otel"}), u,
             IF Replaces(read) THEN {"claude-transcript"} ELSE {}, IF Replaces(read) THEN {"claude-otel"} ELSE {})
  BY <1>1, ReconciledIs
<1> QED BY <1>2, <1>3 DEF u

LEMMA GrokIs ==
    ASSUME NEW account, NEW read
    PROVE  Fields(CollectGrok(account, read), Usage("grok-transcript", read.usage),
                  IF Replaces(read) THEN {"grok-transcript"} ELSE {},
                  IF Replaces(read) THEN {"grok-otel", "grok-headless"} ELSE {})
<1> DEFINE r == ~IsTold(read)
           d == DomainsIn("grok-build-subscription", read)
           q == IF IsTold(account) THEN GrokQuota(account) ELSE {}
           u == Usage("grok-transcript", read.usage)
           w == (IF q = {} THEN <<"grok-quota">> ELSE <<>>) \o Incomplete(read)
           s == [Blank EXCEPT !.rejected = r, !.domains = d, !.quotas = q, !.usage = u, !.warnings = w]
<1>1. s = [f \in BlankFields |-> s[f]] /\ Fields(s, u, {}, {})
  <2> HIDE DEF r, d, q, u, w
  <2> QED BY DEF Blank, BlankFields, Fields
<1>2. CollectGrok(account, read) = Reconciled(s, read, "grok-transcript", {"grok-otel", "grok-headless"})
  BY DEF CollectGrok
<1> HIDE DEF s, u
<1>3. Fields(Reconciled(s, read, "grok-transcript", {"grok-otel", "grok-headless"}), u,
             IF Replaces(read) THEN {"grok-transcript"} ELSE {}, IF Replaces(read) THEN {"grok-otel", "grok-headless"} ELSE {})
  BY <1>1, ReconciledIs
<1> QED BY <1>2, <1>3 DEF u

LEMMA DshIs ==
    ASSUME NEW read
    PROVE  Fields(CollectDsh(read), Usage("dsh-transcript", read.usage),
                  IF Replaces(read) THEN {"dsh-transcript"} ELSE {},
                  IF Replaces(read) THEN {} ELSE {})
<1> DEFINE d == DomainsIn("deepseek-official", read)
           u == Usage("dsh-transcript", read.usage)
           w == IF ~IsTold(read) THEN <<"dsh-session-log-read-failed">>
                ELSE IF read.unsupported THEN <<"dsh-session-format-unsupported">>
                ELSE IF ~read.complete THEN <<"dsh-session-log-scan-incomplete">> ELSE <<>>
           s == [Blank EXCEPT !.domains = d, !.usage = u, !.warnings = w]
<1>1. s = [f \in BlankFields |-> s[f]] /\ Fields(s, u, {}, {})
  <2> HIDE DEF d, u, w
  <2> QED BY DEF Blank, BlankFields, Fields
<1>2. CollectDsh(read) = Reconciled(s, read, "dsh-transcript", {})
  BY DEF CollectDsh
<1> HIDE DEF s, u
<1>3. Fields(Reconciled(s, read, "dsh-transcript", {}), u,
             IF Replaces(read) THEN {"dsh-transcript"} ELSE {}, IF Replaces(read) THEN {} ELSE {})
  BY <1>1, ReconciledIs
<1> QED BY <1>2, <1>3 DEF u

LEMMA AntigravityIs ==
    ASSUME NEW account, NEW read
    PROVE  Fields(CollectAntigravity(account, read), Usage("antigravity", read.usage),
                  IF Replaces(read) THEN {"antigravity"} ELSE {},
                  IF Replaces(read) THEN {} ELSE {})
<1> DEFINE d == DomainsIn("code-assist-subscription", read)
           q == WithFallback(ServerQuota(account.ports),
                             {LocalBucket("5 hour", 1, SprintLimit, read),
                              LocalBucket("Week", 2, WeekLimit, read)})
           u == Usage("antigravity", read.usage)
           w == IF ~IsTold(read) THEN <<"antigravity-sqlite-read-failed">>
                 ELSE IF read.complete THEN <<>> ELSE <<"antigravity-session-scan-incomplete">>
           s == [Blank EXCEPT !.domains = d, !.quotas = q, !.usage = u, !.warnings = w]
<1>1. s = [f \in BlankFields |-> s[f]] /\ Fields(s, u, {}, {})
  <2> HIDE DEF d, q, u, w
  <2> QED BY DEF Blank, BlankFields, Fields
<1>2. CollectAntigravity(account, read) = Reconciled(s, read, "antigravity", {})
  BY DEF CollectAntigravity
<1> HIDE DEF s, u
<1>3. Fields(Reconciled(s, read, "antigravity", {}), u,
             IF Replaces(read) THEN {"antigravity"} ELSE {}, IF Replaces(read) THEN {} ELSE {})
  BY <1>1, ReconciledIs
<1> QED BY <1>2, <1>3 DEF u

LEMMA CursorIs ==
    ASSUME NEW account
    PROVE  Fields(CollectCursor(account), {}, {}, {})
  BY DEF CollectCursor, Blank, Fields

LEMMA GoIs ==
    ASSUME NEW account, NEW read
    PROVE  Fields(CollectGo(account, read), {}, IF IsTold(read) THEN {"opencode-request"} ELSE {},
                  IF IsTold(read) THEN {"opencode-session"} ELSE {})
  BY DEF CollectGo, Blank, Fields

LEMMA XaiIs ==
    ASSUME NEW account
    PROVE  /\ CollectXai(account).authoritative = {}
           /\ CollectXai(account).retired = {}
           /\ \A v \in CollectXai(account).usage :
                 v = [prefix |-> "xai-invoice", n |-> v.n, domain |-> "xai-api"]
  BY DEF CollectXai, Blank

-----------------------------------------------------------------------------
\* Usage that may be stored for a connector: of each id there is one of each kind, and what is
\* told of a database of Antigravity is in it.
IsTellable(u) ==
    \/ /\ connector = "claude-code"
       /\ \/ u = [prefix |-> "claude-transcript", n |-> u.n, domain |-> "subscription"]
          \/ u.prefix = "claude-otel"
    \/ /\ connector = "grok"
       /\ \/ /\ u = [prefix |-> "grok-transcript", n |-> u.n, domain |-> u.domain]
             /\ \E r \in Requests : r.n = u.n /\ r.domain = u.domain
          \/ u.prefix = "grok-otel"
    \/ /\ connector = "dsh"
       /\ u = [prefix |-> "dsh-transcript", n |-> u.n, domain |-> u.domain]
       /\ \E r \in Requests : r.n = u.n /\ r.domain = u.domain
    \/ connector = "opencode-go"
    \/ connector = "xai-api" /\ u = [prefix |-> "xai-invoice", n |-> u.n, domain |-> "xai-api"]
    \/ /\ connector = "antigravity"
       /\ u = [prefix |-> "antigravity", n |-> u.n, domain |-> "code-assist-subscription"]
       /\ \E c \in Conversations : \E i \in 1 .. Len(rows[c]) : u.n = <<c, i>>

\* A cache tells at least the rows that have left the log.
CacheOK(cache) ==
    /\ DOMAIN cache \subseteq Conversations
    /\ \A c \in DOMAIN cache : /\ cache[c].stamp \in Nat /\ cache[c].rows \in Nat
                               /\ cache[c].stamp <= cache[c].rows
                               /\ cache[c].rows <= Len(rows[c])

AnswersInv ==
    /\ connector \in DOMAIN Accounts
    /\ held \subseteq Requests
    /\ instant \in Nat
    /\ rows \in [Conversations -> Seq(Nat)]
    /\ inFile \in [Conversations -> Nat]
    /\ \A c \in Conversations : inFile[c] <= Len(rows[c]) /\ Len(rows[c]) <= MaxTurns
    /\ CacheOK(fileCache)
    /\ CacheOK(cacheFile)
    /\ \A u \in stored : IsTellable(u)

LEMMA InitAnswers == ConnectorsInit => AnswersInv
<1> SUFFICES ASSUME ConnectorsInit
             PROVE  AnswersInv
  OBVIOUS
<1>1. rows \in [Conversations -> Seq(Nat)] /\ \A c \in Conversations : Len(rows[c]) = 0
  BY DEF ConnectorsInit
<1>2. CacheOK(fileCache) /\ CacheOK(cacheFile)
  BY DEF ConnectorsInit, CacheOK
<1>3. inFile \in [Conversations -> Nat] /\ \A c \in Conversations : inFile[c] = 0
  BY DEF ConnectorsInit
<1>4. MaxTurns \in Nat
  BY AnswersAssumption DEF AnswersAssumption
<1>5. \A c \in Conversations : inFile[c] <= Len(rows[c]) /\ Len(rows[c]) <= MaxTurns
  BY <1>1, <1>3, <1>4
<1> QED BY <1>1, <1>2, <1>3, <1>5 DEF ConnectorsInit, AnswersInv

\* A history tells of requests that the agent has, and of all of them when it says so.
LEMMA HistoriesTell ==
    ASSUME AnswersInv, NEW read \in Histories(held)
    PROVE  /\ read.usage \subseteq held
           /\ read.complete => read.usage = held
           /\ connector \in {"cursor", "xai-api"} => read.usage = {} /\ ~read.complete
<1>1. held \subseteq held
  OBVIOUS
<1>2. CASE read = Unread
  BY <1>2 DEF Unread
<1>3. CASE connector \notin {"cursor", "xai-api"} /\
           read = [state |-> "told", usage |-> held, complete |-> TRUE, unsupported |-> FALSE]
  BY <1>3
<1>4. CASE connector \notin {"cursor", "xai-api"} /\
           read \in [state : {"told"}, usage : SUBSET held, complete : {FALSE}, unsupported : BOOLEAN]
  BY <1>4
<1> QED BY <1>2, <1>3, <1>4 DEF Histories

LEMMA DatabasesTell ==
    ASSUME AnswersInv, NEW cache, CacheOK(cache), NEW hidden, NEW unreadable,
           NEW r \in DatabaseHistory(cache, Listed(hidden), unreadable).usage
    PROVE  /\ r = [n |-> r.n, domain |-> "code-assist-subscription"]
           /\ \E c \in Conversations : \E i \in 1 .. Len(rows[c]) : r.n = <<c, i>>
<1>1. PICK y \in {z \in Listed(hidden) \X (1 .. MaxTurns) : z[2] \in RowsTold(cache, z[1], unreadable)} :
          r = [n |-> y, domain |-> "code-assist-subscription"]
  BY DEF DatabaseHistory
<1>2. y[1] \in Conversations /\ y[2] \in 1 .. MaxTurns /\ y = <<y[1], y[2]>>
  BY <1>1 DEF Listed
<1>3. y[2] \in 1 .. Len(rows[y[1]])
  <2>1. y[2] \in RowsTold(cache, y[1], unreadable)
    BY <1>1
  <2>2. rows[y[1]] \in Seq(Nat)
    BY <1>2 DEF AnswersInv
  <2>3. CASE IsUnchanged(cache, y[1])
    BY <1>2, <2>1, <2>2, <2>3 DEF RowsTold, IsUnchanged, CacheOK
  <2>4. CASE ~IsUnchanged(cache, y[1])
    BY <1>2, <2>1, <2>2, <2>4 DEF RowsTold
  <2> QED BY <2>3, <2>4
<1> QED BY <1>1, <1>2, <1>3

\* What a complete read of the databases does not tell of.
LEMMA DatabasesLeaveOut ==
    ASSUME AnswersInv, NEW cache, CacheOK(cache), NEW hidden, NEW unreadable,
           NEW read, read = DatabaseHistory(cache, Listed(hidden), unreadable), read.complete,
           NEW c \in Conversations, NEW i \in 1 .. Len(rows[c]),
           ~ \E r \in read.usage : r.n = <<c, i>>
    PROVE  c \in hidden \/ (summarised # {} /\ c \notin summarised) \/ i > inFile[c]
<1> SUFFICES ASSUME c \notin hidden, summarised = {} \/ c \in summarised
             PROVE  i > inFile[c]
  OBVIOUS
<1>1. rows[c] \in Seq(Nat) /\ i \in Nat /\ i >= 1 /\ MaxTurns \in Nat /\ Len(rows[c]) \in Nat /\ inFile[c] \in Nat
  <2>1. rows[c] \in Seq(Nat) /\ inFile[c] \in Nat
    BY DEF AnswersInv
  <2>2. Len(rows[c]) \in Nat
    BY <2>1
  <2> QED BY <2>1, <2>2, AnswersAssumption DEF AnswersAssumption
<1>2. c \in Listed(hidden)
  BY <1>1 DEF Listed
<1>3. i \in 1 .. MaxTurns
  BY <1>1 DEF AnswersInv
<1>4. i \notin RowsTold(cache, c, unreadable)
  <2> SUFFICES ASSUME i \in RowsTold(cache, c, unreadable)
               PROVE  FALSE
    OBVIOUS
  <2>1. <<c, i>> \in {y \in Listed(hidden) \X (1 .. MaxTurns) : y[2] \in RowsTold(cache, y[1], unreadable)}
    BY <1>2, <1>3
  <2>2. [n |-> <<c, i>>, domain |-> "code-assist-subscription"]
            \in read.usage
    BY <2>1 DEF DatabaseHistory
  <2> QED BY <2>2
<1>5. CASE IsUnchanged(cache, c)
  <2>1. c \in DOMAIN cache /\ cache[c].stamp = inFile[c]
    BY <1>5 DEF IsUnchanged
  <2>2. cache[c].rows \in Nat /\ cache[c].stamp <= cache[c].rows
    BY <2>1 DEF CacheOK
  <2>3. i \notin 1 .. cache[c].rows
    BY <1>4, <1>5 DEF RowsTold
  <2> QED BY <1>1, <2>1, <2>2, <2>3
<1>6. CASE ~IsUnchanged(cache, c) /\ c \in unreadable
  BY <1>2, <1>6 DEF DatabaseHistory
<1>7. CASE ~IsUnchanged(cache, c) /\ c \notin unreadable
  BY <1>1, <1>4, <1>7 DEF RowsTold
<1> QED BY <1>5, <1>6, <1>7

-----------------------------------------------------------------------------
\* An answer that is stored takes usage away only as the property says; what is tellable and no
\* longer stored was retired, is no longer told, or was replaced by usage other than itself.
LEMMA Leaving ==
    ASSUME NEW s, NEW usage, NEW authoritative, NEW retired, Fields(s, usage, authoritative, retired),
           SaveUsage(s), NEW u \in stored \ stored'
    PROVE  /\ u \notin usage
           /\ \/ u.prefix \in retired \cup authoritative
              \/ \E v \in usage : <<v.prefix, v.n>> = <<u.prefix, u.n>>
  BY DEF SaveUsage, Fields

\* The property for one row that is stored.
LeavesRightly(u) ==
    CASE connector = "opencode-go" -> IsTold(last'.read)
      [] connector = "antigravity" ->
            /\ last'.read.complete
            /\ \/ u.n[1] \in last'.hidden
               \/ summarised # {} /\ u.n[1] \notin summarised
               \/ u.n[2] > inFile[u.n[1]]
      [] OTHER ->
            /\ last'.read.complete /\ last'.read.usage # {}
            /\ u.prefix = OtherUsage[connector] \/ \A r \in held : r.n # u.n

LEMMA CollectsRightly ==
    ASSUME AnswersInv, Collects
    PROVE  \A u \in stored \ stored' : LeavesRightly(u)
<1>1. PICK account \in Accounts[connector], read \in Histories(held) :
          Answered([asked |-> TRUE, account |-> account, read |-> read])
  BY DEF Collects
<1> DEFINE answers == [asked |-> TRUE, account |-> account, read |-> read]
<1>2. answers.account = account /\ answers.read = read
  OBVIOUS
<1>3. last'.read = read
  BY <1>1 DEF Answered
<1> HIDE DEF answers
<1>4. /\ read.usage \subseteq held
      /\ read.complete => read.usage = held
      /\ connector \in {"cursor", "xai-api"} => read.usage = {} /\ ~read.complete
  BY HistoriesTell
<1> SUFFICES ASSUME NEW u \in stored \ stored'
             PROVE  LeavesRightly(u)
  OBVIOUS
<1>5. SaveUsage(Snapshot(answers))
  BY <1>1 DEF Answered, answers
<1>6. IsTellable(u)
  BY DEF AnswersInv
<1>7. connector \in DOMAIN Accounts /\ held \subseteq Requests
  BY DEF AnswersInv
<1>8. CASE connector = "claude-code"
  <2> DEFINE usage == Usage("claude-transcript", {[n |-> x.n, domain |-> "subscription"] : x \in read.usage})
  <2>1. Snapshot(answers) = CollectClaude(account, read)
    BY <1>2, <1>8 DEF Snapshot
  <2>2. Fields(Snapshot(answers), usage, IF Replaces(read) THEN {"claude-transcript"} ELSE {},
               IF Replaces(read) THEN {"claude-otel"} ELSE {})
    BY <2>1, ClaudeIs
  <2>3. /\ u \notin usage
        /\ \/ u.prefix \in (IF Replaces(read) THEN {"claude-otel"} ELSE {}) \cup
                           (IF Replaces(read) THEN {"claude-transcript"} ELSE {})
           \/ \E v \in usage : <<v.prefix, v.n>> = <<u.prefix, u.n>>
    <3> HIDE DEF usage
    <3> QED BY <1>5, <2>2, Leaving
  <2>4. \A v \in usage : v = [prefix |-> "claude-transcript", n |-> v.n, domain |-> "subscription"]
    BY DEF Usage
  <2>5. OtherUsage[connector] = "claude-otel"
    BY <1>7, <1>8 DEF OtherUsage
  <2>6. CASE u.prefix = "claude-otel"
    <3>1. Replaces(read)
      BY <2>3, <2>4, <2>6
    <3> QED BY <1>3, <1>8, <2>5, <2>6, <3>1 DEF Replaces, LeavesRightly
  <2>7. CASE u = [prefix |-> "claude-transcript", n |-> u.n, domain |-> "subscription"]
    <3>1. ~ \E v \in usage : <<v.prefix, v.n>> = <<u.prefix, u.n>>
      BY <2>3, <2>4, <2>7
    <3>2. Replaces(read)
      BY <2>3, <2>7, <3>1
    <3>3. \A r \in held : r.n # u.n
      <4> SUFFICES ASSUME NEW r \in held, r.n = u.n
                   PROVE  FALSE
        OBVIOUS
      <4>1. r \in read.usage
        BY <1>4, <3>2 DEF Replaces
      <4> DEFINE x == [n |-> r.n, domain |-> "subscription"]
      <4>2. x \in {[n |-> y.n, domain |-> "subscription"] : y \in read.usage}
        BY <4>1
      <4>3. [prefix |-> "claude-transcript", n |-> x.n, domain |-> x.domain] \in usage
        BY <4>2 DEF Usage
      <4> QED BY <2>3, <2>7, <4>3
    <3> QED BY <1>3, <1>8, <3>2, <3>3 DEF Replaces, LeavesRightly
  <2> QED BY <1>6, <1>8, <2>6, <2>7 DEF IsTellable
<1>9. CASE connector = "grok"
  <2> DEFINE usage == Usage("grok-transcript", read.usage)
  <2>1. Snapshot(answers) = CollectGrok(account, read)
    BY <1>2, <1>9 DEF Snapshot
  <2>2. Fields(Snapshot(answers), usage, IF Replaces(read) THEN {"grok-transcript"} ELSE {},
               IF Replaces(read) THEN {"grok-otel", "grok-headless"} ELSE {})
    BY <2>1, GrokIs
  <2>3. /\ u \notin usage
        /\ \/ u.prefix \in (IF Replaces(read) THEN {"grok-otel", "grok-headless"} ELSE {}) \cup
                           (IF Replaces(read) THEN {"grok-transcript"} ELSE {})
           \/ \E v \in usage : <<v.prefix, v.n>> = <<u.prefix, u.n>>
    <3> HIDE DEF usage
    <3> QED BY <1>5, <2>2, Leaving
  <2>4. \A v \in usage : /\ v = [prefix |-> "grok-transcript", n |-> v.n, domain |-> v.domain]
                         /\ \E r \in read.usage : r.n = v.n /\ r.domain = v.domain
    BY DEF Usage
  <2>5. OtherUsage[connector] = "grok-otel"
    BY <1>7, <1>9 DEF OtherUsage
  <2>6. CASE u.prefix = "grok-otel"
    <3>1. Replaces(read)
      BY <2>3, <2>4, <2>6
    <3> QED BY <1>3, <1>9, <2>5, <2>6, <3>1 DEF Replaces, LeavesRightly
  <2>7. CASE /\ u = [prefix |-> "grok-transcript", n |-> u.n, domain |-> u.domain]
             /\ \E r \in Requests : r.n = u.n /\ r.domain = u.domain
    <3>1. ~ \E v \in usage : <<v.prefix, v.n>> = <<u.prefix, u.n>>
      <4> SUFFICES ASSUME NEW v \in usage, v.prefix = u.prefix, v.n = u.n
                   PROVE  FALSE
        OBVIOUS
      <4>1. PICK r \in read.usage : r.n = v.n /\ r.domain = v.domain
        BY <2>4
      <4>2. r \in Requests
        BY <1>4, <1>7
      <4>3. v.domain = u.domain
        BY <2>7, <4>1, <4>2, AnswersAssumption DEF AnswersAssumption
      <4> QED BY <2>3, <2>4, <2>7, <4>3
    <3>2. Replaces(read)
      BY <2>3, <2>7, <3>1
    <3>3. \A r \in held : r.n # u.n
      <4> SUFFICES ASSUME NEW r \in held, r.n = u.n
                   PROVE  FALSE
        OBVIOUS
      <4>1. r \in read.usage
        BY <1>4, <3>2 DEF Replaces
      <4>2. [prefix |-> "grok-transcript", n |-> r.n, domain |-> r.domain] \in usage
        BY <4>1 DEF Usage
      <4>3. r.domain = u.domain
        BY <1>7, <2>7, AnswersAssumption DEF AnswersAssumption
      <4> QED BY <2>3, <2>7, <4>2, <4>3
    <3> QED BY <1>3, <1>9, <3>2, <3>3 DEF Replaces, LeavesRightly
  <2> QED BY <1>6, <1>9, <2>6, <2>7 DEF IsTellable
<1>10. CASE connector = "dsh"
  <2> DEFINE usage == Usage("dsh-transcript", read.usage)
  <2>1. Snapshot(answers) = CollectDsh(read)
    BY <1>2, <1>10 DEF Snapshot
  <2>2. Fields(Snapshot(answers), usage, IF Replaces(read) THEN {"dsh-transcript"} ELSE {},
               IF Replaces(read) THEN {} ELSE {})
    BY <2>1, DshIs
  <2>3. /\ u \notin usage
        /\ \/ u.prefix \in (IF Replaces(read) THEN {} ELSE {}) \cup
                           (IF Replaces(read) THEN {"dsh-transcript"} ELSE {})
           \/ \E v \in usage : <<v.prefix, v.n>> = <<u.prefix, u.n>>
    <3> HIDE DEF usage
    <3> QED BY <1>5, <2>2, Leaving
  <2>4. \A v \in usage : /\ v = [prefix |-> "dsh-transcript", n |-> v.n, domain |-> v.domain]
                         /\ \E r \in read.usage : r.n = v.n /\ r.domain = v.domain
    BY DEF Usage
  <2>7. CASE /\ u = [prefix |-> "dsh-transcript", n |-> u.n, domain |-> u.domain]
             /\ \E r \in Requests : r.n = u.n /\ r.domain = u.domain
    <3>1. ~ \E v \in usage : <<v.prefix, v.n>> = <<u.prefix, u.n>>
      <4> SUFFICES ASSUME NEW v \in usage, v.prefix = u.prefix, v.n = u.n
                   PROVE  FALSE
        OBVIOUS
      <4>1. PICK r \in read.usage : r.n = v.n /\ r.domain = v.domain
        BY <2>4
      <4>2. r \in Requests
        BY <1>4, <1>7
      <4>3. v.domain = u.domain
        BY <2>7, <4>1, <4>2, AnswersAssumption DEF AnswersAssumption
      <4> QED BY <2>3, <2>4, <2>7, <4>3
    <3>2. Replaces(read)
      BY <2>3, <2>7, <3>1
    <3>3. \A r \in held : r.n # u.n
      <4> SUFFICES ASSUME NEW r \in held, r.n = u.n
                   PROVE  FALSE
        OBVIOUS
      <4>1. r \in read.usage
        BY <1>4, <3>2 DEF Replaces
      <4>2. [prefix |-> "dsh-transcript", n |-> r.n, domain |-> r.domain] \in usage
        BY <4>1 DEF Usage
      <4>3. r.domain = u.domain
        BY <1>7, <2>7, AnswersAssumption DEF AnswersAssumption
      <4> QED BY <2>3, <2>7, <4>2, <4>3
    <3> QED BY <1>3, <1>10, <3>2, <3>3 DEF Replaces, LeavesRightly
  <2> QED BY <1>6, <1>10, <2>7 DEF IsTellable
<1>11. CASE connector = "cursor"
  BY <1>6, <1>11 DEF IsTellable
<1>12. CASE connector = "opencode-go"
  <2>1. Fields(Snapshot(answers), {}, IF IsTold(read) THEN {"opencode-request"} ELSE {},
               IF IsTold(read) THEN {"opencode-session"} ELSE {})
    BY <1>2, <1>12, GoIs DEF Snapshot
  <2>2. u.prefix \in (IF IsTold(read) THEN {"opencode-session"} ELSE {}) \cup
                     (IF IsTold(read) THEN {"opencode-request"} ELSE {})
    BY <1>5, <2>1, Leaving
  <2> QED BY <1>3, <1>12, <2>2 DEF LeavesRightly
<1>13. CASE connector = "xai-api"
  <2> DEFINE s == CollectXai(account)
  <2>1. Snapshot(answers) = s
    BY <1>2, <1>13 DEF Snapshot
  <2>2. Fields(s, s.usage, {}, {})
    BY XaiIs DEF Fields
  <2>3. \A v \in s.usage : v = [prefix |-> "xai-invoice", n |-> v.n, domain |-> "xai-api"]
    BY XaiIs
  <2> HIDE DEF s
  <2>4. u \notin s.usage /\ \E v \in s.usage : <<v.prefix, v.n>> = <<u.prefix, u.n>>
    BY <1>5, <2>1, <2>2, Leaving
  <2> QED BY <1>6, <1>13, <2>3, <2>4 DEF IsTellable
<1> QED BY <1>7, <1>8, <1>9, <1>10, <1>11, <1>12, <1>13, AnswersAssumption DEF AnswersAssumption, Collects

LEMMA DatabasesRightly ==
    ASSUME AnswersInv, CollectsDatabases
    PROVE  \A u \in stored \ stored' : LeavesRightly(u)
<1>1. PICK account \in Accounts[connector], hidden \in SUBSET Conversations,
           unreadable \in SUBSET Conversations, cache \in {fileCache, <<>>} :
          Answered([asked |-> TRUE, account |-> account, hidden |-> hidden,
                    read |-> DatabaseHistory(cache, Listed(hidden), unreadable)])
  BY DEF CollectsDatabases
<1> DEFINE read == DatabaseHistory(cache, Listed(hidden), unreadable)
           answers == [asked |-> TRUE, account |-> account, hidden |-> hidden, read |-> read]
           usage == Usage("antigravity", read.usage)
<1>2. /\ answers.account = account /\ answers.read = read
      /\ last'.read = read /\ last'.hidden = hidden
  BY <1>1 DEF Answered
<1>3. CacheOK(cache)
  BY DEF AnswersInv, CacheOK
<1>4. /\ \A r \in read.usage : /\ r = [n |-> r.n, domain |-> "code-assist-subscription"]
                               /\ \E c \in Conversations : \E i \in 1 .. Len(rows[c]) : r.n = <<c, i>>
  BY <1>3, DatabasesTell
<1> SUFFICES ASSUME NEW u \in stored \ stored'
             PROVE  LeavesRightly(u)
  OBVIOUS
<1>5. connector = "antigravity"
  BY DEF CollectsDatabases
<1>6. Fields(Snapshot(answers), usage, IF Replaces(read) THEN {"antigravity"} ELSE {},
             IF Replaces(read) THEN {} ELSE {})
  <2>1. Snapshot(answers) = CollectAntigravity(account, read)
    <3> HIDE DEF read, answers
    <3> QED BY <1>2, <1>5 DEF Snapshot
  <2> HIDE DEF read, answers
  <2> QED BY <2>1, AntigravityIs
<1>7. SaveUsage(Snapshot(answers))
  BY <1>1 DEF Answered
<1>8. \A v \in usage : v = [prefix |-> "antigravity", n |-> v.n, domain |-> "code-assist-subscription"]
  <2> HIDE DEF read
  <2> QED BY <1>4 DEF Usage
<1>9. /\ u = [prefix |-> "antigravity", n |-> u.n, domain |-> "code-assist-subscription"]
      /\ \E c \in Conversations : \E i \in 1 .. Len(rows[c]) : u.n = <<c, i>>
  BY <1>5 DEF AnswersInv, IsTellable
<1>10. u \notin usage /\ Replaces(read)
  <2> HIDE DEF read, answers, usage
  <2>1. /\ u \notin usage
        /\ \/ u.prefix \in (IF Replaces(read) THEN {} ELSE {}) \cup
                           (IF Replaces(read) THEN {"antigravity"} ELSE {})
           \/ \E v \in usage : <<v.prefix, v.n>> = <<u.prefix, u.n>>
    BY <1>6, <1>7, Leaving
  <2>2. ~ \E v \in usage : <<v.prefix, v.n>> = <<u.prefix, u.n>>
    BY <1>8, <1>9, <2>1
  <2> QED BY <2>1, <2>2
<1>11a. PICK c \in Conversations : \E i \in 1 .. Len(rows[c]) : u.n = <<c, i>>
  BY <1>9
<1>11. PICK i \in 1 .. Len(rows[c]) : u.n = <<c, i>>
  BY <1>11a
<1>12. ~ \E r \in read.usage : r.n = <<c, i>>
  <2> SUFFICES ASSUME NEW r \in read.usage, r.n = <<c, i>>
               PROVE  FALSE
    OBVIOUS
  <2>1. [prefix |-> "antigravity", n |-> r.n, domain |-> r.domain] \in usage
    <3> HIDE DEF read
    <3> QED BY DEF Usage
  <2>2. r.domain = "code-assist-subscription"
    <3> HIDE DEF read
    <3> QED BY <1>4
  <2> QED BY <1>9, <1>10, <1>11, <2>1, <2>2
<1>13. read.complete
  BY <1>10 DEF Replaces
<1>14. c \in hidden \/ (summarised # {} /\ c \notin summarised) \/ i > inFile[c]
  <2>1. read = DatabaseHistory(cache, Listed(hidden), unreadable)
    OBVIOUS
  <2> HIDE DEF read, answers, usage
  <2> QED BY <1>3, <1>12, <1>13, <2>1, DatabasesLeaveOut
<1> HIDE DEF read
<1> QED BY <1>2, <1>5, <1>11, <1>13, <1>14 DEF LeavesRightly

-----------------------------------------------------------------------------
\* What is stored stays tellable while databases only grow.
LEMMA StaysTellable ==
    ASSUME AnswersInv, UNCHANGED connector,
           \A c \in Conversations : Len(rows[c]) <= Len(rows'[c]) /\ Len(rows'[c]) \in Nat,
           NEW u \in stored
    PROVE  IsTellable(u)'
<1>1. IsTellable(u)
  BY DEF AnswersInv
<1>2. CASE connector = "antigravity"
  <2>1. /\ u = [prefix |-> "antigravity", n |-> u.n, domain |-> "code-assist-subscription"]
        /\ \E c \in Conversations : \E i \in 1 .. Len(rows[c]) : u.n = <<c, i>>
    BY <1>1, <1>2 DEF IsTellable
  <2>2. PICK c \in Conversations : \E i \in 1 .. Len(rows[c]) : u.n = <<c, i>>
    BY <2>1
  <2>3. PICK i \in 1 .. Len(rows[c]) : u.n = <<c, i>>
    BY <2>2
  <2>4. Len(rows[c]) \in Nat
    BY DEF AnswersInv
  <2>5. i \in 1 .. Len(rows'[c])
    BY <2>2, <2>3, <2>4
  <2> QED BY <1>2, <2>1, <2>2, <2>3, <2>5 DEF IsTellable
<1>3. CASE connector # "antigravity"
  BY <1>1, <1>3 DEF IsTellable
<1> QED BY <1>2, <1>3

\* An answer of any connector tells of usage that is tellable.
LEMMA CollectsTellable ==
    ASSUME AnswersInv, Collects
    PROVE  \A u \in stored' : IsTellable(u)'
<1>1. PICK account \in Accounts[connector], read \in Histories(held) :
          Answered([asked |-> TRUE, account |-> account, read |-> read])
  BY DEF Collects
<1> DEFINE answers == [asked |-> TRUE, account |-> account, read |-> read]
<1>2. answers.account = account /\ answers.read = read
  OBVIOUS
<1> HIDE DEF answers
<1>4. read.usage \subseteq Requests
  BY HistoriesTell DEF AnswersInv
<1>5. UNCHANGED <<connector, rows>>
  BY DEF Collects, databaseVars
<1>6. \A c \in Conversations : Len(rows[c]) <= Len(rows'[c]) /\ Len(rows'[c]) \in Nat
  BY <1>5 DEF AnswersInv
<1>7. \A u \in stored : IsTellable(u)'
  BY <1>5, <1>6, StaysTellable
<1>8. CASE UNCHANGED stored
  BY <1>7, <1>8
<1>9. CASE SaveUsage(Snapshot(answers))
  <2> DEFINE usage == Snapshot(answers).usage
  <2> SUFFICES ASSUME NEW u \in stored', u \notin stored
               PROVE  IsTellable(u)'
    BY <1>7
  <2>1. u \in usage
    BY <1>9 DEF SaveUsage
  <2>2. CASE connector = "claude-code"
    <3>1. usage = Usage("claude-transcript", {[n |-> x.n, domain |-> "subscription"] : x \in read.usage})
      BY <1>2, <2>2, ClaudeIs DEF Snapshot, Fields
    <3> HIDE DEF usage
    <3>2. u = [prefix |-> "claude-transcript", n |-> u.n, domain |-> "subscription"]
      BY <2>1, <3>1 DEF Usage
    <3> QED BY <1>5, <2>2, <3>2 DEF IsTellable
  <2>3. CASE connector = "grok"
    <3>1. usage = Usage("grok-transcript", read.usage)
      BY <1>2, <2>3, GrokIs DEF Snapshot, Fields
    <3> HIDE DEF usage
    <3>2. /\ u = [prefix |-> "grok-transcript", n |-> u.n, domain |-> u.domain]
          /\ \E r \in Requests : r.n = u.n /\ r.domain = u.domain
      BY <1>4, <2>1, <3>1 DEF Usage
    <3> QED BY <1>5, <2>3, <3>2 DEF IsTellable
  <2>4. CASE connector = "dsh"
    <3>1. usage = Usage("dsh-transcript", read.usage)
      BY <1>2, <2>4, DshIs DEF Snapshot, Fields
    <3> HIDE DEF usage
    <3>2. /\ u = [prefix |-> "dsh-transcript", n |-> u.n, domain |-> u.domain]
          /\ \E r \in Requests : r.n = u.n /\ r.domain = u.domain
      BY <1>4, <2>1, <3>1 DEF Usage
    <3> QED BY <1>5, <2>4, <3>2 DEF IsTellable
  <2>5. CASE connector = "cursor"
    BY <1>2, <2>1, <2>5, CursorIs DEF Snapshot, Fields
  <2>6. CASE connector = "opencode-go"
    BY <1>5, <2>6 DEF IsTellable
  <2>7. CASE connector = "xai-api"
    <3>1. Snapshot(answers) = CollectXai(account)
      BY <1>2, <2>7 DEF Snapshot
    <3>2. u = [prefix |-> "xai-invoice", n |-> u.n, domain |-> "xai-api"]
      BY <2>1, <3>1, XaiIs
    <3> QED BY <1>5, <2>7, <3>2 DEF IsTellable
  <2> QED BY <2>2, <2>3, <2>4, <2>5, <2>6, <2>7, AnswersAssumption
          DEF AnswersAssumption, AnswersInv, Collects
<1> QED BY <1>1, <1>8, <1>9 DEF Answered, answers

LEMMA DatabasesTellable ==
    ASSUME AnswersInv, CollectsDatabases
    PROVE  \A u \in stored' : IsTellable(u)'
<1>1. PICK account \in Accounts[connector], hidden \in SUBSET Conversations,
           unreadable \in SUBSET Conversations, cache \in {fileCache, <<>>} :
          Answered([asked |-> TRUE, account |-> account, hidden |-> hidden,
                    read |-> DatabaseHistory(cache, Listed(hidden), unreadable)])
  BY DEF CollectsDatabases
<1> DEFINE read == DatabaseHistory(cache, Listed(hidden), unreadable)
           answers == [asked |-> TRUE, account |-> account, hidden |-> hidden, read |-> read]
<1>2. answers.account = account /\ answers.read = read
  OBVIOUS
<1>3. CacheOK(cache)
  BY DEF AnswersInv, CacheOK
<1>4. \A r \in read.usage : /\ r = [n |-> r.n, domain |-> "code-assist-subscription"]
                            /\ \E c \in Conversations : \E i \in 1 .. Len(rows[c]) : r.n = <<c, i>>
  BY <1>3, DatabasesTell
<1>5. UNCHANGED <<connector, rows>> /\ connector = "antigravity"
  BY DEF CollectsDatabases
<1>6. \A c \in Conversations : Len(rows[c]) <= Len(rows'[c]) /\ Len(rows'[c]) \in Nat
  BY <1>5 DEF AnswersInv
<1>7. \A u \in stored : IsTellable(u)'
  BY <1>5, <1>6, StaysTellable
<1>8. CASE UNCHANGED stored
  BY <1>7, <1>8
<1>9. CASE SaveUsage(Snapshot(answers))
  <2> SUFFICES ASSUME NEW u \in stored', u \notin stored
               PROVE  IsTellable(u)'
    BY <1>7
  <2> HIDE DEF read, answers
  <2>1. Snapshot(answers) = CollectAntigravity(account, read)
    BY <1>2, <1>5 DEF Snapshot
  <2>2. Snapshot(answers).usage = Usage("antigravity", read.usage)
    BY <2>1, AntigravityIs DEF Fields
  <2>3. u \in Usage("antigravity", read.usage)
    BY <1>9, <2>2 DEF SaveUsage
  <2>4. PICK r \in read.usage : u = [prefix |-> "antigravity", n |-> r.n, domain |-> r.domain]
    BY <2>3 DEF Usage
  <2>5. /\ u = [prefix |-> "antigravity", n |-> u.n, domain |-> "code-assist-subscription"]
        /\ u.n = r.n
    BY <1>4, <2>4
  <2>6. \E c \in Conversations : \E i \in 1 .. Len(rows[c]) : u.n = <<c, i>>
    BY <1>4, <2>5
  <2> QED BY <1>5, <2>5, <2>6 DEF IsTellable
<1> QED BY <1>1, <1>8, <1>9 DEF Answered, answers

\* What is cached of a database is what was in it.
LEMMA NextCacheOK ==
    ASSUME AnswersInv, NEW cache, CacheOK(cache), NEW listed \in SUBSET Conversations, NEW unreadable
    PROVE  CacheOK(NextCache(cache, listed, unreadable))
<1> DEFINE next == NextCache(cache, listed, unreadable)
<1>1. DOMAIN next \subseteq Conversations
  BY DEF NextCache
<1> SUFFICES ASSUME NEW c \in DOMAIN next
             PROVE  /\ next[c].stamp \in Nat /\ next[c].rows \in Nat
                    /\ next[c].stamp <= next[c].rows
                    /\ next[c].rows <= Len(rows[c])
  BY <1>1 DEF CacheOK
<1>2. c \in Conversations /\ c \in listed \cap (DOMAIN cache \cup (Conversations \ unreadable))
  BY DEF NextCache
<1>3. CASE IsUnchanged(cache, c) \/ c \in unreadable
  <2>1. c \in DOMAIN cache
    BY <1>2, <1>3 DEF IsUnchanged
  <2>2. next[c] = cache[c]
    BY <1>2, <1>3 DEF NextCache
  <2> QED BY <2>1, <2>2 DEF CacheOK
<1>4. CASE ~(IsUnchanged(cache, c) \/ c \in unreadable)
  <2>1. next[c] = [stamp |-> inFile[c], rows |-> Len(rows[c])]
    BY <1>2, <1>4 DEF NextCache
  <2>2. inFile[c] \in Nat /\ Len(rows[c]) \in Nat /\ inFile[c] <= Len(rows[c])
    BY <1>2 DEF AnswersInv
  <2> QED BY <2>1, <2>2
<1> QED BY <1>3, <1>4

\* A cache stays good while databases only grow.
LEMMA CacheStaysOK ==
    ASSUME AnswersInv, NEW cache, CacheOK(cache),
           \A c \in Conversations : Len(rows[c]) <= Len(rows'[c]) /\ Len(rows'[c]) \in Nat
    PROVE  /\ DOMAIN cache \subseteq Conversations
           /\ \A c \in DOMAIN cache : /\ cache[c].stamp \in Nat /\ cache[c].rows \in Nat
                                      /\ cache[c].stamp <= cache[c].rows
                                      /\ cache[c].rows <= Len(rows'[c])
<1>1. \A c \in Conversations : Len(rows[c]) \in Nat
  BY DEF AnswersInv
<1> QED BY <1>1 DEF CacheOK

\* The rest of the invariant, when nothing happens to the databases.
LEMMA SameDatabases ==
    ASSUME AnswersInv, UNCHANGED <<connector, rows, inFile, instant>>, held' \subseteq Requests,
           \A u \in stored' : IsTellable(u)',
           CacheOK(fileCache'), CacheOK(cacheFile')
    PROVE  AnswersInv'
  BY DEF AnswersInv, CacheOK

\* A history that could not be read takes nothing away and adds nothing.
LEMMA NothingIsTold ==
    ASSUME FailsToReadDatabases
    PROVE  stored' = stored
<1>1. PICK account \in Accounts[connector] :
          Answered([asked |-> TRUE, account |-> account, hidden |-> {}, read |-> Unread])
  BY DEF FailsToReadDatabases
<1> DEFINE answers == [asked |-> TRUE, account |-> account, hidden |-> {}, read |-> Unread]
<1>2. Snapshot(answers) = CollectAntigravity(account, Unread)
  <2>1. answers.account = account /\ answers.read = Unread /\ connector = "antigravity"
    BY DEF FailsToReadDatabases
  <2> HIDE DEF answers
  <2> QED BY <2>1 DEF Snapshot
<1> HIDE DEF answers
<1>3. Unread.usage = {} /\ ~Replaces(Unread)
  BY DEF Unread, Replaces
<1>4. Fields(Snapshot(answers), {}, {}, {})
  <2>1. Usage("antigravity", Unread.usage) = {}
    BY <1>3 DEF Usage
  <2> QED BY <1>2, <1>3, <2>1, AntigravityIs
<1>5. ASSUME SaveUsage(Snapshot(answers)) PROVE stored' = stored
  <2>1. \A u : u \in stored' <=> u \in stored
    BY <1>4, <1>5 DEF SaveUsage, Fields
  <2> QED BY <2>1
<1>6. Answered(answers)
  BY <1>1 DEF answers
<1>7. SaveUsage(Snapshot(answers)) \/ stored' = stored
  BY <1>6 DEF Answered
<1> QED BY <1>5, <1>7

LEMMA NextAnswers == AnswersInv /\ [ConnectorsNext]_connectorVars => AnswersInv'
<1> SUFFICES ASSUME AnswersInv, [ConnectorsNext]_connectorVars
             PROVE  AnswersInv'
  OBVIOUS
<1>1. CASE Collects
  <2>1. UNCHANGED <<connector, rows, inFile, instant, held, fileCache, cacheFile>>
    BY <1>1 DEF Collects, databaseVars
  <2>2. \A u \in stored' : IsTellable(u)'
    BY <1>1, CollectsTellable
  <2> QED BY <2>1, <2>2, SameDatabases DEF AnswersInv
<1>2. CASE CollectsDatabases
  <2>1. UNCHANGED <<connector, rows, inFile, instant, held>> /\ cacheFile' \in {cacheFile, fileCache'}
    BY <1>2 DEF CollectsDatabases
  <2>2. \A u \in stored' : IsTellable(u)'
    BY <1>2, DatabasesTellable
  <2>3. CacheOK(fileCache')
    <3>1. PICK hidden \in SUBSET Conversations, unreadable \in SUBSET Conversations,
               cache \in {fileCache, <<>>} :
              fileCache' = NextCache(cache, Listed(hidden), unreadable)
      BY <1>2 DEF CollectsDatabases
    <3>2. CacheOK(cache)
      BY DEF AnswersInv, CacheOK
    <3>3. Listed(hidden) \in SUBSET Conversations
      BY DEF Listed
    <3> QED BY <3>1, <3>2, <3>3, NextCacheOK
  <2>4. CacheOK(cacheFile')
    BY <2>1, <2>3 DEF AnswersInv
  <2> QED BY <2>1, <2>2, <2>3, <2>4, SameDatabases DEF AnswersInv
<1>3. CASE WaitsForNextRefresh
  <2>1. UNCHANGED <<connector, rows, inFile, instant, held, fileCache, cacheFile, stored>>
    BY <1>3 DEF WaitsForNextRefresh, databaseVars
  <2> QED BY <2>1 DEF AnswersInv, IsTellable, CacheOK
<1>4. CASE HistoryChanges
  <2>1. UNCHANGED <<connector, rows, inFile, instant, fileCache, cacheFile, stored>> /\ held' \subseteq Requests
    BY <1>4 DEF HistoryChanges, databaseVars, AnswersInv
  <2> QED BY <2>1 DEF AnswersInv, IsTellable, CacheOK
<1>5. CASE IngestsTelemetry
  <2>1. UNCHANGED <<connector, rows, inFile, instant, held, fileCache, cacheFile>>
    BY <1>5 DEF IngestsTelemetry, databaseVars
  <2>2. PICK r \in Requests : stored' = stored \cup Usage(OtherUsage[connector], {r})
    BY <1>5 DEF IngestsTelemetry
  <2>3. \A c \in Conversations : Len(rows[c]) <= Len(rows'[c]) /\ Len(rows'[c]) \in Nat
    BY <2>1 DEF AnswersInv
  <2>4. \A u \in stored : IsTellable(u)'
    BY <2>1, <2>3, StaysTellable
  <2>5. \A u \in Usage(OtherUsage[connector], {r}) : IsTellable(u)'
    <3>1. OtherUsage[connector] # "none"
      BY <1>5 DEF IngestsTelemetry
    <3>2. connector \in DOMAIN Accounts
      BY DEF AnswersInv
    <3>3. \/ connector = "claude-code" /\ OtherUsage[connector] = "claude-otel"
          \/ connector = "grok" /\ OtherUsage[connector] = "grok-otel"
          \/ connector = "opencode-go"
      BY <3>1, <3>2 DEF OtherUsage
    <3>4. \A u \in Usage(OtherUsage[connector], {r}) : u.prefix = OtherUsage[connector]
      BY DEF Usage
    <3> QED BY <2>1, <3>3, <3>4 DEF IsTellable
  <2>6. \A u \in stored' : IsTellable(u)'
    BY <2>2, <2>4, <2>5
  <2> QED BY <2>1, <2>6, SameDatabases DEF AnswersInv
<1>6. ASSUME NEW c \in Conversations, Generates(c)
      PROVE  AnswersInv'
  <2>1. /\ UNCHANGED <<connector, held, stored, fileCache, cacheFile, instant>>
        /\ rows' = [rows EXCEPT ![c] = Append(@, instant)]
        /\ inFile' \in {inFile, [inFile EXCEPT ![c] = Len(rows[c]) + 1]}
        /\ Len(rows[c]) < MaxTurns
    BY <1>6 DEF Generates, agentVars
  <2>2. rows[c] \in Seq(Nat) /\ instant \in Nat /\ Len(rows[c]) \in Nat /\ MaxTurns \in Nat
    BY AnswersAssumption DEF AnswersInv, AnswersAssumption
  <2>3. Append(rows[c], instant) \in Seq(Nat) /\ Len(Append(rows[c], instant)) = Len(rows[c]) + 1
    BY <2>2
  <2>4. rows' \in [Conversations -> Seq(Nat)]
    BY <2>1, <2>3 DEF AnswersInv
  <2>5. Len(rows'[c]) = Len(rows[c]) + 1 /\ \A d \in Conversations \ {c} : rows'[d] = rows[d]
    BY <2>1, <2>3 DEF AnswersInv
  <2>6. \A d \in Conversations : Len(rows[d]) \in Nat
    BY DEF AnswersInv
  <2>7. \A d \in Conversations : Len(rows[d]) <= Len(rows'[d]) /\ Len(rows'[d]) \in Nat
    BY <2>2, <2>5, <2>6
  <2>8. inFile' \in [Conversations -> Nat]
    BY <2>1, <2>2 DEF AnswersInv
  <2>9. inFile'[c] \in {inFile[c], Len(rows[c]) + 1} /\ \A d \in Conversations \ {c} : inFile'[d] = inFile[d]
    BY <2>1 DEF AnswersInv
  <2>10. \A d \in Conversations : inFile'[d] <= Len(rows'[d]) /\ Len(rows'[d]) <= MaxTurns
    BY <2>1, <2>2, <2>5, <2>6, <2>9 DEF AnswersInv
  <2>11. \A u \in stored' : IsTellable(u)'
    BY <2>1, <2>7, StaysTellable
  <2>12. CacheOK(fileCache)' /\ CacheOK(cacheFile)'
    BY <2>1, <2>7, CacheStaysOK DEF AnswersInv, CacheOK
  <2> QED BY <2>1, <2>4, <2>8, <2>10, <2>11, <2>12 DEF AnswersInv
<1>7. ASSUME NEW c \in Conversations, Checkpoints(c)
      PROVE  AnswersInv'
  <2>1. /\ UNCHANGED <<connector, held, stored, rows, fileCache, cacheFile, instant>>
        /\ inFile' = [inFile EXCEPT ![c] = Len(rows[c])]
    BY <1>7 DEF Checkpoints, agentVars
  <2>2. Len(rows[c]) \in Nat
    BY DEF AnswersInv
  <2>3. /\ inFile' \in [Conversations -> Nat]
        /\ \A d \in Conversations : inFile'[d] <= Len(rows[d])
    BY <2>1, <2>2 DEF AnswersInv
  <2>4. \A u \in stored' : IsTellable(u)'
    BY <2>1 DEF AnswersInv, IsTellable
  <2> QED BY <2>1, <2>3, <2>4 DEF AnswersInv, CacheOK
<1>8. CASE TimeGoesOn
  <2>1. UNCHANGED <<connector, held, stored, rows, inFile, fileCache, cacheFile>> /\ instant' = instant + 1
    BY <1>8 DEF TimeGoesOn, agentVars
  <2> QED BY <2>1 DEF AnswersInv, IsTellable, CacheOK
<1>9. CASE RestartClient
  <2>1. UNCHANGED <<connector, held, stored, rows, inFile, cacheFile, instant>> /\ fileCache' = cacheFile
    BY <1>9 DEF RestartClient, agentVars
  <2> QED BY <2>1 DEF AnswersInv, IsTellable, CacheOK
<1>10. CASE UNCHANGED connectorVars
  BY <1>10 DEF AnswersInv, IsTellable, CacheOK, connectorVars, databaseVars
<1>11. CASE FailsToReadDatabases
  <2>1. stored' = stored
    BY <1>11, NothingIsTold
  <2>2. UNCHANGED <<connector, rows, inFile, instant, held, fileCache, cacheFile>>
    BY <1>11 DEF FailsToReadDatabases, databaseVars
  <2> QED BY <2>1, <2>2 DEF AnswersInv, IsTellable, CacheOK
<1> QED BY <1>1, <1>2, <1>3, <1>4, <1>5, <1>6, <1>7, <1>8, <1>9, <1>10, <1>11 DEF ConnectorsNext

LEMMA LeavesOnlyRightly ==
    AnswersInv /\ [ConnectorsNext]_connectorVars => \A u \in stored \ stored' : LeavesRightly(u)
<1> SUFFICES ASSUME AnswersInv, [ConnectorsNext]_connectorVars
             PROVE  \A u \in stored \ stored' : LeavesRightly(u)
  OBVIOUS
<1>1. CASE Collects
  BY <1>1, CollectsRightly
<1>2. CASE CollectsDatabases
  BY <1>2, DatabasesRightly
<1>3. CASE IngestsTelemetry
  BY <1>3 DEF IngestsTelemetry
<1>6. CASE FailsToReadDatabases
  <2>1. stored' = stored
    BY <1>6, NothingIsTold
  <2> QED BY <2>1
<1>4. CASE UNCHANGED stored
  BY <1>4
<1>5. WaitsForNextRefresh \/ HistoryChanges \/ (\E c \in Conversations : Generates(c) \/ Checkpoints(c))
          \/ TimeGoesOn \/ RestartClient \/ UNCHANGED connectorVars => UNCHANGED stored
  BY DEF WaitsForNextRefresh, HistoryChanges, Generates, Checkpoints, TimeGoesOn, RestartClient,
         agentVars, connectorVars
<1> QED BY <1>1, <1>2, <1>3, <1>4, <1>5, <1>6 DEF ConnectorsNext

\* UsageLeavesOnlyWithItsSource holds for any requests, databases, answers and changes: usage
\* leaves the store only by an answer that tells all, of the source that told of it or of the one
\* that takes its place (usage-application.ts, saveSnapshot of the repository).
THEOREM UsageLeavesRightly == ConnectorsSpec => UsageLeavesOnlyWithItsSource
<1>1. ConnectorsSpec => []AnswersInv
  BY InitAnswers, NextAnswers, PTL DEF ConnectorsSpec
<1>2. AnswersInv /\ [ConnectorsNext]_connectorVars =>
          [\A u \in stored \ stored' : LeavesRightly(u)]_connectorVars
  BY LeavesOnlyRightly
<1> QED BY <1>1, <1>2, PTL DEF ConnectorsSpec, UsageLeavesOnlyWithItsSource, LeavesRightly

-----------------------------------------------------------------------------
(* What a snapshot tells.                                                  *)

\* A read that calls itself complete has told, and all it told is supported.
IsRead(read) ==
    /\ read.complete \in BOOLEAN
    /\ read.complete => IsTold(read) /\ ~read.unsupported

\* What was answered to this refresh is an answer of the connector.
AskedInv ==
    /\ connector \in DOMAIN Accounts
    /\ last.asked \in BOOLEAN
    /\ last.asked =>
          /\ last.account \in Accounts[connector]
          /\ IsRead(last.read)
          /\ connector = "antigravity" => IsFiniteSet(last.read.usage)

\* The other fields of a snapshot.
Tells(snapshot, rejected, domains, quotas, usage, warnings) ==
    /\ snapshot.rejected = rejected
    /\ snapshot.domains = domains
    /\ snapshot.quotas = quotas
    /\ snapshot.usage = usage
    /\ snapshot.warnings = warnings

LEMMA ReconciledTells ==
    ASSUME NEW snapshot, snapshot = [f \in BlankFields |-> snapshot[f]],
           NEW read, NEW name, NEW retired, NEW rejected, NEW domains, NEW quotas, NEW usage,
           NEW warnings, Tells(snapshot, rejected, domains, quotas, usage, warnings)
    PROVE  Tells(Reconciled(snapshot, read, name, retired), rejected, domains, quotas, usage,
                 warnings)
  BY DEF Reconciled, Tells, BlankFields

LEMMA ClaudeTells ==
    ASSUME NEW account, NEW read
    PROVE  Tells(CollectClaude(account, read), ~IsTold(read), {"subscription"},
                 IF IsTold(account) THEN Buckets(account) ELSE {},
                 Usage("claude-transcript",
                       {[n |-> x.n, domain |-> "subscription"] : x \in read.usage}),
                 (IF IsTold(account) THEN <<>> ELSE <<"claude-quota">>) \o Incomplete(read))
<1> DEFINE r == ~IsTold(read)
           d == {"subscription"}
           q == IF IsTold(account) THEN Buckets(account) ELSE {}
           u == Usage("claude-transcript",
                      {[n |-> x.n, domain |-> "subscription"] : x \in read.usage})
           w == (IF IsTold(account) THEN <<>> ELSE <<"claude-quota">>) \o Incomplete(read)
           s == [Blank EXCEPT !.rejected = r, !.domains = d, !.quotas = q, !.usage = u,
                              !.warnings = w]
<1>1. s = [f \in BlankFields |-> s[f]] /\ Tells(s, r, d, q, u, w)
  <2> HIDE DEF r, d, q, u, w
  <2> QED BY DEF Blank, BlankFields, Tells
<1>2. CollectClaude(account, read) = Reconciled(s, read, "claude-transcript", {"claude-otel"})
  BY DEF CollectClaude
<1> HIDE DEF s, r, d, q, u, w
<1>3. Tells(Reconciled(s, read, "claude-transcript", {"claude-otel"}), r, d, q, u, w)
  BY <1>1, ReconciledTells
<1> QED BY <1>2, <1>3 DEF r, d, q, u, w

LEMMA GrokTells ==
    ASSUME NEW account, NEW read
    PROVE  LET quotas == IF IsTold(account) THEN GrokQuota(account) ELSE {}
           IN  Tells(CollectGrok(account, read), ~IsTold(read),
                     DomainsIn("grok-build-subscription", read), quotas,
                     Usage("grok-transcript", read.usage),
                     (IF quotas = {} THEN <<"grok-quota">> ELSE <<>>) \o Incomplete(read))
<1> DEFINE r == ~IsTold(read)
           d == DomainsIn("grok-build-subscription", read)
           q == IF IsTold(account) THEN GrokQuota(account) ELSE {}
           u == Usage("grok-transcript", read.usage)
           w == (IF q = {} THEN <<"grok-quota">> ELSE <<>>) \o Incomplete(read)
           s == [Blank EXCEPT !.rejected = r, !.domains = d, !.quotas = q, !.usage = u,
                              !.warnings = w]
<1>1. s = [f \in BlankFields |-> s[f]] /\ Tells(s, r, d, q, u, w)
  <2> HIDE DEF r, d, q, u, w
  <2> QED BY DEF Blank, BlankFields, Tells
<1>2. CollectGrok(account, read)
      = Reconciled(s, read, "grok-transcript", {"grok-otel", "grok-headless"})
  BY DEF CollectGrok
<1> HIDE DEF s, r, d, q, u, w
<1>3. Tells(Reconciled(s, read, "grok-transcript", {"grok-otel", "grok-headless"}),
            r, d, q, u, w)
  BY <1>1, ReconciledTells
<1> QED BY <1>2, <1>3 DEF r, d, q, u, w

LEMMA DshTells ==
    ASSUME NEW read
    PROVE  Tells(CollectDsh(read), FALSE, DomainsIn("deepseek-official", read), {},
                 Usage("dsh-transcript", read.usage),
                 IF ~IsTold(read) THEN <<"dsh-session-log-read-failed">>
                 ELSE IF read.unsupported THEN <<"dsh-session-format-unsupported">>
                 ELSE IF ~read.complete THEN <<"dsh-session-log-scan-incomplete">> ELSE <<>>)
<1> DEFINE d == DomainsIn("deepseek-official", read)
           u == Usage("dsh-transcript", read.usage)
           w == IF ~IsTold(read) THEN <<"dsh-session-log-read-failed">>
                ELSE IF read.unsupported THEN <<"dsh-session-format-unsupported">>
                ELSE IF ~read.complete THEN <<"dsh-session-log-scan-incomplete">> ELSE <<>>
           s == [Blank EXCEPT !.domains = d, !.usage = u, !.warnings = w]
<1>1. s = [f \in BlankFields |-> s[f]] /\ Tells(s, FALSE, d, {}, u, w)
  <2> HIDE DEF d, u, w
  <2> QED BY DEF Blank, BlankFields, Tells
<1>2. CollectDsh(read) = Reconciled(s, read, "dsh-transcript", {})
  BY DEF CollectDsh
<1> HIDE DEF s, d, u, w
<1>3. Tells(Reconciled(s, read, "dsh-transcript", {}), FALSE, d, {}, u, w)
  BY <1>1, ReconciledTells
<1> QED BY <1>2, <1>3 DEF d, u, w

LEMMA AntigravityTells ==
    ASSUME NEW account, NEW read
    PROVE  Tells(CollectAntigravity(account, read), FALSE,
                 DomainsIn("code-assist-subscription", read),
                 WithFallback(ServerQuota(account.ports),
                              {LocalBucket("5 hour", 1, SprintLimit, read),
                               LocalBucket("Week", 2, WeekLimit, read)}),
                 Usage("antigravity", read.usage),
                 IF ~IsTold(read) THEN <<"antigravity-sqlite-read-failed">>
                 ELSE IF read.complete THEN <<>> ELSE <<"antigravity-session-scan-incomplete">>)
<1> DEFINE d == DomainsIn("code-assist-subscription", read)
           q == WithFallback(ServerQuota(account.ports),
                             {LocalBucket("5 hour", 1, SprintLimit, read),
                              LocalBucket("Week", 2, WeekLimit, read)})
           u == Usage("antigravity", read.usage)
           w == IF ~IsTold(read) THEN <<"antigravity-sqlite-read-failed">>
                 ELSE IF read.complete THEN <<>> ELSE <<"antigravity-session-scan-incomplete">>
           s == [Blank EXCEPT !.domains = d, !.quotas = q, !.usage = u, !.warnings = w]
<1>1. s = [f \in BlankFields |-> s[f]] /\ Tells(s, FALSE, d, q, u, w)
  <2> HIDE DEF d, q, u, w
  <2> QED BY DEF Blank, BlankFields, Tells
<1>2. CollectAntigravity(account, read) = Reconciled(s, read, "antigravity", {})
  BY DEF CollectAntigravity
<1> HIDE DEF s, d, q, u, w
<1>3. Tells(Reconciled(s, read, "antigravity", {}), FALSE, d, q, u, w)
  BY <1>1, ReconciledTells
<1> QED BY <1>2, <1>3 DEF d, q, u, w

LEMMA CursorTells ==
    ASSUME NEW account
    PROVE  /\ CollectCursor(account).usage = {}
           /\ CollectCursor(account).rejected = FALSE
           /\ CollectCursor(account).warnings = IF IsTold(account) THEN <<>> ELSE <<"cursor-quota">>
  BY DEF CollectCursor, Blank

LEMMA GoTells ==
    ASSUME NEW account, NEW read
    PROVE  /\ CollectGo(account, read).usage = {}
           /\ CollectGo(account, read).rejected = FALSE
           /\ CollectGo(account, read).warnings
              = (IF IsTold(account) THEN <<>> ELSE <<GoFailure(account.status)>>) \o
                (IF IsTold(read) THEN <<>> ELSE <<"opencode-local-history">>)
  BY DEF CollectGo, Blank

-----------------------------------------------------------------------------
(* Warnings.                                                               *)

LEMMA NoWarnings ==
    ASSUME NEW Codes, NEW v \in Seq(Codes), NEW w \in Seq(Codes)
    PROVE  /\ v \o w \in Seq(Codes)
           /\ (v \o w = <<>>) <=> (v = <<>> /\ w = <<>>)
<1>1. v \o w \in Seq(Codes) /\ Len(v \o w) = Len(v) + Len(w)
  OBVIOUS
<1>2. Len(v) \in Nat /\ Len(w) \in Nat
  OBVIOUS
<1>3. (v \o w = <<>>) <=> Len(v \o w) = 0
  BY <1>1
<1>4. (v = <<>> <=> Len(v) = 0) /\ (w = <<>> <=> Len(w) = 0)
  OBVIOUS
<1> QED BY <1>1, <1>2, <1>3, <1>4

\* The warning about a source, unless it told.
LEMMA OneWarning ==
    ASSUME NEW Codes, NEW code \in Codes, NEW told
    PROVE  /\ (IF told THEN <<>> ELSE <<code>>) \in Seq(Codes)
           /\ (IF told THEN <<>> ELSE <<code>>) = <<>> <=> told
<1>1. <<code>> \in Seq(Codes)
  OBVIOUS
<1>2. <<code>> # <<>>
  OBVIOUS
<1>3. <<>> \in Seq(Codes)
  OBVIOUS
<1> QED BY <1>1, <1>2, <1>3

\* Two sources.
LEMMA TwoWarnings ==
    ASSUME NEW c, NEW d, NEW told1, NEW told2
    PROVE  ((IF told1 THEN <<>> ELSE <<c>>) \o (IF told2 THEN <<>> ELSE <<d>>) = <<>>)
           <=> (told1 /\ told2)
<1> DEFINE v == IF told1 THEN <<>> ELSE <<c>>
           w == IF told2 THEN <<>> ELSE <<d>>
<1>1. v \in Seq({c, d}) /\ (v = <<>> <=> told1)
  BY OneWarning
<1>2. w \in Seq({c, d}) /\ (w = <<>> <=> told2)
  BY OneWarning
<1> HIDE DEF v, w
<1>3. (v \o w = <<>>) <=> (v = <<>> /\ w = <<>>)
  BY <1>1, <1>2, NoWarnings
<1> QED BY <1>1, <1>2, <1>3 DEF v, w

LEMMA XaiWarns ==
    ASSUME NEW account
    PROVE  XaiWarnings(account) = <<>> <=>
              /\ \A e \in Endpoints : IsTold(account[e])
              /\ ~account.usage.limitReached
<1> DEFINE Codes == {EndpointFailure(account[e].status) : e \in Endpoints}
                    \cup {"xai-api-history-partial"}
           partial == IF IsTold(account.usage) /\ account.usage.limitReached
                      THEN <<"xai-api-history-partial">> ELSE <<>>
           f1 == Failure(account.usage)
           f2 == Failure(account.balance)
           f3 == Failure(account.limits)
           f4 == Failure(account.preview)
           f5 == Failure(account.invoices)
<1>1. ASSUME NEW e \in Endpoints
      PROVE  Failure(account[e]) \in Seq(Codes) /\ (Failure(account[e]) = <<>> <=> IsTold(account[e]))
  <2> DEFINE code == EndpointFailure(account[e].status)
             told == IsTold(account[e])
  <2>1. code \in Codes
    OBVIOUS
  <2>2. Failure(account[e]) = IF told THEN <<>> ELSE <<code>>
    BY DEF Failure
  <2> HIDE DEF code, told, Codes
  <2>3. (IF told THEN <<>> ELSE <<code>>) \in Seq(Codes) /\ ((IF told THEN <<>> ELSE <<code>>) = <<>> <=> told)
    BY <2>1, OneWarning
  <2> QED BY <2>2, <2>3 DEF told
<1>2. /\ f1 \in Seq(Codes) /\ (f1 = <<>> <=> IsTold(account.usage))
      /\ f2 \in Seq(Codes) /\ (f2 = <<>> <=> IsTold(account.balance))
      /\ f3 \in Seq(Codes) /\ (f3 = <<>> <=> IsTold(account.limits))
      /\ f4 \in Seq(Codes) /\ (f4 = <<>> <=> IsTold(account.preview))
      /\ f5 \in Seq(Codes) /\ (f5 = <<>> <=> IsTold(account.invoices))
  <2> HIDE DEF Codes
  <2> QED BY <1>1 DEF Endpoints
<1>3. partial \in Seq(Codes) /\ (partial = <<>> <=> ~(IsTold(account.usage) /\ account.usage.limitReached))
  <2> DEFINE told == ~(IsTold(account.usage) /\ account.usage.limitReached)
  <2>1. "xai-api-history-partial" \in Codes
    OBVIOUS
  <2>2. partial = IF told THEN <<>> ELSE <<"xai-api-history-partial">>
    OBVIOUS
  <2> HIDE DEF told, Codes, partial
  <2>3. partial \in Seq(Codes) /\ (partial = <<>> <=> told)
    BY <2>1, <2>2, OneWarning
  <2> QED BY <2>3 DEF told
<1>4. XaiWarnings(account) = f1 \o f2 \o f3 \o f4 \o f5 \o partial
  BY DEF XaiWarnings
<1> HIDE DEF Codes, f1, f2, f3, f4, f5, partial
<1>5. f1 \o f2 \in Seq(Codes) /\ (f1 \o f2 = <<>> <=> (f1 = <<>> /\ f2 = <<>>))
  BY <1>2, NoWarnings
<1>6. f1 \o f2 \o f3 \in Seq(Codes) /\ (f1 \o f2 \o f3 = <<>> <=> (f1 \o f2 = <<>> /\ f3 = <<>>))
  BY <1>2, <1>5, NoWarnings
<1>7. f1 \o f2 \o f3 \o f4 \in Seq(Codes)
      /\ (f1 \o f2 \o f3 \o f4 = <<>> <=> (f1 \o f2 \o f3 = <<>> /\ f4 = <<>>))
  BY <1>2, <1>6, NoWarnings
<1>8. f1 \o f2 \o f3 \o f4 \o f5 \in Seq(Codes)
      /\ (f1 \o f2 \o f3 \o f4 \o f5 = <<>> <=> (f1 \o f2 \o f3 \o f4 = <<>> /\ f5 = <<>>))
  BY <1>2, <1>7, NoWarnings
<1>9. f1 \o f2 \o f3 \o f4 \o f5 \o partial = <<>>
      <=> (f1 \o f2 \o f3 \o f4 \o f5 = <<>> /\ partial = <<>>)
  BY <1>3, <1>8, NoWarnings
<1>10. (\A e \in Endpoints : IsTold(account[e])) <=>
          (IsTold(account.usage) /\ IsTold(account.balance) /\ IsTold(account.limits)
           /\ IsTold(account.preview) /\ IsTold(account.invoices))
  BY DEF Endpoints
<1> QED BY <1>2, <1>3, <1>4, <1>5, <1>6, <1>7, <1>8, <1>9, <1>10

LEMMA XaiTells ==
    ASSUME NEW account
    PROVE  /\ CollectXai(account).rejected = FALSE
           /\ CollectXai(account).domains = {"xai-api"}
           /\ \A u \in CollectXai(account).usage : u.domain = "xai-api"
           /\ CollectXai(account).warnings = <<>> <=>
                 /\ account.key.state \notin {"missing", "failed"}
                 /\ TeamId(account.key) # "none"
                 /\ \A e \in Endpoints : IsTold(account[e])
                 /\ ~account.usage.limitReached
<1>1. CASE account.key.state \in {"missing", "failed"} \/ TeamId(account.key) = "none"
  <2>1. PICK code : CollectXai(account) = [Blank EXCEPT !.domains = {"xai-api"}, !.warnings = <<code>>]
    BY <1>1 DEF CollectXai
  <2>2. <<code>> # <<>>
    OBVIOUS
  <2> QED BY <1>1, <2>1, <2>2 DEF Blank
<1>2. CASE ~(account.key.state \in {"missing", "failed"} \/ TeamId(account.key) = "none")
  <2> DEFINE u == {[prefix |-> "xai-invoice", n |-> <<t.invoice, t.model>>,
                    domain |-> "xai-api"] : t \in AccountTokens(account)}
             q == XaiQuotas(account)
             b == Balances(account)
             c == UsageCosts(account)
             w == XaiWarnings(account)
  <2>1. CollectXai(account) = [Blank EXCEPT !.domains = {"xai-api"}, !.quotas = q, !.usage = u,
                                            !.balances = b, !.costs = c, !.warnings = w]
    BY <1>2 DEF CollectXai
  <2>2. \A x \in u : x.domain = "xai-api"
    OBVIOUS
  <2>3. w = <<>> <=> /\ \A e \in Endpoints : IsTold(account[e])
                     /\ ~account.usage.limitReached
    BY XaiWarns
  <2> HIDE DEF u, q, b, c, w
  <2> QED BY <1>2, <2>1, <2>2, <2>3 DEF Blank
<1> QED BY <1>1, <1>2

-----------------------------------------------------------------------------
(* Percentages and windows.                                                *)

LEMMA BoundedIs == \A percent \in Int : Bounded(percent) \in 0 .. 100
<1> SUFFICES ASSUME NEW percent \in Int
             PROVE  Bounded(percent) \in 0 .. 100
  OBVIOUS
<1> DEFINE low == Min({100, percent})
<1>1. low \in Int /\ low <= 100
  <2>1. \E x \in {100, percent} : \A y \in {100, percent} : x <= y
    BY Z3
  <2>2. low \in {100, percent} /\ \A y \in {100, percent} : low <= y
    BY <2>1 DEF Min
  <2> HIDE DEF low
  <2> QED BY <2>2
<1> HIDE DEF low
<1> DEFINE high == Max({0, low})
<1>2. high \in {0, low} /\ \A y \in {0, low} : high >= y
  <2>1. \E x \in {0, low} : \A y \in {0, low} : x >= y
    BY <1>1, Z3
  <2> QED BY <2>1 DEF Max
<1> HIDE DEF high
<1>3. high \in 0 .. 100
  BY <1>1, <1>2
<1> QED BY <1>3 DEF Bounded, high, low

LEMMA PercentIs ==
    ASSUME NEW used \in Nat, NEW limit \in Nat \ {0}
    PROVE  Percent(used, limit) \in 0 .. 100
<1>1. (100 * used) \div limit \in Int
  OBVIOUS
<1>2. Unstated \notin {used, limit} /\ ~(limit <= 0)
  BY DEF Unstated
<1> QED BY <1>1, <1>2, BoundedIs DEF Percent

LEMMA LocalIs ==
    ASSUME NEW window, NEW length, NEW limit \in Nat \ {0}, NEW read, IsFiniteSet(read.usage)
    PROVE  /\ LocalBucket(window, length, limit, read).group = "gemini"
           /\ LocalBucket(window, length, limit, read).window = window
           /\ LocalBucket(window, length, limit, read).from = "local"
           /\ LocalBucket(window, length, limit, read).used \in 0 .. 100
<1> DEFINE recent == {r \in read.usage : rows[r.n[1]][r.n[2]] >= instant - length}
<1>1. Cardinality(recent) \in Nat
  BY FS_Subset, FS_CardinalityType
<1>2. Percent(Cardinality(recent), limit) \in 0 .. 100
  BY <1>1, PercentIs
<1> QED BY <1>2 DEF LocalBucket

LEMMA ServerIs ==
    ASSUME NEW ports, IsSequence(ports),
           \A i \in DOMAIN ports : ports[i].state = "told" =>
               \A b \in ports[i].groups : b.remaining \in Int
    PROVE  \A b \in ServerQuota(ports) : b.used \in 0 .. 100 \cup {Unstated}
<1> DEFINE answering == {i \in DOMAIN ports : ports[i].state = "told" /\ ports[i].groups # {}}
<1> SUFFICES ASSUME answering # {}
             PROVE  \A b \in ServerBuckets(ports[Min(answering)].groups) :
                        b.used \in 0 .. 100 \cup {Unstated}
  BY DEF ServerQuota
<1>1. answering \in SUBSET Nat
  BY DEF IsSequence
<1>2. PICK least \in answering : \A i \in answering : least <= i
  BY <1>1, LeastNatural
<1>3. Min(answering) \in answering
  BY <1>2 DEF Min
<1>4. \A b \in ports[Min(answering)].groups : b.remaining \in Int
  BY <1>3
<1> HIDE DEF answering
<1> DEFINE groups == ports[Min(answering)].groups
<1> HIDE DEF groups
<1>5. \A b \in groups : b.remaining \in Int
  BY <1>4 DEF groups
<1>6. ASSUME NEW b \in groups
      PROVE  (IF b.remaining = Unstated THEN Unstated ELSE Bounded(100 - b.remaining))
             \in 0 .. 100 \cup {Unstated}
  <2>1. 100 - b.remaining \in Int
    BY <1>5
  <2>2. Bounded(100 - b.remaining) \in 0 .. 100
    BY <2>1, BoundedIs
  <2> QED BY <2>2
<1>7. ASSUME NEW b \in ServerBuckets(groups)
      PROVE  b.used \in 0 .. 100 \cup {Unstated}
  <2>1. PICK x \in {y \in groups : y.window \in {"5 hour", "Week"}} :
           b = [group |-> x.group, window |-> x.window, from |-> "server", resets |-> Unstated,
                used |-> IF x.remaining = Unstated THEN Unstated ELSE Bounded(100 - x.remaining)]
    BY Zenon DEF ServerBuckets
  <2> QED BY <1>6, <2>1
<1> QED BY <1>7 DEF groups

LEMMA FallbackTells ==
    ASSUME NEW server, NEW sprint, NEW week,
           sprint.group = "gemini", sprint.window = "5 hour", sprint.from = "local",
           week.group = "gemini", week.window = "Week", week.from = "local"
    PROVE  WindowsAreTold(WithFallback(server, {sprint, week}), server)
<1> DEFINE of(buckets, window) == {b \in buckets : b.group = "gemini" /\ b.window = window}
           all == WithFallback(server, {sprint, week})
<1>1. all = server \cup {b \in {sprint, week} : of(server, b.window) = {}}
  BY DEF WithFallback
<1>2. ASSUME NEW window \in {"5 hour", "Week"}, of(server, window) # {}
      PROVE  of(all, window) = of(server, window)
  BY <1>1, <1>2
<1>3. ASSUME of(server, "5 hour") = {}
      PROVE  of(all, "5 hour") = {sprint}
  BY <1>1, <1>3
<1>4. ASSUME of(server, "Week") = {}
      PROVE  of(all, "Week") = {week}
  BY <1>1, <1>4
<1> SUFFICES ASSUME NEW window \in {"5 hour", "Week"}
             PROVE  IF of(server, window) # {} THEN of(all, window) = of(server, window)
                    ELSE \A b \in of(all, window) : b.from = "local"
  BY DEF WindowsAreTold
<1> HIDE DEF all, of
<1> QED BY <1>2, <1>3, <1>4

-----------------------------------------------------------------------------
(* The tokens of an invoice.                                               *)

LEMMA InvoiceIsTold ==
    ASSUME NEW invoice, IsSequence(invoice.lines),
           \A i \in DOMAIN invoice.lines : invoice.lines[i].units \in Int
    PROVE  TokensAreTold(invoice)
<1> DEFINE S == DOMAIN invoice.lines
           kind(i) == TokenKind(invoice.lines[i].unit)
           weight == [i \in S |-> IF kind(i) = "none" THEN 0 ELSE invoice.lines[i].units]
           lines == {i \in S : kind(i) # "none"}
           of(model) == {i \in lines : invoice.lines[i].model = model}
           part(model, k) == {i \in of(model) : kind(i) = k}
           models == {invoice.lines[i].model : i \in lines}
           tokens(model) == [k \in TokenKinds |->
                                SumFunction([i \in part(model, k) |-> invoice.lines[i].units])]
           told == [model \in models |-> [invoice |-> invoice.id, model |-> model,
                                          tokens |-> tokens(model)]]
           byModel == [model \in models |-> Sum(weight, of(model))]
           each == [t \in InvoiceTokens(invoice) |-> SumFunction(t.tokens)]
<1>1. IsFiniteSet(S) /\ \A i \in S : weight[i] \in Int
  BY FS_Interval DEF IsSequence
<1>2. IsFiniteSet(lines) /\ lines \in SUBSET S /\ \A i \in S \ lines : weight[i] = 0
  BY <1>1, FS_Subset
<1>3. \A i \in lines : kind(i) \in TokenKinds
  BY DEF TokenKind, TokenKinds
<1>4. IsFiniteSet(models)
  <2> DEFINE g == [i \in lines |-> invoice.lines[i].model]
  <2>1. models = {g[i] : i \in lines}
    OBVIOUS
  <2> HIDE DEF g, models, lines
  <2> QED BY <1>2, <2>1, ImageIsFinite
<1>5. InvoiceTokens(invoice) = {told[model] : model \in models}
  BY DEF InvoiceTokens
<1>6. ASSUME NEW model \in models, NEW k \in TokenKinds
      PROVE  /\ IsFiniteSet(part(model, k)) /\ part(model, k) \in SUBSET S
             /\ tokens(model)[k] = Sum(weight, part(model, k))
             /\ tokens(model)[k] \in Int
  <2> DEFINE P == part(model, k)
             u == [i \in P |-> invoice.lines[i].units]
  <2>1. IsFiniteSet(P) /\ P \in SUBSET S
    BY <1>1, FS_Subset
  <2>2. \A i \in P : u[i] = weight[i] /\ weight[i] \in Int
    BY <1>1
  <2>3. tokens(model)[k] = SumFunction(u)
    OBVIOUS
  <2>4. DOMAIN u = P
    OBVIOUS
  <2> HIDE DEF P, u, weight
  <2>5. SumFunction(u) = Sum(u, P)
    BY <2>4, SumOfFunction
  <2>6. Sum(u, P) = Sum(weight, P)
    BY <2>1, <2>2, SumCongruent DEF Agree
  <2>7. Sum(weight, P) \in Int
    BY <2>1, <2>2, SumInt
  <2> QED BY <2>1, <2>3, <2>5, <2>6, <2>7 DEF P
<1>7. ASSUME NEW model \in models
      PROVE  Sum(weight, of(model)) = SumFunction(tokens(model))
  <2> DEFINE F == [k \in TokenKinds |-> part(model, k)]
             v == tokens(model)
  <2>1. IsFiniteSet(TokenKinds)
    <3>1. IsFiniteSet({"input"} \cup {"output"}) /\ IsFiniteSet({"reasoning"} \cup {"cacheRead"})
      BY FS_Singleton, FS_Union
    <3>2. TokenKinds = ({"input"} \cup {"output"}) \cup ({"reasoning"} \cup {"cacheRead"})
      BY DEF TokenKinds
    <3> QED BY <3>1, <3>2, FS_Union
  <2>2. \A k \in TokenKinds : IsFiniteSet(F[k])
    BY <1>6
  <2>3. AreApart(F, TokenKinds)
    BY DEF AreApart
  <2>4. \A k \in TokenKinds : IsOfInts(weight, F[k])
    BY <1>1 DEF IsOfInts
  <2>5. \A k \in TokenKinds : v[k] = Sum(weight, F[k])
    BY <1>6
  <2>6. UNION {F[k] : k \in TokenKinds} = of(model)
    BY <1>3
  <2>7. DOMAIN v = TokenKinds
    OBVIOUS
  <2> HIDE DEF F, v, weight
  <2>8. Sum(weight, UNION {F[k] : k \in TokenKinds}) = Sum(v, TokenKinds)
    BY <2>1, <2>2, <2>3, <2>4, <2>5, SumOfGroups
  <2>9. SumFunction(v) = Sum(v, TokenKinds)
    BY <2>7, SumOfFunction
  <2> QED BY <2>6, <2>8, <2>9 DEF v
<1>8. /\ \A model \in models : IsFiniteSet(of(model)) /\ of(model) \in SUBSET S
      /\ \A model \in models : Sum(weight, of(model)) \in Int
  <2>1. \A model \in models : IsFiniteSet(of(model)) /\ of(model) \in SUBSET S
    BY <1>1, FS_Subset
  <2> HIDE DEF of, weight, models, S
  <2> QED BY <1>1, <2>1, SumInt
<1>9. Sum(weight, lines) = Sum(byModel, models)
  <2> DEFINE F == [model \in models |-> of(model)]
  <2>1. \A model \in models : IsFiniteSet(F[model]) /\ IsOfInts(weight, F[model])
    BY <1>1, <1>8 DEF IsOfInts
  <2>2. AreApart(F, models)
    BY DEF AreApart
  <2>3. UNION {F[model] : model \in models} = lines
    <3>1. ASSUME NEW i \in lines
          PROVE  \E model \in models : i \in F[model]
      <4> DEFINE model == invoice.lines[i].model
      <4>1. model \in models /\ i \in of(model)
        BY <3>1
      <4>2. F[model] = of(model)
        BY <4>1
      <4> QED BY <4>1, <4>2
    <3>2. \A model \in models : F[model] \subseteq lines
      OBVIOUS
    <3> HIDE DEF F, lines, models
    <3> QED BY <3>1, <3>2
  <2>4. \A model \in models : byModel[model] = Sum(weight, F[model])
    OBVIOUS
  <2> HIDE DEF F, weight, models, lines, byModel
  <2>5. Sum(weight, UNION {F[model] : model \in models}) = Sum(byModel, models)
    BY <1>4, <2>1, <2>2, <2>4, SumOfGroups
  <2> QED BY <2>3, <2>5
<1>10. Sum(each, {told[model] : model \in models}) = Sum(byModel, models)
  <2>1. AreDistinct(told, models)
    BY DEF AreDistinct
  <2>2. ASSUME NEW model \in models
        PROVE  byModel[model] = each[told[model]] /\ byModel[model] \in Int
    <3>1. told[model] \in InvoiceTokens(invoice) /\ told[model].tokens = tokens(model)
      BY <1>5
    <3>2. each[told[model]] = SumFunction(told[model].tokens)
      BY <3>1
    <3>3. byModel[model] = Sum(weight, of(model))
      OBVIOUS
    <3> HIDE DEF each, told, byModel, tokens, weight, of, models
    <3> QED BY <1>7, <1>8, <3>1, <3>2, <3>3
  <2> HIDE DEF told, each, byModel, models
  <2> QED BY <1>4, <2>1, <2>2, SumOfImage
<1>11. SumFunction(each) = Sum(each, InvoiceTokens(invoice))
  <2>1. DOMAIN each = InvoiceTokens(invoice)
    OBVIOUS
  <2> HIDE DEF each
  <2> QED BY <2>1, SumOfFunction
<1>12. SumFunction(weight) = Sum(weight, S)
  <2>1. DOMAIN weight = S
    OBVIOUS
  <2> HIDE DEF weight, S
  <2> QED BY <2>1, SumOfFunction
<1>13. Sum(weight, S) = Sum(weight, lines)
  <2> HIDE DEF weight, S, lines
  <2> QED BY <1>1, <1>2, SumOfSome DEF IsOfInts
<1>14. SumFunction(each) = SumFunction(weight)
  <2> HIDE DEF each, weight, told, byModel, models, lines, S
  <2> QED BY <1>5, <1>9, <1>10, <1>11, <1>12, <1>13
<1> QED BY <1>14 DEF TokensAreTold

-----------------------------------------------------------------------------
(* What was asked.                                                         *)

LEMMA DatabasesAreFinite ==
    ASSUME NEW cache, NEW hidden, NEW unreadable
    PROVE  LET read == DatabaseHistory(cache, Listed(hidden), unreadable)
           IN  IsRead(read) /\ IsFiniteSet(read.usage)
<1> DEFINE listed == Listed(hidden)
           told == {y \in listed \X (1 .. MaxTurns) : y[2] \in RowsTold(cache, y[1], unreadable)}
           g == [x \in told |-> [n |-> x, domain |-> "code-assist-subscription"]]
<1>1. IsFiniteSet(listed)
  BY LimitsAssumption, FS_Subset DEF LimitsAssumption, Listed
<1>2. IsFiniteSet(1 .. MaxTurns)
  BY AnswersAssumption, FS_Interval DEF AnswersAssumption
<1>3. IsFiniteSet(told)
  <2> HIDE DEF listed
  <2>1. IsFiniteSet(listed \X (1 .. MaxTurns))
    BY <1>1, <1>2, FS_Product
  <2> QED BY <2>1, FS_Subset
<1>4. DatabaseHistory(cache, listed, unreadable).usage = {g[x] : x \in told}
  BY DEF DatabaseHistory
<1>5. IsFiniteSet({g[x] : x \in told})
  <2> HIDE DEF g, told
  <2> QED BY <1>3, ImageIsFinite
<1>6. IsRead(DatabaseHistory(cache, listed, unreadable))
  BY DEF DatabaseHistory, IsRead, IsTold
<1> QED BY <1>4, <1>5, <1>6

LEMMA HistoriesAreRead == \A read \in Histories(held) : IsRead(read)
<1> SUFFICES ASSUME NEW read \in Histories(held)
             PROVE  IsRead(read)
  OBVIOUS
<1>1. CASE read = Unread
  BY <1>1 DEF Unread, IsRead
<1>2. CASE read = [state |-> "told", usage |-> held, complete |-> TRUE, unsupported |-> FALSE]
  BY <1>2 DEF IsRead, IsTold
<1>3. CASE read \in [state : {"told"}, usage : SUBSET held, complete : {FALSE},
                     unsupported : BOOLEAN]
  BY <1>3 DEF IsRead
<1> QED BY <1>1, <1>2, <1>3 DEF Histories

LEMMA InitAsked == ConnectorsInit => AskedInv
  BY DEF ConnectorsInit, AskedInv, NoAnswer

LEMMA NextAsked == AskedInv /\ [ConnectorsNext]_connectorVars => AskedInv'
<1> SUFFICES ASSUME AskedInv, [ConnectorsNext]_connectorVars
             PROVE  AskedInv'
  OBVIOUS
<1>1. CASE Collects
  <2>1. PICK account \in Accounts[connector], read \in Histories(held) :
            last' = [asked |-> TRUE, account |-> account, read |-> read]
    BY <1>1 DEF Collects, Answered
  <2>2. connector' = connector /\ connector # "antigravity"
    BY <1>1 DEF Collects
  <2> QED BY <2>1, <2>2, HistoriesAreRead DEF AskedInv
<1>2. CASE CollectsDatabases
  <2>1. PICK account \in Accounts[connector], hidden \in SUBSET Conversations,
             unreadable \in SUBSET Conversations, cache \in {fileCache, <<>>} :
            last' = [asked |-> TRUE, account |-> account, hidden |-> hidden,
                     read |-> DatabaseHistory(cache, Listed(hidden), unreadable)]
    BY <1>2 DEF CollectsDatabases, Answered
  <2>2. connector' = connector
    BY <1>2 DEF CollectsDatabases
  <2> QED BY <2>1, <2>2, DatabasesAreFinite DEF AskedInv
<1>7. CASE FailsToReadDatabases
  <2>1. PICK account \in Accounts[connector] :
            last' = [asked |-> TRUE, account |-> account, hidden |-> {}, read |-> Unread]
    BY <1>7 DEF FailsToReadDatabases, Answered
  <2>2. connector' = connector
    BY <1>7 DEF FailsToReadDatabases
  <2>3. IsRead(Unread) /\ IsFiniteSet(Unread.usage)
    BY FS_EmptySet DEF IsRead, Unread
  <2> QED BY <2>1, <2>2, <2>3 DEF AskedInv
<1>3. CASE last' = NoAnswer /\ connector' = connector
  BY <1>3 DEF AskedInv, NoAnswer
<1>4. CASE last' = last /\ connector' = connector
  BY <1>4 DEF AskedInv
<1>5. WaitsForNextRefresh => last' = NoAnswer /\ connector' = connector
  BY DEF WaitsForNextRefresh
<1>6. ASSUME \/ HistoryChanges \/ IngestsTelemetry \/ \E c \in Conversations : Generates(c) \/ Checkpoints(c)
             \/ TimeGoesOn \/ RestartClient \/ UNCHANGED connectorVars
      PROVE  last' = last /\ connector' = connector
  BY <1>6 DEF HistoryChanges, IngestsTelemetry, Generates, Checkpoints, TimeGoesOn,
                   RestartClient, agentVars, connectorVars
<1> QED BY <1>1, <1>2, <1>3, <1>4, <1>5, <1>6, <1>7 DEF ConnectorsNext

\* Usage is of the domains that are named with it.
LEMMA DomainsAreNamed ==
    ASSUME NEW prefix, NEW primary, NEW read
    PROVE  \A u \in Usage(prefix, read.usage) : u.domain \in DomainsIn(primary, read)
  BY DEF Usage, DomainsIn

LEMMA AskedTells == AskedInv => SnapshotsTellTheirSources
<1> SUFFICES ASSUME AskedInv, last.asked
             PROVE  LET s == Snapshot(last)
                    IN  /\ (s.warnings = <<>>) <=> (SourcesHaveTold /\ ~s.rejected)
                        /\ \A u \in s.usage : u.domain \in s.domains
                        /\ connector = "xai-api" /\ last.account.key.state = "told" =>
                              \A i \in (IF IsTold(last.account.invoices)
                                        THEN last.account.invoices.list ELSE {}) :
                                  TokensAreTold(i)
                        /\ connector = "antigravity" =>
                              /\ WindowsAreTold(s.quotas, ServerQuota(last.account.ports))
                              /\ \A b \in s.quotas : b.used \in 0 .. 100 \cup {Unstated}
  BY DEF SnapshotsTellTheirSources
<1> DEFINE account == last.account
           read == last.read
<1>0. account \in Accounts[connector] /\ connector \in DOMAIN Accounts /\ IsRead(read)
  BY DEF AskedInv
<1>1. CASE connector = "claude-code"
  <2> DEFINE s == CollectClaude(account, read)
  <2>1. Snapshot(last) = s
    BY <1>1 DEF Snapshot
  <2>2. Incomplete(read) = IF read.complete THEN <<>> ELSE <<"local-transcript-scan-incomplete">>
    BY DEF Incomplete
  <2>3. /\ s.rejected = ~IsTold(read)
        /\ s.domains = {"subscription"}
        /\ s.usage = Usage("claude-transcript", {[n |-> x.n, domain |-> "subscription"] : x \in read.usage})
        /\ s.warnings = (IF IsTold(account) THEN <<>> ELSE <<"claude-quota">>) \o Incomplete(read)
    <3> HIDE DEF account, read
    <3>1. Tells(s, ~IsTold(read), {"subscription"},
                IF IsTold(account) THEN Buckets(account) ELSE {},
                Usage("claude-transcript",
                      {[n |-> x.n, domain |-> "subscription"] : x \in read.usage}),
                (IF IsTold(account) THEN <<>> ELSE <<"claude-quota">>) \o Incomplete(read))
      BY ClaudeTells
    <3> HIDE DEF s
    <3> QED BY <3>1 DEF Tells
  <2>4. (s.warnings = <<>>) <=> (IsTold(account) /\ read.complete)
    <3> HIDE DEF s, account, read
    <3> QED BY <2>2, <2>3, TwoWarnings
  <2>5. SourcesHaveTold <=> (IsTold(account) /\ read.complete)
    BY <1>1 DEF SourcesHaveTold
  <2>6. \A u \in s.usage : u.domain \in s.domains
    <3> HIDE DEF s
    <3> QED BY <2>3 DEF Usage
  <2> HIDE DEF s
  <2> QED BY <1>0, <1>1, <2>1, <2>3, <2>4, <2>5, <2>6 DEF IsRead
<1>2. CASE connector = "grok"
  <2> DEFINE s == CollectGrok(account, read)
             quotas == IF IsTold(account) THEN GrokQuota(account) ELSE {}
  <2>1. Snapshot(last) = s
    BY <1>2 DEF Snapshot
  <2>2. Incomplete(read) = IF read.complete THEN <<>> ELSE <<"local-transcript-scan-incomplete">>
    BY DEF Incomplete
  <2>3. /\ s.rejected = ~IsTold(read)
        /\ s.domains = DomainsIn("grok-build-subscription", read)
        /\ s.usage = Usage("grok-transcript", read.usage)
        /\ s.warnings = (IF quotas = {} THEN <<"grok-quota">> ELSE <<>>) \o Incomplete(read)
    <3> HIDE DEF account, read
    <3>1. Tells(s, ~IsTold(read), DomainsIn("grok-build-subscription", read), quotas,
                Usage("grok-transcript", read.usage),
                (IF quotas = {} THEN <<"grok-quota">> ELSE <<>>) \o Incomplete(read))
      BY GrokTells
    <3> HIDE DEF s, quotas
    <3> QED BY <3>1 DEF Tells
  <2>4. (s.warnings = <<>>) <=> (quotas # {} /\ read.complete)
    <3> HIDE DEF s, account, read, quotas
    <3>1. (IF quotas = {} THEN <<"grok-quota">> ELSE <<>>) = (IF quotas # {} THEN <<>> ELSE <<"grok-quota">>)
      OBVIOUS
    <3> QED BY <2>2, <2>3, <3>1, TwoWarnings
  <2>5. SourcesHaveTold <=> (quotas # {} /\ read.complete)
    BY <1>2 DEF SourcesHaveTold
  <2>6. \A u \in s.usage : u.domain \in s.domains
    <3> HIDE DEF s
    <3> QED BY <2>3, DomainsAreNamed
  <2> HIDE DEF s, quotas
  <2> QED BY <1>0, <1>2, <2>1, <2>3, <2>4, <2>5, <2>6 DEF IsRead
<1>3. CASE connector = "cursor"
  <2> DEFINE s == CollectCursor(account)
  <2>1. Snapshot(last) = s
    BY <1>3 DEF Snapshot
  <2>2. <<"cursor-quota">> # <<>>
    OBVIOUS
  <2>3. s.usage = {} /\ s.rejected = FALSE /\ (s.warnings = <<>> <=> IsTold(account))
    BY <2>2, CursorTells
  <2>4. SourcesHaveTold <=> IsTold(account)
    BY <1>3 DEF SourcesHaveTold
  <2> HIDE DEF s
  <2> QED BY <1>3, <2>1, <2>3, <2>4
<1>4. CASE connector = "dsh"
  <2> DEFINE s == CollectDsh(read)
  <2>1. Snapshot(last) = s
    BY <1>4 DEF Snapshot
  <2>2. /\ s.rejected = FALSE
        /\ s.domains = DomainsIn("deepseek-official", read)
        /\ s.usage = Usage("dsh-transcript", read.usage)
        /\ s.warnings = IF ~IsTold(read) THEN <<"dsh-session-log-read-failed">>
                        ELSE IF read.unsupported THEN <<"dsh-session-format-unsupported">>
                        ELSE IF ~read.complete THEN <<"dsh-session-log-scan-incomplete">> ELSE <<>>
    BY DshTells, Zenon DEF Tells
  <2>3. \A code : <<code>> # <<>>
    OBVIOUS
  <2>4. (s.warnings = <<>>) <=> read.complete
    <3> HIDE DEF s, read
    <3> QED BY <1>0, <2>2, <2>3 DEF IsRead
  <2>5. SourcesHaveTold <=> read.complete
    BY <1>4 DEF SourcesHaveTold
  <2>6. \A u \in s.usage : u.domain \in s.domains
    <3> HIDE DEF s
    <3> QED BY <2>2, DomainsAreNamed
  <2> HIDE DEF s
  <2> QED BY <1>4, <2>1, <2>2, <2>4, <2>5, <2>6
<1>5. CASE connector = "opencode-go"
  <2> DEFINE s == CollectGo(account, read)
  <2>1. Snapshot(last) = s
    BY <1>5 DEF Snapshot
  <2>2. /\ s.usage = {} /\ s.rejected = FALSE
        /\ s.warnings = (IF IsTold(account) THEN <<>> ELSE <<GoFailure(account.status)>>) \o
                        (IF IsTold(read) THEN <<>> ELSE <<"opencode-local-history">>)
    BY GoTells, Zenon
  <2>3. (s.warnings = <<>>) <=> (IsTold(account) /\ IsTold(read))
    <3> HIDE DEF s, account, read
    <3> QED BY <2>2, TwoWarnings
  <2>4. SourcesHaveTold <=> (IsTold(account) /\ IsTold(read))
    BY <1>5 DEF SourcesHaveTold
  <2> HIDE DEF s
  <2> QED BY <1>5, <2>1, <2>2, <2>3, <2>4
<1>6. CASE connector = "xai-api"
  <2> DEFINE s == CollectXai(account)
  <2>1. Snapshot(last) = s
    BY <1>6 DEF Snapshot
  <2>2. /\ account.key.state \in {"told", "missing", "failed"}
        /\ account.invoices.state = "told" =>
               \A i \in account.invoices.list :
                   IsSequence(i.lines) /\ \A j \in DOMAIN i.lines : i.lines[j].units \in Int
    BY <1>0, <1>6, SchemasAssumption DEF SchemasAssumption
  <2>3. SourcesHaveTold <=> /\ account.key.state \notin {"missing", "failed"}
                            /\ TeamId(account.key) # "none"
                            /\ \A e \in Endpoints : IsTold(account[e])
                            /\ ~account.usage.limitReached
    <3> HIDE DEF account
    <3>1. IsTold(account.key) <=> account.key.state \notin {"missing", "failed"}
      BY <2>2 DEF IsTold
    <3> QED BY <1>6, <3>1 DEF SourcesHaveTold, account
  <2>4. /\ s.rejected = FALSE
        /\ \A u \in s.usage : u.domain \in s.domains
        /\ (s.warnings = <<>>) <=> SourcesHaveTold
    <3> HIDE DEF account
    <3> QED BY <2>3, XaiTells
  <2>5. \A i \in (IF IsTold(account.invoices) THEN account.invoices.list ELSE {}) : TokensAreTold(i)
    <3> HIDE DEF account
    <3> QED BY <2>2, InvoiceIsTold DEF IsTold
  <2> HIDE DEF s
  <2> QED BY <1>6, <2>1, <2>4, <2>5
<1>7. CASE connector = "antigravity"
  <2> DEFINE s == CollectAntigravity(account, read)
             sprint == LocalBucket("5 hour", 1, SprintLimit, read)
             week == LocalBucket("Week", 2, WeekLimit, read)
             server == ServerQuota(account.ports)
  <2>1. Snapshot(last) = s
    BY <1>7 DEF Snapshot
  <2>2. /\ s.rejected = FALSE
        /\ s.domains = DomainsIn("code-assist-subscription", read)
        /\ s.quotas = WithFallback(server, {sprint, week})
        /\ s.usage = Usage("antigravity", read.usage)
        /\ s.warnings = IF ~IsTold(read) THEN <<"antigravity-sqlite-read-failed">>
                 ELSE IF read.complete THEN <<>> ELSE <<"antigravity-session-scan-incomplete">>
    BY AntigravityTells, Zenon DEF Tells
  <2>3. \A code : <<code>> # <<>>
    OBVIOUS
  <2>4. (s.warnings = <<>>) <=> read.complete
    <3> HIDE DEF s, read
    <3> QED BY <1>0, <2>2, <2>3 DEF IsRead
  <2>5. SourcesHaveTold <=> read.complete
    BY <1>7 DEF SourcesHaveTold
  <2>6. \A u \in s.usage : u.domain \in s.domains
    <3> HIDE DEF s
    <3> QED BY <2>2, DomainsAreNamed
  <2>7. IsFiniteSet(read.usage)
    BY <1>7 DEF AskedInv
  <2>8. /\ sprint.group = "gemini" /\ sprint.window = "5 hour" /\ sprint.from = "local"
        /\ week.group = "gemini" /\ week.window = "Week" /\ week.from = "local"
        /\ sprint.used \in 0 .. 100 /\ week.used \in 0 .. 100
    <3> HIDE DEF read
    <3>0. SprintLimit \in Nat \ {0}
      BY LimitsAssumption DEF LimitsAssumption
    <3>1. WeekLimit \in Nat \ {0}
      BY LimitsAssumption DEF LimitsAssumption
    <3>2. /\ sprint.group = "gemini" /\ sprint.window = "5 hour" /\ sprint.from = "local"
          /\ sprint.used \in 0 .. 100
      <4>1. ASSUME NEW window
            PROVE  /\ LocalBucket(window, 1, SprintLimit, read).group = "gemini"
                   /\ LocalBucket(window, 1, SprintLimit, read).window = window
                   /\ LocalBucket(window, 1, SprintLimit, read).from = "local"
                   /\ LocalBucket(window, 1, SprintLimit, read).used \in 0 .. 100
        BY <2>7, <3>0, LocalIs
      <4> QED BY <4>1
    <3>3. /\ week.group = "gemini" /\ week.window = "Week" /\ week.from = "local"
          /\ week.used \in 0 .. 100
      BY <2>7, <3>1, LocalIs
    <3> QED BY <3>2, <3>3
  <2>9. \A b \in server : b.used \in 0 .. 100 \cup {Unstated}
    <3>1. /\ IsSequence(account.ports)
          /\ \A i \in DOMAIN account.ports : account.ports[i].state = "told" =>
                 \A b \in account.ports[i].groups : b.remaining \in Int
      BY <1>0, <1>7, SchemasAssumption DEF SchemasAssumption
    <3> HIDE DEF account
    <3> QED BY <3>1, ServerIs
  <2> HIDE DEF sprint, week, server, s
  <2>10. WindowsAreTold(s.quotas, server)
    BY <2>2, <2>8, FallbackTells
  <2>11. \A b \in s.quotas : b.used \in 0 .. 100 \cup {Unstated}
    BY <2>2, <2>8, <2>9 DEF WithFallback
  <2> QED BY <1>7, <2>1, <2>2, <2>4, <2>5, <2>6, <2>10, <2>11 DEF server
<1> QED BY <1>0, <1>1, <1>2, <1>3, <1>4, <1>5, <1>6, <1>7, AnswersAssumption DEF AnswersAssumption

\* A snapshot warns exactly when one of its sources did not tell all, and tells what the others
\* told, whatever the connectors answer (SnapshotsTellTheirSources).
THEOREM SnapshotsTell == ConnectorsSpec => []SnapshotsTellTheirSources
<1>1. ConnectorsSpec => []AskedInv
  BY InitAsked, NextAsked, PTL DEF ConnectorsSpec
<1> QED BY <1>1, AskedTells, PTL

-----------------------------------------------------------------------------
(* Daemons and their settings.                                              *)

Settings == [startAtLogin : BOOLEAN, interval : CollectionIntervals \cup {5}, collects : BOOLEAN]

Stories == [faults : Nat, metAnother : BOOLEAN, overlapped : BOOLEAN, cutOff : BOOLEAN]

ProcessStages == {"unused", "starting", "listening", "serving", "closing", "closed", "gone"}

\* A command that goes to a daemon, and one that does not.
AtADaemon == {"asking", "asking again", "ready", "changing", "saving"}
CommandStages == AtADaemon \cup {"given", "waiting", "done", "failed"}

DaemonTypeOK ==
    /\ process \in [Daemons -> ProcessStages]
    /\ scheduler \in [Daemons -> {"stopped", "armed", "ticking"}]
    /\ stateFile \in Daemons \cup {Nobody}
    /\ command \in [Commands -> [stage : CommandStages, at : Daemons \cup {Nobody},
                                 read : Settings]]
    /\ \A c \in Commands : command[c].stage \in AtADaemon => command[c].at \in Daemons
    /\ settings \in Settings
    /\ launchAgent \in BOOLEAN
    /\ story \in Stories

\* Unless one was started beside another, there is one daemon at a time.
OneAtATime == ~story.metAnother => \A d, e \in Running : d = e

Changes(c) == command[c].stage \in {"changing", "saving"}

\* Unless changes overlapped, there is one at a time.
OneChangeAtATime ==
    ~story.overlapped => \A c, e \in Commands : Changes(c) /\ Changes(e) => c = e

\* Between the launch agent and the settings, the former follows the change that is made,
\* and otherwise what is stored.
AgentFollows ==
    ~story.overlapped /\ ~story.cutOff =>
        /\ \A c \in Commands :
              command[c].stage = "saving" => launchAgent = (KindOf[c] = "enable")
        /\ \/ \E c \in Commands : command[c].stage = "saving"
           \/ settings.startAtLogin => launchAgent

\* The inductive invariant.
DaemonInv ==
    /\ DaemonTypeOK
    /\ OneAtATime
    /\ ServingIsNamed
    /\ OneChangeAtATime
    /\ AgentFollows
-----------------------------------------------------------------------------
\* What At makes is a command.
LEMMA Commanded ==
    ASSUME DaemonTypeOK,
           NEW stage \in CommandStages, NEW d \in Daemons \cup {Nobody}
    PROVE  /\ At(stage, d) \in [stage : CommandStages, at : Daemons \cup {Nobody}, read : Settings]
           /\ At(stage, d).stage = stage
           /\ At(stage, d).at = d
           /\ At(stage, d).read = settings
  BY DEF At, DaemonTypeOK

\* What every action but the end of a process does to the commands.
LEMMA Gone ==
    ASSUME DaemonTypeOK, NEW c \in Commands, NEW stage \in CommandStages,
           NEW d \in Daemons \cup {Nobody}, Goes(c, stage, d),
           stage \in AtADaemon => d \in Daemons
    PROVE  /\ command' \in [Commands -> [stage : CommandStages, at : Daemons \cup {Nobody},
                                         read : Settings]]
           /\ \A e \in Commands : command'[e].stage \in AtADaemon => command'[e].at \in Daemons
           /\ command'[c] = At(stage, d)
           /\ \A e \in Commands \ {c} : command'[e] = command[e]
  BY Commanded DEF Goes, DaemonTypeOK

\* What happens to a story.
LEMMA Storied ==
    ASSUME NEW s \in Stories
    PROVE  /\ [s EXCEPT !.faults = s.faults + 1] \in Stories
           /\ \A b \in BOOLEAN : /\ [s EXCEPT !.metAnother = b] \in Stories
                                /\ [s EXCEPT !.overlapped = b] \in Stories
                                /\ [s EXCEPT !.faults = s.faults + 1, !.metAnother = b] \in Stories
                                /\ \A n \in Nat : [s EXCEPT !.faults = n, !.cutOff = b] \in Stories
<1>1. s.faults + 1 \in Nat
  BY DEF Stories
<1>2. \A n \in Nat, b \in BOOLEAN : /\ [s EXCEPT !.faults = n] \in Stories
                                  /\ [s EXCEPT !.metAnother = b] \in Stories
                                  /\ [s EXCEPT !.overlapped = b] \in Stories
  BY DEF Stories
<1>3. \A n \in Nat, b \in BOOLEAN : /\ [s EXCEPT !.faults = n, !.metAnother = b] \in Stories
                                  /\ [s EXCEPT !.faults = n, !.cutOff = b] \in Stories
  BY DEF Stories
<1> QED
  BY <1>1, <1>2, <1>3

LEMMA Overlaps ==
    ASSUME NEW s \in Stories, NEW set
    PROVE  /\ (s.overlapped \/ set # {}) \in BOOLEAN
           /\ (s.metAnother \/ set # {}) \in BOOLEAN
           /\ (s.cutOff \/ set # {}) \in BOOLEAN
  OBVIOUS

LEMMA InitDaemonInv == DaemonInit => DaemonInv
<1> SUFFICES ASSUME DaemonInit PROVE DaemonInv
  OBVIOUS
<1> USE DEF DaemonInit
<1>1. settings \in Settings
  BY DEF Settings
<1>2. \A c \in Commands : /\ command[c] \in [stage : CommandStages, at : Daemons \cup {Nobody},
                                             read : Settings]
                          /\ command[c].stage = "given"
  BY <1>1 DEF At, CommandStages
<1>3. DaemonTypeOK
  <2>1. command \in [Commands -> [stage : CommandStages, at : Daemons \cup {Nobody}, read : Settings]]
    BY <1>2
  <2>2. story \in Stories
    BY DEF Stories
  <2> QED
    BY <1>1, <1>2, <2>1, <2>2 DEF DaemonTypeOK, ProcessStages, AtADaemon
<1>4. Running = {} /\ Those({"serving"}) = {}
  BY DEF Running, Those
<1> QED
  BY <1>2, <1>3, <1>4 DEF DaemonInv, OneAtATime, ServingIsNamed, OneChangeAtATime, Changes, AgentFollows

\* What a daemon or a command does, other than to end.
LEMMA TypeStep == DaemonTypeOK /\ [DaemonNext]_daemonVars => DaemonTypeOK'
<1> SUFFICES ASSUME DaemonTypeOK, [DaemonNext]_daemonVars PROVE DaemonTypeOK'
  OBVIOUS
<1> USE DaemonAssumption
<1>1. ASSUME NEW d \in Daemons, NEW n \in Nat, EndsAtOnce(d, n)
      PROVE  DaemonTypeOK'
  <2>1. At("failed", Nobody) \in [stage : CommandStages, at : Daemons \cup {Nobody}, read : Settings]
        /\ At("failed", Nobody).stage = "failed"
    BY Commanded DEF CommandStages
  <2>2. \A c \in Commands : command'[c] = At("failed", Nobody) \/ command'[c] = command[c]
    BY <1>1 DEF EndsAtOnce
  <2>3. command' \in [Commands -> [stage : CommandStages, at : Daemons \cup {Nobody}, read : Settings]]
    BY <1>1, <2>1 DEF EndsAtOnce, DaemonTypeOK
  <2>4. \A c \in Commands : command'[c].stage \in AtADaemon => command'[c].at \in Daemons
    BY <2>1, <2>2 DEF DaemonTypeOK, AtADaemon
  <2>5. story' \in Stories
    BY <1>1, Storied, Overlaps DEF EndsAtOnce, DaemonTypeOK
  <2> QED
    BY <1>1, <2>3, <2>4, <2>5 DEF EndsAtOnce, DaemonTypeOK, ProcessStages
<1>2. ASSUME NEW d \in Daemons,
             \/ StartAtLogin(d) \/ Listen(d) \/ Serve(d) \/ Stop(d) \/ Close(d) \/ Leave(d)
             \/ Tick(d) \/ TickEnds(d)
      PROVE  DaemonTypeOK'
  <2>1. /\ process' \in [Daemons -> ProcessStages]
        /\ scheduler' \in [Daemons -> {"stopped", "armed", "ticking"}]
        /\ stateFile' \in Daemons \cup {Nobody}
        /\ UNCHANGED <<command, settings, launchAgent>>
    BY <1>2 DEF DaemonTypeOK, StartAtLogin, Spawned, Listen, Serve, StateAfterStart, Stop, Close,
                Leave, Tick, TickEnds, AfterTick, ProcessStages
  <2>2. story' = story \/ story' = [story EXCEPT !.metAnother = @ \/ Running # {}]
    BY <1>2 DEF StartAtLogin, Spawned, Listen, Serve, Stop, Close, Leave, Tick, TickEnds
  <2>3. story' \in Stories
    BY <2>2, Storied, Overlaps DEF DaemonTypeOK
  <2> QED
    BY <2>1, <2>3 DEF DaemonTypeOK
<1>3. ASSUME NEW d \in Daemons, Crash(d) \/ TickFails(d)
      PROVE  DaemonTypeOK'
  <2>1. story.faults \in Nat /\ story.faults + 1 \in Nat
    BY DEF DaemonTypeOK, Stories
  <2> QED
    BY <1>1, <1>3, <2>1 DEF Crash, TickFails
<1>4. ASSUME NEW c \in Commands, ReadState(c) \/ FindHealthy(c) \/ FindBusy(c) \/ GiveUp(c)
      PROVE  DaemonTypeOK'
  <2>1. \E stage \in CommandStages, d \in Daemons \cup {Nobody} :
           Goes(c, stage, d) /\ (stage \in AtADaemon => d \in Daemons)
    <3>1. CASE ReadState(c)
      BY <3>1 DEF ReadState, DaemonTypeOK, CommandStages, AtADaemon
    <3>2. CASE FindHealthy(c)
      BY <3>2 DEF FindHealthy, DaemonTypeOK, CommandStages, AtADaemon
    <3>3. CASE FindBusy(c)
      <4>1. Goes(c, "waiting", Nobody)
        BY <3>3 DEF FindBusy
      <4>2. "waiting" \in CommandStages \ AtADaemon /\ Nobody \in Daemons \cup {Nobody}
        BY DEF CommandStages, AtADaemon
      <4> QED
        BY ONLY <4>1, <4>2
    <3>4. CASE GiveUp(c)
      <4>1. Goes(c, "failed", Nobody)
        BY <3>4 DEF GiveUp
      <4>2. "failed" \in CommandStages \ AtADaemon /\ Nobody \in Daemons \cup {Nobody}
        BY DEF CommandStages, AtADaemon
      <4> QED
        BY ONLY <4>1, <4>2
    <3> QED
      BY <1>4, <3>1, <3>2, <3>3, <3>4
  <2>2. story' \in Stories
    BY <1>4, Storied DEF ReadState, FindHealthy, FindBusy, GiveUp, Fault, DaemonTypeOK
  <2>3. UNCHANGED <<process, scheduler, stateFile, settings, launchAgent>>
    BY <1>4 DEF ReadState, FindHealthy, FindBusy, GiveUp
  <2> QED
    BY <2>1, <2>2, <2>3, Gone DEF DaemonTypeOK
<1>5. ASSUME NEW c \in Commands, FindNoState(c) \/ FindStale(c) \/ FindBusyAtFirst(c)
      PROVE  DaemonTypeOK'
  <2>1. \E stage \in {"waiting", "failed"} : Goes(c, stage, Nobody)
    BY <1>5 DEF FindNoState, FindStale, FindBusyAtFirst, NotFound
  <2>2. process' \in [Daemons -> ProcessStages]
    <3>1. \/ UNCHANGED process
          \/ \E d \in Daemons : process' = [process EXCEPT ![d] = "starting"]
      BY <1>5 DEF FindNoState, FindStale, FindBusyAtFirst, NotFound, Spawned
    <3> QED
      BY <3>1 DEF DaemonTypeOK, ProcessStages
  <2>3. story' \in Stories
    <3>1. \/ story' = story
          \/ story' = [story EXCEPT !.metAnother = @ \/ Running # {}]
          \/ story' = [story EXCEPT !.faults = @ + 1, !.metAnother = TRUE]
          \/ story' = [story EXCEPT !.faults = @ + 1]
      BY <1>5 DEF FindNoState, FindStale, FindBusyAtFirst, NotFound, Spawned, Fault
    <3> QED
      BY <3>1, Storied, Overlaps DEF DaemonTypeOK
  <2>4. UNCHANGED <<scheduler, stateFile, settings, launchAgent>>
    BY <1>5 DEF FindNoState, FindStale, FindBusyAtFirst
  <2> QED
    BY <2>1, <2>2, <2>3, <2>4, Gone DEF DaemonTypeOK, CommandStages, AtADaemon
<1>6. ASSUME NEW c \in Commands, Request(c)
      PROVE  DaemonTypeOK'
  <2>1. \E stage \in CommandStages, d \in Daemons \cup {Nobody} :
           Goes(c, stage, d) /\ (stage \in AtADaemon => d \in Daemons)
    <3>1. command[c].at \in Daemons \cup {Nobody} /\ Listening \subseteq Daemons
      BY DEF DaemonTypeOK, Listening, Those
    <3>2. \/ Goes(c, "failed", Nobody) \/ Goes(c, "done", Nobody)
          \/ command[c].at \in Daemons /\ Goes(c, "changing", command[c].at)
      BY <1>6, <3>1 DEF Request
    <3>3. /\ {"failed", "done", "changing"} \subseteq CommandStages
          /\ "failed" \notin AtADaemon /\ "done" \notin AtADaemon
      BY DEF CommandStages, AtADaemon
    <3> QED
      BY <3>2, <3>3
  <2>2. settings' \in Settings
    <3>1. \/ settings' = settings
          \/ \E i \in CollectionIntervals, on \in BOOLEAN :
                settings' = [settings EXCEPT !.interval = i, !.collects = on]
      BY <1>6 DEF Request
    <3> QED
      BY <3>1 DEF DaemonTypeOK, Settings
  <2>3. story' \in Stories
    <3>1. story' = story \/ story' = [story EXCEPT !.overlapped = @ \/ Changing # {}]
      BY <1>6 DEF Request
    <3> QED
      BY <3>1, Storied, Overlaps DEF DaemonTypeOK
  <2>4. UNCHANGED <<process, scheduler, stateFile, launchAgent>>
    BY <1>6 DEF Request
  <2> QED
    BY <2>1, <2>2, <2>3, <2>4, Gone DEF DaemonTypeOK
<1>7. ASSUME NEW c \in Commands, SetLaunchAgent(c) \/ LaunchAgentFails(c) \/ SaveSettings(c)
      PROVE  DaemonTypeOK'
  <2>1. \E stage \in {"saving", "failed", "done"} :
           /\ command' = [command EXCEPT ![c].stage = stage]
           /\ command[c].stage \in {"changing", "saving"}
    BY <1>7 DEF SetLaunchAgent, LaunchAgentFails, AfterNoLaunchAgent, SaveSettings
  <2>2. /\ command' \in [Commands -> [stage : CommandStages, at : Daemons \cup {Nobody}, read : Settings]]
        /\ \A e \in Commands : command'[e].stage \in AtADaemon => command'[e].at \in Daemons
    <3> PICK stage \in {"saving", "failed", "done"} :
                /\ command' = [command EXCEPT ![c].stage = stage]
                /\ command[c].stage \in {"changing", "saving"}
      BY <2>1
    <3>1. \A e \in Commands : /\ command'[e].at = command[e].at
                             /\ command'[e].read = command[e].read
                             /\ command'[e].stage = IF e = c THEN stage ELSE command[e].stage
      BY DEF DaemonTypeOK
    <3>2. command' \in [Commands -> [stage : CommandStages, at : Daemons \cup {Nobody}, read : Settings]]
      BY DEF DaemonTypeOK, CommandStages, AtADaemon
    <3> QED
      BY <3>1, <3>2 DEF DaemonTypeOK, AtADaemon
  <2>3. settings' \in Settings
    <3>1. settings' = settings \/ \E b \in BOOLEAN : settings' = [command[c].read EXCEPT !.startAtLogin = b]
      <4>1. (KindOf[c] = "enable") \in BOOLEAN
        OBVIOUS
      <4> QED
        BY <1>7, <4>1 DEF SetLaunchAgent, LaunchAgentFails, SaveSettings
    <3>2. command[c].read \in Settings
      BY DEF DaemonTypeOK
    <3> QED
      BY <3>1, <3>2 DEF DaemonTypeOK, Settings
  <2>4. launchAgent' \in BOOLEAN
    BY <1>7 DEF SetLaunchAgent, LaunchAgentFails, SaveSettings, DaemonTypeOK
  <2>5. /\ story' \in Stories
        /\ UNCHANGED <<process, scheduler, stateFile>>
    BY <1>7, Storied DEF SetLaunchAgent, LaunchAgentFails, SaveSettings, Fault, DaemonTypeOK
  <2> QED
    BY <2>2, <2>3, <2>4, <2>5 DEF DaemonTypeOK
<1>8. CASE UNCHANGED daemonVars
  BY <1>8 DEF daemonVars, DaemonTypeOK
<1> QED
  BY <1>2, <1>3, <1>4, <1>5, <1>6, <1>7, <1>8 DEF DaemonNext

-----------------------------------------------------------------------------
\* A daemon that is started is the only one, or meets another; none appears otherwise.
LEMMA OneAtATimeStep ==
    ASSUME DaemonTypeOK, OneAtATime, [DaemonNext]_daemonVars
    PROVE  OneAtATime'
<1> USE DEF OneAtATime
<1>1. ASSUME Running' \subseteq Running, story.metAnother => story'.metAnother
      PROVE  OneAtATime'
  BY <1>1
<1>2. ASSUME NEW d \in Daemons, Spawned(d)
      PROVE  OneAtATime'
  <2>1. story'.metAnother = (story.metAnother \/ Running # {})
    BY <1>2 DEF Spawned, DaemonTypeOK, Stories
  <2>2. Running' \subseteq Running \cup {d}
    BY <1>2 DEF Spawned, DaemonTypeOK, Running, Those
  <2> QED
    BY <2>1, <2>2
<1>3. ASSUME NEW d \in Daemons, NEW n, EndsAtOnce(d, n)
      PROVE  OneAtATime'
  BY <1>1, <1>3 DEF EndsAtOnce, Running, Those, DaemonTypeOK, Stories
<1>4. ASSUME NEW d \in Daemons,
             \/ Listen(d) \/ Serve(d) \/ Stop(d) \/ Close(d) \/ Leave(d) \/ Tick(d) \/ TickEnds(d)
      PROVE  OneAtATime'
  <2>1. Running' \subseteq Running
    BY <1>4 DEF Listen, Serve, Stop, Close, Leave, Tick, TickEnds, Running, Those, DaemonTypeOK
  <2>2. story' = story
    BY <1>4 DEF Listen, Serve, Stop, Close, Leave, Tick, TickEnds
  <2> QED
    BY <1>1, <2>1, <2>2
<1>5. ASSUME NEW c \in Commands, NotFound(c)
      PROVE  OneAtATime'
  <2>1. CASE \E d \in Daemons : Spawned(d)
    BY <1>2, <2>1
  <2>2. CASE UNCHANGED <<process, story>>
    BY <1>1, <2>2 DEF Running, Those
  <2> QED
    BY <1>5, <2>1, <2>2 DEF NotFound
<1>6. ASSUME NEW c \in Commands, FindBusyAtFirst(c)
      PROVE  OneAtATime'
  <2>1. CASE KindOf[c] = "open"
    BY <1>6, <2>1 DEF FindBusyAtFirst, DaemonTypeOK, Stories
  <2>2. CASE KindOf[c] # "open"
    BY <1>1, <1>6, <2>2 DEF FindBusyAtFirst, Fault, Running, Those, DaemonTypeOK, Stories
  <2> QED
    BY <2>1, <2>2
<1>7. ASSUME NEW c \in Commands,
             \/ ReadState(c) \/ FindHealthy(c) \/ FindBusy(c) \/ GiveUp(c) \/ Request(c)
             \/ SetLaunchAgent(c) \/ LaunchAgentFails(c) \/ SaveSettings(c)
      PROVE  OneAtATime'
  <2>1. process' = process
    BY <1>7 DEF ReadState, FindHealthy, FindBusy, GiveUp, Request, SetLaunchAgent,
                LaunchAgentFails, SaveSettings
  <2>2. story'.metAnother = story.metAnother
    BY <1>7 DEF ReadState, FindHealthy, FindBusy, GiveUp, Request, SetLaunchAgent,
                LaunchAgentFails, SaveSettings, Fault, DaemonTypeOK, Stories
  <2> QED
    BY <1>1, <2>1, <2>2 DEF Running, Those
<1>8. CASE UNCHANGED daemonVars
  BY <1>1, <1>8 DEF daemonVars, Running, Those
<1>9. ASSUME NEW c \in Commands, FindNoState(c) \/ FindStale(c)
      PROVE  OneAtATime'
  <2>1. NotFound(c) \/ UNCHANGED <<process, story>>
    BY <1>9 DEF FindNoState, FindStale
  <2> QED
    BY <1>1, <1>5, <2>1 DEF Running, Those
<1>10. ASSUME NEW d \in Daemons, StartAtLogin(d) \/ Crash(d) \/ TickFails(d)
       PROVE  OneAtATime'
  BY <1>2, <1>3, <1>10 DEF StartAtLogin, Crash, TickFails
<1> QED
  BY <1>4, <1>6, <1>7, <1>8, <1>9, <1>10 DEF DaemonNext

\* Only the daemon that serves writes its name, and only one that has left removes it.
LEMMA ServingIsNamedStep ==
    ASSUME DaemonTypeOK, OneAtATime, ServingIsNamed, [DaemonNext]_daemonVars
    PROVE  ServingIsNamed'
<1> USE DEF ServingIsNamed
<1>1. OneAtATime'
  BY OneAtATimeStep
<1>2. Those({"serving"})' \subseteq Running'
  BY DEF Those, Running
<1>3. ASSUME Those({"serving"})' \subseteq Those({"serving"}), stateFile' = stateFile,
             story.metAnother => story'.metAnother
      PROVE  ServingIsNamed'
  BY <1>3
<1>4. ASSUME NEW d \in Daemons, Serve(d)
      PROVE  ServingIsNamed'
  <2>1. stateFile' = d /\ d \in Running'
    BY <1>4 DEF Serve, StateAfterStart, Running, Those, DaemonTypeOK
  <2> QED
    BY <1>1, <1>2, <2>1 DEF OneAtATime
<1>5. ASSUME NEW d \in Daemons, Leave(d)
      PROVE  ServingIsNamed'
  <2>1. d \in Running /\ story' = story
    BY <1>5 DEF Leave, Running, Those
  <2>2. Those({"serving"})' \subseteq Running \ {d}
    BY <1>5 DEF Leave, Running, Those, DaemonTypeOK
  <2> QED
    BY <2>1, <2>2 DEF OneAtATime
<1> DEFINE Kept == /\ Those({"serving"})' \subseteq Those({"serving"})
                   /\ stateFile' = stateFile
                   /\ story.metAnother => story'.metAnother
<1>6. ASSUME NEW d \in Daemons,
             \/ StartAtLogin(d) \/ Listen(d) \/ Crash(d) \/ Stop(d) \/ Close(d)
             \/ Tick(d) \/ TickEnds(d) \/ TickFails(d)
      PROVE  Kept
  BY <1>6 DEF StartAtLogin, Spawned, Listen, Crash, EndsAtOnce, Stop, Close, Tick, TickEnds,
              TickFails, Those, DaemonTypeOK, Stories
<1>7. ASSUME NEW c \in Commands, FindNoState(c) \/ FindStale(c) \/ FindBusyAtFirst(c)
      PROVE  Kept
  <2>1. /\ stateFile' = stateFile
        /\ story.metAnother => story'.metAnother
    BY <1>7 DEF FindNoState, FindStale, FindBusyAtFirst, NotFound, Spawned, Fault, DaemonTypeOK, Stories
  <2>2. Those({"serving"})' \subseteq Those({"serving"})
    BY <1>7 DEF FindNoState, FindStale, FindBusyAtFirst, NotFound, Spawned, Those, DaemonTypeOK
  <2> QED
    BY <2>1, <2>2
<1>8. ASSUME NEW c \in Commands,
             \/ ReadState(c) \/ FindHealthy(c) \/ FindBusy(c) \/ GiveUp(c) \/ Request(c)
             \/ SetLaunchAgent(c) \/ LaunchAgentFails(c) \/ SaveSettings(c)
      PROVE  Kept
  BY <1>8 DEF ReadState, FindHealthy, FindBusy, GiveUp, Request, SetLaunchAgent,
              LaunchAgentFails, SaveSettings, Fault, Those, DaemonTypeOK, Stories
<1>9. CASE UNCHANGED daemonVars
  BY <1>9 DEF daemonVars, Those
<1> QED
  BY <1>3, <1>4, <1>5, <1>6, <1>7, <1>8, <1>9 DEF DaemonNext

-----------------------------------------------------------------------------
Saves(c) == command[c].stage = "saving"

LEMMA ChangingCommands ==
    ASSUME DaemonTypeOK
    PROVE  Changing = {c \in Commands : Changes(c)}
<1>1. \A c \in Commands : Changes(c) => command[c].at \in Daemons /\ c \in ChangingAt(command[c].at)
  BY DEF ChangingAt, Changes, DaemonTypeOK, AtADaemon
<1>2. \A d \in Daemons : ChangingAt(d) \subseteq {c \in Commands : Changes(c)}
  BY DEF ChangingAt, Changes
<1> QED
  BY <1>1, <1>2 DEF Changing

\* What neither begins a change, nor saves one, nor touches the launch agent.
Aside ==
    /\ \A c \in Commands : /\ Changes(c)' => Changes(c)
                           /\ Saves(c)' <=> Saves(c)
    /\ launchAgent' = launchAgent
    /\ settings'.startAtLogin = settings.startAtLogin
    /\ story.overlapped => story'.overlapped
    /\ story.cutOff => story'.cutOff

LEMMA AsideKeeps ==
    ASSUME OneChangeAtATime, AgentFollows, Aside
    PROVE  OneChangeAtATime' /\ AgentFollows'
  BY DEF OneChangeAtATime, AgentFollows, Aside, Saves

\* The stage of a command that goes on.
LEMMA GoesOn ==
    ASSUME DaemonTypeOK, NEW c \in Commands, NEW stage \in CommandStages,
           NEW d \in Daemons \cup {Nobody}, Goes(c, stage, d)
    PROVE  \A e \in Commands : command'[e].stage = IF e = c THEN stage ELSE command[e].stage
  BY Commanded DEF Goes, DaemonTypeOK

\* A daemon that ends cuts changes off, or there were none at it.
LEMMA EndKeeps ==
    ASSUME DaemonTypeOK, OneChangeAtATime, AgentFollows,
           NEW d \in Daemons, NEW n \in Nat, EndsAtOnce(d, n)
    PROVE  OneChangeAtATime' /\ AgentFollows'
<1>1. /\ story'.overlapped = story.overlapped
      /\ story'.cutOff = (story.cutOff \/ ChangingAt(d) # {})
  BY DEF EndsAtOnce, DaemonTypeOK, Stories
<1>2. \A c \in Commands : Changes(c)' => Changes(c)
  <2>1. \A c \in Commands : command'[c] = At("failed", Nobody) \/ command'[c] = command[c]
    BY DEF EndsAtOnce
  <2>2. At("failed", Nobody).stage = "failed"
    BY DEF At
  <2> QED
    BY <2>1, <2>2 DEF Changes
<1>3. OneChangeAtATime'
  BY <1>1, <1>2 DEF OneChangeAtATime
<1>4. CASE ChangingAt(d) = {}
  <2>1. \A c \in Commands : command'[c] = command[c]
    BY <1>4 DEF EndsAtOnce
  <2> QED
    BY <1>1, <1>3, <2>1 DEF EndsAtOnce, AgentFollows
<1>5. CASE ChangingAt(d) # {}
  BY <1>1, <1>3, <1>5 DEF AgentFollows
<1> QED
  BY <1>4, <1>5

LEMMA RequestKeeps ==
    ASSUME DaemonTypeOK, OneChangeAtATime, AgentFollows, NEW c \in Commands, Request(c)
    PROVE  OneChangeAtATime' /\ AgentFollows'
<1>0. ~Changes(c) /\ Listening \subseteq Daemons /\ story.overlapped \in BOOLEAN
  BY DEF Request, Changes, Listening, Those, DaemonTypeOK, Stories
<1>1. CASE Goes(c, "failed", Nobody) \/ Goes(c, "done", Nobody)
  <2>1. \A e \in Commands : (Changes(e)' => Changes(e)) /\ (Saves(e)' <=> Saves(e))
    <3>1. {"failed", "done"} \subseteq CommandStages \ {"changing", "saving"}
      BY DEF CommandStages
    <3>2. \E stage \in CommandStages \ {"changing", "saving"} : Goes(c, stage, Nobody)
      BY <1>1, <3>1
    <3>3. PICK stage \in CommandStages \ {"changing", "saving"} : Goes(c, stage, Nobody)
      BY <3>2
    <3>4. \A e \in Commands : command'[e].stage = IF e = c THEN stage ELSE command[e].stage
      BY <3>3, GoesOn
    <3> QED
      BY <1>0, <3>4 DEF Changes, Saves
  <2>2. settings'.startAtLogin = settings.startAtLogin /\ launchAgent' = launchAgent
    BY DEF Request, DaemonTypeOK, Settings
  <2>3. (story.overlapped => story'.overlapped) /\ (story.cutOff => story'.cutOff)
    BY DEF Request, DaemonTypeOK, Stories
  <2> QED
    BY <2>1, <2>2, <2>3, AsideKeeps DEF Aside
<1>2. CASE /\ command[c].at \in Listening
           /\ Goes(c, "changing", command[c].at)
           /\ story' = [story EXCEPT !.overlapped = @ \/ Changing # {}]
           /\ UNCHANGED settings
  <2>1. /\ story'.overlapped = (story.overlapped \/ Changing # {})
        /\ story'.cutOff = story.cutOff
        /\ launchAgent' = launchAgent
    BY <1>2 DEF Request, DaemonTypeOK, Stories
  <2>2. \A e \in Commands : command'[e].stage = IF e = c THEN "changing" ELSE command[e].stage
    <3>1. "changing" \in CommandStages /\ command[c].at \in Daemons \cup {Nobody}
      BY DEF DaemonTypeOK, CommandStages, AtADaemon
    <3>2. At("changing", command[c].at).stage = "changing"
      BY <3>1, Commanded
    <3> QED
      BY <1>2, <3>2 DEF Goes, DaemonTypeOK
  <2>3. \A e \in Commands : Saves(e)' <=> Saves(e)
    BY <1>0, <2>2 DEF Changes, Saves
  <2>4. OneChangeAtATime'
    BY <2>1, <2>2, ChangingCommands DEF OneChangeAtATime, Changes
  <2> QED
    BY <1>2, <2>1, <2>3, <2>4 DEF AgentFollows, Saves
<1> QED
  BY <1>1, <1>2 DEF Request

\* One change saves at a time, and it has just made the launch agent.
LEMMA ChangeKeeps ==
    ASSUME DaemonTypeOK, OneChangeAtATime, AgentFollows, NEW c \in Commands,
           SetLaunchAgent(c) \/ LaunchAgentFails(c) \/ SaveSettings(c)
    PROVE  OneChangeAtATime' /\ AgentFollows'
<1>1. Changes(c)
  BY DEF SetLaunchAgent, LaunchAgentFails, SaveSettings, Changes
<1>2. story'.overlapped = story.overlapped /\ story'.cutOff = story.cutOff
  BY DEF SetLaunchAgent, LaunchAgentFails, SaveSettings, Fault, DaemonTypeOK, Stories
<1>3. ASSUME NEW stage, command' = [command EXCEPT ![c].stage = stage]
      PROVE  \A e \in Commands : command'[e].stage = IF e = c THEN stage ELSE command[e].stage
  BY <1>3 DEF DaemonTypeOK
<1>4. \A e \in Commands : Changes(e)' => Changes(e)
  BY <1>1, <1>3 DEF SetLaunchAgent, LaunchAgentFails, SaveSettings, Changes
<1>5. OneChangeAtATime'
  BY <1>2, <1>4 DEF OneChangeAtATime
<1>6. SUFFICES ASSUME ~story.overlapped, ~story.cutOff
               PROVE  /\ \A e \in Commands : Saves(e)' => launchAgent' = (KindOf[e] = "enable")
                      /\ \/ \E e \in Commands : Saves(e)'
                         \/ settings'.startAtLogin => launchAgent'
  BY <1>2, <1>5 DEF AgentFollows, Saves
<1>7. \A e \in Commands \ {c} : ~Changes(e)
  BY <1>1, <1>6 DEF OneChangeAtATime
<1>8. CASE SetLaunchAgent(c)
  <2>1. \A e \in Commands : Saves(e)' => e = c
    BY <1>3, <1>7, <1>8 DEF SetLaunchAgent, Changes, Saves
  <2>2. Saves(c)'
    BY <1>3, <1>8 DEF SetLaunchAgent, Saves
  <2>3. launchAgent' = (KindOf[c] = "enable")
    BY <1>8 DEF SetLaunchAgent
  <2> QED
    BY <2>1, <2>2, <2>3
<1>9. CASE LaunchAgentFails(c)
  <2>1. \A e \in Commands : ~Saves(e) /\ ~Saves(e)'
    BY <1>3, <1>7, <1>9 DEF LaunchAgentFails, AfterNoLaunchAgent, Changes, Saves
  <2>2. settings' = settings /\ (launchAgent => launchAgent')
    BY <1>9 DEF LaunchAgentFails
  <2> QED
    BY <1>6, <2>1, <2>2 DEF AgentFollows, Saves
<1>10. CASE SaveSettings(c)
  <2>1. \A e \in Commands : ~Saves(e)'
    <3>1. command' = [command EXCEPT ![c].stage = "done"]
      BY <1>10 DEF SaveSettings
    <3>2. \A e \in Commands : command'[e].stage = IF e = c THEN "done" ELSE command[e].stage
      BY <1>3, <3>1
    <3> QED
      BY <1>7, <3>2 DEF Changes, Saves
  <2>2. launchAgent = (KindOf[c] = "enable")
    BY <1>6, <1>10 DEF SaveSettings, AgentFollows
  <2>3. command[c].read \in Settings
    BY DEF DaemonTypeOK
  <2>4. settings'.startAtLogin = (KindOf[c] = "enable") /\ launchAgent' = launchAgent
    BY <1>10, <2>3 DEF SaveSettings, Settings
  <2> QED
    BY <2>1, <2>2, <2>4
<1> QED
  BY <1>8, <1>9, <1>10

LEMMA ChangesStep ==
    ASSUME DaemonTypeOK, OneChangeAtATime, AgentFollows, [DaemonNext]_daemonVars
    PROVE  OneChangeAtATime' /\ AgentFollows'
<1>1. ASSUME NEW d \in Daemons,
             \/ StartAtLogin(d) \/ Listen(d) \/ Serve(d) \/ Stop(d) \/ Close(d) \/ Leave(d)
             \/ Tick(d) \/ TickEnds(d)
      PROVE  OneChangeAtATime' /\ AgentFollows'
  <2>1. UNCHANGED <<command, settings, launchAgent>>
    BY <1>1 DEF StartAtLogin, Listen, Serve, Stop, Close, Leave, Tick, TickEnds
  <2>2. (story.overlapped => story'.overlapped) /\ (story.cutOff => story'.cutOff)
    BY <1>1 DEF StartAtLogin, Spawned, Listen, Serve, Stop, Close, Leave, Tick, TickEnds,
                DaemonTypeOK, Stories
  <2> QED
    BY <2>1, <2>2, AsideKeeps DEF Aside, Changes, Saves
<1>2. ASSUME NEW d \in Daemons, Crash(d) \/ TickFails(d)
      PROVE  OneChangeAtATime' /\ AgentFollows'
  <2>1. story.faults \in Nat /\ story.faults + 1 \in Nat
    BY DEF DaemonTypeOK, Stories
  <2> QED
    BY <1>2, <2>1, EndKeeps DEF Crash, TickFails
<1>3. ASSUME NEW c \in Commands,
             \/ ReadState(c) \/ FindNoState(c) \/ FindHealthy(c) \/ FindStale(c) \/ FindBusy(c)
             \/ FindBusyAtFirst(c) \/ GiveUp(c)
      PROVE  OneChangeAtATime' /\ AgentFollows'
  <2>1. \E stage \in {"asking", "asking again", "ready", "waiting", "failed"},
           d \in Daemons \cup {Nobody} : Goes(c, stage, d)
    BY <1>3 DEF ReadState, FindNoState, FindHealthy, FindStale, FindBusy, FindBusyAtFirst, GiveUp,
                NotFound, DaemonTypeOK
  <2>2. ~Changes(c)
    BY <1>3 DEF ReadState, FindNoState, FindHealthy, FindStale, FindBusy, FindBusyAtFirst, GiveUp,
                Changes
  <2>3. \A e \in Commands : (Changes(e)' => Changes(e)) /\ (Saves(e)' <=> Saves(e))
    <3>1. {"asking", "asking again", "ready", "waiting", "failed"}
             \subseteq CommandStages \ {"changing", "saving"}
      BY DEF CommandStages, AtADaemon
    <3>2. \E stage \in CommandStages \ {"changing", "saving"}, d \in Daemons \cup {Nobody} :
              Goes(c, stage, d)
      BY <2>1, <3>1
    <3>3. PICK stage \in CommandStages \ {"changing", "saving"}, d \in Daemons \cup {Nobody} :
              Goes(c, stage, d)
      BY <3>2
    <3>4. \A e \in Commands : command'[e].stage = IF e = c THEN stage ELSE command[e].stage
      BY <3>3, GoesOn
    <3> QED
      BY <2>2, <3>4 DEF Changes, Saves
  <2>4. UNCHANGED <<settings, launchAgent>>
    BY <1>3 DEF ReadState, FindNoState, FindHealthy, FindStale, FindBusy, FindBusyAtFirst, GiveUp
  <2>5. (story.overlapped => story'.overlapped) /\ (story.cutOff => story'.cutOff)
    BY <1>3 DEF ReadState, FindNoState, FindHealthy, FindStale, FindBusy, FindBusyAtFirst, GiveUp,
                NotFound, Spawned, Fault, DaemonTypeOK, Stories
  <2> QED
    BY <2>3, <2>4, <2>5, AsideKeeps DEF Aside
<1>4. CASE UNCHANGED daemonVars
  BY <1>4, AsideKeeps DEF daemonVars, Aside, Changes, Saves
<1> QED
  BY <1>1, <1>2, <1>3, <1>4, RequestKeeps, ChangeKeeps DEF DaemonNext
-----------------------------------------------------------------------------
LEMMA NextDaemonInv == DaemonInv /\ [DaemonNext]_daemonVars => DaemonInv'
  BY TypeStep, OneAtATimeStep, ServingIsNamedStep, ChangesStep DEF DaemonInv

LEMMA DaemonInvariant == DaemonSpec => []DaemonInv
  BY InitDaemonInv, NextDaemonInv, PTL DEF DaemonSpec

\* Processes, the state file, commands and settings have their types; a command that asks
\* a daemon or changes something there goes to one.
THEOREM DaemonTypeCorrect == DaemonSpec => []DaemonTypeOK
<1>1. DaemonInv => DaemonTypeOK
  BY DEF DaemonInv
<1> QED
  BY <1>1, DaemonInvariant, PTL

\* Unless a daemon was started while another one was there, two never are: the state file
\* is enough of a lock as long as whoever reads it is answered in time.
THEOREM OneDaemonAtATime == DaemonSpec => []OneAtATime
<1>1. DaemonInv => OneAtATime
  BY DEF DaemonInv
<1> QED
  BY <1>1, DaemonInvariant, PTL

\* The daemon that serves is named by the state file, through crashes, stops and stale
\* files, for any number of daemons and of faults.
THEOREM ServingNamed == DaemonSpec => []ServingIsNamed
<1>1. DaemonInv => ServingIsNamed
  BY DEF DaemonInv
<1> QED
  BY <1>1, DaemonInvariant, PTL

\* A stored start at login is a launch agent that is installed, when no change overlapped
\* another and none was cut off, however many were made and failed.
THEOREM StartAtLoginTrue == DaemonSpec => []StartAtLoginIsTrue
<1>1. DaemonInv => StartAtLoginIsTrue
  <2> SUFFICES ASSUME DaemonInv, ~story.overlapped, ~story.cutOff, Changing = {}, settings.startAtLogin
               PROVE  launchAgent
    BY DEF StartAtLoginIsTrue
  <2>1. \A c \in Commands : ~Changes(c)
    BY ChangingCommands DEF DaemonInv
  <2> QED
    BY <2>1 DEF DaemonInv, AgentFollows, Changes
<1> QED
  BY <1>1, DaemonInvariant, PTL
===============================================================================
