----------------------------- MODULE MCProcessing -----------------------------
(****************************************************************************)
(* Background processing, the module of it that prices usage, the price of  *)
(* one observation, and the reads of the clients that its first module      *)
(* collects from.  The order of the modules is all that a run knows of      *)
(* them, whether it is priceable all that a backfill knows of usage, and an *)
(* answer or none all that it knows of a read: they share no state, and are *)
(* explored one at a time.                                                  *)
(*                                                                          *)
(* Three callers: enough for a person and a rebuild to queue behind a       *)
(* scheduled run while its own caller still waits.  Of two observations,    *)
(* each a page, the rate prices one, and the second release of the catalog  *)
(* both.                                                                    *)
(****************************************************************************)
EXTENDS Processing, RetailPricing, PriceLookup, StdioClients, ScreenClients

CONSTANTS c1, c2, c3

VARIABLE part

allVars == <<part, vars, pricingVars, lookupVars, peerVars, screenVars>>

MCCallers       == {c1, c2, c3}
CustomModels    == {1}
OfficialRelease == <<{}, {1, 2}>>

\* What is not explored is over, and what is has all to do.
AsidePeer ==
    /\ peer = "codex" /\ child = "ended" /\ exitSeen = FALSE /\ stdout = <<>> /\ unanswered = {}
    /\ pending = {} /\ nextId = 1 /\ waitsFor = "nothing" /\ outcome = Returns("fresh")
    /\ log = NoEntry /\ cached = NoEntry /\ noise = 0
AsideScreen ==
    /\ agent = "cursor" /\ driver = "killed" /\ frames = <<>> /\ copied = <<>> /\ output = <<>>
    /\ endSeen = FALSE /\ reading = FailsWith("timeout")

MCInit ==
    /\ part \in {"queue", "pricing", "lookup", "peer", "screen"}
    /\ Init /\ PricingInit /\ LookupInit
    /\ part # "pricing" <=> marker = Version
    /\ IF part = "peer" THEN PeerInit ELSE AsidePeer
    /\ IF part = "screen" THEN ScreenInit ELSE AsideScreen

Aside(part1, part2, part3, part4) == UNCHANGED <<part, part1, part2, part3, part4>>

InQueue(action) ==
    part = "queue" /\ action /\ Aside(pricingVars, lookupVars, peerVars, screenVars)
InPricing(action) ==
    part = "pricing" /\ action /\ Aside(vars, lookupVars, peerVars, screenVars)
InLookup(action) ==
    part = "lookup" /\ action /\ Aside(vars, pricingVars, peerVars, screenVars)
InPeer(action) ==
    part = "peer" /\ action /\ Aside(vars, pricingVars, lookupVars, screenVars)
InScreen(action) ==
    part = "screen" /\ action /\ Aside(vars, pricingVars, lookupVars, peerVars)

\* Bound: rates are changed, prices are rebuilt and the daemon is restarted three times
\* together.
ChangesAreBounded == revisions + rebuilds + restarts <= 3

MCNext ==
    \/ InQueue(Next)
    \/ InPricing(PricingNext) /\ ChangesAreBounded'
    \/ InLookup(LookupNext)
    \/ InPeer(PeerNext)
    \/ InScreen(ScreenNext)

\* The fairness of the parts.
MCFairness ==
    /\ WF_allVars(InQueue(ContinueUser))
    /\ WF_allVars(InQueue(ContinueHard))
    /\ WF_allVars(InQueue(Settle))
    /\ WF_allVars(InPricing(PriceNothing))
    /\ \A b \in Backfills :
          /\ WF_allVars(InPricing(WorkerCommits(b) \/ WorkerFails(b)))
          /\ WF_allVars(InPricing(SavePage(b)))
    /\ WF_allVars(InPeer(Start)) /\ WF_allVars(InPeer(Events))
    /\ WF_allVars(InPeer(TimeOut)) /\ WF_allVars(InPeer(Fallback))
    /\ WF_allVars(InScreen(StartDriver)) /\ WF_allVars(InScreen(Receives))
    /\ WF_allVars(InScreen(GiveUp))

\* Every read of a client ends, and no process of it outlives the read
\* (stdio-codex-account-client.ts:122, claude-usage-screen-client.ts:91).
ClientReadsEnd == PeerReadsEnd /\ ScreenReadsEnd

MCSpec == MCInit /\ [][MCNext]_allVars
MCFairSpec == MCSpec /\ MCFairness
=============================================================================
