-------------------------- MODULE ExternalExecutor --------------------------
(***************************************************************************)
(* The external executor as the host sees it, src/ExternalExecutorRuntime  *)
(* .cpp, composed with its peer process (ExecutorPeer) through the shared  *)
(* region.  Either process may die at any time; the front end stops the    *)
(* peer with a request, then with a signal.                                *)
(*                                                                         *)
(* The host publishes its demands the way MachineSession does: Idle first, *)
(* then runs and stops, and Disabled last.  The fields that refuse to      *)
(* resume an interrupted epoch are left out: no demand uses them.          *)
(***************************************************************************)
EXTENDS ExecutorPeer

CONSTANTS
    MaxDemand,      \* bound: demands of one connection
    MaxStarts,      \* bound: connections of the front end's life
    MaxDisasters    \* bound: deaths of a process, faults and emergency stops

ASSUME FrontAssumption == {MaxDemand, MaxStarts, MaxDisasters} \subseteq Nat

VARIABLES
    front,          \* what the front end does
    starts,         \* connections so far
    disasters       \* disasters so far

frontVars == <<front, starts, disasters>>
vars == <<peerVars, frontVars>>

FrontAt == {"closed", "handshake", "abandons", "connected", "stops", "signals"}

FrontTypeOK ==
    /\ front.at \in FrontAt
    /\ front.sent \in Nat /\ front.generation \in 0 .. MaxDemand
    /\ front.mode \in Modes
    /\ front.lossPending \in BOOLEAN
    /\ starts \in 0 .. MaxStarts /\ disasters \in 0 .. MaxDisasters

TypeOK == PeerTypeOK /\ FrontTypeOK

\* sent, generation and mode are what was published; lossPending is
\* m_peerLossEventPending.
NewFront(at) ==
    [at |-> at, sent |-> 0, generation |-> 0, mode |-> "Disabled",
     lossPending |-> FALSE]

Init ==
    /\ frontAlive = TRUE /\ process = "none"
    /\ region = NewRegion /\ exec = NewExecutor /\ trouble = "none"
    /\ peer = [NewPeer EXCEPT !.at = "none"]
    /\ front = NewFront("closed") /\ starts = 0 /\ disasters = 0

-----------------------------------------------------------------------------
(* The front end.                                                          *)

FrontIsAt(at) == frontAlive /\ front.at = at
Ended == {"PeerStopped", "Rejected", "PeerLost"}

\* refreshPeerState: a peer that is gone without having said so is lost.
Lost == process = "gone" /\ region.connection \notin Ended
RefreshedRegion == IF Lost THEN [region EXCEPT !.connection = "PeerLost"] ELSE region
RefreshedFront == IF Lost THEN [front EXCEPT !.lossPending = TRUE] ELSE front
Connected == FrontIsAt("connected") /\ RefreshedRegion.connection = "Running"

\* closeConnection
Closes == front' = NewFront("closed") /\ region' = NewRegion

\* start: a new region and a new process.
Starts ==
    /\ FrontIsAt("closed") /\ starts < MaxStarts
    /\ region' = NewRegion /\ peer' = NewPeer
    /\ exec' = NewExecutor /\ trouble' = "none"
    /\ process' = "running"
    /\ front' = NewFront("handshake") /\ starts' = starts + 1
    /\ UNCHANGED <<frontAlive, disasters>>

\* awaitHandshake
HandshakeSucceeds ==
    /\ FrontIsAt("handshake") /\ region.connection = "PeerReady"
    /\ region' = [region EXCEPT !.connection = "Running"]
    /\ front' = [front EXCEPT !.at = "connected"]
    /\ UNCHANGED <<frontAlive, process, peer, exec, trouble, starts, disasters>>

\* A rejection, an exit of the peer, or the deadline, which may also pass between two
\* looks while the peer gets ready; a peer that still runs is asked to stop and given 50 ms.
HandshakeFails ==
    /\ FrontIsAt("handshake")
    /\ IF process = "running"
       THEN /\ region' = [region EXCEPT !.connection = "StopRequested"]
            /\ front' = NewFront("abandons")
       ELSE Closes
    /\ UNCHANGED <<frontAlive, process, peer, exec, trouble, starts, disasters>>

Abandons ==
    /\ FrontIsAt("abandons")
    /\ IF process = "gone" THEN Closes
       ELSE front' = [front EXCEPT !.at = "signals"] /\ UNCHANGED region
    /\ UNCHANGED <<frontAlive, process, peer, exec, trouble, starts, disasters>>

\* tryPublish; a full ring is tried again later.
PublishesItem ==
    /\ Connected /\ front.mode \in {"Idle", "Run"} /\ front.generation > 0
    /\ front.sent + 1 \in Items /\ Len(region.items) < RingCapacity
    /\ region' = [region EXCEPT !.items = Append(@, front.sent + 1)]
    /\ front' = [front EXCEPT !.sent = @ + 1]
    /\ UNCHANGED <<frontAlive, process, peer, exec, trouble, starts, disasters>>

\* publishDemand: the mailbox keeps the latest.
PublishesDemand(mode) ==
    /\ Connected /\ front.generation < MaxDemand
    /\ (mode = "Idle") = (front.generation = 0)
    /\ front.generation = 0 \/ front.mode # "Disabled"
    /\ region' = [region EXCEPT !.demand =
                      [generation |-> front.generation + 1, mode |-> mode]]
    /\ front' = [front EXCEPT !.generation = @ + 1, !.mode = mode]
    /\ UNCHANGED <<frontAlive, process, peer, exec, trouble, starts, disasters>>

TellsLoss(refreshed) == region.events = 0 /\ refreshed.lossPending

\* tryTakeEvent: an event of the ring, the loss of the peer, or none.
TakesEvent ==
    /\ FrontIsAt("connected")
    /\ region' = IF TellsLoss(RefreshedFront) \/ region.events = 0
                 THEN RefreshedRegion
                 ELSE [RefreshedRegion EXCEPT !.events = @ - 1]
    /\ front' = IF TellsLoss(RefreshedFront)
                THEN [RefreshedFront EXCEPT !.lossPending = FALSE]
                ELSE RefreshedFront
    /\ <<region', front'>> # <<region, front>>
    /\ UNCHANGED <<frontAlive, process, peer, exec, trouble, starts, disasters>>

\* stop: a request, if the peer is there to see it.
RequestsStop ==
    /\ FrontIsAt("connected")
    /\ IF process = "running"
       THEN /\ front' = NewFront("stops")
            /\ region' = IF region.connection \in {"Running", "PeerReady"}
                         THEN [region EXCEPT !.connection = "StopRequested"]
                         ELSE region
       ELSE Closes
    /\ UNCHANGED <<frontAlive, process, peer, exec, trouble, starts, disasters>>

\* shutdownTimeout, and the 50 ms after it, may pass at any time.
AwaitsStop ==
    /\ FrontIsAt("stops")
    /\ IF process = "gone" THEN Closes
       ELSE front' = [front EXCEPT !.at = "signals"] /\ UNCHANGED region
    /\ UNCHANGED <<frontAlive, process, peer, exec, trouble, starts, disasters>>

\* terminate, the wait for it and closeConnection
Signals ==
    /\ FrontIsAt("signals")
    /\ Ends /\ Closes
    /\ UNCHANGED <<starts, disasters>>

FrontStep ==
    \/ Starts \/ HandshakeSucceeds \/ HandshakeFails \/ Abandons
    \/ PublishesItem \/ (\E mode \in Modes : PublishesDemand(mode))
    \/ TakesEvent
    \/ RequestsStop \/ AwaitsStop \/ Signals

\* A crash of the front end.
FrontDies ==
    /\ frontAlive /\ frontAlive' = FALSE
    /\ front' = NewFront("closed")
    /\ UNCHANGED <<process, region, peer, exec, trouble>>

-----------------------------------------------------------------------------
PlainTick == ServoTick \/ LatchedTick \/ FaultedTick

Disaster ==
    /\ disasters < MaxDisasters /\ disasters' = disasters + 1
    /\ \/ FrontDies
       \/ (PeerDies \/ LatchTick \/ IoFaultTick) /\ UNCHANGED front
    /\ UNCHANGED starts

Next ==
    \/ FrontStep
    \/ (PeerStep \/ PlainTick \/ UnlatchTick) /\ UNCHANGED frontVars
    \/ Disaster

Spec == Init /\ [][Next]_vars

\* The peer's main thread and its servo thread go on while the process does, and a
\* motion that brakes comes to its end.  The front end may do nothing, nobody has to
\* die, and no emergency stop has to be pressed or reset.
Brakes == ServoTick /\ exec.state = "Holding" /\ exec'.state # "Holding"
Fairness ==
    /\ WF_vars(PeerStep /\ UNCHANGED frontVars)
    /\ WF_vars(PlainTick /\ UNCHANGED frontVars)
    /\ WF_vars(Brakes /\ UNCHANGED frontVars)

FairSpec == Spec /\ Fairness

-----------------------------------------------------------------------------
(* Properties.                                                             *)

\* The bridge hands every item of the ring to the executor once and in order, whatever
\* is full meanwhile: what it and the ring still hold is what was sent and has not
\* arrived.
BridgeLosesNoItem ==
    process = "running" /\ front.at = "connected" =>
        peer.item \o region.items = [i \in 1 .. front.sent - peer.arrived |->
                                        peer.arrived + i]

\* A stop that was asked for, and the stop after the loss of the front end, brake
\* first: the runtime does not end under a motion, unless the stop had nothing to
\* demand of an executor that it found faulted or disabled.
OrderlyExitCutsNoMotion == peer.at = "halt" /\ peer.demanded => ~Moving

\* When the front end is lost, the machine comes to rest for good with its outputs off
\* or its fault latched, or with its process gone, unless the executor knew a demand
\* that the last snapshot did not show.
FrontLossStopsTheMachine ==
    ~frontAlive ~> [](process # "running" \/ Overtaken
                      \/ exec.state \in {"Disabled", "Faulted"})

\* Not true of the code: after an emergency-stop reset the executor is off until a new
\* demand, that of the next power-on, turns it on.
ResetRequiresPowerOn ==
    [][exec.state = "Disabled" /\ exec'.state \in {"Held", "Running"} =>
          exec'.acknowledged # exec.acknowledged]_vars
=============================================================================
