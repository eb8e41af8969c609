---------------------------- MODULE EmergencyStop ----------------------------
(***************************************************************************)
(* The emergency-stop control block (src/src/EmergencyStop.cpp), shared by *)
(* the GUI and pendant threads and the servo thread, possibly across       *)
(* processes.                                                              *)
(*                                                                         *)
(* Requesters raise and release their own source and ask for resets; the   *)
(* servo thread runs update() once per tick with the source it samples     *)
(* itself; any thread reads the status, which update() publishes under a   *)
(* sequence counter.  Every atomic access is a step.                       *)
(***************************************************************************)
EXTENDS Integers

CONSTANTS
    RemoteSources,     \* raised with request()/release(): Gui, Pendant
    LocalSources,      \* sampled by the servo thread: PhysicalExternalEnable
    MaxResets,         \* bound on requestReset() calls
    MaxUpdates         \* bound on update() calls

ASSUME SourcesAssumption == RemoteSources \cap LocalSources = {}
ASSUME BoundsAssumption == MaxResets \in Nat /\ MaxUpdates \in Nat

Sources == RemoteSources \cup LocalSources
Results == {"None", "Cleared", "BlockedByActiveSource", "NotLatched"}
Status == [acknowledged : 0 .. MaxResets, active : SUBSET Sources,
           latched : SUBSET Sources, result : Results]
\* The order in which publish stores and status loads the fields.
Fields == {"acknowledged", "active", "latched", "result"}
After == [acknowledged |-> "active", active |-> "latched", latched |-> "result", result |-> "end"]

VARIABLES
    requestedSources,   \* the word requesters set and clear bits of
    resetGeneration,
    sequence,           \* statusSequence
    block,              \* the status fields of the control block
    m_status,           \* the servo thread's own status
    observed,           \* m_observedResetGeneration
    servo,              \* where update() is: "idle", "reset", "open", a field, "end"
    updates,            \* number of finished updates
    steady,             \* history: sources active since before this update began
    asked,              \* history: resetGeneration when this update began
    reader,             \* a thread in status()
    committed           \* history: the status last published completely

vars == <<requestedSources, resetGeneration, sequence, block, m_status, observed, servo,
          updates, steady, asked, reader,
          committed>>

servoVars == <<sequence, block, m_status, observed, servo, updates, committed>>

InitialStatus == [acknowledged |-> 0, active |-> {}, latched |-> {}, result |-> "None"]

Init ==
    /\ requestedSources = {}
    /\ resetGeneration = 0
    /\ sequence = 0
    /\ block = InitialStatus
    /\ m_status = InitialStatus
    /\ observed = 0
    /\ servo = "idle"
    /\ updates = 0
    /\ steady = {}
    /\ asked = 0
    /\ reader = [at |-> "idle", before |-> 0, copy |-> InitialStatus, expected |-> InitialStatus]
    /\ committed = InitialStatus

-----------------------------------------------------------------------------
(* Requesters *)

Request(s) ==
    /\ s \notin requestedSources
    /\ requestedSources' = requestedSources \cup {s}
    /\ steady' = IF servo = "idle" THEN steady \cup {s} ELSE steady
    /\ UNCHANGED <<resetGeneration, asked, reader>> /\ UNCHANGED servoVars

Release(s) ==
    /\ s \in requestedSources
    /\ requestedSources' = requestedSources \ {s}
    /\ steady' = steady \ {s}
    /\ UNCHANGED <<resetGeneration, asked, reader>> /\ UNCHANGED servoVars

RequestReset ==
    /\ resetGeneration < MaxResets
    /\ resetGeneration' = resetGeneration + 1
    /\ asked' = IF servo = "idle" THEN resetGeneration + 1 ELSE asked
    /\ UNCHANGED <<requestedSources, steady, reader>> /\ UNCHANGED servoVars

-----------------------------------------------------------------------------
(* update(), on the servo thread *)

UpdateLatches(localActive) ==
    /\ servo = "idle"
    /\ updates < MaxUpdates
    /\ LET active == requestedSources \cup localActive
       IN m_status' = [m_status EXCEPT !.active = active, !.latched = @ \cup active]
    /\ servo' = "reset"
    /\ UNCHANGED <<requestedSources, resetGeneration, sequence, block, observed, updates,
                   steady, asked, reader, committed>>

ResetResult(status) ==
    CASE status.active # {}                          -> "BlockedByActiveSource"
      [] status.active = {} /\ status.latched = {}   -> "NotLatched"
      [] OTHER                                       -> "Cleared"

\* Mutant of UpdateResets: a reset clears the latch under an active source.
UpdateResetsAlways ==
    /\ servo = "reset"
    /\ IF resetGeneration # observed
       THEN /\ observed' = resetGeneration
            /\ m_status' = [m_status EXCEPT !.acknowledged = resetGeneration,
                                            !.result = "Cleared", !.latched = {}]
       ELSE UNCHANGED <<observed, m_status>>
    /\ servo' = "open"
    /\ UNCHANGED <<requestedSources, resetGeneration, sequence, block, updates, steady,
                   asked, reader, committed>>

\* Mutant of UpdateResets: a blocked reset stays pending and is not acknowledged.
UpdateDefersBlocked ==
    /\ servo = "reset"
    /\ IF resetGeneration # observed /\ m_status.active = {}
       THEN /\ observed' = resetGeneration
            /\ m_status' = [m_status EXCEPT !.acknowledged = resetGeneration,
                                            !.result = "Cleared", !.latched = {}]
       ELSE UNCHANGED <<observed, m_status>>
    /\ servo' = "open"
    /\ UNCHANGED <<requestedSources, resetGeneration, sequence, block, updates, steady,
                   asked, reader, committed>>

UpdateResets ==
    /\ servo = "reset"
    /\ IF resetGeneration # observed
       THEN /\ observed' = resetGeneration
            /\ m_status' = [m_status EXCEPT
                   !.acknowledged = resetGeneration,
                   !.result = ResetResult(m_status),
                   !.latched = IF ResetResult(m_status) = "Cleared" THEN {} ELSE @]
       ELSE UNCHANGED <<observed, m_status>>
    /\ servo' = "open"
    /\ UNCHANGED <<requestedSources, resetGeneration, sequence, block, updates, steady,
                   asked, reader, committed>>

\* Mutant of PublishOpens: the sequence is not made odd before the stores.
PublishOpensUnmarked ==
    /\ servo = "open"
    /\ servo' = "acknowledged"
    /\ UNCHANGED <<requestedSources, resetGeneration, sequence, block, m_status, observed,
                   updates, steady, asked, reader, committed>>

PublishOpens ==
    /\ servo = "open"
    /\ sequence' = sequence + 1
    /\ servo' = "acknowledged"
    /\ UNCHANGED <<requestedSources, resetGeneration, block, m_status, observed, updates,
                   steady, asked, reader, committed>>

PublishStores ==
    /\ servo \in Fields
    /\ block' = [block EXCEPT ![servo] = m_status[servo]]
    /\ servo' = After[servo]
    /\ UNCHANGED <<requestedSources, resetGeneration, sequence, m_status, observed, updates,
                   steady, asked, reader, committed>>

PublishCloses ==
    /\ servo = "end"
    /\ sequence' = sequence + 1
    /\ committed' = m_status
    /\ servo' = "idle"
    /\ updates' = updates + 1
    /\ steady' = requestedSources
    /\ asked' = resetGeneration
    /\ UNCHANGED <<requestedSources, resetGeneration, block, m_status, observed, reader>>

-----------------------------------------------------------------------------
(* status(), on any other thread *)

StatusBegins ==
    /\ reader.at = "idle"
    /\ sequence % 2 = 0
    /\ reader' = [reader EXCEPT !.at = "acknowledged", !.before = sequence, !.expected = committed]
    /\ UNCHANGED <<requestedSources, resetGeneration, steady, asked>> /\ UNCHANGED servoVars

StatusLoads ==
    /\ reader.at \in Fields
    /\ reader' = [reader EXCEPT !.copy[reader.at] = block[reader.at], !.at = After[@]]
    /\ UNCHANGED <<requestedSources, resetGeneration, steady, asked>> /\ UNCHANGED servoVars

StatusReturns ==
    /\ reader.at = "end"
    /\ reader.before = sequence
    /\ reader' = [reader EXCEPT !.at = "returned"]
    /\ UNCHANGED <<requestedSources, resetGeneration, steady, asked>> /\ UNCHANGED servoVars

StatusRetries ==
    /\ reader.at = "end"
    /\ reader.before # sequence
    /\ reader' = [reader EXCEPT !.at = "idle"]
    /\ UNCHANGED <<requestedSources, resetGeneration, steady, asked>> /\ UNCHANGED servoVars

StatusCalledAgain ==
    /\ reader.at = "returned"
    /\ reader' = [reader EXCEPT !.at = "idle"]
    /\ UNCHANGED <<requestedSources, resetGeneration, steady, asked>> /\ UNCHANGED servoVars

-----------------------------------------------------------------------------

Update ==
    \/ \E local \in SUBSET LocalSources : UpdateLatches(local)
    \/ UpdateResets \/ PublishOpens \/ PublishStores \/ PublishCloses

ReadStatus ==
    StatusBegins \/ StatusLoads \/ StatusReturns \/ StatusRetries \/ StatusCalledAgain

Requests == RequestReset \/ \E s \in RemoteSources : Request(s) \/ Release(s)

Next == Update \/ ReadStatus \/ Requests

Spec == Init /\ [][Next]_vars

-----------------------------------------------------------------------------
(* Properties *)

TypeOK ==
    /\ requestedSources \subseteq RemoteSources
    /\ resetGeneration \in 0 .. MaxResets
    /\ sequence \in 0 .. 2 * MaxUpdates
    /\ block \in Status
    /\ m_status \in Status
    /\ observed \in 0 .. MaxResets
    /\ servo \in {"idle", "reset", "open", "end"} \cup Fields
    /\ updates \in 0 .. MaxUpdates
    /\ steady \subseteq RemoteSources
    /\ asked \in 0 .. MaxResets
    /\ reader.at \in {"idle", "end", "returned"} \cup Fields
    /\ reader.copy \in Status
    /\ committed \in Status

\* status() never mixes two publications: what it returns is the status that was
\* completely published when it read the sequence the first time.
StatusIsNotTorn == reader.at = "returned" => reader.copy = reader.expected

\* A source that is raised before an update begins and stays raised throughout is
\* latched when the update ends, whatever resets arrive during the update: a reset
\* cannot clear the stop of somebody who still holds the button.
HeldSourceStaysLatched == servo = "end" => steady \subseteq m_status.latched

\* Only a reset asked for since the previous update, acknowledged as Cleared with
\* no source active, ever removes a source from the latch.
OnlyResetUnlatches ==
    [][~ (m_status.latched \subseteq m_status'.latched) =>
          /\ m_status'.result = "Cleared" /\ m_status'.active = {}
          /\ observed < observed' /\ m_status'.acknowledged = resetGeneration]_vars

\* Every reset request is answered by the next update: what was asked for before
\* it began is acknowledged when it ends, as cleared, blocked or not latched, so a
\* requester that waits for its generation never waits for ever.
ResetsAreAnswered == servo = "end" => m_status.acknowledged >= asked
=============================================================================
