-------------------------- MODULE EmergencyStopProofs --------------------------
(***************************************************************************)
(* The emergency stop keeps held sources latched, answers every reset and  *)
(* publishes whole statuses, for every set of sources and any number of    *)
(* resets and updates.                                                     *)
(***************************************************************************)
EXTENDS EmergencyStop, TLAPS

Readers == [at : {"idle", "end", "returned"} \cup Fields, before : Nat,
            copy : Status, expected : Status]

\* An update has sampled the sources, or has also taken the resets into account.
Sampled == servo # "idle"
Answered == servo \notin {"idle", "reset"}
Publishing == servo \in Fields \cup {"end"}

\* The types, strengthened: a generation acknowledged is the one observed, and no
\* observed or awaited generation is ahead of those asked for.
Types ==
    /\ TypeOK
    /\ reader \in Readers
    /\ m_status.acknowledged = observed
    /\ observed <= resetGeneration /\ asked <= resetGeneration
    /\ Sampled => updates < MaxUpdates
    /\ sequence = 2 * updates + (IF Publishing THEN 1 ELSE 0)

\* What an update owes to those who acted before it began.
Latching ==
    /\ steady \subseteq requestedSources
    /\ ~Sampled => asked = resetGeneration
    /\ Sampled => m_status.active \subseteq m_status.latched \/ m_status.active = {}
    /\ servo = "reset" => steady \subseteq m_status.active
    /\ Answered => /\ steady \subseteq m_status.latched
                   /\ asked <= m_status.acknowledged

LEMMA InitTypes == Init => Types /\ Latching
  BY BoundsAssumption
     DEF Init, Types, Latching, TypeOK, Readers, Status, Sources, Results, Fields,
         InitialStatus, Sampled, Answered, Publishing

LEMMA NextTypes == Types /\ [Next]_vars => Types'
<1> SUFFICES ASSUME Types, [Next]_vars PROVE Types'
  OBVIOUS
<1> USE BoundsAssumption DEF Types, TypeOK, Sampled, Publishing, Fields
<1>1. CASE UNCHANGED vars
  BY <1>1 DEF vars
<1>2. ASSUME NEW local \in SUBSET LocalSources, UpdateLatches(local) PROVE Types'
  <2> DEFINE active == requestedSources \cup local
  <2>1. active \in SUBSET Sources
    BY DEF Sources
  <2>2. m_status' = [m_status EXCEPT !.active = active, !.latched = @ \cup active]
    BY <1>2 DEF UpdateLatches
  <2>3. m_status' \in Status /\ m_status'.acknowledged = m_status.acknowledged
    <3> HIDE DEF active
    <3> QED BY <2>1, <2>2 DEF Status
  <2> QED
    BY <1>2, <2>3 DEF UpdateLatches
<1>3. CASE UpdateResets
  <2>1. ResetResult(m_status) \in Results
    BY DEF ResetResult, Results
  <2>2. m_status' \in Status /\ m_status'.acknowledged = observed'
    BY <1>3, <2>1 DEF UpdateResets, Status
  <2> QED
    BY <1>3, <2>2 DEF UpdateResets
<1>4. CASE PublishOpens
  BY <1>4 DEF PublishOpens
<1>5. CASE PublishStores
  <2>1. block' \in Status
    BY <1>5 DEF PublishStores, Status
  <2> QED
    BY <1>5, <2>1 DEF PublishStores, After
<1>6. CASE PublishCloses
  BY <1>6 DEF PublishCloses
<1>7. CASE StatusBegins
  <2>1. sequence \in Nat
    OBVIOUS
  <2>2. reader' \in Readers
    BY <1>7, <2>1 DEF StatusBegins, Readers
  <2>3. reader'.at \in Fields /\ reader'.copy \in Status
    BY <1>7 DEF StatusBegins, Readers
  <2> QED
    BY <1>7, <2>2, <2>3 DEF StatusBegins, servoVars
<1>8. CASE StatusLoads
  <2>1. PICK f \in Fields : f = reader.at
    BY <1>8 DEF StatusLoads
  <2>2. [reader.copy EXCEPT ![f] = block[f]] \in Status
    BY DEF Status
  <2>3. reader' = [reader EXCEPT !.copy = [reader.copy EXCEPT ![f] = block[f]],
                                 !.at = After[f]]
    BY <1>8, <2>1 DEF StatusLoads
  <2>4. After[f] \in Fields \cup {"end"}
    BY DEF After
  <2>5. reader' \in Readers /\ reader'.at = After[f] /\ reader'.copy \in Status
    BY <2>2, <2>3, <2>4 DEF Readers
  <2> QED
    BY <1>8, <2>4, <2>5 DEF StatusLoads, servoVars
<1>9. CASE StatusReturns \/ StatusRetries \/ StatusCalledAgain
  <2>1. reader' \in Readers /\ reader'.at \in {"idle", "returned"} /\ reader'.copy \in Status
    BY <1>9 DEF StatusReturns, StatusRetries, StatusCalledAgain, Readers
  <2> QED
    BY <1>9, <2>1 DEF StatusReturns, StatusRetries, StatusCalledAgain, servoVars
<1>10. CASE Requests
  BY <1>10 DEF Requests, RequestReset, Request, Release, servoVars, Sources
<1> QED
  BY <1>1, <1>2, <1>3, <1>4, <1>5, <1>6, <1>7, <1>8, <1>9, <1>10
     DEF Next, Update, ReadStatus

LEMMA NextLatching == Types /\ Latching /\ [Next]_vars => Latching'
<1> SUFFICES ASSUME Types, Latching, [Next]_vars PROVE Latching'
  OBVIOUS
<1> USE BoundsAssumption DEF Latching, Sampled, Answered, Fields
<1>1. CASE UNCHANGED vars
  BY <1>1 DEF vars
<1>2. ASSUME NEW local \in SUBSET LocalSources, UpdateLatches(local) PROVE Latching'
  <2> DEFINE active == requestedSources \cup local
  <2>1. m_status' = [m_status EXCEPT !.active = active, !.latched = @ \cup active]
    BY <1>2 DEF UpdateLatches
  <2>2. m_status'.active = active /\ m_status'.latched = m_status.latched \cup active
    BY <2>1 DEF Types, TypeOK, Status
  <2> QED
    BY <1>2, <2>2 DEF UpdateLatches
<1>3. CASE UpdateResets
  <2>1. servo = "reset" /\ servo' = "open" /\ UNCHANGED <<steady, asked, requestedSources>>
    BY <1>3 DEF UpdateResets
  <2>2. CASE resetGeneration = observed
    <3>1. UNCHANGED m_status
      BY <1>3, <2>2 DEF UpdateResets
    <3>2. asked <= m_status.acknowledged
      BY <2>2 DEF Types
    <3> QED
      BY <2>1, <3>1, <3>2
  <2>3. CASE resetGeneration # observed
    <3> DEFINE latched == IF ResetResult(m_status) = "Cleared" THEN {} ELSE m_status.latched
    <3>1. /\ m_status'.acknowledged = resetGeneration
          /\ m_status'.active = m_status.active
          /\ m_status'.latched = latched
      BY <1>3, <2>3 DEF UpdateResets, Types, TypeOK, Status
    <3>2. ResetResult(m_status) = "Cleared" => m_status.active = {}
      BY DEF ResetResult
    <3>3. asked <= m_status'.acknowledged
      BY <3>1 DEF Types
    <3>4. CASE m_status.active = {}
      <4>1. steady = {}
        BY <2>1, <3>4
      <4> QED
        BY <2>1, <3>1, <3>3, <3>4, <4>1
    <3>5. CASE m_status.active # {}
      BY <2>1, <3>1, <3>2, <3>3, <3>5
    <3> QED
      BY <3>4, <3>5
  <2> QED
    BY <2>2, <2>3
<1>4. CASE PublishOpens
  BY <1>4 DEF PublishOpens
<1>5. CASE PublishStores
  BY <1>5 DEF PublishStores, After
<1>6. CASE PublishCloses
  BY <1>6 DEF PublishCloses
<1>7. CASE ReadStatus
  BY <1>7 DEF ReadStatus, StatusBegins, StatusLoads, StatusReturns, StatusRetries,
              StatusCalledAgain, servoVars
<1>8. CASE RequestReset
  BY <1>8 DEF RequestReset, servoVars, Types, TypeOK
<1>9. ASSUME NEW s \in RemoteSources, Request(s) \/ Release(s) PROVE Latching'
  BY <1>9 DEF Request, Release, servoVars
<1> QED
  BY <1>1, <1>2, <1>3, <1>4, <1>5, <1>6, <1>7, <1>8, <1>9 DEF Next, Update, Requests

LEMMA LatchingHolds == Spec => [](Types /\ Latching)
  BY InitTypes, NextTypes, NextLatching, PTL DEF Spec

\* Every word of the control block keeps its type; the sequence never passes two
\* per update.
THEOREM EmergencyStopTypeCorrect == Spec => []TypeOK
<1>1. Types => TypeOK
  BY DEF Types
<1> QED
  BY <1>1, LatchingHolds, PTL

\* A reset never clears the stop of somebody who held it since before the update.
THEOREM HeldSourcesAreLatched == Spec => []HeldSourceStaysLatched
<1>1. Latching => HeldSourceStaysLatched
  BY DEF Latching, HeldSourceStaysLatched, Answered
<1> QED
  BY <1>1, LatchingHolds, PTL

\* A reset asked for before an update is answered when that update ends.
THEOREM EveryResetIsAnswered == Spec => []ResetsAreAnswered
<1>1. Types /\ Latching => ResetsAreAnswered
  BY BoundsAssumption DEF Types, TypeOK, Status, Latching, ResetsAreAnswered, Answered
<1> QED
  BY <1>1, LatchingHolds, PTL

\* Nothing but a reset that update() acknowledges as Cleared, with every source
\* released, takes a source out of the latch.
THEOREM OnlyAClearedResetUnlatches == Spec => OnlyResetUnlatches
<1> DEFINE Unlatching ==
      ~ (m_status.latched \subseteq m_status'.latched) =>
          /\ m_status'.result = "Cleared" /\ m_status'.active = {}
          /\ observed < observed' /\ m_status'.acknowledged = resetGeneration
<1>1. Types /\ [Next]_vars => [Unlatching]_vars
  <2> SUFFICES ASSUME Types, [Next]_vars PROVE Unlatching
    OBVIOUS
  <2>1. CASE UNCHANGED m_status
    BY <2>1
  <2>2. ASSUME NEW local \in SUBSET LocalSources, UpdateLatches(local) PROVE Unlatching
    BY <2>2 DEF UpdateLatches, Types, TypeOK, Status
  <2>3. CASE UpdateResets
    <3>1. CASE m_status' = m_status
      BY <3>1
    <3>2. CASE m_status' # m_status
      <4>1. /\ m_status' = [m_status EXCEPT
                   !.acknowledged = resetGeneration,
                   !.result = ResetResult(m_status),
                   !.latched = IF ResetResult(m_status) = "Cleared" THEN {} ELSE @]
            /\ observed' = resetGeneration /\ resetGeneration # observed
        BY <2>3, <3>2 DEF UpdateResets
      <4>2. observed < observed'
        BY <4>1, BoundsAssumption DEF Types, TypeOK
      <4>3. ResetResult(m_status) = "Cleared" => m_status.active = {}
        BY DEF ResetResult
      <4>4. /\ m_status'.acknowledged = resetGeneration
            /\ m_status'.result = ResetResult(m_status)
            /\ m_status'.active = m_status.active
            /\ ResetResult(m_status) # "Cleared" => m_status'.latched = m_status.latched
        BY <4>1 DEF Types, TypeOK, Status
      <4> QED
        BY <4>2, <4>3, <4>4
    <3> QED
      BY <3>1, <3>2
  <2>4. CASE PublishOpens \/ PublishStores \/ PublishCloses \/ ReadStatus \/ Requests
    <3>1. UNCHANGED m_status
      BY <2>4 DEF PublishOpens, PublishStores, PublishCloses, ReadStatus, StatusBegins,
           StatusLoads, StatusReturns, StatusRetries, StatusCalledAgain, Requests,
           RequestReset, Request, Release, servoVars
    <3> QED
      BY <3>1
  <2>5. CASE UNCHANGED vars
    BY <2>5 DEF vars
  <2> QED
    BY <2>1, <2>2, <2>3, <2>4, <2>5 DEF Next, Update
<1> QED
  BY <1>1, LatchingHolds, PTL DEF Spec, OnlyResetUnlatches

-----------------------------------------------------------------------------
(* The sequence counter.  While the sequence a reader took is still the      *)
(* current one no publication is open, so each word it loads is one of the   *)
(* committed status; a publication that opens meanwhile makes it retry.      *)

\* The fields stored, or loaded, when the next one is at.
Done == [acknowledged |-> {}, active |-> {"acknowledged"},
         latched |-> {"acknowledged", "active"},
         result |-> {"acknowledged", "active", "latched"}, end |-> Fields]

Sequencing ==
    /\ ~Publishing => block = committed
    /\ Publishing => \A f \in Done[servo] : block[f] = m_status[f]
    /\ reader.at \in Fields \cup {"end"} =>
          /\ reader.before <= sequence
          /\ reader.before = sequence =>
                /\ ~Publishing
                /\ reader.expected = committed
                /\ \A f \in Done[reader.at] : reader.copy[f] = committed[f]
    /\ reader.at = "returned" => reader.copy = reader.expected

\* Two statuses with the same four words are the same status.
LEMMA SameFieldsSameStatus ==
  \A a, b \in Status : (\A f \in Fields : a[f] = b[f]) => a = b
<1> SUFFICES ASSUME NEW a \in Status, NEW b \in Status, \A f \in Fields : a[f] = b[f]
             PROVE  a = b
  OBVIOUS
<1>1. /\ a.acknowledged = b.acknowledged /\ a.active = b.active
      /\ a.latched = b.latched /\ a.result = b.result
  BY DEF Fields
<1> QED
  BY <1>1 DEF Status

\* Storing or loading at one field leaves all before the next one done.
LEMMA DoneAfter == \A f \in Fields : Done[After[f]] = Done[f] \cup {f}
                                  /\ f \notin Done[f] /\ Done[f] \subseteq Fields
                                  /\ After[f] \in Fields \cup {"end"}
  BY DEF Done, After, Fields

LEMMA InitSequencing == Init => Sequencing
  BY DEF Init, Sequencing, Publishing, Fields

LEMMA NextSequencing == Types /\ Sequencing /\ [Next]_vars => Sequencing'
<1> SUFFICES ASSUME Types, Sequencing, [Next]_vars PROVE Sequencing'
  OBVIOUS
<1>0. /\ sequence \in Nat /\ reader.before \in Nat /\ reader \in Readers
      /\ block \in Status /\ m_status \in Status /\ reader.copy \in Status
      /\ committed \in Status
  BY BoundsAssumption DEF Types, TypeOK, Readers
<1> USE DEF Sequencing, Publishing
<1>1. CASE UNCHANGED vars
  BY <1>1 DEF vars
<1>2. CASE (\E local \in SUBSET LocalSources : UpdateLatches(local)) \/ UpdateResets
  BY <1>2 DEF UpdateLatches, UpdateResets, Fields
<1>3. CASE PublishOpens
  <2>1. servo' = "acknowledged" /\ Done[servo'] = {} /\ sequence' > sequence
    BY <1>0, <1>3 DEF PublishOpens, Done
  <2> QED
    BY <1>0, <1>3, <2>1 DEF PublishOpens, Fields
<1>4. CASE PublishStores
  <2>1. PICK f \in Fields : f = servo
    BY <1>4 DEF PublishStores
  <2>2. block' = [block EXCEPT ![f] = m_status[f]] /\ servo' = After[f]
        /\ UNCHANGED <<m_status, sequence, reader, committed>>
    BY <1>4, <2>1 DEF PublishStores
  <2>3. \A g \in Done[servo'] : block'[g] = m_status[g]
    BY <1>0, <2>1, <2>2, DoneAfter DEF Status, Fields
  <2>4. servo' \in Fields \cup {"end"}
    BY <2>2, DoneAfter
  <2> QED
    BY <2>1, <2>2, <2>3, <2>4
<1>5. CASE PublishCloses
  <2>1. \A f \in Fields : block[f] = m_status[f]
    BY <1>5 DEF PublishCloses, Done
  <2>2. block = m_status
    BY <1>0, <2>1, SameFieldsSameStatus
  <2>3. servo' = "idle" /\ sequence' > sequence
    BY <1>0, <1>5 DEF PublishCloses
  <2> QED
    BY <1>0, <1>5, <2>2, <2>3 DEF PublishCloses, Fields
<1>6. CASE StatusBegins
  <2>1. ~Publishing
    BY <1>6, BoundsAssumption DEF StatusBegins, Types, TypeOK
  <2>2. /\ reader'.at = "acknowledged" /\ reader'.before = sequence
        /\ reader'.expected = committed /\ Done[reader'.at] = {}
    BY <1>0, <1>6 DEF StatusBegins, Readers, Done
  <2> QED
    BY <1>0, <1>6, <2>1, <2>2 DEF StatusBegins, servoVars
<1>7. CASE StatusLoads
  <2>1. PICK f \in Fields : f = reader.at
    BY <1>7 DEF StatusLoads
  <2> DEFINE copy == [reader.copy EXCEPT ![f] = block[f]]
  <2>2. reader' = [reader EXCEPT !.copy = copy, !.at = After[f]]
    BY <1>7, <2>1 DEF StatusLoads
  <2>3. \A g \in Fields : copy[g] = IF g = f THEN block[f] ELSE reader.copy[g]
    BY <1>0 DEF Status, Fields
  <2> HIDE DEF copy
  <2>4. /\ reader'.copy = copy /\ reader'.at = After[f]
        /\ reader'.before = reader.before /\ reader'.expected = reader.expected
    BY <1>0, <2>2 DEF Readers
  <2>5. UNCHANGED <<servo, sequence, block, m_status, committed>>
    BY <1>7 DEF StatusLoads, servoVars
  <2>6. reader.before = sequence => \A g \in Done[After[f]] : copy[g] = committed[g]
    BY <2>1, <2>3, DoneAfter
  <2>7. After[f] # "returned"
    BY DoneAfter DEF Fields
  <2> QED
    BY <2>1, <2>4, <2>5, <2>6, <2>7
<1>8. CASE StatusReturns
  <2>1. \A f \in Fields : reader.copy[f] = committed[f]
    BY <1>8 DEF StatusReturns, Done
  <2>2. reader.copy = committed /\ reader.expected = committed
    BY <1>0, <1>8, <2>1, SameFieldsSameStatus DEF StatusReturns
  <2>3. reader'.at = "returned" /\ reader'.copy = reader.copy
        /\ reader'.expected = reader.expected
    BY <1>0, <1>8 DEF StatusReturns, Readers
  <2> QED
    BY <1>8, <2>2, <2>3 DEF StatusReturns, servoVars, Fields
<1>9. CASE StatusRetries \/ StatusCalledAgain
  <2>1. reader'.at = "idle"
    BY <1>0, <1>9 DEF StatusRetries, StatusCalledAgain, Readers
  <2> QED
    BY <1>9, <2>1 DEF StatusRetries, StatusCalledAgain, servoVars, Fields
<1>10. CASE Requests
  BY <1>10 DEF Requests, RequestReset, Request, Release, servoVars
<1> QED
  BY <1>1, <1>2, <1>3, <1>4, <1>5, <1>6, <1>7, <1>8, <1>9, <1>10
     DEF Next, Update, ReadStatus

\* status() returns a status some update published whole: never the reset result
\* of one update with the generation or the latch of another.
THEOREM StatusIsNeverTorn == Spec => []StatusIsNotTorn
<1>1. Init => Types /\ Sequencing
  BY InitTypes, InitSequencing
<1>2. Types /\ Sequencing /\ [Next]_vars => (Types /\ Sequencing)'
  BY NextTypes, NextSequencing
<1>3. Sequencing => StatusIsNotTorn
  BY DEF Sequencing, StatusIsNotTorn
<1> QED
  BY <1>1, <1>2, <1>3, PTL DEF Spec
=============================================================================
