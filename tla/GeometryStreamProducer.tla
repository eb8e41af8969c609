------------------------- MODULE GeometryStreamProducer -------------------------
(***************************************************************************)
(* GeometryStreamProducer                                                  *)
(* (src/src/include/machine/GeometryStreamProducer.h): it takes the events *)
(* of the interpreter one after the other and turns them into the messages *)
(* of the forward channel.  An operator takes the record p of its members  *)
(*   at          "ready", "waiting" for the answer to a barrier, "done"    *)
(*   mode, trim  m_geometryPathMode and 3 * m_continuousScale, or NoMode   *)
(*               and NoTrim                                                *)
(*   chain       m_chain, 0 for none; chains counts those begun            *)
(*   retained    m_continuous, the motions not yet prepared                *)
(*   anchor, processed        m_haveLongAnchor, m_processedLongAnchor      *)
(*   unprepared  duration of the exact stops among them                    *)
(*   records     m_commandRecords                                          *)
(*   pieces      m_pendingPieces                                           *)
(*   activated   m_activatedCommands                                       *)
(*   out         messages of this event, in order                          *)
(* and returns the record the member function leaves.                      *)
(*                                                                         *)
(* Motions differ in presentation as they do in path tolerance: both break *)
(* a chain.  Lifecycle and status messages, which do not touch geometry,   *)
(* and the probe fence are left out.                                       *)
(***************************************************************************)
EXTENDS PreparedGeometry

CONSTANT PublishDuration    \* publishNominalDuration

ASSUME PublishAssumption == PublishDuration \in Nat \ {0}

NoMode == "None"
NoTrim == 0

IdleProducer ==
    [at |-> "ready", mode |-> NoMode, trim |-> NoTrim, chain |-> 0, chains |-> 0,
     retained |-> <<>>, anchor |-> FALSE, processed |-> FALSE, unprepared |-> 0,
     records |-> {}, pieces |-> <<>>, activated |-> {}, out |-> <<>>]

Message(type) ==
    [type |-> type, chain |-> 0, pieces |-> <<>>, commands |-> {}, distance |-> 0]

Push(p, message) == IF p.at = "done" THEN p ELSE [p EXCEPT !.out = Append(@, message)]

\* An exception, which run reports to the driver.
Throw(p) == [Push(p, Message("Failure")) EXCEPT !.at = "done"]

Duration(pieces) == FoldLeft(LAMBDA sum, piece : sum + piece.to - piece.from, 0, pieces)

-----------------------------------------------------------------------------

\* Mutant of PruneCommandRecords: the records of pending pieces are dropped too.
PruneAllButRetained(p) ==
    [p EXCEPT !.records = {r \in @ : r.id \in {c.id : c \in Range(p.retained)}}]

PruneCommandRecords(p) ==
    [p EXCEPT !.records =
        {r \in @ : r.id \in {c.id : c \in Range(p.retained)} \cup References(p.pieces)}]

PublishPending(p) ==
    LET referenced == References(p.pieces)
        slice == [Message("Slice") EXCEPT
            !.chain = p.chain, !.pieces = p.pieces,
            !.commands = {[id |-> r.id, mode |-> r.mode, activation |-> r.id \notin p.activated] :
                             r \in {c \in p.records : c.id \in referenced}}]
    IN  IF p.pieces = <<>> THEN p
        ELSE IF \E id \in referenced : \A r \in p.records : r.id # id
        THEN Throw(p)
        ELSE PruneCommandRecords([Push(p, slice) EXCEPT
                 !.pieces = <<>>, !.activated = @ \cup referenced])

PrepareWindow(p, deferred) ==
    IF p.mode = "ExactStop" THEN PrepareExactStopGeometry(p.retained)
    ELSE PrepareContinuousGeometry(p.retained, p.processed, deferred)

\* The replacement that enters the new anchor waits for the next slice.
PrepareThroughLongAnchor(p) ==
    LET prepared == PrepareWindow(p, TRUE)
        finished == [p EXCEPT !.pieces = @ \o Front(prepared)]
        published == IF Duration(finished.pieces) >= PublishDuration
                     THEN PublishPending(finished) ELSE finished
    IN  IF prepared = <<>> THEN Throw(p)
        ELSE PruneCommandRecords([published EXCEPT
            !.pieces = Append(@, Last(prepared)), !.retained = <<Last(@)>>,
            !.anchor = TRUE, !.processed = TRUE])

FlushContinuous(p) ==
    LET prepared == PublishPending([p EXCEPT !.pieces = @ \o PrepareWindow(p, FALSE)])
        emptied == IF p.retained = <<>> THEN p
                   ELSE [prepared EXCEPT
                       !.retained = <<>>, !.records = {}, !.activated = {},
                       !.anchor = FALSE, !.processed = FALSE, !.unprepared = 0]
    IN  IF emptied.chain = 0 THEN emptied
        ELSE [Push(emptied, [Message("ContinuousEnd") EXCEPT !.chain = emptied.chain]) EXCEPT
                  !.mode = NoMode, !.trim = NoTrim, !.chain = 0,
                  !.records = {}, !.activated = {}, !.unprepared = 0]

-----------------------------------------------------------------------------
(* processCommand *)

BeginChain(p) ==
    IF p.chain # 0 THEN p ELSE [p EXCEPT !.chain = p.chains + 1, !.chains = @ + 1]

Retain(p, record) ==
    [p EXCEPT !.records = @ \cup {record}, !.retained = Append(@, record)]

AddExactStop(p, record) ==
    LET added == [Retain(BeginChain(p), record) EXCEPT !.unprepared = @ + record.length]
        published == PublishPending([added EXCEPT !.pieces = @ \o PrepareWindow(added, FALSE)])
    IN  IF added.unprepared < PublishDuration THEN added
        ELSE PruneCommandRecords([published EXCEPT !.retained = <<>>, !.unprepared = 0])

\* An incompatible motion ends the chain before it, and the mode of the stream with
\* it, which is not set again for this motion.
AddContinuous(p, record) ==
    LET compatible == p.retained # <<>> /\ p.trim = record.trim
        flushed == IF compatible \/ p.retained = <<>> THEN p ELSE FlushContinuous(p)
        begun == IF flushed.retained # <<>> THEN flushed
                 ELSE BeginChain([flushed EXCEPT !.trim = record.trim])
        added == Retain(begun, record)
    IN  IF ~IsLong(record) THEN added
        ELSE IF ~added.anchor THEN [added EXCEPT !.anchor = TRUE]
        ELSE PrepareThroughLongAnchor(added)

ProcessMotion(p, record) ==
    LET flushed == IF p.mode \notin {NoMode, record.mode} THEN FlushContinuous(p) ELSE p
        moded == IF flushed.mode = NoMode THEN [flushed EXCEPT !.mode = record.mode] ELSE flushed
    IN  IF record.mode = "ExactStop" THEN AddExactStop(moded, record)
        ELSE AddContinuous(moded, record)

\* Everything else: what is retained is published first.
PublishAfterFlush(p, message) == Push(FlushContinuous(p), message)
=============================================================================
