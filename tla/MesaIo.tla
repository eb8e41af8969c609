------------------------------- MODULE MesaIo -------------------------------
(***************************************************************************)
(* The cyclic exchange with the Mesa board:                                *)
(* src/mesa/MesaProductionExecutorIo.cpp over HostMot2CyclicIo::cycle over *)
(* Lbp16CyclicTransaction::exchange over a UDP socket, and the board.      *)
(*                                                                         *)
(* Every servo tick sends one datagram that writes the output image staged *)
(* by the tick before and reads the inputs, and waits a bounded time for   *)
(* the answer.  Datagrams are lost and repeated.  Two sequence words, read *)
(* back from the board, tell the answer of this cycle from an older one.   *)
(*                                                                         *)
(* One joint is modelled.  Positions and rates are integers, a rate being  *)
(* the distance of one servo period; the sub-step corrections of the       *)
(* position loop are left out, so that a joint follows exactly or is at    *)
(* fault.  A state [at, moves] of the joint is stationary unless moves.    *)
(* The board's watchdog stops the outputs for good when it is armed and    *)
(* not serviced in time.                                                   *)
(***************************************************************************)
EXTENDS Integers, Sequences

CONSTANTS
    ConvergenceCycles,  \* cycles within the phase guard before the DPLL is ready
    SequenceModulus     \* the sequence words count modulo this (2^32)

ASSUME MesaAssumption ==
    /\ ConvergenceCycles \in Nat \ {0}
    /\ SequenceModulus \in Nat \ {0, 1}

VARIABLES
    pending,        \* m_pendingOutputs: the image the next exchange writes
    mesaFault,      \* m_faultCode
    latched,        \* HostMot2CyclicIo::latchedResult is a fault
    sequence,       \* nextReadSequence and nextWriteSequence
    converged,      \* dpllConvergenceCycles; ready at ConvergenceCycles
    sampled,        \* m_sampledAccumulatorSubcounts
    origin,         \* m_accumulatorOriginSubcounts
    available,      \* m_accumulatorFeedbackAvailable
    aligned,        \* m_accumulatorFeedbackAligned
    targets,        \* the joint's position of the last three images: staged
                    \* (m_pendingCommandedJoints), written, and measured against
    last,           \* m_lastCommandedJoints and m_lastExecutorEnabled
    external,       \* m_externalEnableActive
    replies,        \* answers waiting in the socket, oldest first
    board,          \* the board's registers and watchdog
    position,       \* the board's step accumulator
    slipped         \* the board once made fewer steps than it was told

mesaVars == <<pending, mesaFault, latched, sequence, converged, sampled, origin,
              available, aligned, targets, last, external, replies, board, position,
              slipped>>
hostVars == <<pending, mesaFault, latched, sequence, converged, sampled, origin,
              available, aligned, targets, last, external>>
boardVars == <<replies, board, position, slipped>>

MesaFaults == {"none", "exchange", "alignment", "following"}
SafeImage == [rate |-> 0, watchdog |-> FALSE]
Rest(at) == [at |-> at, moves |-> FALSE]

MesaTypeOK ==
    /\ pending \in [rate : Int, watchdog : BOOLEAN]
    /\ mesaFault \in MesaFaults
    /\ latched \in BOOLEAN
    /\ sequence \in 0 .. SequenceModulus - 1
    /\ converged \in 0 .. ConvergenceCycles
    /\ {sampled, origin, position} \subseteq Int
    /\ {available, aligned, external, slipped} \subseteq BOOLEAN
    /\ targets \in [staged : Int, written : Int, measured : Int]
    /\ last \in [joint : [at : Int, moves : BOOLEAN], enabled : BOOLEAN]
    /\ replies \in Seq([sequence : 0 .. SequenceModulus - 1, at : Int,
                        bitten : BOOLEAN, error : BOOLEAN])
    /\ board \in [rate : Int, armed : BOOLEAN, fresh : BOOLEAN, bitten : BOOLEAN]

\* MesaProductionExecutorIo::create: initializeSafe wrote zero rates and disabled
\* the watchdog, and was answered.
MesaInit ==
    /\ pending = SafeImage
    /\ mesaFault = "none"
    /\ latched = FALSE
    /\ sequence = 1
    /\ converged = 0
    /\ sampled = 0
    /\ origin = 0
    /\ available = FALSE
    /\ aligned = FALSE
    /\ targets = [staged |-> 0, written |-> 0, measured |-> 0]
    /\ last = [joint |-> Rest(0), enabled |-> FALSE]
    /\ external = FALSE
    /\ replies = <<>>
    /\ board = [rate |-> 0, armed |-> FALSE, fresh |-> FALSE, bitten |-> FALSE]
    /\ position = 0
    /\ slipped = FALSE

\* The step generators run.
Stepping == board.rate # 0 /\ ~board.bitten

-----------------------------------------------------------------------------
(* The exchange.                                                           *)

DpllReady == converged = ConvergenceCycles

\* Mutant: the watchdog is armed only until the DPLL is ready.
DatagramArmsBeforeReady ==
    [rate |-> IF DpllReady THEN pending.rate ELSE 0,
     armed |-> pending.watchdog /\ ~DpllReady]

\* cycle, the write side: no steps are commanded before the DPLL is ready.
Datagram ==
    [rate |-> IF DpllReady THEN pending.rate ELSE 0,
     armed |-> pending.watchdog]

\* The board serves the datagram: the period that ends ran under the old image.
Served(moved, copies, error) ==
    /\ position' = position + moved
    /\ board' = [rate |-> Datagram.rate, armed |-> Datagram.armed,
                 fresh |-> TRUE, bitten |-> board.bitten]
    /\ replies' = replies \o
           [k \in 1 .. copies |-> [sequence |-> sequence, at |-> position',
                                   bitten |-> board.bitten, error |-> error]]

\* exchangeDatagram sends; the datagram is lost, or served and answered by no, one
\* or two datagrams.
SendsDatagram(losses, slips) ==
    LET steps == IF board.bitten THEN 0 ELSE board.rate
    IN  \E slip \in IF slips /\ steps # 0 /\ ~slipped THEN BOOLEAN ELSE {FALSE} :
            /\ \/ losses /\ UNCHANGED <<position, board, replies>>
               \/ \E copies \in IF losses THEN 0 .. 2 ELSE {1}, error \in BOOLEAN :
                      /\ error => losses
                      /\ Served(IF slip THEN 0 ELSE steps, copies, error)
            /\ slipped' = (slipped \/ slip)
            /\ UNCHANGED hostVars

\* Mutant: any answer of the right size is taken.
AnswersAny(reply) == ~reply.error

\* Lbp16CyclicTransaction::exchange: sequence words and board error.
Answers(reply) == reply.sequence = sequence /\ ~reply.error

\* cycle, the read side: with this answer and phase error the cycle succeeds.
CycleSucceeds(phase) ==
    /\ replies # <<>>
    /\ Answers(Head(replies))
    /\ ~(pending.watchdog /\ Head(replies).bitten)
    /\ ~(phase = "large" /\ DpllReady)

ConvergedAfter(phase) ==
    IF phase = "large" THEN 0
    ELSE IF DpllReady THEN converged ELSE converged + 1

\* The answer is taken from the socket, or the wait for it times out.
TakesReply ==
    /\ replies' = IF replies = <<>> THEN replies ELSE Tail(replies)
    /\ sequence' = (sequence + 1) % SequenceModulus

\* exchangePendingOutputs failed: the cyclic layer stays silent from now on.
CycleFails ==
    /\ latched' = TRUE
    /\ mesaFault' = IF mesaFault = "none" THEN "exchange" ELSE mesaFault

\* sampleDigitalInputs, the alignment: the accumulator is read while the joint
\* stands where the executor says it stands.
Aligns(reading) ==
    IF ~(DpllReady' /\ ~aligned /\ last.enabled)
    THEN UNCHANGED <<aligned, origin, mesaFault>>
    ELSE IF last.joint.moves
    THEN mesaFault' = "alignment" /\ UNCHANGED <<aligned, origin>>
    ELSE /\ aligned' = TRUE
         /\ origin' = reading - last.joint.at
         /\ UNCHANGED mesaFault

\* Mutant: the reading is measured against the image that is only just written.
TargetsOneEarly ==
    [staged |-> targets.staged, written |-> targets.staged, measured |-> targets.staged]

\* The reading belongs to the image written one exchange ago.
TargetsAtSample ==
    [staged |-> targets.staged, written |-> targets.staged, measured |-> targets.written]

\* sampleDigitalInputs: open is the level of the external enable input.
Samples(phase, open) ==
    LET reading == Head(replies).at
    IN  /\ converged' = ConvergedAfter(phase)
        /\ targets' = TargetsAtSample
        /\ available' = DpllReady'
        /\ sampled' = IF DpllReady' THEN reading ELSE sampled
        /\ Aligns(reading)
        /\ external' = IF mesaFault' = "none" THEN open ELSE external

\* The exchange of a servo tick ends.
Receives(phases, opens) ==
    \E phase \in phases, open \in opens :
        /\ TakesReply
        /\ IF CycleSucceeds(phase)
           THEN Samples(phase, open) /\ UNCHANGED latched
           ELSE /\ CycleFails
                /\ UNCHANGED <<converged, sampled, origin, available, aligned, targets,
                               external>>
        /\ UNCHANGED <<pending, last, board, position, slipped>>

\* The exchange of establishSafeOutputs ends: the inputs are not looked at.
DiscardsAnswer(phases) ==
    \E phase \in phases :
        /\ TakesReply
        /\ IF CycleSucceeds(phase)
           THEN converged' = ConvergedAfter(phase) /\ UNCHANGED <<latched, mesaFault>>
           ELSE CycleFails /\ UNCHANGED converged
        /\ UNCHANGED <<pending, sampled, origin, available, aligned, targets, last,
                       external, board, position, slipped>>

-----------------------------------------------------------------------------
(* applyOutputs stages the image of the next exchange.                     *)

StagesSafely(joint) ==
    /\ pending' = SafeImage
    /\ targets' = [staged |-> joint.at, written |-> joint.at, measured |-> joint.at]
    /\ last' = [joint |-> joint, enabled |-> FALSE]
    /\ aligned' = FALSE
    /\ UNCHANGED <<mesaFault, origin>>

\* The joint stood in the last image and stands in this one: the coordinate may
\* have been assigned, and the accumulator is taken to be where it says.
StandsStill(joint) == ~joint.moves /\ ~last.joint.moves

FollowingError(joint) ==
    IF StandsStill(joint) THEN 0 ELSE targets.measured - (sampled - origin)

Stages(joint, rate) ==
    /\ pending' = [rate |-> rate, watchdog |-> TRUE]
    /\ targets' = [targets EXCEPT !.staged = joint.at]
    /\ last' = [joint |-> joint, enabled |-> TRUE]
    /\ UNCHANGED mesaFault

FaultsAtOnce(fault) ==
    /\ mesaFault' = fault
    /\ pending' = SafeImage
    /\ UNCHANGED <<targets, last>>

OriginAfter(joint) == IF StandsStill(joint) THEN sampled - joint.at ELSE origin

AppliesMotion(joint) ==
    IF ~available
    THEN Stages(joint, 0) /\ UNCHANGED <<aligned, origin>>
    ELSE IF ~aligned
    THEN /\ IF joint.moves THEN FaultsAtOnce("alignment") ELSE Stages(joint, 0)
         /\ UNCHANGED <<aligned, origin>>
    ELSE /\ origin' = OriginAfter(joint)
         /\ IF FollowingError(joint) # 0
            THEN FaultsAtOnce("following")
            ELSE Stages(joint, IF StandsStill(joint) THEN 0
                               ELSE joint.at - last.joint.at)
         /\ UNCHANGED aligned

\* enabled is outputs.executorEnabled.
MesaApplies(joint, enabled) ==
    /\ IF mesaFault # "none" \/ external \/ ~enabled
       THEN StagesSafely(joint)
       ELSE AppliesMotion(joint)
    /\ UNCHANGED <<latched, sequence, converged, sampled, available, external>>
    /\ UNCHANGED boardVars

ExecutionReady == available /\ aligned

-----------------------------------------------------------------------------
(* The board's watchdog.                                                   *)

WatchdogRuns ==
    /\ board.armed /\ board.fresh
    /\ board' = [board EXCEPT !.fresh = FALSE]
    /\ UNCHANGED <<hostVars, replies, position, slipped>>

WatchdogBites ==
    /\ board.armed /\ ~board.fresh /\ ~board.bitten
    /\ board' = [board EXCEPT !.bitten = TRUE]
    /\ UNCHANGED <<hostVars, replies, position, slipped>>

Watchdog == WatchdogRuns \/ WatchdogBites

=============================================================================
