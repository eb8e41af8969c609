--------------------------- MODULE PhysicalIoProofs ---------------------------
(***************************************************************************)
(* What the servo loop of a real machine relies on in its hardware, for    *)
(* every capacity, convergence, travel and modulus: a spindle reported as  *)
(* safely stopped has been told to stop after everything else it was told, *)
(* the executor decides on the inputs of this very cycle, and a following  *)
(* error is one.                                                           *)
(***************************************************************************)
EXTENDS PhysicalIo, SequenceTheorems, TLAPS

-----------------------------------------------------------------------------
(* The spindle.                                                            *)

\* Where the worker can be while a stop is answered and no rearm has followed.
AfterAnswer == {"fault?", "armed?", "top", "last stop", "last answer", "ended"}

\* The stop is the last thing the drive was told when it is answered, and while the
\* answer stands the worker tells it nothing else.
SpindleInv ==
    /\ worker \in {"answer", "last answer"} => drive = "off" \/ deaf
    /\ safety = "SafeStopped" => worker \in AfterAnswer /\ (drive = "off" \/ deaf)

-----------------------------------------------------------------------------
(* The exchange with the board.                                            *)

Exchanging == servo \in {"sent", "safe sent"}

\* The board has served the datagram of this cycle, and its answer is the next one.
Answered == replies # <<>> /\ Head(replies).sequence = sequence

\* As long as no exchange has failed, at most the repeated answer of the last cycle is
\* waiting, and it is known by its sequence word.
RepliesInv ==
    /\ latched => mesaFault # "none"
    /\ ~latched /\ ~Exchanging =>
          Len(replies) <= 1 /\ \A i \in DOMAIN replies : replies[i].sequence # sequence
    /\ ~latched /\ Exchanging /\ Answered =>
          /\ Len(replies) <= 2
          /\ \A i \in DOMAIN replies :
                replies[i].sequence = sequence /\ replies[i].at = position

-----------------------------------------------------------------------------
(* The joint.                                                              *)

\* What the core lets the joint do.
JointInv ==
    /\ joint.moves => core \in {"Running", "Faulted"}
    /\ estop => core = "Faulted" /\ ~joint.moves
    /\ assigned => ~joint.moves

\* The axes are controlled: the loop runs, and the board has not failed.
Controlled == Axes /\ mesaFault = "none" /\ servo \in {"wait", "sent", "core", "late?"}

\* What is staged for the board is the joint as the core left it, and steps are staged
\* for a joint that moves from where its accumulator is known.
StagedInv ==
    /\ last.joint = joint /\ targets.staged = joint.at
    /\ available => DpllReady
    /\ aligned => available /\ pending.watchdog
    /\ joint.moves => available
    /\ pending.rate # 0 => joint.moves /\ aligned
    /\ last.enabled => pending.watchdog

\* Where the board is, between two exchanges, ...
WaitingInv ==
    /\ aligned => /\ position + board.rate + pending.rate = origin + joint.at
                  /\ ~assigned => position + board.rate = origin + targets.written
    /\ ~aligned /\ ~assigned => targets.written = joint.at

\* ... when it has served this cycle, ...
ServedInv ==
    /\ aligned /\ ~Head(replies).bitten =>
          /\ position + board.rate = origin + joint.at
          /\ ~assigned => position = origin + targets.written
    /\ ~aligned /\ ~assigned => targets.written = joint.at
    /\ board.rate # 0 => joint.moves /\ aligned

\* ... and when it has been read.
ReadInv ==
    /\ targets.written = joint.at
    /\ aligned => /\ position + board.rate = origin + joint.at
                  /\ ~assigned => position = origin + targets.measured
    /\ board.rate # 0 => joint.moves /\ aligned

BoardInv ==
    ~slipped =>
        /\ servo \in {"wait", "late?"} => WaitingInv
        /\ servo = "sent" /\ Answered => ServedInv
        /\ servo = "core" => ReadInv

AxesInv ==
    /\ Controlled => StagedInv /\ BoardInv
    /\ FollowingErrorMeansSlip

Joints == [at : Int, moves : BOOLEAN]

CoreTypeOK ==
    /\ core \in {"Disabled", "Held", "Running", "Faulted"}
    /\ joint \in Joints
    /\ turn \in Turns
    /\ {safeOut, estop, assigned} \subseteq BOOLEAN

LoopTypeOK ==
    /\ fitted \in {"axes", "spindle"}
    /\ servo \in ServoAt
    /\ sent \in Turns \cup {"none"}

\* The inductive invariant of the types, the spindle, the exchange and the joint.
PhysicalInv ==
    /\ SpindleTypeOK /\ MesaTypeOK /\ CoreTypeOK /\ LoopTypeOK
    /\ SpindleInv
    /\ RepliesInv
    /\ InputsAreCurrent
    /\ JointInv

-----------------------------------------------------------------------------
(* The spindle.  The queue is a sequence; the servo thread only asks for a *)
(* stop or rearms, the worker alone writes to the drive and answers.       *)

LEMMA BoundedQueue ==
  ASSUME NEW s
  PROVE  s \in BoundedSeq(Turns, CommandCapacity)
         <=> s \in Seq(Turns) /\ Len(s) <= CommandCapacity
<1>1. CommandCapacity \in Nat
  BY SpindleAssumption
<1>2. ASSUME s \in BoundedSeq(Turns, CommandCapacity)
      PROVE  s \in Seq(Turns) /\ Len(s) <= CommandCapacity
  <2>1. PICK m \in 0 .. CommandCapacity : s \in [1 .. m -> Turns]
    BY <1>1, <1>2 DEF BoundedSeq, SeqOf
  <2>2. m \in Nat /\ m <= CommandCapacity
    BY <1>1
  <2>3. s \in Seq(Turns)
    BY <2>1, <2>2
  <2>4. Len(s) = m
    BY <2>1, <2>2, <2>3, LenProperties
  <2> QED
    BY <2>2, <2>3, <2>4
<1>3. ASSUME s \in Seq(Turns), Len(s) <= CommandCapacity
      PROVE  s \in BoundedSeq(Turns, CommandCapacity)
  <2>1. Len(s) \in 0 .. CommandCapacity /\ s \in [1 .. Len(s) -> Turns]
    BY <1>1, <1>3, LenProperties
  <2> QED
    BY <2>1 DEF BoundedSeq, SeqOf
<1> QED
  BY <1>2, <1>3

\* A command less or, where there is room, a command more is still a queue.
LEMMA QueueStays ==
  ASSUME commands \in BoundedSeq(Turns, CommandCapacity)
  PROVE  /\ commands # <<>> => /\ Head(commands) \in Turns
                               /\ Tail(commands) \in BoundedSeq(Turns, CommandCapacity)
         /\ \A way \in Turns : HasRoom =>
                Append(commands, way) \in BoundedSeq(Turns, CommandCapacity)
<1>1. commands \in Seq(Turns) /\ Len(commands) <= CommandCapacity
      /\ CommandCapacity \in Nat
  BY BoundedQueue, SpindleAssumption
<1>2. ASSUME commands # <<>>
      PROVE  /\ Head(commands) \in Turns
             /\ Tail(commands) \in BoundedSeq(Turns, CommandCapacity)
  <2>1. /\ Head(commands) \in Turns /\ Tail(commands) \in Seq(Turns)
        /\ Len(Tail(commands)) = Len(commands) - 1 /\ Len(commands) \in Nat
    BY <1>1, <1>2, HeadTailProperties, LenProperties
  <2>2. Len(Tail(commands)) <= CommandCapacity
    BY <1>1, <2>1
  <2> QED
    BY <2>1, <2>2, BoundedQueue
<1>3. ASSUME NEW way \in Turns, HasRoom
      PROVE  Append(commands, way) \in BoundedSeq(Turns, CommandCapacity)
  <2>1. /\ Append(commands, way) \in Seq(Turns) /\ Len(commands) \in Nat
        /\ Len(Append(commands, way)) = Len(commands) + 1
    BY <1>1, AppendProperties, LenProperties
  <2>2. Len(Append(commands, way)) <= CommandCapacity
    BY <1>1, <1>3, <2>1 DEF HasRoom
  <2> QED
    BY <2>1, <2>2, BoundedQueue
<1> QED
  BY <1>2, <1>3

\* The worker, one step per place in its round.
LEMMA WorkerKeepsSpindle ==
  ASSUME SpindleTypeOK, SpindleInv, Worker
  PROVE  SpindleTypeOK' /\ SpindleInv'
<1> USE DEF SpindleTypeOK, SpindleInv, AfterAnswer, WorkerAt, Safeties, Turns, WorkerGoes
<1>1. CASE Top
  BY <1>1 DEF Top
<1>2. CASE Drain
  BY <1>2, QueueStays DEF Drain
<1>3. CASE SafeStop
  BY <1>3 DEF SafeStop, WriteStop
<1>4. CASE AnswersSafeStop
  BY <1>4 DEF AnswersSafeStop
<1>5. CASE LeavesOnFault
  BY <1>5 DEF LeavesOnFault
<1>6. CASE SleepsUnlessArmed
  BY <1>6 DEF SleepsUnlessArmed
<1>7. CASE PopsCommand
  BY ZenonT(60), <1>7, QueueStays DEF PopsCommand
<1>8. CASE StillArmed
  BY <1>8 DEF StillArmed
<1>9. CASE AppliesCommand
  BY <1>9 DEF AppliesCommand
<1>10. CASE WritesFrequency
  BY <1>10 DEF WritesFrequency
<1>11. CASE RunsIfArmed
  BY <1>11 DEF RunsIfArmed
<1>12. CASE WritesRun
  BY <1>12 DEF WritesRun
<1>13. CASE LatchesFault
  BY <1>13 DEF LatchesFault
<1>14. CASE StopsAfterFailure
  BY <1>14 DEF StopsAfterFailure, EstablishSafeStop
<1>15. CASE PollsStatus
  BY <1>15 DEF PollsStatus
<1>16. CASE EndsRound
  BY <1>16 DEF EndsRound, EstablishSafeStop
<1>17. CASE LastStop
  BY <1>17 DEF LastStop, WriteStop
<1>18. CASE LastAnswer
  BY <1>18 DEF LastAnswer
<1> QED
  BY <1>1, <1>2, <1>3, <1>4, <1>5, <1>6, <1>7, <1>8, <1>9, <1>10, <1>11, <1>12,
     <1>13, <1>14, <1>15, <1>16, <1>17, <1>18 DEF Worker

\* The servo thread asks for a stop, or rearms.
LEMMA ServoKeepsSpindle ==
  ASSUME SpindleInv, safety \in Safeties,
         EstablishSafeStop \/ Rearm \/ UNCHANGED safety,
         UNCHANGED <<worker, drive, deaf>>
  PROVE  safety' \in Safeties /\ SpindleInv'
  BY DEF SpindleInv, EstablishSafeStop, Rearm, Safeties, AfterAnswer

-----------------------------------------------------------------------------
(* The exchange.                                                           *)

Words == 0 .. SequenceModulus - 1
Answer == [sequence : Words, at : Int, bitten : BOOLEAN, error : BOOLEAN]

\* The datagram is served and answered as it is sent, or it is lost and the socket holds
\* what it held.
LEMMA DatagramIsServed ==
  ASSUME MesaTypeOK, SendsDatagram(TRUE, TRUE)
  PROVE  /\ MesaTypeOK'
         /\ UNCHANGED hostVars
         /\ slipped => slipped'
         /\ \/ UNCHANGED <<position, board, replies>>
            \/ /\ board'.rate = Datagram.rate
               /\ ~slipped' => position' = position + (IF board.bitten THEN 0 ELSE board.rate)
               /\ \E new \in Seq(Answer) :
                     /\ Len(new) <= 2
                     /\ \A i \in DOMAIN new : /\ new[i].sequence = sequence
                                              /\ new[i].at = position'
                                              /\ new[i].bitten = board.bitten
                     /\ replies' = replies \o new
<1> DEFINE steps == IF board.bitten THEN 0 ELSE board.rate
<1>1. /\ replies \in Seq(Answer) /\ sequence \in Words /\ position \in Int
      /\ board.rate \in Int /\ board.bitten \in BOOLEAN /\ steps \in Int
      /\ pending.rate \in Int /\ pending.watchdog \in BOOLEAN /\ slipped \in BOOLEAN
  BY DEF MesaTypeOK, Answer, Words
<1>2. UNCHANGED hostVars
  BY DEF SendsDatagram
<1>3. PICK slip \in BOOLEAN :
         /\ slip => steps # 0 /\ ~slipped
         /\ \/ UNCHANGED <<position, board, replies>>
            \/ \E copies \in 0 .. 2, error \in BOOLEAN :
                  Served(IF slip THEN 0 ELSE steps, copies, error)
         /\ slipped' = (slipped \/ slip)
  BY DEF SendsDatagram
<1>4. slipped' \in BOOLEAN /\ (slipped => slipped')
  BY <1>1, <1>3
<1>5. CASE UNCHANGED <<position, board, replies>>
  BY <1>2, <1>4, <1>5 DEF MesaTypeOK, hostVars, DpllReady
<1>6. ASSUME NEW copies \in 0 .. 2, NEW error \in BOOLEAN,
             Served(IF slip THEN 0 ELSE steps, copies, error)
      PROVE  /\ MesaTypeOK'
             /\ board'.rate = Datagram.rate
             /\ ~slipped' => position' = position + steps
             /\ \E new \in Seq(Answer) :
                   /\ Len(new) <= 2
                   /\ \A i \in DOMAIN new : /\ new[i].sequence = sequence
                                            /\ new[i].at = position'
                                            /\ new[i].bitten = board.bitten
                   /\ replies' = replies \o new
  <2> DEFINE new == [k \in 1 .. copies |->
                        [sequence |-> sequence, at |-> position',
                         bitten |-> board.bitten, error |-> error]]
  <2>1. /\ position' = position + (IF slip THEN 0 ELSE steps)
        /\ board' = [rate |-> Datagram.rate, armed |-> Datagram.armed,
                     fresh |-> TRUE, bitten |-> board.bitten]
        /\ replies' = replies \o new
    BY <1>6 DEF Served
  <2>2. position' \in Int /\ copies \in Nat /\ copies <= 2
    BY <1>1, <2>1
  <2>3. new \in Seq(Answer) /\ Len(new) = copies
    <3>1. new \in [1 .. copies -> Answer]
      BY <1>1, <2>2 DEF Answer
    <3> QED
      BY <2>2, <3>1, LenProperties
  <2>4. replies' \in Seq(Answer)
    BY <1>1, <2>1, <2>3, ConcatProperties
  <2>5. board' \in [rate : Int, armed : BOOLEAN, fresh : BOOLEAN, bitten : BOOLEAN]
    BY <1>1, <2>1 DEF Datagram
  <2>6. MesaTypeOK'
    BY <1>2, <1>4, <2>2, <2>4, <2>5 DEF MesaTypeOK, hostVars, Answer, Words
  <2>7. \A i \in DOMAIN new : /\ new[i].sequence = sequence
                              /\ new[i].at = position'
                              /\ new[i].bitten = board.bitten
    OBVIOUS
  <2>8. board'.rate = Datagram.rate
    BY <2>1
  <2>9. ~slipped' => position' = position + steps
    BY <1>3, <2>1
  <2> HIDE DEF new
  <2> QED
    BY <2>1, <2>2, <2>3, <2>6, <2>7, <2>8, <2>9
<1> HIDE DEF steps
<1>7. CASE \E copies \in 0 .. 2, error \in BOOLEAN :
              Served(IF slip THEN 0 ELSE steps, copies, error)
  <2>1. PICK copies \in 0 .. 2, error \in BOOLEAN :
                Served(IF slip THEN 0 ELSE steps, copies, error)
    BY <1>7
  <2> QED
    BY <1>2, <1>4, <1>6, <2>1 DEF steps
<1> QED
  BY <1>2, <1>3, <1>4, <1>5, <1>7

\* If the socket held at most old answers, the first of those it holds now is the answer of
\* this cycle only when it held none, and then all are.
LEMMA AnswerIsNew ==
  ASSUME MesaTypeOK, SendsDatagram(TRUE, TRUE),
         Len(replies) <= 1, \A i \in DOMAIN replies : replies[i].sequence # sequence,
         Answered'
  PROVE  /\ Len(replies') <= 2
         /\ \A i \in DOMAIN replies' : /\ replies'[i].sequence = sequence'
                                       /\ replies'[i].at = position'
         /\ board'.rate = Datagram.rate
         /\ ~slipped' => position' = position + (IF board.bitten THEN 0 ELSE board.rate)
         /\ Head(replies').bitten = board.bitten
<1>1. /\ replies \in Seq(Answer) /\ sequence' = sequence
      /\ replies' # <<>> /\ Head(replies').sequence = sequence
  BY DatagramIsServed DEF MesaTypeOK, Answer, Words, hostVars, Answered
<1>2. replies' # replies
  <2>1. SUFFICES ASSUME replies' = replies PROVE FALSE
    OBVIOUS
  <2>2. Head(replies) = replies[1] /\ 1 \in DOMAIN replies
    BY <1>1, <2>1, HeadTailProperties, LenProperties
  <2> QED
    BY <1>1, <2>1, <2>2
<1>3. /\ board'.rate = Datagram.rate
      /\ ~slipped' => position' = position + (IF board.bitten THEN 0 ELSE board.rate)
      /\ \E new \in Seq(Answer) :
            /\ Len(new) <= 2
            /\ \A i \in DOMAIN new : /\ new[i].sequence = sequence
                                     /\ new[i].at = position'
                                     /\ new[i].bitten = board.bitten
            /\ replies' = replies \o new
  BY <1>2, DatagramIsServed
<1>4. PICK new \in Seq(Answer) :
         /\ Len(new) <= 2
         /\ \A i \in DOMAIN new : /\ new[i].sequence = sequence
                                  /\ new[i].at = position'
                                  /\ new[i].bitten = board.bitten
         /\ replies' = replies \o new
  BY <1>3
<1>5. replies = <<>>
  <2>1. SUFFICES ASSUME replies # <<>> PROVE FALSE
    OBVIOUS
  <2>2. Len(replies) >= 1 /\ 1 \in DOMAIN replies
    BY <1>1, <2>1, EmptySeq, LenProperties
  <2>3. Len(replies') = Len(replies) + Len(new) /\ replies'[1] = replies[1]
        /\ replies' \in Seq(Answer)
    BY <1>1, <1>4, <2>2, ConcatProperties, LenProperties
  <2>4. Head(replies') = replies'[1]
    BY <1>1, <2>3, HeadTailProperties
  <2> QED
    BY <1>1, <2>2, <2>3, <2>4
<1>6. replies' = new
  BY <1>4, <1>5, ConcatEmptySeq
<1>7. 1 \in DOMAIN new /\ Head(new) = new[1]
  BY <1>1, <1>6, HeadTailProperties, LenProperties
<1> QED
  BY <1>1, <1>3, <1>4, <1>6, <1>7

\* Taking an answer leaves at most the repetition of it, and the next word is another.
LEMMA ReplyIsTaken ==
  ASSUME MesaTypeOK, TakesReply
  PROVE  /\ sequence' \in Words
         /\ replies' \in Seq(Answer)
         /\ /\ Answered
            /\ Len(replies) <= 2
            /\ \A i \in DOMAIN replies : replies[i].sequence = sequence
            => /\ Len(replies') <= 1
               /\ \A i \in DOMAIN replies' : replies'[i].sequence # sequence'
<1>1. /\ SequenceModulus \in Nat /\ SequenceModulus >= 2
      /\ sequence \in Words /\ replies \in Seq(Answer)
  BY MesaAssumption DEF MesaTypeOK, Words, Answer
<1>2. sequence' \in Words /\ sequence' # sequence
  BY <1>1 DEF TakesReply, Words
<1>3. CASE replies = <<>>
  BY <1>1, <1>2, <1>3 DEF TakesReply, Answered
<1>4. CASE replies # <<>>
  <2>1. /\ replies' = Tail(replies) /\ Tail(replies) \in Seq(Answer)
        /\ Len(Tail(replies)) = Len(replies) - 1 /\ Len(replies) \in Nat
        /\ \A i \in 1 .. Len(Tail(replies)) : Tail(replies)[i] = replies[i + 1]
    BY <1>1, <1>4, HeadTailProperties, LenProperties DEF TakesReply
  <2>2. \A i \in DOMAIN replies' : i + 1 \in DOMAIN replies /\ replies'[i] = replies[i + 1]
    BY <1>1, <2>1, LenProperties
  <2> QED
    BY <1>1, <1>2, <2>1, <2>2
<1> QED
  BY <1>3, <1>4

Phases == {"small", "large"}

\* A reading is taken when the exchange succeeded, with the answer of this cycle; otherwise
\* the failure is latched and reported.
LEMMA AnswerIsRead ==
  ASSUME MesaTypeOK, Receives(Phases, BOOLEAN)
  PROVE  /\ MesaTypeOK'
         /\ TakesReply
         /\ UNCHANGED <<pending, last, board, position, slipped>>
         /\ \/ /\ latched' /\ mesaFault' # "none"
               /\ mesaFault = "none" => mesaFault' = "exchange"
               /\ mesaFault # "none" => mesaFault' = mesaFault
            \/ /\ latched' = latched
               /\ Answered
               /\ ~(pending.watchdog /\ Head(replies).bitten)
               /\ targets' = [staged |-> targets.staged, written |-> targets.staged,
                              measured |-> targets.written]
               /\ DpllReady => DpllReady'
               /\ available' = DpllReady'
               /\ DpllReady' => sampled' = Head(replies).at
               /\ Aligns(Head(replies).at)
<1>1. PICK phase \in Phases, open \in BOOLEAN :
         /\ TakesReply
         /\ IF CycleSucceeds(phase)
            THEN Samples(phase, open) /\ UNCHANGED latched
            ELSE /\ CycleFails
                 /\ UNCHANGED <<converged, sampled, origin, available, aligned, targets,
                                external>>
         /\ UNCHANGED <<pending, last, board, position, slipped>>
  BY DEF Receives
<1>2. sequence' \in Words /\ replies' \in Seq(Answer)
  BY <1>1, ReplyIsTaken
<1>3. CASE CycleSucceeds(phase)
  <2>1. /\ Samples(phase, open) /\ latched' = latched
        /\ Answered /\ ~(pending.watchdog /\ Head(replies).bitten)
        /\ ~(phase = "large" /\ DpllReady)
    BY <1>1, <1>3 DEF CycleSucceeds, Answers, Answered
  <2>2. Head(replies).at \in Int
    <3>1. Head(replies) \in Answer
      BY <2>1, HeadTailProperties DEF MesaTypeOK, Answer, Words, Answered
    <3> QED
      BY <3>1 DEF Answer
  <2>3. converged' \in 0 .. ConvergenceCycles /\ (DpllReady => DpllReady')
    BY SMTT(30), <2>1, MesaAssumption DEF Samples, ConvergedAfter, DpllReady, MesaTypeOK
  <2>4. /\ targets' \in [staged : Int, written : Int, measured : Int]
        /\ targets' = [staged |-> targets.staged, written |-> targets.staged,
                       measured |-> targets.written]
    <3>1. targets' = [staged |-> targets.staged, written |-> targets.staged,
                      measured |-> targets.written]
      BY <2>1 DEF Samples, TargetsAtSample
    <3>2. targets.staged \in Int /\ targets.written \in Int
      BY DEF MesaTypeOK
    <3> QED
      BY <3>1, <3>2
  <2>5. available' = DpllReady' /\ available' \in BOOLEAN
    BY <2>1 DEF Samples, DpllReady
  <2>6. sampled' \in Int /\ (DpllReady' => sampled' = Head(replies).at)
    BY <2>1, <2>2 DEF Samples, MesaTypeOK
  <2>7. Aligns(Head(replies).at)
    BY <2>1 DEF Samples
  <2>8. aligned' \in BOOLEAN /\ origin' \in Int /\ mesaFault' \in MesaFaults
    <3>1. /\ aligned \in BOOLEAN /\ origin \in Int /\ mesaFault \in MesaFaults
          /\ last.joint.at \in Int
      BY DEF MesaTypeOK
    <3>2. \/ UNCHANGED <<aligned, origin, mesaFault>>
          \/ mesaFault' = "alignment" /\ UNCHANGED <<aligned, origin>>
          \/ /\ aligned' = TRUE /\ UNCHANGED mesaFault
             /\ origin' = Head(replies).at - last.joint.at
      BY <2>7 DEF Aligns
    <3>3. Head(replies).at - last.joint.at \in Int
      BY <2>2, <3>1
    <3>4. aligned' \in BOOLEAN /\ origin' \in Int
      BY <3>1, <3>2, <3>3
    <3>5. mesaFault' \in MesaFaults
      BY <3>1, <3>2 DEF MesaFaults
    <3> QED
      BY <3>4, <3>5
  <2>9. external' \in BOOLEAN
    BY <2>1 DEF Samples, MesaTypeOK
  <2>10. MesaTypeOK'
    BY <1>1, <1>2, <2>1, <2>3, <2>4, <2>5, <2>6, <2>8, <2>9 DEF MesaTypeOK, Answer, Words
  <2> QED
    BY <1>1, <2>1, <2>3, <2>4, <2>5, <2>6, <2>7, <2>10
<1>4. CASE ~CycleSucceeds(phase)
  <2>1. /\ CycleFails
        /\ UNCHANGED <<converged, sampled, origin, available, aligned, targets, external>>
    BY <1>1, <1>4
  <2>2. MesaTypeOK'
    BY <1>1, <1>2, <2>1 DEF CycleFails, MesaTypeOK, MesaFaults, Answer, Words
  <2> QED
    BY <1>1, <2>1, <2>2 DEF CycleFails
<1> QED
  BY <1>3, <1>4

\* The exchange of the shutdown does not look at the inputs.
LEMMA AnswerIsDiscarded ==
  ASSUME MesaTypeOK, DiscardsAnswer(Phases)
  PROVE  /\ MesaTypeOK'
         /\ TakesReply
         /\ \/ latched' /\ mesaFault' # "none"
            \/ latched' = latched /\ mesaFault' = mesaFault /\ Answered
         /\ mesaFault' = "following" => mesaFault = "following"
         /\ UNCHANGED <<last, position, slipped>>
<1>1. PICK phase \in Phases :
         /\ TakesReply
         /\ IF CycleSucceeds(phase)
            THEN converged' = ConvergedAfter(phase) /\ UNCHANGED <<latched, mesaFault>>
            ELSE CycleFails /\ UNCHANGED converged
         /\ UNCHANGED <<pending, sampled, origin, available, aligned, targets, last,
                        external, board, position, slipped>>
  BY DEF DiscardsAnswer
<1>2. sequence' \in Words /\ replies' \in Seq(Answer)
  BY <1>1, ReplyIsTaken
<1>3. converged' \in 0 .. ConvergenceCycles
  <2>1. converged \in 0 .. ConvergenceCycles /\ ConvergenceCycles \in Nat \ {0}
    BY MesaAssumption DEF MesaTypeOK
  <2>2. \/ converged' = converged
        \/ converged' = ConvergedAfter(phase)
    BY <1>1
  <2> QED
    BY <2>1, <2>2 DEF ConvergedAfter, DpllReady
<1>4. /\ latched' \in BOOLEAN /\ mesaFault' \in MesaFaults
      /\ \/ latched' /\ mesaFault' # "none"
         \/ latched' = latched /\ mesaFault' = mesaFault /\ Answered
      /\ mesaFault' = "following" => mesaFault = "following"
  BY <1>1 DEF MesaTypeOK, MesaFaults, CycleFails, CycleSucceeds, Answers, Answered
<1>5. MesaTypeOK'
  BY <1>1, <1>2, <1>3, <1>4 DEF MesaTypeOK, Answer, Words
<1> QED
  BY <1>1, <1>4, <1>5

\* What is staged is an image; a fault once reported stays.
LEMMA ImageIsStaged ==
  ASSUME MesaTypeOK, NEW j \in Joints, NEW enabled, MesaApplies(j, enabled)
  PROVE  /\ MesaTypeOK'
         /\ mesaFault # "none" => mesaFault' = mesaFault
         /\ UNCHANGED <<latched, sequence, converged, sampled, available, external>>
         /\ UNCHANGED boardVars
<1> USE DEF MesaTypeOK, MesaFaults, Joints
<1>1. /\ UNCHANGED <<latched, sequence, converged, sampled, available, external>>
      /\ UNCHANGED <<replies, board, position, slipped>>
  BY DEF MesaApplies, boardVars
<1>2. /\ pending' \in [rate : Int, watchdog : BOOLEAN]
      /\ mesaFault' \in MesaFaults /\ origin' \in Int /\ aligned' \in BOOLEAN
      /\ targets' \in [staged : Int, written : Int, measured : Int]
      /\ last' \in [joint : [at : Int, moves : BOOLEAN], enabled : BOOLEAN]
      /\ mesaFault # "none" => mesaFault' = mesaFault
  <2>1. CASE mesaFault # "none" \/ external \/ ~enabled
    <3>1. /\ pending' = [rate |-> 0, watchdog |-> FALSE]
          /\ targets' = [staged |-> j.at, written |-> j.at, measured |-> j.at]
          /\ last' = [joint |-> j, enabled |-> FALSE]
          /\ aligned' = FALSE /\ mesaFault' = mesaFault /\ origin' = origin
      BY <2>1 DEF MesaApplies, StagesSafely, SafeImage
    <3>2. j.at \in Int /\ j \in [at : Int, moves : BOOLEAN]
      OBVIOUS
    <3>3. /\ pending' \in [rate : Int, watchdog : BOOLEAN]
          /\ targets' \in [staged : Int, written : Int, measured : Int]
          /\ last' \in [joint : [at : Int, moves : BOOLEAN], enabled : BOOLEAN]
      BY <3>1, <3>2
    <3> QED
      BY <3>1, <3>3
  <2>2. CASE mesaFault = "none" /\ ~external /\ enabled
    <3>1. AppliesMotion(j)
      BY <2>2 DEF MesaApplies
    <3>2. \A rate \in Int : Stages(j, rate) =>
             /\ pending' \in [rate : Int, watchdog : BOOLEAN]
             /\ mesaFault' = mesaFault
             /\ targets' \in [staged : Int, written : Int, measured : Int]
             /\ last' \in [joint : [at : Int, moves : BOOLEAN], enabled : BOOLEAN]
      <4> SUFFICES ASSUME NEW rate \in Int, Stages(j, rate)
                   PROVE  /\ pending' \in [rate : Int, watchdog : BOOLEAN]
                          /\ mesaFault' = mesaFault
                          /\ targets' \in [staged : Int, written : Int, measured : Int]
                          /\ last' \in [joint : [at : Int, moves : BOOLEAN], enabled : BOOLEAN]
        OBVIOUS
      <4>1. /\ pending' = [rate |-> rate, watchdog |-> TRUE]
            /\ last' = [joint |-> j, enabled |-> TRUE]
            /\ mesaFault' = mesaFault
            /\ targets' = [targets EXCEPT !.staged = j.at]
        BY DEF Stages
      <4>2. j.at \in Int
        OBVIOUS
      <4> QED
        BY <4>1, <4>2
    <3>3. \A fault \in MesaFaults : FaultsAtOnce(fault) =>
             /\ pending' \in [rate : Int, watchdog : BOOLEAN]
             /\ mesaFault' \in MesaFaults
             /\ UNCHANGED <<targets, last>>
      BY DEF FaultsAtOnce, SafeImage
    <3>4. 0 \in Int /\ j.at - last.joint.at \in Int /\ OriginAfter(j) \in Int
      BY DEF OriginAfter
    <3>5. CASE ~available
      BY <2>2, <3>1, <3>2, <3>4, <3>5 DEF AppliesMotion
    <3>6. CASE available /\ ~aligned
      BY <2>2, <3>1, <3>2, <3>3, <3>4, <3>6 DEF AppliesMotion
    <3>7. CASE available /\ aligned
      BY <2>2, <3>1, <3>2, <3>3, <3>4, <3>7 DEF AppliesMotion
    <3> QED
      BY <3>5, <3>6, <3>7
  <2> QED
    BY <2>1, <2>2
<1>3. UNCHANGED boardVars
  BY <1>1 DEF boardVars
<1> QED
  BY <1>1, <1>2, <1>3

LEMMA WatchdogKeepsBoard ==
  ASSUME MesaTypeOK, Watchdog
  PROVE  /\ MesaTypeOK'
         /\ UNCHANGED hostVars /\ UNCHANGED <<replies, position, slipped>>
         /\ board'.rate = board.rate
<1>1. /\ UNCHANGED hostVars /\ UNCHANGED <<replies, position, slipped>>
      /\ \/ board' = [board EXCEPT !.fresh = FALSE]
         \/ board' = [board EXCEPT !.bitten = TRUE]
  BY DEF Watchdog, WatchdogRuns, WatchdogBites
<1>2. /\ board'.rate = board.rate
      /\ board' \in [rate : Int, armed : BOOLEAN, fresh : BOOLEAN, bitten : BOOLEAN]
  BY <1>1 DEF MesaTypeOK
<1> QED
  BY <1>1, <1>2 DEF MesaTypeOK, hostVars

-----------------------------------------------------------------------------
(* The core in a tick.                                                     *)

\* An enabled core leaves the joint where it is, assigns a coordinate to one that stands, or
\* moves one whose accumulator is known.
LEMMA CoreTicks ==
  ASSUME CoreTypeOK, JointInv, external \in BOOLEAN, UpdatesEmergencyStop, RunsCore
  PROVE  /\ CoreTypeOK' /\ JointInv'
         /\ joint'.moves => joint.moves \/ ExecutionReady
         /\ core' \in {"Held", "Running"} =>
               /\ ~external
               /\ \/ joint' = joint /\ ~assigned' /\ (Axes /\ joint.moves => ~ExecutionReady)
                  \/ ~joint.moves /\ ~joint'.moves /\ assigned'
                  \/ /\ Axes /\ ExecutionReady /\ (QuickHost \/ ~assigned) /\ ~assigned'
                     /\ joint'.at = joint.at <=> ~joint'.moves
<1> USE DEF CoreTypeOK, JointInv, Joints
<1>1. estop' \in BOOLEAN /\ (external => estop')
  BY DEF UpdatesEmergencyStop
<1>2. CASE estop' /\ estop
  <2>1. UNCHANGED coreVars
    BY <1>2 DEF RunsCore
  <2>2. UNCHANGED <<core, joint, turn, safeOut, assigned>>
    BY <2>1 DEF coreVars
  <2>3. core = "Faulted" /\ ~joint.moves
    BY <1>2
  <2> QED
    BY <1>1, <1>2, <2>2, <2>3
<1>3. CASE estop' /\ ~estop
  <2>1. /\ core' = "Faulted" /\ turn' = "off" /\ safeOut' = TRUE /\ assigned' = FALSE
        /\ joint' = [at |-> joint.at, moves |-> FALSE]
    BY <1>3 DEF RunsCore, LatchEmergencyStop, CoreFaults, Rest
  <2>2. joint' \in Joints /\ ~joint'.moves
    BY <2>1
  <2> QED
    BY <1>1, <2>1, <2>2 DEF Turns
<1>4. CASE ~estop' /\ estop
  BY <1>1, <1>4 DEF RunsCore, ResetEmergencyStop, Turns
<1>5. CASE ~estop' /\ ~estop /\ IoFault
  BY <1>1, <1>5 DEF RunsCore, CoreFaults, Turns
<1>6. CASE ~estop' /\ ~estop /\ ~IoFault
  <2>1. ServoTick /\ ~external
    BY <1>1, <1>6 DEF RunsCore
  <2>2. CASE Enables \/ Disables \/ Starts \/ Stops(TRUE) \/ Stops(FALSE)
    BY <1>1, <1>6, <2>1, <2>2 DEF Enables, Disables, Starts, Stops, Turns
  <2>3. CASE AssignsCoordinate
    BY <1>1, <1>6, <2>1, <2>3 DEF AssignsCoordinate, Rest
  <2>4. CASE Advances
    <3>1. PICK step \in {-1, 0, 1} :
             joint' = [at |-> joint.at + step, moves |-> step # 0]
      BY <2>4 DEF Advances
    <3>2. /\ core' = "Running" /\ safeOut' = FALSE /\ assigned' = FALSE /\ turn' = turn
          /\ Axes /\ ExecutionReady /\ (QuickHost \/ ~assigned)
      BY <2>4 DEF Advances
    <3> QED
      <4>1. joint'.at = joint.at + step /\ (joint'.moves <=> step # 0)
        BY <3>1
      <4>2. joint' \in Joints
        <5>1. (step # 0) \in BOOLEAN /\ joint.at + step \in Int
          OBVIOUS
        <5> QED
          BY <3>1, <5>1
      <4>3. joint'.at = joint.at <=> ~joint'.moves
        BY <4>1
      <4>4. CoreTypeOK' /\ JointInv'
        BY <1>1, <1>6, <3>2, <4>2
      <4> QED
        BY <2>1, <3>2, <4>3, <4>4
  <2>5. CASE SpindleEvents
    BY <1>1, <1>6, <2>1, <2>5 DEF SpindleEvents, Turns
  <2>6. CASE Idles
    BY <1>1, <1>6, <2>1, <2>6 DEF Idles
  <2> QED
    BY <2>1, <2>2, <2>3, <2>4, <2>5, <2>6 DEF ServoTick
<1> QED
  BY <1>1, <1>2, <1>3, <1>4, <1>5, <1>6

-----------------------------------------------------------------------------
(* Every step keeps the types, the spindle, the exchange and the joint.    *)

LEMMA ExchangeUndisturbed ==
  ASSUME UNCHANGED mesaVars
  PROVE  /\ MesaTypeOK => MesaTypeOK'
         /\ RepliesInv /\ (Exchanging' <=> Exchanging) => RepliesInv'
<1>1. /\ UNCHANGED <<pending, mesaFault, latched, sequence, converged, sampled>>
      /\ UNCHANGED <<origin, available, aligned, targets, last, external>>
      /\ UNCHANGED <<replies, board, position, slipped>>
  BY DEF mesaVars
<1>2. MesaTypeOK => MesaTypeOK'
  BY <1>1 DEF MesaTypeOK
<1>3. Answered' = Answered
  BY <1>1 DEF Answered
<1>4. RepliesInv /\ (Exchanging' <=> Exchanging) => RepliesInv'
  BY <1>1, <1>3 DEF RepliesInv
<1> QED
  BY <1>2, <1>4

\* The image that is staged does not change what waits in the socket.
LEMMA StagingKeepsExchange ==
  ASSUME MesaTypeOK, RepliesInv, ~Exchanging, ~Exchanging',
         NEW j \in Joints, NEW enabled, AppliesAxes(j, enabled)
  PROVE  MesaTypeOK' /\ RepliesInv'
<1>1. CASE ~Axes
  <2>1. UNCHANGED mesaVars
    BY <1>1 DEF AppliesAxes
  <2>2. Exchanging' <=> Exchanging
    BY DEF Exchanging
  <2> QED
    BY <2>1, <2>2, ExchangeUndisturbed
<1>2. CASE Axes
  <2>1. /\ MesaTypeOK'
        /\ mesaFault # "none" => mesaFault' = mesaFault
        /\ latched' = latched /\ sequence' = sequence /\ replies' = replies
    BY <1>2, ImageIsStaged DEF AppliesAxes, boardVars
  <2> QED
    BY <2>1 DEF RepliesInv
<1> QED
  BY <1>1, <1>2

LEMMA SpindleUndisturbed ==
  ASSUME SpindleTypeOK, SpindleInv, UNCHANGED spindleVars
  PROVE  SpindleTypeOK' /\ SpindleInv'
  BY DEF SpindleTypeOK, SpindleInv, spindleVars

LEMMA CoreUndisturbed ==
  ASSUME CoreTypeOK, JointInv, UNCHANGED coreVars, UNCHANGED estop
  PROVE  CoreTypeOK' /\ JointInv'
  BY DEF CoreTypeOK, JointInv, coreVars

LEMMA InitPhysicalInv == Init => PhysicalInv
<1> SUFFICES ASSUME Init PROVE PhysicalInv
  OBVIOUS
<1>1. SpindleTypeOK /\ SpindleInv
  <2>1. <<>> \in BoundedSeq(Turns, CommandCapacity)
    <3>1. <<>> \in Seq(Turns) /\ Len(<<>>) <= CommandCapacity
      BY SpindleAssumption, EmptySeq
    <3> QED
      BY <3>1, BoundedQueue
  <2> QED
    BY <2>1 DEF Init, SpindleInit, SpindleTypeOK, SpindleInv, Safeties, Turns, WorkerAt
<1>2. MesaTypeOK
  <2>1. /\ <<>> \in Seq([sequence : 0 .. SequenceModulus - 1, at : Int,
                         bitten : BOOLEAN, error : BOOLEAN])
        /\ 1 \in 0 .. SequenceModulus - 1 /\ 0 \in 0 .. ConvergenceCycles
    BY MesaAssumption, EmptySeq
  <2>2. /\ pending = [rate |-> 0, watchdog |-> FALSE] /\ mesaFault = "none"
        /\ latched = FALSE /\ sequence = 1 /\ converged = 0 /\ sampled = 0 /\ origin = 0
        /\ available = FALSE /\ aligned = FALSE
        /\ targets = [staged |-> 0, written |-> 0, measured |-> 0]
    BY DEF Init, MesaInit, SafeImage
  <2>3. /\ last = [joint |-> [at |-> 0, moves |-> FALSE], enabled |-> FALSE]
        /\ external = FALSE /\ replies = <<>> /\ position = 0 /\ slipped = FALSE
        /\ board = [rate |-> 0, armed |-> FALSE, fresh |-> FALSE, bitten |-> FALSE]
    BY DEF Init, MesaInit, Rest
  <2>4. /\ pending \in [rate : Int, watchdog : BOOLEAN]
        /\ mesaFault \in MesaFaults
        /\ targets \in [staged : Int, written : Int, measured : Int]
    BY <2>2 DEF MesaFaults
  <2>5. /\ last \in [joint : [at : Int, moves : BOOLEAN], enabled : BOOLEAN]
        /\ board \in [rate : Int, armed : BOOLEAN, fresh : BOOLEAN, bitten : BOOLEAN]
    BY <2>3
  <2> QED
    BY <2>1, <2>2, <2>3, <2>4, <2>5 DEF MesaTypeOK
<1>3. RepliesInv /\ InputsAreCurrent
  BY DEF Init, MesaInit, RepliesInv, InputsAreCurrent, Exchanging, Answered
<1>4. CoreTypeOK /\ JointInv /\ LoopTypeOK
  <2>1. joint = [at |-> 0, moves |-> FALSE]
    BY DEF Init, Rest
  <2>2. joint \in Joints /\ ~joint.moves
    BY <2>1 DEF Joints
  <2> QED
    BY <2>2 DEF Init, CoreTypeOK, JointInv, LoopTypeOK, Turns, ServoAt
<1> QED
  BY <1>1, <1>2, <1>3, <1>4 DEF PhysicalInv

\* The exchange of a tick, and of the shutdown.
LEMMA ExchangeKeepsInv ==
  ASSUME PhysicalInv,
         Wakes \/ ReceivesAnswer \/ SendsSafeImage \/ ReceivesLastAnswer
  PROVE  PhysicalInv'
<1>1. /\ SpindleTypeOK /\ MesaTypeOK /\ CoreTypeOK /\ LoopTypeOK
      /\ SpindleInv /\ RepliesInv /\ InputsAreCurrent /\ JointInv
  BY DEF PhysicalInv
<1>2. /\ UNCHANGED spindleVars /\ UNCHANGED coreVars /\ UNCHANGED <<fitted, estop, sent>>
      /\ servo' \in {"sent", "core", "down", "safe sent"}
  BY DEF Wakes, ReceivesAnswer, SendsSafeImage, ReceivesLastAnswer
<1>3. /\ SpindleTypeOK' /\ SpindleInv' /\ CoreTypeOK' /\ JointInv' /\ LoopTypeOK'
  BY <1>1, <1>2, SpindleUndisturbed, CoreUndisturbed DEF LoopTypeOK, ServoAt
<1>4. SUFFICES MesaTypeOK' /\ RepliesInv' /\ InputsAreCurrent'
  BY <1>3 DEF PhysicalInv
<1>5. ASSUME SendsDatagram(TRUE, TRUE), ~latched, ~Exchanging, servo' \in {"sent", "safe sent"}
      PROVE  MesaTypeOK' /\ RepliesInv' /\ InputsAreCurrent'
  <2>1. MesaTypeOK' /\ latched' = latched
    BY <1>1, <1>5, DatagramIsServed DEF hostVars
  <2>2. Len(replies) <= 1 /\ \A i \in DOMAIN replies : replies[i].sequence # sequence
    BY <1>1, <1>5 DEF RepliesInv
  <2>3. Answered' => /\ Len(replies') <= 2
                     /\ \A i \in DOMAIN replies' : /\ replies'[i].sequence = sequence'
                                                   /\ replies'[i].at = position'
    BY <1>1, <1>5, <2>2, AnswerIsNew
  <2>4. RepliesInv'
    BY <1>5, <2>1, <2>3 DEF RepliesInv, Exchanging
  <2>5. InputsAreCurrent'
    BY <1>5 DEF InputsAreCurrent
  <2> QED
    BY <2>1, <2>4, <2>5
<1>6. ASSUME UNCHANGED mesaVars, ~Exchanging, ~Exchanging',
             servo' = "core" => ~Axes \/ mesaFault # "none"
      PROVE  MesaTypeOK' /\ RepliesInv' /\ InputsAreCurrent'
  <2>1. Exchanging' <=> Exchanging
    BY <1>6 DEF Exchanging
  <2>2. MesaTypeOK' /\ RepliesInv'
    BY <1>1, <1>6, <2>1, ExchangeUndisturbed
  <2>3. InputsAreCurrent'
    BY <1>2, <1>6 DEF InputsAreCurrent, mesaVars, Axes
  <2> QED
    BY <2>2, <2>3
<1>7. CASE Wakes
  <2>1. servo = "wait" /\ ~Exchanging
    BY <1>7 DEF Wakes, Exchanging
  <2>2. CASE Axes /\ mesaFault = "none"
    <3>1. SendsDatagram(TRUE, TRUE) /\ servo' = "sent"
      BY <1>7, <2>2 DEF Wakes
    <3>2. ~latched
      BY <1>1, <2>2 DEF RepliesInv
    <3> QED
      BY <1>5, <2>1, <3>1, <3>2
  <2>3. CASE ~(Axes /\ mesaFault = "none")
    <3>1. UNCHANGED mesaVars /\ servo' = "core"
      BY <1>7, <2>3 DEF Wakes
    <3> QED
      BY <1>6, <2>1, <2>3, <3>1 DEF Exchanging
  <2> QED
    BY <2>2, <2>3
<1>8. CASE SendsSafeImage
  <2>1. servo = "safe" /\ ~Exchanging
    BY <1>8 DEF SendsSafeImage, Exchanging
  <2>2. CASE latched
    <3>1. UNCHANGED mesaVars /\ servo' = "down"
      BY <1>8, <2>2 DEF SendsSafeImage
    <3> QED
      BY <1>6, <2>1, <3>1 DEF Exchanging
  <2>3. CASE ~latched
    BY <1>5, <1>8, <2>1, <2>3 DEF SendsSafeImage
  <2> QED
    BY <2>2, <2>3
<1>9. CASE ReceivesAnswer
  <2>1. /\ servo = "sent" /\ servo' = "core" /\ Exchanging /\ ~Exchanging'
        /\ Receives(Phases, BOOLEAN)
    BY <1>9 DEF ReceivesAnswer, Exchanging, Phases
  <2>2. CASE latched' /\ mesaFault' # "none"
    <3>1. MesaTypeOK'
      BY <1>1, <2>1, AnswerIsRead
    <3> QED
      BY <2>2, <3>1 DEF RepliesInv, InputsAreCurrent
  <2>3. CASE /\ latched' = latched
             /\ Answered
             /\ available' = DpllReady'
             /\ DpllReady' => sampled' = Head(replies).at
             /\ Aligns(Head(replies).at)
    <3>1. MesaTypeOK' /\ TakesReply /\ position' = position
      BY <1>1, <2>1, AnswerIsRead
    <3>2. CASE latched
      <4>1. mesaFault' # "none"
        BY <1>1, <2>3, <3>2 DEF RepliesInv, Aligns
      <4> QED
        BY <2>3, <3>1, <3>2, <4>1 DEF RepliesInv, InputsAreCurrent
    <3>3. CASE ~latched
      <4>1. /\ Len(replies) <= 2
            /\ \A i \in DOMAIN replies :
                  replies[i].sequence = sequence /\ replies[i].at = position
        BY <1>1, <2>1, <2>3, <3>3 DEF RepliesInv
      <4>2. /\ Len(replies') <= 1
            /\ \A i \in DOMAIN replies' : replies'[i].sequence # sequence'
        BY <1>1, <2>3, <3>1, <4>1, ReplyIsTaken
      <4>3. Head(replies).at = position
        <5>1. replies \in Seq(Answer) /\ replies # <<>>
          BY <1>1, <2>3 DEF MesaTypeOK, Answer, Words, Answered
        <5>2. 1 \in DOMAIN replies /\ Head(replies) = replies[1]
          BY <5>1, HeadTailProperties, LenProperties, EmptySeq
        <5> QED
          BY <4>1, <5>2
      <4>4. RepliesInv'
        BY <2>1, <2>3, <3>3, <4>2 DEF RepliesInv
      <4>5. InputsAreCurrent'
        BY <2>3, <3>1, <4>3 DEF InputsAreCurrent
      <4> QED
        BY <3>1, <4>4, <4>5
    <3> QED
      BY <3>2, <3>3
  <2> QED
    BY <1>1, <2>1, <2>2, <2>3, AnswerIsRead
<1>10. CASE ReceivesLastAnswer
  <2>1. /\ servo = "safe sent" /\ servo' = "down" /\ Exchanging /\ ~Exchanging'
        /\ DiscardsAnswer(Phases)
    BY <1>10 DEF ReceivesLastAnswer, Exchanging, Phases
  <2>2. /\ MesaTypeOK' /\ TakesReply
        /\ \/ latched' /\ mesaFault' # "none"
           \/ latched' = latched /\ mesaFault' = mesaFault /\ Answered
    BY <1>1, <2>1, AnswerIsDiscarded
  <2>3. InputsAreCurrent'
    BY <2>1 DEF InputsAreCurrent
  <2>4. CASE latched' /\ mesaFault' # "none"
    BY <2>2, <2>3, <2>4 DEF RepliesInv
  <2>5. CASE ~latched' /\ latched' = latched /\ Answered
    <3>1. /\ Len(replies) <= 2
          /\ \A i \in DOMAIN replies : replies[i].sequence = sequence
      BY <1>1, <2>1, <2>5 DEF RepliesInv
    <3>2. /\ Len(replies') <= 1
          /\ \A i \in DOMAIN replies' : replies'[i].sequence # sequence'
      BY <1>1, <2>2, <2>5, <3>1, ReplyIsTaken
    <3> QED
      BY <2>1, <2>2, <2>3, <2>5, <3>2 DEF RepliesInv
  <2>6. CASE latched' /\ latched' = latched /\ mesaFault' = mesaFault
    BY <1>1, <2>2, <2>3, <2>6 DEF RepliesInv
  <2> QED
    BY <2>2, <2>4, <2>5, <2>6
<1> QED
  BY <1>7, <1>8, <1>9, <1>10

\* The tick, a missed deadline and the end of the loop stage an image.
LEMMA StagingKeepsInv ==
  ASSUME PhysicalInv, Ticks \/ MissesDeadline \/ LeavesLoop
  PROVE  PhysicalInv'
<1>1. /\ SpindleTypeOK /\ MesaTypeOK /\ CoreTypeOK /\ LoopTypeOK
      /\ SpindleInv /\ RepliesInv /\ InputsAreCurrent /\ JointInv
  BY DEF PhysicalInv
<1>2. /\ UNCHANGED spindleVars /\ fitted' = fitted /\ sent' = sent
      /\ servo' \in {"late?", "spindle", "wait", "safe", "stop"}
      /\ ~Exchanging /\ ~Exchanging'
  BY DEF Ticks, MissesDeadline, LeavesLoop, Exchanging
<1>3. /\ SpindleTypeOK' /\ SpindleInv' /\ LoopTypeOK' /\ InputsAreCurrent'
  BY <1>1, <1>2, SpindleUndisturbed DEF LoopTypeOK, ServoAt, InputsAreCurrent
<1>4. ASSUME CoreTypeOK', JointInv', NEW j \in Joints, NEW enabled, AppliesAxes(j, enabled)
      PROVE  PhysicalInv'
  <2>1. MesaTypeOK' /\ RepliesInv'
    BY <1>1, <1>2, <1>4, StagingKeepsExchange
  <2> QED
    BY <1>3, <1>4, <2>1 DEF PhysicalInv
<1>5. joint \in Joints /\ Rest(0) \in Joints /\ Rest(joint.at) \in Joints
      /\ Rest(joint.at).moves = FALSE
  BY <1>1 DEF CoreTypeOK, Joints, Rest
<1>6. CASE Ticks
  <2>1. CoreTypeOK' /\ JointInv'
    BY <1>1, <1>6, CoreTicks DEF Ticks, MesaTypeOK
  <2>2. joint' \in Joints /\ AppliesAxes(joint', core' \in {"Held", "Running"})
    BY <1>6, <2>1 DEF Ticks, CoreTypeOK
  <2> QED
    BY <1>4, <2>1, <2>2
<1>7. CASE MissesDeadline
  <2>1. /\ core # "Faulted" /\ estop' = estop /\ joint' = joint
        /\ core' = "Faulted" /\ turn' = "off" /\ safeOut' = TRUE /\ assigned' = FALSE
        /\ AppliesAxes(joint, FALSE)
    BY <1>7 DEF MissesDeadline, CoreFaults
  <2>2. CoreTypeOK' /\ JointInv'
    BY <1>1, <2>1 DEF CoreTypeOK, JointInv, Turns
  <2> QED
    BY <1>4, <1>5, <2>1, <2>2
<1>8. CASE LeavesLoop
  <2>1. CoreTypeOK' /\ JointInv'
    <3>1. estop' = estop
      BY <1>8 DEF LeavesLoop
    <3>2. CASE Enabled
      <4>1. /\ joint' = Rest(joint.at)
            /\ core' = "Faulted" /\ turn' = "off" /\ safeOut' = TRUE /\ assigned' = FALSE
        BY <1>8, <3>2 DEF LeavesLoop, LatchEmergencyStop, CoreFaults
      <4> QED
        BY <1>1, <1>5, <3>1, <4>1 DEF CoreTypeOK, JointInv, Turns
    <3>3. CASE ~Enabled
      BY <1>1, <1>8, <3>1, <3>3, CoreUndisturbed DEF LeavesLoop
    <3> QED
      BY <3>2, <3>3
  <2>2. AppliesAxes(Rest(0), FALSE)
    BY <1>8 DEF LeavesLoop
  <2> QED
    BY <1>4, <1>5, <2>1, <2>2
<1> QED
  BY <1>6, <1>7, <1>8

\* The servo thread commands the spindle, or stops it.
LEMMA CommandingKeepsInv ==
  ASSUME PhysicalInv,
         \/ AppliesSpindle \/ Rearms \/ Pushes \/ StopsFullSpindle \/ EndsInTime
         \/ StopsSpindle \/ AwaitsSafeStop \/ EndsWorker \/ JoinsWorker
  PROVE  PhysicalInv'
<1>1. /\ SpindleTypeOK /\ MesaTypeOK /\ CoreTypeOK /\ LoopTypeOK
      /\ SpindleInv /\ RepliesInv /\ InputsAreCurrent /\ JointInv
  BY DEF PhysicalInv
<1> USE DEF AppliesSpindle, Rearms, Pushes, StopsFullSpindle, EndsInTime,
            StopsSpindle, AwaitsSafeStop, EndsWorker, JoinsWorker
<1>2. UNCHANGED mesaVars /\ UNCHANGED coreVars /\ UNCHANGED <<fitted, estop>>
  OBVIOUS
<1>3. /\ ~Exchanging /\ ~Exchanging'
      /\ servo' \in {"late?", "rearm", "push", "full", "wait", "await", "down", "join", "gone"}
  BY DEF Exchanging
<1>4. sent' \in {sent, "none", turn}
  BY <1>2 DEF coreVars
<1>5. LoopTypeOK'
  BY <1>1, <1>2, <1>3, <1>4 DEF LoopTypeOK, ServoAt, CoreTypeOK
<1>6. MesaTypeOK' /\ RepliesInv' /\ CoreTypeOK' /\ JointInv' /\ InputsAreCurrent'
  <2>1. (Exchanging' <=> Exchanging) /\ InputsAreCurrent'
    BY <1>3 DEF Exchanging, InputsAreCurrent
  <2> QED
    BY <1>1, <1>2, <2>1, ExchangeUndisturbed, CoreUndisturbed
<1>7. UNCHANGED <<worker, taken, drive, deaf>>
  BY DEF spindleVars
<1>8. /\ EstablishSafeStop \/ Rearm \/ UNCHANGED safety
      /\ spinFault' \in {spinFault, TRUE} /\ ending' \in {ending, TRUE}
      /\ \/ commands' = commands
         \/ HasRoom /\ commands' = Append(commands, turn)
  BY DEF spindleVars, PushCommand
<1>9. safety' \in Safeties /\ SpindleInv'
  BY <1>1, <1>7, <1>8, ServoKeepsSpindle DEF SpindleTypeOK
<1>10. commands' \in BoundedSeq(Turns, CommandCapacity)
  BY <1>1, <1>8, QueueStays DEF SpindleTypeOK, CoreTypeOK
<1>11. SpindleTypeOK'
  BY <1>1, <1>7, <1>8, <1>9, <1>10 DEF SpindleTypeOK
<1> QED
  BY <1>5, <1>6, <1>9, <1>11 DEF PhysicalInv

LEMMA NextPhysicalInv == PhysicalInv /\ [Next]_vars => PhysicalInv'
<1> SUFFICES ASSUME PhysicalInv, [Next]_vars PROVE PhysicalInv'
  OBVIOUS
<1>1. /\ SpindleTypeOK /\ MesaTypeOK /\ CoreTypeOK /\ LoopTypeOK
      /\ SpindleInv /\ RepliesInv /\ InputsAreCurrent /\ JointInv
  BY DEF PhysicalInv
<1>2. ASSUME UNCHANGED loopVars, UNCHANGED coreVars
      PROVE  CoreTypeOK' /\ LoopTypeOK' /\ JointInv' /\ (Exchanging' <=> Exchanging)
  BY <1>1, <1>2, CoreUndisturbed DEF loopVars, LoopTypeOK, Exchanging
<1>3. CASE UNCHANGED vars
  <2>1. /\ UNCHANGED loopVars /\ UNCHANGED coreVars
        /\ UNCHANGED mesaVars /\ UNCHANGED spindleVars
    BY <1>3 DEF vars
  <2>2. InputsAreCurrent'
    BY <1>1, <2>1 DEF InputsAreCurrent, Axes, loopVars, mesaVars
  <2> QED
    BY <1>1, <1>2, <2>1, <2>2, ExchangeUndisturbed, SpindleUndisturbed
       DEF PhysicalInv
<1>4. CASE WorkerThread
  <2>1. /\ UNCHANGED loopVars /\ UNCHANGED coreVars /\ UNCHANGED mesaVars /\ Worker
    BY <1>4 DEF WorkerThread
  <2>2. InputsAreCurrent'
    BY <1>1, <2>1 DEF InputsAreCurrent, Axes, loopVars, mesaVars
  <2> QED
    BY <1>1, <1>2, <2>1, <2>2, ExchangeUndisturbed, WorkerKeepsSpindle
       DEF PhysicalInv
<1>5. CASE Board
  <2>1. /\ UNCHANGED loopVars /\ UNCHANGED coreVars /\ UNCHANGED spindleVars /\ Watchdog
    BY <1>5 DEF Board
  <2>2. /\ MesaTypeOK' /\ UNCHANGED hostVars /\ UNCHANGED <<replies, position, slipped>>
    BY <1>1, <2>1, WatchdogKeepsBoard
  <2>3. (Exchanging' <=> Exchanging) /\ Answered' = Answered
    BY <1>2, <2>1, <2>2 DEF Answered, hostVars
  <2>4. RepliesInv'
    BY <1>1, <2>2, <2>3 DEF RepliesInv, hostVars
  <2>5. InputsAreCurrent'
    BY <1>1, <2>1, <2>2 DEF InputsAreCurrent, Axes, loopVars, hostVars
  <2> QED
    BY <1>1, <1>2, <2>1, <2>2, <2>4, <2>5, SpindleUndisturbed DEF PhysicalInv
<1> QED
  BY <1>3, <1>4, <1>5, ExchangeKeepsInv, StagingKeepsInv, CommandingKeepsInv
     DEF Next, ServoThread

LEMMA PhysicalInvHolds == Spec => []PhysicalInv
  BY InitPhysicalInv, NextPhysicalInv, PTL DEF Spec

\* Every variable of the servo loop, the board and the spindle worker keeps its type.
THEOREM PhysicalTypeCorrect == Spec => []PhysicalTypeOK
<1>1. PhysicalInv => PhysicalTypeOK
  BY DEF PhysicalInv, PhysicalTypeOK, CoreTypeOK, LoopTypeOK, Joints
<1> QED
  BY <1>1, PhysicalInvHolds, PTL

\* A spindle that is reported safely stopped stands still, whatever was queued, written or
\* rearmed before, for every capacity of the queue (SpindleHardware.cpp, establishSafeStop
\* and run).
THEOREM SafeStopsAreStops == Spec => []SafeStoppedMeansStopped
<1>1. PhysicalInv => SafeStoppedMeansStopped
  BY DEF PhysicalInv, SpindleInv, SafeStoppedMeansStopped
<1> QED
  BY <1>1, PhysicalInvHolds, PTL

\* The executor decides on the inputs of this very cycle, whatever datagrams and answers are
\* lost and repeated: two sequence words are enough, and so is every other number of them
\* (Lbp16CyclicTransaction.cpp, exchange).
THEOREM InputsAreAlwaysCurrent == Spec => []InputsAreCurrent
<1>1. PhysicalInv => InputsAreCurrent
  BY DEF PhysicalInv
<1> QED
  BY <1>1, PhysicalInvHolds, PTL

-----------------------------------------------------------------------------
(* The joint and its accumulator.                                          *)

LEMMA InitAxesInv == Init => AxesInv
<1> SUFFICES ASSUME Init PROVE AxesInv
  OBVIOUS
<1>1. /\ joint = [at |-> 0, moves |-> FALSE] /\ servo = "wait" /\ mesaFault = "none"
      /\ last = [joint |-> [at |-> 0, moves |-> FALSE], enabled |-> FALSE]
      /\ targets = [staged |-> 0, written |-> 0, measured |-> 0]
      /\ available = FALSE /\ aligned = FALSE
      /\ pending = [rate |-> 0, watchdog |-> FALSE]
  BY DEF Init, MesaInit, Rest, SafeImage
<1>2. StagedInv /\ BoardInv
  BY <1>1 DEF StagedInv, BoardInv, WaitingInv
<1> QED
  BY <1>1, <1>2 DEF AxesInv, FollowingErrorMeansSlip

\* A board that has failed stays failed; only FollowingErrorMeansSlip is left to show.
LEMMA FailedStaysFailed ==
  ASSUME AxesInv, mesaFault # "none", mesaFault' = mesaFault, slipped => slipped'
  PROVE  AxesInv'
  BY DEF AxesInv, Controlled, FollowingErrorMeansSlip

\* The datagram puts the staged image into effect.
LEMMA SendingKeepsAxes ==
  ASSUME PhysicalInv, AxesInv, Wakes
  PROVE  AxesInv'
<1>1. /\ MesaTypeOK /\ CoreTypeOK /\ RepliesInv
      /\ servo = "wait" /\ UNCHANGED coreVars /\ fitted' = fitted
  BY DEF PhysicalInv, Wakes
<1>2. CASE ~(Axes /\ mesaFault = "none")
  <2>1. UNCHANGED mesaVars
    BY <1>2 DEF Wakes
  <2>2. mesaFault' = mesaFault /\ slipped' = slipped
    BY <2>1 DEF mesaVars
  <2> QED
    BY <1>1, <1>2, <2>2 DEF AxesInv, Controlled, FollowingErrorMeansSlip, Axes
<1>3. CASE Axes /\ mesaFault = "none"
  <2>1. SendsDatagram(TRUE, TRUE) /\ servo' = "sent" /\ Controlled
    BY <1>1, <1>3 DEF Wakes, Controlled
  <2>2. StagedInv /\ (~slipped => WaitingInv)
    BY <1>1, <2>1 DEF AxesInv, BoardInv
  <2>3. UNCHANGED hostVars /\ (slipped => slipped')
    BY <1>1, <2>1, DatagramIsServed
  <2>4. /\ UNCHANGED <<pending, mesaFault, converged, origin, available, aligned>>
        /\ UNCHANGED <<targets, last>>
        /\ joint' = joint /\ assigned' = assigned
    BY <1>1, <2>3 DEF hostVars, coreVars
  <2>5. Answered' => /\ board'.rate = Datagram.rate
                     /\ ~slipped' => position' = position
                                                 + (IF board.bitten THEN 0 ELSE board.rate)
                     /\ Head(replies').bitten = board.bitten
    <3>1. ~latched /\ ~Exchanging
      BY <1>1, <1>3 DEF RepliesInv, Exchanging
    <3>2. Len(replies) <= 1 /\ \A i \in DOMAIN replies : replies[i].sequence # sequence
      BY <1>1, <3>1 DEF RepliesInv
    <3> QED
      BY <1>1, <2>1, <3>2, AnswerIsNew
  <2>6. StagedInv'
    BY <2>2, <2>4 DEF StagedInv, DpllReady
  <2>7. ASSUME Answered', ~slipped' PROVE ServedInv'
    <3>1. /\ board'.rate = (IF DpllReady THEN pending.rate ELSE 0)
          /\ position' = position + (IF board.bitten THEN 0 ELSE board.rate)
          /\ Head(replies').bitten = board.bitten
      BY <2>5, <2>7 DEF Datagram
    <3>2. WaitingInv
      BY <2>2, <2>3, <2>7
    <3>3. /\ pending.rate \in Int /\ board.rate \in Int /\ position \in Int /\ origin \in Int
          /\ joint.at \in Int /\ targets.written \in Int
      BY <1>1 DEF MesaTypeOK, CoreTypeOK, Joints
    <3>4. ASSUME aligned', ~Head(replies').bitten
          PROVE  /\ position' + board'.rate = origin' + joint'.at
                 /\ ~assigned' => position' = origin' + targets'.written
      <4>1. aligned /\ ~board.bitten /\ DpllReady
        BY <2>2, <2>4, <3>1, <3>4 DEF StagedInv
      <4>2. board'.rate = pending.rate /\ position' = position + board.rate
        BY <3>1, <4>1
      <4>3. /\ position + board.rate + pending.rate = origin + joint.at
            /\ ~assigned => position + board.rate = origin + targets.written
        BY <3>2, <4>1 DEF WaitingInv
      <4> QED
        BY <2>4, <3>3, <4>2, <4>3
    <3>5. ~aligned' /\ ~assigned' => targets'.written = joint'.at
      BY <2>4, <3>2 DEF WaitingInv
    <3>6. board'.rate # 0 => joint'.moves /\ aligned'
      BY <2>2, <2>4, <3>1 DEF StagedInv
    <3> QED
      BY <3>4, <3>5, <3>6 DEF ServedInv
  <2>8. BoardInv'
    BY <2>1, <2>7 DEF BoardInv
  <2>9. FollowingErrorMeansSlip'
    BY <1>3, <2>4 DEF FollowingErrorMeansSlip
  <2> QED
    BY <2>6, <2>8, <2>9 DEF AxesInv
<1> QED
  BY <1>2, <1>3

\* The answer is read where the board was when it served the datagram.
LEMMA ReadingKeepsAxes ==
  ASSUME PhysicalInv, AxesInv, ReceivesAnswer
  PROVE  AxesInv'
<1>1. /\ MesaTypeOK /\ CoreTypeOK /\ RepliesInv /\ JointInv
      /\ servo = "sent" /\ servo' = "core" /\ UNCHANGED coreVars /\ fitted' = fitted
      /\ Receives(Phases, BOOLEAN)
  BY DEF PhysicalInv, ReceivesAnswer, Phases
<1>2. /\ UNCHANGED <<pending, last, board, position, slipped>>
      /\ joint' = joint /\ assigned' = assigned
      /\ mesaFault' = mesaFault \/ mesaFault' \in {"exchange", "alignment"}
  BY <1>1, AnswerIsRead DEF coreVars, Aligns
<1>3. FollowingErrorMeansSlip'
  BY <1>2 DEF AxesInv, FollowingErrorMeansSlip
<1>4. CASE ~Controlled'
  BY <1>3, <1>4 DEF AxesInv
<1>5. CASE Controlled' /\ Controlled
  <2>1. mesaFault' = "none" /\ mesaFault = "none" /\ Axes
    BY <1>5 DEF Controlled
  <2>2. StagedInv /\ (~slipped /\ Answered => ServedInv)
    BY <1>1, <1>5 DEF AxesInv, BoardInv
  <2>3. /\ latched' = latched
        /\ Answered
        /\ ~(pending.watchdog /\ Head(replies).bitten)
        /\ targets' = [staged |-> targets.staged, written |-> targets.staged,
                       measured |-> targets.written]
        /\ DpllReady => DpllReady'
        /\ available' = DpllReady'
        /\ Aligns(Head(replies).at)
    BY <1>1, <2>1, AnswerIsRead
  <2>4. /\ last.joint = joint /\ targets.staged = joint.at
        /\ joint.at \in Int /\ targets.written \in Int
        /\ board.rate \in Int /\ position \in Int /\ origin \in Int
    BY <1>1, <2>2 DEF StagedInv, MesaTypeOK, CoreTypeOK, Joints
  <2>5. targets'.staged = joint'.at /\ targets'.written = joint'.at
        /\ targets'.measured = targets.written
    BY <1>2, <2>3, <2>4
  <2>6. \/ aligned' = aligned /\ origin' = origin
        \/ /\ aligned' = TRUE /\ ~aligned /\ last.enabled /\ DpllReady' /\ ~joint.moves
           /\ origin' = Head(replies).at - joint.at
    BY <2>1, <2>3, <2>4 DEF Aligns
  <2>7. StagedInv'
    <3>1. available => available'
      BY <2>2, <2>3 DEF StagedInv
    <3>2. aligned' => available' /\ pending'.watchdog
      BY <1>2, <2>2, <2>3, <2>6, <3>1 DEF StagedInv
    <3>3. aligned => aligned'
      BY <2>6
    <3> QED
      BY <1>2, <2>2, <2>3, <2>4, <2>5, <3>1, <3>2, <3>3 DEF StagedInv
  <2>8. ASSUME ~slipped' PROVE ReadInv'
    <3>1. ServedInv
      BY <1>2, <2>2, <2>3, <2>8
    <3>2. CASE aligned
      <4>1. ~Head(replies).bitten
        BY <2>2, <2>3, <3>2 DEF StagedInv
      <4>2. /\ position + board.rate = origin + joint.at
            /\ ~assigned => position = origin + targets.written
            /\ board.rate # 0 => joint.moves /\ aligned
        BY <3>1, <3>2, <4>1 DEF ServedInv
      <4>3. aligned' /\ origin' = origin
        BY <2>6, <3>2
      <4> QED
        BY <1>2, <2>5, <4>2, <4>3 DEF ReadInv
    <3>3. CASE ~aligned
      <4>1. ~assigned => targets.written = joint.at
        BY <3>1, <3>3 DEF ServedInv
      <4>2. board.rate = 0
        BY <3>1, <3>3 DEF ServedInv
      <4>3. CASE aligned'
        <5>1. origin' = Head(replies).at - joint.at
          BY <2>6, <3>3, <4>3
        <5>2. Head(replies).at = position
          <6>1. ~latched
            BY <1>1, <2>1 DEF RepliesInv
          <6>2. \A i \in DOMAIN replies : replies[i].at = position
            BY <1>1, <2>3, <6>1 DEF RepliesInv, Exchanging
          <6>3. replies \in Seq(Answer) /\ replies # <<>>
            BY <1>1, <2>3 DEF MesaTypeOK, Answer, Words, Answered
          <6>4. 1 \in DOMAIN replies /\ Head(replies) = replies[1]
            BY <6>3, HeadTailProperties, LenProperties, EmptySeq
          <6> QED
            BY <6>2, <6>4
        <5>3. position + board.rate = origin' + joint.at
          BY <2>4, <4>2, <5>1, <5>2
        <5>4. ~assigned => position = origin' + targets.written
          BY <2>4, <4>1, <5>1, <5>2
        <5> QED
          BY <1>2, <2>5, <4>2, <5>3, <5>4 DEF ReadInv
      <4>4. CASE ~aligned'
        BY <1>2, <2>5, <4>2, <4>4 DEF ReadInv
      <4> QED
        BY <4>3, <4>4
    <3> QED
      BY <3>2, <3>3
  <2>9. BoardInv'
    BY <1>1, <2>8 DEF BoardInv
  <2> QED
    BY <1>3, <2>7, <2>9 DEF AxesInv
<1>6. CASE Controlled' /\ ~Controlled
  <2>1. Axes /\ mesaFault # "none"
    BY <1>1, <1>6 DEF Controlled, Axes
  <2> QED
    BY <1>2, <1>6, <2>1 DEF Controlled
<1> QED
  BY <1>4, <1>5, <1>6

\* A safe image moves nothing and takes the joint as it stands for all three positions.
LEMMA SafeImageKeepsAxes ==
  ASSUME PhysicalInv, AxesInv, Controlled, StagesSafely(joint'), UNCHANGED boardVars,
         UNCHANGED <<available, converged, fitted>>,
         joint'.moves => joint.moves \/ available,
         servo' \in {"wait", "late?"}
  PROVE  AxesInv'
<1>1. /\ pending' = [rate |-> 0, watchdog |-> FALSE]
      /\ targets' = [staged |-> joint'.at, written |-> joint'.at, measured |-> joint'.at]
      /\ last' = [joint |-> joint', enabled |-> FALSE]
      /\ aligned' = FALSE /\ mesaFault' = mesaFault /\ mesaFault = "none"
  BY DEF StagesSafely, SafeImage, Controlled
<1>2. joint.moves => available
  BY DEF AxesInv, StagedInv
<1>3. available => DpllReady
  BY DEF AxesInv, StagedInv
<1>4. StagedInv'
  BY <1>1, <1>2, <1>3 DEF StagedInv, DpllReady
<1>5. BoardInv'
  BY <1>1 DEF BoardInv, WaitingInv
<1> QED
  BY <1>1, <1>4, <1>5 DEF AxesInv, FollowingErrorMeansSlip

\* Steps are staged for a joint that moves from where it is known to be; a joint that stands
\* is taken to stand at the accumulator's reading; and what is measured against the reading
\* is the position it belongs to.
LEMMA MotionKeepsAxes ==
  ASSUME PhysicalInv, AxesInv, Controlled, servo = "core", servo' = "late?",
         UNCHANGED boardVars, UNCHANGED <<available, converged, fitted, sampled>>,
         joint' \in Joints, AppliesMotion(joint'),
         \/ joint' = joint /\ ~assigned' /\ (joint.moves => ~ExecutionReady)
         \/ ~joint.moves /\ ~joint'.moves /\ assigned'
         \/ /\ ExecutionReady /\ ~assigned /\ ~assigned'
            /\ joint'.at = joint.at <=> ~joint'.moves
  PROVE  AxesInv'
<1>1. /\ StagedInv /\ (~slipped => ReadInv)
      /\ mesaFault = "none" /\ Axes /\ Axes'
      /\ UNCHANGED <<position, board, slipped>>
  BY DEF AxesInv, BoardInv, Controlled, Axes, boardVars
<1>2. /\ last.joint = joint /\ joint.at \in Int /\ joint'.at \in Int
      /\ position \in Int /\ origin \in Int /\ sampled \in Int /\ board.rate \in Int
      /\ targets.measured \in Int /\ targets.written \in Int
  BY <1>1 DEF PhysicalInv, MesaTypeOK, CoreTypeOK, Joints, StagedInv
<1>3. ASSUME NEW rate \in Int, Stages(joint', rate),
             aligned' => available',
             joint'.moves => available,
             rate # 0 => joint'.moves /\ aligned',
             ~slipped =>
                 /\ aligned' => /\ position + board.rate + rate = origin' + joint'.at
                                /\ ~assigned' =>
                                       position + board.rate = origin' + targets.written
                 /\ ~aligned' /\ ~assigned' => targets.written = joint'.at
      PROVE  AxesInv'
  <2>1. /\ pending' = [rate |-> rate, watchdog |-> TRUE]
        /\ last' = [joint |-> joint', enabled |-> TRUE]
        /\ mesaFault' = mesaFault
        /\ targets' = [targets EXCEPT !.staged = joint'.at]
    BY <1>3 DEF Stages
  <2>2. targets'.staged = joint'.at /\ targets'.written = targets.written
    BY <2>1 DEF PhysicalInv, MesaTypeOK
  <2>3. pending'.rate = rate /\ pending'.watchdog /\ last'.joint = joint'
    BY <2>1
  <2>4. available' => DpllReady'
    BY <1>1 DEF StagedInv, DpllReady
  <2>5. StagedInv'
    BY <1>3, <2>2, <2>3, <2>4 DEF StagedInv
  <2>6. BoardInv'
    BY <1>1, <1>3, <2>2, <2>3 DEF BoardInv, WaitingInv
  <2>7. FollowingErrorMeansSlip'
    BY <1>1, <2>1 DEF FollowingErrorMeansSlip
  <2> QED
    BY <2>5, <2>6, <2>7 DEF AxesInv
<1>4. ASSUME NEW fault \in {"alignment", "following"}, FaultsAtOnce(fault),
             fault = "following" => slipped
      PROVE  AxesInv'
  <2>1. mesaFault' = fault
    BY <1>4 DEF FaultsAtOnce
  <2> QED
    BY <1>1, <1>4, <2>1 DEF AxesInv, Controlled, FollowingErrorMeansSlip
<1>5. aligned => available
  BY <1>1 DEF StagedInv
<1>6. CASE ~aligned
  <2>1. /\ aligned' = aligned /\ origin' = origin
        /\ \/ Stages(joint', 0) /\ (joint'.moves => ~available)
           \/ FaultsAtOnce("alignment")
    BY <1>6 DEF AppliesMotion
  <2>2. joint'.moves => available
    BY <1>1, <1>6 DEF StagedInv, ExecutionReady
  <2>3. ~slipped /\ ~assigned' => targets.written = joint'.at
    BY <1>1, <1>6 DEF ReadInv, ExecutionReady
  <2>4. CASE FaultsAtOnce("alignment")
    BY <1>4, <2>4
  <2>5. CASE Stages(joint', 0)
    BY <1>3, <1>6, <2>1, <2>2, <2>3, <2>5
  <2> QED
    BY <2>1, <2>4, <2>5
<1>7. CASE aligned /\ StandsStill(joint')
  <2>1. ~joint'.moves /\ ~joint.moves
    BY <1>2, <1>7 DEF StandsStill
  <2>2. aligned' /\ origin' = sampled - joint'.at /\ Stages(joint', 0)
    BY <1>5, <1>7 DEF AppliesMotion, OriginAfter, FollowingError
  <2>3. sampled = position
    BY <1>1, <1>5, <1>7 DEF PhysicalInv, InputsAreCurrent
  <2>4. ~slipped => board.rate = 0 /\ targets.written = joint.at
    BY <1>1, <2>1 DEF ReadInv
  <2>5. ~assigned' => joint'.at = joint.at
    BY <2>1
  <2>6. ~slipped => /\ position + board.rate + 0 = origin' + joint'.at
                    /\ ~assigned' => position + board.rate = origin' + targets.written
    BY <1>2, <2>2, <2>3, <2>4, <2>5
  <2> QED
    BY <1>3, <1>5, <1>7, <2>1, <2>2, <2>6
<1>8. CASE aligned /\ ~StandsStill(joint')
  <2>1. joint.moves \/ joint'.moves
    BY <1>2, <1>8 DEF StandsStill
  <2>2. /\ aligned' /\ origin' = origin
        /\ \/ /\ targets.measured - (sampled - origin) # 0
              /\ FaultsAtOnce("following")
           \/ Stages(joint', joint'.at - joint.at)
    BY <1>2, <1>5, <1>8 DEF AppliesMotion, OriginAfter, FollowingError
  <2>3. /\ ~assigned /\ ~assigned'
        /\ joint'.at # joint.at => joint'.moves
    BY <1>5, <1>8, <2>1 DEF ExecutionReady
  <2>4. ~slipped => /\ position + board.rate = origin + joint.at
                    /\ position = origin + targets.measured
                    /\ targets.written = joint.at
    BY <1>1, <1>8, <2>3 DEF ReadInv
  <2>5. sampled = position
    BY <1>1, <1>5, <1>8 DEF PhysicalInv, InputsAreCurrent
  <2>6. CASE /\ targets.measured - (sampled - origin) # 0
             /\ FaultsAtOnce("following")
    <3>1. slipped
      BY <1>2, <2>4, <2>5, <2>6
    <3> QED
      BY <1>4, <2>6, <3>1
  <2>7. CASE Stages(joint', joint'.at - joint.at)
    <3>1. ~slipped =>
             /\ position + board.rate + (joint'.at - joint.at) = origin' + joint'.at
             /\ position + board.rate = origin' + targets.written
      BY <1>2, <2>2, <2>4
    <3>2. joint'.at - joint.at \in Int
          /\ (joint'.at - joint.at # 0 => joint'.moves /\ aligned')
      BY <1>2, <2>2, <2>3
    <3> QED
      BY <1>3, <1>5, <1>8, <2>2, <2>7, <3>1, <3>2
  <2> QED
    BY <2>2, <2>6, <2>7
<1> QED
  BY <1>6, <1>7, <1>8

LEMMA TickKeepsAxes ==
  ASSUME ~QuickHost, PhysicalInv, AxesInv, Ticks
  PROVE  AxesInv'
<1>1. /\ MesaTypeOK /\ CoreTypeOK /\ JointInv
      /\ servo = "core" /\ fitted' = fitted /\ UpdatesEmergencyStop /\ RunsCore
      /\ AppliesAxes(joint', core' \in {"Held", "Running"})
      /\ servo' = IF Axes THEN "late?" ELSE "spindle"
  BY DEF PhysicalInv, Ticks
<1>2. CoreTypeOK' /\ external \in BOOLEAN
  BY <1>1, CoreTicks DEF MesaTypeOK
<1>3. joint' \in Joints
  BY <1>2 DEF CoreTypeOK
<1>4. CASE ~Axes
  <2>1. mesaFault' = mesaFault /\ slipped' = slipped
    BY <1>1, <1>4 DEF AppliesAxes, mesaVars
  <2> QED
    BY <1>1, <1>4, <2>1 DEF AxesInv, Controlled, FollowingErrorMeansSlip, Axes
<1>5. CASE Axes /\ mesaFault # "none"
  <2>1. MesaApplies(joint', core' \in {"Held", "Running"})
    BY <1>1, <1>5 DEF AppliesAxes
  <2>2. mesaFault' = mesaFault /\ slipped' = slipped
    BY <1>1, <1>3, <1>5, <2>1, ImageIsStaged DEF boardVars
  <2> QED
    BY <1>5, <2>2, FailedStaysFailed
<1>6. CASE Axes /\ mesaFault = "none"
  <2>1. /\ MesaApplies(joint', core' \in {"Held", "Running"})
        /\ Controlled /\ servo' = "late?"
    BY <1>1, <1>6 DEF AppliesAxes, Controlled
  <2>2. UNCHANGED boardVars /\ UNCHANGED <<available, converged, fitted, sampled>>
    BY <1>1, <1>3, <2>1, ImageIsStaged
  <2>3. CASE external \/ core' \notin {"Held", "Running"}
    <3>1. StagesSafely(joint')
      BY <2>1, <2>3 DEF MesaApplies
    <3>2. joint'.moves => joint.moves \/ available
      BY <1>1, <1>2, CoreTicks DEF ExecutionReady
    <3> QED
      BY <2>1, <2>2, <3>1, <3>2, SafeImageKeepsAxes
  <2>4. CASE ~external /\ core' \in {"Held", "Running"}
    <3>1. AppliesMotion(joint')
      BY <1>6, <2>1, <2>4 DEF MesaApplies
    <3>2. \/ joint' = joint /\ ~assigned' /\ (joint.moves => ~ExecutionReady)
          \/ ~joint.moves /\ ~joint'.moves /\ assigned'
          \/ /\ ExecutionReady /\ ~assigned /\ ~assigned'
             /\ joint'.at = joint.at <=> ~joint'.moves
      BY <1>1, <1>2, <1>6, <2>4, CoreTicks
    <3> QED
      BY <1>1, <1>3, <2>1, <2>2, <3>1, <3>2, MotionKeepsAxes
  <2> QED
    BY <2>3, <2>4
<1> QED
  BY <1>4, <1>5, <1>6

LEMMA LateTickKeepsAxes ==
  ASSUME PhysicalInv, AxesInv, MissesDeadline
  PROVE  AxesInv'
<1>1. /\ MesaTypeOK /\ CoreTypeOK /\ servo = "late?" /\ fitted' = fitted /\ joint' = joint
      /\ AppliesAxes(joint, FALSE)
      /\ servo' = IF Axes THEN "wait" ELSE "spindle"
  BY DEF PhysicalInv, MissesDeadline
<1>2. CASE ~Axes
  <2>1. mesaFault' = mesaFault /\ slipped' = slipped
    BY <1>1, <1>2 DEF AppliesAxes, mesaVars
  <2> QED
    BY <1>1, <1>2, <2>1 DEF AxesInv, Controlled, FollowingErrorMeansSlip, Axes
<1>3. CASE Axes
  <2>1. MesaApplies(joint, FALSE) /\ joint \in Joints
    BY <1>1, <1>3 DEF AppliesAxes, CoreTypeOK
  <2>2. UNCHANGED boardVars /\ UNCHANGED <<available, converged>> /\ StagesSafely(joint')
    BY <1>1, <2>1, ImageIsStaged DEF MesaApplies
  <2>3. mesaFault' = mesaFault /\ slipped' = slipped
    BY <2>2 DEF StagesSafely, boardVars
  <2>4. CASE mesaFault = "none"
    <3>1. Controlled /\ servo' \in {"wait", "late?"}
      BY <1>1, <1>3, <2>4 DEF Controlled
    <3> QED
      BY <1>1, <2>2, <3>1, SafeImageKeepsAxes
  <2>5. CASE mesaFault # "none"
    BY <2>3, <2>5, FailedStaysFailed
  <2> QED
    BY <2>4, <2>5
<1> QED
  BY <1>2, <1>3

\* A machine with axes commands no spindle.
FittedInv ==
    Axes => servo \in {"wait", "sent", "core", "late?", "safe", "safe sent", "down"}

LEMMA NextFittedInv == FittedInv /\ [Next]_vars => FittedInv'
<1> SUFFICES ASSUME FittedInv, [Next]_vars PROVE FittedInv'
  OBVIOUS
<1>1. fitted' = fitted
  BY DEF Next, ServoThread, Wakes, ReceivesAnswer, Ticks, AppliesSpindle, Rearms, Pushes,
         StopsFullSpindle, EndsInTime, MissesDeadline, SendsSafeImage, ReceivesLastAnswer,
         StopsSpindle, AwaitsSafeStop, EndsWorker, JoinsWorker, LeavesLoop, WorkerThread,
         Board, loopVars, vars
<1>2. CASE ServoThread \/ LeavesLoop
  BY <1>1, <1>2 DEF ServoThread, Wakes, ReceivesAnswer, Ticks, AppliesSpindle, Rearms, Pushes,
         StopsFullSpindle, EndsInTime, MissesDeadline, SendsSafeImage, ReceivesLastAnswer,
         StopsSpindle, AwaitsSafeStop, EndsWorker, JoinsWorker, LeavesLoop, FittedInv, Axes
<1>3. CASE WorkerThread \/ Board \/ UNCHANGED vars
  BY <1>1, <1>3 DEF WorkerThread, Board, loopVars, vars, FittedInv, Axes
<1> QED
  BY <1>2, <1>3 DEF Next

\* Outside the loop, and on a machine with a spindle, nothing is said of the axes.
LEMMA OtherStepsKeepAxes ==
  ASSUME PhysicalInv, AxesInv, FittedInv,
         \/ EndsInTime \/ LeavesLoop \/ SendsSafeImage \/ ReceivesLastAnswer
         \/ AppliesSpindle \/ Rearms \/ Pushes \/ StopsFullSpindle
         \/ StopsSpindle \/ AwaitsSafeStop \/ EndsWorker \/ JoinsWorker
         \/ WorkerThread \/ Board \/ UNCHANGED vars
  PROVE  AxesInv'
<1>1. MesaTypeOK /\ CoreTypeOK
  BY DEF PhysicalInv
<1>2. ASSUME ~Controlled',
             mesaFault' = "following" => mesaFault = "following" /\ slipped' = slipped
      PROVE  AxesInv'
  BY <1>2 DEF AxesInv, FollowingErrorMeansSlip
<1>3. ASSUME UNCHANGED mesaVars, UNCHANGED <<fitted, joint, assigned>>,
             servo' = servo \/ (servo = "late?" /\ servo' = "wait")
      PROVE  AxesInv'
  <2>1. /\ UNCHANGED <<pending, mesaFault, converged, origin, available, aligned>>
        /\ UNCHANGED <<targets, last, replies, board, position, slipped, sequence>>
    BY <1>3 DEF mesaVars
  <2>2. Controlled' => Controlled
    BY <1>3, <2>1 DEF Controlled, Axes
  <2>3. StagedInv => StagedInv'
    BY <1>3, <2>1 DEF StagedInv, DpllReady
  <2>4. /\ WaitingInv => WaitingInv'
        /\ ServedInv => ServedInv'
        /\ ReadInv => ReadInv'
        /\ Answered' => Answered
    BY <1>3, <2>1 DEF WaitingInv, ServedInv, ReadInv, Answered
  <2>5. BoardInv => BoardInv'
    BY <1>3, <2>1, <2>4 DEF BoardInv
  <2>6. FollowingErrorMeansSlip'
    BY <2>1 DEF AxesInv, FollowingErrorMeansSlip
  <2> QED
    BY <2>2, <2>3, <2>5, <2>6 DEF AxesInv
<1>4. CASE EndsInTime
  BY <1>3, <1>4 DEF EndsInTime, coreVars
<1>5. CASE UNCHANGED vars
  BY <1>3, <1>5 DEF vars, coreVars, loopVars
<1>6. CASE WorkerThread
  BY <1>3, <1>6 DEF WorkerThread, coreVars, loopVars
<1>7. CASE Board
  <2>1. /\ UNCHANGED hostVars /\ UNCHANGED <<replies, position, slipped>>
        /\ board'.rate = board.rate
        /\ UNCHANGED <<joint, assigned, servo, fitted>>
    BY <1>1, <1>7, WatchdogKeepsBoard DEF Board, coreVars, loopVars
  <2>2. /\ UNCHANGED <<pending, mesaFault, converged, origin, available, aligned>>
        /\ UNCHANGED <<targets, last, sequence>>
    BY <2>1 DEF hostVars
  <2>3. Controlled' => Controlled
    BY <2>1, <2>2 DEF Controlled, Axes
  <2>4. StagedInv => StagedInv'
    BY <2>1, <2>2 DEF StagedInv, DpllReady
  <2>5. /\ WaitingInv => WaitingInv'
        /\ ServedInv => ServedInv'
        /\ ReadInv => ReadInv'
        /\ Answered' => Answered
    BY <2>1, <2>2 DEF WaitingInv, ServedInv, ReadInv, Answered
  <2>6. BoardInv => BoardInv'
    BY <2>1, <2>2, <2>5 DEF BoardInv
  <2>7. FollowingErrorMeansSlip'
    BY <2>1, <2>2 DEF AxesInv, FollowingErrorMeansSlip
  <2> QED
    BY <2>3, <2>4, <2>6, <2>7 DEF AxesInv
<1>8. CASE LeavesLoop
  <2>1. AppliesAxes(Rest(0), FALSE) /\ servo' \in {"safe", "stop"}
    BY <1>8 DEF LeavesLoop
  <2>2. Rest(0) \in Joints
    BY DEF Rest, Joints
  <2>3. mesaFault' = mesaFault /\ slipped' = slipped
    <3>1. CASE Axes
      <4>1. MesaApplies(Rest(0), FALSE)
        BY <2>1, <3>1 DEF AppliesAxes
      <4>2. StagesSafely(Rest(0)) /\ UNCHANGED boardVars
        BY <1>1, <2>2, <4>1, ImageIsStaged DEF MesaApplies
      <4> QED
        BY <4>2 DEF StagesSafely, boardVars
    <3>2. CASE ~Axes
      BY <2>1, <3>2 DEF AppliesAxes, mesaVars
    <3> QED
      BY <3>1, <3>2
  <2> QED
    BY <1>2, <2>1, <2>3 DEF Controlled
<1>9. CASE SendsSafeImage
  <2>1. servo' \in {"down", "safe sent"} /\ mesaFault' = mesaFault
    BY <1>1, <1>9, DatagramIsServed DEF SendsSafeImage, mesaVars, hostVars
  <2>2. slipped => slipped'
    BY <1>1, <1>9, DatagramIsServed DEF SendsSafeImage, mesaVars
  <2> QED
    BY <2>1, <2>2 DEF AxesInv, Controlled, FollowingErrorMeansSlip
<1>10. CASE ReceivesLastAnswer
  BY <1>1, <1>2, <1>10, AnswerIsDiscarded DEF ReceivesLastAnswer, Controlled, Phases
<1>11. CASE \/ AppliesSpindle \/ Rearms \/ Pushes \/ StopsFullSpindle
            \/ StopsSpindle \/ AwaitsSafeStop \/ EndsWorker \/ JoinsWorker
  <2> USE DEF AppliesSpindle, Rearms, Pushes, StopsFullSpindle, StopsSpindle,
              AwaitsSafeStop, EndsWorker, JoinsWorker
  <2>1. mesaFault' = mesaFault /\ slipped' = slipped /\ fitted' = fitted
    BY <1>11 DEF mesaVars
  <2>2. servo' \in {"rearm", "push", "full", "await", "down", "join", "gone"}
        \/ (servo \in {"spindle", "rearm", "push", "full"} /\ servo' = "late?")
    BY <1>11
  <2> QED
    BY <1>2, <2>1, <2>2 DEF Controlled, FittedInv, Axes
<1> QED
  BY <1>4, <1>5, <1>6, <1>7, <1>8, <1>9, <1>10, <1>11

\* A following error is reported only of a joint whose step generator has missed steps: the
\* reading is compared with the command it belongs to, whatever is lost, repeated, aligned,
\* assigned or stopped before, for every travel and every number of convergence cycles
\* (MesaProductionExecutorIo.cpp, sampleDigitalInputs and applyOutputs), if no move starts
\* in the tick after a coordinate is assigned.
THEOREM FollowingErrorsAreSlips ==
  ASSUME ~QuickHost
  PROVE  Spec => []FollowingErrorMeansSlip
<1> DEFINE Inv == PhysicalInv /\ AxesInv /\ FittedInv
<1>1. Init => Inv
  <2>1. Init => FittedInv
    BY DEF Init, FittedInv
  <2> QED
    BY <2>1, InitPhysicalInv, InitAxesInv
<1>2. Inv /\ [Next]_vars => Inv'
  <2> SUFFICES ASSUME PhysicalInv, AxesInv, FittedInv, [Next]_vars
               PROVE  AxesInv'
    BY NextPhysicalInv, NextFittedInv
  <2> QED
    BY SendingKeepsAxes, ReadingKeepsAxes, TickKeepsAxes, LateTickKeepsAxes,
       OtherStepsKeepAxes DEF Next, ServoThread
<1>3. Inv => FollowingErrorMeansSlip
  BY DEF AxesInv
<1> HIDE DEF Inv
<1> QED
  BY <1>1, <1>2, <1>3, PTL DEF Spec
=============================================================================
