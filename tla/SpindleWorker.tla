---------------------------- MODULE SpindleWorker ----------------------------
(***************************************************************************)
(* src/SpindleHardware.cpp with the Huanyang drive behind it               *)
(* (src/physical/HuanyangSpindleHardware.cpp): a worker thread that talks  *)
(* to the spindle drive over a serial line, and the atomic safety state    *)
(* and the lock-free queue through which the servo thread stops it and     *)
(* commands it.                                                            *)
(*                                                                         *)
(* A step of the worker is one access to an atomic, one operation on the   *)
(* queue or one serial transaction.  The queue is the SpscChannel, used as *)
(* the sequence it implements; the speed of a command is left out, only    *)
(* the direction is kept.  A transaction is carried out or not and         *)
(* answered or not, whatever the reason: a lost or damaged packet, a       *)
(* timeout, a refused value.                                               *)
(***************************************************************************)
EXTENDS Integers, Sequences, SequencesExt

CONSTANTS
    CommandCapacity     \* commands the queue holds

ASSUME SpindleAssumption == CommandCapacity \in Nat \ {0}

VARIABLES
    safety,     \* m_safety
    spinFault,  \* m_faultCode is not 0
    commands,   \* m_commands, oldest first
    ending,     \* m_stopping
    worker,     \* where the worker thread is in run()
    taken,      \* the command the worker has popped
    drive,      \* how the spindle turns (the drive itself)
    deaf        \* the last stop written did not reach the drive

spindleVars == <<safety, spinFault, commands, ending, worker, taken, drive, deaf>>

Safeties == {"Armed", "StopRequested", "SafeStopped"}
Turns == {"off", "cw", "ccw"}

WorkerAt == {"top", "drain", "stop", "answer", "fault?", "armed?", "pop", "still?",
             "apply", "frequency", "run?", "run", "failed", "failing", "poll",
             "polled", "last stop", "last answer", "ended"}

SpindleTypeOK ==
    /\ safety \in Safeties
    /\ spinFault \in BOOLEAN
    /\ commands \in BoundedSeq(Turns, CommandCapacity)
    /\ ending \in BOOLEAN
    /\ worker \in WorkerAt
    /\ taken \in Turns
    /\ drive \in Turns
    /\ deaf \in BOOLEAN

\* HuanyangSpindleHardware::initialize wrote a stop before the worker starts.
SpindleInit ==
    /\ safety = "Armed"
    /\ spinFault = FALSE
    /\ commands = <<>>
    /\ ending = FALSE
    /\ worker = "top"
    /\ taken = "off"
    /\ drive = "off"
    /\ deaf = FALSE

-----------------------------------------------------------------------------
(* The servo thread's side.                                                *)

\* establishSafeStop: a compare-and-swap, so a safe stop is never requested twice.
EstablishSafeStop ==
    safety' = IF safety = "Armed" THEN "StopRequested" ELSE safety

\* tryRearmAndCommand, the rearming.
MayRearm == safety # "StopRequested"
Rearm == safety' = "Armed"

\* tryRearmAndCommand, the push.
HasRoom == Len(commands) < CommandCapacity
PushCommand(turn) == commands' = Append(commands, turn)

-----------------------------------------------------------------------------
(* The worker.                                                             *)

WorkerGoes(from, to) == worker = from /\ worker' = to

\* The worker starts a round; a safe stop that was requested comes first.
Top ==
    /\ worker = "top"
    /\ worker' = IF ending THEN "last stop"
                 ELSE IF safety = "StopRequested" THEN "drain" ELSE "fault?"
    /\ taken' = "off"
    /\ UNCHANGED <<safety, spinFault, commands, ending, drive, deaf>>

\* while (m_commands.tryPop(desired)) { }
Drain ==
    /\ worker = "drain"
    /\ IF commands = <<>>
       THEN worker' = "stop" /\ UNCHANGED commands
       ELSE commands' = Tail(commands) /\ UNCHANGED worker
    /\ UNCHANGED <<safety, spinFault, ending, taken, drive, deaf>>

\* Mutant: nothing is written any more once a transaction has failed.
WriteStopUnlessFaulted(from, to) ==
    /\ WorkerGoes(from, to)
    /\ IF spinFault THEN UNCHANGED <<drive, deaf>>
       ELSE \E arrives \in BOOLEAN :
                /\ drive' = IF arrives THEN "off" ELSE drive
                /\ deaf' = ~arrives
    /\ UNCHANGED <<safety, spinFault, commands, ending, taken>>

\* safeStop: the result of the transaction is discarded.
WriteStop(from, to) ==
    /\ WorkerGoes(from, to)
    /\ \E arrives \in BOOLEAN :
           /\ drive' = IF arrives THEN "off" ELSE drive
           /\ deaf' = ~arrives
    /\ UNCHANGED <<safety, spinFault, commands, ending, taken>>

SafeStop == WriteStop("stop", "answer")

AnswersSafeStop ==
    /\ WorkerGoes("answer", "fault?")
    /\ safety' = IF safety = "StopRequested" THEN "SafeStopped" ELSE safety
    /\ UNCHANGED <<spinFault, commands, ending, taken, drive, deaf>>

\* if (faultCode() != 0) break;
LeavesOnFault ==
    /\ worker = "fault?"
    /\ worker' = IF spinFault THEN "last stop" ELSE "armed?"
    /\ UNCHANGED <<safety, spinFault, commands, ending, taken, drive, deaf>>

SleepsUnlessArmed ==
    /\ worker = "armed?"
    /\ worker' = IF safety = "Armed" THEN "pop" ELSE "top"
    /\ UNCHANGED <<safety, spinFault, commands, ending, taken, drive, deaf>>

PopsCommand ==
    /\ worker = "pop"
    /\ IF commands = <<>>
       THEN worker' = "poll" /\ UNCHANGED <<commands, taken>>
       ELSE /\ worker' = "still?"
            /\ taken' = Head(commands)
            /\ commands' = Tail(commands)
    /\ UNCHANGED <<safety, spinFault, ending, drive, deaf>>

\* The command is discarded when a stop has been requested meanwhile.
StillArmed ==
    /\ worker = "still?"
    /\ worker' = IF safety = "Armed" THEN "apply" ELSE "poll"
    /\ UNCHANGED <<safety, spinFault, commands, ending, taken, drive, deaf>>

\* applyDesired: a disabled spindle is written a stop.
AppliesCommand ==
    /\ worker = "apply"
    /\ IF safety # "Armed"
       THEN worker' = "pop" /\ UNCHANGED <<drive, deaf>>
       ELSE IF taken # "off"
       THEN worker' = "frequency" /\ UNCHANGED <<drive, deaf>>
       ELSE \E arrives, answered \in BOOLEAN :
                /\ drive' = IF arrives THEN "off" ELSE drive
                /\ deaf' = IF arrives THEN FALSE ELSE deaf
                /\ worker' = IF arrives /\ answered THEN "pop" ELSE "failed"
    /\ UNCHANGED <<safety, spinFault, commands, ending, taken>>

WritesFrequency ==
    /\ worker = "frequency"
    /\ worker' \in {"run?", "failed"}
    /\ UNCHANGED <<safety, spinFault, commands, ending, taken, drive, deaf>>

\* The state is read once more before the drive is told to run.
RunsIfArmed ==
    /\ worker = "run?"
    /\ worker' = IF safety = "Armed" THEN "run" ELSE "pop"
    /\ UNCHANGED <<safety, spinFault, commands, ending, taken, drive, deaf>>

WritesRun ==
    /\ worker = "run"
    /\ \E arrives, answered \in BOOLEAN :
           /\ drive' = IF arrives THEN taken ELSE drive
           /\ worker' = IF arrives /\ answered THEN "pop" ELSE "failed"
    /\ UNCHANGED <<safety, spinFault, commands, ending, taken, deaf>>

\* applyDesired failed: latchFault, then establishSafeStop.
LatchesFault ==
    /\ WorkerGoes("failed", "failing")
    /\ spinFault' = TRUE
    /\ UNCHANGED <<safety, commands, ending, taken, drive, deaf>>

StopsAfterFailure ==
    /\ WorkerGoes("failing", "poll")
    /\ EstablishSafeStop
    /\ UNCHANGED <<spinFault, commands, ending, taken, drive, deaf>>

\* pollStatus: a failed poll, or a fault the drive reports, is latched.
PollsStatus ==
    /\ WorkerGoes("poll", "polled")
    /\ spinFault' \in {spinFault, TRUE}
    /\ UNCHANGED <<safety, commands, ending, taken, drive, deaf>>

\* A fault requests the safe stop; otherwise the worker sleeps and starts over.
EndsRound ==
    /\ WorkerGoes("polled", "top")
    /\ IF spinFault THEN EstablishSafeStop ELSE UNCHANGED safety
    /\ UNCHANGED <<spinFault, commands, ending, taken, drive, deaf>>

LastStop == WriteStop("last stop", "last answer")

\* Mutant: the thread ends without answering a stop requested meanwhile.
EndsSilently ==
    /\ WorkerGoes("last answer", "ended")
    /\ UNCHANGED <<safety, spinFault, commands, ending, taken, drive, deaf>>

\* m_safety.store(SafeStopped): the worker's last word.
LastAnswer ==
    /\ WorkerGoes("last answer", "ended")
    /\ safety' = "SafeStopped"
    /\ UNCHANGED <<spinFault, commands, ending, taken, drive, deaf>>

Worker ==
    \/ Top \/ Drain \/ SafeStop \/ AnswersSafeStop \/ LeavesOnFault
    \/ SleepsUnlessArmed \/ PopsCommand \/ StillArmed \/ AppliesCommand
    \/ WritesFrequency \/ RunsIfArmed \/ WritesRun \/ LatchesFault
    \/ StopsAfterFailure \/ PollsStatus \/ EndsRound \/ LastStop \/ LastAnswer

=============================================================================
