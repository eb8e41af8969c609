----------------------------- MODULE BoundedFifo -----------------------------
(***************************************************************************)
(* What a single-producer single-consumer channel promises: a FIFO of at   *)
(* most Capacity values, from which every value is taken once, in the      *)
(* order it was put in.                                                    *)
(***************************************************************************)
EXTENDS Naturals, Sequences

CONSTANTS Capacity, Values, NoValue

VARIABLES
    queue,      \* values pushed and not yet popped, oldest first
    taken       \* the value the consumer received last

fifoVars == <<queue, taken>>

FifoInit == queue = <<>> /\ taken = NoValue

Put(v) ==
    /\ Len(queue) < Capacity
    /\ queue' = Append(queue, v)
    /\ UNCHANGED taken

Take ==
    /\ queue # <<>>
    /\ taken' = Head(queue)
    /\ queue' = Tail(queue)

FifoNext == Take \/ \E v \in Values : Put(v)

FifoSpec == FifoInit /\ [][FifoNext]_fifoVars
=============================================================================
