--------------------------- MODULE TrajectoryPlanner ---------------------------
(***************************************************************************)
(* TrajectoryPlanner (src/src/include/machine/TrajectoryPlanner.h): it     *)
(* retains the prepared geometry of a chain and plans execution items from *)
(* it, a prefix at a time while the chain goes on (a rolling horizon).  An *)
(* operator takes the record w of its members                              *)
(*   geometry   m_preparedWindow, or NoGeometry                            *)
(*   chain, ended   m_preparedChain, m_preparedChainEnded                  *)
(*   window     m_window while it holds exact stops: the pieces to plan    *)
(*   moving     whether m_continuousBoundary has velocity or acceleration  *)
(*                                                                         *)
(* Compilation is abstract: the proofs of a candidate boundary succeed or  *)
(* fail, geometry that must be planned to its end can be, and every piece  *)
(* becomes an item of its own.  An item is                                 *)
(*   from, to   the path it moves along, the same for a standalone command *)
(*   activates  the commands it activates                                  *)
(*   entry      "Rest" or "Moving": the state it is planned to start in    *)
(*   policy     its stop-tail policy                                       *)
(***************************************************************************)
EXTENDS PreparedGeometry

CONSTANT LookaheadDuration    \* TrajectoryLimits::lookaheadDuration

ASSUME LookaheadAssumption == LookaheadDuration \in Nat \ {0}

NoGeometry == [pieces |-> <<>>, commands |-> {}]

IdlePlanner ==
    [geometry |-> NoGeometry, chain |-> 0, ended |-> FALSE, window |-> <<>>, moving |-> FALSE]

Retained(w) == w.geometry.pieces # <<>>
WindowSize(w) == IF Retained(w) THEN Cardinality(w.geometry.commands) ELSE Len(w.window)
Begins(pieces) == Head(pieces).from
Ends(pieces) == Last(pieces).to

HasRollingContinuation(w) == WindowSize(w) # 0 /\ w.moving

ShouldPlanRollingPrefix(w) ==
    Retained(w) /\ \/ w.ended
                   \/ Ends(w.geometry.pieces) - Begins(w.geometry.pieces) >= 2 * LookaheadDuration

ShouldPlanImmediately(w) == ~Retained(w) /\ w.window # <<>>

-----------------------------------------------------------------------------
(* enqueuePrepared *)

ExactStopInputs(slice) ==
    [i \in DOMAIN slice.pieces |-> [piece |-> slice.pieces[i],
        activation |-> \E c \in slice.commands : c.id = slice.pieces[i].primary /\ c.activation]]

\* Why a slice is rejected.
Rejection(w, slice) ==
    LET modes == {c.mode : c \in slice.commands}
        known == {c.id : c \in w.geometry.commands \cup slice.commands}
        owners == {piece.primary : piece \in Range(slice.pieces)}
    IN  IF slice.pieces = <<>> \/ modes = {} THEN "Empty"
        ELSE IF Cardinality(modes) > 1 THEN "Mixed"
        ELSE IF modes = {"ExactStop"}
        THEN IF WindowSize(w) # 0 THEN "Overlap"
             ELSE IF Len(slice.pieces) # Cardinality(slice.commands)
                     \/ owners # {c.id : c \in slice.commands} THEN "Ownership" ELSE "None"
        ELSE IF w.ended THEN "AfterEnd"
        ELSE IF Retained(w) /\ w.chain # slice.chain THEN "Chain"
        ELSE IF ~Retained(w) /\ w.window # <<>> THEN "Overlap"
        ELSE IF ~(References(slice.pieces) \subseteq known) THEN "Unknown"
        ELSE IF Retained(w) /\ Ends(w.geometry.pieces) # Begins(slice.pieces) THEN "Gap"
        ELSE "None"

EnqueuePrepared(w, slice) ==
    IF {c.mode : c \in slice.commands} = {"ExactStop"}
    THEN [w EXCEPT !.window = ExactStopInputs(slice)]
    ELSE [w EXCEPT !.chain = slice.chain, !.geometry =
             [pieces |-> @.pieces \o slice.pieces,
              commands |-> @.commands \cup {c \in slice.commands :
                                               \A d \in @.commands : d.id # c.id}]]

-----------------------------------------------------------------------------
(* planOne, planWindow *)

Item(from, to, activates, entry, policy) ==
    [from |-> from, to |-> to, activates |-> activates, entry |-> entry, policy |-> policy]

Planned(w, items) == [planner |-> w, items |-> items]

\* One exact stop or standalone command.
PlanOne(w) ==
    LET input == Head(w.window)
    IN  Planned([w EXCEPT !.window = Tail(@), !.moving = FALSE],
                <<Item(input.piece.from, input.piece.to,
                       IF input.activation THEN <<input.piece.primary>> ELSE <<>>,
                       "Rest", "StopAllowed")>>)

\* compileContinuous: the first station of a command that is to be activated counts.
CompileContinuous(geometry, moving, terminal) ==
    LET pieces == geometry.pieces
        due == {c.id : c \in {d \in geometry.commands : d.activation}}
        firstOn(i) == SelectSeq(pieces[i].stations,
            LAMBDA s : s[1] \in due \ Activated(SubSeq(pieces, 1, i - 1)))
    IN  [i \in DOMAIN pieces |->
            Item(pieces[i].from, pieces[i].to, [k \in DOMAIN firstOn(i) |-> firstOn(i)[k][1]],
                 IF moving \/ i > 1 THEN "Moving" ELSE "Rest",
                 IF terminal /\ i = Len(pieces) THEN "StopAllowed" ELSE "ContinuationRequired")]

\* Where the retained geometry can be divided: a full lookahead before the cut, and
\* behind it unless the machine may stop at the end.
Boundaries(pieces, allowTerminalStop) ==
    {cut \in UNION {CutPoints(pieces[i]) : i \in DOMAIN pieces} :
        /\ cut - Begins(pieces) >= LookaheadDuration
        /\ allowTerminalStop \/ Ends(pieces) - cut >= LookaheadDuration}

PlanPrefix(w, cut) ==
    LET split == SplitPreparedGeometry(w.geometry, cut)
    IN  Planned([w EXCEPT !.geometry = split.suffix, !.moving = TRUE],
                CompileContinuous(split.prefix, w.moving, FALSE))

PlanTerminal(w) ==
    Planned([w EXCEPT !.geometry = NoGeometry, !.chain = 0, !.ended = FALSE, !.moving = FALSE],
            CompileContinuous(w.geometry, w.moving, TRUE))

\* What planWindow may leave: the proofs of any boundary may be the first to succeed,
\* and those of all may fail.
PlanWindow(w, allowTerminalStop) ==
    IF WindowSize(w) = 0 THEN {Planned(w, <<>>)}
    ELSE IF ~Retained(w) THEN {PlanOne(w)}
    ELSE {PlanPrefix(w, cut) : cut \in Boundaries(w.geometry.pieces, allowTerminalStop)}
         \cup {IF allowTerminalStop THEN PlanTerminal(w) ELSE Planned(w, <<>>)}
=============================================================================
