---------------------------- MODULE PreparedGeometry ----------------------------
(***************************************************************************)
(* The geometry shared by the producer and the planner                     *)
(* (src/src/PreparedGeometry.cpp): how the motions of a program become     *)
(* path pieces, and how the planner divides prepared pieces in two.        *)
(*                                                                         *)
(* A motion is a command record                                            *)
(*   id      its PreparedCommandId, in program order                       *)
(*   mode    "Continuous" (G64) or "ExactStop"                             *)
(*   from    where it begins, as a distance along the program's path       *)
(*   length  of the path it stands for                                     *)
(*   trim    3P, P its path tolerance: what a replacement takes of an end  *)
(* A piece covers the distances from .. to of the same path, so that a     *)
(* spline is as long as the source it replaces and the feed is one.  Its   *)
(* activation stations are <<command, distance>> in the order of distance. *)
(***************************************************************************)
EXTENDS Integers, Sequences, FiniteSets, SequencesExt

Modes == {"Continuous", "ExactStop"}

Piece(kind, from, to, primary, stations, sources) ==
    [kind |-> kind, from |-> from, to |-> to, primary |-> primary,
     stations |-> stations, sources |-> sources]

End(record) == record.from + record.length

\* Longer than 6P: both ends can be trimmed and a section remains.
IsLong(record) == record.length > 2 * record.trim
Trim(record) == IF IsLong(record) THEN record.trim ELSE record.length \div 2

References(pieces) ==
    UNION {{pieces[i].primary} \cup pieces[i].sources
           \cup {station[1] : station \in Range(pieces[i].stations)} : i \in DOMAIN pieces}
Activated(pieces) ==
    UNION {{station[1] : station \in Range(pieces[i].stations)} : i \in DOMAIN pieces}

-----------------------------------------------------------------------------
(* Preparation *)

\* Runs of short entities between two long ones.
ShortEntityClusters(records) ==
    {c \in (DOMAIN records) \X (DOMAIN records) :
        /\ c[2] > c[1] + 1
        /\ IsLong(records[c[1]]) /\ IsLong(records[c[2]])
        /\ \A i \in c[1] + 1 .. c[2] - 1 : ~IsLong(records[i])}

\* Mutant of RetainedSection: the section begins at the start of its command even
\* though an earlier preparation has replaced that start.
RetainedSectionFromStart(records, i, incoming) ==
    LET r == records[i]
        from == IF i = 1 THEN r.from ELSE r.from + Trim(r)
        to == IF i = Len(records) THEN End(r) ELSE End(r) - Trim(r)
    IN  IF from >= to THEN <<>>
        ELSE <<Piece("RetainedLineSection", from, to, r.id, <<<<r.id, from>>>>, {r.id})>>

\* What is left of an entity between its trimmed ends.
RetainedSection(records, i, incoming) ==
    LET r == records[i]
        from == IF i = 1 /\ ~incoming THEN r.from ELSE r.from + Trim(r)
        to == IF i = Len(records) THEN End(r) ELSE End(r) - Trim(r)
    IN  IF from >= to THEN <<>>
        ELSE <<Piece("RetainedLineSection", from, to, r.id, <<<<r.id, from>>>>, {r.id})>>

JunctionBlend(left, right) ==
    LET from == End(left) - Trim(left)
    IN  Piece("JunctionBlend", from, right.from + Trim(right), right.id,
              <<<<right.id, from>>>>, {left.id, right.id})

\* Mutant of ClusterSpline: the long entity behind the cluster has no station on it.
ClusterSplineWithoutLast(records, left, right) ==
    Piece("ClusterSpline", End(records[left]) - Trim(records[left]),
          records[right].from + Trim(records[right]), records[left].id,
          [i \in 1 .. right - left - 1 |-> <<records[left + i].id, records[left + i].from>>],
          {records[i].id : i \in left .. right})

ClusterSpline(records, left, right) ==
    Piece("ClusterSpline", End(records[left]) - Trim(records[left]),
          records[right].from + Trim(records[right]), records[left].id,
          [i \in 1 .. right - left |-> <<records[left + i].id, records[left + i].from>>],
          {records[i].id : i \in left .. right})

\* prepareContinuousGeometry.  incoming: an earlier preparation has replaced the
\* start of the first entity; deferred: the section of the last one is not final.
PrepareContinuousGeometry(records, incoming, deferred) ==
    LET clusters == ShortEntityClusters(records)
        collapsed == {i \in DOMAIN records : \E c \in clusters : c[1] < i /\ i < c[2]}
        section(i) == IF i \in collapsed \/ (deferred /\ i = Len(records)) THEN <<>>
                      ELSE RetainedSection(records, i, incoming)
        replacement(i) ==
            IF i = Len(records) \/ i \in collapsed THEN <<>>
            ELSE IF \E c \in clusters : c[1] = i
            THEN <<ClusterSpline(records, i, (CHOOSE c \in clusters : c[1] = i)[2])>>
            ELSE <<JunctionBlend(records[i], records[i + 1])>>
    IN  FlattenSeq([i \in DOMAIN records |-> section(i) \o replacement(i)])

PrepareExactStopGeometry(records) ==
    [i \in DOMAIN records |->
        LET r == records[i]
        IN  Piece("RetainedLineSection", r.from, End(r), r.id, <<<<r.id, r.from>>>>, {r.id})]

-----------------------------------------------------------------------------
(* Division by the planner.  A geometry is [pieces, commands], its commands *)
(* a set of [id, mode, activation].                                         *)

GeometryForPieces(source, pieces) ==
    [pieces |-> pieces,
     commands |-> {[c EXCEPT !.activation = @ /\ c.id \in Activated(pieces)] :
                      c \in {d \in source.commands : d.id \in References(pieces)}}]

\* A line may be divided at a quarter of its length, a cluster at a knot.
CutPoints(piece) ==
    CASE piece.kind = "RetainedLineSection" ->
            {piece.from + (k * (piece.to - piece.from)) \div 4 : k \in 1 .. 3} \ {piece.from}
      [] piece.kind = "ClusterSpline" -> piece.from + 1 .. piece.to - 1
      [] OTHER -> {}

Before(piece, cut) ==
    [piece EXCEPT !.to = cut, !.stations = SelectSeq(@, LAMBDA s : s[2] < cut)]
Behind(piece, cut) ==
    [piece EXCEPT !.from = cut, !.stations = SelectSeq(@, LAMBDA s : s[2] >= cut),
                  !.sources = IF piece.kind = "ClusterSpline" THEN {piece.primary} ELSE @]

\* splitPreparedGeometry
SplitPreparedGeometry(geometry, cut) ==
    LET pieces == geometry.pieces
        i == CHOOSE j \in DOMAIN pieces : pieces[j].from < cut /\ cut < pieces[j].to
    IN  [prefix |-> GeometryForPieces(geometry,
                        Append(SubSeq(pieces, 1, i - 1), Before(pieces[i], cut))),
         suffix |-> GeometryForPieces(geometry,
                        <<Behind(pieces[i], cut)>> \o SubSeq(pieces, i + 1, Len(pieces)))]
=============================================================================
