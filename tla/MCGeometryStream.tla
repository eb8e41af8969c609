---------------------------- MODULE MCGeometryStream ----------------------------
(***************************************************************************)
(* A program of a few motions: long and short continuous ones of the same  *)
(* tolerance, a long one of another tolerance, and a rapid.                *)
(***************************************************************************)
EXTENDS GeometryStream

Motion(mode, length, trim) == [mode |-> mode, length |-> length, trim |-> trim]

AllMotions ==
    {Motion("Continuous", 12, 2), Motion("Continuous", 2, 2),
     Motion("Continuous", 12, 1), Motion("ExactStop", 4, 2)}
=============================================================================
