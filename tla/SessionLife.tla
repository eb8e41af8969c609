---------------------------- MODULE SessionLife ----------------------------
(***************************************************************************)
(* What a machine session promises to those who power it and give it work. *)
(* It works only when its power is on, and it is powered on again after a  *)
(* fault only when what it was doing has come to its end.                  *)
(***************************************************************************)

VARIABLES
    power,    \* MachinePowerState
    working   \* an operation is carried out

vars == <<power, working>>

PowerStates == {"Off", "Starting", "On", "Stopping", "Faulted"}
TypeOK == power \in PowerStates /\ working \in BOOLEAN

Init == power = "Off" /\ ~working

PowersOn ==
    \/ power = "Off" /\ ~working /\ power' = "Starting" /\ UNCHANGED working
    \/ power = "Starting" /\ power' = "On" /\ UNCHANGED working

PowersOff ==
    \/ power = "On" /\ ~working /\ power' = "Stopping" /\ UNCHANGED working
    \/ power = "Stopping" /\ power' = "Off" /\ UNCHANGED working

\* Whatever it does, a session that is powered can be faulted, and stays so until it is
\* reset.
Faults == power # "Off" /\ power' = "Faulted" /\ UNCHANGED working
Resets == power = "Faulted" /\ ~working /\ power' = "Off" /\ UNCHANGED working

Begins == power = "On" /\ ~working /\ working' = TRUE /\ UNCHANGED power
Ends == working /\ working' = FALSE /\ UNCHANGED power

Next == PowersOn \/ PowersOff \/ Faults \/ Resets \/ Begins \/ Ends
Spec == Init /\ [][Next]_vars

-----------------------------------------------------------------------------

\* A session that is switching its power or is off works at nothing.
WorksOnlyWhenPowered == working => power \in {"On", "Faulted"}
=============================================================================
