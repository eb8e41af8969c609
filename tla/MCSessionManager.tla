-------------------------- MODULE MCSessionManager --------------------------
(* Both sessions, the one of the simulation and the one of the machine.     *)
EXTENDS SessionManager

BothSessions == {"Simulation", "Machine"}
=============================================================================
