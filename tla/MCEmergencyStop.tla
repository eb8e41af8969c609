--------------------------- MODULE MCEmergencyStop ---------------------------
(* One remote and one local source, two resets, two updates: a status read   *)
(* can overlap both publications, and a reset can land in either update.     *)
EXTENDS EmergencyStop
=============================================================================
