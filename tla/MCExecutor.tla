----------------------------- MODULE MCExecutor -----------------------------
(* Small instances of ExecutorSession: the kinds of items its runs publish *)
(* and the two joints of a homing group.                                   *)
EXTENDS ExecutorSession

ProgramKinds == {<<"Chunk", "StopAllowed">>, <<"Chunk", "ContinuationRequired">>,
                 <<"Triggered", "StopAllowed">>}
OperationKinds == {<<"Chunk", "StopAllowed">>, <<"Triggered", "StopAllowed">>,
                   <<"Joint", "Search">>, <<"Joint", "Backoff">>}
=============================================================================
