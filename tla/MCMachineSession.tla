-------------------------- MODULE MCMachineSession --------------------------
(* Small instances of MachineSession: programs with one of each barrier,   *)
(* and one whose preparation fails.                                        *)
EXTENDS MachineSession

Program(messages) == [messages |-> messages, preserve |-> FALSE]
Line == <<"Slice", "ContinuousEnd">>
Pausing == Program(Line \o <<"ProgramPause", "ProgramEnd">>)
Probing ==
    Program(<<"Standalone", "ProbeFence", "PresentationUpdate">> \o Line \o <<"ProgramEnd">>)
Fenced == Program(Line \o <<"SynchronizationFence">> \o Line \o <<"ProgramEnd">>)
Failing == Program(<<"Slice", "Failure">>)
AllPrograms == {Pausing, Probing, Failing}
OneProgram == {Fenced}
NoPrograms == {}
=============================================================================
