------------------------ MODULE MCExternalExecutor ------------------------
EXTENDS ExternalExecutor
=============================================================================
