---------------------------- MODULE MCPhysicalIo ----------------------------
EXTENDS PhysicalIo
=============================================================================
