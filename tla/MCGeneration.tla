---------------------------- MODULE MCGeneration ----------------------------
EXTENDS Generation, MCPrograms
=============================================================================
