------------------------------ MODULE MCEngine ------------------------------
EXTENDS EngineProperties
=============================================================================
