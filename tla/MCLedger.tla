------------------------------ MODULE MCLedger ------------------------------
EXTENDS FillLedger
=============================================================================
