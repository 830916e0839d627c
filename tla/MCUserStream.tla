---------------------------- MODULE MCUserStream ----------------------------
EXTENDS UserStream
CONSTANTS k1, k2   \* The listen keys of the instance.
=============================================================================
