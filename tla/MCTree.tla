-------------------------------- MODULE MCTree --------------------------------
EXTENDS Tree, TLC
=============================================================================
