--------------------------- MODULE MCDynamicPprof ---------------------------
\* Instance of DynamicPprof for TLC: the constants are given in the .cfg files.
EXTENDS DynamicPprof
=============================================================================
