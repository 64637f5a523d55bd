--------------------------- MODULE MCLuaExecutor ---------------------------
\* Instances of LuaExecutor for TLC: the constants are given in the .cfg files.
EXTENDS LuaExecutor
=============================================================================
