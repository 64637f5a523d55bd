---------------------------- MODULE MCModuleInit ----------------------------
\* Instance of ModuleInit for TLC: every dependency graph of three modules
\* that may be disabled, depend on themselves or on a module that is not
\* there; every graph of four modules without self dependencies; and every
\* pair of modules with repeated or empty names.
EXTENDS ModuleInit

CONSTANTS a, b, c, d

Graphs3 ==
    LET M(n) == [name : {n}, enabled : BOOLEAN, deps : SUBSET {a, b, c, d}]
    IN  {<<x, y, z>> : x \in M(a), y \in M(b), z \in M(c)}

Graphs4 ==
    LET M(n) == [name : {n}, enabled : {TRUE}, deps : SUBSET ({a, b, c, d} \ {n})]
    IN  {<<w, x, y, z>> : w \in M(a), x \in M(b), y \in M(c), z \in M(d)}

Named2 ==
    LET M == [name : {a, b, NoName}, enabled : BOOLEAN, deps : SUBSET {a, b, NoName}]
    IN  {<<x, y>> : x \in M, y \in M}

MCRegistrations == Graphs3 \cup Graphs4 \cup Named2
=============================================================================
