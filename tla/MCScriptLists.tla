--------------------------- MODULE MCScriptLists ---------------------------
EXTENDS ScriptLists, TLC
CONSTANTS a, b, c, i1, i2, i3
Two == [o \in {a, b, c, i1, i2, i3} |-> IF o \in {a, i2} THEN 2 ELSE 1]
=============================================================================
